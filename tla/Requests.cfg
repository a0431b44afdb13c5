SPECIFICATION AllSpec
CONSTANTS
  t1 = t1
  t2 = t2
  r1 = r1
  r2 = r2
  c1 = c1
  c2 = c2
  e1 = e1
  e2 = e2
  e3 = e3
  NoToken = NoToken
  Tokens = {t1, t2}
  Requests = {r1}
  Streaming = {r1}
  Primary = {t1}
  Fallback = {t2}
  HasFallback = TRUE
  MaxTokens = 1
  PerTokenRetries = 2
  HasBudget = TRUE
  OutCap = 1
  BreakerThreshold = 2
  ChatErrors <- MCErrors
  StreamErrors <- MCStreamErrors
  Ids = {1, 2, 3}
  Uses = {"chat", "image"}
  Priorities = {0, 1}
  MaxUnits = 1
  MaxPicks = 4
  None = None
  Checkers <- TwoCheckers
  Entries <- ThreeEntries
  DailyLimit = 1
  RateLimit = 1
  Window = 1
  MaxTime = 2
  MaxDays = 1
  NoRecord = None
  Logins <- TwoCheckers
  Records <- ThreeEntries
  MaxFailures = 2
  FailWindow = 1
  LastTick = 2
INVARIANTS OneOutcome ClosedBelowThreshold Rotation DailyBounded WindowBounded FailuresBounded
PROPERTIES EveryRequestEnds RefusedWhenFull ChecksEnd

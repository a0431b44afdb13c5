SPECIFICATION Spec
CONSTANTS
  t1 = t1
  t2 = t2
  r1 = r1
  r2 = r2
  NoToken = NoToken
  Tokens = {t1}
  Requests = {r1}
  Streaming = {r1}
  Primary = {t1}
  Fallback = {}
  HasFallback = FALSE
  MaxTokens = 2
  PerTokenRetries = 2
  HasBudget = TRUE
  OutCap = 1
  BreakerThreshold = 1
  ChatErrors <- MCErrors
  StreamErrors <- MCStreamErrors
INVARIANT AlwaysAnswered

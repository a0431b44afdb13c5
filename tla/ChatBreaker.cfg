SPECIFICATION HistorySpec
CONSTANTS
  t1 = t1
  r1 = r1
  NoToken = NoToken
  Tokens = {t1}
  Requests = {r1}
  Streaming = {r1}
  Primary = {t1}
  Fallback = {}
  HasFallback = FALSE
  MaxTokens = 2
  PerTokenRetries = 2
  HasBudget = FALSE
  OutCap = 1
  BreakerThreshold = 2
  ChatErrors = {}
  StreamErrors <- MCStreamErrors
INVARIANT OpensAfterFailures

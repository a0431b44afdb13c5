SPECIFICATION Spec
CONSTANTS
  t1 = t1
  t2 = t2
  r1 = r1
  r2 = r2
  f1 = f1
  chat = chat
  image = image
  Tokens = {t1}
  NoToken = NoToken
  Requests = {r1}
  NoRequest = NoRequest
  Fetchers = {}
  NoFetch = NoFetch
  Categories = {chat, image}
  Chat = chat
  Rows <- FreshRows
  Remainings = {2}
  Costs = {1, 2}
  DefaultQuota <- MCDefaultQuota
  FallbackQuota <- MCFallbackQuota
  FailThreshold = 2
  MaxReports = 1
  Modes = {"auto"}
INVARIANT NoZombie

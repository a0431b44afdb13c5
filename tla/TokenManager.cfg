SPECIFICATION FairSpec
CONSTANTS
  t1 = t1
  t2 = t2
  r1 = r1
  r2 = r2
  f1 = f1
  chat = chat
  image = image
  Tokens = {t1}
  NoToken = NoToken
  Requests = {r1, r2}
  NoRequest = NoRequest
  Fetchers = {f1}
  NoFetch = NoFetch
  Categories = {chat, image}
  Chat = chat
  Rows <- MCRows
  Remainings <- MCRemainings
  Costs = {2}
  DefaultQuota <- MCDefaultQuota
  FallbackQuota <- MCFallbackQuota
  FailThreshold = 1
  MaxReports = 1
  Modes = {"auto", "upstream"}
INVARIANTS
  BaselineCoversQuota
  CoolingHasDeadline
PROPERTIES
  ZombiesComeFromSuccessReports
  DirtySpec
  ElapsedCoolingEnds
  TickerRestores

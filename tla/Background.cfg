SPECIFICATION MCSpec
CONSTANTS
    r1 = r1
    w1 = w1
    c1 = c1
    c2 = c2
    t1 = t1
    t2 = t2
    Requests <- MCRequests
    Workers <- MCWorkers
    Callers <- MCCallers
    Tokens <- MCTokens
    MaxSize = 2
    MaxRecords = 4
    MaxChanges <- MCMaxChanges
    Bits = 6
    Cooldown = 5
    MaxGap = 15
    MaxFails = 6
    MaxAge = 3
    Interval = 2
INVARIANTS InOrder RecentKept StopDrains BurstBounded TokensSaved UsageSaved
PROPERTIES RecordsLeave TriggerTaken Exits
CHECK_DEADLOCK FALSE

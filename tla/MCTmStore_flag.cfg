\* A lookup races a rejection: the flagged row comes back into the cache.
SPECIFICATION Spec
CONSTANTS
    Threads = {t1, t2}
    Keys = {1}
    Candidates <- GoodAndBad
    NoRow = NoRow
    Capacity = 1
    WarmupN = 1
    FlushThreshold = 100
    MaxHits = 2
    MaxFailures = 0
INVARIANT FlaggedRowsStopAnswering

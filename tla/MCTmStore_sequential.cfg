\* One caller, more texts than the cache holds: eviction, warm-up and recency.
SPECIFICATION Spec
CONSTANTS
    Threads = {t1}
    Keys = {1, 2, 3}
    Candidates <- GoodAndBad
    NoRow = NoRow
    Capacity = 2
    WarmupN = 3
    FlushThreshold = 1
    MaxHits = 3
    MaxFailures = 0
INVARIANT CacheConsistent
INVARIANT AnswersMatchIndex

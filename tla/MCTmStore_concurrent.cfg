\* Two callers race on one text: lookups, upserts, hits, rejections, flushes that
\* may fail, and restarts at any step.
SPECIFICATION Spec
CONSTANTS
    Threads = {t1, t2}
    Keys = {1}
    Candidates <- GoodAndBad
    NoRow = NoRow
    Capacity = 1
    WarmupN = 1
    FlushThreshold = 2
    MaxHits = 2
    MaxFailures = 1
INVARIANT TypeOK
INVARIANT CacheNeverAhead
INVARIANT LossBounded
PROPERTY KeepsContract

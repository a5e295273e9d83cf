\* A translation and a reload of the one checkpoint.
SPECIFICATION Spec
CONSTANTS
    Threads = {t1, t2}
    Pairs = {checkpoint}
    Backends = {"madlad"}
    Unknown = Unknown
    Unnamed = Unnamed
    MaxLoads = 2
INVARIANT ReloadOnlyCostsALoad

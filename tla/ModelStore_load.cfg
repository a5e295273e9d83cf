\* Two handlers over two pairs or one checkpoint: requests, warm-ups, reloads.
SPECIFICATION Spec
CONSTANTS
    Threads = {t1, t2}
    Pairs = {enzh, zhen}
    Backends = {"ct2", "madlad"}
    Unknown = Unknown
    Unnamed = Unnamed
    MaxLoads = 2
INVARIANT TypeOK
INVARIANT LoadsFillHoles
INVARIANT ClaimsMatchLoads
PROPERTY LockComesBack

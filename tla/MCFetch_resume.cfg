\* Two downloaders, one destination; upstream may replace the asset once.
SPECIFICATION Spec
CONSTANTS
    g1 = g1
    g2 = g2
    Procs = {p1, p2}
    Gens = {g1, g2}
    Size <- TwoThenThree
    Hosts = {up, inside}
    Allowlisted = {up, inside}
    Declared = {}
    NonPublic = {inside}
    Validators = {g1, NoFile}
    Pins = {g1, NoPin}
    NoPin = NoPin
    NoFile = NoFile
    Unstated = Unstated
    MaxAttempts = 3
    MaxReleases = 1
SYMMETRY AnyOrder
INVARIANT TypeOK
INVARIANT PinnedLandsExact
INVARIANT UnpinnedLandsWhole
INVARIANT OneResumer
CHECK_DEADLOCK FALSE

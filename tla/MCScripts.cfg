\* The maintenance scripts, each over two generations of what it handles.
SPECIFICATION Spec
CONSTANTS
    None = None
    Junk = Junk
    Splice = Splice
    Gens = {g1, g2}
    Assets = {m, n}
    Main = m
    Unasked = Unasked
    Silent = Silent
    Families = {"argos", "voice", "voicefile", "madlad"}
    Attempts = 2
    MaxRuns = 3
    MaxReleases = 1
    MaxTampers = 1
    Keys = {"argos", "voice", "madlad"}
    Names = {n1, n2}
    MaxChecks = 2
    MaxMoves = 2
    MaxCloses = 1
    Files = {bin, origin}
    Origin = origin
    MaxPacks = 1
    MaxInstalls = 2
    MaxChanges = 2
    Rows = {r1}
    Builds = {b1, b2}
    App = App
    Old = Old
    MaxInvocations = 2
    MaxPublished = 2
    Options <- CommandLines
    MaxLaunches = 2
    MaxRebuilds = 1
    MaxMishaps = 1
    Engines = {1, 2}
    Directions = {1, 2}
    Draws <- SampleDraws
    Splits = {dev, devtest}
    MaxCollections = 2
    MaxErrors = 1
SYMMETRY AnyGeneration
INVARIANTS
    TypeOK
    ForcedIsCurrent
    ValidatorsDescribeDigest
    FinishedIsPinned
    RecordNamesHeld
    AllClearIsEarned
    FindingReachesReader
    InstalledMatches
    RefusalTouchesNothing
    ShippedIsUsable
    NoSidecarLeftBehind
    FloorIsOneSeries
    OneDrawPerFile
    OthersKept
CHECK_DEADLOCK FALSE

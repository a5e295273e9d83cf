\* A pack's row wins over a row of another source.
SPECIFICATION Spec
CONSTANTS
    Callers = {c1}
    Worker = w
    camera = camera
    av = av
    med = med
    Terms = {camera}
    Domains = {av, med}
    Generic = Generic
    NoRow = NoRow
    Edits <- TypedEntries
    Packs <- SeedPacks
    Tasks <- MinedTasks
    MinConfidence = 2
    FlushThreshold = 1
    MaxInbox = 1
INVARIANT SeedRowsReadSeed

\* Two callers and the worker write one term, in two domains: edits, deletes, imports,
\* tasks, flushes that may fail, restarts at any step.
SPECIFICATION Spec
CONSTANTS
    Callers = {c1, c2}
    Worker = w
    camera = camera
    av = av
    med = med
    Terms = {camera}
    Domains = {av, med}
    Generic = Generic
    NoRow = NoRow
    Edits <- TypedEntries
    Packs <- SeedPacks
    Tasks <- MinedTasks
    MinConfidence = 2
    FlushThreshold = 1
    MaxInbox = 1
SYMMETRY AnyOrder
INVARIANT TypeOK
INVARIANT LockedTermsHold
INVARIANT BestOfferKept
INVARIANT ImportAccounted
INVARIANT ListingIgnoresOrder

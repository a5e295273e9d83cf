------------------------------ MODULE Scripts ------------------------------
(***************************************************************************)
(* The maintenance scripts side by side: the fetch scripts (Downloads),    *)
(* the upstream check and its report (ModelUpdates), the offline bundle    *)
(* (OfflineBundle), the benchmark of a domain (Evidence) and the one over  *)
(* drawn sentences (FloresEvidence).  They share no state: each works on a *)
(* directory, a file or a port of its own, so what holds of each alone     *)
(* holds of all together, and one of them moves in a behaviour while the   *)
(* variables of the others stay None.                                      *)
(***************************************************************************)
EXTENDS ModelOrigin, Naturals, FiniteSets

CONSTANTS
    Main, Families, Junk, Attempts, MaxRuns, MaxReleases, MaxTampers,
    Keys, Names, MaxChecks, MaxMoves, MaxCloses,
    Files, Origin, MaxPacks, MaxInstalls, MaxChanges,
    Rows, Builds, App, Old, Options, MaxInvocations, MaxPublished, MaxLaunches,
    MaxRebuilds, MaxMishaps,
    Engines, Directions, Draws, Splits, MaxCollections, MaxErrors

ASSUME ScriptsAssumption ==
    /\ Main \in Assets /\ Origin \in Files /\ Junk \notin Gens \cup {Splice} /\ App # Old
    /\ Families \subseteq {"argos", "voice", "voicefile", "madlad"}
    /\ Keys \subseteq {"argos", "voice", "madlad"}
    /\ \A options \in Options : /\ options.repeats \in Nat \ {0} /\ options.comet \in BOOLEAN
                                /\ options.arms \in {{"base"}, {"base", "scope"}}
    /\ Names # {} /\ Gens \cap Names = {}
    /\ None \notin Gens \cup Names \cup Builds \cup {Junk, App, Old}
    /\ {Attempts, MaxLaunches} \subseteq Nat \ {0}
    /\ Engines \subseteq Nat \ {0} /\ Directions \subseteq Nat /\ None \notin Splits
    /\ Draws \subseteq SUBSET Nat
    /\ {MaxRuns, MaxReleases, MaxTampers, MaxChecks, MaxMoves, MaxCloses, MaxPacks, MaxInstalls,
        MaxChanges, MaxInvocations, MaxPublished, MaxRebuilds, MaxMishaps} \subseteq Nat

VARIABLES
    tool,                                                              \* the script that moves
    family, pin, served, parked, file, tree, cut, doc, run, outcome, budget, \* Downloads
    upstream, baseline, issues, check, last, spent,                    \* ModelUpdates
    src, bundle, dest, part, receipt, pack, inst, deliver, ended, used,\* OfflineBundle
    build, port, alive, files, runner, report, counts,                 \* Evidence
    collected, collector, errors, collections, resumed                 \* FloresEvidence

D == INSTANCE Downloads
U == INSTANCE ModelUpdates
B == INSTANCE OfflineBundle
E == INSTANCE Evidence
F == INSTANCE FloresEvidence WITH
         files <- collected, run <- collector, runs <- collections, found <- resumed,
         MaxRuns <- MaxCollections

downloads == <<family, pin, served, parked, file, tree, cut, doc, run, outcome, budget>>
updates == <<upstream, baseline, issues, check, last, spent>>
bundling == <<src, bundle, dest, part, receipt, pack, inst, deliver, ended, used>>
measuring == <<build, port, alive, files, runner, report, counts>>
collecting == <<collected, collector, errors, collections, resumed>>
vars == <<tool, downloads, updates, bundling, measuring, collecting>>

NoDownloads ==
    /\ family = None /\ pin = None /\ served = None /\ parked = None /\ file = None
    /\ tree = None /\ cut = None /\ doc = None /\ run = None /\ outcome = None /\ budget = None
NoUpdates ==
    /\ upstream = None /\ baseline = None /\ issues = None /\ check = None /\ last = None
    /\ spent = None
NoBundle ==
    /\ src = None /\ bundle = None /\ dest = None /\ part = None /\ receipt = None /\ pack = None
    /\ inst = None /\ deliver = None /\ ended = None /\ used = None
NoEvidence ==
    /\ build = None /\ port = None /\ alive = None /\ files = None /\ runner = None
    /\ report = None /\ counts = None
NoFlores ==
    /\ collected = None /\ collector = None /\ errors = None /\ collections = None
    /\ resumed = None

Init ==
    \/ tool = "downloads" /\ D!Init /\ NoUpdates /\ NoBundle /\ NoEvidence /\ NoFlores
    \/ tool = "updates" /\ U!Init /\ NoDownloads /\ NoBundle /\ NoEvidence /\ NoFlores
    \/ tool = "bundle" /\ B!Init /\ NoDownloads /\ NoUpdates /\ NoEvidence /\ NoFlores
    \/ tool = "evidence" /\ E!Init /\ NoDownloads /\ NoUpdates /\ NoBundle /\ NoFlores
    \/ tool = "flores" /\ F!Init /\ NoDownloads /\ NoUpdates /\ NoBundle /\ NoEvidence

Next ==
    \/ tool = "downloads" /\ D!Next /\ UNCHANGED <<tool, updates, bundling, measuring, collecting>>
    \/ tool = "updates" /\ U!Next /\ UNCHANGED <<tool, downloads, bundling, measuring, collecting>>
    \/ tool = "bundle" /\ B!Next /\ UNCHANGED <<tool, downloads, updates, measuring, collecting>>
    \/ tool = "evidence" /\ E!Next /\ UNCHANGED <<tool, downloads, updates, bundling, collecting>>
    \/ tool = "flores" /\ F!Next /\ UNCHANGED <<tool, downloads, updates, bundling, measuring>>

Spec == Init /\ [][Next]_vars

-----------------------------------------------------------------------------
\* Every variable of the script that moves keeps its type.
TypeOK ==
    /\ tool \in {"downloads", "updates", "bundle", "evidence", "flores"}
    /\ tool = "downloads" => D!TypeOK
    /\ tool = "updates" => U!TypeOK
    /\ tool = "bundle" => B!TypeOK
    /\ tool = "evidence" => E!TypeOK
    /\ tool = "flores" => F!TypeOK

\* A --force fetch that reports success leaves in use the bytes the server answered for, or an
\* unpinned splice it has kept.
ForcedIsCurrent == tool = "downloads" => D!ForcedIsCurrent

\* The etag kept in an origin record describes the bytes the record names, unless they are an
\* unpinned splice.
ValidatorsDescribeDigest == tool = "downloads" => D!ValidatorsDescribeDigest

\* A fetch that reports success leaves in use the pinned bytes of every pinned asset, and all of
\* what it unpacked unless a kill has cut that short.
FinishedIsPinned == tool = "downloads" => D!FinishedIsPinned

\* After a fetch that reports success without --force the origin record names every asset.
RecordNamesHeld == tool = "downloads" => D!RecordNamesHeld

\* The upstream check says "nothing newer" only where something was compared and was the same.
AllClearIsEarned == tool = "updates" => U!AllClearIsEarned

\* A finding the report says it handled can be read, with this answer, on one of its issues.
FindingReachesReader == tool = "updates" => U!FindingReachesReader

\* An install of a bundle that reports success leaves what its manifest promised.
InstalledMatches == tool = "bundle" => B!InstalledMatches

\* An install that is refused, or runs without --force, replaces no file that was there.
RefusalTouchesNothing == tool = "bundle" => B!RefusalTouchesNothing

\* A deliverable that verifies and says it carries models carries a bundle that verifies.
ShippedIsUsable == tool = "bundle" => B!ShippedIsUsable

\* A benchmark that ends by itself leaves none of its sidecars running.
NoSidecarLeftBehind == tool = "evidence" => E!NoSidecarLeftBehind

\* A noise floor over runs of a recorded build is taken over runs of one invocation, and pools
\* none without an id.
FloorIsOneSeries == tool = "evidence" => E!FloorIsOneSeries

\* Every sample in an evidence file of the FLORES benchmark was asked for the draw of numbers
\* the file names, of whatever split, and none is counted twice.
OneDrawPerFile == tool = "flores" => F!OneDrawPerFile

\* A resumed collection keeps what the file holds of engines and directions it does not collect.
OthersKept == tool = "flores" => F!OthersKept
=============================================================================

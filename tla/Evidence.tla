------------------------------ MODULE Evidence ------------------------------
(***************************************************************************)
(* run_av_baseline.py with the programs it runs (bench_domain_av.py,       *)
(* score_comet.py) and sidecar_identity.py: one engine behind a sidecar is *)
(* measured in one direction, without ("base") and with ("scope") the      *)
(* terms of a domain, some number of times; the runs are kept in one file  *)
(* per arm, scored, and turned into a report.  A row of the corpus is      *)
(* answered by whatever process listens on the engine's port.              *)
(* Left out: the text of the report, the tables of sub-domains and the     *)
(* adherence to terms, which are sums over the same runs.                  *)
(***************************************************************************)
EXTENDS Naturals, Sequences, FiniteSets, SequencesExt

CONSTANTS
    Rows,           \* sentences of the corpus
    Builds,         \* builds of the engine library
    None,           \* nobody, no build, no id on record
    App,            \* a sidecar of somebody else, which names its pid
    Old,            \* a sidecar of somebody else, older than that field
    MaxInvocations, \* bound: invocations of the script
    Options,        \* command lines: --repeats, the arms (--only-baseline), whether COMET scores
    MaxPublished,   \* bound: runs of an arm that were measured before builds were recorded
    MaxLaunches,    \* bound: sidecars started
    MaxRebuilds,    \* bound: builds of the library while measurements go on
    MaxMishaps      \* bound: sidecars that die, strangers that take the port, killed runs

VARIABLES
    build,  \* the engine library on disk
    port,   \* the process that listens on the engine's port
    alive,  \* the sidecars started by the script that are running
    files,  \* the runs that can be read in the file of each arm
    runner, \* the invocation in progress, or the last one
    report, \* what the report of this invocation says
    counts   \* invocations, launches, rebuilds and mishaps so far

vars == <<build, port, alive, files, runner, report, counts>>

Arms == {"base", "scope"}
Pids == 1..MaxLaunches
Strangers == {App, Old}

\* A run: the recorded build, the rows that answered, whether COMET has scored it, and, for the
\* properties, the invocation that measured it (0 for all that went before: nobody knows).
Run(sha, answered, series) ==
    [sha |-> sha, answered |-> answered, scored |-> FALSE, series |-> series]
Published(n) == [i \in 1..n |-> [Run(None, Rows, 0) EXCEPT !.scored = TRUE]]

-----------------------------------------------------------------------------
\* What one poll of a launched service says of who answers.
Classify(proc, exited, who) ==
    IF who = None THEN "silent"
    ELSE IF who = proc THEN "ours"
    ELSE IF exited THEN "exited"
    ELSE IF who = Old THEN "unproven" ELSE "foreign"

\* A process that ends leaves the port.
Ends(pids) ==
    /\ alive' = alive \ pids
    /\ port' = IF port \in pids THEN None ELSE port

-----------------------------------------------------------------------------
Idle == [pc |-> "idle", repeats |-> 1, arms |-> Arms, comet |-> TRUE, proc |-> None,
         exited |-> FALSE, procs |-> {}, mine |-> {}, label |-> "none", rep |-> 1, arm |-> "base",
         retried |-> FALSE, left |-> Rows, answered |-> {}, touched |-> {}]

Free == runner.pc \in {"idle", "done"}

\* A clean preflight; a refused one changes nothing.
Start(options) ==
    /\ Free /\ counts.invocations < MaxInvocations
    /\ runner' = [Idle EXCEPT !.pc = "sidecar", !.repeats = options.repeats,
                    !.arms = options.arms, !.comet = options.comet]
    /\ counts' = [counts EXCEPT !.invocations = @ + 1]
    /\ report' = {}
    /\ UNCHANGED <<build, port, alive, files>>

\* --report-only.
StartReport ==
    /\ Free /\ counts.invocations < MaxInvocations
    /\ runner' = [Idle EXCEPT !.pc = "report"]
    /\ counts' = [counts EXCEPT !.invocations = @ + 1]
    /\ report' = {}
    /\ UNCHANGED <<build, port, alive, files>>

Reuse ==
    /\ runner.pc = "sidecar" /\ ~runner.retried /\ port # None
    /\ runner' = [runner EXCEPT !.pc = "bench", !.label = "reused"]
    /\ UNCHANGED <<build, port, alive, files, report, counts>>

Launch ==
    /\ runner.pc = "sidecar" /\ counts.launches < MaxLaunches
    /\ runner.retried \/ port = None
    /\ LET pid == counts.launches + 1 IN
       /\ alive' = alive \cup {pid}
       /\ runner' = [runner EXCEPT !.pc = "wait", !.proc = pid, !.mine = @ \cup {pid}]
    /\ counts' = [counts EXCEPT !.launches = @ + 1]
    /\ UNCHANGED <<build, port, files, report>>

\* proc.poll(), read before the health probe.
PollProcess ==
    /\ runner.pc = "wait"
    /\ runner' = [runner EXCEPT !.pc = "probe", !.exited = runner.proc \notin alive]
    /\ UNCHANGED <<build, port, alive, files, report, counts>>

\* Fault: the sidecar of a retry is not noted for the clean-up.
ReadyUnlisted(label) ==
    runner' = [runner EXCEPT !.pc = "bench", !.label = label,
                 !.procs = IF runner.retried THEN @ ELSE @ \cup {runner.proc}]

Ready(label) ==
    runner' = [runner EXCEPT !.pc = "bench", !.label = label, !.procs = @ \cup {runner.proc}]

\* The probe, and what follows from it: go on, ask again, or stop the sidecar and give up
\* (an answer that is not ours, an end before any answer, or silence for too long).
Probe ==
    /\ runner.pc = "probe"
    /\ LET label == Classify(runner.proc, runner.exited, port) IN
       \/ /\ label \in {"ours", "unproven"} /\ Ready(label) /\ UNCHANGED <<port, alive>>
       \/ /\ label = "silent" /\ ~runner.exited
          /\ runner' = [runner EXCEPT !.pc = "wait"] /\ UNCHANGED <<port, alive>>
       \/ /\ label \notin {"ours", "unproven"} /\ Ends({runner.proc})
          /\ runner' = [runner EXCEPT !.pc = "stop"]
    /\ UNCHANGED <<build, files, report, counts>>

-----------------------------------------------------------------------------
\* The domain's terms cannot be installed into the memory, before the first bench.
InstallFails ==
    /\ runner.pc = "bench" /\ runner.touched = {} /\ ~runner.retried /\ runner.left = Rows
    /\ runner' = [runner EXCEPT !.pc = "stop"]
    /\ UNCHANGED <<build, port, alive, files, report, counts>>

\* One row of the bench, after its two attempts.
TranslateRow(r, answers) ==
    /\ runner.pc = "bench" /\ r \in runner.left
    /\ answers => port # None
    /\ runner' = [runner EXCEPT !.left = @ \ {r},
                    !.answered = IF answers THEN @ \cup {r} ELSE @]
    /\ UNCHANGED <<build, port, alive, files, report, counts>>

\* Repeat 1 starts a fresh series; a later one joins what can be read.
Earlier(file, rep) == IF rep > 1 THEN file ELSE << >>

\* The stamp is a hash of the library on disk when the file is written, whatever library answered
\* (measurement_identity is given none); null if there is none just then.
RecordedBuild == build

Recorded ==
    [files EXCEPT ![runner.arm] = Earlier(@, runner.rep) \o
        <<Run(RecordedBuild, runner.answered, counts.invocations)>>]

\* Fault: one repeat too many.
NextBenchPastLast(r) ==
    LET fresh == [r EXCEPT !.left = Rows, !.answered = {}, !.retried = FALSE,
                    !.touched = @ \cup {r.arm}]
    IN IF r.arm = "base" /\ "scope" \in r.arms THEN [fresh EXCEPT !.arm = "scope"]
       ELSE IF r.rep <= r.repeats THEN [fresh EXCEPT !.arm = "base", !.rep = @ + 1]
       ELSE [fresh EXCEPT !.pc = "free"]

\* The arm or the repeat after this one; none is left after the last repeat.
NextBench(r) ==
    LET fresh == [r EXCEPT !.left = Rows, !.answered = {}, !.retried = FALSE,
                    !.touched = @ \cup {r.arm}]
    IN IF r.arm = "base" /\ "scope" \in r.arms THEN [fresh EXCEPT !.arm = "scope"]
       ELSE IF r.rep < r.repeats THEN [fresh EXCEPT !.arm = "base", !.rep = @ + 1]
       ELSE [fresh EXCEPT !.pc = "free"]

WriteEvidence ==
    /\ runner.pc = "bench" /\ runner.left = {}
    /\ files' = Recorded
    /\ runner' = NextBench(runner)
    /\ UNCHANGED <<build, port, alive, report, counts>>

\* The bench exits with an error, before its file is written or after it.  It is run again
\* behind a new sidecar, once, and only when nobody listens.
BenchFails(written) ==
    /\ runner.pc = "bench" /\ (written => runner.left = {})
    /\ files' = IF written THEN Recorded ELSE files
    /\ runner' = IF runner.retried \/ port # None THEN [runner EXCEPT !.pc = "stop"]
                 ELSE [runner EXCEPT !.pc = "sidecar", !.retried = TRUE, !.left = Rows,
                         !.answered = {}]
    /\ UNCHANGED <<build, port, alive, report, counts>>

\* The sidecars are stopped before COMET loads its model.
FreeSidecars ==
    /\ runner.pc = "free" /\ Ends(runner.procs)
    /\ runner' = [runner EXCEPT !.pc = IF runner.comet THEN "comet" ELSE "report", !.procs = {}]
    /\ UNCHANGED <<build, files, report, counts>>

\* Every run of a file is scored on the rows that answered.
ScoreComet(arm) ==
    /\ runner.pc = "comet" /\ arm \in runner.touched
    /\ files' = [files EXCEPT ![arm] = [i \in 1..Len(@) |-> [@[i] EXCEPT !.scored = TRUE]]]
    /\ runner' = [runner EXCEPT !.touched = @ \ {arm},
                    !.pc = IF runner.touched = {arm} THEN "report" ELSE "comet"]
    /\ UNCHANGED <<build, port, alive, report, counts>>

ScoreFails ==
    /\ runner.pc = "comet"
    /\ runner' = [runner EXCEPT !.pc = "stop"]
    /\ UNCHANGED <<build, port, alive, files, report, counts>>

\* The clean-up of every way out.
Stop ==
    /\ runner.pc = "stop" /\ Ends(runner.procs)
    /\ runner' = [Idle EXCEPT !.pc = "done", !.mine = runner.mine]
    /\ UNCHANGED <<build, files, report, counts>>

-----------------------------------------------------------------------------
HasComet(run) == run.scored /\ run.answered # {}

\* Runs are told apart by their places in a file: the places of the scored runs, and the places
\* of the runs of one recorded build.  Runs without an id are a group of their own.
Scored(runs) == {i \in DOMAIN runs : HasComet(runs[i])}

\* Fault: every repeat is a repeat of one measurement (defect D70).
BuildGroupsMixed(runs) == {DOMAIN runs}

BuildGroups(runs) ==
    {{i \in DOMAIN runs : runs[i].sha = sha} : sha \in {runs[i].sha : i \in DOMAIN runs}}

\* The runs that give a floor; the floor printed is the smallest of their spreads.
Spread(runs) ==
    {[i \in group |-> runs[i]] : group \in
        {g \cap Scored(runs) : g \in {h \in BuildGroups(runs) : Cardinality(h \cap Scored(runs)) >= 2}}}

SpreadNote(runs) ==
    LET ids == {runs[i].sha : i \in Scored(runs)}
    IN IF Len(runs) < 2 THEN "none"
       ELSE IF Cardinality(Scored(runs)) < 2 THEN "unscored"
       ELSE IF Cardinality(ids) > 1 THEN "across-builds"
       ELSE IF None \in ids THEN "unknown" ELSE "none"

\* A difference is taken over the rows that both arms answered, repeat by repeat, where there
\* are such rows with a score.
PairedDelta(base, scope) ==
    \E i \in 1..Len(base) : /\ i <= Len(scope) /\ base[i].scored /\ scope[i].scored
                            /\ base[i].answered \cap scope[i].answered # {}

AnyComet(runs) == \E i \in 1..Len(runs) : HasComet(runs[i])

Delta(base, scope) ==
    IF PairedDelta(base, scope) THEN "paired"
    ELSE IF AnyComet(base) /\ AnyComet(scope) THEN "means" ELSE "none"

FailedRows(runs) == \E i \in 1..Len(runs) : runs[i].answered # Rows

\* An engine behind a sidecar applies no terms, so that a scope arm it lacks is no gap.
Status(base, scope) ==
    IF base = << >> THEN "arm missing"
    ELSE IF scope = << >> THEN "baseline only"
    ELSE IF FailedRows(base) \/ FailedRows(scope) THEN "rows failed" ELSE "complete"

SummarizeEngine(base, scope) ==
    [floors |-> Spread(base) \cup Spread(scope), status |-> Status(base, scope),
     delta |-> Delta(base, scope),
     note |-> IF SpreadNote(base) # "none" THEN SpreadNote(base) ELSE SpreadNote(scope)]

\* The published files, with the older names, make the tables on top; without any the report is
\* left alone, unless --force asks for empty tables.  The files of the bench get a section of
\* their own, unless a published run already stands for that direction and size.
ExtraSections(covers) ==
    IF covers \/ \A a \in Arms : files[a] = << >> THEN {}
    ELSE {SummarizeEngine(files["base"], files["scope"])}

GenerateReport(repeats, covers, force) ==
    /\ runner.pc = "report"
    /\ LET missing == \A a \in Arms : repeats[a] = 0 IN
       /\ covers => ~missing
       /\ report' = IF missing /\ ~force THEN {}
                    ELSE ExtraSections(covers) \cup
                        {SummarizeEngine(Published(repeats["base"]), Published(repeats["scope"]))}
    /\ runner' = [runner EXCEPT !.pc = "stop"]
    /\ UNCHANGED <<build, port, alive, files, counts>>

-----------------------------------------------------------------------------
\* A started sidecar takes the port, or finds it taken and ends.
Bind(pid) ==
    /\ pid \in alive /\ port # pid
    /\ IF port = None THEN port' = pid /\ UNCHANGED alive ELSE Ends({pid})
    /\ UNCHANGED <<build, files, runner, report, counts>>

Mishap ==
    /\ counts.mishaps < MaxMishaps
    /\ counts' = [counts EXCEPT !.mishaps = @ + 1]

\* A sidecar runs out of memory.
Die(pid) ==
    /\ Mishap /\ pid \in alive /\ Ends({pid})
    /\ UNCHANGED <<build, files, runner, report>>

\* The application, or an operator, starts a sidecar of its own while the port is free.
Occupy(who) ==
    /\ Mishap /\ port = None /\ port' = who
    /\ UNCHANGED <<build, alive, files, runner, report>>

\* The script is killed; its sidecars go on, and a file being written is left torn, which reads
\* as no runs.
Kill(torn) ==
    /\ Mishap /\ ~Free
    /\ torn => runner.pc = "bench" /\ runner.left = {}
    /\ files' = IF torn THEN [files EXCEPT ![runner.arm] = << >>] ELSE files
    /\ runner' = Idle
    /\ UNCHANGED <<build, port, alive, report>>

\* The library is built anew, or is gone while that lasts.
Rebuild(b) ==
    /\ counts.rebuilds < MaxRebuilds /\ b # build
    /\ build' = b
    /\ counts' = [counts EXCEPT !.rebuilds = @ + 1]
    /\ UNCHANGED <<port, alive, files, runner, report>>

-----------------------------------------------------------------------------
Init ==
    /\ build \in Builds /\ port \in Strangers \cup {None} /\ alive = {}
    /\ \E n \in 0..MaxPublished : files = [a \in Arms |-> Published(n)]
    /\ runner = Idle /\ report = {}
    /\ counts = [invocations |-> 0, launches |-> 0, rebuilds |-> 0, mishaps |-> 0]

Next ==
    \/ (\E options \in Options : Start(options)) \/ StartReport
    \/ Reuse \/ Launch \/ PollProcess \/ Probe \/ InstallFails
    \/ \E r \in Rows, answers \in BOOLEAN : TranslateRow(r, answers)
    \/ WriteEvidence \/ (\E written \in BOOLEAN : BenchFails(written))
    \/ FreeSidecars \/ (\E arm \in Arms : ScoreComet(arm)) \/ ScoreFails
    \/ \E repeats \in [Arms -> 0..MaxPublished], covers, force \in BOOLEAN :
         GenerateReport(repeats, covers, force)
    \/ Stop
    \/ \E pid \in Pids : Bind(pid) \/ Die(pid)
    \/ (\E who \in Strangers : Occupy(who)) \/ (\E torn \in BOOLEAN : Kill(torn))
    \/ \E b \in Builds \cup {None} : Rebuild(b)

Spec == Init /\ [][Next]_vars

-----------------------------------------------------------------------------
Runs == [sha : Builds \cup {None}, answered : SUBSET Rows,
         scored : BOOLEAN, series : 0..MaxInvocations]

\* Every variable keeps its type.
TypeOK ==
    /\ build \in Builds \cup {None} /\ port \in Pids \cup Strangers \cup {None} /\ alive \subseteq Pids
    /\ \A a \in Arms : \A i \in 1..Len(files[a]) : files[a][i] \in Runs
    /\ runner.pc \in {"idle", "sidecar", "wait", "probe", "bench", "free", "comet", "report",
                      "stop", "done"}
    /\ runner.procs \subseteq runner.mine /\ runner.mine \subseteq Pids
    /\ runner.rep \in 1..runner.repeats /\ runner.arm \in runner.arms /\ runner.left \subseteq Rows
    /\ runner.label \in {"none", "reused", "ours", "unproven"}

\* An invocation that ends by itself, however it ends, leaves none of its sidecars running:
\* neither the first, nor one started for a retry, nor one that was turned away.
NoSidecarLeftBehind == runner.pc = "done" => runner.mine \cap alive = {}

\* A noise floor is the spread of repeats of one measurement: runs with one recorded build come
\* from one invocation, and none is pooled with a run of another build or of none on record.  Of
\* runs without an id nothing is known but that; the script gives them a floor, too.
FloorIsOneSeries ==
    \A summary \in report : \A group \in summary.floors : \A i, j \in DOMAIN group :
        /\ group[i].sha = group[j].sha
        /\ group[i].sha # None => group[i].series = group[j].series
=============================================================================

--------------------------- MODULE FloresEvidence ---------------------------
(***************************************************************************)
(* bench_flores.py: engines are scored over a drawn sample of sentences,   *)
(* one (engine, direction) after another.  A run takes hours, so that the  *)
(* evidence file is rewritten after every sample, and --resume goes on     *)
(* from what is stored there, if it was drawn with the same numbers; the   *)
(* split the numbers count sentences of (--split) is not stored, and not   *)
(* compared.  A run of one engine keeps its evidence in                    *)
(* the file of that engine, a run of several in the mixed file; at the end *)
(* the record is written to the file of every engine it is about.          *)
(* Left out: the scores, the latencies and --out, which names the one file *)
(* of a run.                                                               *)
(***************************************************************************)
EXTENDS Naturals, FiniteSets

CONSTANTS
    Engines,     \* engines behind a service, numbered in the order build_engines has them
    Directions,  \* directions of translation, numbered in their order
    Draws,       \* samples --n and --seed can draw: sets of sentence numbers
    Splits,      \* parts of the corpus, each with sentences of its own under these numbers
    None,        \* no such file
    MaxRuns,     \* bound: runs of the script
    MaxErrors    \* bound: sentences an engine fails on

VARIABLES
    files,   \* the evidence file of each engine, and the mixed one
    run,     \* the run in progress, or the last one
    errors,  \* sentences failed so far
    runs,    \* runs so far
    found    \* history: the file the run resumes, as it was when the run began

vars == <<files, run, errors, runs, found>>

Mixed == 0
EvidenceFiles == Engines \cup {Mixed}
Cells == Engines \X Directions
Least(numbers) == CHOOSE n \in numbers : \A o \in numbers : n <= o

\* The sentences a draw can ask for, each with the numbers it was drawn among (a history).
Asked(ids) == [split : Splits, draw : {ids}, number : ids]

\* What is stored of one (engine, direction), and a whole file.
NoEntry == [state |-> "none", samples |-> {}]
NoRuns == [k \in Cells |-> NoEntry]

Idle == [pc |-> "idle", out |-> Mixed, split |-> None, ids |-> {}, collecting |-> {}, todo |-> {},
         key |-> None, left |-> {}, samples |-> {}, done |-> NoRuns, runs |-> NoRuns,
         copies |-> {}]

-----------------------------------------------------------------------------
\* The engines that answer decide which file the run is about.
Out(engines) ==
    IF Cardinality(engines) = 1 THEN CHOOSE e \in engines : TRUE ELSE Mixed

\* Fault: stored samples are taken whatever they were drawn from.
ComparableAlways(file, ids) == TRUE

\* Samples under other numbers are no ground to go on from; the split is not looked at.
Comparable(file, ids) == file.ids = ids

\* Fault: only what is collected now is kept.
PreservedNothing(file, collecting) == NoRuns

\* What the run does not collect itself is taken over.
Preserved(file, collecting) ==
    [k \in Cells |-> IF k \in collecting THEN NoEntry ELSE file.runs[k]]

\* Engine by engine, and the directions of each in their order.
First(todo) ==
    LET e == Least({k[1] : k \in todo}) IN <<e, Least({k[2] : k \in {j \in todo : j[1] = e}})>>

Collect(r, todo) ==
    IF todo = {} THEN [r EXCEPT !.pc = "copy", !.key = None, !.todo = {},
                                !.copies = {e \in Engines : \E d \in Directions :
                                              r.runs[<<e, d>>] # NoEntry}]
    ELSE [r EXCEPT !.pc = "collect", !.key = First(todo), !.todo = todo \ {First(todo)},
                   !.left = r.ids, !.samples = {}]

\* No corpus, or no engine that answers: the run ends before it looks at any evidence.
GiveUp ==
    /\ run.pc = "idle" /\ runs < MaxRuns /\ runs' = runs + 1
    /\ run' = Idle /\ found' = None
    /\ UNCHANGED <<files, errors>>

\* A run over the engines that were asked for and answer their probe; one whose service is down,
\* or whose probe raises, is skipped.  A file that cannot be resumed is refused, and stays.
Start(engines, directions, split, ids, resume) ==
    /\ run.pc = "idle" /\ runs < MaxRuns /\ runs' = runs + 1
    /\ LET out == Out(engines)
           collecting == engines \X directions
           file == IF resume THEN files[out] ELSE None
           fresh == [Idle EXCEPT !.out = out, !.split = split, !.ids = ids,
                                !.collecting = collecting]
       IN /\ found' = file
          /\ run' = IF file = None THEN Collect(fresh, collecting)
                    ELSE IF ~Comparable(file, ids) THEN fresh
                    ELSE Collect([fresh EXCEPT !.done = file.runs,
                                               !.runs = Preserved(file, collecting)], collecting)
    /\ UNCHANGED <<files, errors>>

\* write_json: the file is replaced as a whole.
Write(name, r) == files' = [files EXCEPT ![name] = [ids |-> r.ids, runs |-> r.runs]]

-----------------------------------------------------------------------------
\* The number whose turn it is, and what is stored under it, of whatever split.
Number == Least(run.left)
StoredHere == {s \in run.done[run.key].samples : s.number = Number}

\* A sentence that is stored already is not asked again.
Cached ==
    /\ run.pc = "collect" /\ run.left # {}
    /\ \E s \in StoredHere :
          run' = [run EXCEPT !.samples = @ \cup {s}, !.left = @ \ {Number}]
    /\ UNCHANGED <<files, errors, runs, found>>

Sampled ==
    /\ run.pc = "collect" /\ run.left # {} /\ StoredHere = {}
    /\ LET asked == [split |-> run.split, draw |-> run.ids, number |-> Number]
           samples == run.samples \cup {asked} IN
       run' = [run EXCEPT !.samples = samples, !.left = @ \ {Number},
                          !.runs[run.key] = [state |-> "partial", samples |-> samples]]
    /\ Write(run.out, run')
    /\ UNCHANGED <<errors, runs, found>>

\* The engine fails on it: the sentence is skipped.
SampleFails ==
    /\ run.pc = "collect" /\ run.left # {} /\ errors < MaxErrors /\ StoredHere = {}
    /\ run' = [run EXCEPT !.left = @ \ {Number}]
    /\ errors' = errors + 1
    /\ UNCHANGED <<files, runs, found>>

\* The direction is scored over what answered, stored samples included.
EndDirection ==
    /\ run.pc = "collect" /\ run.left = {}
    /\ LET scored == [run EXCEPT !.runs[run.key] = [state |-> "done", samples |-> run.samples]]
       IN /\ run' = Collect(scored, run.todo)
          /\ Write(run.out, scored)
    /\ UNCHANGED <<errors, runs, found>>

\* The record goes to the file of every engine in it.
Copy(e) ==
    /\ run.pc = "copy" /\ e \in run.copies
    /\ Write(e, run)
    /\ run' = [run EXCEPT !.copies = @ \ {e}, !.pc = IF run.copies = {e} THEN "idle" ELSE "copy"]
    /\ UNCHANGED <<errors, runs, found>>

\* The process is killed, or a write fails for good; a file is whole before and after.
Kill ==
    /\ run.pc # "idle"
    /\ run' = [run EXCEPT !.pc = "idle"]
    /\ UNCHANGED <<files, errors, runs, found>>

Init ==
    /\ files = [n \in EvidenceFiles |-> None]
    /\ run = Idle /\ errors = 0 /\ runs = 0 /\ found = None

Next ==
    \/ \E engines \in SUBSET Engines \ {{}}, directions \in SUBSET Directions \ {{}},
          split \in Splits, ids \in Draws, resume \in BOOLEAN :
          Start(engines, directions, split, ids, resume)
    \/ GiveUp
    \/ Cached \/ Sampled \/ SampleFails \/ EndDirection
    \/ \E e \in Engines : Copy(e)
    \/ Kill

Spec == Init /\ [][Next]_vars

-----------------------------------------------------------------------------
Sentences == [split : Splits, draw : Draws, number : UNION Draws]
Entries == [state : {"none", "partial", "done"}, samples : SUBSET Sentences]
Evidence == [ids : Draws, runs : [Cells -> Entries]] \cup {None}

\* Every variable keeps its type.
TypeOK ==
    /\ files \in [EvidenceFiles -> Evidence] /\ found \in Evidence
    /\ run.pc \in {"idle", "collect", "copy"} /\ run.out \in EvidenceFiles
    /\ run.split \in Splits \cup {None} /\ (run.pc # "idle" => run.split # None)
    /\ run.runs \in [Cells -> Entries] /\ run.done \in [Cells -> Entries]
    /\ run.collecting \subseteq Cells /\ run.todo \subseteq run.collecting
    /\ run.left \subseteq run.ids /\ run.samples \subseteq Sentences

(***************************************************************************)
(* The samples in an evidence file, of every engine and direction, were    *)
(* all asked for the draw of numbers the file names, and none of them is   *)
(* counted twice, whatever was resumed, preserved and copied: its engines  *)
(* are never scored over draws of different size or seed.  The split is    *)
(* not part of it: a run over dev that resumes numbers drawn from devtest  *)
(* mixes the sentences of both.                                            *)
(***************************************************************************)
OneEach(samples) == \A s, t \in samples : s.number = t.number => s = t

OneDrawPerFile ==
    \A n \in EvidenceFiles : files[n] # None => \A k \in Cells :
        files[n].runs[k].samples \subseteq Asked(files[n].ids) /\ OneEach(files[n].runs[k].samples)

\* A run that resumes a file keeps what the file holds of engines and directions the run does
\* not collect, at every write and whatever ends the run.
OthersKept ==
    found # None => \A k \in Cells \ run.collecting : files[run.out].runs[k] = found.runs[k]

(***************************************************************************)
(* Violated.  The script says every sample is stored as it completes, and  *)
(* "a rerun picks up from the samples already stored".  The rerun drops    *)
(* what is stored of the directions it collects until it comes to each of  *)
(* them, and rewrites the file meanwhile: killed before that, it has lost  *)
(* samples that were stored when it began.                                 *)
(***************************************************************************)
StoredSamplesSurvive ==
    run.pc = "idle" /\ found # None =>
        \A k \in Cells : found.runs[k].samples \subseteq files[run.out].runs[k].samples
=============================================================================

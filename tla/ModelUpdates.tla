---------------------------- MODULE ModelUpdates ----------------------------
(***************************************************************************)
(* check_model_updates.py and report_model_updates.py: has an upstream     *)
(* published something newer than the reference (the repository's baseline *)
(* file, or the origin records of one machine), and who has been told.     *)
(* The keys are one asset of each family, "argos", "voice" and "madlad".   *)
(* An argos version and a digest are both named after the generation; a    *)
(* voice archive can also change its name.  The daily job runs the check   *)
(* and then the report; a person runs the check by hand, accepts an answer *)
(* with --record-baseline, and closes issues.                              *)
(***************************************************************************)
EXTENDS Naturals, Sequences

CONSTANTS
    Keys,      \* assets of the baseline
    Gens,      \* versions, or digests, an asset can have
    Names,     \* names a voice archive can have
    None,      \* no value, no name
    MaxChecks, \* bound: runs of the check
    MaxMoves,  \* bound: changes upstream
    MaxCloses  \* bound: issues closed by a person

VARIABLES
    upstream,  \* what each asset is upstream
    baseline,  \* script/model_upstream_baseline.json
    issues,    \* the issues of the report, each with the posts on it
    check,     \* the run in progress
    last,      \* history: how the last run ended, and the rows it had
    spent      \* checks, changes upstream and closed issues so far

vars == <<upstream, baseline, issues, check, last, spent>>

Entries == [name : Names, held : Gens \cup {None}]
Values == Gens \cup Names \cup {None}

\* A row: its state, what upstream answered (a name, when the finding is a renamed archive),
\* and, for the properties, the reference and whether upstream said anything comparable.
Row(state, answer) == [state |-> state, upstream |-> answer]
NoRow == Row("none", None)
Comparable == {"current", "newer"}

Compared(held, answer) == Row(IF answer = held THEN "current" ELSE "newer", answer)

-----------------------------------------------------------------------------
\* An origin record that cannot be used: none was written, or it is no answer.
Unstarted(state) == Row(IF state = "missing" THEN "unrecorded" ELSE "failed", None)

\* The index of packages; a lookup fails, or the pair is not in it.
CheckArgos(ref, how) ==
    IF ref.held = None THEN Row("incomparable", None)
    ELSE IF how # "answers" THEN Row("failed", None)
    ELSE Compared(ref.held, upstream["argos"].held)

\* The release tag: the archive may be listed under its name, under another name of the
\* same family ("kin") or not at all ("gone"), and with or without a digest.
CheckVoice(ref, how) ==
    IF how \in {"fails", "gone"} THEN Row("failed", None)
    ELSE IF ref.name # upstream["voice"].name THEN Row("newer", upstream["voice"].name)
    ELSE IF how = "bare" \/ ref.held = None THEN Row("incomparable", None)
    ELSE Compared(ref.held, upstream["voice"].held)

\* The bytes under a revision that moves.
CheckMadlad(ref, how) ==
    IF ref.held = None THEN Row("incomparable", None)
    ELSE IF how # "answers" THEN Row("failed", None)
    ELSE Compared(ref.held, upstream["madlad"].held)

Probe(k, ref, how) ==
    CASE k = "argos" -> CheckArgos(ref, how)
      [] k = "voice" -> CheckVoice(ref, how)
      [] k = "madlad" -> CheckMadlad(ref, how)

\* Fault: whatever is not a failure and not newer is fine (defect D74).
VerdictDraft(states) ==
    IF "failed" \in states THEN 1 ELSE IF "newer" \in states THEN 2 ELSE 0

\* 0: something was compared and nothing is newer; 2: something is newer; 1: cannot tell.
Verdict(states) ==
    IF "failed" \in states \/ states \cap Comparable = {} THEN 1
    ELSE IF "newer" \in states THEN 2 ELSE 0

\* What to store for a row: a row that answered nothing changes nothing, and a name never
\* goes where a digest belongs.
ToBaselineEntry(entry, row) ==
    IF row.state \notin Comparable THEN entry
    ELSE IF row.upstream \in Names THEN [entry EXCEPT !.name = row.upstream]
    ELSE [entry EXCEPT !.held = row.upstream]

-----------------------------------------------------------------------------
Idle == [pc |-> "idle", mode |-> "none", only |-> {}, rows |-> [k \in Keys |-> NoRow],
         announced |-> {}, first |-> 0]
NoResult == [end |-> "none", code |-> 1, found |-> {}, truth |-> {}]

States == {check.rows[k].state : k \in check.only}
Found == {<<k, check.rows[k].upstream>> : k \in {j \in check.only : check.rows[j].state = "newer"}}

\* The daily job asks about the whole baseline and reports ("dry": only says what it would
\* do); a person may ask about some families, of the baseline or of what is installed, and
\* may have the answers recorded.
Start(mode, only) ==
    /\ check.pc = "idle" /\ spent.checks < MaxChecks
    /\ only # {} /\ (mode \in {"job", "dry"} => only = Keys)
    /\ only \cap DOMAIN baseline # {} \/ mode = "installed"
    /\ check' = [Idle EXCEPT !.pc = "ask", !.mode = mode,
                   !.only = IF mode = "installed" THEN only ELSE only \cap DOMAIN baseline]
    /\ spent' = [spent EXCEPT !.checks = @ + 1]
    /\ last' = NoResult
    /\ UNCHANGED <<upstream, baseline, issues>>

Waiting == {k \in check.only : check.rows[k] = NoRow}

\* The assets are asked about one after another, in the order of the file.
Answer(k, row, truth) ==
    /\ check.pc = "ask" /\ Waiting # {} /\ k = CHOOSE j \in Waiting : TRUE
    /\ check' = [check EXCEPT !.rows[k] = row]
    /\ last' = [last EXCEPT !.truth = @ \cup truth]
    /\ UNCHANGED <<upstream, baseline, issues, spent>>

\* History: did the probe hold its reference against a value of upstream's, and were they
\* the same?
Truth(k, ref, how) ==
    IF how = "answers" /\ ref.held # None
    THEN {IF ref = upstream[k] \/ (k # "voice" /\ ref.held = upstream[k].held)
          THEN "same" ELSE "moved"}
    ELSE {}

AskBaseline(k, how) ==
    /\ check.mode # "installed"
    /\ Answer(k, Probe(k, baseline[k], how), Truth(k, baseline[k], how))

AskInstalled(k, ref, how) ==
    /\ check.mode = "installed"
    /\ Answer(k, Probe(k, ref, how), Truth(k, ref, how))

AskUnusable(k, state) ==
    /\ check.mode = "installed"
    /\ Answer(k, Unstarted(state), {})

Finish(end) ==
    /\ last' = [last EXCEPT !.end = end, !.code = Verdict(States), !.found = Found]
    /\ check' = Idle

\* The verdict is printed, and for the job written beside the rows; the report does not go
\* on with a check that cannot tell.
Conclude ==
    /\ check.pc = "ask" /\ Waiting = {} /\ check.mode # "record"
    /\ IF check.mode \in {"job", "dry"} /\ Verdict(States) # 1
       THEN check' = [check EXCEPT !.pc = "list"] /\ UNCHANGED last
       ELSE Finish("checked")
    /\ UNCHANGED <<upstream, baseline, issues, spent>>

\* --record-baseline: the file is rewritten from the entries that were asked about.
RecordBaseline ==
    /\ check.pc = "ask" /\ Waiting = {} /\ check.mode = "record"
    /\ baseline' = [k \in check.only |-> ToBaselineEntry(baseline[k], check.rows[k])]
    /\ Finish("recorded")
    /\ UNCHANGED <<upstream, issues, spent>>

-----------------------------------------------------------------------------
\* Fault: a finding is known by the assets it is about.
FindingKeyByAsset(found) == {f[1] : f \in found}

\* What was found is known by what upstream answered, not by what the baseline holds.
FindingKey(found) == found

Open == {i \in 1..Len(issues) : issues[i].open}

\* The findings announced in the bodies of the open issues, and the newest such issue.
ListIssues ==
    /\ check.pc = "list"
    /\ check' = [check EXCEPT !.pc = "publish",
                   !.announced = {issues[i].posts[1].key : i \in Open},
                   !.first = IF Open = {} THEN 0
                             ELSE CHOOSE i \in Open : \A j \in Open : j <= i]
    /\ UNCHANGED <<upstream, baseline, issues, last, spent>>

Post == [key |-> FindingKey(Found), found |-> Found]

Quiet ==
    /\ check.pc = "publish"
    /\ Found = {} \/ FindingKey(Found) \in check.announced
    /\ Finish("handled")
    /\ UNCHANGED <<upstream, baseline, issues, spent>>

Create ==
    /\ check.pc = "publish" /\ Found # {} /\ FindingKey(Found) \notin check.announced
    /\ check.mode = "job" /\ check.first = 0
    /\ issues' = Append(issues, [open |-> TRUE, posts |-> <<Post>>])
    /\ Finish("handled")
    /\ UNCHANGED <<upstream, baseline, spent>>

\* The finding has changed: a comment on the issue that is open (it may be closed by now).
Comment ==
    /\ check.pc = "publish" /\ Found # {} /\ FindingKey(Found) \notin check.announced
    /\ check.mode = "job" /\ check.first # 0
    /\ issues' = [issues EXCEPT ![check.first].posts = Append(@, Post)]
    /\ Finish("handled")
    /\ UNCHANGED <<upstream, baseline, spent>>

DryRun ==
    /\ check.pc = "publish" /\ check.mode = "dry"
    /\ Found # {} /\ FindingKey(Found) \notin check.announced
    /\ Finish("dry")
    /\ UNCHANGED <<upstream, baseline, issues, spent>>

\* gh fails: the report says that it cannot tell.
GhFails ==
    /\ check.pc \in {"list", "publish"}
    /\ Finish("unknown")
    /\ UNCHANGED <<upstream, baseline, issues, spent>>

Close(i) ==
    /\ i \in Open /\ spent.closes < MaxCloses
    /\ issues' = [issues EXCEPT ![i].open = FALSE]
    /\ spent' = [spent EXCEPT !.closes = @ + 1]
    /\ UNCHANGED <<upstream, baseline, check, last>>

\* Upstream publishes a new version, replaces an archive, or renames one.
Move(k, entry) ==
    /\ spent.moves < MaxMoves
    /\ entry.held # None /\ entry # upstream[k]
    /\ k = "voice" \/ entry.name = upstream[k].name
    /\ upstream' = [upstream EXCEPT ![k] = entry]
    /\ spent' = [spent EXCEPT !.moves = @ + 1]
    /\ UNCHANGED <<baseline, issues, check, last>>

-----------------------------------------------------------------------------
FirstName == CHOOSE n \in Names : TRUE

\* The baseline was seeded from what upstream served then; a voice archive may have been seeded
\* with its name only.
Init ==
    /\ upstream \in {[k \in Keys |-> entry] : entry \in [name : {FirstName}, held : Gens]}
    /\ baseline \in {[k \in Keys |-> IF k \in bare THEN [upstream[k] EXCEPT !.held = None]
                                     ELSE upstream[k]] : bare \in SUBSET (Keys \cap {"voice"})}
    /\ issues = << >> /\ check = Idle /\ last = NoResult
    /\ spent = [checks |-> 0, moves |-> 0, closes |-> 0]

Modes == {"job", "dry", "baseline", "record", "installed"}
Hows(k) == IF k = "voice" THEN {"answers", "fails", "gone", "bare"} ELSE {"answers", "fails"}

\* What the origin record of an installed asset can hold; only a voice archive has a name.
Installed(k) == {ref \in Entries : k = "voice" \/ ref.name = upstream[k].name}

Next ==
    \/ \E mode \in Modes, only \in SUBSET Keys : Start(mode, only)
    \/ \E k \in check.only : \E how \in Hows(k) :
         AskBaseline(k, how) \/ \E ref \in Installed(k) : AskInstalled(k, ref, how)
    \/ \E k \in check.only, state \in {"missing", "ambiguous", "absent", "incomplete"} :
         AskUnusable(k, state)
    \/ Conclude \/ RecordBaseline
    \/ ListIssues \/ Quiet \/ Create \/ Comment \/ DryRun \/ GhFails
    \/ \E i \in 1..Len(issues) : Close(i)
    \/ \E k \in Keys, entry \in Entries : Move(k, entry)

Spec == Init /\ [][Next]_vars

-----------------------------------------------------------------------------
Findings == SUBSET (Keys \X Values)
Results == [state : Comparable \cup {"none", "unrecorded", "failed", "incomparable"}, upstream : Values]
Posts == [key : SUBSET (Keys \X Values), found : Findings]

\* Every variable keeps its type.
TypeOK ==
    /\ upstream \in [Keys -> Entries]
    /\ DOMAIN baseline \subseteq Keys /\ \A k \in DOMAIN baseline : baseline[k] \in Entries
    /\ \A i \in 1..Len(issues) :
         issues[i].open \in BOOLEAN /\ \A j \in 1..Len(issues[i].posts) : issues[i].posts[j] \in Posts
    /\ check.pc \in {"idle", "ask", "list", "publish"} /\ check.only \subseteq Keys
    /\ check.rows \in [Keys -> Results] /\ check.first \in 0..Len(issues)
    /\ last.code \in 0..2 /\ last.found \in Findings

\* An all-clear (exit code 0) is earned: at least one probe held a reference against an
\* answer and found them the same, and none found a difference; runs that could ask nobody,
\* or had nothing to ask with, do not say it.
AllClearIsEarned ==
    last.end # "none" /\ last.code = 0 => "same" \in last.truth /\ "moved" \notin last.truth

\* When the report says that it handled a finding, every row of it, with the answer upstream
\* gave this time, can be read on one of its issues.
FindingReachesReader ==
    last.end = "handled" /\ last.found # {} =>
        \E i \in 1..Len(issues) : \E j \in 1..Len(issues[i].posts) :
            issues[i].posts[j].found = last.found

=============================================================================

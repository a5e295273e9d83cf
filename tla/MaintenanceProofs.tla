------------------------- MODULE MaintenanceProofs -------------------------
(***************************************************************************)
(* What the fetch scripts and the upstream check keep for any assets,      *)
(* generations, families and bounds: a fetch that reports success leaves   *)
(* the bytes it must, its record describes them, an all-clear is earned    *)
(* and a finding that was handled can be read; and the types of all the    *)
(* scripts.                                                                *)
(***************************************************************************)
EXTENDS Scripts, BundleProofs, BenchmarkProofs, SequenceTheorems, WellFoundedInduction, TLAPS

-----------------------------------------------------------------------------
(* The upstream check and its report.                                      *)

Checks ==
    [pc : {"idle", "ask", "list", "publish"}, mode : U!Modes \cup {"none"}, only : SUBSET Keys,
     rows : [Keys -> U!Results], announced : SUBSET U!Findings, first : Nat]
Ended ==
    [end : {"none", "checked", "recorded", "handled", "dry", "unknown"}, code : 0..2,
     found : U!Findings, truth : SUBSET {"same", "moved"}]
Issue == [open : BOOLEAN, posts : Seq(U!Posts)]
Issues == Seq(Issue)

UTyped ==
    /\ upstream \in [Keys -> U!Entries]
    /\ baseline \in [DOMAIN baseline -> U!Entries] /\ DOMAIN baseline \subseteq Keys
    /\ check \in Checks /\ last \in Ended /\ issues \in Issues

\* A run on the baseline asks about what is in it, and has not ended while it asks.
Running ==
    check.pc # "idle" =>
        /\ last.end = "none"
        /\ check.mode # "installed" => check.only \subseteq DOMAIN baseline

\* The rows of a run and what it has compared say the same.
Honest(c, truth) ==
    /\ \A k \in c.only : c.rows[k].state = "current" => "same" \in truth
    /\ "moved" \in truth => \E k \in c.only : c.rows[k].state = "newer"

\* Every issue has a post, and a post is known by what was found.
Labelled ==
    \A i \in 1..Len(issues) :
        /\ Len(issues[i].posts) > 0
        /\ \A j \in 1..Len(issues[i].posts) : issues[i].posts[j].key = issues[i].posts[j].found

Readable(list, found) ==
    \E i \in 1..Len(list) : \E j \in 1..Len(list[i].posts) : list[i].posts[j].found = found

\* What a report goes by is there.
Listed ==
    check.pc = "publish" =>
        /\ \A found \in check.announced : Readable(issues, found)
        /\ check.first <= Len(issues)

UInv ==
    /\ UTyped /\ Running /\ Labelled /\ Listed
    /\ check.pc # "idle" => Honest(check, last.truth)
    /\ U!AllClearIsEarned /\ U!FindingReachesReader

\* An issue of a list of them, and the list with one changed.
LEMMA IssueOf ==
    ASSUME NEW list \in Issues, NEW i \in 1..Len(list)
    PROVE  list[i] \in Issue /\ list[i].posts \in Seq(U!Posts) /\ Len(list[i].posts) \in Nat
<1>1. list[i] \in Issue
  BY DEF Issues
<1> QED
  BY <1>1 DEF Issue

Changed(list, i, e) == [list EXCEPT ![i] = e]

LEMMA IssueChanged ==
    ASSUME NEW list \in Issues, NEW i \in 1..Len(list), NEW e \in Issue
    PROVE  LET next == Changed(list, i, e)
           IN /\ next \in Issues /\ Len(next) = Len(list) /\ next[i] = e
              /\ \A j \in 1..Len(list) \ {i} : next[j] = list[j]
<1> DEFINE next == Changed(list, i, e)
<1>1. list \in Seq(Issue)
  BY DEF Issues
<1>2. next \in Seq(Issue) /\ Len(next) = Len(list)
  BY <1>1, ExceptSeq DEF Changed
<1>3. next[i] = e /\ \A j \in 1..Len(list) \ {i} : next[j] = list[j]
  BY <1>1 DEF Changed
<1> QED
  BY <1>2, <1>3 DEF Issues

LEMMA KeysAreFamilies == Keys \subseteq {"argos", "voice", "madlad"}
BY ScriptsAssumption

LEMMA UIdleTyped == U!Idle \in Checks /\ U!NoResult \in Ended
BY DEF U!Idle, U!NoResult, U!NoRow, U!Row, Checks, Ended, U!Results, U!Values, U!Findings

\* A probe answers "current" where it compared and found the same, and "newer" where it found a
\* difference.
LEMMA ProbeIsHonest ==
    ASSUME NEW k \in Keys, NEW ref \in U!Entries, NEW how \in U!Hows(k),
           upstream \in [Keys -> U!Entries]
    PROVE  LET row == U!Probe(k, ref, how)
               truth == U!Truth(k, ref, how)
           IN /\ row \in U!Results /\ truth \subseteq {"same", "moved"}
              /\ row.state = "current" => "same" \in truth
              /\ "moved" \in truth => row.state = "newer"
<1> DEFINE row == U!Probe(k, ref, how)
           truth == U!Truth(k, ref, how)
<1>1. upstream[k] \in U!Entries
  OBVIOUS
<1>2. ref.held \in U!Values /\ upstream[k].held \in U!Values /\ upstream[k].name \in U!Values
  BY <1>1 DEF U!Entries, U!Values
<1>3. ref = upstream[k] <=> ref.name = upstream[k].name /\ ref.held = upstream[k].held
  BY <1>1 DEF U!Entries
<1>4. truth \subseteq {"same", "moved"}
  BY DEF U!Truth
<1>5. CASE k = "argos"
  <2>1. row = U!CheckArgos(ref, how)
    BY <1>5 DEF U!Probe
  <2>2. row \in U!Results
    <3>1. U!Compared(ref.held, upstream["argos"].held) \in U!Results
      BY <1>2, <1>5 DEF U!Row, U!Compared, U!Results, U!Comparable
    <3>2. U!Row("incomparable", None) \in U!Results /\ U!Row("failed", None) \in U!Results
      BY DEF U!Row, U!Results, U!Values
    <3> QED
      BY <2>1, <3>1, <3>2 DEF U!CheckArgos
  <2> QED
    BY <1>3, <1>4, <1>5, <2>1, <2>2 DEF U!CheckArgos, U!Row, U!Compared, U!Truth
<1>6. CASE k = "voice"
  <2>1. row = U!CheckVoice(ref, how)
    BY <1>6 DEF U!Probe
  <2>2. row \in U!Results
    BY <1>2, <1>6, <2>1 DEF U!CheckVoice, U!Row, U!Compared, U!Results, U!Comparable, U!Values
  <2>3. CASE how = "answers" /\ ref.held # None
    <3>1. row = IF ref.name # upstream[k].name THEN U!Row("newer", upstream[k].name)
                ELSE U!Compared(ref.held, upstream[k].held)
      BY <1>6, <2>1, <2>3 DEF U!CheckVoice
    <3>2. truth = {IF ref = upstream[k] THEN "same" ELSE "moved"}
      BY <1>6, <2>3 DEF U!Truth
    <3> QED
      BY <1>3, <2>2, <3>1, <3>2 DEF U!Row, U!Compared
  <2>4. CASE ~ (how = "answers" /\ ref.held # None)
    <3>1. row.state # "current"
      BY <1>6, <2>1, <2>4 DEF U!CheckVoice, U!Row, U!Compared, U!Hows
    <3> QED
      BY <2>2, <2>4, <3>1 DEF U!Truth
  <2> QED
    BY <2>3, <2>4
<1>7. CASE k = "madlad"
  <2>1. row = U!CheckMadlad(ref, how)
    BY <1>7 DEF U!Probe
  <2>2. row \in U!Results
    BY <1>2, <1>7, <2>1 DEF U!CheckMadlad, U!Row, U!Compared, U!Results, U!Comparable, U!Values
  <2> QED
    BY <1>3, <1>4, <1>7, <2>1, <2>2 DEF U!CheckMadlad, U!Row, U!Compared, U!Truth
<1> QED
  BY <1>5, <1>6, <1>7, KeysAreFamilies

LEMMA UInvInit == U!Init => UInv
<1> SUFFICES ASSUME U!Init PROVE UInv
  OBVIOUS
<1>1. check = U!Idle /\ last = U!NoResult /\ issues = << >>
  BY DEF U!Init
<1>2. check.pc = "idle" /\ last.end = "none"
  BY <1>1 DEF U!Idle, U!NoResult
<1>3. upstream \in [Keys -> U!Entries]
  <2>1. PICK entry \in [name : {U!FirstName}, held : Gens] : upstream = [k \in Keys |-> entry]
    BY DEF U!Init
  <2>2. U!FirstName \in Names
    BY ScriptsAssumption DEF U!FirstName
  <2> QED
    BY <2>1, <2>2 DEF U!Entries
<1>4. baseline \in [Keys -> U!Entries]
  <2>1. PICK bare : baseline = [k \in Keys |-> IF k \in bare THEN [upstream[k] EXCEPT !.held = None]
                                               ELSE upstream[k]]
    BY DEF U!Init
  <2>2. ASSUME NEW e \in U!Entries PROVE [e EXCEPT !.held = None] \in U!Entries
    BY DEF U!Entries
  <2> QED
    BY <1>3, <2>1, <2>2
<1>5. issues \in Issues /\ Labelled
  BY <1>1 DEF Issues, Labelled
<1>6. UTyped
  BY <1>1, <1>3, <1>4, <1>5, UIdleTyped DEF UTyped
<1>7. U!AllClearIsEarned /\ U!FindingReachesReader
  BY <1>2 DEF U!AllClearIsEarned, U!FindingReachesReader
<1> QED
  BY <1>2, <1>5, <1>6, <1>7 DEF UInv, Running, Listed

LEMMA UStartKeeps ==
    ASSUME UInv, NEW mode \in U!Modes, NEW only \in SUBSET Keys, U!Start(mode, only)
    PROVE  UInv'
<1> DEFINE asked == IF mode = "installed" THEN only ELSE only \cap DOMAIN baseline
           next == [U!Idle EXCEPT !.pc = "ask", !.mode = mode, !.only = asked]
<1>1. /\ check' = next /\ last' = U!NoResult /\ UNCHANGED <<upstream, baseline, issues>>
  BY DEF U!Start
<1>2. asked \in SUBSET Keys /\ (mode # "installed" => asked \subseteq DOMAIN baseline)
  OBVIOUS
<1> HIDE DEF asked
<1>3. /\ next \in Checks /\ next.pc = "ask" /\ next.mode = mode /\ next.only = asked
      /\ next.rows = [k \in Keys |-> U!NoRow]
  BY <1>2, UIdleTyped DEF Checks, U!Idle
<1>4. /\ U!NoResult.end = "none" /\ U!NoResult.truth = {} /\ U!NoRow.state = "none"
  BY DEF U!NoResult, U!NoRow, U!Row
<1> HIDE DEF next
<1>5. UTyped'
  BY <1>1, <1>3, UIdleTyped DEF UInv, UTyped
<1>6. Running' /\ Labelled' /\ Listed'
  BY <1>1, <1>2, <1>3, <1>4 DEF UInv, Running, Labelled, Listed
<1>7. Honest(check', last'.truth)
  BY <1>1, <1>2, <1>3, <1>4 DEF Honest
<1>8. U!AllClearIsEarned' /\ U!FindingReachesReader'
  BY <1>1, <1>4 DEF U!AllClearIsEarned, U!FindingReachesReader
<1> QED
  BY <1>5, <1>6, <1>7, <1>8 DEF UInv

\* A row that is there when a run asks is kept, and the next one says what was compared.
LEMMA UAnswerKeeps ==
    ASSUME UInv, NEW k \in check.only, NEW row \in U!Results, NEW truth \in SUBSET {"same", "moved"},
           row.state = "current" => "same" \in truth,
           "moved" \in truth => row.state = "newer",
           U!Answer(k, row, truth)
    PROVE  UInv'
<1> DEFINE next == [check EXCEPT !.rows[k] = row]
           told == [last EXCEPT !.truth = @ \cup truth]
<1>1. check' = next /\ last' = told /\ UNCHANGED <<upstream, baseline, issues>>
  BY DEF U!Answer
<1>2. check.pc = "ask" /\ check.rows[k] = U!NoRow /\ U!NoRow.state = "none"
  <2>1. k \in U!Waiting
    BY DEF U!Answer
  <2> QED
    BY <2>1 DEF U!Answer, U!Waiting, U!NoRow, U!Row
<1>3. check \in Checks /\ last \in Ended /\ k \in Keys
  BY DEF UInv, UTyped, Checks
<1>4. /\ next \in Checks /\ next.pc = "ask" /\ next.mode = check.mode /\ next.only = check.only
      /\ next.rows[k] = row /\ \A j \in Keys \ {k} : next.rows[j] = check.rows[j]
  BY <1>2, <1>3 DEF Checks
<1>5. told \in Ended /\ told.end = last.end /\ told.truth = last.truth \cup truth
  BY <1>3 DEF Ended
<1> HIDE DEF next, told
<1>6. UTyped'
  BY <1>1, <1>4, <1>5 DEF UInv, UTyped
<1>7. Running' /\ Labelled' /\ Listed'
  BY <1>1, <1>2, <1>4, <1>5 DEF UInv, Running, Labelled, Listed
<1>8. Honest(check', last'.truth)
  <2>1. Honest(check, last.truth) /\ check.only \subseteq Keys
    BY <1>2, <1>3 DEF UInv, Checks
  <2>2. \A j \in check.only : check'.rows[j].state = "current" => "same" \in last'.truth
    BY <1>1, <1>4, <1>5, <2>1 DEF Honest
  <2>3. "moved" \in last'.truth => \E j \in check.only : check'.rows[j].state = "newer"
    <3>1. CASE "moved" \in truth
      BY <1>1, <1>4, <3>1
    <3>2. CASE "moved" \in last.truth
      <4>1. PICK j \in check.only : check.rows[j].state = "newer"
        BY <2>1, <3>2 DEF Honest
      <4> QED
        BY <1>1, <1>2, <1>4, <2>1, <4>1
    <3> QED
      BY <1>1, <1>5, <3>1, <3>2
  <2> QED
    BY <1>1, <1>4, <2>2, <2>3 DEF Honest
<1>9. last'.end = "none"
  BY <1>1, <1>2, <1>5 DEF UInv, Running
<1>10. U!AllClearIsEarned' /\ U!FindingReachesReader'
  BY <1>9 DEF U!AllClearIsEarned, U!FindingReachesReader
<1> QED
  BY <1>1, <1>4, <1>6, <1>7, <1>8, <1>10 DEF UInv

LEMMA UAskKeeps ==
    ASSUME UInv, NEW k \in check.only
    PROVE  /\ \A how \in U!Hows(k) : U!AskBaseline(k, how) => UInv'
           /\ \A how \in U!Hows(k), ref \in U!Installed(k) : U!AskInstalled(k, ref, how) => UInv'
           /\ \A state \in {"missing", "ambiguous", "absent", "incomplete"} :
                U!AskUnusable(k, state) => UInv'
<1>1. k \in Keys /\ upstream \in [Keys -> U!Entries]
  BY DEF UInv, UTyped, Checks
<1>2. ASSUME NEW how \in U!Hows(k), U!AskBaseline(k, how) PROVE UInv'
  <2>1. check.pc = "ask" /\ check.mode # "installed"
    BY <1>2 DEF U!AskBaseline, U!Answer
  <2>2. baseline[k] \in U!Entries
    BY <2>1 DEF UInv, UTyped, Running
  <2> DEFINE ref == baseline[k]
             row == U!Probe(k, ref, how)
             truth == U!Truth(k, ref, how)
  <2>3. /\ row \in U!Results /\ truth \subseteq {"same", "moved"}
        /\ row.state = "current" => "same" \in truth
        /\ "moved" \in truth => row.state = "newer"
    BY <1>1, <2>2, ProbeIsHonest
  <2>4. U!Answer(k, row, truth)
    BY <1>2 DEF U!AskBaseline
  <2> HIDE DEF row, truth
  <2> QED
    BY <2>3, <2>4, UAnswerKeeps
<1>3. ASSUME NEW how \in U!Hows(k), NEW ref \in U!Installed(k), U!AskInstalled(k, ref, how)
      PROVE  UInv'
  <2> DEFINE row == U!Probe(k, ref, how)
             truth == U!Truth(k, ref, how)
  <2>1. ref \in U!Entries
    BY DEF U!Installed
  <2>3. /\ row \in U!Results /\ truth \subseteq {"same", "moved"}
        /\ row.state = "current" => "same" \in truth
        /\ "moved" \in truth => row.state = "newer"
    BY <1>1, <2>1, ProbeIsHonest
  <2>4. U!Answer(k, row, truth)
    BY <1>3 DEF U!AskInstalled
  <2> HIDE DEF row, truth
  <2> QED
    BY <2>3, <2>4, UAnswerKeeps
<1>4. ASSUME NEW state \in {"missing", "ambiguous", "absent", "incomplete"}, U!AskUnusable(k, state)
      PROVE  UInv'
  <2> DEFINE row == U!Unstarted(state)
  <2>1. row \in U!Results /\ row.state # "current"
    BY DEF U!Unstarted, U!Row, U!Results, U!Values
  <2>2. U!Answer(k, row, {})
    BY <1>4 DEF U!AskUnusable
  <2> HIDE DEF row
  <2> QED
    BY <2>1, <2>2, UAnswerKeeps
<1> QED
  BY <1>2, <1>3, <1>4

LEMMA FoundTyped == UInv => U!Found \in U!Findings
BY DEF UInv, UTyped, Checks, U!Results, U!Found, U!Findings

\* A run that ends says what its rows say; what it says it handled is on an issue by then.
LEMMA UFinishKeeps ==
    ASSUME UInv, check.pc # "idle", NEW end \in {"checked", "recorded", "handled", "dry", "unknown"},
           U!Finish(end), UNCHANGED upstream,
           baseline' \in [DOMAIN baseline' -> U!Entries], DOMAIN baseline' \subseteq Keys,
           issues' \in Issues, Labelled',
           end = "handled" => U!Found = {} \/ Readable(issues', U!Found)
    PROVE  UInv'
<1> DEFINE code == U!Verdict(U!States)
           told == [last EXCEPT !.end = end, !.code = code, !.found = U!Found]
<1>1. check' = U!Idle /\ last' = told /\ U!Idle.pc = "idle"
  BY DEF U!Finish, U!Idle
<1>2. code \in 0..2
  BY DEF U!Verdict
<1>3. last \in Ended /\ U!Found \in U!Findings /\ Honest(check, last.truth)
  BY FoundTyped DEF UInv, UTyped
<1>4. code = 0 => "same" \in last.truth /\ "moved" \notin last.truth
  <2>1. code = 0 => /\ "current" \in U!States /\ "newer" \notin U!States
    BY DEF U!Verdict, U!Comparable
  <2> QED
    BY <1>3, <2>1 DEF U!States, Honest
<1> HIDE DEF code
<1>5. /\ told \in Ended /\ told.end = end /\ told.code = code /\ told.found = U!Found
      /\ told.truth = last.truth
  BY <1>2, <1>3 DEF Ended
<1> HIDE DEF told
<1>6. UTyped'
  BY <1>1, <1>5, UIdleTyped DEF UInv, UTyped
<1>7. Running' /\ Listed'
  BY <1>1 DEF Running, Listed
<1>8. U!AllClearIsEarned'
  BY <1>1, <1>4, <1>5 DEF U!AllClearIsEarned
<1>9. U!FindingReachesReader'
  <2>1. SUFFICES ASSUME end = "handled", U!Found # {}
                 PROVE  Readable(issues', U!Found)
    BY <1>1, <1>5 DEF U!FindingReachesReader, Readable
  <2> QED
    BY <2>1
<1> QED
  BY <1>1, <1>6, <1>7, <1>8, <1>9 DEF UInv

LEMMA UConcludeKeeps == UInv /\ U!Conclude => UInv'
<1> SUFFICES ASSUME UInv, U!Conclude PROVE UInv'
  OBVIOUS
<1>1. check.pc = "ask" /\ UNCHANGED <<upstream, baseline, issues>>
  BY DEF U!Conclude
<1>2. CASE U!Finish("checked")
  <2>1. /\ baseline' \in [DOMAIN baseline' -> U!Entries] /\ DOMAIN baseline' \subseteq Keys
        /\ issues' \in Issues /\ Labelled'
    BY <1>1 DEF UInv, UTyped, Labelled
  <2> QED
    BY <1>1, <1>2, <2>1, UFinishKeeps
<1>3. CASE check' = [check EXCEPT !.pc = "list"] /\ UNCHANGED last
  <2>1. /\ check' \in Checks /\ check'.pc = "list" /\ check'.only = check.only
        /\ check'.rows = check.rows /\ check'.mode = check.mode
    BY <1>3 DEF UInv, UTyped, Checks
  <2>2. UTyped' /\ Running' /\ Labelled' /\ Listed'
    BY <1>1, <1>3, <2>1 DEF UInv, UTyped, Running, Labelled, Listed
  <2>3. Honest(check', last'.truth)
    BY <1>1, <1>3, <2>1 DEF UInv, Honest
  <2>4. U!AllClearIsEarned' /\ U!FindingReachesReader'
    BY <1>1, <1>3 DEF UInv, U!AllClearIsEarned, U!FindingReachesReader
  <2> QED
    BY <2>2, <2>3, <2>4 DEF UInv
<1> QED
  BY <1>2, <1>3 DEF U!Conclude

LEMMA URecordKeeps == UInv /\ U!RecordBaseline => UInv'
<1> SUFFICES ASSUME UInv, U!RecordBaseline PROVE UInv'
  OBVIOUS
<1>1. check.pc = "ask" /\ check.mode = "record" /\ U!Finish("recorded")
      /\ UNCHANGED <<upstream, issues>>
  BY DEF U!RecordBaseline
<1>2. check.only \subseteq DOMAIN baseline /\ check.only \subseteq Keys
  BY <1>1 DEF UInv, UTyped, Running, Checks
<1>3. ASSUME NEW k \in check.only
      PROVE  U!ToBaselineEntry(baseline[k], check.rows[k]) \in U!Entries
  <2>1. baseline[k] \in U!Entries /\ check.rows[k].upstream \in U!Values
    BY <1>2 DEF UInv, UTyped, Checks, U!Results
  <2>2. ASSUME NEW e \in U!Entries, NEW v \in U!Values
        PROVE  /\ v \in Names => [e EXCEPT !.name = v] \in U!Entries
               /\ v \notin Names => [e EXCEPT !.held = v] \in U!Entries
    BY DEF U!Entries, U!Values
  <2> QED
    BY <2>1, <2>2 DEF U!ToBaselineEntry
<1>4. baseline' \in [check.only -> U!Entries]
  BY <1>3 DEF U!RecordBaseline
<1>5. issues' \in Issues /\ Labelled'
  BY <1>1 DEF UInv, UTyped, Labelled
<1> QED
  BY <1>1, <1>2, <1>4, <1>5, UFinishKeeps

\* A set of numbers up to a bound has a largest.
LEMMA LastOfAFew ==
    ASSUME NEW n \in Nat, NEW S \in SUBSET (1..n), S # {}
    PROVE  \E i \in S : \A j \in S : j <= i
<1> DEFINE R == {ss \in Nat \X Nat : ss[1] < ss[2]}
           T == {m \in Nat : n - m \in S}
<1>1. IsWellFoundedOn(R, Nat)
  BY NatLessThanWellFounded DEF OpToRel
<1>2. \A x, y \in Nat : ~ (<<y, x>> \in R) => ~ (y < x)
  OBVIOUS
<1>3. T \subseteq Nat /\ T # {}
  <2>1. PICK s \in S : TRUE
    OBVIOUS
  <2>2. n - s \in Nat /\ n - (n - s) = s
    OBVIOUS
  <2> QED
    BY <2>1, <2>2
<1> HIDE DEF R
<1>4. PICK x \in T : \A y \in T : ~ (<<y, x>> \in R)
  <2> HIDE DEF T
  <2> QED
    BY <1>1, <1>3, WFMin
<1>5. ASSUME NEW j \in S PROVE j <= n - x
  <2>1. n - j \in T
    BY DEF T
  <2>2. ~ (n - j < x)
    BY <1>2, <1>3, <1>4, <2>1
  <2> QED
    BY <1>3, <2>2
<1> QED
  BY <1>4, <1>5

LEMMA UListKeeps == UInv /\ U!ListIssues => UInv'
<1> SUFFICES ASSUME UInv, U!ListIssues PROVE UInv'
  OBVIOUS
<1> DEFINE announced == {issues[i].posts[1].key : i \in U!Open}
           first == IF U!Open = {} THEN 0
                    ELSE CHOOSE i \in U!Open : \A j \in U!Open : j <= i
           next == [check EXCEPT !.pc = "publish", !.announced = announced, !.first = first]
<1>1. check.pc = "list" /\ check' = next /\ UNCHANGED <<upstream, baseline, issues, last>>
  BY DEF U!ListIssues
<1>2. ASSUME NEW i \in 1..Len(issues)
      PROVE  /\ issues[i].posts \in Seq(U!Posts) /\ 1 \in 1..Len(issues[i].posts)
             /\ issues[i].posts[1].key = issues[i].posts[1].found
             /\ issues[i].posts[1] \in U!Posts
  <2>1. /\ issues[i].posts \in Seq(U!Posts) /\ Len(issues[i].posts) > 0
        /\ \A j \in 1..Len(issues[i].posts) : issues[i].posts[j].key = issues[i].posts[j].found
    BY IssueOf DEF UInv, UTyped, Labelled
  <2>2. 1 \in 1..Len(issues[i].posts)
    BY <2>1
  <2> QED
    BY <2>1, <2>2
<1>3. \A found \in announced : Readable(issues, found)
  BY <1>2 DEF U!Open, Readable
<1>4. announced \in SUBSET U!Findings
  BY <1>2 DEF U!Open, U!Posts, U!Findings
<1>5. first \in Nat /\ first <= Len(issues)
  <2>1. Len(issues) \in Nat /\ U!Open \subseteq 1..Len(issues)
    BY DEF UInv, UTyped, Issues, U!Open
  <2>4. \A m \in U!Open : m \in Nat /\ m <= Len(issues)
    BY <2>1
  <2>2. CASE U!Open = {}
    BY <2>1, <2>2
  <2>3. CASE U!Open # {}
    <3>1. \E i \in U!Open : \A j \in U!Open : j <= i
      BY <2>1, <2>3, LastOfAFew
    <3>2. (CHOOSE i \in U!Open : \A j \in U!Open : j <= i) \in U!Open
      BY <3>1
    <3>3. first \in U!Open
      BY <2>3, <3>2
    <3> QED
      BY <2>4, <3>3
  <2> QED
    BY <2>2, <2>3
<1> HIDE DEF announced, first
<1>6. /\ next \in Checks /\ next.pc = "publish" /\ next.mode = check.mode
      /\ next.only = check.only /\ next.rows = check.rows
      /\ next.announced = announced /\ next.first = first
  BY <1>4, <1>5 DEF UInv, UTyped, Checks
<1> HIDE DEF next
<1>7. UTyped' /\ Running' /\ Labelled'
  BY <1>1, <1>6 DEF UInv, UTyped, Running, Labelled
<1>8. Listed'
  BY <1>1, <1>3, <1>5, <1>6 DEF Listed, Readable
<1>9. Honest(check', last'.truth)
  BY <1>1, <1>6 DEF UInv, Honest
<1>10. U!AllClearIsEarned' /\ U!FindingReachesReader'
  BY <1>1 DEF UInv, U!AllClearIsEarned, U!FindingReachesReader
<1> QED
  BY <1>7, <1>8, <1>9, <1>10 DEF UInv

\* What the report leaves as it is.
LEMMA UReportEnds ==
    ASSUME UInv, check.pc # "idle", UNCHANGED <<upstream, baseline, issues>>,
           \/ U!Finish("unknown") \/ U!Finish("dry")
           \/ U!Finish("handled") /\ (U!Found = {} \/ Readable(issues, U!Found))
    PROVE  UInv'
<1>1. /\ baseline' \in [DOMAIN baseline' -> U!Entries] /\ DOMAIN baseline' \subseteq Keys
      /\ issues' \in Issues /\ Labelled'
  BY DEF UInv, UTyped, Labelled
<1> QED
  BY <1>1, UFinishKeeps

LEMMA UQuietKeeps == UInv /\ (U!Quiet \/ U!DryRun \/ U!GhFails) => UInv'
<1>1. ASSUME UInv, U!Quiet PROVE UInv'
  <2>1. /\ check.pc = "publish" /\ UNCHANGED <<upstream, baseline, issues>> /\ U!Finish("handled")
        /\ U!Found = {} \/ U!Found \in check.announced
    BY <1>1 DEF U!Quiet, U!FindingKey
  <2>2. U!Found = {} \/ Readable(issues, U!Found)
    BY <1>1, <2>1 DEF UInv, Listed
  <2> QED
    BY <1>1, <2>1, <2>2, UReportEnds
<1>2. ASSUME UInv, U!DryRun PROVE UInv'
  BY <1>2, UReportEnds DEF U!DryRun
<1>3. ASSUME UInv, U!GhFails PROVE UInv'
  BY <1>3, UReportEnds DEF U!GhFails
<1> QED
  BY <1>1, <1>2, <1>3

LEMMA PostIsLabelled ==
    UInv => U!Post \in U!Posts /\ U!Post.key = U!Post.found /\ U!Post.found = U!Found
BY FoundTyped DEF U!Post, U!Posts, U!FindingKey, U!Findings

LEMMA UCreateKeeps == UInv /\ U!Create => UInv'
<1> SUFFICES ASSUME UInv, U!Create PROVE UInv'
  OBVIOUS
<1> DEFINE issue == [open |-> TRUE, posts |-> <<U!Post>>]
<1>1. /\ check.pc = "publish" /\ issues' = Append(issues, issue) /\ U!Finish("handled")
      /\ UNCHANGED <<upstream, baseline>>
  BY DEF U!Create
<1>2. /\ issue \in Issue
      /\ issue.posts[1].found = U!Found /\ Len(issue.posts) = 1
      /\ issue.posts[1].key = issue.posts[1].found
  BY PostIsLabelled DEF Issue
<1> HIDE DEF issue
<1>3. issues \in Issues /\ Labelled
  BY DEF UInv, UTyped
<1>4. /\ issues' \in Issues /\ Len(issues') = Len(issues) + 1 /\ issues'[Len(issues) + 1] = issue
      /\ \A i \in 1..Len(issues) : issues'[i] = issues[i]
  BY <1>1, <1>2, <1>3 DEF Issues
<1>5. Labelled'
  <2> SUFFICES ASSUME NEW i \in 1..Len(issues')
               PROVE  /\ Len(issues'[i].posts) > 0
                      /\ \A j \in 1..Len(issues'[i].posts) :
                           issues'[i].posts[j].key = issues'[i].posts[j].found
    BY DEF Labelled
  <2>1. CASE i = Len(issues) + 1
    BY <1>2, <1>4, <2>1
  <2>2. CASE i \in 1..Len(issues)
    BY <1>3, <1>4, <2>2 DEF Labelled
  <2> QED
    BY <1>3, <1>4, <2>1, <2>2 DEF Issues
<1>6. Readable(issues', U!Found)
  <2>1. Len(issues) + 1 \in 1..Len(issues')
    BY <1>3, <1>4 DEF Issues
  <2> QED
    BY <1>2, <1>4, <2>1 DEF Readable
<1>7. baseline' \in [DOMAIN baseline' -> U!Entries] /\ DOMAIN baseline' \subseteq Keys
  BY <1>1 DEF UInv, UTyped
<1> QED
  BY <1>1, <1>4, <1>5, <1>6, <1>7, UFinishKeeps

LEMMA UCommentKeeps == UInv /\ U!Comment => UInv'
<1> SUFFICES ASSUME UInv, U!Comment PROVE UInv'
  OBVIOUS
<1> DEFINE f == check.first
           posts == Append(issues[f].posts, U!Post)
<1>1. /\ check.pc = "publish" /\ f # 0 /\ U!Finish("handled") /\ UNCHANGED <<upstream, baseline>>
      /\ issues' = [issues EXCEPT ![f].posts = posts]
  BY DEF U!Comment
<1>2. issues \in Issues /\ Labelled /\ f \in 1..Len(issues)
  <2>1. issues \in Issues /\ Labelled /\ f \in Nat /\ f <= Len(issues)
    BY <1>1 DEF UInv, UTyped, Checks, Listed
  <2> QED
    BY <1>1, <2>1 DEF Issues
<1>3. /\ issues[f].posts \in Seq(U!Posts)
      /\ \A j \in 1..Len(issues[f].posts) : issues[f].posts[j].key = issues[f].posts[j].found
  BY <1>2, IssueOf DEF Labelled
<1>4. /\ posts \in Seq(U!Posts) /\ Len(posts) > 0
      /\ \A j \in 1..Len(posts) : posts[j].key = posts[j].found
      /\ Len(posts) \in 1..Len(posts) /\ posts[Len(posts)].found = U!Found
  BY <1>3, PostIsLabelled
<1> HIDE DEF posts, f
<1>5. /\ issues' \in Issues /\ Len(issues') = Len(issues) /\ issues'[f].posts = posts
      /\ \A i \in 1..Len(issues) \ {f} : issues'[i] = issues[i]
  <2> DEFINE e == [issues[f] EXCEPT !.posts = posts]
  <2>1. e \in Issue /\ e.posts = posts
    BY <1>2, <1>4, IssueOf DEF Issue
  <2>2. issues' = Changed(issues, f, e)
    BY <1>1 DEF Changed
  <2> HIDE DEF e
  <2> QED
    BY <1>2, <2>1, <2>2, IssueChanged
<1>6. Labelled'
  <2> SUFFICES ASSUME NEW i \in 1..Len(issues')
               PROVE  /\ Len(issues'[i].posts) > 0
                      /\ \A j \in 1..Len(issues'[i].posts) :
                           issues'[i].posts[j].key = issues'[i].posts[j].found
    BY DEF Labelled
  <2>1. CASE i = f
    BY <1>4, <1>5, <2>1
  <2>2. CASE i # f
    BY <1>2, <1>5, <2>2 DEF Labelled
  <2> QED
    BY <2>1, <2>2
<1>7. Readable(issues', U!Found)
  BY <1>2, <1>4, <1>5 DEF Readable
<1>8. baseline' \in [DOMAIN baseline' -> U!Entries] /\ DOMAIN baseline' \subseteq Keys
  BY <1>1 DEF UInv, UTyped
<1> QED
  BY <1>1, <1>5, <1>6, <1>7, <1>8, UFinishKeeps

LEMMA UCloseKeeps ==
    ASSUME UInv, NEW i \in 1..Len(issues), U!Close(i)
    PROVE  UInv'
<1>1. issues' = [issues EXCEPT ![i].open = FALSE] /\ UNCHANGED <<upstream, baseline, check, last>>
  BY DEF U!Close
<1>2. issues \in Issues /\ Labelled
  BY DEF UInv, UTyped
<1>3. /\ issues' \in Issues /\ Len(issues') = Len(issues)
      /\ \A j \in 1..Len(issues) : issues'[j].posts = issues[j].posts
  <2> DEFINE e == [issues[i] EXCEPT !.open = FALSE]
  <2>1. e \in Issue /\ e.posts = issues[i].posts
    BY <1>2, IssueOf DEF Issue
  <2>2. issues' = Changed(issues, i, e)
    BY <1>1 DEF Changed
  <2> HIDE DEF e
  <2>3. /\ issues' \in Issues /\ Len(issues') = Len(issues) /\ issues'[i] = e
        /\ \A j \in 1..Len(issues) \ {i} : issues'[j] = issues[j]
    BY <1>2, <2>1, <2>2, IssueChanged
  <2> QED
    BY <2>1, <2>3
<1>4. Labelled'
  BY <1>2, <1>3 DEF Labelled
<1>5. ASSUME NEW found, Readable(issues, found) PROVE Readable(issues', found)
  BY <1>3, <1>5 DEF Readable
<1>6. UTyped' /\ Running'
  BY <1>1, <1>3 DEF UInv, UTyped, Running
<1>7. Listed'
  BY <1>1, <1>3, <1>5 DEF UInv, Listed
<1>8. Honest(check', last'.truth) \/ check'.pc = "idle"
  BY <1>1 DEF UInv
<1>9. U!AllClearIsEarned'
  BY <1>1 DEF UInv, U!AllClearIsEarned
<1>10. U!FindingReachesReader'
  <2>1. last.end = "handled" /\ last.found # {} => Readable(issues, last.found)
    BY DEF UInv, U!FindingReachesReader, Readable
  <2>2. last.end = "handled" /\ last.found # {} => Readable(issues', last.found)
    BY <1>5, <2>1
  <2> QED
    BY <1>1, <2>2 DEF U!FindingReachesReader, Readable
<1> QED
  BY <1>1, <1>4, <1>6, <1>7, <1>8, <1>9, <1>10 DEF UInv

LEMMA UMoveKeeps ==
    ASSUME UInv, NEW k \in Keys, NEW entry \in U!Entries, U!Move(k, entry)
    PROVE  UInv'
<1>1. /\ upstream' = [upstream EXCEPT ![k] = entry] /\ UNCHANGED <<baseline, issues, check, last>>
  BY DEF U!Move
<1>2. UTyped'
  BY <1>1 DEF UInv, UTyped
<1>3. Running' /\ Labelled' /\ Listed'
  BY <1>1 DEF UInv, Running, Labelled, Listed
<1>4. Honest(check', last'.truth) \/ check'.pc = "idle"
  BY <1>1 DEF UInv
<1>5. U!AllClearIsEarned' /\ U!FindingReachesReader'
  BY <1>1 DEF UInv, U!AllClearIsEarned, U!FindingReachesReader
<1> QED
  BY <1>2, <1>3, <1>4, <1>5 DEF UInv

LEMMA UInvNext == UInv /\ U!Next => UInv'
<1> SUFFICES ASSUME UInv, U!Next PROVE UInv'
  OBVIOUS
<1>1. ASSUME NEW mode \in U!Modes, NEW only \in SUBSET Keys, U!Start(mode, only) PROVE UInv'
  BY <1>1, UStartKeeps
<1>2. ASSUME NEW k \in check.only, NEW how \in U!Hows(k),
             U!AskBaseline(k, how) \/ \E ref \in U!Installed(k) : U!AskInstalled(k, ref, how)
      PROVE  UInv'
  BY <1>2, UAskKeeps
<1>3. ASSUME NEW k \in check.only, NEW state \in {"missing", "ambiguous", "absent", "incomplete"},
             U!AskUnusable(k, state)
      PROVE  UInv'
  BY <1>3, UAskKeeps
<1>4. ASSUME NEW i \in 1..Len(issues), U!Close(i) PROVE UInv'
  BY <1>4, UCloseKeeps
<1>5. ASSUME NEW k \in Keys, NEW entry \in U!Entries, U!Move(k, entry) PROVE UInv'
  BY <1>5, UMoveKeeps
<1> QED
  BY <1>1, <1>2, <1>3, <1>4, <1>5, UConcludeKeeps, URecordKeeps, UListKeeps, UQuietKeeps,
     UCreateKeeps, UCommentKeeps DEF U!Next

\* The issue a comment goes to is one of the list, whether a run goes by it or has ended.
Pointed == check.first <= Len(issues)

LEMMA PointedKeeps == UInv /\ UInv' /\ Pointed /\ U!Next => Pointed'
<1> SUFFICES ASSUME UInv, UInv', Pointed, U!Next PROVE Pointed'
  OBVIOUS
<1>1. Len(issues) \in Nat /\ Len(issues') \in Nat /\ check \in Checks /\ issues \in Issues
  BY DEF UInv, UTyped, Issues
<1>2. ASSUME check' = U!Idle PROVE Pointed'
  BY <1>1, <1>2 DEF Pointed, U!Idle
<1>3. ASSUME NEW k, NEW row, NEW truth, U!Answer(k, row, truth) PROVE Pointed'
  BY <1>1, <1>3 DEF Pointed, Checks, U!Answer
<1>4. ASSUME NEW mode, NEW only, U!Start(mode, only) PROVE Pointed'
  BY <1>1, <1>4 DEF Pointed, U!Start, U!Idle
<1>5. ASSUME U!Conclude PROVE Pointed'
  BY <1>1, <1>2, <1>5 DEF Pointed, Checks, U!Conclude, U!Finish
<1>6. ASSUME U!ListIssues PROVE Pointed'
  <2>1. check'.pc = "publish"
    BY <1>1, <1>6 DEF Checks, U!ListIssues
  <2> QED
    BY <2>1 DEF UInv, Listed, Pointed
<1>7. ASSUME NEW i \in 1..Len(issues), U!Close(i) PROVE Pointed'
  <2>1. Len(issues') = Len(issues)
    BY <1>1, <1>7 DEF U!Close, Issues
  <2> QED
    BY <1>7, <2>1 DEF Pointed, U!Close
<1>8. ASSUME NEW k \in Keys, NEW entry \in U!Entries, U!Move(k, entry) PROVE Pointed'
  BY <1>8 DEF Pointed, U!Move
<1>9. ASSUME U!RecordBaseline \/ U!Quiet \/ U!Create \/ U!Comment \/ U!DryRun \/ U!GhFails
      PROVE  Pointed'
  BY <1>2, <1>9 DEF U!RecordBaseline, U!Quiet, U!Create, U!Comment, U!DryRun, U!GhFails, U!Finish
<1> QED
  BY <1>3, <1>4, <1>5, <1>6, <1>7, <1>8, <1>9
  DEF U!Next, U!AskBaseline, U!AskInstalled, U!AskUnusable

LEMMA UpdatesTyped == UInv /\ Pointed => U!TypeOK
<1> SUFFICES ASSUME UInv, Pointed PROVE U!TypeOK
  OBVIOUS
<1>1. ASSUME NEW i \in 1..Len(issues)
      PROVE  /\ issues[i].open \in BOOLEAN
             /\ \A j \in 1..Len(issues[i].posts) : issues[i].posts[j] \in U!Posts
  <2>1. issues[i] \in Issue
    BY IssueOf DEF UInv, UTyped
  <2> QED
    BY <2>1 DEF Issue
<1>2. check \in Checks /\ Len(issues) \in Nat /\ last \in Ended
  BY DEF UInv, UTyped, Issues
<1>3. check.first \in 0..Len(issues)
  BY <1>2 DEF Checks, Pointed
<1> QED
  BY <1>1, <1>2, <1>3 DEF UInv, UTyped, Checks, Ended, U!TypeOK

UpdatesInv == tool = "updates" => UInv /\ Pointed

LEMMA UpdatesInvInit == Init => UpdatesInv
<1>1. U!Init => Pointed
  BY DEF U!Init, U!Idle, Pointed
<1> QED
  BY <1>1, UInvInit DEF Init, UpdatesInv

LEMMA UpdatesInvNext == UpdatesInv /\ [Next]_vars => UpdatesInv'
<1> SUFFICES ASSUME UpdatesInv, [Next]_vars PROVE UpdatesInv'
  OBVIOUS
<1>1. CASE tool = "updates" /\ U!Next
  BY <1>1, UInvNext, PointedKeeps DEF UpdatesInv
<1>2. CASE UNCHANGED vars
  BY <1>2 DEF UpdatesInv, vars, updates, UInv, Pointed, UTyped, Running, Labelled, Listed, Honest,
              U!AllClearIsEarned, U!FindingReachesReader
<1>3. CASE tool # "updates" /\ UNCHANGED tool
  BY <1>3 DEF UpdatesInv
<1> QED
  BY <1>1, <1>2, <1>3 DEF Next

\* The upstream check answers "nothing newer" only when it compared a reference with an answer
\* and found them the same, and never over a difference, whatever fails or is missing.
THEOREM AllClearsAreEarned == Spec => []AllClearIsEarned
<1>1. UpdatesInv => AllClearIsEarned
  BY DEF UpdatesInv, UInv, AllClearIsEarned
<1> QED
  BY <1>1, UpdatesInvInit, UpdatesInvNext, PTL DEF Spec

\* A finding the report handled can be read on one of its issues, whatever was announced,
\* commented and closed before or meanwhile.
THEOREM FindingsAreRead == Spec => []FindingReachesReader
<1>1. UpdatesInv => FindingReachesReader
  BY DEF UpdatesInv, UInv, FindingReachesReader
<1> QED
  BY <1>1, UpdatesInvInit, UpdatesInvNext, PTL DEF Spec

-----------------------------------------------------------------------------
(* The fetch scripts.                                                      *)

RunsOf ==
    [pc : D!Steps, todo : SUBSET Assets, asset : Assets, force : BOOLEAN, allow : BOOLEAN,
     ask : BOOLEAN, digest : Gens \cup {Splice, None}, said : D!Statements, tries : Nat, writing : D!Docs]
Outcomes ==
    [result : D!Results, forced : BOOLEAN, answered : [Assets -> Gens \cup {None}]]
Parkings == [Assets -> Gens \cup {Splice, None}]
Trees == [gen : D!Bytes, whole : BOOLEAN, laid : BOOLEAN]

DTyped ==
    /\ family \in Families
    /\ pin \in [Assets -> Gens \cup {None}] /\ served \in [Assets -> Gens]
    /\ file \in [Assets -> D!Bytes] /\ parked \in Parkings /\ tree \in Trees /\ cut \in BOOLEAN
    /\ doc \in D!Docs /\ run \in RunsOf /\ outcome \in Outcomes

PinnedIs(bytes, a) == pin[a] # None => bytes = pin[a]

\* Bytes of an asset are what is served under an etag, or the splice an unpinned fetch can land.
AsServed(bytes, a, g) == bytes = g \/ (pin[a] = None /\ bytes = Splice)

\* A record names pinned bytes by their pin, and every etag in it is about the bytes it names.
Fit(d) ==
    \A a \in Assets :
        /\ d.entries[a].etag # None => AsServed(d.entries[a].sha, a, d.entries[a].etag)
        /\ d.entries[a].sha # None => PinnedIs(d.entries[a].sha, a)

\* The checkpoint is downloaded in place; the other families have one asset.
Single ==
    IF family = "madlad" THEN run.pc \notin {"place", "unpacking"}
    ELSE run.asset = Main /\ run.pc # "refresh"

\* What a run knows about its asset: the digest it will record, and what the server said of it.
Told ==
    /\ run.digest # None => /\ run.said = Unasked => run.digest = pin[run.asset]
                            /\ run.said \in Gens => AsServed(run.digest, run.asset, run.said)
                            /\ PinnedIs(run.digest, run.asset)
    /\ run.pc \in {"cached", "ask"} => run.digest = None
    /\ run.pc \in {"record", "refresh", "recording"} => run.digest # None
    /\ run.pc = "refresh" => doc.entries[run.asset].sha = run.digest
    /\ run.pc = "recording" => run.writing.entries[run.asset].sha = run.digest

\* A run with one asset hears of it when it asks.
Hushed == family # "madlad" /\ run.pc = "cached" => run.said = Unasked

\* A tree that passes for unpacked is all there, or a kill has cut it short.
CutShort == tree.laid /\ ~tree.whole => cut

\* What was checked is what is unpacked, and what is unpacked is what is recorded.  A tree is
\* incomplete while it is extracted, and while --force removes it.
Planted ==
    /\ CutShort \/ run.pc = "unpacking" \/ (run.pc = "place" /\ run.force)
    /\ tree # D!NoTree => PinnedIs(tree.gen, Main)
    /\ run.pc = "place" => PinnedIs(file[Main], Main)
    /\ run.pc = "unpacking" => PinnedIs(tree.gen, Main)
    /\ family # "madlad" => /\ run.pc \in {"place", "unpacking", "verify"} =>
                                 (pin[Main] # None => run.digest # None)
                            /\ run.pc \in {"record", "recording"} => tree.laid

\* What the server answered for is what the run has put where it is used.
Answers ==
    run.pc # "idle" =>
        /\ outcome.result = "none"
        /\ family = "madlad" =>
             \A a \in Assets : outcome.answered[a] # None =>
                 AsServed(file[a], a, outcome.answered[a])
        /\ family # "madlad" /\ outcome.answered[Main] # None =>
             /\ run.pc \notin {"cached", "ask"}
             /\ run.pc = "place" => AsServed(file[Main], Main, outcome.answered[Main])
             /\ run.force /\ run.pc \in {"unpacking", "verify", "record", "recording"} =>
                  AsServed(tree.gen, Main, outcome.answered[Main])

\* The leaves of the checkpoint a run is done with, and what their record is about to be.
Visited ==
    IF run.pc \in {"verify", "recording"} THEN Assets \ run.todo
    ELSE Assets \ (run.todo \cup {run.asset})
Current == IF run.pc = "recording" THEN run.writing ELSE doc

\* Without --force, a leaf the run is done with is in the record, or is not what its pin says.
Kept ==
    family = "madlad" /\ run.pc # "idle" =>
        /\ run.pc = "verify" => run.todo = {}
        /\ ~run.force => /\ \A a \in Visited : pin[a] # None /\ file[a] = pin[a] =>
                              Current.entries[a].sha = pin[a]
                         /\ run.pc = "ask" /\ pin[run.asset] # None =>
                              file[run.asset] # pin[run.asset]

Promises == D!ForcedIsCurrent /\ D!FinishedIsPinned /\ D!RecordNamesHeld

DInv ==
    /\ DTyped /\ Single /\ Fit(doc) /\ Fit(run.writing)
    /\ Told /\ Hushed /\ Planted /\ Answers /\ Kept /\ Promises

LEMMA Distinct ==
    /\ None \notin Gens /\ Unasked \notin Gens /\ Silent \notin Gens /\ Unasked # Silent
    /\ Splice \notin Gens \cup {None}
    /\ Main \in Assets /\ Families \subseteq {"argos", "voice", "voicefile", "madlad"}
BY OriginAssumption, ScriptsAssumption

LEMMA EmptyDoc ==
    /\ D!NoDoc \in D!Docs /\ Fit(D!NoDoc) /\ D!TornDoc \in D!Docs /\ Fit(D!TornDoc)
    /\ D!NoEntry \in D!Entries
BY DEF D!NoDoc, D!TornDoc, D!NoEntry, D!Docs, D!Entries, Fit

LEMMA IdleRun ==
    /\ D!Idle \in RunsOf /\ D!Idle.pc = "idle" /\ D!Idle.asset = Main /\ D!Idle.digest = None
    /\ D!Idle.writing = D!NoDoc /\ D!Idle.said = Unasked
BY Distinct, EmptyDoc DEF D!Idle, RunsOf, D!Steps, D!Statements

LEMMA FreshOutcome ==
    /\ D!NoOutcome \in Outcomes /\ D!NoOutcome.result = "none"
    /\ \A a \in Assets : D!NoOutcome.answered[a] = None
BY DEF D!NoOutcome, Outcomes, D!Results

\* Nothing is promised before a run has ended.
LEMMA NothingPromised == outcome'.result = "none" => Promises'
BY DEF Promises, D!ForcedIsCurrent, D!FinishedIsPinned, D!RecordNamesHeld, D!Done

\* While no run is in progress there is nothing to say about one.
LEMMA AtRest ==
    ASSUME run' = D!Idle, DTyped', Fit(doc)', (tree # D!NoTree => PinnedIs(tree.gen, Main))',
           CutShort', Promises'
    PROVE  DInv'
<1>1. run'.pc = "idle" /\ run'.asset = Main /\ run'.digest = None /\ run'.writing = D!NoDoc
  BY IdleRun
<1>2. Fit(run.writing)'
  BY <1>1 DEF Fit, D!NoDoc, D!NoEntry
<1>3. Single' /\ Told' /\ Hushed' /\ Planted' /\ Answers' /\ Kept'
  BY <1>1 DEF Single, Told, Hushed, Planted, CutShort, Answers, AsServed, Kept
<1> QED
  BY <1>2, <1>3 DEF DInv

LEMMA DInvInit == D!Init => DInv
<1> SUFFICES ASSUME D!Init PROVE DInv
  OBVIOUS
<1>1. /\ run = D!Idle /\ outcome = D!NoOutcome /\ doc = D!NoDoc /\ tree = D!NoTree /\ cut = FALSE
      /\ parked = [a \in Assets |-> None]
      /\ family \in Families /\ file = [a \in Assets |-> None]
      /\ pin \in [Assets -> Gens \cup {None}] /\ served \in [Assets -> Gens]
  BY DEF D!Init
<1>2. tree \in Trees /\ file \in [Assets -> D!Bytes] /\ parked \in Parkings /\ CutShort
  BY <1>1 DEF D!NoTree, Trees, D!Bytes, Parkings, CutShort
<1>3. DTyped
  BY <1>1, <1>2, EmptyDoc, IdleRun, FreshOutcome DEF DTyped
<1>4. Promises
  BY <1>1, FreshOutcome DEF Promises, D!ForcedIsCurrent, D!FinishedIsPinned, D!RecordNamesHeld, D!Done
<1> QED
  BY <1>1, <1>2, <1>3, <1>4, IdleRun, EmptyDoc DEF DInv, Single, Told, Hushed, Planted, CutShort, Answers, Kept, Fit, PinnedIs, AsServed

\* But for an extraction and a removal, a run finds the tree as one of them left it.
LEMMA Settled == DInv /\ run.pc \notin {"place", "unpacking"} => CutShort
BY DEF DInv, Planted, CutShort

\* A run that ends without success leaves the files, the tree and the record as they are.
LEMMA EndsBadly ==
    ASSUME DInv, NEW result \in {"failed", "aborted", "killed"}, D!End(result),
           parked' \in Parkings, cut' \in BOOLEAN, CutShort',
           UNCHANGED <<family, pin, served, file, tree, doc>>
    PROVE  DInv'
<1>1. run' = D!Idle /\ outcome' = [outcome EXCEPT !.result = result, !.forced = run.force]
  BY DEF D!End
<1>2. outcome' \in Outcomes /\ outcome'.result # "ok"
  BY <1>1 DEF DInv, DTyped, Outcomes, RunsOf, D!Results
<1>3. DTyped'
  BY <1>1, <1>2, IdleRun DEF DInv, DTyped
<1>4. Promises'
  BY <1>2 DEF Promises, D!ForcedIsCurrent, D!FinishedIsPinned, D!RecordNamesHeld, D!Done
<1>5. Fit(doc)' /\ (tree # D!NoTree => PinnedIs(tree.gen, Main))'
  BY DEF DInv, Fit, Planted, CutShort, PinnedIs, AsServed, D!NoTree
<1> QED
  BY <1>1, <1>3, <1>4, <1>5, AtRest

\* The leaf a run is at is done with, as it is recorded or as it is left.
LEMMA NextLeafKeeps ==
    ASSUME DInv, family = "madlad", run.pc # "idle", D!NextLeaf, parked' \in Parkings,
           UNCHANGED <<family, pin, served, file, tree, cut, outcome>>,
           doc' \in D!Docs, Fit(doc)',
           ~run.force => \A a \in Assets \ run.todo : pin[a] # None /\ file[a] = pin[a] =>
                           doc'.entries[a].sha = pin[a]
    PROVE  DInv'
<1>1. run \in RunsOf
  BY DEF DInv, DTyped
<1>2. /\ run' \in RunsOf /\ run'.force = run.force /\ run'.digest = None
      /\ run'.writing = run.writing
      /\ \/ run.todo = {} /\ run'.pc = "verify" /\ run'.todo = {}
         \/ run'.pc = "cached" /\ run'.asset \in run.todo /\ run'.todo = run.todo \ {run'.asset}
  <2>1. CASE run.todo = {}
    <3>1. run' = [run EXCEPT !.pc = "verify", !.digest = None]
      BY <2>1 DEF D!NextLeaf
    <3> QED
      BY <1>1, <2>1, <3>1 DEF RunsOf, D!Steps
  <2>2. CASE run.todo # {}
    <3>1. PICK b \in run.todo : run' = [run EXCEPT !.pc = "cached", !.asset = b,
                                                  !.todo = run.todo \ {b}, !.digest = None]
      BY <2>2 DEF D!NextLeaf
    <3>2. b \in Assets
      BY <1>1 DEF RunsOf
    <3> QED
      BY <1>1, <3>1, <3>2 DEF RunsOf, D!Steps
  <2> QED
    BY <2>1, <2>2
<1>3. DTyped'
  BY <1>2 DEF DInv, DTyped
<1>4. Fit(run.writing)' /\ Single' /\ Told' /\ Hushed'
  BY <1>2, Distinct DEF DInv, Fit, PinnedIs, AsServed, Single, Told, Hushed
<1>5. Planted' /\ Answers' /\ outcome'.result = "none"
  <2>1. CutShort'
    BY Settled DEF DInv, Single, CutShort
  <2> QED
    BY <1>2, <2>1 DEF DInv, Planted, PinnedIs, AsServed, Answers, D!NoTree
<1>6. Kept'
  <2>1. Visited' \subseteq Assets \ run.todo
    BY <1>2 DEF Visited
  <2> QED
    BY <1>2, <2>1 DEF Kept, Current
<1> QED
  BY <1>3, <1>4, <1>5, <1>6, NothingPromised DEF DInv

\* A run begins with an empty account.
LEMMA DStartKeeps ==
    ASSUME DInv, NEW force \in BOOLEAN, NEW allow \in BOOLEAN, D!Start(force, allow)
    PROVE  DInv'
<1>1. /\ run' = [D!Idle EXCEPT !.pc = "cached", !.todo = D!Leaves \ {Main}, !.force = force,
                               !.allow = allow]
      /\ run.pc = "idle" /\ outcome' = D!NoOutcome
      /\ UNCHANGED <<family, pin, served, parked, file, tree, cut, doc>>
  BY DEF D!Start, D!constant
<1>2. /\ run' \in RunsOf /\ run'.pc = "cached" /\ run'.asset = Main /\ run'.digest = None
      /\ run'.todo = D!Leaves \ {Main} /\ run'.writing = D!NoDoc /\ run'.said = Unasked
  BY <1>1, IdleRun, Distinct DEF RunsOf, D!Steps, D!Leaves
<1>3. DTyped' /\ Single' /\ Fit(doc)' /\ Told' /\ Hushed'
  BY <1>1, <1>2, FreshOutcome DEF DInv, DTyped, Single, Fit, PinnedIs, AsServed, Told, Hushed
<1>4. Fit(run.writing)'
  BY <1>2 DEF Fit, D!NoDoc, D!NoEntry
<1>5. Planted' /\ Answers'
  <2>1. CutShort'
    BY <1>1, Settled DEF CutShort
  <2> QED
    BY <1>1, <1>2, <2>1, FreshOutcome, Distinct DEF DInv, Planted, PinnedIs, AsServed, Answers, D!NoTree
<1>6. Kept'
  BY <1>1, <1>2 DEF Kept, Visited, D!Leaves
<1> QED
  BY <1>1, <1>3, <1>4, <1>5, <1>6, FreshOutcome, NothingPromised DEF DInv

\* The question is put for the asset the run is at.
LEMMA DownloadKeeps ==
    ASSUME DInv, run.pc = "cached", NEW ask \in BOOLEAN, D!Download(ask),
           UNCHANGED <<family, pin, served, parked, file, tree, cut, doc, outcome>>,
           ~run.force /\ pin[run.asset] # None /\ family = "madlad" => ~D!Verified
    PROVE  DInv'
<1>1. run \in RunsOf
  BY DEF DInv, DTyped
<1>2. /\ run' \in RunsOf /\ run'.pc = "ask" /\ run'.asset = run.asset /\ run'.todo = run.todo
      /\ run'.force = run.force /\ run'.digest = run.digest /\ run'.writing = run.writing
  BY <1>1 DEF D!Download, RunsOf, D!Steps, D!Statements
<1>3. DTyped' /\ Single' /\ Fit(doc)' /\ Fit(run.writing)' /\ Told' /\ Hushed'
  BY <1>2 DEF DInv, DTyped, Single, Fit, PinnedIs, AsServed, Told, Hushed
<1>4. Planted' /\ Answers' /\ outcome'.result = "none"
  BY <1>2 DEF DInv, Planted, CutShort, PinnedIs, AsServed, Answers, D!NoTree
<1>5. Kept'
  BY <1>2 DEF DInv, Kept, Visited, Current, D!Verified
<1> QED
  BY <1>3, <1>4, <1>5, NothingPromised DEF DInv

\* What is cached and has the pinned digest is kept, and so is a voice archive without a pin.
LEMMA KeepCachedKeeps ==
    ASSUME DInv, run.pc = "cached", D!KeepCached(pin[run.asset]), D!Verified \/ pin[run.asset] = None,
           family = "madlad" => D!Verified,
           UNCHANGED <<family, pin, served, parked, file, tree, cut, doc, outcome>>
    PROVE  DInv'
<1>1. run \in RunsOf /\ pin[run.asset] \in Gens \cup {None}
  BY DEF DInv, DTyped, RunsOf
<1>2. /\ run' \in RunsOf /\ run'.pc = IF family = "madlad" THEN "record" ELSE "place"
      /\ run'.asset = run.asset /\ run'.todo = run.todo /\ run'.force = run.force
      /\ run'.digest = pin[run.asset] /\ run'.said = Unasked /\ run'.writing = run.writing
  BY <1>1 DEF D!KeepCached, RunsOf, D!Steps, D!Statements
<1>3. DTyped' /\ Single' /\ Fit(doc)' /\ Fit(run.writing)' /\ Hushed'
  BY <1>2 DEF DInv, DTyped, Single, Fit, PinnedIs, AsServed, Hushed
<1>4. Told'
  BY <1>2, Distinct DEF DInv, Told, PinnedIs, AsServed, D!Verified
<1>5. Planted' /\ Answers' /\ outcome'.result = "none"
  BY <1>2 DEF DInv, Planted, CutShort, PinnedIs, AsServed, Answers, D!NoTree, D!Verified, Single
<1>6. Kept'
  BY <1>2 DEF DInv, Kept, Visited, Current
<1> QED
  BY <1>3, <1>4, <1>5, <1>6, NothingPromised DEF DInv

LEMMA CachedArgosKeeps == DInv /\ D!CachedArgos => DInv'
<1> SUFFICES ASSUME DInv, D!CachedArgos PROVE DInv'
  OBVIOUS
<1>1. /\ run.pc = "cached" /\ family = "argos"
      /\ UNCHANGED <<family, pin, served, parked, file, tree, cut, doc, outcome>>
  BY DEF D!CachedArgos, D!constant
<1>2. CASE D!Download(D!Present)
  BY <1>1, <1>2, DownloadKeeps DEF D!Present
<1>3. CASE D!Verified /\ D!KeepCached(pin[run.asset])
  BY <1>1, <1>3, KeepCachedKeeps
<1> QED
  BY <1>2, <1>3 DEF D!CachedArgos

LEMMA CachedVoiceKeeps == DInv /\ D!CachedVoice => DInv'
<1> SUFFICES ASSUME DInv, D!CachedVoice PROVE DInv'
  OBVIOUS
<1>1. /\ run.pc = "cached" /\ family \in {"voice", "voicefile"} /\ run.asset = Main
      /\ UNCHANGED <<family, pin, served, parked, file, tree, cut, doc>>
  BY DEF D!CachedVoice, D!constant, DInv, Single
<1>2. CASE D!Download(D!Present) /\ UNCHANGED outcome
  BY <1>1, <1>2, DownloadKeeps DEF D!Present
<1>3. CASE (D!Verified \/ pin[run.asset] = None) /\ D!KeepCached(pin[run.asset]) /\ UNCHANGED outcome
  BY <1>1, <1>3, KeepCachedKeeps
<1>4. CASE D!End("failed")
  <2>1. parked' \in Parkings /\ cut' \in BOOLEAN /\ CutShort'
    BY <1>1, Settled DEF DInv, DTyped, CutShort
  <2> QED
    BY <1>1, <1>4, <2>1, EndsBadly
<1>5. CASE tree.laid /\ ~run.force /\ D!End("ok")
  <2>1. run' = D!Idle /\ outcome' = [outcome EXCEPT !.result = "ok", !.forced = run.force]
    BY <1>5 DEF D!End
  <2>2. outcome' \in Outcomes /\ ~outcome'.forced
    BY <1>5, <2>1 DEF DInv, DTyped, Outcomes, RunsOf, D!Results
  <2>3. DTyped' /\ Fit(doc)' /\ (tree # D!NoTree => PinnedIs(tree.gen, Main))' /\ CutShort'
    BY <1>1, <2>1, <2>2, IdleRun, Settled DEF DInv, DTyped, Fit, PinnedIs, AsServed, Planted, CutShort, D!NoTree
  <2>4. PinnedIs(tree.gen, Main) /\ (~cut => tree.whole)
    BY <1>1, <1>5, Settled DEF DInv, DTyped, Trees, Planted, CutShort, D!NoTree
  <2>5. Promises'
    BY <1>1, <2>2, <2>4 DEF Promises, D!ForcedIsCurrent, D!FinishedIsPinned, D!RecordNamesHeld, D!Leaves, D!Held, PinnedIs, AsServed
  <2> QED
    BY <2>1, <2>3, <2>5, AtRest
<1>6. CASE /\ tree.laid /\ ~run.force /\ pin[run.asset] # None /\ D!Verified /\ UNCHANGED outcome
           /\ run' = [run EXCEPT !.pc = "record", !.digest = pin[run.asset]]
  <2>1. run \in RunsOf /\ pin[run.asset] \in Gens \cup {None}
    BY DEF DInv, DTyped, RunsOf
  <2>2. /\ run' \in RunsOf /\ run'.pc = "record" /\ run'.asset = run.asset /\ run'.force = run.force
        /\ run'.digest = pin[run.asset] /\ run'.said = run.said /\ run'.writing = run.writing
    BY <1>6, <2>1 DEF RunsOf, D!Steps
  <2>3. DTyped' /\ Single' /\ Fit(doc)' /\ Fit(run.writing)'
    BY <1>1, <1>6, <2>2 DEF DInv, DTyped, Single, Fit, PinnedIs, AsServed
  <2>4. run.said \notin Gens
    BY <1>1, Distinct DEF DInv, Hushed
  <2>5. Told'
    BY <1>1, <1>6, <2>2, <2>4 DEF Told, PinnedIs, AsServed
  <2>6. Planted' /\ Answers' /\ outcome'.result = "none" /\ Kept'
    BY <1>1, <1>6, <2>2 DEF DInv, Planted, CutShort, PinnedIs, AsServed, Answers, D!NoTree, Kept
  <2>7. Hushed'
    BY <1>1, <1>6, <2>2 DEF Hushed
  <2> QED
    BY <2>3, <2>5, <2>6, <2>7, NothingPromised DEF DInv
<1> QED
  BY <1>1, <1>2, <1>3, <1>4, <1>5, <1>6 DEF D!CachedVoice, D!Verified, D!Present

LEMMA CachedMadladKeeps == DInv /\ D!CachedMadlad => DInv'
<1> SUFFICES ASSUME DInv, D!CachedMadlad PROVE DInv'
  OBVIOUS
<1>1. /\ run.pc = "cached" /\ family = "madlad"
      /\ UNCHANGED <<family, pin, served, parked, file, tree, cut, doc, outcome>>
  BY DEF D!CachedMadlad, D!constant
<1>2. CASE /\ D!Download(run.force /\ D!Present)
           /\ run.force \/ ~D!Present \/ (pin[run.asset] # None /\ ~D!Verified)
  <2>1. run.force \in BOOLEAN
    BY DEF DInv, DTyped, RunsOf
  <2>2. ~run.force /\ pin[run.asset] # None => ~D!Verified
    BY <1>2 DEF D!Verified, D!Present
  <2> QED
    BY <1>1, <1>2, <2>1, <2>2, DownloadKeeps DEF D!Present
<1>3. CASE D!Verified /\ D!KeepCached(pin[run.asset])
  BY <1>1, <1>3, KeepCachedKeeps
<1>4. CASE D!NextLeaf /\ ~D!Verified /\ ~(pin[run.asset] # None /\ ~D!Verified)
  <2>1. pin[run.asset] = None
    BY <1>4
  <2>2. doc' \in D!Docs /\ Fit(doc)'
    BY <1>1 DEF DInv, DTyped, Fit, PinnedIs, AsServed
  <2>3. ~run.force => \A a \in Assets \ run.todo : pin[a] # None /\ file[a] = pin[a] =>
                        doc'.entries[a].sha = pin[a]
    BY <1>1, <2>1 DEF DInv, Kept, Visited, Current
  <2> QED
    BY <1>1, <1>4, <2>2, <2>3, NextLeafKeeps DEF DInv, DTyped
<1> QED
  BY <1>2, <1>3, <1>4 DEF D!CachedMadlad

-----------------------------------------------------------------------------
\* An entry a question is asked with is one of the record, and is about what the record names.
LEMMA Asked ==
    ASSUME DInv
    PROVE  LET q == D!Question
           IN /\ q \in D!Entries /\ (q.etag # None => AsServed(q.sha, run.asset, q.etag))
              /\ q.sha # None => PinnedIs(q.sha, run.asset) /\ q.sha = doc.entries[run.asset].sha
<1>1. doc.entries[run.asset] \in D!Entries /\ run.asset \in Assets
  BY DEF DInv, DTyped, D!Docs, RunsOf
<1> QED
  BY <1>1, EmptyDoc DEF DInv, Fit, D!Question, D!Conditional, D!NoEntry

\* An asset a run gives up is left as it is: the checkpoint goes on with its next leaf.
LEMMA GiveUpKeeps ==
    ASSUME DInv, run.pc = "ask", D!GiveUp, parked' \in Parkings,
           UNCHANGED <<family, pin, served, file, tree, cut, doc>>
    PROVE  DInv'
<1>1. CASE family = "madlad" /\ D!NextLeaf /\ UNCHANGED outcome
  <2>1. doc' \in D!Docs /\ Fit(doc)'
    BY DEF DInv, DTyped, Fit, PinnedIs, AsServed
  <2>2. ~run.force => \A a \in Assets \ run.todo : pin[a] # None /\ file[a] = pin[a] =>
                        doc'.entries[a].sha = pin[a]
    BY <1>1 DEF DInv, Kept, Visited, Current
  <2> QED
    BY <1>1, <2>1, <2>2, NextLeafKeeps
<1>2. CASE D!End("failed")
  <2>1. cut' \in BOOLEAN /\ CutShort'
    BY Settled DEF DInv, DTyped, CutShort
  <2> QED
    BY <1>2, <2>1, EndsBadly
<1> QED
  BY <1>1, <1>2 DEF D!GiveUp

\* A run asks again.
LEMMA AskAgainKeeps ==
    ASSUME DInv, run.pc = "ask", NEW ask \in BOOLEAN,
           run' = [run EXCEPT !.tries = @ + 1, !.ask = ask], parked' \in Parkings,
           UNCHANGED <<family, pin, served, file, tree, cut, doc, outcome>>
    PROVE  DInv'
<1> DEFINE tries == run.tries + 1
<1>1. run \in RunsOf /\ tries \in Nat /\ run' = [run EXCEPT !.tries = tries, !.ask = ask]
  BY DEF DInv, DTyped, RunsOf
<1> HIDE DEF tries
<1>2. /\ run' \in RunsOf /\ run'.pc = "ask" /\ run'.asset = run.asset /\ run'.todo = run.todo
      /\ run'.force = run.force /\ run'.digest = run.digest /\ run'.writing = run.writing
      /\ run'.said = run.said
  BY <1>1 DEF RunsOf
<1>3. DTyped' /\ Single' /\ Fit(doc)' /\ Fit(run.writing)' /\ Told' /\ Hushed'
  BY <1>2 DEF DInv, DTyped, Single, Fit, PinnedIs, AsServed, Told, Hushed
<1>4. Planted' /\ Answers' /\ outcome'.result = "none"
  BY <1>2 DEF DInv, Planted, CutShort, PinnedIs, AsServed, Answers, D!NoTree
<1>5. Kept'
  BY <1>2 DEF DInv, Kept, Visited, Current
<1> QED
  BY <1>3, <1>4, <1>5, NothingPromised DEF DInv

\* What an attempt can end up with is what is served, or a splice.
LEMMA AttemptLands == ASSUME DInv PROVE D!Landable \subseteq {served[run.asset], Splice}
BY DEF D!Landable, D!Resumed

LEMMA AtAsset == ASSUME DInv PROVE run.asset \in Assets /\ served[run.asset] \in Gens
BY DEF DInv, DTyped, RunsOf

LEMMA Parked == ASSUME DInv PROVE parked[run.asset] \in Gens \cup {Splice, None}
BY AtAsset DEF DInv, DTyped, Parkings

LEMMA Unparked == ASSUME DInv PROVE parked \in Parkings
BY DEF DInv, DTyped

LEMMA Parks ==
    ASSUME DInv, NEW bytes \in Gens \cup {Splice, None}, D!Park(bytes)
    PROVE  parked' \in Parkings
<1>1. parked \in Parkings /\ run.asset \in Assets
  BY AtAsset DEF DInv, DTyped
<1>2. parked' = [parked EXCEPT ![run.asset] = bytes]
  BY DEF D!Park
<1> QED
  BY <1>1, <1>2 DEF Parkings

LEMMA RefusedKeeps == DInv /\ D!Refused => DInv'
<1> SUFFICES ASSUME DInv, D!Refused PROVE DInv'
  OBVIOUS
<1>1. parked' = parked \/ D!Park(None)
  BY DEF D!Refused
<1>2. parked' \in Parkings
  BY <1>1, Unparked, Parks
<1> QED
  BY <1>2, GiveUpKeeps DEF D!Refused, D!constant

LEMMA AttemptFailsKeeps == DInv /\ D!AttemptFails => DInv'
<1> SUFFICES ASSUME DInv, D!AttemptFails PROVE DInv'
  OBVIOUS
<1>1. /\ run.pc = "ask" /\ UNCHANGED <<family, pin, served, file, tree, cut, doc>>
  BY DEF D!AttemptFails, D!constant
<1>0. parked' \in Parkings
  <2>1. PICK bytes \in D!Landable \cup {parked[run.asset], None} : D!Park(bytes)
    BY DEF D!AttemptFails
  <2>2. bytes \in Gens \cup {Splice, None}
    BY AttemptLands, AtAsset, Parked
  <2> QED
    BY <2>1, <2>2, Parks
<1>2. CASE D!GiveUp
  BY <1>0, <1>1, <1>2, GiveUpKeeps
<1>3. CASE run' = [run EXCEPT !.tries = @ + 1] /\ UNCHANGED outcome
  <2>1. run.ask \in BOOLEAN /\ run' = [run EXCEPT !.tries = @ + 1, !.ask = run.ask]
    BY <1>3 DEF DInv, DTyped, RunsOf
  <2> QED
    BY <1>0, <1>1, <1>3, <2>1, AskAgainKeeps
<1> QED
  BY <1>2, <1>3 DEF D!AttemptFails

LEMMA DownloadedKeeps ==
    ASSUME DInv, NEW said \in Gens \cup {Silent}, D!Downloaded(said)
    PROVE  DInv'
<1> DEFINE a == run.asset
           g == served[a]
<1>1. PICK bytes \in D!Landable :
        /\ pin[a] \in {None, bytes} /\ file' = [file EXCEPT ![a] = bytes]
        /\ run' = [run EXCEPT !.pc = IF family = "madlad" THEN "record" ELSE "place",
                              !.digest = bytes, !.said = said]
  BY DEF D!Downloaded
<1>2. /\ run.pc = "ask" /\ said \in {Silent, g} /\ D!Park(None)
      /\ outcome' = [outcome EXCEPT !.answered[a] = g]
      /\ UNCHANGED <<family, pin, served, tree, cut, doc>>
  BY DEF D!Downloaded, D!Answered, D!constant
<1>3. /\ run \in RunsOf /\ a \in Assets /\ g \in Gens /\ file \in [Assets -> D!Bytes]
      /\ outcome \in Outcomes /\ bytes \in {g, Splice} /\ parked' \in Parkings
  BY <1>1, <1>2, AttemptLands, AtAsset, Parks DEF DInv, DTyped
<1>4. /\ run' \in RunsOf /\ run'.pc = IF family = "madlad" THEN "record" ELSE "place"
      /\ run'.asset = a /\ run'.todo = run.todo /\ run'.force = run.force
      /\ run'.digest = bytes /\ run'.said = said /\ run'.writing = run.writing
  BY <1>1, <1>3 DEF RunsOf, D!Steps, D!Statements
<1>5. /\ file' \in [Assets -> D!Bytes] /\ file'[a] = bytes
      /\ \A b \in Assets \ {a} : file'[b] = file[b]
  BY <1>1, <1>3 DEF D!Bytes
<1>6. /\ outcome' \in Outcomes /\ outcome'.result = outcome.result /\ outcome'.answered[a] = g
      /\ \A b \in Assets \ {a} : outcome'.answered[b] = outcome.answered[b]
  BY <1>2, <1>3 DEF Outcomes
<1>7. PinnedIs(bytes, a) /\ AsServed(bytes, a, g)
  <2>1. pin[a] # None => bytes = pin[a] /\ bytes = g
    <3>1. pin[a] \in Gens \cup {None}
      BY <1>3 DEF DInv, DTyped
    <3> QED
      BY <1>1, <1>3, <3>1, Distinct
  <2> QED
    BY <1>3, <2>1 DEF PinnedIs, AsServed
<1> HIDE DEF a, g
<1>8. DTyped' /\ Fit(doc)' /\ Fit(run.writing)'
  BY <1>2, <1>3, <1>4, <1>5, <1>6 DEF DInv, DTyped, Fit, PinnedIs, AsServed
<1>9. Single' /\ Hushed' /\ (family # "madlad" => a = Main)
  BY <1>2, <1>4 DEF DInv, Single, Hushed, a
<1>10. Told'
  <2>1. said \in Gens => said = g
    BY <1>2, Distinct
  <2> QED
    BY <1>2, <1>3, <1>4, <1>7, <2>1, Distinct DEF Told, PinnedIs, AsServed
<1>11. Planted'
  BY <1>2, <1>3, <1>4, <1>5, <1>7, <1>9, Distinct
     DEF DInv, Planted, CutShort, PinnedIs, D!NoTree
<1>12. Answers' /\ outcome'.result = "none"
  BY <1>2, <1>3, <1>4, <1>5, <1>6, <1>7, <1>9 DEF DInv, Answers, AsServed
<1>13. Kept'
  BY <1>2, <1>4, <1>5 DEF DInv, Kept, Visited, Current, a
<1> QED
  BY <1>8, <1>9, <1>10, <1>11, <1>12, <1>13, NothingPromised DEF DInv

\* A 304 for an entry whose bytes are there still.
LEMMA KeptByRecord ==
    ASSUME DInv, run.pc = "ask", NEW said \in Gens \cup {Silent}, said \in {Silent, served[run.asset]},
           D!Question.etag = served[run.asset], file[run.asset] = D!Question.sha,
           D!Question.sha # None,
           outcome' = [outcome EXCEPT !.answered[run.asset] = served[run.asset]],
           run' = [run EXCEPT !.pc = IF family = "madlad" THEN "refresh" ELSE "place",
                              !.digest = D!Question.sha, !.said = said],
           UNCHANGED <<family, pin, served, parked, file, tree, cut, doc>>
    PROVE  DInv'
<1> DEFINE a == run.asset
           g == served[a]
           q == D!Question
           bytes == q.sha
<1>1. /\ run \in RunsOf /\ a \in Assets /\ g \in Gens /\ file \in [Assets -> D!Bytes]
      /\ outcome \in Outcomes
  BY DEF DInv, DTyped, RunsOf
<1>2. /\ q \in D!Entries /\ PinnedIs(bytes, a) /\ bytes = doc.entries[a].sha
      /\ AsServed(bytes, a, g) /\ file[a] = bytes /\ bytes # None
  BY <1>1, Asked, Distinct
<1>3. bytes \in Gens \cup {Splice}
  BY <1>2 DEF D!Entries
<1>4. run' = [run EXCEPT !.pc = IF family = "madlad" THEN "refresh" ELSE "place",
                         !.digest = bytes, !.said = said]
  OBVIOUS
<1> HIDE DEF q, bytes
<1>5. /\ run' \in RunsOf /\ run'.pc = IF family = "madlad" THEN "refresh" ELSE "place"
      /\ run'.asset = a /\ run'.todo = run.todo /\ run'.force = run.force
      /\ run'.digest = bytes /\ run'.said = said /\ run'.writing = run.writing
  BY <1>1, <1>3, <1>4 DEF RunsOf, D!Steps, D!Statements
<1>6. /\ outcome' \in Outcomes /\ outcome'.result = outcome.result /\ outcome'.answered[a] = g
      /\ \A b \in Assets \ {a} : outcome'.answered[b] = outcome.answered[b]
  BY <1>1 DEF Outcomes
<1>7. said \in Gens => said = g
  BY Distinct
<1> HIDE DEF a, g
<1>8. DTyped' /\ Fit(doc)' /\ Fit(run.writing)'
  BY <1>5, <1>6 DEF DInv, DTyped, Fit, PinnedIs, AsServed
<1>9. Single' /\ Hushed' /\ (family # "madlad" => a = Main)
  BY <1>5 DEF DInv, Single, Hushed, a
<1>10. Told'
  BY <1>1, <1>2, <1>5, <1>7, Distinct DEF Told, PinnedIs, AsServed
<1>11. Planted'
  BY <1>1, <1>2, <1>5, <1>9, Distinct DEF DInv, Planted, CutShort, PinnedIs, AsServed, D!NoTree
<1>12. Answers' /\ outcome'.result = "none"
  BY <1>2, <1>5, <1>6, <1>9 DEF DInv, Answers, AsServed
<1>13. Kept'
  BY <1>5 DEF DInv, Kept, Visited, Current, a
<1> QED
  BY <1>8, <1>9, <1>10, <1>11, <1>12, <1>13, NothingPromised DEF DInv

LEMMA NotModifiedKeeps ==
    ASSUME DInv, NEW said \in Gens \cup {Silent}, D!NotModified(said)
    PROVE  DInv'
<1>1. /\ run.pc = "ask" /\ said \in {Silent, served[run.asset]}
      /\ D!Question.etag = served[run.asset]
      /\ UNCHANGED <<family, pin, served, parked, file, tree, cut, doc>>
  BY DEF D!NotModified, D!constant
<1>2. CASE /\ D!MatchesRecord(file[run.asset], D!Question)
           /\ outcome' = [outcome EXCEPT !.answered[run.asset] = served[run.asset]]
           /\ run' = [run EXCEPT !.pc = IF family = "madlad" THEN "refresh" ELSE "place",
                                 !.digest = D!Question.sha, !.said = said]
  <2>1. file[run.asset] = D!Question.sha /\ D!Question.sha # None
    BY <1>2 DEF D!MatchesRecord
  <2> QED
    BY <1>1, <1>2, <2>1, KeptByRecord
<1>3. CASE D!GiveUp
  BY <1>1, <1>3, Unparked, GiveUpKeeps
<1>4. CASE run' = [run EXCEPT !.tries = @ + 1, !.ask = FALSE] /\ UNCHANGED outcome
  BY <1>1, <1>4, Unparked, AskAgainKeeps
<1> QED
  BY <1>2, <1>3, <1>4 DEF D!NotModified, D!Answered

-----------------------------------------------------------------------------
\* The tree changes while a checked file is put in place.
LEMMA PlaceKeeps ==
    ASSUME DInv, family # "madlad", run.pc \in {"place", "unpacking"},
           NEW step \in {"place", "unpacking", "verify"}, run' = [run EXCEPT !.pc = step],
           step = "place" => run.pc = "place" /\ UNCHANGED file,
           tree' \in Trees, file' \in [Assets -> D!Bytes], cut' \in BOOLEAN,
           step = "verify" \/ (step = "place" /\ ~run.force) => CutShort',
           tree' # D!NoTree \/ step = "unpacking" => PinnedIs(tree'.gen, Main),
           step # "place" /\ run.force /\ outcome.answered[Main] # None =>
               AsServed(tree'.gen, Main, outcome.answered[Main]),
           doc' \in D!Docs, Fit(doc'), UNCHANGED <<family, pin, served, parked, outcome>>
    PROVE  DInv'
<1>1. run \in RunsOf
  BY DEF DInv, DTyped
<1>2. /\ run' \in RunsOf /\ run'.pc = step /\ run'.asset = run.asset /\ run'.todo = run.todo
      /\ run'.force = run.force /\ run'.digest = run.digest /\ run'.said = run.said
      /\ run'.writing = run.writing
  BY <1>1 DEF RunsOf, D!Steps
<1>3. DTyped' /\ Single' /\ Hushed' /\ Kept'
  BY <1>2 DEF DInv, DTyped, Single, Hushed, Kept
<1>4. Fit(doc)' /\ Fit(run.writing)'
  BY <1>2 DEF DInv, Fit, PinnedIs, AsServed
<1>5. Told'
  BY <1>2 DEF DInv, Told, PinnedIs, AsServed
<1>6. Planted'
  BY <1>2 DEF DInv, Planted, CutShort, PinnedIs, AsServed, D!NoTree
<1>7. Answers' /\ outcome'.result = "none"
  BY <1>2 DEF DInv, Answers, AsServed
<1> QED
  BY <1>3, <1>4, <1>5, <1>6, <1>7, NothingPromised DEF DInv

LEMMA PlaceFacts ==
    ASSUME DInv, run.pc \in {"place", "unpacking"}
    PROVE  /\ family # "madlad" /\ run.asset = Main /\ Main \in Assets
           /\ file \in [Assets -> D!Bytes] /\ tree \in Trees /\ doc \in D!Docs /\ Fit(doc)
           /\ run.pc = "place" => PinnedIs(file[Main], Main)
           /\ run.pc = "unpacking" => PinnedIs(tree.gen, Main)
           /\ tree # D!NoTree => PinnedIs(tree.gen, Main)
           /\ cut \in BOOLEAN /\ (run.pc = "place" /\ ~run.force => CutShort)
           /\ run.pc = "place" /\ outcome.answered[Main] # None =>
                AsServed(file[Main], Main, outcome.answered[Main])
           /\ run.pc = "unpacking" /\ run.force /\ outcome.answered[Main] # None =>
                AsServed(tree.gen, Main, outcome.answered[Main])
BY Distinct DEF DInv, DTyped, Single, Planted, CutShort, Answers, AsServed

LEMMA ClearKeeps == DInv /\ D!Clear => DInv'
<1> SUFFICES ASSUME DInv, D!Clear PROVE DInv'
  OBVIOUS
<1>1. /\ run.pc = "place" /\ run.force /\ tree # D!NoTree
      /\ UNCHANGED <<family, pin, served, parked, file, run, outcome>>
      /\ \/ tree' = D!NoTree /\ cut' = FALSE /\ doc' = D!NoDoc
         \/ /\ \E laid \in {FALSE, tree.laid} :
                 tree' = [tree EXCEPT !.whole = FALSE, !.laid = laid]
            /\ doc' \in {doc, D!NoDoc} /\ UNCHANGED cut
  BY DEF D!Clear, D!constant
<1>2. run' = [run EXCEPT !.pc = "place"]
  BY <1>1 DEF DInv, DTyped, RunsOf
<1>3. doc' \in D!Docs /\ Fit(doc') /\ cut' \in BOOLEAN
  BY <1>1, PlaceFacts, EmptyDoc
<1>4. tree' \in Trees /\ (tree' # D!NoTree => PinnedIs(tree'.gen, Main))
  <2>1. CASE tree' = D!NoTree
    BY <2>1 DEF D!NoTree, Trees, D!Bytes
  <2>2. ASSUME NEW laid \in {FALSE, tree.laid}, tree' = [tree EXCEPT !.whole = FALSE, !.laid = laid]
        PROVE  tree' \in Trees /\ PinnedIs(tree'.gen, Main)
    <3>1. tree \in Trees /\ PinnedIs(tree.gen, Main)
      BY <1>1, PlaceFacts
    <3>2. tree' \in Trees /\ tree'.gen = tree.gen
      BY <2>2, <3>1 DEF Trees
    <3> QED
      BY <3>1, <3>2
  <2> QED
    BY <1>1, <2>1, <2>2
<1>5. family # "madlad" /\ file' \in [Assets -> D!Bytes]
  BY <1>1, PlaceFacts
<1> QED
  BY <1>1, <1>2, <1>3, <1>4, <1>5, PlaceKeeps

LEMMA UnpackKeeps == DInv /\ (D!Unpack \/ D!UnpackOver) => DInv'
<1> SUFFICES ASSUME DInv, D!Unpack \/ D!UnpackOver PROVE DInv'
  OBVIOUS
<1>1. /\ run.pc = "place" /\ UNCHANGED <<family, pin, served, parked, file, cut, doc, outcome>>
      /\ \E step \in {"unpacking", "verify"}, laid \in BOOLEAN :
           /\ run' = [run EXCEPT !.pc = step] /\ (step = "verify" => ~laid)
           /\ tree' = [gen |-> file[run.asset], whole |-> FALSE, laid |-> laid]
  BY DEF D!Unpack, D!UnpackOver, D!Goto, D!constant
<1>2. PICK step \in {"unpacking", "verify"}, laid \in BOOLEAN :
           /\ run' = [run EXCEPT !.pc = step] /\ (step = "verify" => ~laid)
           /\ tree' = [gen |-> file[run.asset], whole |-> FALSE, laid |-> laid]
  BY <1>1
<1>3. /\ family # "madlad" /\ run.asset = Main /\ Main \in Assets /\ file \in [Assets -> D!Bytes]
      /\ doc \in D!Docs /\ Fit(doc) /\ PinnedIs(file[Main], Main) /\ cut \in BOOLEAN
      /\ outcome.answered[Main] # None => AsServed(file[Main], Main, outcome.answered[Main])
  BY <1>1, PlaceFacts
<1>4. tree' \in Trees /\ tree'.gen = file[Main] /\ (step = "verify" => CutShort')
  BY <1>2, <1>3 DEF Trees, CutShort
<1> QED
  BY <1>1, <1>2, <1>3, <1>4, PlaceKeeps

\* The Argos script takes the directory that is there for the package.
LEMMA SkipUnpackKeeps == DInv /\ D!SkipUnpack => DInv'
<1> SUFFICES ASSUME DInv, D!SkipUnpack PROVE DInv'
  OBVIOUS
<1>1. /\ run.pc = "place" /\ tree # D!NoTree /\ ~run.force /\ run' = [run EXCEPT !.pc = "verify"]
      /\ UNCHANGED <<family, pin, served, parked, file, tree, cut, doc, outcome>>
  BY DEF D!SkipUnpack, D!Goto, D!constant
<1>2. /\ family # "madlad" /\ file \in [Assets -> D!Bytes] /\ tree \in Trees /\ doc \in D!Docs
      /\ Fit(doc) /\ PinnedIs(tree.gen, Main) /\ cut \in BOOLEAN /\ CutShort'
  BY <1>1, PlaceFacts DEF CutShort
<1> QED
  BY <1>1, <1>2, PlaceKeeps

LEMMA UnpackedKeeps == DInv /\ D!Unpacked => DInv'
<1> SUFFICES ASSUME DInv, D!Unpacked PROVE DInv'
  OBVIOUS
<1>1. /\ run.pc = "unpacking" /\ tree' = D!Whole(tree.gen) /\ run' = [run EXCEPT !.pc = "verify"]
      /\ cut' = FALSE /\ UNCHANGED <<family, pin, served, parked, file, doc, outcome>>
  BY DEF D!Unpacked, D!Goto, D!constant
<1>2. /\ family # "madlad" /\ file \in [Assets -> D!Bytes] /\ tree \in Trees /\ doc \in D!Docs
      /\ Fit(doc) /\ PinnedIs(tree.gen, Main)
      /\ run.force /\ outcome.answered[Main] # None =>
           AsServed(tree.gen, Main, outcome.answered[Main])
  BY <1>1, PlaceFacts
<1>3. tree' \in Trees /\ tree'.gen = tree.gen /\ CutShort'
  BY <1>1, <1>2 DEF D!Whole, Trees, CutShort
<1> QED
  BY <1>1, <1>2, <1>3, PlaceKeeps

LEMMA MoveKeeps == DInv /\ D!Move => DInv'
<1> SUFFICES ASSUME DInv, D!Move PROVE DInv'
  OBVIOUS
<1>1. /\ run.pc = "place" /\ tree' = D!Whole(file[run.asset]) /\ run' = [run EXCEPT !.pc = "verify"]
      /\ file' = [file EXCEPT ![run.asset] = None] /\ cut' = FALSE
      /\ UNCHANGED <<family, pin, served, parked, doc, outcome>>
  BY DEF D!Move, D!Goto, D!constant
<1>2. /\ family # "madlad" /\ run.asset = Main /\ Main \in Assets /\ file \in [Assets -> D!Bytes]
      /\ doc \in D!Docs /\ Fit(doc) /\ PinnedIs(file[Main], Main)
      /\ outcome.answered[Main] # None => AsServed(file[Main], Main, outcome.answered[Main])
  BY <1>1, PlaceFacts
<1>3. tree' \in Trees /\ tree'.gen = file[Main] /\ file' \in [Assets -> D!Bytes] /\ CutShort'
  BY <1>1, <1>2 DEF D!Whole, Trees, D!Bytes, CutShort
<1> QED
  BY <1>1, <1>2, <1>3, PlaceKeeps

-----------------------------------------------------------------------------
\* A run that ends well has kept its promises.
LEMMA EndsWell ==
    ASSUME DInv, D!End("ok"), UNCHANGED <<family, pin, served, parked, file, tree, cut>>,
           doc' \in D!Docs, Fit(doc'),
           \A a \in D!Leaves : pin[a] # None => D!Held(a) = pin[a],
           CutShort, family # "madlad" => tree.laid,
           run.force => \A a \in D!Leaves : outcome.answered[a] # None =>
                          AsServed(D!Held(a), a, outcome.answered[a]),
           ~run.force /\ family \in {"argos", "madlad"} =>
               \A a \in D!Leaves : pin[a] # None => doc'.entries[a].sha = pin[a]
    PROVE  DInv'
<1>1. run' = D!Idle /\ outcome' = [outcome EXCEPT !.result = "ok", !.forced = run.force]
  BY DEF D!End
<1>2. /\ outcome' \in Outcomes /\ outcome'.forced = run.force
      /\ outcome'.answered = outcome.answered
  BY <1>1 DEF DInv, DTyped, Outcomes, RunsOf, D!Results
<1>3. DTyped' /\ Fit(doc)' /\ (tree # D!NoTree => PinnedIs(tree.gen, Main))' /\ CutShort'
  BY <1>1, <1>2, IdleRun DEF DInv, DTyped, Fit, PinnedIs, AsServed, Planted, CutShort, D!NoTree
<1>4. D!Leaves' = D!Leaves /\ \A a \in Assets : D!Held(a)' = D!Held(a)
  BY DEF D!Leaves, D!Held
<1>5. D!Leaves \subseteq Assets
  BY Distinct DEF D!Leaves
<1>6. D!ForcedIsCurrent'
  BY <1>2, <1>4, <1>5 DEF D!ForcedIsCurrent, D!Spliced, AsServed
<1>7. D!FinishedIsPinned'
  BY <1>4, <1>5 DEF D!FinishedIsPinned, CutShort, DInv, DTyped, Trees
<1>8. D!RecordNamesHeld'
  BY <1>2, <1>4 DEF D!RecordNamesHeld
<1> QED
  BY <1>1, <1>3, <1>6, <1>7, <1>8, AtRest DEF Promises

\* A tree that was unpacked from checked bytes holds what it must.
LEMMA TreeHolds ==
    ASSUME DInv, family # "madlad", tree # D!NoTree, run.pc \in {"verify", "recording"}
    PROVE  /\ \A a \in D!Leaves : pin[a] # None => D!Held(a) = pin[a]
           /\ run.force => \A a \in D!Leaves :
                outcome.answered[a] # None => AsServed(D!Held(a), a, outcome.answered[a])
<1>1. D!Leaves = {Main} /\ D!Held(Main) = tree.gen
  BY DEF D!Leaves, D!Held
<1>2. PinnedIs(tree.gen, Main)
  BY DEF DInv, Planted, CutShort
<1>3. run.force /\ outcome.answered[Main] # None => AsServed(tree.gen, Main, outcome.answered[Main])
  BY DEF DInv, Answers, AsServed
<1> QED
  BY <1>1, <1>2, <1>3 DEF PinnedIs, AsServed

LEMMA VerifyKeeps == DInv /\ D!Verify => DInv'
<1> SUFFICES ASSUME DInv, D!Verify PROVE DInv'
  OBVIOUS
<1>1. run.pc = "verify" /\ UNCHANGED <<family, pin, served, parked, file, tree, cut, doc>>
  BY DEF D!Verify, D!constant
<1>2. doc' \in D!Docs /\ Fit(doc') /\ CutShort /\ CutShort' /\ parked' \in Parkings /\ cut' \in BOOLEAN
  BY <1>1, Settled DEF DInv, DTyped, CutShort
<1>3. CASE D!End("failed")
  BY <1>1, <1>2, <1>3, EndsBadly
<1>4. CASE /\ family = "madlad" /\ D!End("ok")
           /\ \A a \in Assets : file[a] # None /\ pin[a] \in {None, file[a]}
  <2>1. D!Leaves = Assets /\ \A a \in Assets : D!Held(a) = file[a]
    BY <1>4 DEF D!Leaves, D!Held
  <2>2. \A a \in Assets : pin[a] # None => file[a] = pin[a]
    BY <1>4
  <2>3. ~run.force => \A a \in Assets : pin[a] # None => doc'.entries[a].sha = pin[a]
    BY <1>1, <1>4, <2>2 DEF DInv, Kept, Visited, Current
  <2>4. \A a \in Assets : outcome.answered[a] # None => AsServed(file[a], a, outcome.answered[a])
    BY <1>1, <1>4 DEF DInv, Answers, AsServed
  <2> QED
    BY <1>1, <1>2, <1>4, <2>1, <2>2, <2>3, <2>4, EndsWell
<1>5. CASE family # "madlad" /\ tree.laid /\ run.digest = None /\ D!End("ok")
  <2>1. tree # D!NoTree
    BY <1>5 DEF D!NoTree
  <2>2. D!Leaves = {Main} /\ pin[Main] = None
    BY <1>1, <1>5 DEF D!Leaves, DInv, Planted, CutShort
  <2> QED
    BY <1>1, <1>2, <1>5, <2>1, <2>2, TreeHolds, EndsWell
<1>6. CASE /\ family # "madlad" /\ tree.laid /\ run.digest # None
           /\ D!Goto("record") /\ UNCHANGED outcome
  <2>1. run \in RunsOf
    BY DEF DInv, DTyped
  <2>2. /\ run' \in RunsOf /\ run'.pc = "record" /\ run'.asset = run.asset /\ run'.force = run.force
        /\ run'.digest = run.digest /\ run'.said = run.said /\ run'.writing = run.writing
    BY <1>6, <2>1 DEF D!Goto, RunsOf, D!Steps
  <2>3. DTyped' /\ Single' /\ Fit(doc)' /\ Fit(run.writing)' /\ Hushed' /\ Kept'
    BY <1>1, <1>6, <2>2 DEF DInv, DTyped, Single, Fit, PinnedIs, AsServed, Hushed, Kept
  <2>4. Told'
    BY <1>1, <1>6, <2>2 DEF DInv, Told, PinnedIs, AsServed
  <2>5. Planted' /\ Answers' /\ outcome'.result = "none"
    BY <1>1, <1>6, <2>2 DEF DInv, Planted, CutShort, PinnedIs, AsServed, Answers, D!NoTree
  <2> QED
    BY <2>3, <2>4, <2>5, NothingPromised DEF DInv
<1> QED
  BY <1>1, <1>3, <1>4, <1>5, <1>6 DEF D!Verify

-----------------------------------------------------------------------------
\* A record that is about to be written.
LEMMA WritingKeeps ==
    ASSUME DInv, run.pc \in {"record", "refresh"}, NEW d \in D!Docs, Fit(d),
           d.entries[run.asset].sha = run.digest,
           \A a \in Assets \ {run.asset} : d.entries[a] = doc.entries[a],
           run' = [run EXCEPT !.pc = "recording", !.writing = d], doc' = D!TornDoc,
           UNCHANGED <<family, pin, served, parked, file, tree, cut, outcome>>
    PROVE  DInv'
<1>1. run \in RunsOf /\ run.asset \in Assets
  BY DEF DInv, DTyped, RunsOf
<1>2. /\ run' \in RunsOf /\ run'.pc = "recording" /\ run'.asset = run.asset /\ run'.todo = run.todo
      /\ run'.force = run.force /\ run'.digest = run.digest /\ run'.said = run.said
      /\ run'.writing = d
  BY <1>1 DEF RunsOf, D!Steps
<1>3. DTyped' /\ Single' /\ Hushed'
  BY <1>2, EmptyDoc DEF DInv, DTyped, Single, Hushed
<1>4. Fit(doc)' /\ Fit(run.writing)'
  <2>1. Fit(D!TornDoc)
    BY EmptyDoc
  <2> QED
    BY <1>2, <2>1 DEF Fit, PinnedIs, AsServed, D!TornDoc, D!NoDoc
<1>5. Told'
  BY <1>2 DEF DInv, Told, PinnedIs, AsServed
<1>6. Planted' /\ Answers' /\ outcome'.result = "none"
  BY <1>2 DEF DInv, Planted, CutShort, PinnedIs, AsServed, Answers, D!NoTree, Single
<1>7. Kept'
  <2>1. ASSUME ~run.force, family = "madlad", NEW a \in Assets \ run.todo, pin[a] # None,
               file[a] = pin[a]
        PROVE  d.entries[a].sha = pin[a]
    <3>1. CASE a = run.asset
      BY <2>1, <3>1 DEF DInv, Told, PinnedIs, AsServed
    <3>2. CASE a # run.asset
      BY <2>1, <3>2 DEF DInv, Kept, Visited, Current
    <3> QED
      BY <3>1, <3>2
  <2> QED
    BY <1>2, <2>1 DEF Kept, Visited, Current
<1> QED
  BY <1>3, <1>4, <1>5, <1>6, <1>7, NothingPromised DEF DInv

\* What record() makes of a record is about the bytes it names.
LEMMA RecordedFits ==
    ASSUME DInv, run.pc = "record"
    PROVE  LET d == D!Recorded(doc, run.asset, run.digest, run.said)
           IN /\ d \in D!Docs /\ Fit(d) /\ d.entries[run.asset].sha = run.digest
              /\ \A a \in Assets \ {run.asset} : d.entries[a] = doc.entries[a]
<1> DEFINE d == D!Recorded(doc, run.asset, run.digest, run.said)
           old == doc.entries[run.asset]
           etag == CASE run.said = Unasked -> old.etag
                     [] run.said = Silent -> None
                     [] OTHER -> run.said
           e == [sha |-> run.digest, etag |-> etag]
<1>1. /\ run.asset \in Assets /\ run.digest \in Gens \cup {Splice} /\ old \in D!Entries
      /\ run.said \in Gens \cup {Unasked, Silent} /\ doc.entries \in [Assets -> D!Entries]
  BY DEF DInv, DTyped, RunsOf, D!Docs, Told, D!Statements
<1>2. d = [state |-> "read", entries |-> [doc.entries EXCEPT ![run.asset] = e]]
  BY DEF D!Recorded
<1>3. (old.etag # None => AsServed(old.sha, run.asset, old.etag)) /\ (old.sha # None => PinnedIs(old.sha, run.asset))
  BY <1>1 DEF DInv, Fit
<1>4. /\ PinnedIs(run.digest, run.asset) /\ etag \in Gens \cup {None}
      /\ etag # None => AsServed(run.digest, run.asset, etag)
  <2>1. PinnedIs(run.digest, run.asset)
    BY <1>1, Distinct DEF DInv, Told
  <2>2. CASE run.said = Unasked
    <3>1. etag = old.etag /\ run.digest = pin[run.asset]
      BY <1>1, <2>2, Distinct DEF DInv, Told
    <3>2. old.sha \in {None, run.digest} /\ old.etag \in Gens \cup {None}
      BY <1>1, <1>3, <3>1, Distinct DEF PinnedIs, D!Entries
    <3>3. pin[run.asset] # None
      BY <1>1, <3>1, Distinct
    <3> QED
      BY <1>3, <2>1, <3>1, <3>2, <3>3, Distinct DEF AsServed
  <2>3. CASE run.said = Silent
    BY <2>1, <2>3, Distinct
  <2>4. CASE run.said \in Gens
    <3>1. etag = run.said
      BY <2>4, Distinct
    <3> QED
      BY <1>1, <2>1, <2>4, <3>1, Distinct DEF DInv, Told
  <2> QED
    BY <1>1, <2>2, <2>3, <2>4
<1> HIDE DEF etag
<1>5. e \in D!Entries /\ e.sha = run.digest /\ e.etag = etag
  BY <1>1, <1>4 DEF D!Entries
<1> HIDE DEF e
<1>6. /\ d \in D!Docs /\ d.entries[run.asset] = e
      /\ \A a \in Assets \ {run.asset} : d.entries[a] = doc.entries[a]
  BY <1>1, <1>2, <1>5 DEF D!Docs
<1> HIDE DEF d, old
<1>7. Fit(d)
  BY <1>1, <1>4, <1>5, <1>6 DEF DInv, Fit
<1> QED
  BY <1>5, <1>6, <1>7 DEF d

LEMMA OpenRecordKeeps == DInv /\ D!OpenRecord => DInv'
<1> SUFFICES ASSUME DInv, D!OpenRecord PROVE DInv'
  OBVIOUS
<1> DEFINE d == D!Recorded(doc, run.asset, run.digest, run.said)
<1>1. run.pc = "record" /\ UNCHANGED <<family, pin, served, parked, file, tree, cut>>
  BY DEF D!OpenRecord, D!constant
<1>2. CASE /\ run' = [run EXCEPT !.pc = "recording", !.writing = d]
           /\ doc' = D!TornDoc /\ UNCHANGED outcome
  <2>1. /\ d \in D!Docs /\ Fit(d) /\ d.entries[run.asset].sha = run.digest
        /\ \A a \in Assets \ {run.asset} : d.entries[a] = doc.entries[a]
    BY <1>1, RecordedFits
  <2> HIDE DEF d
  <2> QED
    BY <1>1, <1>2, <2>1, WritingKeeps
<1>3. CASE D!End("aborted") /\ UNCHANGED doc
  <2>1. parked' \in Parkings /\ cut' \in BOOLEAN /\ CutShort'
    BY <1>1, Settled DEF DInv, DTyped, CutShort
  <2> QED
    BY <1>1, <1>3, <2>1, EndsBadly
<1> QED
  BY <1>2, <1>3 DEF D!OpenRecord

LEMMA OpenRefreshKeeps == DInv /\ D!OpenRefresh => DInv'
<1> SUFFICES ASSUME DInv, D!OpenRefresh PROVE DInv'
  OBVIOUS
<1> DEFINE d == D!Refreshed(doc, run.asset, run.said)
<1>1. /\ run.pc = "refresh" /\ UNCHANGED <<family, pin, served, parked, file, tree, cut, outcome>>
      /\ run' = [run EXCEPT !.pc = "recording", !.writing = d] /\ doc' = D!TornDoc
  BY DEF D!OpenRefresh, D!constant
<1>2. doc \in D!Docs /\ Fit(doc) /\ run.asset \in Assets /\ doc.entries[run.asset].sha = run.digest
      /\ (run.said \in Gens => AsServed(run.digest, run.asset, run.said))
  BY <1>1 DEF DInv, DTyped, RunsOf, Told
<1>3. /\ d \in D!Docs /\ Fit(d) /\ d.entries[run.asset].sha = run.digest
      /\ \A a \in Assets \ {run.asset} : d.entries[a] = doc.entries[a]
  <2>1. CASE d = doc
    BY <1>2, <2>1
  <2>2. CASE run.said \in Gens /\ d = [doc EXCEPT !.entries[run.asset].etag = run.said]
    <3> DEFINE e == [doc.entries[run.asset] EXCEPT !.etag = run.said]
    <3>1. e \in D!Entries /\ e.sha = run.digest /\ e.etag = run.said
      BY <1>2, <2>2 DEF D!Docs, D!Entries
    <3>2. d = [doc EXCEPT !.entries = [doc.entries EXCEPT ![run.asset] = e]]
      BY <2>2
    <3> HIDE DEF e, d
    <3>3. /\ d \in D!Docs /\ d.entries[run.asset] = e
          /\ \A a \in Assets \ {run.asset} : d.entries[a] = doc.entries[a]
      BY <1>2, <3>1, <3>2 DEF D!Docs
    <3>4. Fit(d)
      BY <1>2, <2>2, <3>1, <3>3 DEF Fit
    <3> QED
      BY <3>1, <3>3, <3>4
  <2> QED
    BY <2>1, <2>2 DEF D!Refreshed
<1> HIDE DEF d
<1> QED
  BY <1>1, <1>3, WritingKeeps

LEMMA CloseRecordKeeps == DInv /\ D!CloseRecord => DInv'
<1> SUFFICES ASSUME DInv, D!CloseRecord PROVE DInv'
  OBVIOUS
<1>1. /\ run.pc = "recording" /\ doc' = run.writing /\ UNCHANGED <<family, pin, served, parked, file, tree, cut>>
  BY DEF D!CloseRecord, D!constant
<1>2. doc' \in D!Docs /\ Fit(doc') /\ run.digest # None
      /\ run.writing.entries[run.asset].sha = run.digest /\ PinnedIs(run.digest, run.asset)
  BY <1>1 DEF DInv, DTyped, RunsOf, Told
<1>3. CASE family = "madlad" /\ D!NextLeaf /\ UNCHANGED outcome
  <2>1. ~run.force => \A a \in Assets \ run.todo : pin[a] # None /\ file[a] = pin[a] =>
                        doc'.entries[a].sha = pin[a]
    BY <1>1, <1>3 DEF DInv, Kept, Visited, Current
  <2>2. Fit(doc)'
    BY <1>1, <1>2 DEF Fit, PinnedIs, AsServed
  <2> QED
    BY <1>1, <1>2, <1>3, <2>1, <2>2, NextLeafKeeps DEF DInv, DTyped
<1>4. CASE family # "madlad" /\ D!End("ok")
  <2>1. tree # D!NoTree /\ run.asset = Main /\ tree.laid /\ CutShort
    BY <1>1, <1>4, Settled DEF DInv, Planted, Single, D!NoTree
  <2>2. D!Leaves = {Main} /\ (pin[Main] # None => doc'.entries[Main].sha = pin[Main])
    BY <1>1, <1>2, <1>4, <2>1 DEF D!Leaves, PinnedIs, AsServed
  <2>3. /\ \A a \in D!Leaves : pin[a] # None => D!Held(a) = pin[a]
        /\ run.force => \A a \in D!Leaves :
             outcome.answered[a] # None => AsServed(D!Held(a), a, outcome.answered[a])
    BY <1>1, <1>4, <2>1, TreeHolds
  <2> QED
    BY <1>1, <1>2, <1>4, <2>1, <2>2, <2>3, EndsWell
<1> QED
  BY <1>3, <1>4 DEF D!CloseRecord

-----------------------------------------------------------------------------
LEMMA DKillKeeps == DInv /\ D!Kill => DInv'
<1> SUFFICES ASSUME DInv, D!Kill PROVE DInv'
  OBVIOUS
<1>1. D!End("killed") /\ UNCHANGED <<family, pin, served, file, tree, doc>>
  BY DEF D!Kill, D!constant
<1>2. parked' \in Parkings
  BY Unparked, Parks DEF D!Kill
<1>3. cut' \in BOOLEAN /\ CutShort'
  <2>1. /\ cut' = (cut \/ (run.pc \in {"place", "unpacking"} /\ tree # D!NoTree /\ ~tree.whole))
        /\ tree' = tree /\ cut \in BOOLEAN
    BY DEF D!Kill, DInv, DTyped
  <2>2. cut' \in BOOLEAN
    BY <2>1
  <2>3. tree.laid => tree # D!NoTree
    BY DEF D!NoTree
  <2> QED
    BY <2>1, <2>2, <2>3, Settled DEF CutShort
<1> QED
  BY <1>1, <1>2, <1>3, EndsBadly

\* What is served matters to a run when it asks, and later no more.
LEMMA ReleaseKeeps ==
    ASSUME DInv, NEW a \in Assets, NEW g \in Gens, D!Release(a, g)
    PROVE  DInv'
<1>1. /\ served' = [served EXCEPT ![a] = g]
      /\ UNCHANGED <<family, pin, parked, file, tree, cut, doc, run, outcome>>
  BY DEF D!Release, D!constant
<1>2. DTyped'
  BY <1>1 DEF DInv, DTyped
<1>3. Single' /\ Fit(doc)' /\ Fit(run.writing)' /\ Told' /\ Hushed'
  BY <1>1 DEF DInv, Single, Fit, PinnedIs, AsServed, Told, Hushed
<1>4. Planted' /\ Answers' /\ Kept'
  BY <1>1 DEF DInv, Planted, CutShort, PinnedIs, AsServed, Answers, Kept, Visited, Current, D!NoTree
<1>5. Promises'
  BY <1>1 DEF DInv, Promises, D!ForcedIsCurrent, D!FinishedIsPinned, D!RecordNamesHeld, D!Done, D!Leaves, D!Held,
       D!Spliced
<1> QED
  BY <1>2, <1>3, <1>4, <1>5 DEF DInv

LEMMA TamperKeeps ==
    ASSUME DInv, NEW a \in Assets, NEW bytes \in D!Bytes, D!Tamper(a, bytes)
    PROVE  DInv'
<1>1. /\ run.pc = "idle" /\ file' = [file EXCEPT ![a] = bytes] /\ outcome' = D!NoOutcome
      /\ UNCHANGED <<family, pin, served, parked, tree, cut, doc, run>>
  BY DEF D!Tamper, D!constant
<1>2. DTyped'
  BY <1>1, FreshOutcome DEF DInv, DTyped
<1>3. Single' /\ Fit(doc)' /\ Fit(run.writing)' /\ Told' /\ Hushed'
  BY <1>1 DEF DInv, Single, Fit, PinnedIs, AsServed, Told, Hushed
<1>4. Planted' /\ Answers' /\ Kept' /\ outcome'.result = "none"
  BY <1>1, FreshOutcome DEF DInv, Planted, CutShort, PinnedIs, AsServed, Answers, Kept, D!NoTree
<1> QED
  BY <1>2, <1>3, <1>4, NothingPromised DEF DInv

LEMMA DInvNext == DInv /\ D!Next => DInv'
<1> SUFFICES ASSUME DInv, D!Next PROVE DInv'
  OBVIOUS
<1>1. ASSUME NEW force \in BOOLEAN, NEW allow \in BOOLEAN, D!Start(force, allow) PROVE DInv'
  BY <1>1, DStartKeeps
<1>2. ASSUME NEW said \in Gens \cup {Silent}, D!Downloaded(said) \/ D!NotModified(said) PROVE DInv'
  BY <1>2, DownloadedKeeps, NotModifiedKeeps
<1>3. ASSUME NEW a \in Assets, NEW g \in Gens, D!Release(a, g) PROVE DInv'
  BY <1>3, ReleaseKeeps
<1>4. ASSUME NEW a \in Assets, NEW bytes \in D!Bytes, D!Tamper(a, bytes) PROVE DInv'
  BY <1>4, TamperKeeps
<1> QED
  BY <1>1, <1>2, <1>3, <1>4, CachedArgosKeeps, CachedVoiceKeeps, CachedMadladKeeps, RefusedKeeps,
     AttemptFailsKeeps, ClearKeeps, UnpackKeeps, SkipUnpackKeeps, UnpackedKeeps, MoveKeeps,
     VerifyKeeps, OpenRecordKeeps, OpenRefreshKeeps, CloseRecordKeeps, DKillKeeps DEF D!Next

\* A run stops asking after the last of its attempts.
Trying == run.tries \in 0..(Attempts - 1)

LEMMA TryingKeeps == DInv /\ Trying /\ D!Next => Trying'
<1> SUFFICES ASSUME DInv, Trying, D!Next PROVE Trying'
  OBVIOUS
<1>1. run \in RunsOf /\ Attempts \in Nat \ {0}
  BY ScriptsAssumption DEF DInv, DTyped
<1>2. D!Idle.tries = 0 /\ 0 \in 0..(Attempts - 1)
  BY <1>1 DEF D!Idle
<1>3. ASSUME run' = D!Idle PROVE Trying'
  BY <1>2, <1>3 DEF Trying
<1>4. ASSUME NEW ask, D!Download(ask) PROVE Trying'
  BY <1>1, <1>2, <1>4 DEF Trying, RunsOf, D!Download
<1>5. ASSUME run'.tries = run.tries PROVE Trying'
  BY <1>5 DEF Trying
<1>6. ASSUME NEW digest, D!KeepCached(digest) PROVE Trying'
  BY <1>1, <1>5, <1>6 DEF RunsOf, D!KeepCached
<1>7. ASSUME D!NextLeaf PROVE Trying'
  BY <1>1, <1>5, <1>7 DEF RunsOf, D!NextLeaf
<1>8. ASSUME NEW pc, D!Goto(pc) PROVE Trying'
  BY <1>1, <1>5, <1>8 DEF RunsOf, D!Goto
<1>9. ASSUME D!GiveUp PROVE Trying'
  BY <1>3, <1>7, <1>9 DEF D!GiveUp, D!End
<1>10. ASSUME NEW force \in BOOLEAN, NEW allow \in BOOLEAN, D!Start(force, allow) PROVE Trying'
  BY <1>2, <1>10 DEF Trying, D!Start, D!Idle
<1>11. ASSUME D!CachedArgos \/ D!CachedVoice \/ D!CachedMadlad PROVE Trying'
  <2>1. ASSUME run' = [run EXCEPT !.pc = "record", !.digest = pin[run.asset]] PROVE Trying'
    BY <1>1, <1>5, <2>1 DEF RunsOf
  <2> QED
    BY <1>3, <1>4, <1>6, <1>7, <1>11, <2>1 DEF D!CachedArgos, D!CachedVoice, D!CachedMadlad, D!End
<1>12. ASSUME D!Refused PROVE Trying'
  BY <1>9, <1>12 DEF D!Refused
<1>13. ASSUME run.tries + 1 # Attempts, NEW ask,
              run' = [run EXCEPT !.tries = @ + 1, !.ask = ask]
       PROVE  Trying'
  <2>1. run'.tries = run.tries + 1
    BY <1>1, <1>13 DEF RunsOf
  <2> QED
    BY <1>1, <1>13, <2>1 DEF Trying
<1>14. ASSUME D!AttemptFails PROVE Trying'
  <2>1. ASSUME run.tries + 1 # Attempts, run' = [run EXCEPT !.tries = @ + 1] PROVE Trying'
    <3>1. run'.tries = run.tries + 1
      BY <1>1, <2>1 DEF RunsOf
    <3> QED
      BY <1>1, <2>1, <3>1 DEF Trying
  <2> QED
    BY <1>9, <1>14, <2>1 DEF D!AttemptFails
<1>15. ASSUME NEW said, D!Downloaded(said) PROVE Trying'
  BY <1>1, <1>5, <1>15 DEF RunsOf, D!Downloaded
<1>16. ASSUME NEW said, D!NotModified(said) PROVE Trying'
  <2>1. CASE run' = [run EXCEPT !.pc = IF family = "madlad" THEN "refresh" ELSE "place",
                                !.digest = D!Question.sha, !.said = said]
    BY <1>1, <1>5, <2>1 DEF RunsOf
  <2> QED
    BY <1>9, <1>13, <1>16, <2>1 DEF D!NotModified
<1>17. ASSUME D!Clear \/ D!Unpack \/ D!UnpackOver \/ D!SkipUnpack \/ D!Unpacked \/ D!Move
       PROVE  Trying'
  BY <1>5, <1>8, <1>17 DEF D!Clear, D!Unpack, D!UnpackOver, D!SkipUnpack, D!Unpacked, D!Move
<1>18. ASSUME D!Verify \/ D!CloseRecord \/ D!Kill PROVE Trying'
  BY <1>3, <1>7, <1>8, <1>18 DEF D!Verify, D!CloseRecord, D!Kill, D!End
<1>19. ASSUME D!OpenRecord \/ D!OpenRefresh PROVE Trying'
  <2>1. ASSUME NEW d, run' = [run EXCEPT !.pc = "recording", !.writing = d] PROVE Trying'
    BY <1>1, <1>5, <2>1 DEF RunsOf
  <2> QED
    BY <1>3, <1>19, <2>1 DEF D!OpenRecord, D!OpenRefresh, D!End
<1>20. ASSUME NEW a, NEW x, D!Release(a, x) \/ D!Tamper(a, x) PROVE Trying'
  BY <1>5, <1>20 DEF D!Release, D!Tamper
<1> QED
  BY <1>10, <1>11, <1>12, <1>14, <1>15, <1>16, <1>17, <1>18, <1>19, <1>20 DEF D!Next

LEMMA DownloadsTyped == DInv /\ Trying => D!TypeOK
<1> SUFFICES ASSUME DInv, Trying PROVE D!TypeOK
  OBVIOUS
<1>1. run \in D!Runs
  <2>1. run \in RunsOf /\ run.tries \in 0..Attempts
    BY ScriptsAssumption DEF DInv, DTyped, Trying
  <2> QED
    BY <2>1 DEF RunsOf, D!Runs
<1> QED
  BY <1>1 DEF DInv, DTyped, Trees, Parkings, Outcomes, D!TypeOK

DownloadsInv == tool = "downloads" => DInv /\ Trying

LEMMA DownloadsInvInit == Init => DownloadsInv
<1>1. D!Init => Trying
  BY ScriptsAssumption DEF D!Init, D!Idle, Trying
<1> QED
  BY <1>1, DInvInit DEF Init, DownloadsInv

LEMMA DownloadsInvNext == DownloadsInv /\ [Next]_vars => DownloadsInv'
<1> SUFFICES ASSUME DownloadsInv, [Next]_vars PROVE DownloadsInv'
  OBVIOUS
<1>1. CASE tool = "downloads" /\ D!Next
  BY <1>1, DInvNext, TryingKeeps DEF DownloadsInv
<1>2. CASE UNCHANGED vars
  <2>1. UNCHANGED <<tool, family, pin, served, parked, file, tree, cut, doc, run, outcome>>
    BY <1>2 DEF vars, downloads
  <2> SUFFICES ASSUME DInv PROVE DInv'
    BY <2>1 DEF DownloadsInv, Trying
  <2>2. DTyped' /\ Single' /\ Fit(doc)' /\ Fit(run.writing)' /\ Told' /\ Hushed'
    BY <2>1 DEF DInv, DTyped, Single, Fit, PinnedIs, AsServed, Told, Hushed
  <2>3. Planted' /\ Answers' /\ Kept'
    BY <2>1 DEF DInv, Planted, CutShort, PinnedIs, AsServed, Answers, Kept, Visited, Current, D!NoTree
  <2>4. Promises'
    BY <2>1 DEF DInv, Promises, D!ForcedIsCurrent, D!FinishedIsPinned, D!RecordNamesHeld, D!Done, D!Leaves, D!Held,
       D!Spliced
  <2> QED
    BY <2>2, <2>3, <2>4 DEF DInv
<1>3. CASE tool # "downloads" /\ UNCHANGED tool
  BY <1>3 DEF DownloadsInv
<1> QED
  BY <1>1, <1>2, <1>3 DEF Next

\* A --force fetch that reports success leaves in use the bytes the server answered for,
\* whatever was cached, recorded, changed by hand, replaced upstream or left by a killed run; or
\* a splice, and that only of an asset without a pin.
THEOREM ForcedFetchIsCurrent == Spec => []ForcedIsCurrent
<1>1. DownloadsInv => ForcedIsCurrent
  BY DEF DownloadsInv, DInv, Promises, ForcedIsCurrent
<1> QED
  BY <1>1, DownloadsInvInit, DownloadsInvNext, PTL DEF Spec

\* The etag of an origin record is about the bytes the record names, after any number of runs,
\* unless those are a splice: under a pin the record never names one.
THEOREM EtagsDescribeDigests == Spec => []ValidatorsDescribeDigest
<1>1. DownloadsInv => ValidatorsDescribeDigest
  BY DEF DownloadsInv, DInv, Fit, AsServed, ValidatorsDescribeDigest, D!ValidatorsDescribeDigest,
         D!Named, D!Spliced
<1> QED
  BY <1>1, DownloadsInvInit, DownloadsInvNext, PTL DEF Spec

\* A fetch that reports success leaves the pinned bytes of every pinned asset in use, and what it
\* unpacked from them complete, unless a kill has cut a removal or an extraction of it short.
THEOREM FetchesEndPinned == Spec => []FinishedIsPinned
<1>1. DownloadsInv => FinishedIsPinned
  BY DEF DownloadsInv, DInv, Promises, FinishedIsPinned
<1> QED
  BY <1>1, DownloadsInvInit, DownloadsInvNext, PTL DEF Spec

\* After a fetch that reports success the record names every pinned leaf of the checkpoint,
\* not only the one that was written last.
THEOREM RecordsNameWhatIsHeld == Spec => []RecordNamesHeld
<1>1. DownloadsInv => RecordNamesHeld
  BY DEF DownloadsInv, DInv, Promises, RecordNamesHeld
<1> QED
  BY <1>1, DownloadsInvInit, DownloadsInvNext, PTL DEF Spec

-----------------------------------------------------------------------------
(* The scripts together.                                                   *)

AnyScript ==
    /\ tool \in {"downloads", "updates", "bundle", "evidence", "flores"}
    /\ DownloadsInv /\ UpdatesInv /\ BundleInv /\ EvidenceInv /\ FloresInv

\* Whichever script moves, its variables keep their types: a fetch counts no more attempts than
\* it has, a comment goes to an issue of the list, a measured row is one of the corpus.
THEOREM ScriptsTypeCorrect == Spec => []TypeOK
<1>1. Init => AnyScript
  BY DownloadsInvInit, UpdatesInvInit, BundleInvInit, EvidenceInvInit, FloresInvInit
  DEF Init, AnyScript
<1>2. AnyScript /\ [Next]_vars => AnyScript'
  <2>1. tool \in {"downloads", "updates", "bundle", "evidence", "flores"} /\ [Next]_vars =>
          tool' \in {"downloads", "updates", "bundle", "evidence", "flores"}
    BY DEF Next, vars
  <2> QED
    BY <2>1, DownloadsInvNext, UpdatesInvNext, BundleInvNext, EvidenceInvNext, FloresInvNext
    DEF AnyScript
<1>3. AnyScript => TypeOK
  BY DownloadsTyped, UpdatesTyped, BundleTyped, EvidenceTyped, FloresTyped
  DEF AnyScript, DownloadsInv, UpdatesInv, BundleInv, EvidenceInv, FloresInv, TypeOK
<1> QED
  BY <1>1, <1>2, <1>3, PTL DEF Spec
=============================================================================

--------------------------- MODULE GlossaryProofs ---------------------------
(***************************************************************************)
(* What Glossary keeps for any number of callers, terms, domains, entries  *)
(* and any thresholds: the types, a person's locks, a machine's best offer,*)
(* an import's account of its rows, the sequential contract, and a listing *)
(* that does not depend on the order of the walk.                          *)
(***************************************************************************)
EXTENDS Glossary, SequenceTheorems, FiniteSetTheorems, WellFoundedInduction, TLAPS

-----------------------------------------------------------------------------
Steps == {"idle", "offer", "dirty", "flush", "rename"}
Reports == [written : Nat, locked : Nat, not_higher : Nat]
Tables == [Keys -> Rows \cup {NoRow}]

\* The read guard keeps writers out: what a thread is about to rename is the index as it is.
StagedIsCurrent == \A t \in Actors : pc[t] = "rename" => staged[t] = gl

\* What a table owes to the writes it took: the locks of people, the offers of machines.
LocksKept(table, owed) ==
    \A k \in Keys : owed[k].wish # NoRow =>
        /\ table[k] # NoRow /\ table[k].locked
        /\ table[k].target = owed[k].wish /\ table[k].source = "manual"

OffersKept(table, owed) ==
    \A k \in Keys : owed[k].best > 0 => table[k] # NoRow /\ table[k].confidence >= owed[k].best

\* A refused pack has nothing left to offer, and no job but an import has a status.
RefusedIsEmpty == \A t \in Actors : job[t].status = "invalid" => job[t].rest = <<>>

IInv ==
    /\ TypeOK /\ StagedIsCurrent
    /\ LocksKept(gl, pledge) /\ LocksKept(disk, saved)
    /\ OffersKept(gl, pledge) /\ OffersKept(disk, saved)
    /\ RefusedIsEmpty /\ ImportAccounted

-----------------------------------------------------------------------------
LEMMA EmptyRest == <<>> \in Seq(Entries) /\ Len(<<>>) = 0
BY EmptySeq

LEMMA JobType == Jobs = [rest : Seq(Entries), rows : Nat, report : Reports,
                         status : {"none", "ok", "invalid"}]
<1>1. [{"written", "locked", "not_higher"} -> Nat] = Reports
  BY DEF Reports
<1> QED
  BY <1>1 DEF Jobs

LEMMA NoJobType ==
    /\ NoJob \in Jobs /\ NoJob.rest = <<>> /\ NoJob.status = "none"
    /\ NoJob.report.written = 0 /\ NoJob.report.locked = 0 /\ NoJob.report.not_higher = 0
BY JobType, EmptyRest DEF NoJob, NoReport, Reports

\* The key of an entry, and the row an entry makes.
LEMMA EntryRow ==
    ASSUME NEW e \in Entries, NEW source \in Sources, NEW locked \in BOOLEAN
    PROVE  /\ KeyOf(e) \in Keys /\ e.confidence \in Nat /\ e.source \in Sources
           /\ Row(e, source, locked) \in Rows /\ Row(e, source, locked) # NoRow
           /\ Row(e, source, locked).target = e.target
           /\ Row(e, source, locked).confidence = e.confidence
           /\ Row(e, source, locked).source = source
           /\ Row(e, source, locked).locked = locked
BY GlossaryAssumption DEF Entries, RawEntries, KeyOf, Keys, Row, Rows

\* Two fields of a row replaced.
LEMMA Displaced ==
    ASSUME NEW row \in Rows, NEW e \in Entries
    PROVE  /\ [row EXCEPT !.target = e.target, !.confidence = e.confidence] \in Rows
           /\ [row EXCEPT !.target = e.target, !.confidence = e.confidence].confidence = e.confidence
BY DEF Rows, Entries, RawEntries

\* What the rule makes of a row, by outcome.
LEMMA SettledRow ==
    ASSUME gl \in Tables, NEW k \in Keys, NEW e \in Entries
    PROVE  /\ Outcome(k, e) \in {"written", "locked", "not_higher"}
           /\ Settled(k, e) \in Rows /\ Settled(k, e) # NoRow
           /\ Outcome(k, e) = "locked" <=> Locked(k)
           /\ Locked(k) => Settled(k, e) = gl[k]
           /\ ~Locked(k) => Settled(k, e).confidence >= e.confidence
           /\ gl[k] # NoRow => Settled(k, e).confidence >= gl[k].confidence
<1>1. e.confidence \in Nat /\ e.source \in Sources
  BY DEF Entries, RawEntries
<1>2. CASE gl[k] = NoRow
  <2>0. ~Locked(k)
    BY <1>2 DEF Locked
  <2>1. Outcome(k, e) = "written"
    BY <1>2, <2>0 DEF Outcome
  <2>2. Settled(k, e) = Row(e, e.source, FALSE)
    BY <1>2 DEF Settled
  <2>3. /\ Settled(k, e) \in Rows /\ Settled(k, e) # NoRow
        /\ Settled(k, e).confidence = e.confidence
    <3>1. /\ Row(e, e.source, FALSE) \in Rows
          /\ Row(e, e.source, FALSE).confidence = e.confidence
      BY <1>1 DEF Row, Rows, Entries, RawEntries
    <3> QED
      BY <2>2, <3>1, GlossaryAssumption
  <2> QED
    BY <1>1, <1>2, <2>0, <2>1, <2>3
<1>3. CASE gl[k] # NoRow
  <2>1. gl[k] \in Rows /\ gl[k].confidence \in Nat
    BY <1>3 DEF Tables, Rows
  <2>2. CASE gl[k].locked
    BY <1>1, <1>3, <2>1, <2>2 DEF Outcome, Settled, Locked
  <2>3. CASE ~gl[k].locked /\ e.confidence > gl[k].confidence
    <3>1. Outcome(k, e) = "written" /\ ~Locked(k)
      BY <1>3, <2>3 DEF Outcome, Locked
    <3>2. Settled(k, e) = [gl[k] EXCEPT !.target = e.target, !.confidence = e.confidence]
      BY <1>3, <3>1 DEF Settled
    <3>3. Settled(k, e) \in Rows /\ Settled(k, e).confidence = e.confidence
      BY <2>1, <3>2, Displaced
    <3> QED
      BY <1>1, <2>1, <2>3, <3>1, <3>3, GlossaryAssumption
  <2>4. CASE ~gl[k].locked /\ ~(e.confidence > gl[k].confidence)
    <3>1. Outcome(k, e) = "not_higher" /\ ~Locked(k)
      BY <1>3, <2>4 DEF Outcome, Locked
    <3> QED
      BY <1>1, <1>3, <2>1, <2>4, <3>1 DEF Settled
  <2> QED
    BY <2>2, <2>3, <2>4
<1> QED
  BY <1>2, <1>3
-----------------------------------------------------------------------------
LEMMA Initially == Init => IInv
<1> SUFFICES ASSUME Init PROVE IInv
  OBVIOUS
<1>1. NoPledge \in Pledges /\ NoPledge.wish = NoRow /\ NoPledge.best = 0
  BY DEF NoPledge, Pledges
<1>2. TypeOK
  <2>1. job \in [Actors -> Jobs] /\ dirty \in 0..(FlushThreshold - 1) /\ inbox \in Seq(Tasks)
    BY NoJobType, GlossaryAssumption, EmptySeq DEF Init
  <2> QED
    BY <1>1, <2>1 DEF Init, TypeOK
<1>3. StagedIsCurrent /\ RefusedIsEmpty /\ ImportAccounted
  BY NoJobType DEF Init, StagedIsCurrent, RefusedIsEmpty, ImportAccounted, Actors
<1>4. /\ LocksKept(gl, pledge) /\ LocksKept(disk, saved)
      /\ OffersKept(gl, pledge) /\ OffersKept(disk, saved)
  BY <1>1 DEF Init, LocksKept, OffersKept
<1> QED
  BY <1>2, <1>3, <1>4 DEF IInv

\* A step of one thread that writes no row: what it moves to and the job it goes there with.
Moves(t, step, mine) ==
    /\ pc' = [pc EXCEPT ![t] = step]
    /\ job' = [job EXCEPT ![t] = mine]

JobSound(t, mine) ==
    /\ mine.status = "invalid" => mine.rest = <<>>
    /\ t \in Callers =>
         /\ mine.status = "ok" =>
              mine.report.written + mine.report.locked + mine.report.not_higher + Len(mine.rest)
                = mine.rows
         /\ mine.status = "invalid" =>
              mine.report.written + mine.report.locked + mine.report.not_higher = 0

LEMMA JobsSound == IInv => \A t \in Actors : job[t] \in Jobs /\ JobSound(t, job[t])
BY DEF IInv, TypeOK, RefusedIsEmpty, ImportAccounted, JobSound, Actors

LEMMA MoveKeepsJobs ==
    ASSUME IInv, NEW t \in Actors, NEW step \in Steps, NEW mine \in Jobs, Moves(t, step, mine),
           JobSound(t, mine)
    PROVE  /\ pc' \in [Actors -> Steps] /\ job' \in [Actors -> Jobs]
           /\ pc'[t] = step /\ \A u \in Actors \ {t} : pc'[u] = pc[u]
           /\ RefusedIsEmpty' /\ ImportAccounted'
<1>1. pc \in [Actors -> Steps] /\ job \in [Actors -> Jobs]
  BY DEF IInv, TypeOK, Steps
<1>2. /\ pc' \in [Actors -> Steps] /\ job' \in [Actors -> Jobs]
      /\ pc'[t] = step /\ job'[t] = mine
      /\ \A u \in Actors \ {t} : pc'[u] = pc[u] /\ job'[u] = job[u]
  BY <1>1 DEF Moves
<1>3. RefusedIsEmpty'
  BY <1>2, JobsSound DEF RefusedIsEmpty, JobSound
<1>4. ImportAccounted'
  BY <1>2, JobsSound DEF ImportAccounted, JobSound, Actors
<1> QED
  BY <1>2, <1>3, <1>4

\* A step that leaves the table and the file alone, and stages nothing but the table.
LEMMA QuietStep ==
    ASSUME IInv, NEW t \in Actors, NEW step \in Steps, NEW mine \in Jobs, Moves(t, step, mine),
           JobSound(t, mine), dirty' \in 0..(FlushThreshold - 1), inbox' \in Seq(Tasks),
           staged' \in [Actors -> Tables \cup {NoRow}],
           \A u \in Actors \ {t} : staged'[u] = staged[u],
           step = "rename" => staged'[t] = gl,
           UNCHANGED <<gl, disk, historyVars>>
    PROVE  IInv'
<1>1. /\ pc' \in [Actors -> Steps] /\ job' \in [Actors -> Jobs]
      /\ pc'[t] = step /\ \A u \in Actors \ {t} : pc'[u] = pc[u]
      /\ RefusedIsEmpty' /\ ImportAccounted'
  BY MoveKeepsJobs
<1>2. TypeOK'
  BY <1>1 DEF IInv, TypeOK, historyVars, Steps, Tables
<1>3. StagedIsCurrent'
  BY <1>1 DEF IInv, StagedIsCurrent
<1>4. /\ LocksKept(gl, pledge)' /\ LocksKept(disk, saved)'
      /\ OffersKept(gl, pledge)' /\ OffersKept(disk, saved)'
  BY DEF IInv, LocksKept, OffersKept, historyVars
<1> QED
  BY <1>1, <1>2, <1>3, <1>4 DEF IInv

\* A row that honours what is owed to it.
Honours(row, debt) ==
    /\ debt.wish # NoRow => /\ row # NoRow /\ row.locked
                            /\ row.target = debt.wish /\ row.source = "manual"
    /\ debt.best > 0 => row # NoRow /\ row.confidence >= debt.best

\* A step that writes one row under the write lock.
LEMMA WriteStep ==
    ASSUME IInv, NEW t \in Actors, NEW step \in {"offer", "dirty"}, NEW mine \in Jobs,
           Moves(t, step, mine), JobSound(t, mine), WriteLock,
           NEW k \in Keys, NEW row \in Rows \cup {NoRow}, NEW debt \in Pledges,
           gl' = [gl EXCEPT ![k] = row], pledge' = [pledge EXCEPT ![k] = debt],
           Honours(row, debt), UNCHANGED <<disk, dirty, inbox, staged, saved>>
    PROVE  IInv'
<1>1. /\ pc' \in [Actors -> Steps] /\ job' \in [Actors -> Jobs]
      /\ pc'[t] = step /\ \A u \in Actors \ {t} : pc'[u] = pc[u]
      /\ RefusedIsEmpty' /\ ImportAccounted'
  BY MoveKeepsJobs DEF Steps
<1>2. TypeOK'
  BY <1>1 DEF IInv, TypeOK, Steps, Tables
<1>3. StagedIsCurrent'
  BY <1>1 DEF WriteLock, StagedIsCurrent
<1>4. /\ gl'[k] = row /\ \A j \in Keys \ {k} : gl'[j] = gl[j]
      /\ pledge'[k] = debt /\ \A j \in Keys \ {k} : pledge'[j] = pledge[j]
  BY DEF IInv, TypeOK
<1>5. LocksKept(gl, pledge)' /\ LocksKept(disk, saved)'
  BY <1>4 DEF IInv, LocksKept, Honours
<1>6. OffersKept(gl, pledge)' /\ OffersKept(disk, saved)'
  BY <1>4 DEF IInv, OffersKept, Honours
<1> QED
  BY <1>1, <1>2, <1>3, <1>5, <1>6 DEF IInv
\* Tail of what is left to offer, and the head that is offered.
LEMMA RestType ==
    ASSUME NEW rest \in Seq(Entries), rest # <<>>
    PROVE  Head(rest) \in Entries /\ Tail(rest) \in Seq(Entries) /\ Len(Tail(rest)) = Len(rest) - 1
           /\ Len(rest) \in Nat
OBVIOUS

LEMMA CountedReport ==
    ASSUME NEW report \in Reports, NEW outcome \in {"written", "locked", "not_higher"}
    PROVE  /\ Counted(report, outcome) \in Reports
           /\ LET next == Counted(report, outcome)
              IN  next.written + next.locked + next.not_higher
                    = report.written + report.locked + report.not_higher + 1
<1>1. CASE outcome = "written"
  BY <1>1 DEF Counted, Reports
<1>2. CASE outcome = "locked"
  BY <1>2 DEF Counted, Reports
<1>3. CASE outcome = "not_higher"
  BY <1>3 DEF Counted, Reports
<1> QED
  BY <1>1, <1>2, <1>3

\* An entry of a pack or a task is settled, and accounted for.
LEMMA OfferStep ==
    ASSUME IInv, NEW t \in Actors, OfferRow(t)
    PROVE  IInv'
<1> DEFINE e == Head(job[t].rest)
           k == KeyOf(e)
           outcome == Outcome(k, e)
           report == Counted(job[t].report, outcome)
           mine == [job[t] EXCEPT !.rest = Tail(@), !.report = report]
<1>0. TypeOK /\ gl \in Tables /\ job[t] \in Jobs /\ JobSound(t, job[t])
  BY JobsSound DEF IInv, TypeOK, Tables
<1>1. e \in Entries /\ k \in Keys /\ e.confidence \in Nat
  BY <1>0, JobType, RestType DEF OfferRow, Entries, RawEntries, KeyOf, Keys
<1>2. outcome \in {"written", "locked", "not_higher"}
  BY <1>0, <1>1, SettledRow
<1>3. /\ gl' = [gl EXCEPT ![k] = Settled(k, e)] /\ WriteLock
      /\ pc' = [pc EXCEPT ![t] = IF outcome = "locked" THEN "offer" ELSE "dirty"]
      /\ job[t].rest # <<>>
      /\ pledge' = IF outcome = "locked" THEN pledge
                   ELSE [pledge EXCEPT ![k].best = IF e.confidence > @ THEN e.confidence ELSE @]
      /\ UNCHANGED <<disk, dirty, inbox, staged, saved>>
  BY DEF OfferRow, Goto
<1>4. job' = [job EXCEPT ![t] = mine]
  BY <1>0, JobType DEF OfferRow, TypeOK
<1>5. mine \in Jobs /\ JobSound(t, mine)
  <2> DEFINE old == job[t].report
  <2>1. old \in Reports /\ job[t].rest \in Seq(Entries) /\ Tail(job[t].rest) \in Seq(Entries)
        /\ Len(Tail(job[t].rest)) = Len(job[t].rest) - 1 /\ Len(job[t].rest) \in Nat
        /\ job[t].rows \in Nat
    BY <1>0, <1>3, JobType, RestType
  <2>2. report \in Reports /\ report.written + report.locked + report.not_higher
                                = old.written + old.locked + old.not_higher + 1
    BY <1>2, <2>1, CountedReport
  <2>3. job[t].status # "invalid"
    BY <1>0, <1>3 DEF JobSound
  <2>4. /\ mine.rest = Tail(job[t].rest) /\ mine.report = report
        /\ mine.status = job[t].status /\ mine.rows = job[t].rows
    BY <1>0, JobType
  <2>5. mine \in Jobs
    BY <1>0, <2>1, <2>2, JobType
  <2> HIDE DEF report, mine, old
  <2>6. old.written \in Nat /\ old.locked \in Nat /\ old.not_higher \in Nat
    BY <2>1 DEF Reports
  <2>7. JobSound(t, mine)
    BY <1>0, <2>1, <2>2, <2>3, <2>4, <2>6 DEF JobSound, old
  <2> QED
    BY <2>5, <2>7
<1>6. pledge[k] \in Pledges /\ pledge \in [Keys -> Pledges]
  BY <1>0, <1>1 DEF TypeOK
<1>7. Settled(k, e) \in Rows /\ Settled(k, e) # NoRow
      /\ (outcome = "locked" <=> Locked(k))
      /\ (Locked(k) => Settled(k, e) = gl[k])
      /\ (~Locked(k) => Settled(k, e).confidence >= e.confidence)
      /\ (gl[k] # NoRow => Settled(k, e).confidence >= gl[k].confidence)
  BY <1>0, <1>1, SettledRow
<1>8. /\ pledge[k].wish # NoRow => Locked(k) /\ gl[k].target = pledge[k].wish /\ gl[k].source = "manual"
      /\ pledge[k].best > 0 => gl[k] # NoRow /\ gl[k].confidence >= pledge[k].best
  BY <1>1 DEF IInv, LocksKept, OffersKept, Locked
<1> HIDE DEF mine, e, k, outcome, report
<1>9. CASE outcome = "locked"
  <2>1. Locked(k) /\ Settled(k, e) = gl[k]
    BY <1>7, <1>9
  <2>2. pledge' = [pledge EXCEPT ![k] = pledge[k]]
    BY <1>3, <1>6, <1>9
  <2>3. Moves(t, "offer", mine)
    BY <1>3, <1>4, <1>9 DEF Moves
  <2>4. Honours(Settled(k, e), pledge[k])
    BY <1>8, <2>1 DEF Honours, Locked
  <2> QED
    BY <1>1, <1>3, <1>5, <1>6, <1>7, <2>2, <2>3, <2>4, WriteStep
<1>10. CASE outcome # "locked"
  <2> DEFINE best == IF e.confidence > pledge[k].best THEN e.confidence ELSE pledge[k].best
             debt == [pledge[k] EXCEPT !.best = best]
  <2>1. debt \in Pledges /\ debt.wish = pledge[k].wish /\ debt.best = best
    BY <1>1, <1>6 DEF Pledges
  <2>2. pledge' = [pledge EXCEPT ![k] = debt]
    BY <1>1, <1>3, <1>6, <1>10
  <2>3. ~Locked(k) /\ debt.wish = NoRow
    BY <1>7, <1>8, <1>10, <2>1
  <2>4. best > 0 => Settled(k, e).confidence >= best
    <3>1. pledge[k].best \in Nat /\ Settled(k, e).confidence \in Nat
      BY <1>6, <1>7 DEF Pledges, Rows
    <3>2. CASE e.confidence > pledge[k].best
      BY <1>7, <2>3, <3>2
    <3>3. CASE ~(e.confidence > pledge[k].best)
      <4>1. pledge[k].best > 0 => gl[k].confidence \in Nat
        BY <1>0, <1>1, <1>8 DEF Tables, Rows
      <4> QED
        BY <1>1, <1>7, <1>8, <3>1, <3>3, <4>1
    <3> QED
      BY <3>2, <3>3
  <2>5. Moves(t, "dirty", mine)
    BY <1>3, <1>4, <1>10 DEF Moves
  <2> HIDE DEF best, debt
  <2>6. Honours(Settled(k, e), debt)
    BY <1>7, <2>1, <2>3, <2>4 DEF Honours
  <2> QED
    BY <1>1, <1>3, <1>5, <1>7, <2>1, <2>2, <2>5, <2>6, WriteStep
<1> QED
  BY <1>9, <1>10

\* A person's edit and a person's delete.
LEMMA EditStep ==
    ASSUME IInv, NEW t \in Actors, NEW e \in Edits, NEW lock \in {"on", "off", "keep"}, Edit(t, e, lock)
    PROVE  IInv'
<1> DEFINE k == KeyOf(e)
           locked == IF lock = "keep" THEN Locked(k) ELSE lock = "on"
           row == Typed(e, locked)
           debt == [NoPledge EXCEPT !.wish = IF locked THEN e.target ELSE NoRow]
<1>0. /\ TypeOK /\ job[t] \in Jobs /\ JobSound(t, job[t])
      /\ e \in Entries /\ k \in Keys /\ e.target \in STRING
  BY JobsSound, GlossaryAssumption DEF IInv, Entries, RawEntries, KeyOf, Keys
<1>1. locked \in BOOLEAN
  <2>1. Locked(k) \in BOOLEAN
    BY <1>0 DEF Locked, TypeOK, Rows
  <2> QED
    BY <2>1
<1>2. /\ gl' = [gl EXCEPT ![k] = row] /\ pledge' = [pledge EXCEPT ![k] = debt] /\ WriteLock
      /\ Goto(t, "dirty") /\ UNCHANGED <<disk, dirty, inbox, job, staged, saved>>
  BY DEF Edit
<1>3. row \in Rows /\ row # NoRow /\ row.target = e.target /\ row.source = "manual" /\ row.locked = locked
  <2> HIDE DEF locked
  <2> QED
    BY <1>0, <1>1, EntryRow DEF Typed, Sources
<1>4. debt \in Pledges /\ debt.best = 0 /\ debt.wish = (IF locked THEN e.target ELSE NoRow)
  BY <1>0 DEF Pledges, NoPledge
<1>5. Moves(t, "dirty", job[t])
  BY <1>0, <1>2 DEF Moves, Goto, TypeOK
<1> HIDE DEF row, debt, locked, k
<1>6. Honours(row, debt)
  BY <1>1, <1>3, <1>4 DEF Honours
<1> QED
  BY <1>0, <1>2, <1>3, <1>4, <1>5, <1>6, WriteStep

LEMMA DeleteStep ==
    ASSUME IInv, NEW t \in Actors, NEW k \in Keys, Delete(t, k)
    PROVE  IInv'
<1>0. TypeOK /\ job[t] \in Jobs /\ JobSound(t, job[t])
  BY JobsSound DEF IInv
<1>1. /\ gl' = [gl EXCEPT ![k] = NoRow] /\ pledge' = [pledge EXCEPT ![k] = NoPledge] /\ WriteLock
      /\ Goto(t, "dirty") /\ UNCHANGED <<disk, dirty, inbox, job, staged, saved>>
  BY DEF Delete
<1>2. NoPledge \in Pledges /\ NoPledge.wish = NoRow /\ NoPledge.best = 0
  BY DEF NoPledge, Pledges
<1>3. Moves(t, "dirty", job[t])
  BY <1>0, <1>1 DEF Moves, Goto, TypeOK
<1>4. Honours(NoRow, NoPledge)
  BY <1>2 DEF Honours
<1> QED
  BY <1>0, <1>1, <1>2, <1>3, <1>4, WriteStep
-----------------------------------------------------------------------------
\* A pack all of whose entries have a target, or a task.
LEMMA ValidPack ==
    ASSUME NEW pack \in Seq(RawEntries), Valid(pack)
    PROVE  pack \in Seq(Entries)
BY DEF Valid, Entries

\* What an import, a worker's task and the pass over a pair leave to offer.
LEMMA JobSteps ==
    ASSUME IInv, NEW t \in Actors,
           \/ \E pack \in Packs : BeginImport(t, pack)
           \/ TakeTask /\ t = Worker
           \/ HoldBack /\ t = Worker
           \/ EndJob(t)
    PROVE  IInv'
<1>0. TypeOK /\ job[t] \in Jobs /\ JobSound(t, job[t]) /\ staged \in [Actors -> Tables \cup {NoRow}]
  BY JobsSound DEF IInv, TypeOK, Tables
<1>q. ASSUME NEW step \in {"idle", "offer"}, NEW mine \in Jobs, Moves(t, step, mine),
             JobSound(t, mine), inbox' \in Seq(Tasks),
             UNCHANGED <<gl, disk, dirty, staged, historyVars>>
      PROVE  IInv'
  <2>1. dirty' \in 0..(FlushThreshold - 1) /\ staged' = staged
    BY <1>0, <1>q DEF TypeOK
  <2> QED
    BY <1>0, <1>q, <2>1, QuietStep DEF Steps
<1>1. ASSUME NEW pack \in Packs, BeginImport(t, pack) PROVE IInv'
  <2> DEFINE status == IF Valid(pack) THEN "ok" ELSE "invalid"
             mine == [NoJob EXCEPT !.rest = Staged(pack), !.rows = Len(pack), !.status = status]
  <2>1. Moves(t, "offer", mine) /\ UNCHANGED <<gl, disk, dirty, inbox, staged, historyVars>>
    BY <1>1 DEF BeginImport, Goto, Moves
  <2>2. pack \in Seq(RawEntries) /\ Len(pack) \in Nat
    BY GlossaryAssumption
  <2>3. Staged(pack) \in Seq(Entries) /\ (Valid(pack) => Staged(pack) = pack)
        /\ (~Valid(pack) => Staged(pack) = <<>>)
    BY <2>2, ValidPack, EmptyRest DEF Staged
  <2>4. status \in {"none", "ok", "invalid"} /\ (status = "ok" <=> Valid(pack))
    OBVIOUS
  <2> HIDE DEF status
  <2>5. /\ mine \in Jobs /\ mine.rest = Staged(pack) /\ mine.rows = Len(pack) /\ mine.status = status
        /\ mine.report.written = 0 /\ mine.report.locked = 0 /\ mine.report.not_higher = 0
    BY <2>2, <2>3, <2>4, JobType, NoJobType DEF NoJob, NoReport, Reports
  <2> HIDE DEF mine
  <2>6. JobSound(t, mine)
    BY <2>2, <2>3, <2>4, <2>5 DEF JobSound
  <2>7. inbox' \in Seq(Tasks)
    BY <1>0, <2>1 DEF TypeOK
  <2> QED
    BY <1>q, <2>1, <2>5, <2>6, <2>7
<1>2. CASE TakeTask /\ t = Worker
  <2> DEFINE mine == [NoJob EXCEPT !.rest = Head(inbox)]
  <2>1. /\ Moves(t, "offer", mine) /\ inbox # <<>> /\ inbox' = Tail(inbox)
        /\ UNCHANGED <<gl, disk, dirty, staged, historyVars>>
    BY <1>2 DEF TakeTask, Goto, Moves
  <2>2. Head(inbox) \in Tasks /\ inbox' \in Seq(Tasks)
    BY <1>0, <2>1 DEF TypeOK
  <2>3. Head(inbox) \in Seq(Entries)
    BY <2>2, GlossaryAssumption, ValidPack DEF Valid, Entries
  <2>4. mine \in Jobs /\ mine.status = "none"
    BY <2>3, JobType, NoJobType
  <2> HIDE DEF mine
  <2>5. JobSound(t, mine)
    BY <2>4 DEF JobSound
  <2> QED
    BY <1>q, <2>1, <2>2, <2>4, <2>5
<1>3. CASE HoldBack /\ t = Worker
  <2> DEFINE mine == [job[t] EXCEPT !.rest = Tail(@)]
  <2>1. pc[t] = "offer" /\ job[t].rest # <<>> /\ UNCHANGED <<gl, disk, dirty, inbox, pc, staged, historyVars>>
    BY <1>3 DEF HoldBack
  <2>2. Moves(t, "offer", mine)
    BY <1>0, <1>3, <2>1 DEF HoldBack, Moves, TypeOK
  <2>3. Tail(job[t].rest) \in Seq(Entries)
    BY <1>0, <2>1, JobType, RestType
  <2>4. mine \in Jobs /\ mine.status = job[t].status
    BY <1>0, <2>3, JobType
  <2>5. t \notin Callers /\ job[t].status # "invalid"
    BY <1>0, <1>3, <2>1, GlossaryAssumption DEF JobSound
  <2> HIDE DEF mine
  <2>6. JobSound(t, mine)
    BY <2>4, <2>5 DEF JobSound
  <2>7. inbox' \in Seq(Tasks)
    BY <1>0, <2>1 DEF TypeOK
  <2> QED
    BY <1>q, <2>1, <2>2, <2>4, <2>6, <2>7
<1>4. CASE EndJob(t)
  <2>1. Moves(t, "idle", NoJob) /\ UNCHANGED <<gl, disk, dirty, inbox, staged, historyVars>>
    BY <1>4 DEF EndJob, Goto, Moves
  <2>2. JobSound(t, NoJob)
    BY NoJobType DEF JobSound
  <2>3. inbox' \in Seq(Tasks)
    BY <1>0, <2>1 DEF TypeOK
  <2> QED
    BY <1>q, <2>1, <2>2, <2>3, NoJobType
<1> QED
  BY <1>1, <1>2, <1>3, <1>4

\* The counter, and the flush it asks for up to the rename.
LEMMA FlushSteps ==
    ASSUME IInv, NEW t \in Actors,
           BumpDirty(t) \/ FlushAll(t) \/ StageFlush(t) \/ FailFlush(t)
    PROVE  IInv'
<1>0. TypeOK /\ job[t] \in Jobs /\ JobSound(t, job[t]) /\ staged \in [Actors -> Tables \cup {NoRow}]
  BY JobsSound DEF IInv, TypeOK, Tables
<1>s. job = [job EXCEPT ![t] = job[t]]
  BY <1>0 DEF TypeOK
<1>1. CASE BumpDirty(t)
  <2>1. PICK step \in {"idle", "offer", "flush"} : Moves(t, step, job[t])
    BY <1>1, <1>s DEF BumpDirty, Resume, Goto, Moves
  <2>2. dirty' \in 0..(FlushThreshold - 1)
    BY <1>0, <1>1, GlossaryAssumption DEF BumpDirty, TypeOK
  <2>3. UNCHANGED <<gl, disk, inbox, staged, historyVars>>
    BY <1>1 DEF BumpDirty
  <2>4. inbox' \in Seq(Tasks)
    BY <1>0, <2>3 DEF TypeOK
  <2> QED
    BY <1>0, <2>1, <2>2, <2>3, <2>4, QuietStep DEF Steps
<1>2. CASE FlushAll(t)
  <2>1. Moves(t, "flush", job[t]) /\ UNCHANGED <<gl, disk, dirty, inbox, staged, historyVars>>
    BY <1>2, <1>s DEF FlushAll, Goto, Moves
  <2>2. inbox' \in Seq(Tasks) /\ dirty' \in 0..(FlushThreshold - 1)
    BY <1>0, <2>1 DEF TypeOK
  <2> QED
    BY <1>0, <2>1, <2>2, QuietStep DEF Steps
<1>3. CASE StageFlush(t)
  <2>1. /\ Moves(t, "rename", job[t]) /\ staged' = [staged EXCEPT ![t] = gl]
        /\ UNCHANGED <<gl, disk, dirty, inbox, historyVars>>
    BY <1>3, <1>s DEF StageFlush, Goto, Moves
  <2>2. inbox' \in Seq(Tasks) /\ dirty' \in 0..(FlushThreshold - 1) /\ gl \in Tables
    BY <1>0, <2>1 DEF TypeOK, Tables
  <2> QED
    BY <1>0, <2>1, <2>2, QuietStep DEF Steps
<1>4. CASE FailFlush(t)
  <2>1. /\ staged' = [staged EXCEPT ![t] = NoRow] /\ UNCHANGED <<gl, disk, dirty, inbox, historyVars>>
    BY <1>4 DEF FailFlush
  <2>2. PICK step \in {"idle", "offer"}, mine \in {job[t], NoJob} : Moves(t, step, mine)
    BY <1>4, <1>s DEF FailFlush, Goto, Moves
  <2>3. mine \in Jobs /\ JobSound(t, mine)
    BY <1>0, NoJobType DEF JobSound
  <2>4. inbox' \in Seq(Tasks) /\ dirty' \in 0..(FlushThreshold - 1)
    BY <1>0, <2>1 DEF TypeOK
  <2> QED
    BY <1>0, <2>1, <2>2, <2>3, <2>4, QuietStep DEF Steps
<1> QED
  BY <1>1, <1>2, <1>3, <1>4

\* The file becomes the index, and owes what the index owes.
LEMMA CommitStep ==
    ASSUME IInv, NEW t \in Actors, CommitFlush(t)
    PROVE  IInv'
<1>0. TypeOK /\ job[t] \in Jobs /\ JobSound(t, job[t])
  BY JobsSound DEF IInv
<1>1. /\ pc[t] = "rename" /\ disk' = staged[t] /\ saved' = pledge
      /\ staged' = [staged EXCEPT ![t] = NoRow] /\ UNCHANGED <<gl, dirty, inbox, job, pledge>>
  BY DEF CommitFlush
<1>2. disk' = gl
  BY <1>1 DEF IInv, StagedIsCurrent
<1>3. PICK step \in {"idle", "offer"} : Moves(t, step, job[t])
  BY <1>0, <1>1 DEF CommitFlush, Resume, Goto, Moves, TypeOK
<1>4. /\ pc' \in [Actors -> Steps] /\ job' \in [Actors -> Jobs]
      /\ pc'[t] = step /\ \A u \in Actors \ {t} : pc'[u] = pc[u]
      /\ RefusedIsEmpty' /\ ImportAccounted'
  BY <1>0, <1>3, MoveKeepsJobs DEF Steps
<1>5. TypeOK'
  BY <1>0, <1>1, <1>2, <1>4 DEF TypeOK, Steps
<1>6. StagedIsCurrent'
  BY <1>0, <1>1, <1>4 DEF IInv, StagedIsCurrent, TypeOK
<1>7. LocksKept(gl, pledge)' /\ LocksKept(disk, saved)'
  BY <1>1, <1>2 DEF IInv, LocksKept
<1>8. OffersKept(gl, pledge)' /\ OffersKept(disk, saved)'
  BY <1>1, <1>2 DEF IInv, OffersKept
<1> QED
  BY <1>4, <1>5, <1>6, <1>7, <1>8 DEF IInv

LEMMA RestartStep ==
    ASSUME IInv, Restart
    PROVE  IInv'
<1>1. TypeOK'
  <2>1. job' \in [Actors -> Jobs] /\ dirty' \in 0..(FlushThreshold - 1) /\ inbox' \in Seq(Tasks)
    BY NoJobType, GlossaryAssumption, EmptySeq DEF Restart
  <2> QED
    BY <2>1 DEF IInv, Restart, TypeOK
<1>2. StagedIsCurrent' /\ RefusedIsEmpty' /\ ImportAccounted'
  BY NoJobType DEF Restart, StagedIsCurrent, RefusedIsEmpty, ImportAccounted, Actors
<1>3. /\ LocksKept(gl, pledge)' /\ LocksKept(disk, saved)'
      /\ OffersKept(gl, pledge)' /\ OffersKept(disk, saved)'
  BY DEF IInv, Restart, LocksKept, OffersKept
<1> QED
  BY <1>1, <1>2, <1>3 DEF IInv

\* The inbox takes a task.
LEMMA SubmitStep ==
    ASSUME IInv, NEW task \in Tasks, Submit(task)
    PROVE  IInv'
<1>1. TypeOK'
  BY DEF IInv, Submit, TypeOK, threadVars, historyVars
<1>2. StagedIsCurrent' /\ RefusedIsEmpty' /\ ImportAccounted'
  BY DEF IInv, Submit, StagedIsCurrent, RefusedIsEmpty, ImportAccounted, threadVars
<1>3. /\ LocksKept(gl, pledge)' /\ LocksKept(disk, saved)'
      /\ OffersKept(gl, pledge)' /\ OffersKept(disk, saved)'
  BY DEF IInv, Submit, LocksKept, OffersKept, historyVars
<1> QED
  BY <1>1, <1>2, <1>3 DEF IInv

LEMMA Inductive == IInv /\ [Next]_vars => IInv'
<1> SUFFICES ASSUME IInv, [Next]_vars PROVE IInv'
  OBVIOUS
<1>1. Callers \subseteq Actors /\ Worker \in Actors
  BY DEF Actors
<1>2. ASSUME NEW t \in Callers, \E e \in Edits, lock \in {"on", "off", "keep"} : Edit(t, e, lock)
      PROVE  IInv'
  BY <1>1, <1>2, EditStep
<1>3. ASSUME NEW t \in Callers, \E k \in Keys : Delete(t, k) PROVE IInv'
  BY <1>1, <1>3, DeleteStep
<1>4. ASSUME NEW t \in Callers, \E pack \in Packs : BeginImport(t, pack) PROVE IInv'
  BY <1>1, <1>4, JobSteps
<1>5. ASSUME NEW t \in Callers, FlushAll(t) PROVE IInv'
  BY <1>1, <1>5, FlushSteps
<1>6. ASSUME NEW task \in Tasks, Submit(task) PROVE IInv'
  BY <1>6, SubmitStep
<1>7. CASE TakeTask \/ HoldBack
  BY <1>1, <1>7, JobSteps
<1>8. ASSUME NEW t \in Actors, OfferRow(t) PROVE IInv'
  BY <1>8, OfferStep
<1>9. ASSUME NEW t \in Actors, EndJob(t) PROVE IInv'
  BY <1>9, JobSteps
<1>10. ASSUME NEW t \in Actors, BumpDirty(t) \/ StageFlush(t) \/ FailFlush(t) PROVE IInv'
  BY <1>10, FlushSteps
<1>11. ASSUME NEW t \in Actors, CommitFlush(t) PROVE IInv'
  BY <1>11, CommitStep
<1>12. CASE Restart
  BY <1>12, RestartStep
<1>13. CASE UNCHANGED vars
  <2>1. UNCHANGED <<gl, disk, dirty, inbox, pc, job, staged, pledge, saved>>
    BY <1>13 DEF vars, threadVars, historyVars
  <2>2. TypeOK' /\ StagedIsCurrent' /\ RefusedIsEmpty' /\ ImportAccounted'
    BY <2>1 DEF IInv, TypeOK, StagedIsCurrent, RefusedIsEmpty, ImportAccounted
  <2>3. /\ LocksKept(gl, pledge)' /\ LocksKept(disk, saved)'
        /\ OffersKept(gl, pledge)' /\ OffersKept(disk, saved)'
    BY <2>1 DEF IInv, LocksKept, OffersKept
  <2> QED
    BY <2>2, <2>3 DEF IInv
<1> QED
  BY <1>2, <1>3, <1>4, <1>5, <1>6, <1>7, <1>8, <1>9, <1>10, <1>11, <1>12, <1>13 DEF Next

LEMMA Invariance == Spec => []IInv
BY Initially, Inductive, PTL DEF Spec

\* The state of the glossary keeps its types: every row in memory, in the file and in a staging
\* file is a row, and the counter stays below the threshold.
THEOREM TypeCorrect == Spec => []TypeOK
<1>1. IInv => TypeOK
  BY DEF IInv
<1> QED
  BY <1>1, Invariance, PTL

\* A term a person locked (glossary_upsert_manual) stays as typed through packs, distilled
\* terms, flushes and restarts.
THEOREM LocksHold == Spec => []LockedTermsHold
<1>1. IInv => LockedTermsHold
  BY DEF IInv, LocksKept, LockedTermsHold, Locked
<1> QED
  BY <1>1, Invariance, PTL

\* No pack and no task leaves a row below the best that machines have offered (glossary_upsert).
THEOREM MachinesOnlyImprove == Spec => []BestOfferKept
<1>1. IInv => BestOfferKept
  BY DEF IInv, OffersKept, BestOfferKept
<1> QED
  BY <1>1, Invariance, PTL

\* An import accounts for each row of its pack (glossary_import_pack).
THEOREM ImportsAccount == Spec => []ImportAccounted
<1>1. IInv => ImportAccounted
  BY DEF IInv
<1> QED
  BY <1>1, Invariance, PTL

-----------------------------------------------------------------------------
(* The glossary implements its contract: index and file are the contract's *)
(* table and file, and every critical section is a step of it or none.     *)

Contract == INSTANCE GlossaryContract WITH table <- gl, file <- disk

\* A machine's row that is put in place of another one is one the contract lets it put there.
LEMMA LearnedRow ==
    ASSUME gl \in Tables, NEW k \in Keys, NEW e \in Entries
    PROVE  Settled(k, e) = gl[k] \/ Contract!Raises(gl[k], Settled(k, e))
<1>1. CASE gl[k] = NoRow
  <2>1. Settled(k, e) = Row(e, e.source, FALSE)
    BY <1>1 DEF Settled
  <2>2. ~ Row(e, e.source, FALSE).locked
    BY DEF Row
  <2> QED
    BY <1>1, <2>1, <2>2 DEF Contract!Raises
<1>2. CASE gl[k] # NoRow /\ Outcome(k, e) # "written"
  BY <1>2 DEF Settled
<1>3. CASE gl[k] # NoRow /\ Outcome(k, e) = "written"
  <2>1. Settled(k, e) = [gl[k] EXCEPT !.target = e.target, !.confidence = e.confidence]
    BY <1>3 DEF Settled
  <2>2. gl[k] \in Rows
    BY <1>3 DEF Tables
  <2>3. ~ gl[k].locked /\ e.confidence > gl[k].confidence
    BY <1>3 DEF Outcome, Locked
  <2>4. /\ Settled(k, e).confidence = e.confidence
        /\ Settled(k, e).locked = gl[k].locked /\ Settled(k, e).source = gl[k].source
    BY <2>1, <2>2 DEF Rows
  <2> QED
    BY <2>3, <2>4 DEF Contract!Raises
<1> QED
  BY <1>1, <1>2, <1>3

LEMMA StepKeepsContract == IInv /\ [Next]_vars => [Contract!Next]_(Contract!contractVars)
<1> SUFFICES ASSUME IInv, [Next]_vars PROVE Contract!Next \/ UNCHANGED <<gl, disk>>
  BY DEF Contract!contractVars
<1>0. gl \in Tables /\ Callers \subseteq Actors
  BY DEF IInv, TypeOK, Tables, Actors
<1>1. ASSUME NEW t \in Actors, OfferRow(t) PROVE Contract!Next \/ UNCHANGED <<gl, disk>>
  <2> DEFINE e == Head(job[t].rest)
             k == KeyOf(e)
  <2>1. e \in Entries
    BY <1>1, JobsSound, JobType, RestType DEF OfferRow
  <2>2. k \in Keys
    BY <2>1 DEF Entries, RawEntries, KeyOf, Keys
  <2>3. gl' = [gl EXCEPT ![k] = Settled(k, e)] /\ UNCHANGED disk
    BY <1>1 DEF OfferRow
  <2> HIDE DEF e, k
  <2>4. CASE Settled(k, e) = gl[k]
    BY <1>0, <2>2, <2>3, <2>4 DEF Tables
  <2>5. CASE Contract!Raises(gl[k], Settled(k, e))
    <3>1. Settled(k, e) \in Rows
      BY <1>0, <2>1, <2>2, SettledRow
    <3>2. Contract!Learn(k, Settled(k, e))
      BY <2>3, <2>5 DEF Contract!Learn
    <3> QED
      BY <2>2, <3>1, <3>2 DEF Contract!Next
  <2>6. Settled(k, e) = gl[k] \/ Contract!Raises(gl[k], Settled(k, e))
    <3>1. e \in Entries /\ k = KeyOf(e)
      BY <2>1 DEF k
    <3> QED
      BY <1>0, <2>2, <3>1, LearnedRow
  <2> QED
    BY <2>4, <2>5, <2>6
<1>2. ASSUME NEW t \in Callers, NEW e \in Edits, NEW lock \in {"on", "off", "keep"}, Edit(t, e, lock)
      PROVE  Contract!Next
  <2> DEFINE k == KeyOf(e)
             locked == IF lock = "keep" THEN Locked(k) ELSE lock = "on"
             row == Typed(e, locked)
  <2>1. e \in Entries /\ k \in Keys
    BY GlossaryAssumption DEF Entries, RawEntries, KeyOf, Keys
  <2>2. locked \in BOOLEAN
    <3>1. Locked(k) \in BOOLEAN
      BY <1>0, <2>1 DEF Locked, Tables, Rows
    <3> QED
      BY <3>1
  <2>3. gl' = [gl EXCEPT ![k] = row] /\ UNCHANGED disk
    BY <1>2 DEF Edit
  <2>4. row \in Rows /\ row.source = "manual"
    <3> HIDE DEF locked
    <3> QED
      BY <2>1, <2>2, EntryRow DEF Typed, Sources
  <2> HIDE DEF k, row
  <2>5. Contract!Type(k, row)
    BY <2>3, <2>4 DEF Contract!Type
  <2> QED
    BY <2>1, <2>4, <2>5 DEF Contract!Next
<1>3. ASSUME NEW t \in Callers, NEW k \in Keys, Delete(t, k) PROVE Contract!Next
  <2>1. Contract!Remove(k)
    BY <1>3 DEF Delete, Contract!Remove
  <2> QED
    BY <2>1 DEF Contract!Next
<1>4. ASSUME NEW t \in Actors, CommitFlush(t) PROVE Contract!Next
  <2>1. staged[t] = gl
    BY <1>4 DEF CommitFlush, IInv, StagedIsCurrent
  <2>2. Contract!Save
    BY <1>4, <2>1 DEF CommitFlush, Contract!Save
  <2> QED
    BY <2>2 DEF Contract!Next
<1>5. CASE Restart
  <2>1. Contract!Restart
    BY <1>5 DEF Restart, Contract!Restart
  <2> QED
    BY <2>1 DEF Contract!Next
<1>6. ASSUME NEW t \in Actors,
             \/ FlushAll(t) \/ EndJob(t) \/ BumpDirty(t) \/ StageFlush(t) \/ FailFlush(t)
             \/ \E pack \in Packs : BeginImport(t, pack)
      PROVE  UNCHANGED <<gl, disk>>
  BY <1>6 DEF FlushAll, EndJob, BumpDirty, StageFlush, FailFlush, BeginImport
<1>7. CASE TakeTask \/ HoldBack \/ \E task \in Tasks : Submit(task)
  BY <1>7 DEF TakeTask, HoldBack, Submit
<1>8. CASE UNCHANGED vars
  BY <1>8 DEF vars
<1> QED
  BY <1>0, <1>1, <1>2, <1>3, <1>4, <1>5, <1>6, <1>7, <1>8 DEF Next

\* The glossary keeps its contract whatever callers, imports, the worker, flushes and restarts
\* interleave: a machine only adds and raises rows and never lifts a lock or changes where a row
\* says it comes from, and the file is always the whole table of one moment.
THEOREM GlossaryKeepsContract == Spec => Contract!Spec
<1>1. Init => Contract!Init
  BY DEF Init, Contract!Init
<1> QED
  BY <1>1, Initially, Inductive, StepKeepsContract, PTL DEF Spec, Contract!Spec

-----------------------------------------------------------------------------
(* The walk of a listing.  A statement about every length of a walk is     *)
(* proved from the least length for which it fails.                        *)

LEMMA LeastOf ==
    ASSUME NEW S \in SUBSET Nat, S # {}
    PROVE  \E n \in S : \A m \in S : n <= m
<1> DEFINE R == {ss \in Nat \X Nat : ss[1] < ss[2]}
<1>1. IsWellFoundedOn(R, Nat)
  BY NatLessThanWellFounded DEF OpToRel
<1>2. \A x, y \in Nat : ~ (<<y, x>> \in R) => ~ (y < x)
  OBVIOUS
<1> HIDE DEF R
<1>3. PICK x \in S : \A y \in S : ~ (<<y, x>> \in R)
  BY <1>1, WFMin
<1>4. ASSUME NEW y \in S PROVE x <= y
  <2>1. x \in Nat /\ y \in Nat /\ ~ (<<y, x>> \in R)
    BY <1>3
  <2> QED
    BY <2>1, <1>2
<1> QED
  BY <1>4

NothingChosen == [term \in Terms |-> NoRow]

\* A walk of n rows: what is chosen after each of them.
Walked(walk, order, domain, n) ==
    walk = [m \in 0..n |-> IF m = 0 THEN NothingChosen
                           ELSE Chosen(walk[m - 1], order[m], domain)]

\* There is a walk of every length: a walk is one row longer than another.
LEMMA WalkExists ==
    ASSUME NEW order, NEW domain
    PROVE  \A n \in Nat : \E walk : Walked(walk, order, domain, n)
<1> DEFINE S == {n \in Nat : ~ \E walk : Walked(walk, order, domain, n)}
<1>1. SUFFICES ASSUME S # {} PROVE FALSE
  OBVIOUS
<1>2. PICK n \in S : \A m \in S : n <= m
  BY <1>1, LeastOf
<1>3. CASE n = 0
  <2> DEFINE walk == [m \in 0..0 |-> NothingChosen]
  <2>1. Walked(walk, order, domain, 0)
    BY DEF Walked
  <2> QED
    BY <1>3, <2>1
<1>4. CASE n # 0
  <2>1. n \in Nat /\ n - 1 \in Nat /\ n - 1 \notin S
    BY <1>2, <1>4
  <2>2. PICK walk : Walked(walk, order, domain, n - 1)
    BY <2>1
  <2> DEFINE longer == [m \in 0..n |-> IF m = n THEN Chosen(walk[n - 1], order[n], domain)
                                       ELSE walk[m]]
  <2>3. \A m \in 0..(n - 1) : longer[m] = walk[m]
    BY <2>1
  <2>4. longer[n] = Chosen(longer[n - 1], order[n], domain)
    BY <2>1, <2>3
  <2>5. \A m \in 0..(n - 1) : walk[m] = IF m = 0 THEN NothingChosen
                                        ELSE Chosen(walk[m - 1], order[m], domain)
    BY <2>2 DEF Walked
  <2>6. \A m \in 0..(n - 1) : longer[m] = IF m = 0 THEN NothingChosen
                                          ELSE Chosen(longer[m - 1], order[m], domain)
    BY <2>1, <2>3, <2>5
  <2>7. Walked(longer, order, domain, n)
    <3> HIDE DEF longer
    <3>1. \A m \in 0..n : longer[m] = IF m = 0 THEN NothingChosen
                                      ELSE Chosen(longer[m - 1], order[m], domain)
      BY <1>4, <2>1, <2>4, <2>6
    <3>2. longer = [m \in 0..n |-> longer[m]]
      BY DEF longer
    <3> QED
      BY <3>1, <3>2 DEF Walked
  <2> QED
    BY <2>1, <2>7
<1> QED
  BY <1>3, <1>4

\* What is listed is where the walk ends.
LEMMA ListedIsWalked ==
    ASSUME NEW order, Len(order) \in Nat, NEW domain
    PROVE  \E walk : Walked(walk, order, domain, Len(order))
                     /\ Listed(order, domain) = walk[Len(order)]
<1> DEFINE the == CHOOSE walk : walk = [m \in 0..Len(order) |->
                      IF m = 0 THEN NothingChosen ELSE Chosen(walk[m - 1], order[m], domain)]
<1>1. Walked(the, order, domain, Len(order))
  BY WalkExists DEF Walked
<1>2. Listed(order, domain) = the[Len(order)]
  BY DEF Listed, NothingChosen
<1> QED
  BY <1>1, <1>2

\* The best of the rows seen so far for a term and a request's domain.
Best(seen, term, domain) ==
    IF <<term, domain>> \in seen THEN <<term, domain>>
    ELSE IF <<term, Generic>> \in seen THEN <<term, Generic>> ELSE NoRow

\* A row the walk has not met makes the best of those seen the best of those and itself: two rows
\* of one term and one domain are the same row, so the tie on confidence never decides.
LEMMA ChosenIsBest ==
    ASSUME NEW seen \in SUBSET Keys, NEW k \in Keys \ seen, NEW domain \in Domains \cup {Generic},
           NEW chosen, chosen = [term \in Terms |-> Best(seen, term, domain)]
    PROVE  Chosen(chosen, k, domain) = [term \in Terms |-> Best(seen \cup {k}, term, domain)]
<1>1. /\ k = <<k[1], k[2]>> /\ k[1] \in Terms /\ k[2] \in Domains \cup {Generic}
      /\ k # NoRow /\ NoRow \notin seen
  BY GlossaryAssumption DEF Keys
<1>2. \A term \in Terms : term # k[1] => Best(seen \cup {k}, term, domain) = Best(seen, term, domain)
  BY <1>1 DEF Best
<1>3. CASE k[2] \notin {Generic, domain}
  <2>1. Best(seen \cup {k}, k[1], domain) = Best(seen, k[1], domain)
    BY <1>1, <1>3 DEF Best
  <2> QED
    BY <1>2, <1>3, <2>1 DEF Chosen
<1>4. CASE k[2] \in {Generic, domain}
  <2> DEFINE prev == chosen[k[1]]
  <2>0. prev = Best(seen, k[1], domain)
    BY <1>1
  <2>1. CASE k[2] = Generic /\ domain # Generic /\ <<k[1], domain>> \in seen
    <3>1. prev = <<k[1], domain>> /\ prev # NoRow
      BY <1>1, <2>0, <2>1 DEF Best
    <3>2. ~ Takes(prev, k, domain)
      BY <2>1, <3>1 DEF Takes
    <3>3. Best(seen \cup {k}, k[1], domain) = Best(seen, k[1], domain)
      BY <2>1 DEF Best
    <3> QED
      BY <1>2, <3>2, <3>3 DEF Chosen
  <2>2. CASE ~ (k[2] = Generic /\ domain # Generic /\ <<k[1], domain>> \in seen)
    <3>1. k = <<k[1], domain>> \/ <<k[1], domain>> \notin seen
      BY <1>1, <1>4, <2>2
    <3>2. <<k[1], domain>> \notin seen
      BY <1>1, <3>1
    <3>3. Best(seen \cup {k}, k[1], domain) = k
      BY <1>1, <1>4, <3>2 DEF Best
    <3>4. prev = NoRow \/ (prev = <<k[1], Generic>> /\ prev \in seen)
      BY <2>0, <3>2 DEF Best
    <3>5. Takes(prev, k, domain)
      BY <1>1, <1>4, <3>4 DEF Takes
    <3>6. Chosen(chosen, k, domain) = [chosen EXCEPT ![k[1]] = k]
      BY <1>4, <3>5 DEF Chosen
    <3>7. \A term \in Terms : [chosen EXCEPT ![k[1]] = k][term] = Best(seen \cup {k}, term, domain)
      BY <1>1, <1>2, <3>3
    <3> QED
      BY <3>6, <3>7
  <2> QED
    BY <2>1, <2>2
<1> QED
  BY <1>3, <1>4

Met(order, n) == {order[i] : i \in 1..n}

\* After each row of a walk that meets every row once, the best of those met is chosen.
LEMMA WalkKeepsBest ==
    ASSUME NEW N \in Nat, NEW order \in [1..N -> Keys],
           \A i, j \in 1..N : i # j => order[i] # order[j],
           NEW domain \in Domains \cup {Generic},
           NEW walk, Walked(walk, order, domain, N)
    PROVE  \A n \in 0..N :
              walk[n] = [term \in Terms |-> Best(Met(order, n), term, domain)]
<1> DEFINE Good(n) == walk[n] = [term \in Terms |-> Best(Met(order, n), term, domain)]
           S == {n \in 0..N : ~ Good(n)}
<1>1. SUFFICES ASSUME S # {} PROVE FALSE
  OBVIOUS
<1>0. S \in SUBSET Nat
  OBVIOUS
<1>2. PICK n \in S : \A m \in S : n <= m
  <2> HIDE DEF S
  <2> QED
    BY <1>0, <1>1, LeastOf
<1>3. CASE n = 0
  <2>1. walk[0] = NothingChosen
    BY DEF Walked
  <2>2. Met(order, 0) = {}
    BY DEF Met
  <2> QED
    BY <1>2, <1>3, <2>1, <2>2 DEF NothingChosen, Best
<1>4. CASE n # 0
  <2>1. n \in 1..N /\ n - 1 \in 0..N /\ n - 1 \notin S
    <3>1. n \in 0..N /\ n - 1 < n
      OBVIOUS
    <3>2. ~ (n <= n - 1)
      BY <3>1
    <3> HIDE DEF S
    <3> QED
      BY <1>2, <1>4, <3>1, <3>2
  <2>2. Good(n - 1)
    BY <2>1
  <2>3. walk[n] = Chosen(walk[n - 1], order[n], domain)
    BY <1>4, <2>1 DEF Walked
  <2> DEFINE seen == Met(order, n - 1)
             k == order[n]
             chosen == walk[n - 1]
  <2>4. Met(order, n) = seen \cup {k}
    BY <2>1 DEF Met
  <2>5. k \in Keys \ seen /\ seen \in SUBSET Keys
    BY <2>1 DEF Met
  <2>6. chosen = [term \in Terms |-> Best(seen, term, domain)]
    BY <2>2
  <2> HIDE DEF seen, k, chosen
  <2>7. Chosen(chosen, k, domain) = [term \in Terms |-> Best(seen \cup {k}, term, domain)]
    BY <2>5, <2>6, ChosenIsBest
  <2> QED
    BY <1>2, <2>3, <2>4, <2>7 DEF k, chosen
<1> QED
  BY <1>3, <1>4

\* An order of a finite set meets every member of it.
LEMMA OrderMeetsAll ==
    ASSUME NEW S, IsFiniteSet(S), NEW order \in SetToSeqs(S)
    PROVE  /\ Cardinality(S) \in Nat /\ order \in [1..Cardinality(S) -> S]
           /\ Len(order) = Cardinality(S)
           /\ \A i, j \in 1..Len(order) : i # j => order[i] # order[j]
           /\ {order[i] : i \in 1..Len(order)} = S
<1> DEFINE D == 1..Cardinality(S)
<1>1. Cardinality(S) \in Nat
  BY FS_CardinalityType
<1>2. order \in [D -> S] /\ \A i, j \in D : i # j => order[i] # order[j]
  BY DEF SetToSeqs
<1>3. Len(order) = Cardinality(S)
  BY <1>1, <1>2
<1>4. IsFiniteSet(D) /\ Cardinality(D) = Cardinality(S)
  BY <1>1, FS_Interval
<1>5. order \in Injection(D, S)
  BY <1>2 DEF Injection, IsInjective
<1>6. order \in Surjection(D, S)
  BY <1>4, <1>5, FS_Injection
<1>7. {order[i] : i \in D} = S
  BY <1>2, <1>6 DEF Surjection
<1> QED
  BY <1>1, <1>2, <1>3, <1>7

LEMMA KeysAreFinite == IsFiniteSet(Keys)
<1>1. IsFiniteSet(Domains \cup {Generic})
  BY GlossaryAssumption, FS_AddElement
<1> QED
  BY <1>1, GlossaryAssumption, FS_Product DEF Keys

\* Whatever the table holds and in whatever order it is walked, a listing shows the row of the
\* requested domain, else the generic one, else none (glossary_records).
THEOREM ListingsIgnoreOrder == Spec => []ListingIgnoresOrder
<1> DEFINE present == {k \in Keys : gl[k] # NoRow}
<1>1. ASSUME NEW domain \in Domains \cup {Generic}, NEW order \in SetToSeqs(present),
             NEW term \in Terms
      PROVE  Listed(order, domain)[term] = Best(present, term, domain)
  <2>1. IsFiniteSet(present)
    BY KeysAreFinite, FS_Subset
  <2> DEFINE N == Cardinality(present)
  <2>2. /\ N \in Nat /\ order \in [1..N -> present] /\ Len(order) = N
        /\ \A i, j \in 1..N : i # j => order[i] # order[j]
        /\ {order[i] : i \in 1..N} = present
    BY <2>1, OrderMeetsAll
  <2>3. order \in [1..N -> Keys]
    BY <2>2
  <2> HIDE DEF present, N
  <2>4. PICK walk : Walked(walk, order, domain, N) /\ Listed(order, domain) = walk[N]
    BY <2>2, ListedIsWalked
  <2>5. N \in 0..N
    BY <2>2
  <2>6. walk[N] = [t \in Terms |-> Best(Met(order, N), t, domain)]
    <3>1. \A i, j \in 1..N : i # j => order[i] # order[j]
      BY <2>2
    <3>2. N \in Nat /\ Walked(walk, order, domain, N)
      BY <2>2, <2>4
    <3>3. \A n \in 0..N : walk[n] = [t \in Terms |-> Best(Met(order, n), t, domain)]
      BY <2>3, <3>1, <3>2, WalkKeepsBest
    <3> QED
      BY <2>5, <3>3
  <2>7. Met(order, N) = present
    BY <2>2 DEF Met
  <2> QED
    BY <2>4, <2>6, <2>7
<1>2. ListingIgnoresOrder
  BY <1>1 DEF ListingIgnoresOrder, Best
<1> QED
  BY <1>2, PTL
=============================================================================

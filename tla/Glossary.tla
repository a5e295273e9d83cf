------------------------------ MODULE Glossary ------------------------------
(***************************************************************************)
(* The glossary of one engine process (tm/store.rs, glossary.rs,           *)
(* distill/mod.rs): terms a person types and may lock, seed packs imported *)
(* row by row, and terms the distillation worker extracts from translated  *)
(* text.  As in the translation memory, a step is one critical section:    *)
(* the index behind its RwLock, the dirty counter behind its mutex, and a  *)
(* flush that keeps the read guard until the file is replaced.             *)
(* Frequencies are left out: nothing branches on them.                     *)
(***************************************************************************)
EXTENDS Naturals, FiniteSets, SequencesExt

CONSTANTS
    Callers,         \* threads of the C interface
    Worker,          \* the distillation thread
    Terms,           \* lowercased source terms of one language pair
    Domains,         \* the domains rows may belong to, apart from Generic
    Generic,         \* the empty domain
    NoRow,
    Edits,           \* what a person types: [term, domain, target, confidence, source]
    Packs,           \* seed packs: sequences of entries, target NoRow where it is empty
    Tasks,           \* what the extractor finds in a text: sequences of entries
    MinConfidence,   \* distill_min_conf
    FlushThreshold,  \* FLUSH_THRESHOLD
    MaxInbox         \* bound: tasks waiting for the worker

Actors == Callers \cup {Worker}
Keys == Terms \X (Domains \cup {Generic})

\* What writes bring, with and without a target, and what the index keeps of it.
Sources == {"manual", "seed", "distill"}
RawEntries == [term : Terms, domain : Domains \cup {Generic}, target : STRING \cup {NoRow},
               confidence : Nat, source : Sources]
Entries == {e \in RawEntries : e.target # NoRow}
Rows == [target : STRING, confidence : Nat, source : Sources, locked : BOOLEAN]

ASSUME GlossaryAssumption ==
    /\ Worker \notin Callers /\ Generic \notin Domains
    /\ IsFiniteSet(Terms) /\ IsFiniteSet(Domains)
    /\ FlushThreshold \in Nat \ {0} /\ {MinConfidence, MaxInbox} \subseteq Nat
    /\ \A e \in Edits : e \in Entries
    /\ \A pack \in Packs : pack \in Seq(RawEntries)
    /\ \A task \in Tasks : task \in Seq(RawEntries) /\ \A i \in DOMAIN task : task[i] \in Entries
    /\ NoRow \notin Rows /\ NoRow \notin Keys

VARIABLES
    gl,      \* gl_index
    disk,    \* translator_glossary.json
    dirty,   \* gl_dirty
    inbox,   \* the unbounded channel to the worker
    pc,      \* where each thread stands between two critical sections
    job,     \* the rows a machine write still has to offer, and its account of them
    staged,  \* the staging file a flushing thread is about to rename
    pledge,  \* history: what each row owes to the writes it took
    saved    \* history: the pledge of the file

threadVars == <<pc, job, staged>>
historyVars == <<pledge, saved>>
vars == <<gl, disk, dirty, inbox, threadVars, historyVars>>

NoReport == [written |-> 0, locked |-> 0, not_higher |-> 0]
NoJob == [rest |-> <<>>, rows |-> 0, report |-> NoReport, status |-> "none"]

\* A row nobody has any claim on.
NoPledge == [wish |-> NoRow, best |-> 0]

Goto(t, step) == pc' = [pc EXCEPT ![t] = step]
KeyOf(e) == <<e.term, e.domain>>
Row(e, source, locked) ==
    [target |-> e.target, confidence |-> e.confidence, source |-> source, locked |-> locked]

\* Fault: a flush gives the read guard back before the rename.
NoWriteLock == TRUE

WriteLock == \A t \in Actors : pc[t] # "rename"

-----------------------------------------------------------------------------
Locked(k) == gl[k] # NoRow /\ gl[k].locked

\* What glossary_upsert does with a machine's entry.
Outcome(k, e) ==
    CASE gl[k] = NoRow                     -> "written"
      [] Locked(k)                         -> "locked"
      [] ~Locked(k) /\ gl[k] # NoRow       ->
            IF e.confidence > gl[k].confidence THEN "written" ELSE "not_higher"

\* Fault: of two machines the last one wins.
SettledLastWins(k, e) == IF Locked(k) THEN gl[k] ELSE Row(e, e.source, FALSE)

\* A newcomer that wins brings its term and its confidence, and leaves the source.
Settled(k, e) ==
    IF gl[k] = NoRow THEN Row(e, e.source, FALSE)
    ELSE IF Outcome(k, e) = "written"
         THEN [gl[k] EXCEPT !.target = e.target, !.confidence = e.confidence]
         ELSE gl[k]

Counted(report, outcome) == [report EXCEPT ![outcome] = @ + 1]

\* The next row of a pack, or pair of a task that reaches the bar; a refusal by a lock
\* dirties nothing.
OfferRow(t) ==
    LET e == Head(job[t].rest)
        k == KeyOf(e)
        outcome == Outcome(k, e)
    IN  /\ pc[t] = "offer" /\ job[t].rest # <<>> /\ WriteLock
        /\ t = Worker => e.confidence >= MinConfidence
        /\ gl' = [gl EXCEPT ![k] = Settled(k, e)]
        /\ job' = [job EXCEPT ![t].rest = Tail(@), ![t].report = Counted(@, outcome)]
        /\ Goto(t, IF outcome = "locked" THEN "offer" ELSE "dirty")
        /\ pledge' = IF outcome = "locked" THEN pledge
                     ELSE [pledge EXCEPT ![k].best = IF e.confidence > @ THEN e.confidence ELSE @]
        /\ UNCHANGED <<disk, dirty, inbox, staged, saved>>

\* The last row was offered: an import answers, the worker waits for its next task.
EndJob(t) ==
    /\ pc[t] = "offer" /\ job[t].rest = <<>>
    /\ job' = [job EXCEPT ![t] = NoJob]
    /\ Goto(t, "idle")
    /\ UNCHANGED <<gl, disk, dirty, inbox, staged, historyVars>>

Valid(pack) == \A i \in DOMAIN pack : pack[i].target # NoRow

\* Fault: the rows before the invalid one have been written when it is found.
StagedRowByRow(pack) == SelectSeq(pack, LAMBDA e : e.target # NoRow)

\* The whole pack is checked before the first row is written.
Staged(pack) == IF Valid(pack) THEN pack ELSE <<>>

\* glossary_import_pack.
BeginImport(t, pack) ==
    /\ pc[t] = "idle"
    /\ job' = [job EXCEPT ![t] = [NoJob EXCEPT
                 !.rest = Staged(pack), !.rows = Len(pack),
                 !.status = IF Valid(pack) THEN "ok" ELSE "invalid"]]
    /\ Goto(t, "offer")
    /\ UNCHANGED <<gl, disk, dirty, inbox, staged, historyVars>>

\* submit: an upgraded translation leaves a task, and nobody waits for it.
Submit(task) ==
    /\ Len(inbox) < MaxInbox
    /\ inbox' = Append(inbox, task)
    /\ UNCHANGED <<gl, disk, dirty, threadVars, historyVars>>

\* The worker takes a task ...
TakeTask ==
    /\ pc[Worker] = "idle" /\ inbox # <<>>
    /\ inbox' = Tail(inbox)
    /\ job' = [job EXCEPT ![Worker] = [NoJob EXCEPT !.rest = Head(inbox)]]
    /\ Goto(Worker, "offer")
    /\ UNCHANGED <<gl, disk, dirty, staged, historyVars>>

\* ... and passes over the pairs below the bar.
HoldBack ==
    /\ pc[Worker] = "offer" /\ job[Worker].rest # <<>>
    /\ Head(job[Worker].rest).confidence < MinConfidence
    /\ job' = [job EXCEPT ![Worker].rest = Tail(@)]
    /\ UNCHANGED <<gl, disk, dirty, inbox, pc, staged, historyVars>>

-----------------------------------------------------------------------------
\* Provenance is stamped where the person's edit lands, whatever the payload claims.
Typed(e, locked) == Row(e, "manual", locked)

\* glossary_upsert_manual: an edit always lands; the lock moves only if the caller says so.
Edit(t, e, lock) ==
    LET k == KeyOf(e)
        locked == IF lock = "keep" THEN Locked(k) ELSE lock = "on"
    IN  /\ pc[t] = "idle" /\ WriteLock
        /\ gl' = [gl EXCEPT ![k] = Typed(e, locked)]
        /\ pledge' = [pledge EXCEPT ![k] =
                        [NoPledge EXCEPT !.wish = IF locked THEN e.target ELSE NoRow]]
        /\ Goto(t, "dirty")
        /\ UNCHANGED <<disk, dirty, inbox, job, staged, saved>>

\* glossary_delete by the full key; a key without a row dirties nothing.
Delete(t, k) ==
    /\ pc[t] = "idle" /\ WriteLock
    /\ gl[k] # NoRow
    /\ gl' = [gl EXCEPT ![k] = NoRow]
    /\ pledge' = [pledge EXCEPT ![k] = NoPledge]
    /\ Goto(t, "dirty")
    /\ UNCHANGED <<disk, dirty, inbox, job, staged, saved>>

-----------------------------------------------------------------------------
\* Fault: of two rows of one term the better attested one is listed.
TakesSurer(prev, k, domain) == prev = NoRow \/ gl[k].confidence > gl[prev].confidence

\* glossary_records: whether a row replaces the one chosen for its term so far.
Takes(prev, k, domain) ==
    \/ prev = NoRow
    \/ k[2] # Generic /\ prev[2] = Generic
    \/ (k[2] = Generic) = (prev[2] = Generic) /\ gl[k].confidence > gl[prev].confidence

\* What the walk makes of the next row: only the generic domain and the requested one count.
Chosen(chosen, k, domain) ==
    IF k[2] \in {Generic, domain} /\ Takes(chosen[k[1]], k, domain)
    THEN [chosen EXCEPT ![k[1]] = k] ELSE chosen

\* The rows listed for a request's domain, when the index is walked in the given order.
Listed(order, domain) ==
    LET walk[n \in 0..Len(order)] ==
            IF n = 0 THEN [term \in Terms |-> NoRow] ELSE Chosen(walk[n - 1], order[n], domain)
    IN  walk[Len(order)]

-----------------------------------------------------------------------------
\* A thread in the middle of a pack or a task goes on with it.
Resume(t) == Goto(t, IF job[t] = NoJob THEN "idle" ELSE "offer")

\* Fault: the counter goes on after the flush it asked for.
BumpDirtyWithoutReset(t) ==
    /\ pc[t] = "dirty"
    /\ dirty' = dirty + 1
    /\ IF dirty + 1 >= FlushThreshold THEN Goto(t, "flush") ELSE Resume(t)
    /\ UNCHANGED <<gl, disk, inbox, job, staged, historyVars>>

\* bump_gl_dirty.
BumpDirty(t) ==
    /\ pc[t] = "dirty"
    /\ IF dirty + 1 >= FlushThreshold
       THEN dirty' = 0 /\ Goto(t, "flush")
       ELSE dirty' = dirty + 1 /\ Resume(t)
    /\ UNCHANGED <<gl, disk, inbox, job, staged, historyVars>>

\* flush_all, when the memory's own flush did not fail before it.
FlushAll(t) ==
    /\ pc[t] = "idle" /\ t # Worker
    /\ Goto(t, "flush")
    /\ UNCHANGED <<gl, disk, dirty, inbox, job, staged, historyVars>>

\* flush_glossary: the index as it stands goes into a staging file ...
StageFlush(t) ==
    /\ pc[t] = "flush"
    /\ staged' = [staged EXCEPT ![t] = gl]
    /\ Goto(t, "rename")
    /\ UNCHANGED <<gl, disk, dirty, inbox, job, historyVars>>

\* ... which replaces the file under the same read guard.
CommitFlush(t) ==
    /\ pc[t] = "rename"
    /\ disk' = staged[t]
    /\ saved' = pledge
    /\ staged' = [staged EXCEPT ![t] = NoRow]
    /\ Resume(t)
    /\ UNCHANGED <<gl, dirty, inbox, job, pledge>>

\* The write fails: an import ends there with an error, the worker goes on to the next pair.
FailFlush(t) ==
    /\ pc[t] = "rename"
    /\ staged' = [staged EXCEPT ![t] = NoRow]
    /\ IF t = Worker
       THEN Goto(t, "offer") /\ UNCHANGED job
       ELSE Goto(t, "idle") /\ job' = [job EXCEPT ![t] = NoJob]
    /\ UNCHANGED <<gl, disk, dirty, inbox, historyVars>>

\* The process ends at any step, with whatever the worker's inbox holds, and starts again.
Restart ==
    /\ gl' = disk /\ pledge' = saved
    /\ dirty' = 0 /\ inbox' = <<>>
    /\ pc' = [t \in Actors |-> "idle"]
    /\ job' = [t \in Actors |-> NoJob]
    /\ staged' = [t \in Actors |-> NoRow]
    /\ UNCHANGED <<disk, saved>>

Init ==
    /\ gl = [k \in Keys |-> NoRow] /\ disk = gl
    /\ pledge = [k \in Keys |-> NoPledge] /\ saved = pledge
    /\ dirty = 0 /\ inbox = <<>>
    /\ pc = [t \in Actors |-> "idle"]
    /\ job = [t \in Actors |-> NoJob]
    /\ staged = [t \in Actors |-> NoRow]

Next ==
    \/ \E t \in Callers :
          \/ \E e \in Edits, lock \in {"on", "off", "keep"} : Edit(t, e, lock)
          \/ \E k \in Keys : Delete(t, k)
          \/ \E pack \in Packs : BeginImport(t, pack)
          \/ FlushAll(t)
    \/ \E task \in Tasks : Submit(task)
    \/ TakeTask \/ HoldBack
    \/ \E t \in Actors :
          \/ OfferRow(t) \/ EndJob(t)
          \/ BumpDirty(t) \/ StageFlush(t) \/ CommitFlush(t) \/ FailFlush(t)
    \/ Restart

Spec == Init /\ [][Next]_vars

-----------------------------------------------------------------------------
Jobs == [rest : Seq(Entries), rows : Nat, report : [{"written", "locked", "not_higher"} -> Nat],
         status : {"none", "ok", "invalid"}]

Pledges == [wish : STRING \cup {NoRow}, best : Nat]

\* Each component of the state holds what the code can put in it.
TypeOK ==
    /\ gl \in [Keys -> Rows \cup {NoRow}]
    /\ disk \in [Keys -> Rows \cup {NoRow}]
    /\ dirty \in 0..(FlushThreshold - 1)
    /\ inbox \in Seq(Tasks)
    /\ pc \in [Actors -> {"idle", "offer", "dirty", "flush", "rename"}]
    /\ job \in [Actors -> Jobs]
    /\ staged \in [Actors -> [Keys -> Rows \cup {NoRow}] \cup {NoRow}]
    /\ pledge \in [Keys -> Pledges] /\ saved \in [Keys -> Pledges]

(***************************************************************************)
(* What a person typed and locked stays, and reads "manual": no pack, no   *)
(* distilled term and no flush or restart in between replaces it or lifts  *)
(* its lock, until a person edits or deletes the row ("a user_locked row   *)
(* never moves").  After a restart this is so of what the last completed   *)
(* flush saved.                                                            *)
(***************************************************************************)
LockedTermsHold ==
    \A k \in Keys :
        pledge[k].wish # NoRow =>
            Locked(k) /\ gl[k].target = pledge[k].wish /\ gl[k].source = "manual"

(***************************************************************************)
(* A machine never makes a row worse: it is at least as confident as the   *)
(* best entry any pack or task has offered it since a person last touched  *)
(* it, so equal newcomers cannot shuffle a table and the order of imports  *)
(* and tasks does not matter.                                              *)
(***************************************************************************)
BestOfferKept ==
    \A k \in Keys :
        pledge[k].best > 0 => gl[k] # NoRow /\ gl[k].confidence >= pledge[k].best

(***************************************************************************)
(* An import accounts for every row of its pack, however many edits, tasks *)
(* and flushes come in between: each is still to be offered, or was        *)
(* written, refused by a lock or not better than what was there; and a     *)
(* pack refused as invalid offers none of its rows.                        *)
(***************************************************************************)
ImportAccounted ==
    \A t \in Callers :
        LET r == job[t].report
            offered == r.written + r.locked + r.not_higher
        IN  /\ job[t].status = "ok" => offered + Len(job[t].rest) = job[t].rows
            /\ job[t].status = "invalid" => offered = 0

(***************************************************************************)
(* A listing shows, for each term, the row of the requested domain if      *)
(* there is one and the generic row otherwise, never another domain's, in  *)
(* whatever order the hash map is walked.                                  *)
(***************************************************************************)
ListingIgnoresOrder ==
    LET present == {k \in Keys : gl[k] # NoRow}
    IN  \A domain \in Domains \cup {Generic}, order \in SetToSeqs(present), term \in Terms :
            Listed(order, domain)[term] =
                IF <<term, domain>> \in present THEN <<term, domain>>
                ELSE IF <<term, Generic>> \in present THEN <<term, Generic>> ELSE NoRow

(***************************************************************************)
(* Violated.  lib.rs and the packs' documentation say every imported entry *)
(* carries the source tag of its pack, so that a reader can tell a shipped *)
(* row from another.  A row that wins over an existing one brings its term *)
(* and its confidence and keeps the source of the row it replaced.         *)
(***************************************************************************)
PackTargets == {e.target : e \in UNION {ToSet(pack) : pack \in Packs}}

SeedRowsReadSeed ==
    \A k \in Keys : gl[k] # NoRow /\ gl[k].target \in PackTargets => gl[k].source = "seed"
=============================================================================

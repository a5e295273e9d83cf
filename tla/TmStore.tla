------------------------------ MODULE TmStore ------------------------------
(***************************************************************************)
(* The translation memory of one engine process: the in-memory index       *)
(* (tm/store.rs), the LRU cache in front of it (tm/cache.rs, operators of  *)
(* TmCache) and the JSON file behind it.  Callers run on threads of their  *)
(* own.  The index sits behind a RwLock, the cache and the dirty counter   *)
(* behind a mutex each, and no operation holds two of them at once, so a   *)
(* step is one critical section and other threads run between two of them. *)
(* Only a flush keeps a guard across several steps: it holds the read      *)
(* guard while it serialises the index, writes the staging file and        *)
(* renames it into place.                                                  *)
(***************************************************************************)
EXTENDS TmCache

CONSTANTS
    Threads,         \* callers of the engine
    Candidates,      \* what engines produce: [text, quality]
    WarmupN,         \* tm_warmup_n
    FlushThreshold,  \* FLUSH_THRESHOLD
    MaxHits,         \* bound: hit counts
    MaxFailures      \* bound: flushes that fail between two that succeed

ASSUME StoreAssumption ==
    /\ Keys \subseteq Nat   \* their order settles hit-count ties
    /\ IsFiniteSet(Threads)
    /\ Candidates \subseteq [text : STRING, quality : Nat]
    /\ {WarmupN, MaxHits, MaxFailures} \subseteq Nat
    /\ FlushThreshold \in Nat \ {0}

VARIABLES
    tm,       \* tm_index: the records in memory
    cache,    \* TM_CACHE
    dirty,    \* tm_dirty
    disk,     \* translator_tm.json
    pc,       \* where each thread stands between two critical sections
    local,    \* the key and the row a thread carries from one to the next
    staged,   \* the staging file a flushing thread is about to rename
    unsaved,  \* history: index writes the file does not hold
    failed,   \* history: flushes that failed since one succeeded
    rejected  \* history: keys flagged in this process

threadVars  == <<pc, local, staged>>
historyVars == <<unsaved, failed, rejected>>
vars == <<tm, cache, dirty, disk, threadVars, historyVars>>

\* What the store promises, with the index as the table and the JSON file as the file.
Contract == INSTANCE TmContract WITH table <- tm, file <- disk

Rows    == Contract!Rows
Records == Contract!Records

ASSUME RowAssumption == NoRow \notin Rows /\ NoRow \notin Records /\ NoRow \notin Keys

Active(k) == Contract!Active(tm, k)

\* A write lock waits for every flush that holds the read guard.
Flushing(t) == pc[t] = "rename"

\* Fault: the flush clones the index and gives the read guard back before the rename.
NoWriteLock == TRUE

WriteLock == \A t \in Threads : ~Flushing(t)

Goto(t, step) == pc' = [pc EXCEPT ![t] = step]
Carry(t, k, row) == local' = [local EXCEPT ![t] = [key |-> k, row |-> row]]
Nothing == [key |-> NoRow, row |-> NoRow]
Return(t) == Goto(t, "idle") /\ local' = [local EXCEPT ![t] = Nothing]

-----------------------------------------------------------------------------
\* lookup: the cache answers, or the index does and the row is cached afterwards.
LookupCache(t, k) ==
    /\ pc[t] = "idle"
    /\ IF cache.map[k] # NoRow
       THEN cache' = Refresh(cache, k) /\ UNCHANGED <<pc, local>>
       ELSE Goto(t, "lookup") /\ Carry(t, k, NoRow) /\ UNCHANGED cache
    /\ UNCHANGED <<tm, dirty, disk, staged, historyVars>>

LookupIndex(t) ==
    LET k == local[t].key IN
    /\ pc[t] = "lookup"
    /\ IF Active(k)
       THEN Goto(t, "fill") /\ Carry(t, k, tm[k].row)
       ELSE Return(t)
    /\ UNCHANGED <<tm, cache, dirty, disk, staged, historyVars>>

\* The row goes into the cache: the end of a lookup ("fill") and of an upsert ("settle").
CacheRow(t) ==
    /\ pc[t] \in {"fill", "settle"}
    /\ cache' = Put(cache, local[t].key, local[t].row)
    /\ Return(t)
    /\ UNCHANGED <<tm, dirty, disk, staged, historyVars>>

\* Fault: the caller's row, not the kept one, goes on to the cache.
UpsertIndexIncoming(t, k, c) ==
    LET kept == Contract!Settled(tm, k, c) IN
    /\ pc[t] = "idle" /\ WriteLock
    /\ kept.hits <= MaxHits
    /\ tm' = [tm EXCEPT ![k] = [row |-> kept, flagged |-> FALSE]]
    /\ Goto(t, "dirty") /\ Carry(t, k, Contract!Fresh(c))
    /\ unsaved' = unsaved + 1
    /\ UNCHANGED <<cache, dirty, disk, staged, failed, rejected>>

\* tm_upsert: the quality rule under the write lock, then the dirty counter, then the cache.
UpsertIndex(t, k, c) ==
    LET kept == Contract!Settled(tm, k, c) IN
    /\ pc[t] = "idle" /\ WriteLock
    /\ kept.hits <= MaxHits
    /\ tm' = [tm EXCEPT ![k] = [row |-> kept, flagged |-> FALSE]]
    /\ Goto(t, "dirty") /\ Carry(t, k, kept)
    /\ unsaved' = unsaved + 1
    /\ UNCHANGED <<cache, dirty, disk, staged, failed, rejected>>

\* tm_increment_hit of a key the index knows, flagged or not.
HitIndex(t, k) ==
    /\ pc[t] = "idle" /\ WriteLock
    /\ tm[k] # NoRow
    /\ tm[k].row.hits < MaxHits
    /\ tm' = [tm EXCEPT ![k].row.hits = @ + 1]
    /\ Goto(t, "count") /\ Carry(t, k, NoRow)
    /\ unsaved' = unsaved + 1
    /\ UNCHANGED <<cache, dirty, disk, staged, failed, rejected>>

\* Fault: a hit count is not worth saving.
HitCacheUncounted(t) ==
    /\ pc[t] = "count"
    /\ cache' = BumpHits(cache, local[t].key)
    /\ Return(t)
    /\ UNCHANGED <<tm, dirty, disk, staged, historyVars>>

HitCache(t) ==
    /\ pc[t] = "count"
    /\ cache' = BumpHits(cache, local[t].key)
    /\ Goto(t, "dirty")
    /\ UNCHANGED <<tm, dirty, disk, local, staged, historyVars>>

\* tm_flag_bad: an unknown key changes nothing, yet drops the cache line and counts as dirty.
FlagIndex(t, k) ==
    /\ pc[t] = "idle" /\ WriteLock
    /\ IF tm[k] = NoRow
       THEN UNCHANGED <<tm, unsaved, rejected>>
       ELSE /\ tm' = [tm EXCEPT ![k].flagged = TRUE]
            /\ rejected' = rejected \cup {k}
            /\ unsaved' = unsaved + 1
    /\ Goto(t, "drop") /\ Carry(t, k, NoRow)
    /\ UNCHANGED <<cache, dirty, disk, staged, failed>>

FlagCache(t) ==
    /\ pc[t] = "drop"
    /\ cache' = Invalidate(cache, local[t].key)
    /\ Goto(t, "dirty")
    /\ UNCHANGED <<tm, dirty, disk, local, staged, historyVars>>

-----------------------------------------------------------------------------
\* What follows a write that reached the counter, or the flush it triggered.
Resume(t) ==
    IF local[t].row = NoRow THEN Return(t) ELSE Goto(t, "settle") /\ UNCHANGED local

\* Fault: the counter is left standing when it asks for a flush.
BumpDirtyWithoutReset(t) ==
    /\ pc[t] = "dirty"
    /\ dirty' = dirty + 1
    /\ IF dirty + 1 >= FlushThreshold THEN Goto(t, "flush") /\ UNCHANGED local ELSE Resume(t)
    /\ UNCHANGED <<tm, cache, disk, staged, historyVars>>

\* bump_tm_dirty: the counter is reset before the flush it asks for.
BumpDirty(t) ==
    /\ pc[t] = "dirty"
    /\ IF dirty + 1 >= FlushThreshold
       THEN dirty' = 0 /\ Goto(t, "flush") /\ UNCHANGED local
       ELSE dirty' = dirty + 1 /\ Resume(t)
    /\ UNCHANGED <<tm, cache, disk, staged, historyVars>>

\* tt_shutdown, and the MCP server's shutdown: flush whatever the counter says.
FlushAll(t) ==
    /\ pc[t] = "idle"
    /\ Goto(t, "flush")
    /\ UNCHANGED <<tm, cache, dirty, disk, local, staged, historyVars>>

\* flush_tm takes the read guard and serialises the index into a staging file ...
StageFlush(t) ==
    /\ pc[t] = "flush"
    /\ staged' = [staged EXCEPT ![t] = tm]
    /\ Goto(t, "rename")
    /\ UNCHANGED <<tm, cache, dirty, disk, local, historyVars>>

\* ... and renames it into place before it gives the guard back.
CommitFlush(t) ==
    /\ pc[t] = "rename"
    /\ disk' = staged[t]
    /\ unsaved' = 0 /\ failed' = 0
    /\ staged' = [staged EXCEPT ![t] = NoRow]
    /\ Resume(t)
    /\ UNCHANGED <<tm, cache, dirty, rejected>>

\* The write or the rename fails: the operation returns the error and does nothing more.
FailFlush(t) ==
    /\ pc[t] = "rename" /\ failed < MaxFailures
    /\ failed' = failed + 1
    /\ staged' = [staged EXCEPT ![t] = NoRow]
    /\ Return(t)
    /\ UNCHANGED <<tm, cache, dirty, disk, unsaved, rejected>>

-----------------------------------------------------------------------------
\* tm_top_by_hit: the unflagged rows, most used first, ties by source text.
Hotter(records, j, k) ==
    \/ records[j].row.hits > records[k].row.hits
    \/ records[j].row.hits = records[k].row.hits /\ j < k

Rankings(records) ==
    LET listed == {k \in Keys : Contract!Active(records, k)}
    IN  {ranked \in [1..Cardinality(listed) -> listed] :
            \A i, j \in DOMAIN ranked : i < j => Hotter(records, ranked[i], ranked[j])}

\* init: the cache warmed up with the WarmupN first of them.
Opened(records, ranked) ==
    LET top == SubSeq(ranked, 1, IF WarmupN < Len(ranked) THEN WarmupN ELSE Len(ranked))
    IN  WarmUp(top, [k \in Keys |-> records[k].row])

\* The process ends, at any step of any thread, and tm::init opens the file again.
Restart ==
    /\ tm' = disk
    /\ \E ranked \in Rankings(disk) : cache' = Opened(disk, ranked)
    /\ dirty' = 0
    /\ pc' = [t \in Threads |-> "idle"]
    /\ local' = [t \in Threads |-> Nothing]
    /\ staged' = [t \in Threads |-> NoRow]
    /\ unsaved' = 0 /\ failed' = 0 /\ rejected' = {}
    /\ UNCHANGED disk

Init ==
    /\ Contract!Init
    /\ cache = EmptyCache
    /\ dirty = 0
    /\ pc = [t \in Threads |-> "idle"]
    /\ local = [t \in Threads |-> Nothing]
    /\ staged = [t \in Threads |-> NoRow]
    /\ unsaved = 0 /\ failed = 0 /\ rejected = {}

Step(t) ==
    \/ \E k \in Keys :
          \/ LookupCache(t, k) \/ HitIndex(t, k) \/ FlagIndex(t, k)
          \/ \E c \in Candidates : UpsertIndex(t, k, c)
    \/ LookupIndex(t) \/ CacheRow(t) \/ HitCache(t) \/ FlagCache(t)
    \/ BumpDirty(t) \/ FlushAll(t)
    \/ StageFlush(t) \/ CommitFlush(t) \/ FailFlush(t)

Next == (\E t \in Threads : Step(t)) \/ Restart

Spec == Init /\ [][Next]_vars

-----------------------------------------------------------------------------
\* Each component of the state holds what the code can put in it.
MemoryTypeOK ==
    /\ tm \in [Keys -> Records \cup {NoRow}]
    /\ disk \in [Keys -> Records \cup {NoRow}]
    /\ cache \in [map : [Keys -> Rows \cup {NoRow}], order : Seq(Keys)]
    /\ dirty \in 0..(FlushThreshold - 1)
    /\ unsaved \in Nat /\ failed \in Nat
    /\ rejected \subseteq Keys

ThreadTypeOK ==
    /\ pc \in [Threads -> {"idle", "lookup", "fill", "dirty", "settle", "count",
                            "drop", "flush", "rename"}]
    /\ local \in [Threads -> [key : Keys \cup {NoRow}, row : Rows \cup {NoRow}]]
    /\ staged \in [Threads -> [Keys -> Records \cup {NoRow}] \cup {NoRow}]

TypeOK == MemoryTypeOK /\ ThreadTypeOK

(***************************************************************************)
(* The LRU's two structures agree through every interleaving of lookups,   *)
(* upserts, hit counts and rejections (cache.rs: touch, put, invalidate).  *)
(***************************************************************************)
CacheConsistent == Consistent(cache)

(***************************************************************************)
(* A row is at most as good as the one the index keeps for its key, and    *)
(* when it is as good it is the same translation: whatever lookups and     *)
(* upserts race, the cache is only ever behind the quality rule of         *)
(* tm_upsert, never ahead of it and never sideways to it.                  *)
(***************************************************************************)
NotAhead(row, k) ==
    /\ Active(k)
    /\ row.quality <= tm[k].row.quality
    /\ row.quality = tm[k].row.quality => row.text = tm[k].row.text

\* It holds of the cache, and of every row on its way there, until the key is
\* flagged: a rejected row makes room for any newcomer.
CacheNeverAhead ==
    /\ \A k \in Keys \ rejected : cache.map[k] # NoRow => NotAhead(cache.map[k], k)
    /\ \A t \in Threads : local[t].row # NoRow /\ local[t].key \notin rejected
                            => NotAhead(local[t].row, local[t].key)

(***************************************************************************)
(* What a crash can lose: less than FlushThreshold writes, plus the writes *)
(* still between the index and the counter, plus one threshold for every   *)
(* flush that was asked for and has not finished or has failed.  The       *)
(* counter is reset before the flush runs (bump_tm_dirty) and a failed     *)
(* flush is not retried, so this is all the dirty counter guarantees.      *)
(***************************************************************************)
Uncounted == {t \in Threads : pc[t] \in {"dirty", "count", "drop"}}
Unfinished == {t \in Threads : pc[t] \in {"flush", "rename"}}

LossBounded ==
    unsaved <= dirty + Cardinality(Uncounted)
                     + FlushThreshold * (Cardinality(Unfinished) + failed)

(***************************************************************************)
(* The store keeps its contract: every critical section is one step of the *)
(* sequential table or none, a flush writes the table as it stands when    *)
(* the file is replaced (so a slow flush never puts an older file over a   *)
(* newer one), and a restart finds the last file that was written whole.   *)
(***************************************************************************)
KeepsContract == Contract!Spec

(***************************************************************************)
(* With one caller at a time, what the cache answers is the row the index  *)
(* keeps: same text, quality and hit count, and never a flagged row        *)
(* (store.rs: "the quality rule the single source of both copies").        *)
(***************************************************************************)
AnswersMatchIndex ==
    (\A t \in Threads : pc[t] = "idle") =>
        \A k \in Cached(cache) : Active(k) /\ cache.map[k] = tm[k].row

(***************************************************************************)
(* Violated.  lib.rs says of tt_tm_flag_bad that the entry "stops being    *)
(* returned by lookups".  A lookup or an upsert that took the row before   *)
(* it was flagged caches it after the flag dropped the cache line, and     *)
(* from then on every lookup answers with the rejected translation.        *)
(***************************************************************************)
FlaggedRowsStopAnswering ==
    (\A t \in Threads : pc[t] = "idle") =>
        \A k \in Cached(cache) : ~tm[k].flagged
=============================================================================

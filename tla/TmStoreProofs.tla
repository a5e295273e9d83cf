--------------------------- MODULE TmStoreProofs ---------------------------
(***************************************************************************)
(* Proofs about TmStore, for any number of threads, texts and candidates,  *)
(* any cache size and any flush threshold.                                 *)
(***************************************************************************)
EXTENDS TmStore, FiniteSetTheorems, SequenceTheorems, TLAPS

CacheType == [map : [Keys -> Rows \cup {NoRow}], order : Seq(Keys)]

\* Taking a key out of a recency order leaves a recency order.
LEMMA ForgetType ==
    ASSUME NEW S, NEW order \in Seq(S), NEW k
    PROVE  Forget(order, k) \in Seq(S)
<1>1. CASE k \in ToSet(order)
  <2> DEFINE at == CHOOSE i \in DOMAIN order : order[i] = k
  <2>1. at \in 1..Len(order)
    BY <1>1 DEF ToSet
  <2> HIDE DEF at
  <2>2. RemoveAt(order, at) \in Seq(S)
    BY <2>1 DEF RemoveAt
  <2> QED
    BY <1>1, <2>2 DEF Forget, at
<1>2. CASE k \notin ToSet(order)
  BY <1>2 DEF Forget
<1> QED
  BY <1>1, <1>2

\* Every cache operation keeps the cache a map of rows and an order of keys.
LEMMA RefreshType ==
    ASSUME NEW c \in CacheType, NEW k \in Keys
    PROVE  Refresh(c, k) \in CacheType
<1>1. Touch(c.order, k) \in Seq(Keys)
  BY ForgetType DEF Touch, CacheType
<1> QED
  BY <1>1 DEF Refresh, CacheType

LEMMA PutType ==
    ASSUME NEW c \in CacheType, NEW k \in Keys, NEW row \in Rows
    PROVE  Put(c, k, row) \in CacheType
<1> DEFINE order == Touch(c.order, k)
           map   == [c.map EXCEPT ![k] = row]
<1>1. map \in [Keys -> Rows \cup {NoRow}]
  BY DEF CacheType
<1>2. order \in Seq(Keys) /\ order # <<>>
  BY ForgetType DEF Touch, CacheType
<1>3. Tail(order) \in Seq(Keys) /\ Head(order) \in Keys
  BY <1>2
<1> HIDE DEF map, order
<1>4. [map |-> [map EXCEPT ![Head(order)] = NoRow], order |-> Tail(order)] \in CacheType
  BY <1>1, <1>3 DEF CacheType
<1>5. [map |-> map, order |-> order] \in CacheType
  BY <1>1, <1>2 DEF CacheType
<1> QED
  BY <1>4, <1>5 DEF Put, map, order

LEMMA InvalidateType ==
    ASSUME NEW c \in CacheType, NEW k \in Keys
    PROVE  Invalidate(c, k) \in CacheType
BY ForgetType DEF Invalidate, CacheType

\* Counting a use changes the hit count and nothing else.
LEMMA CountedRow ==
    ASSUME NEW row \in Rows
    PROVE  /\ [row EXCEPT !.hits = @ + 1] \in Rows
           /\ [row EXCEPT !.hits = @ + 1].text = row.text
           /\ [row EXCEPT !.hits = @ + 1].quality = row.quality
BY DEF Rows, Contract!Rows

LEMMA RecordType == Records = [row : Rows, flagged : BOOLEAN]
BY DEF Records, Contract!Records, Rows

LEMMA CountedRecord ==
    ASSUME NEW record \in Records
    PROVE  [record EXCEPT !.row.hits = @ + 1] \in Records
<1>1. record.row \in Rows
  BY RecordType
<1> DEFINE counted == [record.row EXCEPT !.hits = @ + 1]
<1>2. counted \in Rows
  BY <1>1, CountedRow
<1>3. [record EXCEPT !.row.hits = @ + 1] = [record EXCEPT !.row = counted]
  BY RecordType
<1> HIDE DEF counted
<1> QED
  BY <1>2, <1>3, RecordType

LEMMA BumpHitsType ==
    ASSUME NEW c \in CacheType, NEW k \in Keys
    PROVE  BumpHits(c, k) \in CacheType
<1>1. CASE c.map[k] = NoRow
  BY <1>1 DEF BumpHits
<1>2. CASE c.map[k] # NoRow
  <2>1. c.map[k] \in Rows
    BY <1>2 DEF CacheType
  <2>2. [c.map[k] EXCEPT !.hits = @ + 1] \in Rows
    BY <2>1, CountedRow
  <2>3. BumpHits(c, k) = [c EXCEPT !.map = [@ EXCEPT ![k] = [c.map[k] EXCEPT !.hits = @ + 1]]]
    BY <1>2 DEF BumpHits, CacheType
  <2> QED
    BY <2>2, <2>3 DEF CacheType
<1> QED
  BY <1>1, <1>2

\* What init warms the cache with: rows of unflagged records.
LEMMA OpenedType ==
    ASSUME NEW records \in [Keys -> Records \cup {NoRow}],
           NEW ranked \in Rankings(records)
    PROVE  /\ Opened(records, ranked) \in CacheType
           /\ \A k \in Keys : Opened(records, ranked).map[k] # NoRow =>
                 /\ Contract!Active(records, k)
                 /\ Opened(records, ranked).map[k] = records[k].row
<1> DEFINE listed == {k \in Keys : Contract!Active(records, k)}
           top  == SubSeq(ranked, 1, IF WarmupN < Len(ranked) THEN WarmupN ELSE Len(ranked))
           from == IF Len(top) > Capacity THEN Len(top) - Capacity + 1 ELSE 1
           kept == SubSeq(top, from, Len(top))
           row  == [k \in Keys |-> records[k].row]
<1>1. IsFiniteSet(listed) /\ listed \subseteq Keys
  BY CacheAssumption, FS_Subset
<1>2. Cardinality(listed) \in Nat
  BY <1>1, FS_CardinalityType
<1>3. ranked \in [1..Cardinality(listed) -> listed]
  BY DEF Rankings
<1> HIDE DEF listed
<1>4. ranked \in Seq(listed)
  BY <1>2, <1>3
<1>5. WarmupN \in Nat
  BY StoreAssumption
<1>6. top \in Seq(listed)
  BY <1>4, <1>5
<1> HIDE DEF top
<1>7. from \in 1..(Len(top) + 1)
  BY <1>6, CacheAssumption
<1> HIDE DEF from
<1>8. kept \in Seq(listed)
  BY <1>6, <1>7
<1> HIDE DEF kept
<1>9. ToSet(kept) \subseteq listed
  BY <1>8 DEF ToSet
<1>10. \A k \in listed : Contract!Active(records, k) /\ records[k].row \in Rows
  BY DEF listed, Contract!Active, Records, Contract!Records, Rows
<1>11. Opened(records, ranked) =
         [map |-> [k \in Keys |-> IF k \in ToSet(kept) THEN row[k] ELSE NoRow], order |-> kept]
  BY DEF Opened, WarmUp, kept, from, top
<1> QED
  <2>1. kept \in Seq(Keys)
    BY <1>8, <1>1
  <2>2. \A k \in Keys : k \in ToSet(kept) => row[k] \in Rows
    BY <1>9, <1>10
  <2> QED
    BY <2>1, <2>2, <1>9, <1>10, <1>11 DEF CacheType

\* The quality rule yields a row.
LEMMA SettledType ==
    ASSUME NEW records \in [Keys -> Records \cup {NoRow}], NEW k \in Keys, NEW c \in Candidates
    PROVE  Contract!Settled(records, k, c) \in Rows
<1>1. Contract!Fresh(c) \in Rows
  BY DEF Rows, Contract!Rows, Contract!Fresh
<1>2. ASSUME Contract!Active(records, k) PROVE Contract!Merge(records[k].row, c) \in Rows
  <2>1. records[k].row \in Rows
    BY <1>2 DEF Contract!Active, Records, Contract!Records, Rows
  <2> QED
    BY <1>1, <2>1, CountedRow DEF Contract!Merge
<1> QED
  BY <1>1, <1>2 DEF Contract!Settled

-----------------------------------------------------------------------------
\* What a thread carries fits the step it stands at, and a staged file is the
\* index as it is now: the read guard keeps writers out until the rename.
Carrying ==
    \A t \in Threads :
        /\ pc[t] \in {"lookup", "fill", "settle", "count", "drop"} => local[t].key \in Keys
        /\ pc[t] \in {"fill", "settle"} => local[t].row \in Rows
        /\ local[t].row # NoRow => local[t].key \in Keys
        /\ pc[t] = "rename" => staged[t] = tm

TypeInv == TypeOK /\ Carrying

LEMMA TypeInit == Init => TypeInv
BY StoreAssumption DEF Init, TypeInv, TypeOK, MemoryTypeOK, ThreadTypeOK, Carrying,
   Contract!Init, EmptyCache, Nothing

\* One thread moves and perhaps carries something else: the others stay as they
\* were, and if the index changes none of them holds a staged file.
LEMMA ThreadMoves ==
    ASSUME TypeInv, UNCHANGED tm \/ WriteLock, NEW t \in Threads,
           NEW step \in {"idle", "lookup", "fill", "dirty", "settle", "count",
                         "drop", "flush", "rename"},
           NEW mine \in [key : Keys \cup {NoRow}, row : Rows \cup {NoRow}],
           NEW file \in [Keys -> Records \cup {NoRow}] \cup {NoRow},
           pc' = [pc EXCEPT ![t] = step],
           local' = [local EXCEPT ![t] = mine],
           staged' = [staged EXCEPT ![t] = file],
           step \in {"lookup", "fill", "settle", "count", "drop"} => mine.key \in Keys,
           step \in {"fill", "settle"} => mine.row \in Rows,
           mine.row # NoRow => mine.key \in Keys,
           step = "rename" => file = tm'
    PROVE  ThreadTypeOK' /\ Carrying'
<1>1. ThreadTypeOK'
  BY DEF TypeInv, TypeOK, ThreadTypeOK
<1>2. Carrying'
  BY DEF TypeInv, TypeOK, ThreadTypeOK, Carrying, WriteLock, Flushing
<1> QED
  BY <1>1, <1>2

LEMMA ThreadCarries ==
    ASSUME TypeInv, UNCHANGED tm \/ WriteLock, UNCHANGED staged, NEW t \in Threads,
           NEW step \in {"idle", "lookup", "fill", "dirty", "settle", "count",
                         "drop", "flush"},
           NEW k \in Keys, NEW row \in Rows \cup {NoRow},
           step \in {"fill", "settle"} => row \in Rows,
           Goto(t, step), Carry(t, k, row)
    PROVE  ThreadTypeOK' /\ Carrying'
<1> DEFINE mine == [key |-> k, row |-> row]
<1>1. mine \in [key : Keys \cup {NoRow}, row : Rows \cup {NoRow}] /\ mine.key = k /\ mine.row = row
  OBVIOUS
<1>2. pc' = [pc EXCEPT ![t] = step] /\ local' = [local EXCEPT ![t] = mine]
  BY DEF Goto, Carry
<1>3. /\ staged[t] \in [Keys -> Records \cup {NoRow}] \cup {NoRow}
      /\ staged' = [staged EXCEPT ![t] = staged[t]]
  BY DEF TypeInv, TypeOK, ThreadTypeOK
<1> HIDE DEF mine
<1> QED
  BY <1>1, <1>2, <1>3, ThreadMoves

\* An operation that returns carries nothing on.
LEMMA ThreadReturns ==
    ASSUME TypeInv, UNCHANGED tm, NEW t \in Threads, Return(t),
           UNCHANGED staged \/ staged' = [staged EXCEPT ![t] = NoRow]
    PROVE  ThreadTypeOK' /\ Carrying'
<1>1. Nothing \in [key : Keys \cup {NoRow}, row : Rows \cup {NoRow}] /\ Nothing.row = NoRow
  BY DEF Nothing
<1>2. PICK file \in [Keys -> Records \cup {NoRow}] \cup {NoRow} :
        staged' = [staged EXCEPT ![t] = file]
  BY DEF TypeInv, TypeOK, ThreadTypeOK
<1>3. pc' = [pc EXCEPT ![t] = "idle"] /\ local' = [local EXCEPT ![t] = Nothing]
  BY DEF Return, Goto
<1> QED
  BY <1>1, <1>2, <1>3, ThreadMoves

LEMMA TypeNext == TypeInv /\ [Next]_vars => TypeInv'
<1> SUFFICES ASSUME TypeInv, [Next]_vars PROVE TypeInv'
  OBVIOUS
<1>m. MemoryTypeOK /\ ThreadTypeOK /\ Carrying
  BY DEF TypeInv, TypeOK
<1>c. cache \in CacheType
  BY <1>m DEF MemoryTypeOK, CacheType
<1>s. SUFFICES MemoryTypeOK' /\ ThreadTypeOK' /\ Carrying'
  BY DEF TypeInv, TypeOK
<1>1. ASSUME NEW t \in Threads, NEW k \in Keys, LookupCache(t, k)
      PROVE  MemoryTypeOK' /\ ThreadTypeOK' /\ Carrying'
  <2>1. cache' \in CacheType
    BY <1>1, <1>c, RefreshType DEF LookupCache
  <2>2. MemoryTypeOK'
    BY <1>1, <1>m, <2>1 DEF LookupCache, MemoryTypeOK, CacheType, historyVars
  <2>3. CASE cache.map[k] # NoRow
    BY <1>1, <1>m, <2>2, <2>3 DEF LookupCache, ThreadTypeOK, Carrying
  <2>4. CASE cache.map[k] = NoRow
    BY <1>1, <2>2, <2>4, ThreadCarries DEF LookupCache
  <2> QED
    BY <2>2, <2>3, <2>4
<1>2. ASSUME NEW t \in Threads, LookupIndex(t)
      PROVE  MemoryTypeOK' /\ ThreadTypeOK' /\ Carrying'
  <2>1. MemoryTypeOK'
    BY <1>2, <1>m DEF LookupIndex, MemoryTypeOK, historyVars
  <2>2. CASE Active(local[t].key)
    <3>1. local[t].key \in Keys
      BY <1>2, <1>m DEF LookupIndex, Carrying
    <3>2. tm[local[t].key].row \in Rows
      BY <1>m, <2>2, <3>1, RecordType DEF MemoryTypeOK, Active, Contract!Active
    <3> QED
      BY <1>2, <2>2, <3>1, <3>2, <2>1, ThreadCarries DEF LookupIndex
  <2>3. CASE ~Active(local[t].key)
    BY <1>2, <2>3, <2>1, ThreadReturns DEF LookupIndex
  <2> QED
    BY <2>2, <2>3
<1>3. ASSUME NEW t \in Threads, CacheRow(t)
      PROVE  MemoryTypeOK' /\ ThreadTypeOK' /\ Carrying'
  <2>1. Put(cache, local[t].key, local[t].row) \in CacheType
    BY <1>m, <1>c, <1>3, PutType DEF CacheRow, Carrying
  <2>2. MemoryTypeOK'
    BY <1>3, <1>m, <2>1 DEF CacheRow, MemoryTypeOK, CacheType, historyVars
  <2>3. ThreadTypeOK' /\ Carrying'
    BY <1>3, ThreadReturns DEF CacheRow
  <2> QED
    BY <2>2, <2>3
<1>4. ASSUME NEW t \in Threads, NEW k \in Keys, NEW c \in Candidates, UpsertIndex(t, k, c)
      PROVE  MemoryTypeOK' /\ ThreadTypeOK' /\ Carrying'
  <2> DEFINE kept == Contract!Settled(tm, k, c)
  <2>1. kept \in Rows
    BY <1>m, SettledType DEF MemoryTypeOK
  <2>2. /\ tm' = [tm EXCEPT ![k] = [row |-> kept, flagged |-> FALSE]]
        /\ Goto(t, "dirty") /\ Carry(t, k, kept) /\ unsaved' = unsaved + 1 /\ WriteLock
        /\ UNCHANGED <<cache, dirty, disk, staged, failed, rejected>>
    BY <1>4 DEF UpsertIndex
  <2> HIDE DEF kept
  <2>3. MemoryTypeOK'
    BY <1>m, <2>1, <2>2, RecordType DEF MemoryTypeOK
  <2>4. ThreadTypeOK' /\ Carrying'
    BY <2>1, <2>2, ThreadCarries
  <2> QED
    BY <2>3, <2>4
<1>5. ASSUME NEW t \in Threads, NEW k \in Keys, HitIndex(t, k)
      PROVE  MemoryTypeOK' /\ ThreadTypeOK' /\ Carrying'
  <2> DEFINE counted == [tm[k] EXCEPT !.row.hits = @ + 1]
  <2>1. counted \in Records
    BY <1>5, <1>m, CountedRecord DEF HitIndex, MemoryTypeOK
  <2>2. tm' = [tm EXCEPT ![k] = counted]
    BY <1>5 DEF HitIndex
  <2> HIDE DEF counted
  <2>3. MemoryTypeOK'
    BY <1>5, <1>m, <2>1, <2>2 DEF HitIndex, MemoryTypeOK
  <2>4. ThreadTypeOK' /\ Carrying'
    BY <1>5, ThreadCarries DEF HitIndex
  <2> QED
    BY <2>3, <2>4
<1>6. ASSUME NEW t \in Threads, HitCache(t)
      PROVE  MemoryTypeOK' /\ ThreadTypeOK' /\ Carrying'
  <2>1. BumpHits(cache, local[t].key) \in CacheType
    BY <1>m, <1>c, <1>6, BumpHitsType DEF HitCache, Carrying
  <2>2. MemoryTypeOK'
    BY <1>6, <1>m, <2>1 DEF HitCache, MemoryTypeOK, CacheType, historyVars
  <2>3. ThreadTypeOK' /\ Carrying'
    BY <1>6, <1>m DEF HitCache, ThreadTypeOK, Carrying, Goto
  <2> QED
    BY <2>2, <2>3
<1>7. ASSUME NEW t \in Threads, NEW k \in Keys, FlagIndex(t, k)
      PROVE  MemoryTypeOK' /\ ThreadTypeOK' /\ Carrying'
  <2>1. MemoryTypeOK'
    <3>1. CASE tm[k] = NoRow
      BY <1>7, <1>m, <3>1 DEF FlagIndex, MemoryTypeOK
    <3>2. CASE tm[k] # NoRow
      <4> DEFINE flagged == [tm[k] EXCEPT !.flagged = TRUE]
      <4>1. tm[k] \in Records
        BY <1>m, <3>2 DEF MemoryTypeOK
      <4>2. flagged \in Records
        BY <4>1, RecordType
      <4>3. tm' = [tm EXCEPT ![k] = flagged]
        BY <1>7, <3>2 DEF FlagIndex
      <4> HIDE DEF flagged
      <4> QED
        BY <1>7, <1>m, <3>2, <4>2, <4>3 DEF FlagIndex, MemoryTypeOK
    <3> QED
      BY <3>1, <3>2
  <2>2. ThreadTypeOK' /\ Carrying'
    BY <1>7, ThreadCarries DEF FlagIndex
  <2> QED
    BY <2>1, <2>2
<1>8. ASSUME NEW t \in Threads, FlagCache(t)
      PROVE  MemoryTypeOK' /\ ThreadTypeOK' /\ Carrying'
  <2>1. Invalidate(cache, local[t].key) \in CacheType
    BY <1>m, <1>c, <1>8, InvalidateType DEF FlagCache, Carrying
  <2>2. MemoryTypeOK'
    BY <1>8, <1>m, <2>1 DEF FlagCache, MemoryTypeOK, CacheType, historyVars
  <2>3. ThreadTypeOK' /\ Carrying'
    BY <1>8, <1>m DEF FlagCache, ThreadTypeOK, Carrying, Goto
  <2> QED
    BY <2>2, <2>3
<1>r. ASSUME NEW t \in Threads, Resume(t), UNCHANGED tm,
             UNCHANGED staged \/ staged' = [staged EXCEPT ![t] = NoRow]
      PROVE  ThreadTypeOK' /\ Carrying'
  <2>1. CASE local[t].row = NoRow
    BY <1>r, <2>1, ThreadReturns DEF Resume
  <2>2. CASE local[t].row # NoRow
    <3>1. PICK file \in [Keys -> Records \cup {NoRow}] \cup {NoRow} :
            staged' = [staged EXCEPT ![t] = file]
      BY <1>r, <1>m DEF ThreadTypeOK
    <3>2. /\ local[t] \in [key : Keys \cup {NoRow}, row : Rows \cup {NoRow}]
          /\ local[t].row \in Rows /\ local[t].key \in Keys
          /\ local' = [local EXCEPT ![t] = local[t]]
          /\ pc' = [pc EXCEPT ![t] = "settle"]
      BY <1>r, <1>m, <2>2 DEF Resume, Goto, ThreadTypeOK, Carrying
    <3> QED
      BY <1>r, <3>1, <3>2, ThreadMoves
  <2> QED
    BY <2>1, <2>2
<1>9. ASSUME NEW t \in Threads, BumpDirty(t)
      PROVE  MemoryTypeOK' /\ ThreadTypeOK' /\ Carrying'
  <2>1. MemoryTypeOK'
    BY <1>9, <1>m, StoreAssumption DEF BumpDirty, MemoryTypeOK, historyVars
  <2>2. CASE dirty + 1 >= FlushThreshold
    BY <1>9, <1>m, <2>1, <2>2 DEF BumpDirty, ThreadTypeOK, Carrying, Goto
  <2>3. CASE ~(dirty + 1 >= FlushThreshold)
    BY <1>9, <1>r, <2>1, <2>3 DEF BumpDirty
  <2> QED
    BY <2>2, <2>3
<1>10. ASSUME NEW t \in Threads, FlushAll(t)
       PROVE  MemoryTypeOK' /\ ThreadTypeOK' /\ Carrying'
  BY <1>10, <1>m DEF FlushAll, MemoryTypeOK, ThreadTypeOK, Carrying, Goto, historyVars
<1>11. ASSUME NEW t \in Threads, StageFlush(t)
       PROVE  MemoryTypeOK' /\ ThreadTypeOK' /\ Carrying'
  <2>1. MemoryTypeOK'
    BY <1>11, <1>m DEF StageFlush, MemoryTypeOK, historyVars
  <2>2. ThreadTypeOK' /\ Carrying'
    BY <1>11, <1>m, ThreadMoves DEF StageFlush, MemoryTypeOK, ThreadTypeOK, Carrying, Goto
  <2> QED
    BY <2>1, <2>2
<1>12. ASSUME NEW t \in Threads, CommitFlush(t)
       PROVE  MemoryTypeOK' /\ ThreadTypeOK' /\ Carrying'
  <2>1. disk' = tm
    BY <1>12, <1>m DEF CommitFlush, Carrying
  <2>2. MemoryTypeOK'
    BY <1>12, <1>m, <2>1 DEF CommitFlush, MemoryTypeOK
  <2>3. ThreadTypeOK' /\ Carrying'
    BY <1>12, <1>r DEF CommitFlush
  <2> QED
    BY <2>2, <2>3
<1>13. ASSUME NEW t \in Threads, FailFlush(t)
       PROVE  MemoryTypeOK' /\ ThreadTypeOK' /\ Carrying'
  <2>1. MemoryTypeOK'
    BY <1>13, <1>m DEF FailFlush, MemoryTypeOK
  <2>2. ThreadTypeOK' /\ Carrying'
    BY <1>13, ThreadReturns DEF FailFlush
  <2> QED
    BY <2>1, <2>2
<1>14. ASSUME Restart
       PROVE  MemoryTypeOK' /\ ThreadTypeOK' /\ Carrying'
  <2>1. cache' \in CacheType
    BY <1>14, <1>m, OpenedType DEF Restart, MemoryTypeOK
  <2>2. MemoryTypeOK'
    BY <1>14, <1>m, <2>1, StoreAssumption DEF Restart, MemoryTypeOK, CacheType
  <2>3. ThreadTypeOK' /\ Carrying'
    BY <1>14 DEF Restart, ThreadTypeOK, Carrying, Nothing
  <2> QED
    BY <2>2, <2>3
<1>15. ASSUME UNCHANGED vars
       PROVE  MemoryTypeOK' /\ ThreadTypeOK' /\ Carrying'
  BY <1>15, <1>m DEF vars, threadVars, historyVars, MemoryTypeOK, ThreadTypeOK, Carrying
<1> QED
  BY <1>1, <1>2, <1>3, <1>4, <1>5, <1>6, <1>7, <1>8, <1>9, <1>10, <1>11, <1>12, <1>13,
     <1>14, <1>15 DEF Next, Step

\* The state of the store is what its types say in every reachable state, for any
\* number of threads, any cache size and any flush threshold.
THEOREM TypeCorrect == Spec => []TypeOK
<1>1. TypeInv => TypeOK
  BY DEF TypeInv
<1> QED
  BY <1>1, TypeInit, TypeNext, PTL DEF Spec

-----------------------------------------------------------------------------
\* Every critical section is one step of the contract's table, or none.
LEMMA StepKeepsContract == TypeInv /\ [Next]_vars => [Contract!Next]_(Contract!contractVars)
<1> SUFFICES ASSUME TypeInv, [Next]_vars
             PROVE  Contract!Next \/ UNCHANGED <<tm, disk>>
  BY DEF Contract!contractVars
<1>1. ASSUME NEW t \in Threads, NEW k \in Keys, NEW c \in Candidates, UpsertIndex(t, k, c)
      PROVE  Contract!Next
  <2>1. tm \in [Keys -> Records \cup {NoRow}]
    BY DEF TypeInv, TypeOK, MemoryTypeOK
  <2>2. Contract!Offer(k, c)
    BY <1>1, <2>1 DEF UpsertIndex, Contract!Offer
  <2> QED
    BY <2>2 DEF Contract!Next
<1>2. ASSUME NEW t \in Threads, NEW k \in Keys, HitIndex(t, k) PROVE Contract!Next
  <2>1. Contract!Use(k)
    BY <1>2 DEF HitIndex, Contract!Use
  <2> QED
    BY <2>1 DEF Contract!Next
<1>3. ASSUME NEW t \in Threads, NEW k \in Keys, FlagIndex(t, k)
      PROVE  Contract!Next \/ UNCHANGED <<tm, disk>>
  <2>1. CASE tm[k] = NoRow
    BY <1>3, <2>1 DEF FlagIndex
  <2>2. CASE tm[k] # NoRow
    <3>1. Contract!Reject(k)
      BY <1>3, <2>2 DEF FlagIndex, Contract!Reject
    <3> QED
      BY <3>1 DEF Contract!Next
  <2> QED
    BY <2>1, <2>2
<1>4. ASSUME NEW t \in Threads, CommitFlush(t) PROVE Contract!Next
  <2>1. staged[t] = tm
    BY <1>4 DEF CommitFlush, TypeInv, Carrying
  <2>2. Contract!Save
    BY <1>4, <2>1 DEF CommitFlush, Contract!Save
  <2> QED
    BY <2>2 DEF Contract!Next
<1>5. CASE Restart
  <2>1. Contract!Restart
    BY <1>5 DEF Restart, Contract!Restart
  <2> QED
    BY <2>1 DEF Contract!Next
<1>6. ASSUME NEW t \in Threads,
             \/ \E k \in Keys : LookupCache(t, k)
             \/ LookupIndex(t) \/ CacheRow(t) \/ HitCache(t) \/ FlagCache(t)
             \/ BumpDirty(t) \/ FlushAll(t) \/ StageFlush(t) \/ FailFlush(t)
      PROVE  UNCHANGED <<tm, disk>>
  BY <1>6 DEF LookupCache, LookupIndex, CacheRow, HitCache, FlagCache, BumpDirty, FlushAll,
     StageFlush, FailFlush
<1>7. CASE UNCHANGED vars
  BY <1>7 DEF vars
<1> QED
  BY <1>1, <1>2, <1>3, <1>4, <1>5, <1>6, <1>7 DEF Next, Step

\* The store keeps its contract whatever its threads interleave: a flush writes the
\* table as it stands when the file is replaced, and a restart finds the file whole.
THEOREM StoreKeepsContract == Spec => KeepsContract
<1>1. Init => Contract!Init
  BY DEF Init
<1> QED
  BY <1>1, TypeInit, TypeNext, StepKeepsContract, PTL DEF Spec, KeepsContract, Contract!Spec

-----------------------------------------------------------------------------
LEMMA RowQuality == \A row \in Rows : row.quality \in Nat
BY StoreAssumption DEF Rows, Contract!Rows

\* put leaves in the cache what was there, or the row it was given.
LEMMA PutMap ==
    ASSUME NEW c \in CacheType, NEW k \in Keys, NEW row \in Rows, NEW j \in Keys
    PROVE  Put(c, k, row).map[j] \in {NoRow, c.map[j]} \cup (IF j = k THEN {row} ELSE {})
<1> DEFINE order == Touch(c.order, k)
           map   == [c.map EXCEPT ![k] = row]
<1>1. map \in [Keys -> Rows \cup {NoRow}] /\ map[j] = IF j = k THEN row ELSE c.map[j]
  BY DEF CacheType
<1> HIDE DEF map, order
<1>2. [map EXCEPT ![Head(order)] = NoRow][j] \in {NoRow, map[j]}
  BY <1>1
<1>3. Put(c, k, row).map \in {map, [map EXCEPT ![Head(order)] = NoRow]}
  BY DEF Put, map, order
<1> QED
  BY <1>1, <1>2, <1>3

\* The quality rule never falls behind a row that was not ahead of it.
LEMMA SettledKeepsUp ==
    ASSUME TypeInv, NEW k \in Keys, NEW c \in Candidates, NEW row \in Rows,
           NotAhead(row, k)
    PROVE  LET kept == Contract!Settled(tm, k, c)
           IN  /\ row.quality <= kept.quality
               /\ row.quality = kept.quality => row.text = kept.text
<1> DEFINE mine == tm[k].row
<1>1. mine \in Rows /\ Contract!Active(tm, k)
  BY RecordType DEF TypeInv, TypeOK, MemoryTypeOK, NotAhead, Active, Contract!Active
<1>2. row.quality <= mine.quality /\ (row.quality = mine.quality => row.text = mine.text)
  BY DEF NotAhead
<1> HIDE DEF mine
<1>3. row.quality \in Nat /\ mine.quality \in Nat /\ c.quality \in Nat
  BY <1>1, RowQuality, StoreAssumption
<1>4. Contract!Settled(tm, k, c) = Contract!Merge(mine, c)
  BY <1>1 DEF Contract!Settled, mine
<1>5. CASE c.quality > mine.quality
  BY <1>2, <1>3, <1>4, <1>5 DEF Contract!Merge, Contract!Fresh
<1>6. CASE ~(c.quality > mine.quality)
  BY <1>1, <1>2, <1>4, <1>6, CountedRow DEF Contract!Merge
<1> QED
  BY <1>5, <1>6

\* While the index moves at most by offers and uses, or rejects the key, a row that
\* was not ahead of it still is not.
LEMMA StaysBehind ==
    ASSUME TypeInv, NEW t \in Threads, Step(t), NEW j \in Keys \ rejected', NEW row \in Rows,
           NotAhead(row, j)
    PROVE  NotAhead(row, j)'
<1>t. tm \in [Keys -> Records \cup {NoRow}]
  BY DEF TypeInv, TypeOK, MemoryTypeOK
<1>1. ASSUME NEW k \in Keys, NEW c \in Candidates, UpsertIndex(t, k, c)
      PROVE  NotAhead(row, j)'
  <2> DEFINE kept == Contract!Settled(tm, k, c)
  <2>1. tm' = [tm EXCEPT ![k] = [row |-> kept, flagged |-> FALSE]]
    BY <1>1 DEF UpsertIndex
  <2>2. CASE j = k
    <3>1. row.quality <= kept.quality /\ (row.quality = kept.quality => row.text = kept.text)
      BY <2>2, SettledKeepsUp
    <3> HIDE DEF kept
    <3>2. tm'[j] = [row |-> kept, flagged |-> FALSE] /\ tm'[j] # NoRow
      <4>1. kept \in Rows
        BY <1>t, SettledType DEF kept
      <4>2. [row |-> kept, flagged |-> FALSE] \in Records
        BY <4>1, RecordType
      <4>3. [row |-> kept, flagged |-> FALSE] # NoRow
        BY <4>2, RowAssumption
      <4>4. tm'[j] = [row |-> kept, flagged |-> FALSE]
        BY <1>t, <2>1, <2>2
      <4> QED
        BY <4>3, <4>4
    <3> QED
      BY <3>1, <3>2 DEF NotAhead, Active, Contract!Active
  <2>3. CASE j # k
    BY <1>t, <2>1, <2>3 DEF NotAhead, Active, Contract!Active
  <2> QED
    BY <2>2, <2>3
<1>2. ASSUME NEW k \in Keys, HitIndex(t, k) PROVE NotAhead(row, j)'
  <2>1. CASE j = k
    <3>1. tm[k] \in Records /\ tm' = [tm EXCEPT ![k].row.hits = @ + 1]
      BY <1>2, <1>t DEF HitIndex
    <3>2. /\ tm'[j] # NoRow /\ tm'[j].flagged = tm[j].flagged
          /\ tm'[j].row = [tm[j].row EXCEPT !.hits = @ + 1]
      BY <1>t, <2>1, <3>1, CountedRecord, RowAssumption, RecordType
    <3>3. tm[j].row \in Rows
      BY <2>1, <3>1, RecordType
    <3> QED
      BY <3>2, <3>3, CountedRow DEF NotAhead, Active, Contract!Active
  <2>2. CASE j # k
    BY <1>2, <1>t, <2>2 DEF HitIndex, NotAhead, Active, Contract!Active
  <2> QED
    BY <2>1, <2>2
<1>3. ASSUME NEW k \in Keys, FlagIndex(t, k) PROVE NotAhead(row, j)'
  <2>1. tm'[j] = tm[j]
    BY <1>3, <1>t DEF FlagIndex
  <2> QED
    BY <2>1 DEF NotAhead, Active, Contract!Active
<1>4. ASSUME UNCHANGED tm PROVE NotAhead(row, j)'
  BY <1>4 DEF NotAhead, Active, Contract!Active
<1>5. \/ UNCHANGED tm
      \/ \E k \in Keys : HitIndex(t, k) \/ FlagIndex(t, k)
                         \/ \E c \in Candidates : UpsertIndex(t, k, c)
  BY DEF Step, LookupCache, LookupIndex, CacheRow, HitCache, FlagCache, BumpDirty, FlushAll,
     StageFlush, CommitFlush, FailFlush
<1> QED
  BY <1>1, <1>2, <1>3, <1>4, <1>5

LEMMA NeverAheadNext == TypeInv /\ CacheNeverAhead /\ [Next]_vars => CacheNeverAhead'
<1> SUFFICES ASSUME TypeInv, CacheNeverAhead, [Next]_vars PROVE CacheNeverAhead'
  OBVIOUS
<1>m. MemoryTypeOK /\ ThreadTypeOK /\ Carrying /\ cache \in CacheType
  BY DEF TypeInv, TypeOK, MemoryTypeOK, CacheType
<1> DEFINE CachedBehind == \A k \in Keys \ rejected :
                              cache.map[k] # NoRow => NotAhead(cache.map[k], k)
           CarriedBehind == \A u \in Threads :
                              local[u].row # NoRow /\ local[u].key \notin rejected
                                 => NotAhead(local[u].row, local[u].key)
<1>s. SUFFICES CachedBehind' /\ CarriedBehind'
  BY DEF CacheNeverAhead
<1>1. ASSUME NEW t \in Threads, Step(t) PROVE CachedBehind' /\ CarriedBehind'
  <2>1. rejected \subseteq rejected'
    BY <1>1 DEF Step, LookupCache, LookupIndex, CacheRow, UpsertIndex, HitIndex, HitCache,
       FlagIndex, FlagCache, BumpDirty, FlushAll, StageFlush, CommitFlush, FailFlush, historyVars
  \* A cached row is an old one, an old one counted once more, or the one carried to it.
  <2>2. ASSUME NEW j \in Keys \ rejected', cache'.map[j] # NoRow
        PROVE  NotAhead(cache.map[j], j)'
    <3>1. \E old \in Rows : /\ NotAhead(old, j)
                            /\ old.text = cache'.map[j].text
                            /\ old.quality = cache'.map[j].quality
      <4>1. CASE cache'.map = cache.map
        BY <1>m, <2>1, <2>2, <4>1 DEF CacheNeverAhead, CacheType
      <4>2. CASE CacheRow(t)
        <5>1. local[t].key \in Keys /\ local[t].row \in Rows /\ local[t].row # NoRow
          BY <1>m, <4>2, RowAssumption DEF CacheRow, Carrying
        <5>2. cache'.map[j] \in {NoRow, cache.map[j]}
                                  \cup (IF j = local[t].key THEN {local[t].row} ELSE {})
          BY <1>m, <4>2, <5>1, PutMap DEF CacheRow
        <5>3. CASE cache'.map[j] = cache.map[j]
          BY <1>m, <2>1, <2>2, <5>3 DEF CacheNeverAhead, CacheType
        <5>4. CASE j = local[t].key /\ cache'.map[j] = local[t].row
          BY <2>1, <5>1, <5>4 DEF CacheNeverAhead
        <5> QED
          BY <2>2, <5>2, <5>3, <5>4
      <4>3. CASE HitCache(t)
        <5> DEFINE k == local[t].key
        <5>1. k \in Keys /\ cache' = BumpHits(cache, k)
          BY <1>m, <4>3 DEF HitCache, Carrying
        <5> HIDE DEF k
        <5>2. CASE cache.map[k] = NoRow \/ j # k
          <6>1. cache'.map[j] = cache.map[j]
            BY <1>m, <5>1, <5>2 DEF BumpHits, CacheType
          <6> QED
            BY <1>m, <2>1, <2>2, <6>1 DEF CacheNeverAhead, CacheType
        <5>3. CASE cache.map[k] # NoRow /\ j = k
          <6>1. cache.map[j] \in Rows
            BY <1>m, <5>3 DEF CacheType
          <6>2. cache'.map[j] = [cache.map[j] EXCEPT !.hits = @ + 1]
            BY <1>m, <5>1, <5>3 DEF BumpHits, CacheType
          <6> QED
            BY <2>1, <5>3, <6>1, <6>2, CountedRow DEF CacheNeverAhead
        <5> QED
          BY <5>2, <5>3
      <4>4. CASE FlagCache(t)
        <5>1. cache'.map[j] \in {NoRow, cache.map[j]}
          BY <1>m, <4>4 DEF FlagCache, Invalidate, CacheType
        <5> QED
          BY <1>m, <2>1, <2>2, <5>1 DEF CacheNeverAhead, CacheType
      <4> QED
        BY <1>1, <1>m, <4>1, <4>2, <4>3, <4>4
           DEF Step, LookupCache, Refresh, CacheType, LookupIndex, UpsertIndex, HitIndex,
               FlagIndex, BumpDirty, FlushAll, StageFlush, CommitFlush, FailFlush
    <3>2. PICK old \in Rows : /\ NotAhead(old, j)
                              /\ old.text = cache'.map[j].text
                              /\ old.quality = cache'.map[j].quality
      BY <3>1
    <3>3. NotAhead(old, j)'
      BY <1>1, <2>2, <3>2, StaysBehind
    <3> QED
      BY <3>2, <3>3 DEF NotAhead
  \* A thread carries a row it just read or settled, or one it carried before.
  <2>3. ASSUME NEW u \in Threads, local'[u].row # NoRow, local'[u].key \notin rejected'
        PROVE  NotAhead(local[u].row, local[u].key)'
    <3>1. CASE local'[u] = local[u]
      BY <1>1, <1>m, <2>1, <2>3, <3>1, StaysBehind DEF CacheNeverAhead, Carrying, ThreadTypeOK
    <3>2. CASE LookupIndex(t) /\ local'[u] # local[u]
      <4>1. /\ u = t /\ Active(local[t].key) /\ UNCHANGED tm
            /\ local'[u] = [key |-> local[t].key, row |-> tm[local[t].key].row]
        BY <1>m, <2>3, <3>2 DEF LookupIndex, Carry, Return, Nothing, ThreadTypeOK
      <4>2. tm[local[t].key].row \in Rows
        BY <1>m, <3>2, <4>1, RecordType
           DEF LookupIndex, MemoryTypeOK, Carrying, Active, Contract!Active
      <4> QED
        BY <4>1, <4>2, RowQuality DEF NotAhead, Active, Contract!Active
    <3>3. ASSUME NEW k \in Keys, NEW c \in Candidates, UpsertIndex(t, k, c),
                 local'[u] # local[u]
          PROVE  NotAhead(local[u].row, local[u].key)'
      <4> DEFINE kept == Contract!Settled(tm, k, c)
      <4>1. kept \in Rows
        BY <1>m, SettledType DEF MemoryTypeOK
      <4>2. /\ tm' = [tm EXCEPT ![k] = [row |-> kept, flagged |-> FALSE]]
            /\ Carry(t, k, kept)
        BY <3>3 DEF UpsertIndex
      <4> HIDE DEF kept
      <4>3. u = t /\ local'[u] = [key |-> k, row |-> kept]
        BY <1>m, <3>3, <4>2 DEF Carry, ThreadTypeOK
      <4>4. [row |-> kept, flagged |-> FALSE] # NoRow
        <5>1. [row |-> kept, flagged |-> FALSE] \in Records
          BY <4>1, RecordType
        <5> QED
          BY <5>1, RowAssumption
      <4>5. tm'[k] = [row |-> kept, flagged |-> FALSE]
        BY <1>m, <4>2 DEF MemoryTypeOK
      <4> QED
        BY <4>1, <4>3, <4>4, <4>5, RowQuality DEF NotAhead, Active, Contract!Active
    <3>4. \/ local'[u] = local[u] \/ local'[u].row = NoRow
          \/ LookupIndex(t) \/ \E k \in Keys, c \in Candidates : UpsertIndex(t, k, c)
      BY <1>1, <1>m DEF Step, LookupCache, CacheRow, HitIndex, HitCache, FlagIndex, FlagCache,
         BumpDirty, FlushAll, StageFlush, CommitFlush, FailFlush, Resume, Return, Carry,
         Nothing, ThreadTypeOK
    <3> QED
      BY <2>3, <3>1, <3>2, <3>3, <3>4
  <2> QED
    BY <2>2, <2>3
<1>2. CASE Restart
  <2>1. \A k \in Keys : cache'.map[k] # NoRow =>
           Contract!Active(disk, k) /\ cache'.map[k] = disk[k].row
    BY <1>2, <1>m, OpenedType DEF Restart, MemoryTypeOK
  <2>2. \A k \in Keys : Contract!Active(disk, k) => disk[k].row \in Rows
    BY <1>m, RecordType DEF MemoryTypeOK, Contract!Active
  <2>3. CachedBehind'
    BY <1>2, <2>1, <2>2, RowQuality DEF Restart, NotAhead, Active, Contract!Active
  <2>4. CarriedBehind'
    BY <1>2 DEF Restart, Nothing
  <2> QED
    BY <2>3, <2>4
<1>3. CASE UNCHANGED vars
  BY <1>3 DEF vars, threadVars, historyVars, CacheNeverAhead, NotAhead, Active, Contract!Active
<1> QED
  BY <1>1, <1>2, <1>3 DEF Next

\* However lookups, upserts and hit counts race, the cache is only ever behind the
\* quality rule: no cached row is better than the one the index keeps, and none is as
\* good and different, unless the key was rejected in this process.
THEOREM CacheStaysBehind == Spec => []CacheNeverAhead
<1>1. Init => CacheNeverAhead
  BY DEF Init, CacheNeverAhead, EmptyCache, Nothing
<1> QED
  BY <1>1, TypeInit, TypeNext, NeverAheadNext, PTL DEF Spec
-----------------------------------------------------------------------------
\* Sets that differ in one thread at most, counted by it.
LEMMA CountWithout ==
    ASSUME NEW S \in SUBSET Threads, NEW t \in Threads
    PROVE  /\ Cardinality(S \ {t}) \in Nat
           /\ Cardinality(S) = Cardinality(S \ {t}) + (IF t \in S THEN 1 ELSE 0)
<1>1. IsFiniteSet(S) /\ IsFiniteSet(S \ {t})
  BY StoreAssumption, FS_Subset
<1>2. Cardinality(S) \in Nat /\ Cardinality(S \ {t}) \in Nat
  BY <1>1, FS_CardinalityType
<1>3. CASE t \in S
  <2>1. (S \ {t}) \cup {t} = S /\ t \notin S \ {t}
    BY <1>3
  <2>2. Cardinality((S \ {t}) \cup {t}) = Cardinality(S \ {t}) + 1
    BY <1>1, <2>1, FS_AddElement
  <2> QED
    BY <1>2, <1>3, <2>1, <2>2
<1>4. CASE t \notin S
  <2>1. S \ {t} = S
    BY <1>4
  <2> QED
    BY <1>2, <1>4, <2>1
<1> QED
  BY <1>3, <1>4

LEMMA Distributes ==
    ASSUME NEW n \in Nat, NEW w \in Nat
    PROVE  w * n \in Nat /\ w * (n + 1) = w * n + w
OBVIOUS

Steps == {"idle", "lookup", "fill", "dirty", "settle", "count", "drop", "flush", "rename"}

\* What one thread adds to the bound of LossBounded, by where it stands.
Weight(step) ==
    IF step \in {"dirty", "count", "drop"} THEN 1
    ELSE IF step \in {"flush", "rename"} THEN FlushThreshold ELSE 0

\* The bound is a sum over the threads: a step of one of them changes its own share.
LEMMA LossShare ==
    ASSUME TypeInv, NEW t \in Threads, NEW step \in Steps, pc' = [pc EXCEPT ![t] = step],
           failed' \in Nat,
           dirty + Weight(pc[t]) + FlushThreshold * failed + unsaved'
             <= dirty' + Weight(step) + FlushThreshold * failed' + unsaved,
           dirty' \in Nat, unsaved' \in Nat, LossBounded
    PROVE  LossBounded'
<1> DEFINE u == Cardinality(Uncounted \ {t})
           f == Cardinality(Unfinished \ {t})
<1>2. FlushThreshold \in Nat
  BY StoreAssumption
<1>1. pc \in [Threads -> Steps] /\ dirty \in Nat /\ unsaved \in Nat /\ failed \in Nat
  <2>1. pc \in [Threads -> Steps]
    BY DEF TypeInv, TypeOK, ThreadTypeOK, Steps
  <2>2. dirty \in 0..(FlushThreshold - 1) /\ unsaved \in Nat /\ failed \in Nat
    BY DEF TypeInv, TypeOK, MemoryTypeOK
  <2> QED
    BY <1>2, <2>1, <2>2
<1>3. Uncounted' \ {t} = Uncounted \ {t} /\ Unfinished' \ {t} = Unfinished \ {t}
  BY <1>1 DEF Uncounted, Unfinished
<1>4. /\ Uncounted \in SUBSET Threads /\ Unfinished \in SUBSET Threads
      /\ Uncounted' \in SUBSET Threads /\ Unfinished' \in SUBSET Threads
  BY DEF Uncounted, Unfinished
<1>5. /\ u \in Nat /\ f \in Nat
      /\ Cardinality(Uncounted) = u + (IF t \in Uncounted THEN 1 ELSE 0)
      /\ Cardinality(Unfinished) = f + (IF t \in Unfinished THEN 1 ELSE 0)
      /\ Cardinality(Uncounted') = u + (IF t \in Uncounted' THEN 1 ELSE 0)
      /\ Cardinality(Unfinished') = f + (IF t \in Unfinished' THEN 1 ELSE 0)
  <2>1. /\ u \in Nat /\ Cardinality(Uncounted) = u + (IF t \in Uncounted THEN 1 ELSE 0)
    BY <1>4, CountWithout
  <2>2. /\ f \in Nat /\ Cardinality(Unfinished) = f + (IF t \in Unfinished THEN 1 ELSE 0)
    BY <1>4, CountWithout
  <2>3. Cardinality(Uncounted') = u + (IF t \in Uncounted' THEN 1 ELSE 0)
    BY <1>3, <1>4, CountWithout
  <2>4. Cardinality(Unfinished') = f + (IF t \in Unfinished' THEN 1 ELSE 0)
    BY <1>3, <1>4, CountWithout
  <2> QED
    BY <2>1, <2>2, <2>3, <2>4
<1> HIDE DEF u, f
<1>6. /\ t \in Uncounted <=> pc[t] \in {"dirty", "count", "drop"}
      /\ t \in Unfinished <=> pc[t] \in {"flush", "rename"}
      /\ t \in Uncounted' <=> step \in {"dirty", "count", "drop"}
      /\ t \in Unfinished' <=> step \in {"flush", "rename"}
  BY <1>1 DEF Uncounted, Unfinished
<1> DEFINE others == u + FlushThreshold * f
           before == FlushThreshold * failed
           after  == FlushThreshold * failed'
<1>7. others \in Nat /\ before \in Nat /\ after \in Nat /\ Weight(pc[t]) \in Nat /\ Weight(step) \in Nat
  <2>1. FlushThreshold * f \in Nat
    BY <1>2, <1>5, Distributes
  <2>2. before \in Nat
    BY <1>1, <1>2, Distributes
  <2>3. after \in Nat
    BY <1>2, Distributes
  <2>4. Weight(pc[t]) \in Nat /\ Weight(step) \in Nat
    BY <1>2 DEF Weight
  <2> QED
    BY <1>5, <2>1, <2>2, <2>3, <2>4
<1>8. Cardinality(Uncounted) + FlushThreshold * (Cardinality(Unfinished) + failed)
        = others + before + Weight(pc[t])
  BY <1>1, <1>2, <1>5, <1>6, Distributes DEF Weight
<1>9. Cardinality(Uncounted') + FlushThreshold * (Cardinality(Unfinished') + failed')
        = others + after + Weight(step)
  BY <1>1, <1>2, <1>5, <1>6, Distributes DEF Weight
<1>10. dirty + Weight(pc[t]) + before + unsaved' <= dirty' + Weight(step) + after + unsaved
  OBVIOUS
<1> DEFINE held  == Cardinality(Uncounted) + FlushThreshold * (Cardinality(Unfinished) + failed)
           holds == Cardinality(Uncounted') + FlushThreshold * (Cardinality(Unfinished') + failed')
<1>11. unsaved <= dirty + held /\ held = others + before + Weight(pc[t])
  <2>1. Cardinality(Uncounted) \in Nat /\ Cardinality(Unfinished) + failed \in Nat
    BY <1>1, <1>5
  <2>2. FlushThreshold * (Cardinality(Unfinished) + failed) \in Nat
    BY <1>2, <2>1, Distributes
  <2> QED
    BY <1>1, <1>8, <2>1, <2>2 DEF LossBounded
<1>12. holds = others + after + Weight(step)
  BY <1>9
<1>13. LossBounded' <=> unsaved' <= dirty' + holds
  <2>0. Cardinality(Uncounted') \in Nat /\ Cardinality(Unfinished') \in Nat
    BY <1>5
  <2>1. Cardinality(Uncounted') \in Nat /\ Cardinality(Unfinished') + failed' \in Nat
    BY <2>0
  <2>2. FlushThreshold * (Cardinality(Unfinished') + failed') \in Nat
    BY <1>2, <2>1, Distributes
  <2> QED
    BY <2>1, <2>2 DEF LossBounded
<1> HIDE DEF others, before, after, held, holds
<1>14. unsaved' <= dirty' + holds
  <2>1. \A d, d1, o, b, a, w, w1, v, v1 \in Nat :
          /\ d + w + b + v1 <= d1 + w1 + a + v
          /\ v <= d + (o + b + w)
          => v1 <= d1 + (o + a + w1)
    OBVIOUS
  <2>2. unsaved <= dirty + (others + before + Weight(pc[t]))
    BY <1>11
  <2>3. unsaved' <= dirty' + (others + after + Weight(step))
    BY <1>1, <1>7, <1>10, <2>1, <2>2
  <2> QED
    BY <1>12, <2>3
<1> QED
  BY <1>13, <1>14
\* A step that changes neither the counters of the bound but one, nor what fails.
LEMMA SameFailures ==
    ASSUME TypeInv, LossBounded, NEW t \in Threads, NEW step \in Steps, pc' = [pc EXCEPT ![t] = step],
           UNCHANGED failed, dirty' \in Nat, unsaved' \in Nat,
           dirty + Weight(pc[t]) + unsaved' <= dirty' + Weight(step) + unsaved
    PROVE  LossBounded'
<1>1. failed \in Nat /\ FlushThreshold \in Nat /\ unsaved \in Nat
  BY StoreAssumption DEF TypeInv, TypeOK, MemoryTypeOK
<1>2. dirty \in Nat
  <2>1. dirty \in 0..(FlushThreshold - 1)
    BY DEF TypeInv, TypeOK, MemoryTypeOK
  <2> QED
    BY <1>1, <2>1
<1>3. FlushThreshold * failed \in Nat
  BY <1>1, Distributes
<1>4. Weight(pc[t]) \in Nat /\ Weight(step) \in Nat
  BY <1>1 DEF Weight
<1>5. FlushThreshold * failed' = FlushThreshold * failed
  OBVIOUS
<1> DEFINE lost == FlushThreshold * failed
<1>6. lost \in Nat
  BY <1>3
<1> HIDE DEF lost
<1>7. dirty + Weight(pc[t]) + lost + unsaved' <= dirty' + Weight(step) + lost + unsaved
  BY <1>1, <1>2, <1>4, <1>6
<1>8. dirty + Weight(pc[t]) + FlushThreshold * failed + unsaved'
        <= dirty' + Weight(step) + FlushThreshold * failed' + unsaved
  BY <1>5, <1>7 DEF lost
<1> QED
  BY <1>1, <1>8, LossShare

\* With everything in the file there is nothing to lose.
LEMMA NothingLost ==
    ASSUME TypeInv', unsaved' = 0
    PROVE  LossBounded'
<1>1. failed' \in Nat /\ FlushThreshold \in Nat /\ dirty' \in 0..(FlushThreshold - 1)
  BY StoreAssumption DEF TypeInv, TypeOK, MemoryTypeOK
<1>2. IsFiniteSet(Uncounted') /\ IsFiniteSet(Unfinished')
  BY StoreAssumption, FS_Subset DEF Uncounted, Unfinished
<1>3. Cardinality(Uncounted') \in Nat /\ Cardinality(Unfinished') \in Nat
  BY <1>2, FS_CardinalityType
<1>4. Cardinality(Unfinished') + failed' \in Nat
  BY <1>1, <1>3
<1>5. FlushThreshold * (Cardinality(Unfinished') + failed') \in Nat
  BY <1>1, <1>4, Distributes
<1> QED
  BY <1>1, <1>3, <1>5 DEF LossBounded

LEMMA LossNext == TypeInv /\ TypeInv' /\ LossBounded /\ [Next]_vars => LossBounded'
<1> SUFFICES ASSUME TypeInv, TypeInv', LossBounded, [Next]_vars PROVE LossBounded'
  OBVIOUS
<1>t. /\ pc \in [Threads -> Steps] /\ unsaved \in Nat /\ failed \in Nat /\ FlushThreshold \in Nat \ {0}
  BY StoreAssumption DEF TypeInv, TypeOK, MemoryTypeOK, ThreadTypeOK, Steps
<1>d. dirty \in 0..(FlushThreshold - 1) /\ dirty' \in 0..(FlushThreshold - 1)
  BY DEF TypeInv, TypeOK, MemoryTypeOK
<1>n. dirty \in Nat /\ dirty' \in Nat
  BY <1>t, <1>d
<1>u. unsaved' \in Nat
  BY DEF TypeInv, TypeOK, MemoryTypeOK
<1>1. ASSUME NEW t \in Threads, NEW step \in {"idle", "lookup", "fill", "settle"},
             pc[t] \in {"idle", "lookup", "fill", "settle"},
             pc' = [pc EXCEPT ![t] = step], UNCHANGED <<dirty, unsaved, failed>>
      PROVE  LossBounded'
  <2>1. Weight(pc[t]) = 0 /\ Weight(step) = 0
    BY <1>1 DEF Weight
  <2>2. dirty + Weight(pc[t]) + unsaved' <= dirty' + Weight(step) + unsaved
    BY <1>1, <1>t, <1>n, <2>1
  <2> QED
    BY <1>1, <1>n, <1>u, <2>2, SameFailures DEF Steps
<1>2. ASSUME NEW t \in Threads,
             \/ \E k \in Keys : LookupCache(t, k)
             \/ LookupIndex(t) \/ CacheRow(t)
      PROVE  LossBounded'
  <2>1. UNCHANGED <<dirty, unsaved, failed>>
    BY <1>2 DEF LookupCache, LookupIndex, CacheRow, historyVars
  <2>2. pc[t] \in {"idle", "lookup", "fill", "settle"}
    BY <1>2 DEF LookupCache, LookupIndex, CacheRow
  <2>3. PICK step \in {"idle", "lookup", "fill", "settle"} : pc' = [pc EXCEPT ![t] = step]
    <3>1. pc = [pc EXCEPT ![t] = pc[t]]
      BY <1>t
    <3> QED
      BY <1>2, <2>2, <3>1 DEF LookupCache, LookupIndex, CacheRow, Return, Goto
  <2> QED
    BY <1>1, <2>1, <2>2, <2>3
<1>3. ASSUME NEW t \in Threads, NEW k \in Keys,
             \/ \E c \in Candidates : UpsertIndex(t, k, c)
             \/ HitIndex(t, k) \/ FlagIndex(t, k)
      PROVE  LossBounded'
  <2>1. pc[t] = "idle" /\ UNCHANGED <<dirty, failed>> /\ unsaved' \in {unsaved, unsaved + 1}
    BY <1>3 DEF UpsertIndex, HitIndex, FlagIndex
  <2>2. PICK step \in {"dirty", "count", "drop"} : pc' = [pc EXCEPT ![t] = step]
    BY <1>3 DEF UpsertIndex, HitIndex, FlagIndex, Goto
  <2>3. Weight(pc[t]) = 0 /\ Weight(step) = 1
    BY <2>1, <2>2 DEF Weight
  <2>4. dirty + Weight(pc[t]) + unsaved' <= dirty' + Weight(step) + unsaved
    BY <1>t, <1>n, <2>1, <2>3
  <2> QED
    BY <1>n, <1>u, <2>1, <2>2, <2>4, SameFailures DEF Steps
<1>4. ASSUME NEW t \in Threads, HitCache(t) \/ FlagCache(t)
      PROVE  LossBounded'
  <2>1. /\ pc[t] \in {"count", "drop"} /\ UNCHANGED <<dirty, failed, unsaved>>
        /\ pc' = [pc EXCEPT ![t] = "dirty"]
    BY <1>4 DEF HitCache, FlagCache, Goto, historyVars
  <2>2. Weight(pc[t]) = 1 /\ Weight("dirty") = 1
    BY <2>1 DEF Weight
  <2>3. dirty + Weight(pc[t]) + unsaved' <= dirty' + Weight("dirty") + unsaved
    BY <1>t, <1>n, <2>1, <2>2
  <2> QED
    BY <1>n, <1>u, <2>1, <2>3, SameFailures DEF Steps
<1>5. ASSUME NEW t \in Threads, BumpDirty(t)
      PROVE  LossBounded'
  <2>1. pc[t] = "dirty" /\ UNCHANGED <<failed, unsaved>> /\ Weight(pc[t]) = 1
    BY <1>5 DEF BumpDirty, historyVars, Weight
  <2>2. CASE dirty + 1 >= FlushThreshold
    <3>1. dirty' = 0 /\ pc' = [pc EXCEPT ![t] = "flush"]
      BY <1>5, <2>2 DEF BumpDirty, Goto
    <3>2. dirty + 1 = FlushThreshold
      BY <1>t, <1>d, <2>2
    <3>3. Weight("flush") = FlushThreshold
      BY DEF Weight
    <3>4. dirty + Weight(pc[t]) + unsaved' <= dirty' + Weight("flush") + unsaved
      BY <1>t, <1>n, <2>1, <3>1, <3>2, <3>3
    <3> QED
      BY <1>n, <1>u, <2>1, <3>1, <3>4, SameFailures DEF Steps
  <2>3. CASE ~(dirty + 1 >= FlushThreshold)
    <3>1. dirty' = dirty + 1
      BY <1>5, <2>3 DEF BumpDirty
    <3>2. PICK step \in {"idle", "settle"} : pc' = [pc EXCEPT ![t] = step]
      BY <1>5, <2>3 DEF BumpDirty, Resume, Return, Goto
    <3>3. Weight(step) = 0
      BY <3>2 DEF Weight
    <3>4. dirty + Weight(pc[t]) + unsaved' <= dirty' + Weight(step) + unsaved
      BY <1>t, <1>n, <2>1, <3>1, <3>3
    <3> QED
      BY <1>n, <1>u, <2>1, <3>2, <3>4, SameFailures DEF Steps
  <2> QED
    BY <2>2, <2>3
<1>6. ASSUME NEW t \in Threads, FlushAll(t) \/ StageFlush(t)
      PROVE  LossBounded'
  <2>1. pc[t] \in {"idle", "flush"} /\ UNCHANGED <<dirty, failed, unsaved>>
    BY <1>6 DEF FlushAll, StageFlush, historyVars
  <2>2. PICK step \in {"flush", "rename"} : pc' = [pc EXCEPT ![t] = step]
    BY <1>6 DEF FlushAll, StageFlush, Goto
  <2>3. Weight(pc[t]) \in {0, FlushThreshold} /\ Weight(step) = FlushThreshold
    BY <2>1, <2>2 DEF Weight
  <2>4. dirty + Weight(pc[t]) + unsaved' <= dirty' + Weight(step) + unsaved
    BY <1>t, <1>n, <2>1, <2>3
  <2> QED
    BY <1>n, <1>u, <2>1, <2>2, <2>4, SameFailures DEF Steps
<1>7. ASSUME NEW t \in Threads, CommitFlush(t)
      PROVE  LossBounded'
  BY <1>7, NothingLost DEF CommitFlush
<1>8. ASSUME NEW t \in Threads, FailFlush(t)
      PROVE  LossBounded'
  <2>1. /\ pc[t] = "rename" /\ failed' = failed + 1 /\ UNCHANGED <<dirty, unsaved>>
        /\ pc' = [pc EXCEPT ![t] = "idle"]
    BY <1>8 DEF FailFlush, Return, Goto
  <2>2. Weight(pc[t]) = FlushThreshold /\ Weight("idle") = 0
    BY <2>1 DEF Weight
  <2>3. FlushThreshold * failed \in Nat /\ FlushThreshold * failed' = FlushThreshold * failed + FlushThreshold
    BY <1>t, <2>1, Distributes
  <2>4. dirty + Weight(pc[t]) + FlushThreshold * failed + unsaved'
          <= dirty' + Weight("idle") + FlushThreshold * failed' + unsaved
    BY <1>t, <1>n, <2>1, <2>2, <2>3
  <2>5. failed' \in Nat /\ "idle" \in Steps
    BY <1>t, <2>1 DEF Steps
  <2> QED
    BY <1>n, <1>u, <2>1, <2>4, <2>5, LossShare
<1>9. CASE Restart
  BY <1>9, NothingLost DEF Restart
<1>10. CASE UNCHANGED vars
  BY <1>10 DEF vars, threadVars, historyVars, LossBounded, Uncounted, Unfinished
<1> QED
  BY <1>2, <1>3, <1>4, <1>5, <1>6, <1>7, <1>8, <1>9, <1>10 DEF Next, Step

\* A crash loses less than a threshold of counted writes, those still on their way to the counter
\* (bump_tm_dirty), and one threshold for each flush under way or failed: for any number of
\* threads and any threshold.
THEOREM CrashLosesLittle == Spec => []LossBounded
<1>1. Init => LossBounded
  <2> SUFFICES ASSUME Init PROVE LossBounded
    OBVIOUS
  <2>1. Uncounted = {} /\ Unfinished = {}
    BY DEF Init, Uncounted, Unfinished
  <2>2. Cardinality(Uncounted) = 0 /\ Cardinality(Unfinished) = 0
    BY <2>1, FS_EmptySet
  <2>3. FlushThreshold * (0 + 0) = 0
    BY StoreAssumption
  <2> QED
    BY <2>2, <2>3 DEF Init, LossBounded
<1> QED
  BY <1>1, TypeInit, TypeNext, LossNext, PTL DEF Spec
-----------------------------------------------------------------------------
\* Taking a key out of a recency order, and putting it at the end.
LEMMA RemoveEntry ==
    ASSUME NEW S, NEW order \in Seq(S), NEW at \in 1..Len(order)
    PROVE  /\ RemoveAt(order, at) \in Seq(S) /\ Len(RemoveAt(order, at)) = Len(order) - 1
           /\ \A i \in 1..(Len(order) - 1) :
                 RemoveAt(order, at)[i] = IF i < at THEN order[i] ELSE order[i + 1]
<1> DEFINE before == SubSeq(order, 1, at - 1)
           after == SubSeq(order, at + 1, Len(order))
<1>1. /\ before \in Seq(S) /\ Len(before) = at - 1
      /\ \A i \in 1..(at - 1) : before[i] = order[i]
  OBVIOUS
<1>2. /\ after \in Seq(S) /\ Len(after) = Len(order) - at
      /\ \A i \in 1..(Len(order) - at) : after[i] = order[at + i]
  OBVIOUS
<1>3. RemoveAt(order, at) = before \o after
  BY DEF RemoveAt
<1> HIDE DEF before, after
<1>4. /\ before \o after \in Seq(S) /\ Len(before \o after) = Len(before) + Len(after)
      /\ \A i \in 1..(Len(before) + Len(after)) :
            (before \o after)[i] = IF i <= Len(before) THEN before[i] ELSE after[i - Len(before)]
  BY <1>1, <1>2, ConcatProperties
<1> QED
  BY <1>1, <1>2, <1>3, <1>4

LEMMA ForgetEntry ==
    ASSUME NEW S, NEW order \in Seq(S), IsInjective(order), NEW k
    PROVE  ToSet(Forget(order, k)) = ToSet(order) \ {k} /\ IsInjective(Forget(order, k))
<1>1. CASE k \in ToSet(order)
  <2> DEFINE at == CHOOSE i \in DOMAIN order : order[i] = k
             short == RemoveAt(order, at)
  <2>1. at \in 1..Len(order) /\ order[at] = k
    BY <1>1 DEF ToSet
  <2> HIDE DEF at
  <2>2. /\ short \in Seq(S) /\ Len(short) = Len(order) - 1
        /\ \A i \in 1..(Len(order) - 1) : short[i] = IF i < at THEN order[i] ELSE order[i + 1]
    BY <2>1, RemoveEntry
  <2>3. Forget(order, k) = short
    BY <1>1 DEF Forget, at
  <2> HIDE DEF short
  <2>4. \A i, j \in 1..Len(order) : order[i] = order[j] => i = j
    BY DEF IsInjective
  <2>5. DOMAIN short = 1..(Len(order) - 1)
    BY <2>2
  <2>6. IsInjective(short)
    <3> SUFFICES ASSUME NEW i \in 1..(Len(order) - 1), NEW j \in 1..(Len(order) - 1), short[i] = short[j]
                 PROVE  i = j
      BY <2>5 DEF IsInjective
    <3> QED
      BY <2>1, <2>2, <2>4
  <2>7. ToSet(short) = ToSet(order) \ {k}
    <3>1. ASSUME NEW x \in ToSet(short) PROVE x \in ToSet(order) \ {k}
      <4>1. PICK i \in 1..(Len(order) - 1) : x = short[i]
        BY <2>5, <3>1 DEF ToSet
      <4>2. PICK j \in 1..Len(order) : x = order[j] /\ j # at
        BY <2>1, <2>2, <4>1
      <4> QED
        BY <2>1, <2>4, <4>2 DEF ToSet
    <3>2. ASSUME NEW x \in ToSet(order) \ {k} PROVE x \in ToSet(short)
      <4>1. PICK j \in 1..Len(order) : x = order[j] /\ j # at
        BY <2>1, <3>2 DEF ToSet
      <4>2. CASE j < at
        BY <2>1, <2>2, <2>5, <4>1, <4>2 DEF ToSet
      <4>3. CASE j > at
        <5>1. j - 1 \in 1..(Len(order) - 1) /\ short[j - 1] = order[j]
          BY <2>1, <2>2, <4>1, <4>3
        <5> QED
          BY <2>5, <4>1, <5>1 DEF ToSet
      <4> QED
        BY <2>1, <4>1, <4>2, <4>3
    <3> QED
      BY <3>1, <3>2
  <2> QED
    BY <2>3, <2>6, <2>7
<1>2. CASE k \notin ToSet(order)
  BY <1>2 DEF Forget
<1> QED
  BY <1>1, <1>2

LEMMA TouchEntry ==
    ASSUME NEW S, NEW order \in Seq(S), IsInjective(order), NEW k \in S
    PROVE  /\ Touch(order, k) \in Seq(S) /\ Touch(order, k) # <<>>
           /\ ToSet(Touch(order, k)) = ToSet(order) \cup {k} /\ IsInjective(Touch(order, k))
<1> DEFINE short == Forget(order, k)
<1>1. short \in Seq(S) /\ ToSet(short) = ToSet(order) \ {k} /\ IsInjective(short)
  BY ForgetType, ForgetEntry
<1>2. Touch(order, k) = Append(short, k)
  BY DEF Touch
<1> HIDE DEF short
<1>3. /\ Append(short, k) \in Seq(S) /\ Len(Append(short, k)) = Len(short) + 1
      /\ DOMAIN Append(short, k) = 1..(Len(short) + 1) /\ DOMAIN short = 1..Len(short)
      /\ Len(short) \in Nat
      /\ Append(short, k)[Len(short) + 1] = k
      /\ \A i \in 1..Len(short) : Append(short, k)[i] = short[i]
  BY <1>1
<1>4. ToSet(Append(short, k)) = ToSet(short) \cup {k}
  BY <1>3 DEF ToSet
<1>5. IsInjective(Append(short, k))
  <2>1. \A i \in 1..Len(short) : short[i] # k
    BY <1>1, <1>3 DEF ToSet
  <2> QED
    BY <1>1, <1>3, <2>1 DEF IsInjective
<1>6. Append(short, k) # <<>>
  BY <1>1
<1> QED
  BY <1>1, <1>2, <1>3, <1>4, <1>5, <1>6

LEMMA RefreshConsistent ==
    ASSUME NEW c \in CacheType, Consistent(c), NEW k \in Keys, c.map[k] # NoRow
    PROVE  Consistent(Refresh(c, k))
<1> DEFINE order == Touch(c.order, k)
<1>1. c.order \in Seq(Keys) /\ IsInjective(c.order) /\ k \in ToSet(c.order)
  BY DEF CacheType, Consistent, Cached
<1>2. ToSet(order) = ToSet(c.order) /\ IsInjective(order)
  <2>1. ToSet(order) = ToSet(c.order) \cup {k} /\ IsInjective(order)
    BY <1>1, TouchEntry
  <2> HIDE DEF order
  <2> QED
    BY <1>1, <2>1
<1>3. Refresh(c, k).order = order /\ Refresh(c, k).map = c.map
  BY DEF Refresh, CacheType
<1> HIDE DEF order
<1>4. Cached(Refresh(c, k)) = Cached(c)
  BY <1>3 DEF Cached
<1> QED
  BY <1>2, <1>3, <1>4 DEF Consistent

LEMMA InvalidateConsistent ==
    ASSUME NEW c \in CacheType, Consistent(c), NEW k \in Keys
    PROVE  Consistent(Invalidate(c, k))
<1>1. c.order \in Seq(Keys) /\ IsInjective(c.order) /\ c.map \in [Keys -> Rows \cup {NoRow}]
  BY DEF CacheType, Consistent
<1> DEFINE order == Forget(c.order, k)
           map == [c.map EXCEPT ![k] = NoRow]
           less == [map |-> map, order |-> order]
<1>2. ToSet(order) = ToSet(c.order) \ {k} /\ IsInjective(order)
  BY <1>1, ForgetEntry
<1>3. Invalidate(c, k) = less
  BY DEF Invalidate
<1>4. Cached(less) = Cached(c) \ {k}
  BY <1>1 DEF Cached
<1>5. IsFiniteSet(Cached(c))
  BY CacheAssumption, FS_Subset DEF Cached
<1>6. Cardinality(Cached(less)) <= Cardinality(Cached(c))
  BY <1>4, <1>5, FS_Subset
<1>7. Cardinality(Cached(less)) \in Nat /\ Cardinality(Cached(c)) \in Nat
  BY <1>4, <1>5, FS_Subset, FS_CardinalityType
<1>8. less.order = order
  OBVIOUS
<1> HIDE DEF order, map, less
<1>9. Cardinality(Cached(less)) <= Capacity
  BY <1>6, <1>7, CacheAssumption DEF Consistent
<1> QED
  BY <1>2, <1>3, <1>4, <1>8, <1>9 DEF Consistent

LEMMA BumpHitsConsistent ==
    ASSUME NEW c \in CacheType, Consistent(c), NEW k \in Keys
    PROVE  Consistent(BumpHits(c, k))
<1>1. CASE c.map[k] = NoRow
  BY <1>1 DEF BumpHits
<1>2. CASE c.map[k] # NoRow
  <2>1. c.map[k] \in Rows /\ c.map \in [Keys -> Rows \cup {NoRow}]
    BY <1>2 DEF CacheType
  <2> DEFINE row == [c.map[k] EXCEPT !.hits = @ + 1]
  <2>2. row \in Rows
    BY <2>1, CountedRow
  <2>3. row # NoRow
    BY <2>2, RowAssumption
  <2>4. /\ BumpHits(c, k).map = [c.map EXCEPT ![k] = row]
        /\ BumpHits(c, k).order = c.order
    BY <1>2 DEF BumpHits, CacheType
  <2> HIDE DEF row
  <2>5. Cached(BumpHits(c, k)) = Cached(c)
    BY <1>2, <2>1, <2>3, <2>4 DEF Cached
  <2> QED
    BY <2>4, <2>5 DEF Consistent
<1> QED
  BY <1>1, <1>2

\* One entry more than the capacity, and the head of the order makes room.
LEMMA PutConsistent ==
    ASSUME NEW c \in CacheType, Consistent(c), NEW k \in Keys, NEW row \in Rows
    PROVE  Consistent(Put(c, k, row))
<1>1. c.order \in Seq(Keys) /\ IsInjective(c.order) /\ c.map \in [Keys -> Rows \cup {NoRow}]
  BY DEF CacheType, Consistent
<1> DEFINE order == Touch(c.order, k)
           map == [c.map EXCEPT ![k] = row]
           full == [map |-> map, order |-> order]
           oldest == Head(order)
           evicted == [map |-> [map EXCEPT ![oldest] = NoRow], order |-> Tail(order)]
<1>2. /\ order \in Seq(Keys) /\ order # <<>>
      /\ ToSet(order) = ToSet(c.order) \cup {k} /\ IsInjective(order)
  BY <1>1, TouchEntry
<1>3. map \in [Keys -> Rows \cup {NoRow}] /\ row # NoRow
  BY <1>1, RowAssumption
<1>4. Cached(full) = Cached(c) \cup {k}
  BY <1>1, <1>3 DEF Cached
<1>5. IsFiniteSet(Cached(c)) /\ Cardinality(Cached(c)) \in Nat
  BY CacheAssumption, FS_Subset, FS_CardinalityType DEF Cached
<1>6. Cardinality(Cached(full)) <= Capacity + 1 /\ IsFiniteSet(Cached(full))
      /\ Cardinality(Cached(full)) \in Nat
  <2>1. CASE k \in Cached(c)
    <3>1. Cached(full) = Cached(c)
      BY <1>4, <2>1
    <3> QED
      BY <1>5, <3>1, CacheAssumption DEF Consistent
  <2>2. CASE k \notin Cached(c)
    <3>1. Cardinality(Cached(full)) = Cardinality(Cached(c)) + 1 /\ IsFiniteSet(Cached(full))
      BY <1>4, <1>5, <2>2, FS_AddElement
    <3> QED
      BY <1>5, <3>1, CacheAssumption DEF Consistent
  <2> QED
    BY <2>1, <2>2
<1>7. Put(c, k, row) = IF Cardinality(Cached(full)) > Capacity THEN evicted ELSE full
  BY DEF Put
<1>8. full.order = order /\ full.map = map /\ evicted.order = Tail(order)
  OBVIOUS
<1>9. ToSet(order) = Cached(full)
  BY <1>2, <1>4 DEF Consistent
<1>10. Cached(evicted) = Cached(full) \ {oldest}
  <2>1. oldest \in Keys
    BY <1>2
  <2> QED
    BY <1>3, <2>1 DEF Cached
<1> HIDE DEF order, map, full, evicted
<1>11. CASE ~(Cardinality(Cached(full)) > Capacity)
  BY <1>2, <1>6, <1>7, <1>8, <1>9, <1>11, CacheAssumption DEF Consistent
<1>12. CASE Cardinality(Cached(full)) > Capacity
  <2>1. /\ DOMAIN order = 1..Len(order) /\ Len(order) \in Nat \ {0}
        /\ oldest = order[1]
        /\ DOMAIN Tail(order) = 1..(Len(order) - 1)
        /\ \A i \in 1..(Len(order) - 1) : Tail(order)[i] = order[i + 1]
    BY <1>2
  <2>2. \A i, j \in 1..Len(order) : order[i] = order[j] => i = j
    BY <1>2, <2>1 DEF IsInjective
  <2> HIDE DEF oldest
  <2>3. ToSet(Tail(order)) = ToSet(order) \ {oldest}
    <3>1. ASSUME NEW x \in ToSet(Tail(order)) PROVE x \in ToSet(order) \ {oldest}
      BY <2>1, <2>2, <3>1 DEF ToSet
    <3>2. ASSUME NEW x \in ToSet(order) \ {oldest} PROVE x \in ToSet(Tail(order))
      <4>1. PICK i \in 1..Len(order) : x = order[i] /\ i # 1
        BY <2>1, <3>2 DEF ToSet
      <4>2. i - 1 \in 1..(Len(order) - 1) /\ Tail(order)[i - 1] = x
        BY <2>1, <4>1
      <4> QED
        BY <2>1, <4>2 DEF ToSet
    <3> QED
      BY <3>1, <3>2
  <2>4. IsInjective(Tail(order))
    <3> SUFFICES ASSUME NEW i \in 1..(Len(order) - 1), NEW j \in 1..(Len(order) - 1),
                        Tail(order)[i] = Tail(order)[j]
                 PROVE  i = j
      BY <2>1 DEF IsInjective
    <3>1. order[i + 1] = order[j + 1] /\ i + 1 \in 1..Len(order) /\ j + 1 \in 1..Len(order)
      BY <2>1
    <3> QED
      BY <2>2, <3>1
  <2>5. oldest \in Cached(full)
    BY <1>9, <2>1 DEF ToSet
  <2>6. Cardinality(Cached(evicted)) = Cardinality(Cached(full)) - 1
    BY <1>6, <1>10, <2>5, FS_RemoveElement
  <2>7. Cardinality(Cached(evicted)) <= Capacity
    BY <1>6, <2>6, CacheAssumption
  <2> QED
    BY <1>7, <1>8, <1>9, <1>10, <1>12, <2>3, <2>4, <2>7 DEF Consistent
<1> QED
  BY <1>11, <1>12

\* No key is ranked twice, so what the cache is warmed with is ranked once.
LEMMA RankedOnce ==
    ASSUME NEW records \in [Keys -> Records \cup {NoRow}],
           NEW ranked \in Rankings(records)
    PROVE  IsInjective(ranked)
<1> DEFINE listed == {k \in Keys : Contract!Active(records, k)}
<1>1. IsFiniteSet(listed) /\ listed \subseteq Keys
  BY CacheAssumption, FS_Subset
<1>2. Cardinality(listed) \in Nat
  BY <1>1, FS_CardinalityType
<1>3. /\ ranked \in [1..Cardinality(listed) -> listed]
      /\ \A i, j \in DOMAIN ranked : i < j => Hotter(records, ranked[i], ranked[j])
  BY DEF Rankings
<1>4. \A k \in listed : k \in Nat /\ records[k].row.hits \in Nat
  BY <1>1, StoreAssumption, RecordType DEF listed, Contract!Active, Rows, Contract!Rows
<1> HIDE DEF listed
<1>5. \A k \in listed : ~Hotter(records, k, k)
  BY <1>4 DEF Hotter
<1> SUFFICES ASSUME NEW i \in DOMAIN ranked, NEW j \in DOMAIN ranked, ranked[i] = ranked[j]
             PROVE  i = j
  BY DEF IsInjective
<1>6. i \in Nat /\ j \in Nat /\ ranked[i] \in listed
  BY <1>2, <1>3
<1>7. ~(i < j) /\ ~(j < i)
  BY <1>3, <1>5, <1>6
<1> QED
  BY <1>6, <1>7

\* A piece of a sequence without repetitions has none.
LEMMA PieceInjective ==
    ASSUME NEW S, NEW s \in Seq(S), IsInjective(s),
           NEW m \in Nat \ {0}, NEW n \in 0..Len(s)
    PROVE  IsInjective(SubSeq(s, m, n))
<1> DEFINE piece == SubSeq(s, m, n)
<1>1. /\ DOMAIN s = 1..Len(s)
      /\ \A i \in DOMAIN piece : /\ i \in Nat /\ i + m - 1 \in 1..Len(s)
                                 /\ piece[i] = s[i + m - 1]
  OBVIOUS
<1> HIDE DEF piece
<1> SUFFICES ASSUME NEW i \in DOMAIN piece, NEW j \in DOMAIN piece, piece[i] = piece[j]
             PROVE  i = j
  BY DEF IsInjective, piece
<1>2. s[i + m - 1] = s[j + m - 1]
  BY <1>1
<1>3. i + m - 1 = j + m - 1
  BY <1>1, <1>2 DEF IsInjective
<1> QED
  BY <1>1, <1>3

\* A sequence has at most as many entries as it is long.
LEMMA EntriesBounded ==
    ASSUME NEW S, NEW s \in Seq(S)
    PROVE  /\ IsFiniteSet(ToSet(s)) /\ Cardinality(ToSet(s)) \in Nat
           /\ Cardinality(ToSet(s)) <= Len(s)
<1>1. Len(s) \in Nat /\ s \in [1..Len(s) -> ToSet(s)]
  BY DEF ToSet
<1>2. \A x \in ToSet(s) : \E i \in 1..Len(s) : s[i] = x
  BY <1>1 DEF ToSet
<1>3. IsFiniteSet(1..Len(s)) /\ Cardinality(1..Len(s)) = Len(s)
  BY <1>1, FS_Interval
<1>4. s \in Surjection(1..Len(s), ToSet(s))
  BY <1>1, <1>2 DEF Surjection
<1>5. IsFiniteSet(ToSet(s)) /\ Cardinality(ToSet(s)) <= Cardinality(1..Len(s))
  BY <1>3, <1>4, FS_Surjection
<1> QED
  BY <1>3, <1>5, FS_CardinalityType

\* The warm-up of init leaves the last Capacity of the first WarmupN keys.
LEMMA OpenedConsistent ==
    ASSUME NEW records \in [Keys -> Records \cup {NoRow}],
           NEW ranked \in Rankings(records)
    PROVE  Consistent(Opened(records, ranked))
<1> DEFINE listed == {k \in Keys : Contract!Active(records, k)}
           upto == IF WarmupN < Len(ranked) THEN WarmupN ELSE Len(ranked)
           top  == SubSeq(ranked, 1, upto)
           from == IF Len(top) > Capacity THEN Len(top) - Capacity + 1 ELSE 1
           kept == SubSeq(top, from, Len(top))
           row  == [k \in Keys |-> records[k].row]
           warm == [map |-> [k \in Keys |-> IF k \in ToSet(kept) THEN row[k] ELSE NoRow],
                    order |-> kept]
<1>1. IsFiniteSet(listed) /\ listed \subseteq Keys
  BY CacheAssumption, FS_Subset
<1>2. Cardinality(listed) \in Nat
  BY <1>1, FS_CardinalityType
<1>3. ranked \in [1..Cardinality(listed) -> listed]
  BY DEF Rankings
<1>4. Opened(records, ranked) = warm
  BY DEF Opened, WarmUp
<1>5. \A k \in listed : records[k].row # NoRow
  BY RecordType, RowAssumption DEF listed, Contract!Active
<1> HIDE DEF listed
<1>6. ranked \in Seq(listed) /\ IsInjective(ranked)
  BY <1>2, <1>3, RankedOnce
<1>7. upto \in 0..Len(ranked)
  BY <1>6, StoreAssumption
<1> HIDE DEF upto
<1>8. top \in Seq(listed) /\ IsInjective(top)
  BY <1>6, <1>7, PieceInjective
<1> HIDE DEF top
<1>9. from \in Nat \ {0} /\ from \in 1..(Len(top) + 1) /\ Len(top) - from + 1 <= Capacity
  BY <1>8, CacheAssumption
<1> HIDE DEF from
<1>10. /\ kept \in Seq(listed) /\ Len(kept) <= Capacity
  BY <1>8, <1>9
<1>11. IsInjective(kept)
  <2>1. Len(top) \in 0..Len(top)
    BY <1>8
  <2> QED
    BY <1>8, <1>9, <2>1, PieceInjective
<1> HIDE DEF kept
<1>12. ToSet(kept) \subseteq listed
  BY <1>10 DEF ToSet
<1>13. Cached(warm) = ToSet(kept)
  BY <1>1, <1>5, <1>12 DEF Cached
<1>14. Cardinality(ToSet(kept)) <= Capacity
  <2>1. Cardinality(ToSet(kept)) \in Nat /\ Cardinality(ToSet(kept)) <= Len(kept)
    BY <1>10, EntriesBounded
  <2> QED
    BY <1>10, <2>1, CacheAssumption
<1>15. warm.order = kept
  OBVIOUS
<1> HIDE DEF warm
<1> QED
  BY <1>4, <1>11, <1>13, <1>14, <1>15 DEF Consistent

LEMMA ConsistentNext == TypeInv /\ CacheConsistent /\ [Next]_vars => CacheConsistent'
<1> SUFFICES ASSUME TypeInv, CacheConsistent, [Next]_vars PROVE CacheConsistent'
  OBVIOUS
<1>m. MemoryTypeOK /\ Carrying /\ cache \in CacheType /\ Consistent(cache)
  BY DEF TypeInv, TypeOK, MemoryTypeOK, CacheType, CacheConsistent
<1>s. SUFFICES Consistent(cache')
  BY DEF CacheConsistent
<1>1. ASSUME NEW t \in Threads, NEW k \in Keys, LookupCache(t, k) PROVE Consistent(cache')
  BY <1>1, <1>m, RefreshConsistent DEF LookupCache
<1>2. ASSUME NEW t \in Threads, CacheRow(t) PROVE Consistent(cache')
  <2>1. local[t].key \in Keys /\ local[t].row \in Rows /\ cache' = Put(cache, local[t].key, local[t].row)
    BY <1>2, <1>m DEF CacheRow, Carrying
  <2> QED
    BY <1>m, <2>1, PutConsistent
<1>3. ASSUME NEW t \in Threads, HitCache(t) PROVE Consistent(cache')
  <2>1. local[t].key \in Keys /\ cache' = BumpHits(cache, local[t].key)
    BY <1>3, <1>m DEF HitCache, Carrying
  <2> QED
    BY <1>m, <2>1, BumpHitsConsistent
<1>4. ASSUME NEW t \in Threads, FlagCache(t) PROVE Consistent(cache')
  <2>1. local[t].key \in Keys /\ cache' = Invalidate(cache, local[t].key)
    BY <1>4, <1>m DEF FlagCache, Carrying
  <2> QED
    BY <1>m, <2>1, InvalidateConsistent
<1>5. CASE Restart
  <2>1. PICK ranked \in Rankings(disk) : cache' = Opened(disk, ranked)
    BY <1>5 DEF Restart
  <2>2. disk \in [Keys -> Records \cup {NoRow}]
    BY <1>m DEF MemoryTypeOK
  <2> QED
    BY <2>1, <2>2, OpenedConsistent
<1>6. CASE UNCHANGED cache
  BY <1>6, <1>m
<1> QED
  BY <1>1, <1>2, <1>3, <1>4, <1>5, <1>6
     DEF Next, Step, vars, LookupIndex, UpsertIndex, HitIndex, FlagIndex, BumpDirty,
         FlushAll, StageFlush, CommitFlush, FailFlush

\* The map and the recency order of the LRU never drift apart: every cached key stands
\* in the order once, nothing else does, and the cache keeps to its capacity, however
\* lookups, upserts, hit counts and rejections interleave and whatever warms it up.
THEOREM CacheStaysConsistent == Spec => []CacheConsistent
<1>1. Init => CacheConsistent
  <2> SUFFICES ASSUME Init PROVE CacheConsistent
    OBVIOUS
  <2>1. Cached(EmptyCache) = {} /\ EmptyCache.order = <<>>
    BY DEF Cached, EmptyCache
  <2>2. ToSet(<<>>) = {} /\ IsInjective(<<>>)
    BY DEF ToSet, IsInjective
  <2>3. Cardinality({}) <= Capacity
    BY FS_EmptySet, CacheAssumption
  <2> QED
    BY <2>1, <2>2, <2>3 DEF Init, CacheConsistent, Consistent
<1> QED
  BY <1>1, TypeInit, TypeNext, ConsistentNext, PTL DEF Spec
-----------------------------------------------------------------------------
\* One caller, and every flush reaches the disk: the conditions under which the cache is
\* a copy of the index.  With two callers a row taken before a change is cached after it,
\* and a flush that fails inside an upsert returns before the row reaches the cache.
OneCaller == \E t \in Threads : Threads = {t}
NoFlushFails == MaxFailures = 0

InSync(k) == cache.map[k] # NoRow => Active(k) /\ cache.map[k] = tm[k].row

\* The one key whose cache line may be behind: its operation has changed the index and
\* has not reached the cache yet.
Unsettled(t, k) ==
    /\ k = local[t].key
    /\ \/ pc[t] \in {"count", "drop"}
       \/ pc[t] \in {"dirty", "flush", "rename", "settle"} /\ local[t].row # NoRow

LinesInSync(t) == \A k \in Keys : InSync(k) \/ Unsettled(t, k)

CarriesIndexRow(t) ==
    /\ local[t].row # NoRow =>
          Active(local[t].key) /\ local[t].row = tm[local[t].key].row
    /\ pc[t] \in {"idle", "lookup", "count", "drop"} => local[t].row = NoRow

OneHitBehind(t) ==
    pc[t] = "count" /\ cache.map[local[t].key] # NoRow =>
        /\ Active(local[t].key)
        /\ tm[local[t].key].row = [cache.map[local[t].key] EXCEPT !.hits = @ + 1]

Synced == \A t \in Threads : LinesInSync(t) /\ CarriesIndexRow(t) /\ OneHitBehind(t)

\* put leaves the row under its key, or evicts it at once.
LEMMA PutOwnLine ==
    ASSUME NEW c \in CacheType, NEW k \in Keys, NEW row \in Rows
    PROVE  Put(c, k, row).map[k] \in {NoRow, row}
<1> DEFINE map    == [c.map EXCEPT ![k] = row]
           oldest == Head(Touch(c.order, k))
<1>1. Put(c, k, row).map \in {map, [map EXCEPT ![oldest] = NoRow]}
  BY DEF Put
<1>2. map \in [Keys -> Rows \cup {NoRow}] /\ map[k] = row
  BY DEF CacheType
<1> HIDE DEF map, oldest
<1> QED
  BY <1>1, <1>2

LEMMA PutOtherLine ==
    ASSUME NEW c \in CacheType, NEW k \in Keys, NEW row \in Rows, NEW j \in Keys \ {k}
    PROVE  Put(c, k, row).map[j] \in {NoRow, c.map[j]}
<1> DEFINE map    == [c.map EXCEPT ![k] = row]
           oldest == Head(Touch(c.order, k))
<1>1. Put(c, k, row).map \in {map, [map EXCEPT ![oldest] = NoRow]}
  BY DEF Put
<1>2. map \in [Keys -> Rows \cup {NoRow}] /\ map[j] = c.map[j]
  BY DEF CacheType
<1> HIDE DEF map, oldest
<1> QED
  BY <1>1, <1>2

LEMMA SyncedNext ==
    ASSUME OneCaller, NoFlushFails, TypeInv, Synced, [Next]_vars
    PROVE  Synced'
<1>m. MemoryTypeOK /\ ThreadTypeOK /\ Carrying /\ cache \in CacheType
  BY DEF TypeInv, TypeOK, MemoryTypeOK, CacheType
<1>s. SUFFICES ASSUME NEW t \in Threads
               PROVE  LinesInSync(t)' /\ CarriesIndexRow(t)' /\ OneHitBehind(t)'
  BY DEF Synced
<1>t. \A u \in Threads : u = t
  BY DEF OneCaller
<1>i. LinesInSync(t) /\ CarriesIndexRow(t) /\ OneHitBehind(t)
  BY DEF Synced
<1>l. local[t] \in [key : Keys \cup {NoRow}, row : Rows \cup {NoRow}]
  BY <1>m DEF ThreadTypeOK
\* An operation that has nothing left to settle finds every line in sync.
<1>c. ASSUME \/ pc[t] \in {"idle", "lookup", "fill"}
             \/ local[t].row = NoRow /\ pc[t] \notin {"count", "drop"}
      PROVE  \A k \in Keys : InSync(k)
  BY <1>i, <1>c DEF LinesInSync, Unsettled
<1>1. ASSUME NEW k \in Keys, LookupCache(t, k)
      PROVE  LinesInSync(t)' /\ CarriesIndexRow(t)' /\ OneHitBehind(t)'
  <2>1. (\A j \in Keys : InSync(j)) /\ local[t].row = NoRow
    BY <1>1, <1>c, <1>i DEF LookupCache, CarriesIndexRow
  <2>2. cache'.map = cache.map /\ UNCHANGED tm
    BY <1>1, <1>m DEF LookupCache, Refresh, CacheType
  <2>3. local'[t].row = NoRow /\ pc'[t] \in {"idle", "lookup"}
    BY <1>1, <1>m, <2>1 DEF LookupCache, Goto, Carry, ThreadTypeOK
  <2> QED
    BY <2>1, <2>2, <2>3
       DEF LinesInSync, InSync, CarriesIndexRow, OneHitBehind, Active, Contract!Active
<1>2. ASSUME LookupIndex(t)
      PROVE  LinesInSync(t)' /\ CarriesIndexRow(t)' /\ OneHitBehind(t)'
  <2>1. \A j \in Keys : InSync(j)
    BY <1>2, <1>c DEF LookupIndex
  <2>2. UNCHANGED <<tm, cache>>
    BY <1>2 DEF LookupIndex
  <2>3. CASE Active(local[t].key)
    <3>1. /\ pc'[t] = "fill"
          /\ local'[t] = [key |-> local[t].key, row |-> tm[local[t].key].row]
      BY <1>2, <1>m, <2>3 DEF LookupIndex, Goto, Carry, ThreadTypeOK
    <3> QED
      BY <2>1, <2>2, <2>3, <3>1
         DEF LinesInSync, InSync, CarriesIndexRow, OneHitBehind, Active, Contract!Active
  <2>4. CASE ~Active(local[t].key)
    <3>1. pc'[t] = "idle" /\ local'[t].row = NoRow
      BY <1>2, <1>m, <2>4 DEF LookupIndex, Return, Goto, Nothing, ThreadTypeOK
    <3> QED
      BY <2>1, <2>2, <3>1
         DEF LinesInSync, InSync, CarriesIndexRow, OneHitBehind, Active, Contract!Active
  <2> QED
    BY <2>3, <2>4
<1>3. ASSUME CacheRow(t)
      PROVE  LinesInSync(t)' /\ CarriesIndexRow(t)' /\ OneHitBehind(t)'
  <2> DEFINE k == local[t].key
             row == local[t].row
  <2>1. /\ k \in Keys /\ row \in Rows /\ row # NoRow
        /\ cache' = Put(cache, k, row) /\ UNCHANGED tm
    BY <1>3, <1>m, RowAssumption DEF CacheRow, Carrying
  <2>2. Active(k) /\ row = tm[k].row
    BY <1>i, <2>1 DEF CarriesIndexRow
  <2>3. pc'[t] = "idle" /\ local'[t].row = NoRow
    BY <1>3, <1>m DEF CacheRow, Return, Goto, Nothing, ThreadTypeOK
  <2>4. ASSUME NEW j \in Keys PROVE InSync(j)'
    <3>1. CASE j = k
      <4>1. cache'.map[k] \in {NoRow, row}
        BY <1>m, <2>1, PutOwnLine
      <4> QED
        BY <3>1, <4>1, <2>1, <2>2 DEF InSync, Active, Contract!Active
    <3>2. CASE j # k
      <4>1. cache'.map[j] \in {NoRow, cache.map[j]}
        BY <1>m, <2>1, <3>2, PutOtherLine
      <4>2. InSync(j)
        BY <1>i, <3>2 DEF LinesInSync, Unsettled
      <4> QED
        BY <4>1, <4>2, <2>1 DEF InSync, Active, Contract!Active
    <3> QED
      BY <3>1, <3>2
  <2> QED
    BY <2>3, <2>4 DEF LinesInSync, CarriesIndexRow, OneHitBehind
<1>4. ASSUME NEW k \in Keys, NEW c \in Candidates, UpsertIndex(t, k, c)
      PROVE  LinesInSync(t)' /\ CarriesIndexRow(t)' /\ OneHitBehind(t)'
  <2> DEFINE kept == Contract!Settled(tm, k, c)
             record == [row |-> kept, flagged |-> FALSE]
  <2>1. kept \in Rows
    BY <1>m, SettledType DEF MemoryTypeOK
  <2>2. /\ tm' = [tm EXCEPT ![k] = record] /\ UNCHANGED cache
        /\ Goto(t, "dirty") /\ Carry(t, k, kept)
    BY <1>4 DEF UpsertIndex
  <2>3. record \in Records /\ record # NoRow /\ record.row = kept /\ ~record.flagged
    <3>1. record \in Records
      BY <2>1, RecordType
    <3> QED
      BY <3>1, RowAssumption
  <2>4. \A j \in Keys : InSync(j)
    BY <1>4, <1>c DEF UpsertIndex
  <2> HIDE DEF kept, record
  <2>5. tm'[k] = record /\ \A j \in Keys \ {k} : tm'[j] = tm[j]
    BY <1>m, <2>2 DEF MemoryTypeOK
  <2>6. pc'[t] = "dirty" /\ local'[t] = [key |-> k, row |-> kept] /\ kept # NoRow
    BY <1>m, <2>1, <2>2, RowAssumption DEF Goto, Carry, ThreadTypeOK
  <2> QED
    BY <2>2, <2>3, <2>4, <2>5, <2>6
       DEF LinesInSync, InSync, Unsettled, CarriesIndexRow, OneHitBehind, Active, Contract!Active
<1>5. ASSUME NEW k \in Keys, HitIndex(t, k)
      PROVE  LinesInSync(t)' /\ CarriesIndexRow(t)' /\ OneHitBehind(t)'
  <2> DEFINE record == [tm[k] EXCEPT !.row.hits = @ + 1]
  <2>1. tm[k] \in Records /\ record \in Records /\ tm' = [tm EXCEPT ![k] = record]
    BY <1>5, <1>m, CountedRecord DEF HitIndex, MemoryTypeOK
  <2>2. /\ record.flagged = tm[k].flagged /\ record # NoRow
        /\ record.row = [tm[k].row EXCEPT !.hits = @ + 1]
    BY <2>1, RecordType, RowAssumption
  <2>3. \A j \in Keys : InSync(j)
    BY <1>5, <1>c DEF HitIndex
  <2>4. /\ pc'[t] = "count" /\ local'[t] = [key |-> k, row |-> NoRow]
        /\ tm[k] # NoRow /\ UNCHANGED cache
    BY <1>5, <1>m DEF HitIndex, Goto, Carry, ThreadTypeOK
  <2> HIDE DEF record
  <2>5. tm'[k] = record /\ \A j \in Keys \ {k} : tm'[j] = tm[j]
    BY <1>m, <2>1 DEF MemoryTypeOK
  <2>6. Active(k) => Active(k)'
    BY <2>2, <2>5 DEF Active, Contract!Active
  <2>7. OneHitBehind(t)'
    BY <2>2, <2>3, <2>4, <2>5, <2>6 DEF OneHitBehind, InSync
  <2>8. LinesInSync(t)' /\ CarriesIndexRow(t)'
    BY <2>3, <2>4, <2>5
       DEF LinesInSync, InSync, Unsettled, CarriesIndexRow, Active, Contract!Active
  <2> QED
    BY <2>7, <2>8
<1>6. ASSUME HitCache(t)
      PROVE  LinesInSync(t)' /\ CarriesIndexRow(t)' /\ OneHitBehind(t)'
  <2> DEFINE k == local[t].key
  <2>1. /\ k \in Keys /\ local[t].row = NoRow /\ cache' = BumpHits(cache, k)
        /\ pc'[t] = "dirty" /\ local' = local /\ UNCHANGED tm
    BY <1>6, <1>m, <1>i DEF HitCache, Carrying, CarriesIndexRow, Goto, ThreadTypeOK
  <2>2. ASSUME NEW j \in Keys PROVE InSync(j)'
    <3>1. CASE j = k /\ cache.map[k] # NoRow
      <4>1. /\ Active(k)
            /\ tm[k].row = [cache.map[k] EXCEPT !.hits = @ + 1]
        BY <1>6, <1>i, <3>1 DEF HitCache, OneHitBehind
      <4>2. cache'.map[k] = [cache.map[k] EXCEPT !.hits = @ + 1]
        BY <1>m, <2>1, <3>1 DEF BumpHits, CacheType
      <4> QED
        BY <3>1, <4>1, <4>2, <2>1 DEF InSync, Active, Contract!Active
    <3>2. CASE j = k /\ cache.map[k] = NoRow
      BY <2>1, <3>2 DEF BumpHits, InSync
    <3>3. CASE j # k
      <4>1. cache'.map[j] = cache.map[j]
        BY <1>m, <2>1, <3>3 DEF BumpHits, CacheType
      <4>2. InSync(j)
        BY <1>i, <3>3 DEF LinesInSync, Unsettled
      <4> QED
        BY <4>1, <4>2, <2>1 DEF InSync, Active, Contract!Active
    <3> QED
      BY <3>1, <3>2, <3>3
  <2> QED
    BY <2>1, <2>2 DEF LinesInSync, CarriesIndexRow, OneHitBehind
<1>7. ASSUME NEW k \in Keys, FlagIndex(t, k)
      PROVE  LinesInSync(t)' /\ CarriesIndexRow(t)' /\ OneHitBehind(t)'
  <2>1. \A j \in Keys : InSync(j)
    BY <1>7, <1>c DEF FlagIndex
  <2>2. /\ pc'[t] = "drop" /\ local'[t] = [key |-> k, row |-> NoRow] /\ UNCHANGED cache
    BY <1>7, <1>m DEF FlagIndex, Goto, Carry, ThreadTypeOK
  <2>3. \A j \in Keys \ {k} : tm'[j] = tm[j]
    BY <1>7, <1>m DEF FlagIndex, MemoryTypeOK
  <2> QED
    BY <2>1, <2>2, <2>3
       DEF LinesInSync, InSync, Unsettled, CarriesIndexRow, OneHitBehind, Active, Contract!Active
<1>8. ASSUME FlagCache(t)
      PROVE  LinesInSync(t)' /\ CarriesIndexRow(t)' /\ OneHitBehind(t)'
  <2> DEFINE k == local[t].key
  <2>1. /\ k \in Keys /\ local[t].row = NoRow /\ cache' = Invalidate(cache, k)
        /\ pc'[t] = "dirty" /\ local' = local /\ UNCHANGED tm
    BY <1>8, <1>m, <1>i DEF FlagCache, Carrying, CarriesIndexRow, Goto, ThreadTypeOK
  <2>2. ASSUME NEW j \in Keys PROVE InSync(j)'
    <3>1. cache'.map[j] = IF j = k THEN NoRow ELSE cache.map[j]
      BY <1>m, <2>1 DEF Invalidate, CacheType
    <3>2. j # k => InSync(j)
      BY <1>i DEF LinesInSync, Unsettled
    <3> QED
      BY <3>1, <3>2, <2>1 DEF InSync, Active, Contract!Active
  <2> QED
    BY <2>1, <2>2 DEF LinesInSync, CarriesIndexRow, OneHitBehind
\* Nothing but the step and the dirty counter or the file moves.
<1>r. ASSUME UNCHANGED <<tm, cache>>, pc[t] \in {"dirty", "rename"}, Resume(t)
      PROVE  LinesInSync(t)' /\ CarriesIndexRow(t)' /\ OneHitBehind(t)'
  <2>1. CASE local[t].row = NoRow
    <3>1. pc'[t] = "idle" /\ local'[t].row = NoRow
      BY <1>r, <1>m, <2>1 DEF Resume, Return, Goto, Nothing, ThreadTypeOK
    <3>2. \A j \in Keys : InSync(j)
      BY <1>r, <1>c, <2>1
    <3> QED
      BY <1>r, <3>1, <3>2
         DEF LinesInSync, InSync, CarriesIndexRow, OneHitBehind, Active, Contract!Active
  <2>2. CASE local[t].row # NoRow
    <3>1. pc'[t] = "settle" /\ local' = local
      BY <1>r, <1>m, <2>2 DEF Resume, Goto, ThreadTypeOK
    <3> QED
      BY <1>i, <1>r, <2>2, <3>1
         DEF LinesInSync, InSync, Unsettled, CarriesIndexRow, OneHitBehind, Active, Contract!Active
  <2> QED
    BY <2>1, <2>2
<1>f. ASSUME UNCHANGED <<tm, cache, local>>, pc[t] \in {"idle", "dirty", "flush"},
             pc'[t] \in {"flush", "rename"}
      PROVE  LinesInSync(t)' /\ CarriesIndexRow(t)' /\ OneHitBehind(t)'
  BY <1>i, <1>f
     DEF LinesInSync, InSync, Unsettled, CarriesIndexRow, OneHitBehind, Active, Contract!Active
<1>9. ASSUME BumpDirty(t)
      PROVE  LinesInSync(t)' /\ CarriesIndexRow(t)' /\ OneHitBehind(t)'
  <2>1. CASE dirty + 1 >= FlushThreshold
    BY <1>9, <1>f, <1>m, <2>1 DEF BumpDirty, Goto, ThreadTypeOK
  <2>2. CASE ~(dirty + 1 >= FlushThreshold)
    BY <1>9, <1>r, <2>2 DEF BumpDirty
  <2> QED
    BY <2>1, <2>2
<1>10. ASSUME FlushAll(t) \/ StageFlush(t)
       PROVE  LinesInSync(t)' /\ CarriesIndexRow(t)' /\ OneHitBehind(t)'
  BY <1>10, <1>f, <1>m DEF FlushAll, StageFlush, Goto, ThreadTypeOK
<1>11. ASSUME CommitFlush(t)
       PROVE  LinesInSync(t)' /\ CarriesIndexRow(t)' /\ OneHitBehind(t)'
  BY <1>11, <1>r DEF CommitFlush
<1>12. ~FailFlush(t)
  BY <1>m DEF FailFlush, MemoryTypeOK, NoFlushFails
<1>13. ASSUME Restart
       PROVE  LinesInSync(t)' /\ CarriesIndexRow(t)' /\ OneHitBehind(t)'
  <2>1. \A k \in Keys : cache'.map[k] # NoRow =>
           Contract!Active(disk, k) /\ cache'.map[k] = disk[k].row
    BY <1>13, <1>m, OpenedType DEF Restart, MemoryTypeOK
  <2>2. pc'[t] = "idle" /\ local'[t].row = NoRow /\ tm' = disk
    BY <1>13 DEF Restart, Nothing
  <2> QED
    BY <2>1, <2>2
       DEF LinesInSync, InSync, CarriesIndexRow, OneHitBehind, Active, Contract!Active
<1>14. ASSUME UNCHANGED vars
       PROVE  LinesInSync(t)' /\ CarriesIndexRow(t)' /\ OneHitBehind(t)'
  BY <1>14, <1>i DEF vars, threadVars, LinesInSync, InSync, Unsettled, CarriesIndexRow,
     OneHitBehind, Active, Contract!Active
<1> QED
  BY <1>t, <1>1, <1>2, <1>3, <1>4, <1>5, <1>6, <1>7, <1>8, <1>9, <1>10, <1>11, <1>12,
     <1>13, <1>14 DEF Next, Step

LEMMA SyncedInit == Init => Synced
BY DEF Init, Synced, LinesInSync, InSync, CarriesIndexRow, OneHitBehind, EmptyCache, Nothing

\* Between two operations every line of the cache is in sync.
LEMMA SyncedLines ==
    ASSUME OneCaller, Synced, \A t \in Threads : pc[t] = "idle"
    PROVE  \A k \in Cached(cache) : Active(k) /\ cache.map[k] = tm[k].row
BY DEF OneCaller, Synced, LinesInSync, Unsettled, InSync, Cached

\* With one caller and a disk that takes every flush, what the cache answers between two
\* operations is the row the index keeps, text, quality and hit count, whatever the
\* capacity, the warm-up and the crashes.
THEOREM OneCallerAnswersMatch ==
    ASSUME OneCaller, NoFlushFails
    PROVE  Spec => []AnswersMatchIndex
<1>1. Synced => AnswersMatchIndex
  BY SyncedLines DEF AnswersMatchIndex
<1>2. TypeInv /\ Synced /\ [Next]_vars => Synced'
  BY SyncedNext
<1> QED
  BY <1>1, <1>2, SyncedInit, TypeInit, TypeNext, PTL DEF Spec

\* With one caller and a disk that takes every flush, what lib.rs says of tt_tm_flag_bad
\* is so: no lookup answers with a flagged row.  It is a second caller that breaks it.
THEOREM OneCallerStopsAnswering ==
    ASSUME OneCaller, NoFlushFails
    PROVE  Spec => []FlaggedRowsStopAnswering
<1>1. Synced => FlaggedRowsStopAnswering
  BY SyncedLines DEF FlaggedRowsStopAnswering, Active, Contract!Active
<1>2. TypeInv /\ Synced /\ [Next]_vars => Synced'
  BY SyncedNext
<1> QED
  BY <1>1, <1>2, SyncedInit, TypeInit, TypeNext, PTL DEF Spec

-----------------------------------------------------------------------------
(* A row over time.  Where the quality rule, the hit counts and the        *)
(* rejections of any number of threads take it within one life of the      *)
(* process, and how far behind the file it can be found.                   *)

\* A later state of a row: a better translation, or the same one used at least as often.
Improves(old, new) ==
    \/ new.quality > old.quality
    \/ new.quality = old.quality /\ new.text = old.text /\ new.hits >= old.hits

\* No row is lost; one that answers gets no worse, and one that was rejected answers again only
\* with a newcomer's translation, counted from one.
RowsKeep(records, next) ==
    \A k \in Keys : records[k] # NoRow =>
        /\ next[k] # NoRow
        /\ ~records[k].flagged /\ ~next[k].flagged => Improves(records[k].row, next[k].row)
        /\ records[k].flagged /\ ~next[k].flagged => next[k].row.hits = 1

\* The file holds an earlier state of each row, until the row is rejected.
FileBehind ==
    \A k \in Keys \ rejected : disk[k] # NoRow /\ ~disk[k].flagged =>
        Active(k) /\ Improves(disk[k].row, tm[k].row)

LEMMA ImprovesOrder ==
    ASSUME NEW a \in Rows, NEW b \in Rows, NEW c \in Rows
    PROVE  Improves(a, a) /\ (Improves(a, b) /\ Improves(b, c) => Improves(a, c))
<1>1. /\ a.quality \in Nat /\ b.quality \in Nat /\ c.quality \in Nat
      /\ a.hits \in Nat /\ b.hits \in Nat /\ c.hits \in Nat
  BY RowQuality DEF Rows, Contract!Rows
<1> QED
  BY <1>1 DEF Improves

LEMMA SettledImproves ==
    ASSUME TypeInv, NEW k \in Keys, NEW c \in Candidates
    PROVE  LET kept == Contract!Settled(tm, k, c)
           IN  /\ Active(k) => Improves(tm[k].row, kept)
               /\ ~Active(k) => kept.hits = 1
<1>1. ASSUME Active(k) PROVE Improves(tm[k].row, Contract!Merge(tm[k].row, c))
  <2> DEFINE mine == tm[k].row
  <2>1. mine \in Rows
    BY <1>1, RecordType DEF TypeInv, TypeOK, MemoryTypeOK, Active, Contract!Active
  <2>2. mine.quality \in Nat /\ mine.hits \in Nat /\ c.quality \in Nat
    BY <2>1, RowQuality, StoreAssumption DEF Rows, Contract!Rows
  <2>3. CASE c.quality > mine.quality
    <3>1. Contract!Merge(mine, c).quality = c.quality
      BY <2>3 DEF Contract!Merge, Contract!Fresh
    <3> QED
      BY <2>3, <3>1 DEF Improves
  <2>4. CASE ~(c.quality > mine.quality)
    <3>1. Contract!Merge(mine, c) = [mine EXCEPT !.hits = @ + 1]
      BY <2>4 DEF Contract!Merge
    <3>2. /\ Contract!Merge(mine, c).quality = mine.quality
          /\ Contract!Merge(mine, c).text = mine.text
          /\ Contract!Merge(mine, c).hits = mine.hits + 1
      BY <2>1, <3>1 DEF Rows, Contract!Rows
    <3> QED
      BY <2>2, <3>2 DEF Improves
  <2> QED
    BY <2>3, <2>4
<1> QED
  BY <1>1 DEF Contract!Settled, Contract!Fresh, Active, Contract!Active

\* What a step does to the table: nothing, one of the three writes, or a restart.
LEMMA TableSteps ==
    ASSUME TypeInv, [Next]_vars, ~Restart
    PROVE  \/ UNCHANGED tm
           \/ \E k \in Keys :
                 \/ \E c \in Candidates : tm' = [tm EXCEPT ![k] =
                       [row |-> Contract!Settled(tm, k, c), flagged |-> FALSE]]
                 \/ tm[k] # NoRow /\ tm' = [tm EXCEPT ![k].row.hits = @ + 1]
                 \/ /\ tm[k] # NoRow /\ tm' = [tm EXCEPT ![k].flagged = TRUE]
                    /\ rejected' = rejected \cup {k}
<1>1. ASSUME NEW t \in Threads,
             \/ \E k \in Keys : LookupCache(t, k)
             \/ LookupIndex(t) \/ CacheRow(t) \/ HitCache(t) \/ FlagCache(t)
             \/ BumpDirty(t) \/ FlushAll(t) \/ StageFlush(t) \/ CommitFlush(t) \/ FailFlush(t)
      PROVE  UNCHANGED tm
  BY <1>1 DEF LookupCache, LookupIndex, CacheRow, HitCache, FlagCache, BumpDirty, FlushAll,
     StageFlush, CommitFlush, FailFlush
<1>2. CASE UNCHANGED vars
  BY <1>2 DEF vars
<1> QED
  BY <1>1, <1>2 DEF Next, Step, UpsertIndex, HitIndex, FlagIndex

LEMMA RowsKeepNext ==
    ASSUME TypeInv, [Next]_vars, ~Restart
    PROVE  RowsKeep(tm, tm')
<1>m. tm \in [Keys -> Records \cup {NoRow}] /\ NoRow \notin Records
  BY RowAssumption DEF TypeInv, TypeOK, MemoryTypeOK
<1>r. ASSUME NEW k \in Keys, tm[k] # NoRow
      PROVE  tm[k].row \in Rows /\ tm[k] \in Records
  BY <1>m, <1>r, RecordType
<1>s. \A k \in Keys : tm[k] # NoRow => Improves(tm[k].row, tm[k].row)
  BY <1>r, ImprovesOrder
<1>1. CASE UNCHANGED tm
  BY <1>1, <1>s DEF RowsKeep
<1>2. ASSUME NEW k \in Keys, NEW c \in Candidates,
             tm' = [tm EXCEPT ![k] = [row |-> Contract!Settled(tm, k, c), flagged |-> FALSE]]
      PROVE  RowsKeep(tm, tm')
  <2>1. /\ tm'[k] = [row |-> Contract!Settled(tm, k, c), flagged |-> FALSE]
        /\ \A j \in Keys \ {k} : tm'[j] = tm[j]
    BY <1>m, <1>2
  <2>2. tm'[k] \in Records
    BY <2>1, <1>m, SettledType, RecordType DEF TypeInv, TypeOK, MemoryTypeOK
  <2>3. /\ Active(k) => Improves(tm[k].row, tm'[k].row)
        /\ ~Active(k) => tm'[k].row.hits = 1
    BY <2>1, SettledImproves
  <2> QED
    BY <1>m, <1>s, <2>1, <2>2, <2>3 DEF RowsKeep, Active, Contract!Active
<1>3. ASSUME NEW k \in Keys, tm[k] # NoRow, tm' = [tm EXCEPT ![k].row.hits = @ + 1]
      PROVE  RowsKeep(tm, tm')
  <2> DEFINE e == [tm[k] EXCEPT !.row.hits = @ + 1]
  <2>1. tm'[k] = e /\ \A j \in Keys \ {k} : tm'[j] = tm[j]
    BY <1>m, <1>3
  <2>2. e \in Records
    BY <1>m, <1>r, <1>3, CountedRecord
  <2>3. /\ e.flagged = tm[k].flagged /\ e.row.quality = tm[k].row.quality
        /\ e.row.text = tm[k].row.text /\ e.row.hits = tm[k].row.hits + 1
        /\ tm[k].row.hits \in Nat
    BY <1>r, <1>3, RecordType DEF Rows, Contract!Rows
  <2> HIDE DEF e
  <2>4. Improves(tm[k].row, e.row)
    BY <2>3 DEF Improves
  <2> QED
    BY <1>m, <1>s, <2>1, <2>2, <2>3, <2>4 DEF RowsKeep
<1>4. ASSUME NEW k \in Keys, tm[k] # NoRow, tm' = [tm EXCEPT ![k].flagged = TRUE]
      PROVE  RowsKeep(tm, tm')
  <2>1. /\ tm'[k] = [tm[k] EXCEPT !.flagged = TRUE]
        /\ \A j \in Keys \ {k} : tm'[j] = tm[j]
    BY <1>m, <1>4
  <2>2. tm'[k] \in Records /\ tm'[k].flagged
    <3>1. tm[k] \in Records
      BY <1>r, <1>4
    <3> QED
      BY <2>1, <3>1, RecordType
  <2> QED
    BY <1>m, <1>s, <2>1, <2>2 DEF RowsKeep
<1> QED
  BY <1>1, <1>2, <1>3, <1>4, TableSteps

\* However many threads look up, offer, count and reject, a row that answers gets no worse while
\* the process lives: its quality never drops, and at one quality its text stays and its count
\* does not fall.  A rejected row answers again only as a new one, counted from its first use.
THEOREM RowsOnlyImprove == Spec => [][Restart \/ RowsKeep(tm, tm')]_vars
<1>1. TypeInv /\ [Next]_vars => [Restart \/ RowsKeep(tm, tm')]_vars
  BY RowsKeepNext
<1> QED
  BY <1>1, TypeInit, TypeNext, PTL DEF Spec

LEMMA FileBehindNext == TypeInv /\ TypeInv' /\ FileBehind /\ [Next]_vars => FileBehind'
<1> SUFFICES ASSUME TypeInv, TypeInv', FileBehind, [Next]_vars PROVE FileBehind'
  OBVIOUS
<1>m. /\ tm \in [Keys -> Records \cup {NoRow}] /\ disk \in [Keys -> Records \cup {NoRow}]
      /\ tm' \in [Keys -> Records \cup {NoRow}] /\ NoRow \notin Records
  BY RowAssumption DEF TypeInv, TypeOK, MemoryTypeOK
<1>r. ASSUME NEW e \in Records PROVE e.row \in Rows
  BY RecordType
<1>1. CASE disk' = tm /\ UNCHANGED tm
  BY <1>m, <1>r, <1>1, ImprovesOrder DEF FileBehind, Active, Contract!Active
<1>2. CASE Restart
  <2>1. tm' = disk /\ disk' = disk
    BY <1>2 DEF Restart
  <2> QED
    BY <1>m, <1>r, <2>1, ImprovesOrder DEF FileBehind, Active, Contract!Active
<1>3. CASE ~Restart /\ UNCHANGED disk
  <2>1. RowsKeep(tm, tm')
    BY <1>3, RowsKeepNext
  <2>2. rejected \subseteq rejected'
    BY <1>3 DEF Next, Step, LookupCache, UpsertIndex, HitIndex, FlagIndex, LookupIndex, CacheRow,
       HitCache, FlagCache, BumpDirty, FlushAll, StageFlush, CommitFlush, FailFlush, vars,
       historyVars
  <2> SUFFICES ASSUME NEW k \in Keys \ rejected', disk[k] # NoRow, ~disk[k].flagged
               PROVE  Active(k)' /\ Improves(disk[k].row, tm'[k].row)
    BY <1>3 DEF FileBehind
  <2>3. tm[k] # NoRow /\ ~tm[k].flagged /\ Improves(disk[k].row, tm[k].row)
    BY <2>2 DEF FileBehind, Active, Contract!Active
  <2>4. tm'[k] # NoRow
    BY <2>1, <2>3 DEF RowsKeep
  <2>5. ~tm'[k].flagged
    <3>1. CASE UNCHANGED tm
      BY <2>3, <3>1
    <3>2. ASSUME NEW j \in Keys, NEW c \in Candidates,
                 tm' = [tm EXCEPT ![j] = [row |-> Contract!Settled(tm, j, c), flagged |-> FALSE]]
          PROVE  ~tm'[k].flagged
      BY <1>m, <2>3, <3>2
    <3>3. ASSUME NEW j \in Keys, tm[j] # NoRow, tm' = [tm EXCEPT ![j].row.hits = @ + 1]
          PROVE  ~tm'[k].flagged
      <4>1. tm'[j] = [tm[j] EXCEPT !.row.hits = @ + 1] /\ (k # j => tm'[k] = tm[k])
        BY <1>m, <3>3
      <4>2. tm'[j].flagged = tm[j].flagged
        BY <1>m, <3>3, <4>1, RecordType
      <4> QED
        BY <2>3, <4>1, <4>2
    <3>4. ASSUME NEW j \in Keys, tm' = [tm EXCEPT ![j].flagged = TRUE],
                 rejected' = rejected \cup {j}
          PROVE  ~tm'[k].flagged
      <4>1. tm'[k] = tm[k]
        BY <1>m, <3>4
      <4> QED
        BY <2>3, <4>1
    <3> QED
      BY <1>3, <3>1, <3>2, <3>3, <3>4, TableSteps
  <2>6. Improves(tm[k].row, tm'[k].row)
    BY <2>1, <2>3, <2>5 DEF RowsKeep
  <2>7. disk[k].row \in Rows /\ tm[k].row \in Rows /\ tm'[k].row \in Rows
    BY <1>m, <1>r, <2>3, <2>4
  <2> QED
    BY <2>3, <2>4, <2>5, <2>6, <2>7, ImprovesOrder DEF Active, Contract!Active
<1>4. ASSUME NEW t \in Threads, CommitFlush(t) PROVE disk' = tm /\ UNCHANGED tm
  BY <1>4 DEF CommitFlush, TypeInv, Carrying
<1>5. ASSUME NEW t \in Threads, Step(t), ~CommitFlush(t) PROVE UNCHANGED disk
  BY <1>5 DEF Step, LookupCache, UpsertIndex, HitIndex, FlagIndex, LookupIndex, CacheRow,
     HitCache, FlagCache, BumpDirty, FlushAll, StageFlush, FailFlush
<1>6. CASE UNCHANGED vars
  BY <1>6 DEF FileBehind, Active, Contract!Active, vars, historyVars
<1> QED
  BY <1>1, <1>2, <1>3, <1>4, <1>5, <1>6 DEF Next

\* What a crash falls back on is behind and never beside: whatever flushes overlap, fail or are
\* lost, each row of the file is an earlier state of the row in memory, as long as nobody has
\* rejected it since the process started.
THEOREM FileStaysBehind == Spec => []FileBehind
<1>1. Init => FileBehind
  BY DEF Init, Contract!Init, FileBehind
<1> QED
  BY <1>1, FileBehindNext, TypeInit, TypeNext, PTL DEF Spec
=============================================================================

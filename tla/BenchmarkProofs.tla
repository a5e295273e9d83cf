-------------------------- MODULE BenchmarkProofs --------------------------
(***************************************************************************)
(* What the two benchmarks keep for any engines, directions, draws, rows   *)
(* and builds, and any number of invocations, retries and mishaps: no      *)
(* sidecar is left behind by an invocation that ends, a noise floor is of  *)
(* one series, draws never mix in an evidence file, and a resumed          *)
(* collection spares what it does not collect and loses stored samples to  *)
(* a kill only.                                                            *)
(***************************************************************************)
EXTENDS Scripts, Sequences, WellFoundedInduction, TLAPS

-----------------------------------------------------------------------------
(* The benchmark over drawn sentences.                                     *)

Samples == [state : {"none", "partial", "done"}, samples : SUBSET F!Sentences]
Records == [F!Cells -> Samples]
Numbers == UNION Draws
EvidenceOf == [ids : Draws, runs : Records]
Collectors ==
    [pc : {"idle", "collect", "copy"}, out : F!EvidenceFiles, ids : Draws \cup {{}},
     collecting : SUBSET F!Cells, todo : SUBSET F!Cells, key : F!Cells \cup {None},
     split : Splits \cup {None}, left : SUBSET Numbers, samples : SUBSET F!Sentences, done : Records, runs : Records,
     copies : SUBSET Engines]

OfDraw(samples, ids) == samples \subseteq F!Asked(ids) /\ F!OneEach(samples)
Drawn(records, ids) == \A k \in F!Cells : OfDraw(records[k].samples, ids)
Ahead(samples, left) == \A s \in samples : s.number \notin left

\* A run works on what it was asked to collect, and holds sentences of its own draw only, each
\* once.
Sound(r) ==
    /\ r \in Collectors
    /\ r.pc # "idle" => r.ids \in Draws /\ r.split \in Splits
    /\ r.todo \subseteq r.collecting
    /\ r.pc = "collect" => r.key \in r.collecting
    /\ r.left \subseteq r.ids /\ OfDraw(r.samples, r.ids) /\ Ahead(r.samples, r.left)
    /\ Drawn(r.runs, r.ids) /\ Drawn(r.done, r.ids)

\* The files of the run, and what the file it resumes held of other engines and directions.
Stored ==
    /\ collected \in [F!EvidenceFiles -> EvidenceOf \cup {None}]
    /\ resumed \in EvidenceOf \cup {None}
    /\ F!OneDrawPerFile

Carried ==
    resumed # None =>
        \A k \in F!Cells \ collector.collecting :
            /\ collected[collector.out].runs[k] = resumed.runs[k]
            /\ collector.pc # "idle" => collector.runs[k] = resumed.runs[k]

FInv == Sound(collector) /\ Stored /\ Carried

LEMMA DrawnNumbers ==
    /\ Numbers \subseteq Nat
    /\ \A ids \in Draws \cup {{}} : ids \subseteq Numbers /\ F!Asked(ids) \subseteq F!Sentences
<1>1. \A ids \in Draws : ids \subseteq Nat
  BY ScriptsAssumption
<1>2. F!Asked({}) = {}
  BY DEF F!Asked
<1>3. \A ids \in Draws : F!Asked(ids) \subseteq F!Sentences
  BY DEF F!Asked, F!Sentences
<1> QED
  BY <1>1, <1>2, <1>3 DEF Numbers

LEMMA NothingIsDrawn ==
    /\ F!NoRuns \in Records /\ \A ids : OfDraw({}, ids) /\ Drawn(F!NoRuns, ids)
    /\ \A left : Ahead({}, left)
BY DEF F!NoRuns, F!NoEntry, Records, Samples, Drawn, OfDraw, Ahead, F!OneEach

LEMMA LeastIsIn ==
    ASSUME NEW S, S \subseteq Nat, S # {}
    PROVE  F!Least(S) \in S
<1> DEFINE R == {ss \in Nat \X Nat : ss[1] < ss[2]}
<1>1. IsWellFoundedOn(R, Nat)
  BY NatLessThanWellFounded DEF OpToRel
<1>2. \A x, y \in Nat : ~ (<<y, x>> \in R) => ~ (y < x)
  OBVIOUS
<1> HIDE DEF R
<1>3. PICK x \in S : \A y \in S : ~ (<<y, x>> \in R)
  BY <1>1, WFMin
<1>4. ASSUME NEW y \in S PROVE x <= y
  <2>1. x \in Nat /\ y \in Nat /\ ~ (<<y, x>> \in R)
    BY <1>3
  <2>2. ~ (y < x)
    BY <2>1, <1>2
  <2> QED
    BY <2>1, <2>2
<1>5. \E n \in S : \A o \in S : n <= o
  BY <1>4
<1> QED
  BY <1>5 DEF F!Least

\* The next of the directions still to do is one of them.
LEMMA NextIsIn ==
    ASSUME NEW todo \in SUBSET F!Cells, todo # {}
    PROVE  F!First(todo) \in todo
<1> DEFINE engines == {k[1] : k \in todo}
           e == F!Least(engines)
           directions == {k[2] : k \in {j \in todo : j[1] = e}}
           d == F!Least(directions)
<1>1. \A k \in todo : k[1] \in Nat /\ k[2] \in Nat /\ k = <<k[1], k[2]>>
  <2>1. Engines \subseteq Nat /\ Directions \subseteq Nat
    BY ScriptsAssumption
  <2>2. \A k \in Engines \X Directions :
           k[1] \in Engines /\ k[2] \in Directions /\ k = <<k[1], k[2]>>
    OBVIOUS
  <2> QED
    BY <2>1, <2>2 DEF F!Cells
<1>2. engines \subseteq Nat /\ engines # {}
  BY <1>1
<1>3. e \in engines
  <2> HIDE DEF engines
  <2> QED
    BY <1>2, LeastIsIn
<1> HIDE DEF e
<1>4. directions \subseteq Nat /\ directions # {}
  BY <1>1, <1>3
<1>5. d \in directions
  <2> HIDE DEF directions
  <2> QED
    BY <1>4, LeastIsIn
<1> HIDE DEF d
<1>6. <<e, d>> \in todo
  BY <1>1, <1>5
<1> QED
  BY <1>6 DEF F!First, e, d

LEMMA CollectSound ==
    ASSUME NEW r, Sound(r), r.ids \in Draws, r.split \in Splits,
           NEW todo \in SUBSET r.collecting
    PROVE  LET next == F!Collect(r, todo)
           IN Sound(next) /\ next.out = r.out /\ next.collecting = r.collecting
                          /\ next.runs = r.runs /\ next.ids = r.ids
                          /\ next.split = r.split
<1>0. r \in Collectors /\ todo \in SUBSET F!Cells /\ r.ids \in SUBSET Numbers
  BY DrawnNumbers DEF Sound, Collectors
<1>1. CASE todo = {}
  <2> DEFINE copies == {e \in Engines : \E d \in Directions : r.runs[<<e, d>>] # F!NoEntry}
             next == [r EXCEPT !.pc = "copy", !.key = None, !.todo = {}, !.copies = copies]
  <2>1. F!Collect(r, todo) = next
    BY <1>1 DEF F!Collect
  <2>2. copies \in SUBSET Engines
    OBVIOUS
  <2> HIDE DEF copies
  <2>3. next \in Collectors
    BY <1>0, <2>2 DEF Collectors
  <2>4. /\ next.pc = "copy" /\ next.todo = {} /\ next.left = r.left /\ next.samples = r.samples
        /\ next.ids = r.ids /\ next.split = r.split /\ next.runs = r.runs /\ next.done = r.done
        /\ next.out = r.out /\ next.collecting = r.collecting
    BY <1>0 DEF Collectors
  <2> HIDE DEF next
  <2> QED
    BY <2>1, <2>3, <2>4 DEF Sound
<1>2. CASE todo # {}
  <2> DEFINE key == F!First(todo)
             next == [r EXCEPT !.pc = "collect", !.key = key, !.todo = todo \ {key},
                               !.left = r.ids, !.samples = {}]
  <2>1. F!Collect(r, todo) = next
    BY <1>2 DEF F!Collect
  <2>2. key \in todo
    BY <1>0, <1>2, NextIsIn
  <2> HIDE DEF key
  <2>3. next \in Collectors
    BY <1>0, <2>2 DEF Collectors
  <2>4. /\ next.key = key /\ next.todo = todo \ {key} /\ next.left = r.ids /\ next.samples = {}
        /\ next.ids = r.ids /\ next.split = r.split /\ next.runs = r.runs /\ next.done = r.done
        /\ next.out = r.out /\ next.collecting = r.collecting
    BY <1>0 DEF Collectors
  <2> HIDE DEF next
  <2> QED
    BY <2>1, <2>2, <2>3, <2>4, NothingIsDrawn DEF Sound
<1> QED
  BY <1>1, <1>2

LEMMA FloresInit == F!Init => FInv
<1> SUFFICES ASSUME F!Init PROVE FInv
  OBVIOUS
<1>2. Sound(F!Idle)
  BY NothingIsDrawn DEF F!Idle, Sound, Collectors, F!EvidenceFiles, F!Mixed
<1>3. Stored
  BY DEF F!Init, Stored, F!OneDrawPerFile
<1>4. Carried
  BY DEF F!Init, Carried
<1> QED
  BY <1>2, <1>3, <1>4 DEF F!Init, FInv

\* A collection with its sentences answered, its sentences left and its record replaced.
Progress(r, samples, left, records) ==
    [r EXCEPT !.samples = samples, !.left = left, !.runs = records]

\* One step of a collection keeps it sound.
LEMMA ProgressSound ==
    ASSUME NEW r, Sound(r), NEW samples, OfDraw(samples, r.ids), NEW left \in SUBSET r.ids,
           Ahead(samples, left), NEW records \in Records, Drawn(records, r.ids)
    PROVE  LET next == Progress(r, samples, left, records)
           IN /\ Sound(next) /\ next.out = r.out /\ next.collecting = r.collecting
              /\ next.runs = records /\ next.ids = r.ids /\ next.pc = r.pc /\ next.split = r.split
<1> DEFINE next == Progress(r, samples, left, records)
<1>1. r \in Collectors /\ samples \in SUBSET F!Sentences /\ left \in SUBSET Numbers
  BY DrawnNumbers DEF Sound, Collectors, OfDraw
<1>2. next \in Collectors
  BY <1>1 DEF Collectors, Progress
<1>3. /\ next.pc = r.pc /\ next.todo = r.todo /\ next.left = left /\ next.samples = samples
      /\ next.ids = r.ids /\ next.split = r.split /\ next.runs = records /\ next.done = r.done /\ next.key = r.key
      /\ next.out = r.out /\ next.collecting = r.collecting
  BY <1>1 DEF Collectors, Progress
<1> HIDE DEF next
<1>4. Sound(next)
  BY <1>2, <1>3 DEF Sound
<1> QED
  BY <1>3, <1>4 DEF next

\* What a write leaves in the files.
LEMMA WriteStored ==
    ASSUME Stored, NEW r, Sound(r), r.ids \in Draws, NEW n \in F!EvidenceFiles, F!Write(n, r), UNCHANGED resumed
    PROVE  Stored' /\ collected'[n].runs = r.runs
             /\ \A m \in F!EvidenceFiles \ {n} : collected'[m] = collected[m]
<1> DEFINE e == [ids |-> r.ids, runs |-> r.runs]
<1>1. e \in EvidenceOf /\ e.runs = r.runs /\ e.ids = r.ids /\ Drawn(e.runs, e.ids)
  BY DEF Sound, Collectors, EvidenceOf
<1>3. collected' = [collected EXCEPT ![n] = e]
  BY DEF F!Write
<1> HIDE DEF e
<1>4. /\ collected' \in [F!EvidenceFiles -> EvidenceOf \cup {None}]
      /\ collected'[n] = e /\ \A m \in F!EvidenceFiles \ {n} : collected'[m] = collected[m]
  BY <1>1, <1>3 DEF Stored
<1>5. F!OneDrawPerFile'
  BY <1>1, <1>4 DEF Stored, F!OneDrawPerFile, Drawn, OfDraw
<1> QED
  BY <1>1, <1>4, <1>5 DEF Stored

\* A collection as it begins, and one that takes over what is stored.
Fresh(out, split, ids, cells) ==
    [F!Idle EXCEPT !.out = out, !.split = split, !.ids = ids, !.collecting = cells]
Resumption(r, done, records) == [r EXCEPT !.done = done, !.runs = records]

LEMMA FreshSound ==
    ASSUME NEW out \in F!EvidenceFiles, NEW split \in Splits, NEW ids \in Draws,
           NEW cells \in SUBSET F!Cells
    PROVE  LET r == Fresh(out, split, ids, cells)
           IN Sound(r) /\ r.out = out /\ r.collecting = cells /\ r.ids = ids /\ r.pc = "idle"
                       /\ r.split = split
BY NothingIsDrawn DEF Fresh, F!Idle, Sound, Collectors

LEMMA ResumedSound ==
    ASSUME NEW r, Sound(r), NEW done \in Records, NEW records \in Records,
           Drawn(done, r.ids), Drawn(records, r.ids)
    PROVE  LET next == Resumption(r, done, records)
           IN /\ Sound(next) /\ next.out = r.out /\ next.collecting = r.collecting
              /\ next.runs = records /\ next.ids = r.ids /\ next.split = r.split
<1> DEFINE next == [r EXCEPT !.done = done, !.runs = records]
<1>1. r \in Collectors
  BY DEF Sound
<1>2. next \in Collectors
  BY <1>1 DEF Collectors
<1>3. /\ next.pc = r.pc /\ next.todo = r.todo /\ next.left = r.left /\ next.samples = r.samples
      /\ next.ids = r.ids /\ next.split = r.split /\ next.runs = records /\ next.done = done /\ next.key = r.key
      /\ next.out = r.out /\ next.collecting = r.collecting
  BY <1>1 DEF Collectors
<1> HIDE DEF next
<1>4. Sound(next)
  BY <1>2, <1>3 DEF Sound
<1> QED
  BY <1>3, <1>4 DEF next, Resumption

LEMMA StartKeeps ==
    ASSUME FInv, NEW engines \in SUBSET Engines \ {{}}, NEW directions \in SUBSET Directions,
           NEW split \in Splits, NEW ids \in Draws, NEW resume \in BOOLEAN,
           F!Start(engines, directions, split, ids, resume)
    PROVE  FInv'
<1> DEFINE out == F!Out(engines)
           cells == engines \X directions
           old == IF resume THEN collected[out] ELSE None
           fresh == Fresh(out, split, ids, cells)
           more == Resumption(fresh, old.runs, F!Preserved(old, cells))
<1>1. /\ cells \in SUBSET F!Cells /\ out \in F!EvidenceFiles /\ ids \in Draws
      /\ old \in EvidenceOf \cup {None}
  <2>2. out \in F!EvidenceFiles
    BY DEF F!Out, F!EvidenceFiles
  <2>3. cells \in SUBSET F!Cells
    BY DEF F!Cells
  <2> HIDE DEF out, cells
  <2> QED
    BY <2>2, <2>3 DEF FInv, Stored
<1>2. /\ resumed' = old /\ UNCHANGED collected
      /\ collector' = IF old = None THEN F!Collect(fresh, cells)
                      ELSE IF ~F!Comparable(old, ids) THEN fresh
                      ELSE F!Collect(more, cells)
  BY DEF F!Start, Fresh, Resumption
<1>3. Stored'
  BY <1>1, <1>2 DEF FInv, Stored, F!OneDrawPerFile
<1>4. (resume /\ old = collected[out]) \/ old = None
  OBVIOUS
<1> HIDE DEF out, cells, old
<1>6. more = Resumption(fresh, old.runs, F!Preserved(old, cells))
  OBVIOUS
<1>7. Sound(fresh) /\ fresh.out = out /\ fresh.collecting = cells /\ fresh.ids = ids
      /\ fresh.pc = "idle" /\ fresh.split = split
  BY <1>1, FreshSound
<1> HIDE DEF fresh, more
<1>8. CASE old = None
  <2>1. Sound(collector')
    BY <1>1, <1>2, <1>7, <1>8, CollectSound
  <2> QED
    BY <1>2, <1>3, <1>8, <2>1 DEF FInv, Carried
<1>9. CASE old # None /\ ~F!Comparable(old, ids)
  <2>1. Carried'
    BY <1>2, <1>4, <1>7, <1>9 DEF Carried
  <2> QED
    BY <1>2, <1>3, <1>7, <1>9, <2>1 DEF FInv
<1>10. CASE old # None /\ F!Comparable(old, ids)
  <2> DEFINE kept == F!Preserved(old, cells)
  <2>1. old \in EvidenceOf /\ old.ids = ids /\ Drawn(old.runs, ids)
    BY <1>1, <1>4, <1>10 DEF F!Comparable, FInv, Stored, F!OneDrawPerFile, Drawn, OfDraw
  <2>2. old.runs \in Records
    BY <2>1 DEF EvidenceOf
  <2>3. kept \in Records /\ Drawn(kept, ids)
    BY <2>1, <2>2, NothingIsDrawn DEF F!Preserved, Records, Drawn, F!NoEntry, Samples
  <2>4. \A k \in F!Cells \ cells : kept[k] = old.runs[k]
    BY DEF F!Preserved
  <2> HIDE DEF kept
  <2>5. Sound(more) /\ more.out = out /\ more.collecting = cells /\ more.runs = kept
        /\ more.ids = ids /\ more.split = split
    BY <1>6, <1>7, <2>1, <2>2, <2>3, ResumedSound DEF kept
  <2>6. Sound(collector') /\ collector'.out = out /\ collector'.collecting = cells
        /\ collector'.runs = kept
    BY <1>1, <1>2, <1>10, <2>5, CollectSound
  <2>7. Carried'
    BY <1>2, <1>4, <1>10, <2>4, <2>6 DEF Carried
  <2> QED
    BY <1>3, <2>6, <2>7 DEF FInv
<1> QED
  BY <1>8, <1>9, <1>10

\* The sentence whose turn it is is one of the draw, and has no sample yet.
LEMMA SentenceIsDrawn ==
    ASSUME NEW r, Sound(r), r.left # {}
    PROVE  LET n == F!Least(r.left)
           IN n \in r.left /\ n \in r.ids /\ r.left \ {n} \in SUBSET r.ids
                /\ Ahead(r.samples, r.left \ {n})
<1>1. r.left \subseteq Nat /\ r.left \subseteq r.ids
  BY DrawnNumbers DEF Sound, Collectors
<1>2. F!Least(r.left) \in r.left
  BY <1>1, LeastIsIn
<1> QED
  BY <1>1, <1>2 DEF Sound, Ahead

\* A sample of it goes with those that are there.
LEMMA SampleIsDrawn ==
    ASSUME NEW r, Sound(r), r.left # {}, NEW s \in F!Asked(r.ids), s.number = F!Least(r.left)
    PROVE  OfDraw(r.samples \cup {s}, r.ids) /\ Ahead(r.samples \cup {s}, r.left \ {F!Least(r.left)})
<1> DEFINE n == F!Least(r.left)
<1>1. n \in r.left
  BY SentenceIsDrawn
<1> HIDE DEF n
<1>2. OfDraw(r.samples, r.ids) /\ \A t \in r.samples : t.number \notin r.left
  BY DEF Sound, Ahead
<1>3. F!OneEach(r.samples \cup {s})
  BY <1>1, <1>2 DEF OfDraw, F!OneEach, n
<1>4. Ahead(r.samples \cup {s}, r.left \ {n})
  BY <1>2 DEF Ahead, n
<1> QED
  BY <1>2, <1>3, <1>4 DEF OfDraw, n

\* The record of a direction changes for the direction at work only.
LEMMA EntrySound ==
    ASSUME NEW r, Sound(r), r.pc = "collect", NEW e \in Samples, OfDraw(e.samples, r.ids)
    PROVE  LET records == [r.runs EXCEPT ![r.key] = e]
           IN /\ records \in Records /\ Drawn(records, r.ids)
              /\ \A k \in F!Cells \ r.collecting : records[k] = r.runs[k]
<1>1. r.runs \in Records /\ r.key \in r.collecting /\ Drawn(r.runs, r.ids)
  BY DEF Sound, Collectors
<1>2. r.collecting \subseteq F!Cells
  BY DEF Sound, Collectors
<1> QED
  BY <1>1, <1>2 DEF Records, Drawn

\* What is stored of the sentence whose turn it is was drawn as this run draws.
LEMMA StoredIsDrawn ==
    ASSUME FInv, collector.pc = "collect", NEW s \in F!StoredHere
    PROVE  s \in F!Asked(collector.ids) /\ s.number = F!Least(collector.left)
<1>1. collector.key \in F!Cells /\ Drawn(collector.done, collector.ids)
  BY DEF FInv, Sound, Collectors
<1> QED
  BY <1>1 DEF F!StoredHere, F!Number, Drawn, OfDraw

LEMMA CachedKeeps == FInv /\ F!Cached => FInv'
<1> SUFFICES ASSUME FInv, F!Cached PROVE FInv'
  OBVIOUS
<1>0. PICK s \in F!StoredHere :
         collector' = [collector EXCEPT !.samples = @ \cup {s}, !.left = @ \ {F!Least(collector.left)}]
  BY DEF F!Cached, F!Number
<1> DEFINE n == F!Least(collector.left)
           next == [collector EXCEPT !.samples = @ \cup {s}, !.left = @ \ {n}]
<1>1. Sound(collector) /\ collector' = next /\ collector.left # {} /\ UNCHANGED <<collected, resumed>>
  BY <1>0 DEF FInv, F!Cached
<1>2. /\ OfDraw(collector.samples \cup {s}, collector.ids)
      /\ Ahead(collector.samples \cup {s}, collector.left \ {n})
      /\ collector.left \ {n} \in SUBSET collector.ids
  <2>1. collector.pc = "collect"
    BY DEF F!Cached
  <2> QED
    BY <1>1, <2>1, StoredIsDrawn, SampleIsDrawn, SentenceIsDrawn
<1>3. collector.runs \in Records /\ Drawn(collector.runs, collector.ids)
  BY <1>1 DEF Sound, Collectors
<1> DEFINE same == Progress(collector, collector.samples \cup {s}, collector.left \ {n},
                            collector.runs)
<1>4. next = same
  BY <1>1 DEF Sound, Collectors, Progress
<1> HIDE DEF n
<1>5. Sound(same) /\ same.out = collector.out /\ same.collecting = collector.collecting
      /\ same.runs = collector.runs /\ same.pc = collector.pc
  BY <1>1, <1>2, <1>3, ProgressSound
<1> HIDE DEF next, same
<1> QED
  BY <1>1, <1>4, <1>5 DEF FInv, Stored, Carried, F!OneDrawPerFile

LEMMA SampledKeeps == FInv /\ F!Sampled => FInv'
<1> SUFFICES ASSUME FInv, F!Sampled PROVE FInv'
  OBVIOUS
<1> DEFINE n == F!Least(collector.left)
           asked == [split |-> collector.split, draw |-> collector.ids, number |-> n]
           samples == collector.samples \cup {asked}
           left == collector.left \ {n}
           entry == [state |-> "partial", samples |-> samples]
           records == [collector.runs EXCEPT ![collector.key] = entry]
           next == Progress(collector, samples, left, records)
<1>1. Sound(collector) /\ collector.left # {} /\ collector.pc = "collect" /\ UNCHANGED resumed
      /\ F!Write(collector.out, collector')
  BY DEF FInv, F!Sampled
<1>2. collector' = next
  BY <1>1 DEF F!Sampled, F!Number, Sound, Collectors, Progress
<1>3. /\ OfDraw(samples, collector.ids) /\ left \in SUBSET collector.ids
      /\ Ahead(samples, left)
  <2>1. n \in collector.ids /\ left \in SUBSET collector.ids /\ collector.split \in Splits
    BY <1>1, SentenceIsDrawn DEF Sound
  <2>2. asked \in F!Asked(collector.ids) /\ asked.number = F!Least(collector.left)
    BY <2>1 DEF F!Asked
  <2> HIDE DEF asked, n
  <2>3. OfDraw(samples, collector.ids) /\ Ahead(samples, left)
    BY <1>1, <2>2, SampleIsDrawn DEF n
  <2> QED
    BY <2>1, <2>3
<1>4. /\ collector.ids \in Draws /\ F!Asked(collector.ids) \subseteq F!Sentences
      /\ collector.out \in F!EvidenceFiles
  BY <1>1, DrawnNumbers DEF Sound, Collectors
<1> HIDE DEF n, asked, samples, left
<1>5. entry \in Samples /\ OfDraw(entry.samples, collector.ids)
  BY <1>3, <1>4 DEF Samples, OfDraw
<1> HIDE DEF entry
<1>6. /\ records \in Records /\ Drawn(records, collector.ids)
      /\ \A k \in F!Cells \ collector.collecting : records[k] = collector.runs[k]
  BY <1>1, <1>5, EntrySound
<1> HIDE DEF records
<1>7. /\ Sound(next) /\ next.out = collector.out /\ next.collecting = collector.collecting
      /\ next.runs = records /\ next.pc = collector.pc /\ next.ids = collector.ids
  BY <1>1, <1>3, <1>6, ProgressSound
<1> HIDE DEF next
<1>8. Stored' /\ collected'[collector.out].runs = records
  <2>1. Stored /\ Sound(next) /\ F!Write(collector.out, next)
    BY <1>1, <1>2, <1>7 DEF FInv
  <2> QED
    BY <1>1, <1>4, <1>7, <2>1, WriteStored
<1>9. Carried'
  BY <1>1, <1>2, <1>6, <1>7, <1>8 DEF FInv, Carried
<1> QED
  BY <1>2, <1>7, <1>8, <1>9 DEF FInv

LEMMA SampleFailsKeeps == FInv /\ F!SampleFails => FInv'
<1> SUFFICES ASSUME FInv, F!SampleFails PROVE FInv'
  OBVIOUS
<1> DEFINE n == F!Least(collector.left)
           next == [collector EXCEPT !.left = @ \ {n}]
<1>1. Sound(collector) /\ collector' = next /\ collector.left # {} /\ UNCHANGED <<collected, resumed>>
  BY DEF FInv, F!SampleFails, F!Number
<1>2. collector.left \ {n} \in SUBSET collector.ids /\ Ahead(collector.samples, collector.left \ {n})
  BY <1>1, SentenceIsDrawn
<1>3. /\ collector.runs \in Records /\ Drawn(collector.runs, collector.ids)
      /\ OfDraw(collector.samples, collector.ids)
  BY <1>1 DEF Sound, Collectors
<1> DEFINE same == Progress(collector, collector.samples, collector.left \ {n}, collector.runs)
<1>4. next = same
  BY <1>1 DEF Sound, Collectors, Progress
<1> HIDE DEF n
<1>5. Sound(same) /\ same.out = collector.out /\ same.collecting = collector.collecting
      /\ same.runs = collector.runs /\ same.pc = collector.pc
  BY <1>1, <1>2, <1>3, ProgressSound
<1> HIDE DEF next, same
<1> QED
  BY <1>1, <1>4, <1>5 DEF FInv, Stored, Carried, F!OneDrawPerFile

LEMMA EndDirectionKeeps == FInv /\ F!EndDirection => FInv'
<1> SUFFICES ASSUME FInv, F!EndDirection PROVE FInv'
  OBVIOUS
<1> DEFINE entry == [state |-> "done", samples |-> collector.samples]
           records == [collector.runs EXCEPT ![collector.key] = entry]
           scored == Progress(collector, collector.samples, collector.left, records)
<1>1. Sound(collector) /\ collector.pc = "collect" /\ UNCHANGED resumed
  BY DEF FInv, F!EndDirection
<1>2. [collector EXCEPT !.runs[collector.key] = entry] = scored
  BY <1>1 DEF Sound, Collectors, Progress
<1>3. collector' = F!Collect(scored, collector.todo) /\ F!Write(collector.out, scored)
  BY <1>2 DEF F!EndDirection
<1>4. /\ collector.ids \in Draws /\ collector.split \in Splits
      /\ collector.out \in F!EvidenceFiles
      /\ OfDraw(collector.samples, collector.ids) /\ Ahead(collector.samples, collector.left)
      /\ collector.samples \in SUBSET F!Sentences /\ collector.left \in SUBSET collector.ids
      /\ collector.todo \in SUBSET collector.collecting
  BY <1>1, DrawnNumbers DEF Sound, Collectors
<1>5. entry \in Samples /\ OfDraw(entry.samples, collector.ids)
  BY <1>4 DEF Samples
<1> HIDE DEF entry
<1>6. /\ records \in Records /\ Drawn(records, collector.ids)
      /\ \A k \in F!Cells \ collector.collecting : records[k] = collector.runs[k]
  BY <1>1, <1>5, EntrySound
<1> HIDE DEF records
<1>7. /\ Sound(scored) /\ scored.out = collector.out /\ scored.collecting = collector.collecting
      /\ scored.runs = records /\ scored.ids = collector.ids /\ scored.split = collector.split
  BY <1>1, <1>4, <1>6, ProgressSound
<1> HIDE DEF scored
<1>8. /\ Sound(collector') /\ collector'.out = collector.out
      /\ collector'.collecting = collector.collecting /\ collector'.runs = records
  BY <1>3, <1>4, <1>7, CollectSound
<1>9. Stored' /\ collected'[collector.out].runs = records
  <2>1. Stored
    BY DEF FInv
  <2> QED
    BY <1>1, <1>3, <1>4, <1>7, <2>1, WriteStored
<1>10. Carried'
  BY <1>1, <1>6, <1>8, <1>9 DEF FInv, Carried
<1> QED
  BY <1>8, <1>9, <1>10 DEF FInv

LEMMA CopyKeeps ==
    ASSUME FInv, NEW e \in Engines, F!Copy(e)
    PROVE  FInv'
<1> DEFINE step == IF collector.copies = {e} THEN "idle" ELSE "copy"
           next == [collector EXCEPT !.copies = @ \ {e}, !.pc = step]
<1>1. Sound(collector) /\ collector.pc = "copy" /\ collector' = next /\ UNCHANGED resumed
      /\ F!Write(e, collector) /\ Stored /\ e \in F!EvidenceFiles
  BY DEF FInv, F!Copy, F!EvidenceFiles
<1>2. step \in {"idle", "copy"}
  OBVIOUS
<1> HIDE DEF step
<1>3. /\ next \in Collectors
      /\ next.pc = step /\ next.todo = collector.todo /\ next.left = collector.left
      /\ next.samples = collector.samples /\ next.ids = collector.ids /\ next.split = collector.split
      /\ next.runs = collector.runs /\ next.done = collector.done
      /\ next.out = collector.out /\ next.collecting = collector.collecting
  BY <1>1, <1>2 DEF Sound, Collectors
<1> HIDE DEF next
<1>4. Sound(collector')
  BY <1>1, <1>2, <1>3 DEF Sound
<1>5. /\ Stored' /\ collected'[e].runs = collector.runs
      /\ \A m \in F!EvidenceFiles \ {e} : collected'[m] = collected[m]
  <2>1. collector.ids \in Draws
    BY <1>1 DEF Sound
  <2> QED
    BY <1>1, <2>1, WriteStored
<1>6. Carried'
  <2>1. collector.out \in F!EvidenceFiles
    BY <1>1 DEF Sound, Collectors
  <2> QED
    BY <1>1, <1>3, <1>5, <2>1 DEF FInv, Carried
<1> QED
  BY <1>4, <1>5, <1>6 DEF FInv

LEMMA KillKeeps == FInv /\ F!Kill => FInv'
<1> SUFFICES ASSUME FInv, F!Kill PROVE FInv'
  OBVIOUS
<1> DEFINE next == [collector EXCEPT !.pc = "idle"]
<1>1. Sound(collector) /\ collector' = next /\ UNCHANGED <<collected, resumed>>
  BY DEF FInv, F!Kill
<1>2. /\ next \in Collectors
      /\ next.pc = "idle" /\ next.todo = collector.todo /\ next.left = collector.left
      /\ next.samples = collector.samples /\ next.ids = collector.ids /\ next.split = collector.split
      /\ next.runs = collector.runs /\ next.done = collector.done
      /\ next.out = collector.out /\ next.collecting = collector.collecting
  BY <1>1 DEF Sound, Collectors
<1> HIDE DEF next
<1>3. Sound(collector')
  BY <1>1, <1>2 DEF Sound
<1> QED
  BY <1>1, <1>2, <1>3 DEF FInv, Stored, Carried, F!OneDrawPerFile

LEMMA NoEngineKeeps == FInv /\ F!GiveUp => FInv'
<1> SUFFICES ASSUME FInv, F!GiveUp PROVE FInv'
  OBVIOUS
<1>2. Sound(F!Idle)
  BY NothingIsDrawn DEF F!Idle, Sound, Collectors, F!EvidenceFiles, F!Mixed
<1> QED
  BY <1>2 DEF FInv, Stored, Carried, F!OneDrawPerFile, F!GiveUp

LEMMA FloresNext == FInv /\ F!Next => FInv'
<1> SUFFICES ASSUME FInv, F!Next PROVE FInv'
  OBVIOUS
<1>2. ASSUME NEW e \in Engines, F!Copy(e) PROVE FInv'
  BY <1>2, CopyKeeps
<1>3. CASE \E engines \in SUBSET Engines \ {{}}, directions \in SUBSET Directions \ {{}},
             split \in Splits, ids \in Draws, resume \in BOOLEAN :
             F!Start(engines, directions, split, ids, resume)
  <2>1. PICK engines \in SUBSET Engines \ {{}}, directions \in SUBSET Directions \ {{}},
                split \in Splits, ids \in Draws, resume \in BOOLEAN :
                F!Start(engines, directions, split, ids, resume)
    BY <1>3
  <2> QED
    BY <2>1, StartKeeps
<1> QED
  BY <1>2, <1>3, CachedKeeps, SampledKeeps, SampleFailsKeeps, EndDirectionKeeps, KillKeeps,
     NoEngineKeeps DEF F!Next

LEMMA FloresTyped == FInv => F!TypeOK
<1> SUFFICES ASSUME FInv PROVE F!TypeOK
  OBVIOUS
<1>1. F!Entries = Samples /\ F!Evidence = EvidenceOf \cup {None}
  BY DEF F!Entries, F!Evidence, Samples, EvidenceOf, Records
<1>2. collected \in [F!EvidenceFiles -> F!Evidence] /\ resumed \in F!Evidence
  BY <1>1 DEF FInv, Stored
<1>3. collector.runs \in [F!Cells -> F!Entries] /\ collector.done \in [F!Cells -> F!Entries]
  BY <1>1 DEF FInv, Sound, Collectors, Records
<1> QED
  BY <1>2, <1>3, ScriptsAssumption DEF FInv, Sound, Collectors, F!TypeOK

FloresInv == tool = "flores" => FInv

LEMMA FloresInvInit == Init => FloresInv
BY FloresInit DEF Init, FloresInv

LEMMA FloresInvNext == FloresInv /\ [Next]_vars => FloresInv'
<1> SUFFICES ASSUME FloresInv, [Next]_vars PROVE FloresInv'
  OBVIOUS
<1>1. CASE tool = "flores" /\ F!Next
  BY <1>1, FloresNext DEF FloresInv
<1>2. CASE UNCHANGED vars
  BY <1>2 DEF FloresInv, vars, collecting, FInv, Stored, Carried, F!OneDrawPerFile
<1>3. CASE tool # "flores" /\ UNCHANGED tool
  BY <1>3 DEF FloresInv
<1> QED
  BY <1>1, <1>2, <1>3 DEF Next

\* The samples in an evidence file of the FLORES benchmark were all asked for the draw of numbers
\* the file names, of whatever split, and none is counted twice, whatever was resumed, preserved
\* and copied.
THEOREM FilesHoldOneDraw == Spec => []OneDrawPerFile
<1>1. FloresInv => OneDrawPerFile
  BY DEF FloresInv, FInv, Stored, OneDrawPerFile
<1> QED
  BY <1>1, FloresInvInit, FloresInvNext, PTL DEF Spec

\* A resumed collection keeps what the file holds of engines and directions it does not collect.
THEOREM OthersAreSpared == Spec => []OthersKept
<1>1. FloresInv => OthersKept
  BY DEF FloresInv, FInv, Carried, OthersKept, F!OthersKept
<1> QED
  BY <1>1, FloresInvInit, FloresInvNext, PTL DEF Spec

-----------------------------------------------------------------------------
(* What a resumed collection is about to lose, and when it has it back.    *)

\* What a collection that resumes a file has gathered of it: all that is stored of the directions
\* it has done, and of the one at work all but the sentences still to come.
Gathered ==
    collector.pc # "idle" /\ resumed # None =>
        /\ collector.done = resumed.runs
        /\ collected[collector.out] = resumed \/ collected[collector.out].runs = collector.runs
        /\ \A k \in F!Cells \ collector.todo :
              collector.pc = "copy" \/ k # collector.key =>
                  resumed.runs[k].samples \subseteq collector.runs[k].samples
        /\ collector.pc = "collect" =>
              \A s \in resumed.runs[collector.key].samples :
                 s.number \in collector.left \/ s \in collector.samples
        /\ collector.pc = "copy" => collector.todo = {}

\* What is taken up next leaves what was done and what is in the record.
LEMMA CollectFields ==
    ASSUME NEW r, Sound(r), NEW todo \in SUBSET r.collecting
    PROVE  LET next == F!Collect(r, todo)
           IN /\ next.done = r.done /\ next.runs = r.runs /\ next.out = r.out
              /\ \/ next.pc = "copy" /\ todo = {} /\ next.todo = {}
                 \/ /\ next.pc = "collect" /\ next.key \in todo /\ next.todo = todo \ {next.key}
                    /\ next.left = r.ids /\ next.samples = {}
<1>1. r \in Collectors /\ todo \in SUBSET F!Cells
  BY DEF Sound, Collectors
<1>2. CASE todo = {}
  BY <1>1, <1>2 DEF F!Collect, Collectors
<1>3. CASE todo # {}
  <2> DEFINE key == F!First(todo)
             next == [r EXCEPT !.pc = "collect", !.key = key, !.todo = todo \ {key},
                               !.left = r.ids, !.samples = {}]
  <2>1. F!Collect(r, todo) = next
    BY <1>3 DEF F!Collect
  <2>2. key \in todo
    BY <1>1, <1>3, NextIsIn
  <2> HIDE DEF key
  <2> QED
    BY <1>1, <1>3, <2>1, <2>2 DEF Collectors
<1> QED
  BY <1>2, <1>3

LEMMA StartGathers ==
    ASSUME FInv, NEW engines \in SUBSET Engines \ {{}}, NEW directions \in SUBSET Directions,
           NEW split \in Splits, NEW ids \in Draws, NEW resume \in BOOLEAN,
           F!Start(engines, directions, split, ids, resume)
    PROVE  /\ Gathered'
           /\ collector'.pc = "idle" /\ resumed' # None => collected'[collector'.out] = resumed'
<1> DEFINE out == F!Out(engines)
           cells == engines \X directions
           old == IF resume THEN collected[out] ELSE None
           fresh == Fresh(out, split, ids, cells)
           more == Resumption(fresh, old.runs, F!Preserved(old, cells))
<1>1. cells \in SUBSET F!Cells /\ out \in F!EvidenceFiles /\ old \in EvidenceOf \cup {None}
  <2>2. out \in F!EvidenceFiles
    BY DEF F!Out, F!EvidenceFiles
  <2>3. cells \in SUBSET F!Cells
    BY DEF F!Cells
  <2> HIDE DEF out, cells
  <2> QED
    BY <2>2, <2>3 DEF FInv, Stored
<1>2. /\ resumed' = old /\ UNCHANGED collected
      /\ collector' = IF old = None THEN F!Collect(fresh, cells)
                      ELSE IF ~F!Comparable(old, ids) THEN fresh
                      ELSE F!Collect(more, cells)
  BY DEF F!Start, Fresh, Resumption
<1>3. old # None => old = collected[out]
  OBVIOUS
<1> HIDE DEF out, cells, old
<1>4. more = Resumption(fresh, old.runs, F!Preserved(old, cells))
  OBVIOUS
<1>5. Sound(fresh) /\ fresh.out = out /\ fresh.collecting = cells /\ fresh.ids = ids
      /\ fresh.pc = "idle" /\ fresh.split = split
  BY <1>1, FreshSound
<1> HIDE DEF fresh, more
<1>6. CASE old = None
  <2>1. collector'.pc # "idle"
    BY <1>2, <1>5, <1>6, CollectFields
  <2> QED
    BY <1>2, <1>6, <2>1 DEF Gathered
<1>7. CASE old # None /\ ~F!Comparable(old, ids)
  BY <1>2, <1>3, <1>5, <1>7 DEF Gathered
<1>8. CASE old # None /\ F!Comparable(old, ids)
  <2> DEFINE kept == F!Preserved(old, cells)
  <2>1. old \in EvidenceOf /\ old.ids = ids /\ Drawn(old.runs, ids)
    BY <1>1, <1>3, <1>8 DEF F!Comparable, FInv, Stored, F!OneDrawPerFile, Drawn, OfDraw
  <2>2. old.runs \in Records
    BY <2>1 DEF EvidenceOf
  <2>3. kept \in Records /\ Drawn(kept, ids)
    BY <2>1, <2>2, NothingIsDrawn DEF F!Preserved, Records, Drawn, F!NoEntry, Samples
  <2>4. \A k \in F!Cells \ cells : kept[k] = old.runs[k]
    BY DEF F!Preserved
  <2> HIDE DEF kept
  <2>5. Sound(more) /\ more.out = out /\ more.collecting = cells /\ more.runs = kept
        /\ more.ids = ids /\ more.split = split
    BY <1>4, <1>5, <2>1, <2>2, <2>3, ResumedSound DEF kept
  <2>6. more.done = old.runs
    BY <1>4, <1>5 DEF Resumption, Sound, Collectors
  <2> DEFINE next == F!Collect(more, cells)
  <2>7. collector' = next
    BY <1>2, <1>8
  <2>8. /\ next.done = old.runs /\ next.runs = kept /\ next.out = out
        /\ \/ next.pc = "copy" /\ cells = {} /\ next.todo = {}
           \/ /\ next.pc = "collect" /\ next.key \in cells /\ next.todo = cells \ {next.key}
              /\ next.left = ids /\ next.samples = {}
    BY <2>5, <2>6, CollectFields
  <2> HIDE DEF next
  <2>9. \A k \in F!Cells \ next.todo :
           next.pc = "copy" \/ k # next.key => old.runs[k].samples \subseteq kept[k].samples
    BY <2>4, <2>8
  <2>10. next.pc = "collect" => \A s \in old.runs[next.key].samples :
                                s.number \in next.left \/ s \in next.samples
    BY <1>1, <2>1, <2>8 DEF Drawn, OfDraw, F!Asked
  <2> QED
    BY <1>2, <1>3, <2>7, <2>8, <2>9, <2>10 DEF Gathered
<1> QED
  BY <1>6, <1>7, <1>8

\* A sentence that is passed by is not lost: it was answered, or nothing of it was stored.
LEMMA CachedGathers == FInv /\ Gathered /\ F!Cached => Gathered'
<1> SUFFICES ASSUME FInv, Gathered, F!Cached PROVE Gathered'
  OBVIOUS
<1>0. PICK s \in F!StoredHere :
         collector' = [collector EXCEPT !.samples = @ \cup {s}, !.left = @ \ {F!Least(collector.left)}]
  BY DEF F!Cached, F!Number
<1> DEFINE n == F!Least(collector.left)
           next == [collector EXCEPT !.samples = @ \cup {s}, !.left = @ \ {n}]
<1>1. /\ Sound(collector) /\ collector.pc = "collect" /\ collector' = next
      /\ UNCHANGED <<collected, resumed>>
  BY <1>0 DEF FInv, F!Cached
<1>2. /\ next.pc = collector.pc /\ next.key = collector.key /\ next.todo = collector.todo
      /\ next.done = collector.done /\ next.runs = collector.runs /\ next.out = collector.out
      /\ next.samples = collector.samples \cup {s} /\ next.left = collector.left \ {n}
  BY <1>1 DEF Sound, Collectors
<1>3. \A t \in collector.done[collector.key].samples : t.number = n => t = s
  <2>1. F!OneEach(collector.done[collector.key].samples)
    BY <1>1 DEF Sound, Collectors, Drawn, OfDraw
  <2> QED
    BY <2>1 DEF F!StoredHere, F!Number, F!OneEach
<1> HIDE DEF n, next
<1> QED
  BY <1>1, <1>2, <1>3 DEF Gathered

LEMMA SampleFailsGathers == FInv /\ Gathered /\ F!SampleFails => Gathered'
<1> SUFFICES ASSUME FInv, Gathered, F!SampleFails PROVE Gathered'
  OBVIOUS
<1> DEFINE n == F!Least(collector.left)
           next == [collector EXCEPT !.left = @ \ {n}]
<1>1. /\ Sound(collector) /\ collector.pc = "collect" /\ collector' = next
      /\ \A t \in collector.done[collector.key].samples : t.number # n
      /\ UNCHANGED <<collected, resumed>>
  BY DEF FInv, F!SampleFails, F!StoredHere, F!Number
<1> HIDE DEF n
<1>2. /\ next.pc = collector.pc /\ next.key = collector.key /\ next.todo = collector.todo
      /\ next.done = collector.done /\ next.runs = collector.runs /\ next.out = collector.out
      /\ next.samples = collector.samples /\ next.left = collector.left \ {n}
  BY <1>1 DEF Sound, Collectors
<1> HIDE DEF next
<1> QED
  BY <1>1, <1>2 DEF Gathered

LEMMA SampledGathers == FInv /\ Gathered /\ F!Sampled => Gathered'
<1> SUFFICES ASSUME FInv, Gathered, F!Sampled PROVE Gathered'
  OBVIOUS
<1> DEFINE n == F!Least(collector.left)
           asked == [split |-> collector.split, draw |-> collector.ids, number |-> n]
           samples == collector.samples \cup {asked}
           records == [collector.runs EXCEPT ![collector.key] =
                          [state |-> "partial", samples |-> samples]]
           next == Progress(collector, samples, collector.left \ {n}, records)
<1>1. /\ Sound(collector) /\ collector.pc = "collect" /\ UNCHANGED resumed
      /\ F!Write(collector.out, collector') /\ collector' = next
      /\ \A t \in collector.done[collector.key].samples : t.number # n
  BY DEF FInv, F!Sampled, F!StoredHere, F!Number, Sound, Collectors, Progress
<1> HIDE DEF n, asked
<1>2. /\ collector.runs \in Records /\ collector.out \in F!EvidenceFiles
      /\ collected \in [F!EvidenceFiles -> EvidenceOf \cup {None}]
  BY <1>1 DEF FInv, Stored, Sound, Collectors
<1>3. \A k \in F!Cells : k # collector.key => records[k] = collector.runs[k]
  BY <1>2 DEF Records
<1> HIDE DEF samples, records
<1>4. /\ next.pc = collector.pc /\ next.key = collector.key /\ next.todo = collector.todo
      /\ next.done = collector.done /\ next.runs = records /\ next.out = collector.out
      /\ next.samples = samples /\ next.left = collector.left \ {n}
  BY <1>1 DEF Sound, Collectors, Progress
<1> HIDE DEF next
<1>5. collected'[collector'.out].runs = collector'.runs
  BY <1>1, <1>2, <1>4 DEF F!Write
<1> QED
  BY <1>1, <1>3, <1>4, <1>5 DEF Gathered, samples

\* The direction that ends has all that was stored of it.
LEMMA EndDirectionGathers == FInv /\ Gathered /\ F!EndDirection => Gathered'
<1> SUFFICES ASSUME FInv, Gathered, F!EndDirection PROVE Gathered'
  OBVIOUS
<1> DEFINE entry == [state |-> "done", samples |-> collector.samples]
           records == [collector.runs EXCEPT ![collector.key] = entry]
           scored == Progress(collector, collector.samples, collector.left, records)
<1>1. /\ Sound(collector) /\ collector.pc = "collect" /\ collector.left = {} /\ UNCHANGED resumed
      /\ collector \in Collectors
  BY DEF FInv, F!EndDirection, Sound
<1>2. [collector EXCEPT !.runs[collector.key] = entry] = scored
  BY <1>1 DEF Collectors, Progress
<1>3. collector' = F!Collect(scored, collector.todo) /\ F!Write(collector.out, scored)
  BY <1>2 DEF F!EndDirection
<1>4. /\ collector.ids \in Draws /\ collector.split \in Splits
      /\ collector.out \in F!EvidenceFiles /\ collector.key \in F!Cells
      /\ OfDraw(collector.samples, collector.ids) /\ Ahead(collector.samples, collector.left)
      /\ collector.samples \in SUBSET F!Sentences /\ collector.left \in SUBSET collector.ids
      /\ collector.todo \in SUBSET collector.collecting
      /\ collected \in [F!EvidenceFiles -> EvidenceOf \cup {None}]
  BY <1>1, DrawnNumbers DEF Sound, Collectors, FInv, Stored
<1>5. entry \in Samples /\ entry.samples = collector.samples
      /\ OfDraw(entry.samples, collector.ids)
  BY <1>4 DEF Samples
<1> HIDE DEF entry
<1>6. /\ records \in Records /\ Drawn(records, collector.ids)
      /\ records[collector.key] = entry
      /\ \A k \in F!Cells : k # collector.key => records[k] = collector.runs[k]
  <2>1. records \in Records /\ Drawn(records, collector.ids)
    BY <1>1, <1>4, <1>5, EntrySound
  <2>2. collector.runs \in Records
    BY <1>1 DEF Collectors
  <2> QED
    BY <1>4, <2>1, <2>2 DEF Records
<1> HIDE DEF records
<1>7. /\ Sound(scored) /\ scored.runs = records /\ scored.out = collector.out
      /\ scored.collecting = collector.collecting
  BY <1>1, <1>4, <1>6, ProgressSound
<1>8. scored.done = collector.done
  BY <1>1 DEF Collectors, Progress
<1>9. scored.ids = collector.ids
  BY <1>1 DEF Collectors, Progress
<1> HIDE DEF scored
<1> DEFINE next == F!Collect(scored, collector.todo)
<1>10. /\ next.done = collector.done /\ next.runs = records /\ next.out = collector.out
       /\ \/ next.pc = "copy" /\ collector.todo = {} /\ next.todo = {}
          \/ /\ next.pc = "collect" /\ next.key \in collector.todo
             /\ next.todo = collector.todo \ {next.key}
             /\ next.left = collector.ids /\ next.samples = {}
  BY <1>4, <1>7, <1>8, <1>9, CollectFields
<1>11. collector' = next
  BY <1>3
<1> HIDE DEF next
<1>12. collected'[collector'.out].runs = collector'.runs
  BY <1>3, <1>4, <1>7, <1>10, <1>11 DEF F!Write
<1>13. SUFFICES ASSUME resumed # None PROVE Gathered'
  BY <1>1 DEF Gathered
<1>14. /\ collector.done = resumed.runs
       /\ resumed.runs[collector.key].samples \subseteq collector.samples
       /\ \A k \in F!Cells \ collector.todo :
             k # collector.key => resumed.runs[k].samples \subseteq collector.runs[k].samples
  BY <1>1, <1>13 DEF Gathered
<1>15. \A k \in F!Cells \ next.todo :
          next.pc = "copy" \/ k # next.key => resumed.runs[k].samples \subseteq records[k].samples
  <2>1. \A k \in F!Cells \ collector.todo : resumed.runs[k].samples \subseteq records[k].samples
    BY <1>5, <1>6, <1>14
  <2> QED
    BY <1>10, <2>1
<1>16. next.pc = "collect" => \A s \in resumed.runs[next.key].samples :
                                s.number \in next.left \/ s \in next.samples
  <2>1. Drawn(resumed.runs, collector.ids)
    BY <1>1, <1>14 DEF Sound
  <2>2. next.pc = "collect" => next.key \in F!Cells
    BY <1>1, <1>4, <1>10 DEF Collectors
  <2> QED
    BY <1>10, <2>1, <2>2 DEF Drawn, OfDraw, F!Asked
<1> QED
  BY <1>1, <1>10, <1>11, <1>12, <1>14, <1>15, <1>16 DEF Gathered

\* A copy is of the record, so that the file the run is about stays what it is.
LEMMA CopyGathers ==
    ASSUME FInv, Gathered, NEW e \in Engines, F!Copy(e)
    PROVE  /\ Gathered'
           /\ resumed # None =>
                 \A k \in F!Cells : resumed.runs[k].samples
                                       \subseteq collected'[collector'.out].runs[k].samples
<1> DEFINE step == IF collector.copies = {e} THEN "idle" ELSE "copy"
           next == [collector EXCEPT !.copies = @ \ {e}, !.pc = step]
<1>1. /\ Sound(collector) /\ collector.pc = "copy" /\ collector' = next /\ UNCHANGED resumed
      /\ F!Write(e, collector) /\ e \in F!EvidenceFiles
      /\ collected \in [F!EvidenceFiles -> EvidenceOf \cup {None}]
  BY DEF FInv, Stored, F!Copy, F!EvidenceFiles
<1>2. step \in {"idle", "copy"}
  OBVIOUS
<1> HIDE DEF step
<1>3. /\ next.pc = step /\ next.key = collector.key /\ next.todo = collector.todo
      /\ next.done = collector.done /\ next.runs = collector.runs /\ next.out = collector.out
  BY <1>1 DEF Sound, Collectors
<1> HIDE DEF next
<1>4. \/ collected'[collector.out] = collected[collector.out]
      \/ collected'[collector.out].runs = collector.runs
  <2>1. collector.out \in F!EvidenceFiles
    BY <1>1 DEF Sound, Collectors
  <2> QED
    BY <1>1, <2>1 DEF F!Write
<1>5. CASE resumed = None
  BY <1>1, <1>5 DEF Gathered
<1>6. CASE resumed # None
  <2>1. /\ collector.done = resumed.runs
        /\ collected[collector.out] = resumed \/ collected[collector.out].runs = collector.runs
        /\ \A k \in F!Cells \ collector.todo :
              resumed.runs[k].samples \subseteq collector.runs[k].samples
    BY <1>1, <1>6 DEF Gathered
  <2>2. Gathered'
    BY <1>1, <1>2, <1>3, <1>4, <2>1 DEF Gathered
  <2>3. collector.todo = {}
    BY <1>1, <1>6 DEF Gathered
  <2>4. /\ collector'.out = collector.out
        /\ \/ collected'[collector.out] = resumed
           \/ collected'[collector.out].runs = collector.runs
    BY <1>1, <1>3, <1>4, <2>1
  <2>5. \A k \in F!Cells :
           resumed.runs[k].samples \subseteq collected'[collector.out].runs[k].samples
    BY <2>1, <2>3, <2>4
  <2> QED
    BY <2>2, <2>4, <2>5
<1> QED
  BY <1>5, <1>6

LEMMA GatheredNext == FInv /\ Gathered /\ F!Next => Gathered'
<1> SUFFICES ASSUME FInv, Gathered, F!Next PROVE Gathered'
  OBVIOUS
<1>2. ASSUME NEW e \in Engines, F!Copy(e) PROVE Gathered'
  BY <1>2, CopyGathers
<1>3. CASE F!GiveUp
  BY <1>3 DEF F!GiveUp, Gathered
<1>4. CASE F!Kill
  BY <1>4 DEF F!Kill, FInv, Sound, Collectors, Gathered
<1>5. CASE \E engines \in SUBSET Engines \ {{}}, directions \in SUBSET Directions \ {{}},
             split \in Splits, ids \in Draws, resume \in BOOLEAN :
             F!Start(engines, directions, split, ids, resume)
  <2>1. PICK engines \in SUBSET Engines \ {{}}, directions \in SUBSET Directions \ {{}},
                split \in Splits, ids \in Draws, resume \in BOOLEAN :
                F!Start(engines, directions, split, ids, resume)
    BY <1>5
  <2> QED
    BY <2>1, StartGathers
<1> QED
  BY <1>2, <1>3, <1>4, <1>5, CachedGathers, SampledGathers, SampleFailsGathers,
     EndDirectionGathers DEF F!Next

\* A step that leaves less in a file than was stored there when the run began is a kill in the
\* middle of a direction.
LEMMA OnlyKillsDrop ==
    ASSUME FInv, Gathered, F!StoredSamplesSurvive, F!Next, ~ F!StoredSamplesSurvive'
    PROVE  F!Kill /\ collector.pc = "collect"
<1>1. ASSUME NEW engines \in SUBSET Engines \ {{}}, NEW directions \in SUBSET Directions \ {{}},
             NEW split \in Splits, NEW ids \in Draws, NEW resume \in BOOLEAN,
             F!Start(engines, directions, split, ids, resume)
      PROVE  FALSE
  <2>1. collector'.pc = "idle" /\ resumed' # None => collected'[collector'.out] = resumed'
    BY <1>1, StartGathers
  <2> QED
    BY <2>1 DEF F!StoredSamplesSurvive
<1>2. ASSUME NEW e \in Engines, F!Copy(e) PROVE FALSE
  <2>1. resumed # None => \A k \in F!Cells : resumed.runs[k].samples
                                     \subseteq collected'[collector'.out].runs[k].samples
    BY <1>2, CopyGathers
  <2>2. resumed' = resumed
    BY <1>2 DEF F!Copy
  <2> QED
    BY <2>1, <2>2 DEF F!StoredSamplesSurvive
<1>3. ~ F!GiveUp
  BY DEF F!GiveUp, F!StoredSamplesSurvive
<1>4. collector'.pc = "idle"
  BY DEF F!StoredSamplesSurvive
<1>5. ASSUME F!Cached \/ F!Sampled \/ F!SampleFails \/ F!EndDirection PROVE FALSE
  <2>1. collector \in Collectors /\ Sound(collector)
    BY DEF FInv, Sound
  <2>2. CASE F!Cached
    BY <1>4, <2>1, <2>2 DEF F!Cached, Collectors
  <2>3. CASE F!Sampled
    BY <1>4, <2>1, <2>3 DEF F!Sampled, Collectors
  <2>4. CASE F!SampleFails
    BY <1>4, <2>1, <2>4 DEF F!SampleFails, Collectors
  <2>5. CASE F!EndDirection
    BY <1>4, <2>5 DEF F!EndDirection, F!Collect
  <2> QED
    BY <1>5, <2>2, <2>3, <2>4, <2>5
<1>6. F!Kill
  BY <1>1, <1>2, <1>3, <1>5 DEF F!Next
<1>7. /\ collector' = [collector EXCEPT !.pc = "idle"] /\ UNCHANGED <<collected, resumed>>
      /\ collector.pc # "idle" /\ collector \in Collectors
  BY <1>6 DEF F!Kill, FInv, Sound
<1>8. collector'.out = collector.out
  BY <1>7 DEF Collectors
<1>9. collector.pc # "copy"
  BY <1>7, <1>8 DEF Gathered, F!StoredSamplesSurvive
<1> QED
  BY <1>6, <1>7, <1>9 DEF Collectors

GatheredInv == tool = "flores" => FInv /\ Gathered

LEMMA GatheredInvInit == Init => GatheredInv
BY FloresInit DEF Init, F!Init, F!Idle, Gathered, GatheredInv

LEMMA GatheredInvNext == GatheredInv /\ [Next]_vars => GatheredInv'
<1> SUFFICES ASSUME GatheredInv, [Next]_vars PROVE GatheredInv'
  OBVIOUS
<1>1. CASE tool = "flores" /\ F!Next
  BY <1>1, FloresNext, GatheredNext DEF GatheredInv
<1>2. CASE UNCHANGED vars
  BY <1>2 DEF GatheredInv, vars, collecting, FInv, Gathered, Stored, Carried, F!OneDrawPerFile
<1>3. CASE tool # "flores" /\ UNCHANGED tool
  BY <1>3 DEF GatheredInv
<1> QED
  BY <1>1, <1>2, <1>3 DEF Next

\* While a resumed collection lasts, its file misses stored samples of the direction at work and
\* of those still to do only: --resume is as good as no interruption for all that it came to.
Reached ==
    tool = "flores" /\ collector.pc # "idle" /\ resumed # None =>
        \A k \in F!Cells \ collector.todo :
            collector.pc = "copy" \/ k # collector.key =>
                resumed.runs[k].samples \subseteq collected[collector.out].runs[k].samples

THEOREM ReachedIsKept == Spec => []Reached
<1>1. GatheredInv => Reached
  BY DEF GatheredInv, Gathered, Reached
<1> QED
  BY <1>1, GatheredInvInit, GatheredInvNext, PTL DEF Spec

\* The stored samples a resumed collection drops are dropped by a kill in the middle of it: one
\* that is refused, ends by itself, or is killed while it copies has kept every one of them.
THEOREM OnlyKillsDropSamples ==
    Spec => [][tool = "flores" /\ F!StoredSamplesSurvive /\ ~ F!StoredSamplesSurvive' =>
                  F!Kill /\ collector.pc = "collect"]_vars
<1> DEFINE A == tool = "flores" /\ F!StoredSamplesSurvive /\ ~ F!StoredSamplesSurvive' =>
                    F!Kill /\ collector.pc = "collect"
<1>1. GatheredInv /\ [Next]_vars => [A]_vars
  <2> SUFFICES ASSUME GatheredInv, [Next]_vars, vars' # vars, tool = "flores",
                      F!StoredSamplesSurvive, ~ F!StoredSamplesSurvive'
               PROVE  F!Kill /\ collector.pc = "collect"
    OBVIOUS
  <2>1. F!Next
    BY DEF Next
  <2> QED
    BY <2>1, OnlyKillsDrop DEF GatheredInv
<1> QED
  BY <1>1, GatheredInvInit, GatheredInvNext, PTL DEF Spec

-----------------------------------------------------------------------------
(* The benchmark of a domain.                                              *)

\* A run of the script, and what it is asked for.
Runners ==
    [pc : {"idle", "sidecar", "wait", "probe", "bench", "free", "comet", "report", "stop", "done"},
     repeats : Nat \ {0}, arms : {{"base"}, E!Arms}, comet : BOOLEAN,
     proc : E!Pids \cup {None}, exited : BOOLEAN, procs : SUBSET E!Pids, mine : SUBSET E!Pids,
     label : {"none", "reused", "ours", "unproven"}, rep : Nat \ {0}, arm : E!Arms,
     retried : BOOLEAN, left : SUBSET Rows, answered : SUBSET Rows, touched : SUBSET E!Arms]
Tallies ==
    [invocations : 0..MaxInvocations, launches : 0..MaxLaunches, rebuilds : Nat, mishaps : Nat]

ETyped ==
    /\ build \in Builds \cup {None} /\ port \in E!Pids \cup E!Strangers \cup {None}
    /\ alive \subseteq E!Pids
    /\ files \in [E!Arms -> Seq(E!Runs)] /\ runner \in Runners /\ counts \in Tallies

\* The sidecars an invocation may have running: those it has noted for the clean-up, and the one
\* it waits for.
Watched(r) == r.procs \cup (IF r.pc \in {"wait", "probe"} THEN {r.proc} ELSE {})

\* A runner is at one of its own arms and repeats, and waits for a sidecar of its own.
AtWork(r) ==
    /\ r.rep <= r.repeats /\ r.arm \in r.arms
    /\ Watched(r) \subseteq r.mine

Leashed ==
    /\ runner.mine \cap alive \subseteq Watched(runner)
    /\ runner.pc = "done" => runner.mine \cap alive = {}

OneSeries(runs) == \A i, j \in DOMAIN runs : runs[i].series = runs[j].series

\* While it measures, an invocation has put runs of its own, and nothing else, into the arms it
\* is through with; it comes to the second arm after the first, and to a repeat after all.
Joining(r) ==
    r.pc \in {"sidecar", "wait", "probe", "bench"} =>
        /\ \A a \in r.touched : \A i \in DOMAIN files[a] : files[a][i].series = counts.invocations
        /\ r.arm = "scope" => "base" \in r.touched
        /\ r.rep > 1 => r.arms \subseteq r.touched

EInv ==
    /\ ETyped /\ AtWork(runner) /\ Leashed /\ Joining(runner)
    /\ \A a \in E!Arms : OneSeries(files[a])
    /\ E!FloorIsOneSeries

LEMMA PublishedIsOneSeries ==
    /\ OneSeries(<< >>)
    /\ \A n \in Nat : OneSeries(E!Published(n)) /\ E!Published(n) \in Seq(E!Runs)
<1>1. ASSUME NEW n \in Nat PROVE OneSeries(E!Published(n)) /\ E!Published(n) \in Seq(E!Runs)
  <2> DEFINE one == [E!Run(None, Rows, 0) EXCEPT !.scored = TRUE]
  <2>1. 0 \in 0..MaxInvocations
    BY ScriptsAssumption
  <2>2. one \in E!Runs
    BY <2>1 DEF E!Run, E!Runs
  <2>3. E!Published(n) = [i \in 1..n |-> one]
    BY DEF E!Published
  <2> HIDE DEF one
  <2> QED
    BY <2>2, <2>3 DEF OneSeries
<1> QED
  BY <1>1 DEF OneSeries

LEMMA IdleRunner ==
    /\ E!Idle \in Runners /\ E!Idle.pc = "idle" /\ E!Idle.procs = {} /\ E!Idle.mine = {}
    /\ E!Idle.rep = 1 /\ E!Idle.repeats = 1 /\ E!Idle.arm = "base" /\ E!Idle.arms = E!Arms
    /\ E!Idle.touched = {}
BY DEF E!Idle, Runners, E!Arms, E!Pids

LEMMA EInvInit == E!Init => EInv
<1> SUFFICES ASSUME E!Init PROVE EInv
  OBVIOUS
<1>1. ETyped
  <2>1. counts \in Tallies
    BY ScriptsAssumption DEF E!Init, Tallies
  <2>2. files \in [E!Arms -> Seq(E!Runs)]
    BY PublishedIsOneSeries, ScriptsAssumption DEF E!Init
  <2> QED
    BY <2>1, <2>2, IdleRunner DEF E!Init, ETyped
<1>2. AtWork(runner) /\ Leashed /\ Joining(runner)
  BY IdleRunner DEF E!Init, AtWork, Leashed, Joining, Watched, E!Arms
<1>3. (\A a \in E!Arms : OneSeries(files[a])) /\ E!FloorIsOneSeries
  BY PublishedIsOneSeries, ScriptsAssumption DEF E!Init, E!FloorIsOneSeries
<1> QED
  BY <1>1, <1>2, <1>3 DEF EInv

Measures(r) == r.pc \in {"sidecar", "wait", "probe", "bench"}

\* An invocation begins at its first arm and repeat; one that has ended has nothing in hand.
Unworn(pc, repeats, arms, comet, mine) ==
    [pc |-> pc, repeats |-> repeats, arms |-> arms, comet |-> comet, proc |-> None,
     exited |-> FALSE, procs |-> {}, mine |-> mine, label |-> "none", rep |-> 1, arm |-> "base",
     retried |-> FALSE, left |-> Rows, answered |-> {}, touched |-> {}]

LEMMA UnwornRunner ==
    ASSUME NEW r, r = Unworn(r.pc, r.repeats, r.arms, r.comet, r.mine),
           r.pc \in {"sidecar", "report", "done"}, r.repeats \in Nat \ {0},
           r.arms \in {{"base"}, E!Arms}, r.comet \in BOOLEAN, r.mine \in SUBSET E!Pids
    PROVE  /\ r \in Runners /\ AtWork(r) /\ Watched(r) = {}
           /\ r.touched = {} /\ r.arm = "base" /\ r.rep = 1
<1>1. r.procs = {} /\ r.touched = {} /\ r.arm = "base" /\ r.rep = 1
  BY DEF Unworn
<1>2. r \in Runners
  <2> DEFINE pc == r.pc  repeats == r.repeats  arms == r.arms  comet == r.comet  mine == r.mine
  <2>1. /\ pc \in {"sidecar", "report", "done"} /\ repeats \in Nat \ {0}
        /\ arms \in {{"base"}, E!Arms} /\ comet \in BOOLEAN /\ mine \in SUBSET E!Pids
        /\ r = Unworn(pc, repeats, arms, comet, mine)
    OBVIOUS
  <2> HIDE DEF pc, repeats, arms, comet, mine
  <2> QED
    BY <2>1 DEF Unworn, Runners, E!Arms
<1>3. Watched(r) = {}
  BY <1>1 DEF Watched
<1>4. "base" \in r.arms /\ 1 <= r.repeats
  BY DEF E!Arms
<1>5. AtWork(r)
  BY <1>1, <1>3, <1>4 DEF AtWork
<1> QED
  BY <1>1, <1>2, <1>3, <1>5

\* A step that writes no run and no report keeps what is known of them, when the runner either
\* stays at its arm and repeat or does not measure any more.
LEMMA FilesStay ==
    ASSUME EInv, UNCHANGED <<files, report>>, counts' \in Tallies,
           counts'.invocations = counts.invocations, build' \in Builds \cup {None},
           port' \in E!Pids \cup E!Strangers \cup {None}, alive' \subseteq E!Pids,
           runner' \in Runners, AtWork(runner)', Leashed',
           Measures(runner') =>
               /\ Measures(runner) /\ runner'.touched = runner.touched
               /\ runner'.arm = runner.arm /\ runner'.arms = runner.arms /\ runner'.rep = runner.rep
    PROVE  EInv'
<1>1. ETyped'
  BY DEF EInv, ETyped
<1>2. Joining(runner)'
  BY DEF EInv, Joining, Measures
<1>3. (\A a \in E!Arms : OneSeries(files[a]))' /\ E!FloorIsOneSeries'
  BY DEF EInv, OneSeries, E!FloorIsOneSeries
<1> QED
  BY <1>1, <1>2, <1>3 DEF EInv

LEMMA BeginKeeps ==
    ASSUME EInv, E!StartReport \/ \E options \in Options : E!Start(options)
    PROVE  EInv'
<1>1. /\ counts' = [counts EXCEPT !.invocations = @ + 1] /\ counts.invocations < MaxInvocations
      /\ report' = {} /\ UNCHANGED <<build, port, alive, files>>
  BY DEF E!Start, E!StartReport
<1> DEFINE Begun == /\ runner' \in Runners /\ AtWork(runner') /\ Watched(runner') = {}
                    /\ runner'.mine = {} /\ runner'.pc # "done" /\ runner'.touched = {}
                    /\ runner'.arm = "base" /\ runner'.rep = 1
<1>2. Begun
  <2>1. CASE E!StartReport
    <3>1. runner' = [E!Idle EXCEPT !.pc = "report"]
      BY <2>1 DEF E!StartReport
    <3>2. runner' = Unworn("report", 1, E!Arms, TRUE, {})
      BY <3>1 DEF E!Idle, Unworn
    <3> QED
      <4>1. /\ runner'.pc = "report" /\ runner'.repeats = 1 /\ runner'.arms = E!Arms
            /\ runner'.comet \in BOOLEAN /\ runner'.mine = {}
        BY <3>2 DEF Unworn
      <4>2. runner' = Unworn(runner'.pc, runner'.repeats, runner'.arms, runner'.comet, runner'.mine)
        BY <3>2 DEF Unworn
      <4>3. runner'.repeats \in Nat \ {0} /\ runner'.mine \in SUBSET E!Pids
        BY <4>1
      <4> QED
        BY <4>1, <4>2, <4>3, UnwornRunner
  <2>2. ASSUME NEW options \in Options, E!Start(options)
        PROVE  Begun
    <3>1. /\ options.repeats \in Nat \ {0} /\ options.comet \in BOOLEAN
          /\ options.arms \in {{"base"}, E!Arms}
      BY ScriptsAssumption DEF E!Arms
    <3>2. runner' = [E!Idle EXCEPT !.pc = "sidecar", !.repeats = options.repeats,
                       !.arms = options.arms, !.comet = options.comet]
      BY <2>2 DEF E!Start
    <3>3. runner' = Unworn("sidecar", options.repeats, options.arms, options.comet, {})
      BY <3>2 DEF E!Idle, Unworn
    <3> QED
      <4>1. /\ runner'.pc = "sidecar" /\ runner'.repeats = options.repeats
            /\ runner'.arms = options.arms /\ runner'.comet = options.comet /\ runner'.mine = {}
        BY <3>3 DEF Unworn
      <4>2. runner' = Unworn(runner'.pc, runner'.repeats, runner'.arms, runner'.comet, runner'.mine)
        BY <3>3, <4>1
      <4> QED
        BY <3>1, <4>1, <4>2, UnwornRunner
  <2> QED
    BY <2>1, <2>2
<1>3. ETyped'
  <2>1. MaxInvocations \in Nat
    BY ScriptsAssumption
  <2>2. counts.invocations + 1 \in 0..MaxInvocations
    BY <1>1, <2>1 DEF EInv, ETyped, Tallies
  <2>3. counts' \in Tallies
    BY <1>1, <2>2 DEF EInv, ETyped, Tallies
  <2> QED
    BY <1>1, <1>2, <2>3 DEF EInv, ETyped
<1>4. Leashed' /\ Joining(runner)' /\ AtWork(runner)'
  BY <1>2 DEF Leashed, Joining, AtWork, Watched
<1>5. (\A a \in E!Arms : OneSeries(files[a]))' /\ E!FloorIsOneSeries'
  BY <1>1 DEF EInv, OneSeries, E!FloorIsOneSeries
<1> QED
  BY <1>3, <1>4, <1>5 DEF EInv

\* The file of the arm with the new run: a repeat joins runs of its own invocation.
LEMMA RecordedSeries ==
    ASSUME EInv, runner.pc = "bench"
    PROVE  /\ E!Recorded \in [E!Arms -> Seq(E!Runs)] /\ runner.arm \in E!Arms
           /\ \A a \in E!Arms \ {runner.arm} : E!Recorded[a] = files[a]
           /\ \A i \in DOMAIN E!Recorded[runner.arm] :
                 E!Recorded[runner.arm][i].series = counts.invocations
<1> DEFINE arm == runner.arm
           before == E!Earlier(files[arm], runner.rep)
           new == E!Run(E!RecordedBuild, runner.answered, counts.invocations)
<1>t. ETyped /\ AtWork(runner) /\ Joining(runner)
  BY DEF EInv
<1>1. arm \in E!Arms /\ runner.rep \in Nat \ {0} /\ runner.answered \in SUBSET Rows
  BY <1>t DEF ETyped, Runners
<1>2. new \in E!Runs /\ new.series = counts.invocations
  BY <1>t, <1>1 DEF ETyped, Tallies, E!Runs, E!Run, E!RecordedBuild
<1>3. before \in Seq(E!Runs)
  BY <1>t, <1>1 DEF ETyped, E!Earlier
<1>4. \A i \in DOMAIN before : before[i].series = counts.invocations
  <2>1. CASE runner.rep > 1
    <3>1. arm \in runner.touched
      BY <1>t, <2>1 DEF AtWork, Joining
    <3> QED
      BY <1>t, <2>1, <3>1 DEF Joining, E!Earlier
  <2>2. CASE ~(runner.rep > 1)
    BY <2>2 DEF E!Earlier
  <2> QED
    BY <2>1, <2>2
<1>5. E!Recorded = [files EXCEPT ![arm] = before \o <<new>>]
  BY DEF E!Recorded
<1> HIDE DEF before, new, arm
<1>6. before \o <<new>> \in Seq(E!Runs)
  BY <1>2, <1>3
<1>7. \A i \in DOMAIN (before \o <<new>>) : (before \o <<new>>)[i].series = counts.invocations
  BY <1>2, <1>3, <1>4
<1> QED
  BY <1>t, <1>1, <1>5, <1>6, <1>7 DEF ETyped, arm

\* The next arm, the next repeat, or the end of the measurements.
LEMMA NextBenchKeeps ==
    ASSUME NEW r \in Runners, AtWork(r), r.pc = "bench",
           r.arm = "scope" => "base" \in r.touched, r.rep > 1 => r.arms \subseteq r.touched
    PROVE  LET next == E!NextBench(r) IN
           /\ next \in Runners /\ AtWork(next) /\ next.pc \in {"bench", "free"}
           /\ next.procs = r.procs /\ next.mine = r.mine
           /\ next.touched = r.touched \cup {r.arm}
           /\ next.arm = "scope" => "base" \in next.touched
           /\ next.rep > 1 => next.arms \subseteq next.touched
<1> DEFINE fresh == [r EXCEPT !.left = Rows, !.answered = {}, !.retried = FALSE,
                       !.touched = @ \cup {r.arm}]
           next == E!NextBench(r)
<1>1. /\ fresh \in Runners /\ fresh.pc = "bench" /\ fresh.procs = r.procs /\ fresh.mine = r.mine
      /\ fresh.touched = r.touched \cup {r.arm} /\ fresh.arm = r.arm /\ fresh.arms = r.arms
      /\ fresh.rep = r.rep /\ fresh.repeats = r.repeats
  BY DEF Runners
<1>2. r.arms \in {{"base"}, E!Arms} /\ r.arm \in E!Arms /\ r.rep \in Nat \ {0}
      /\ r.repeats \in Nat \ {0}
  BY DEF Runners
<1>w. r.procs \subseteq r.mine /\ r.rep <= r.repeats /\ r.arm \in r.arms
  BY DEF AtWork, Watched
<1>3. next = IF r.arm = "base" /\ "scope" \in r.arms THEN [fresh EXCEPT !.arm = "scope"]
             ELSE IF r.rep < r.repeats THEN [fresh EXCEPT !.arm = "base", !.rep = @ + 1]
             ELSE [fresh EXCEPT !.pc = "free"]
  BY DEF E!NextBench
<1> HIDE DEF fresh, next
<1>4. CASE r.arm = "base" /\ "scope" \in r.arms
  <2>1. next = [fresh EXCEPT !.arm = "scope"]
    BY <1>3, <1>4
  <2>2. next \in Runners
    BY <1>1, <2>1 DEF Runners, E!Arms
  <2> QED
    BY <1>1, <1>2, <1>w, <1>4, <2>1, <2>2 DEF Runners, AtWork, Watched, next
<1>5. CASE ~(r.arm = "base" /\ "scope" \in r.arms) /\ r.rep < r.repeats
  <2>1. next = [fresh EXCEPT !.arm = "base", !.rep = @ + 1]
    BY <1>3, <1>5
  <2>2. next \in Runners
    <3>1. fresh.rep + 1 \in Nat \ {0} /\ "base" \in E!Arms
      BY <1>1, <1>2 DEF E!Arms
    <3> QED
      BY <1>1, <2>1, <3>1 DEF Runners
  <2>3. r.arms \subseteq r.touched \cup {r.arm}
    BY <1>2, <1>w, <1>5 DEF E!Arms
  <2> QED
    BY <1>1, <1>2, <1>w, <1>5, <2>1, <2>2, <2>3 DEF Runners, AtWork, Watched, next, E!Arms
<1>6. CASE ~(r.arm = "base" /\ "scope" \in r.arms) /\ ~(r.rep < r.repeats)
  <2>1. next = [fresh EXCEPT !.pc = "free"]
    BY <1>3, <1>6
  <2>2. next \in Runners
    BY <1>1, <2>1 DEF Runners
  <2> QED
    BY <1>1, <1>2, <1>w, <2>1, <2>2 DEF Runners, AtWork, Watched, next
<1> QED
  BY <1>4, <1>5, <1>6

\* What is written into the file of an arm is one series, and the other files stay.
LEMMA RecordKeeps ==
    ASSUME EInv, runner.pc = "bench", files' = E!Recorded,
           UNCHANGED <<build, port, alive, report, counts>>,
           runner' \in Runners, AtWork(runner'), runner'.mine = runner.mine,
           runner'.procs = runner.procs, runner'.pc \in {"bench", "free", "sidecar", "stop"},
           runner'.touched \subseteq runner.touched \cup {runner.arm},
           Measures(runner') =>
               /\ runner'.arm = "scope" => "base" \in runner'.touched
               /\ runner'.rep > 1 => runner'.arms \subseteq runner'.touched
    PROVE  EInv'
<1>1. /\ files' \in [E!Arms -> Seq(E!Runs)]
      /\ \A a \in E!Arms \ {runner.arm} : files'[a] = files[a]
      /\ \A i \in DOMAIN files'[runner.arm] : files'[runner.arm][i].series = counts.invocations
  BY RecordedSeries
<1>2. ETyped'
  BY <1>1 DEF EInv, ETyped
<1>3. Leashed' /\ AtWork(runner)'
  BY DEF EInv, Leashed, Watched, AtWork
<1>4. Joining(runner)'
  <2>1. \A a \in runner.touched : \A i \in DOMAIN files[a] : files[a][i].series = counts.invocations
    BY DEF EInv, Joining
  <2>2. runner'.touched \subseteq E!Arms
    BY DEF Runners
  <2>3. \A a \in runner'.touched : \A i \in DOMAIN files'[a] : files'[a][i].series = counts'.invocations
    BY <1>1, <2>1, <2>2
  <2> QED
    BY <2>3 DEF Joining, Measures
<1>5. (\A a \in E!Arms : OneSeries(files[a]))'
  BY <1>1 DEF EInv, OneSeries
<1>6. E!FloorIsOneSeries'
  BY DEF EInv, E!FloorIsOneSeries
<1> QED
  BY <1>2, <1>3, <1>4, <1>5, <1>6 DEF EInv

\* The groups of repeats of a file of one series are of one build and one series.
LEMMA FloorsOfOneSeries ==
    ASSUME NEW runs, OneSeries(runs), NEW group \in E!Spread(runs),
           NEW i \in DOMAIN group, NEW j \in DOMAIN group
    PROVE  group[i].sha = group[j].sha /\ group[i].series = group[j].series
<1>1. PICK build1 \in E!BuildGroups(runs) :
         group = [n \in build1 \cap E!Scored(runs) |-> runs[n]]
  BY DEF E!Spread
<1>2. PICK sha : build1 = {n \in DOMAIN runs : runs[n].sha = sha}
  BY DEF E!BuildGroups
<1>3. i \in build1 /\ j \in build1 /\ group[i] = runs[i] /\ group[j] = runs[j]
  BY <1>1
<1> QED
  BY <1>2, <1>3 DEF OneSeries

LEMMA SummaryOfOneSeries ==
    ASSUME NEW base, NEW scope, OneSeries(base), OneSeries(scope)
    PROVE  \A group \in E!SummarizeEngine(base, scope).floors : \A i, j \in DOMAIN group :
              group[i].sha = group[j].sha /\ group[i].series = group[j].series
<1>1. E!SummarizeEngine(base, scope).floors = E!Spread(base) \cup E!Spread(scope)
  BY DEF E!SummarizeEngine
<1> QED
  BY <1>1, FloorsOfOneSeries

LEMMA ReportKeeps ==
    ASSUME EInv, NEW repeats \in [E!Arms -> 0..MaxPublished], NEW covers \in BOOLEAN,
           NEW force \in BOOLEAN, E!GenerateReport(repeats, covers, force)
    PROVE  EInv'
<1>1. UNCHANGED <<build, port, alive, files, counts>> /\ runner' = [runner EXCEPT !.pc = "stop"]
      /\ runner.pc = "report"
  BY DEF E!GenerateReport
<1>2. ETyped' /\ AtWork(runner)' /\ Leashed' /\ Joining(runner)'
  <2>1. runner' \in Runners
    BY <1>1 DEF EInv, ETyped, Runners
  <2> QED
    BY <1>1, <2>1 DEF EInv, ETyped, Runners, AtWork, Leashed, Watched, Joining
<1>3. (\A a \in E!Arms : OneSeries(files[a]))'
  BY <1>1 DEF EInv, OneSeries
<1>4. E!FloorIsOneSeries'
  <2>1. OneSeries(files["base"]) /\ OneSeries(files["scope"])
    BY DEF EInv, E!Arms
  <2>2. OneSeries(E!Published(repeats["base"])) /\ OneSeries(E!Published(repeats["scope"]))
    <3>1. repeats["base"] \in Nat /\ repeats["scope"] \in Nat
      BY ScriptsAssumption DEF E!Arms
    <3> QED
      BY <3>1, PublishedIsOneSeries
  <2>3. \A summary \in report' : \E base, scope :
           summary = E!SummarizeEngine(base, scope) /\ OneSeries(base) /\ OneSeries(scope)
    BY <2>1, <2>2 DEF E!GenerateReport, E!ExtraSections
  <2> QED
    BY <2>3, SummaryOfOneSeries DEF E!FloorIsOneSeries
<1> QED
  BY <1>2, <1>3, <1>4 DEF EInv

\* Scores are written into the runs that are there.
LEMMA ScoreKeeps ==
    ASSUME EInv, NEW arm \in E!Arms, E!ScoreComet(arm)
    PROVE  EInv'
<1> DEFINE scores == [i \in 1..Len(files[arm]) |-> [files[arm][i] EXCEPT !.scored = TRUE]]
<1>1. /\ UNCHANGED <<build, port, alive, report, counts>>
      /\ runner.pc = "comet" /\ runner'.pc \in {"report", "comet"}
      /\ runner' = [runner EXCEPT !.touched = @ \ {arm},
                      !.pc = IF runner.touched = {arm} THEN "report" ELSE "comet"]
      /\ files' = [files EXCEPT ![arm] = scores]
  BY DEF E!ScoreComet, EInv, ETyped, Runners
<1>2. files[arm] \in Seq(E!Runs)
  BY DEF EInv, ETyped
<1>3. \A run1 \in E!Runs : /\ [run1 EXCEPT !.scored = TRUE] \in E!Runs
                           /\ [run1 EXCEPT !.scored = TRUE].series = run1.series
  BY DEF E!Runs
<1>4. scores \in Seq(E!Runs)
  BY <1>2, <1>3
<1>5. DOMAIN scores = DOMAIN files[arm]
      /\ \A i \in DOMAIN scores : scores[i].series = files[arm][i].series
  BY <1>2, <1>3
<1> HIDE DEF scores
<1>6. files' \in [E!Arms -> Seq(E!Runs)]
  BY <1>1, <1>4 DEF EInv, ETyped
<1>7. runner' \in Runners
  BY <1>1 DEF EInv, ETyped, Runners
<1>8. ETyped' /\ AtWork(runner)' /\ Leashed' /\ Joining(runner)'
  BY <1>1, <1>6, <1>7 DEF EInv, ETyped, Runners, AtWork, Leashed, Watched, Joining
<1>9. (\A a \in E!Arms : OneSeries(files[a]))'
  BY <1>1, <1>5 DEF EInv, ETyped, OneSeries
<1>10. E!FloorIsOneSeries'
  BY <1>1 DEF EInv, E!FloorIsOneSeries
<1> QED
  BY <1>8, <1>9, <1>10 DEF EInv

LEMMA KilledKeeps ==
    ASSUME EInv, NEW torn \in BOOLEAN, E!Kill(torn)
    PROVE  EInv'
<1>1. /\ UNCHANGED <<build, port, alive, report>> /\ runner' = E!Idle
      /\ counts' = [counts EXCEPT !.mishaps = @ + 1]
      /\ files' = IF torn THEN [files EXCEPT ![runner.arm] = << >>] ELSE files
  BY DEF E!Kill, E!Mishap
<1>2. files' \in [E!Arms -> Seq(E!Runs)] /\ counts' \in Tallies
  <2>1. files' \in [E!Arms -> Seq(E!Runs)]
    <3>1. << >> \in Seq(E!Runs)
      OBVIOUS
    <3> QED
      BY <1>1, <3>1 DEF EInv, ETyped
  <2>2. counts' \in Tallies
    BY <1>1 DEF EInv, ETyped, Tallies
  <2> QED
    BY <2>1, <2>2
<1>3. ETyped' /\ AtWork(runner)' /\ Leashed' /\ Joining(runner)'
  BY <1>1, <1>2, IdleRunner DEF EInv, ETyped, AtWork, Leashed, Watched, Joining, E!Arms
<1>4. (\A a \in E!Arms : OneSeries(files[a]))'
  BY <1>1, PublishedIsOneSeries DEF EInv, ETyped, OneSeries
<1>5. E!FloorIsOneSeries'
  BY <1>1 DEF EInv, E!FloorIsOneSeries
<1> QED
  BY <1>3, <1>4, <1>5 DEF EInv

LEMMA EInvNext == EInv /\ E!Next => EInv'
<1> SUFFICES ASSUME EInv, E!Next PROVE EInv'
  OBVIOUS
<1>t. /\ build \in Builds \cup {None} /\ port \in E!Pids \cup E!Strangers \cup {None} /\ alive \subseteq E!Pids
      /\ runner \in Runners /\ counts \in Tallies
  BY DEF EInv, ETyped
<1>w. AtWork(runner) /\ Leashed
  BY DEF EInv
<1>1. CASE E!Reuse
  <2>1. runner' \in Runners /\ AtWork(runner)' /\ Leashed'
    BY <1>1, <1>t, <1>w DEF E!Reuse, Runners, AtWork, Leashed, Watched
  <2> QED
    BY <1>1, <1>t, <2>1, FilesStay DEF E!Reuse, Runners, Measures
<1>2. CASE E!Launch
  <2> DEFINE pid == counts.launches + 1
  <2>1. pid \in E!Pids /\ counts' \in Tallies /\ counts'.invocations = counts.invocations
    BY <1>2, <1>t, ScriptsAssumption DEF E!Launch, Tallies, E!Pids
  <2>2. /\ runner' = [runner EXCEPT !.pc = "wait", !.proc = pid, !.mine = @ \cup {pid}]
        /\ alive' = alive \cup {pid} /\ runner.pc = "sidecar"
    BY <1>2 DEF E!Launch
  <2> HIDE DEF pid
  <2>3. runner' \in Runners /\ AtWork(runner)' /\ Leashed'
    BY <1>t, <1>w, <2>1, <2>2 DEF Runners, AtWork, Leashed, Watched
  <2> QED
    BY <1>2, <1>t, <2>1, <2>2, <2>3, FilesStay DEF E!Launch, Runners, Measures
<1>3. CASE E!PollProcess
  <2>1. runner' \in Runners /\ AtWork(runner)' /\ Leashed'
    BY <1>3, <1>t, <1>w DEF E!PollProcess, Runners, AtWork, Leashed, Watched
  <2> QED
    BY <1>3, <1>t, <2>1, FilesStay DEF E!PollProcess, Runners, Measures
<1>4. CASE E!Probe
  <2>1. /\ UNCHANGED <<build, files, report, counts>> /\ runner.pc = "probe"
        /\ alive' \subseteq alive /\ port' \in {port, None}
    BY <1>4 DEF E!Probe, E!Ends
  <2>2. /\ runner' \in Runners /\ AtWork(runner)' /\ Leashed'
        /\ Measures(runner') => /\ runner'.touched = runner.touched /\ runner'.arm = runner.arm
                                /\ runner'.arms = runner.arms /\ runner'.rep = runner.rep
    <3> DEFINE label == E!Classify(runner.proc, runner.exited, port)
    <3>1. CASE label \in {"ours", "unproven"} /\ E!Ready(label) /\ UNCHANGED <<port, alive>>
      <4>1. /\ runner' = [runner EXCEPT !.pc = "bench", !.label = label,
                            !.procs = @ \cup {runner.proc}]
            /\ label \in {"ours", "unproven"} /\ UNCHANGED alive
        BY <3>1 DEF E!Ready
      <4>2. runner.proc \in E!Pids
        BY <1>t, <1>w, <2>1 DEF AtWork, Watched, Runners
      <4> HIDE DEF label
      <4> QED
        BY <1>t, <1>w, <2>1, <4>1, <4>2 DEF Runners, AtWork, Leashed, Watched
    <3>2. CASE runner' = [runner EXCEPT !.pc = "wait"] /\ UNCHANGED <<port, alive>>
      BY <1>t, <1>w, <2>1, <3>2 DEF Runners, AtWork, Leashed, Watched
    <3>3. CASE E!Ends({runner.proc}) /\ runner' = [runner EXCEPT !.pc = "stop"]
      BY <1>t, <1>w, <2>1, <3>3 DEF E!Ends, Runners, AtWork, Leashed, Watched, Measures
    <3> QED
      BY <1>4, <3>1, <3>2, <3>3 DEF E!Probe
  <2> QED
    BY <1>t, <2>1, <2>2, FilesStay DEF Measures
<1>5. CASE E!InstallFails
  <2>1. runner' \in Runners /\ AtWork(runner)' /\ Leashed'
    BY <1>5, <1>t, <1>w DEF E!InstallFails, Runners, AtWork, Leashed, Watched
  <2> QED
    BY <1>5, <1>t, <2>1, FilesStay DEF E!InstallFails, Runners, Measures
<1>6. ASSUME NEW r \in Rows, NEW answers \in BOOLEAN, E!TranslateRow(r, answers) PROVE EInv'
  <2>1. runner' \in Runners /\ AtWork(runner)' /\ Leashed'
    BY <1>6, <1>t, <1>w DEF E!TranslateRow, Runners, AtWork, Leashed, Watched
  <2> QED
    BY <1>6, <1>t, <2>1, FilesStay DEF E!TranslateRow, Runners, Measures
<1>7. CASE E!WriteEvidence
  <2>1. /\ runner.pc = "bench" /\ files' = E!Recorded /\ runner' = E!NextBench(runner)
        /\ UNCHANGED <<build, port, alive, report, counts>>
    BY <1>7 DEF E!WriteEvidence
  <2>2. /\ runner.arm = "scope" => "base" \in runner.touched
        /\ runner.rep > 1 => runner.arms \subseteq runner.touched
    BY <2>1 DEF EInv, Joining
  <2> QED
    BY <1>t, <1>w, <2>1, <2>2, NextBenchKeeps, RecordKeeps
<1>8. ASSUME NEW written \in BOOLEAN, E!BenchFails(written) PROVE EInv'
  <2>1. /\ runner.pc = "bench" /\ UNCHANGED <<build, port, alive, report, counts>>
        /\ files' = IF written THEN E!Recorded ELSE files
        /\ runner' \in {[runner EXCEPT !.pc = "stop"],
                        [runner EXCEPT !.pc = "sidecar", !.retried = TRUE, !.left = Rows,
                           !.answered = {}]}
    BY <1>8 DEF E!BenchFails
  <2>2. /\ runner' \in Runners /\ AtWork(runner') /\ runner'.mine = runner.mine
        /\ runner'.procs = runner.procs /\ runner'.pc \in {"sidecar", "stop"}
        /\ runner'.touched = runner.touched /\ runner'.arm = runner.arm
        /\ runner'.arms = runner.arms /\ runner'.rep = runner.rep
    <3>1. CASE runner' = [runner EXCEPT !.pc = "stop"]
      BY <1>t, <1>w, <2>1, <3>1 DEF Runners, AtWork, Watched
    <3>2. CASE runner' = [runner EXCEPT !.pc = "sidecar", !.retried = TRUE, !.left = Rows,
                            !.answered = {}]
      BY <1>t, <1>w, <2>1, <3>2 DEF Runners, AtWork, Watched
    <3> QED
      BY <2>1, <3>1, <3>2
  <2>3. /\ runner.arm = "scope" => "base" \in runner.touched
        /\ runner.rep > 1 => runner.arms \subseteq runner.touched
    BY <2>1 DEF EInv, Joining
  <2>4. CASE written
    BY <2>1, <2>2, <2>3, <2>4, RecordKeeps
  <2>5. CASE ~written
    <3>1. AtWork(runner)' /\ Leashed' /\ Measures(runner)
      BY <1>w, <2>1, <2>2 DEF AtWork, Leashed, Watched, Measures
    <3> QED
      BY <1>t, <2>1, <2>2, <2>5, <3>1, FilesStay
  <2> QED
    BY <2>4, <2>5
<1>9. CASE E!FreeSidecars
  <2>1. /\ runner' \in Runners /\ AtWork(runner)' /\ Leashed' /\ ~Measures(runner')
        /\ alive' \subseteq alive /\ port' \in {port, None}
    BY <1>9, <1>t, <1>w DEF E!FreeSidecars, E!Ends, Runners, AtWork, Leashed, Watched, Measures
  <2> QED
    BY <1>9, <1>t, <2>1, FilesStay DEF E!FreeSidecars
<1>10. CASE E!ScoreFails
  <2>1. runner' \in Runners /\ AtWork(runner)' /\ Leashed'
    BY <1>10, <1>t, <1>w DEF E!ScoreFails, Runners, AtWork, Leashed, Watched
  <2> QED
    BY <1>10, <1>t, <2>1, FilesStay DEF E!ScoreFails, Runners, Measures
<1>11. CASE E!Stop
  <2>1. runner' = [E!Idle EXCEPT !.pc = "done", !.mine = runner.mine]
    BY <1>11 DEF E!Stop
  <2>2. /\ runner' \in Runners /\ AtWork(runner)' /\ ~Measures(runner')
        /\ runner'.mine = runner.mine /\ Watched(runner') = {}
    <3>1. runner' = Unworn("done", 1, E!Arms, TRUE, runner.mine)
      BY <2>1 DEF E!Idle, Unworn
    <3>2. runner.mine \in SUBSET E!Pids
      BY <1>t DEF Runners
    <3>3. /\ runner' \in Runners /\ AtWork(runner') /\ runner'.pc = "done"
          /\ runner'.mine = runner.mine /\ Watched(runner') = {}
      <4>1. /\ runner'.pc = "done" /\ runner'.repeats = 1 /\ runner'.arms = E!Arms
            /\ runner'.comet \in BOOLEAN /\ runner'.mine = runner.mine
        BY <3>1 DEF Unworn
      <4>2. runner' = Unworn(runner'.pc, runner'.repeats, runner'.arms, runner'.comet, runner'.mine)
        BY <3>1 DEF Unworn
      <4> QED
        BY <3>2, <4>1, <4>2, UnwornRunner
    <3> QED
      BY <3>3 DEF AtWork, Watched, Measures
  <2>3. alive' = alive \ runner.procs /\ port' \in {port, None} /\ runner.pc = "stop"
    BY <1>11 DEF E!Stop, E!Ends
  <2>4. Leashed'
    BY <1>w, <2>2, <2>3 DEF Leashed, Watched
  <2> QED
    BY <1>11, <1>t, <2>2, <2>3, <2>4, FilesStay DEF E!Stop
<1>12. ASSUME NEW pid \in E!Pids, E!Bind(pid) \/ E!Die(pid) PROVE EInv'
  <2>1. /\ UNCHANGED <<build, files, runner, report>> /\ alive' \subseteq alive
        /\ port' \in {port, None, pid} /\ counts' \in {counts, [counts EXCEPT !.mishaps = @ + 1]}
    BY <1>12 DEF E!Bind, E!Die, E!Ends, E!Mishap
  <2>2. counts' \in Tallies /\ counts'.invocations = counts.invocations
    BY <1>t, <2>1 DEF Tallies
  <2>3. AtWork(runner)' /\ Leashed'
    BY <1>w, <2>1 DEF AtWork, Leashed, Watched
  <2> QED
    BY <1>t, <2>1, <2>2, <2>3, FilesStay DEF Measures
<1>13. ASSUME NEW who \in E!Strangers, E!Occupy(who) PROVE EInv'
  <2>1. /\ UNCHANGED <<build, alive, files, runner, report>> /\ port' = who
        /\ counts' = [counts EXCEPT !.mishaps = @ + 1]
    BY <1>13 DEF E!Occupy, E!Mishap
  <2>2. counts' \in Tallies /\ counts'.invocations = counts.invocations
    BY <1>t, <2>1 DEF Tallies
  <2>3. AtWork(runner)' /\ Leashed'
    BY <1>w, <2>1 DEF AtWork, Leashed, Watched
  <2> QED
    BY <1>t, <2>1, <2>2, <2>3, FilesStay DEF Measures
<1>14. ASSUME NEW b \in Builds \cup {None}, E!Rebuild(b) PROVE EInv'
  <2>1. /\ UNCHANGED <<port, alive, files, runner, report>> /\ build' = b
        /\ counts' = [counts EXCEPT !.rebuilds = @ + 1]
    BY <1>14 DEF E!Rebuild
  <2>2. counts' \in Tallies /\ counts'.invocations = counts.invocations
    BY <1>t, <2>1 DEF Tallies
  <2>3. AtWork(runner)' /\ Leashed'
    BY <1>w, <2>1 DEF AtWork, Leashed, Watched
  <2> QED
    BY <1>t, <2>1, <2>2, <2>3, FilesStay DEF Measures
<1> QED
  BY <1>1, <1>2, <1>3, <1>4, <1>5, <1>6, <1>7, <1>8, <1>9, <1>10, <1>11, <1>12, <1>13, <1>14,
     BeginKeeps, ScoreKeeps, KilledKeeps, ReportKeeps DEF E!Next

LEMMA EvidenceTyped == EInv => E!TypeOK
<1> SUFFICES ASSUME EInv PROVE E!TypeOK
  OBVIOUS
<1>1. \A a \in E!Arms : \A i \in 1..Len(files[a]) : files[a][i] \in E!Runs
  BY DEF EInv, ETyped
<1> QED
  BY <1>1 DEF EInv, ETyped, Runners, AtWork, Watched, E!TypeOK

EvidenceInv == tool = "evidence" => EInv

LEMMA EvidenceInvInit == Init => EvidenceInv
BY EInvInit DEF Init, EvidenceInv

LEMMA EvidenceInvNext == EvidenceInv /\ [Next]_vars => EvidenceInv'
<1> SUFFICES ASSUME EvidenceInv, [Next]_vars PROVE EvidenceInv'
  OBVIOUS
<1>1. CASE tool = "evidence" /\ E!Next
  BY <1>1, EInvNext DEF EvidenceInv
<1>2. CASE UNCHANGED vars
  BY <1>2 DEF EvidenceInv, vars, measuring, EInv, ETyped, AtWork, Leashed, Watched, Joining,
     OneSeries, E!FloorIsOneSeries
<1>3. CASE tool # "evidence" /\ UNCHANGED tool
  BY <1>3 DEF EvidenceInv
<1> QED
  BY <1>1, <1>2, <1>3 DEF Next

\* An invocation of the benchmark that ends by itself leaves none of its sidecars running,
\* however many it started, whatever died, bound the port or was rebuilt meanwhile.
THEOREM SidecarsAreStopped == Spec => []NoSidecarLeftBehind
<1>1. EvidenceInv => NoSidecarLeftBehind
  BY DEF EvidenceInv, EInv, Leashed, NoSidecarLeftBehind, E!NoSidecarLeftBehind
<1> QED
  BY <1>1, EvidenceInvInit, EvidenceInvNext, PTL DEF Spec

\* A noise floor over runs of a recorded build is the spread of repeats of one measurement: a
\* file never mixes them with the runs of another invocation, of another build or of none on
\* record, however its arms, repeats and retries were ordered, which of them failed, and whatever
\* was killed or torn between two repeats.
THEOREM FloorsAreOneSeries == Spec => []FloorIsOneSeries
<1>1. EvidenceInv => FloorIsOneSeries
  BY DEF EvidenceInv, EInv, FloorIsOneSeries
<1> QED
  BY <1>1, EvidenceInvInit, EvidenceInvNext, PTL DEF Spec
=============================================================================

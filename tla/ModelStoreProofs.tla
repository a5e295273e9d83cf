-------------------------- MODULE ModelStoreProofs --------------------------
(***************************************************************************)
(* What ModelStore keeps for any number of handler threads and language    *)
(* pairs, and both backends: the types, one load at a time into an empty   *)
(* place, no load claimed twice, and no engine missed where none was       *)
(* dropped or nobody else was there to drop it.                            *)
(***************************************************************************)
EXTENDS ModelStore, FiniteSetTheorems, TLAPS

-----------------------------------------------------------------------------
Kinds == {"none", "translate", "warm", "reload", "reload_warm", "readyz"}
Stages == {"none", "discard", "word", "report", "reword"}
Calls == [kind : Kinds, pair : Pairs \cup {Unknown, Unnamed}, built : BOOLEAN, stage : Stages,
          listed : BOOLEAN]
Places == {"idle", "enter", "test", "lock", "recheck", "load", "fetch", "locked_fetch", "use",
           "look", "listing", "drop"}

\* Between Enter and the engine a call is about a pair with a package.
OnPair == {"test", "lock", "recheck", "load", "fetch", "locked_fetch"}
PairKnown == \A t \in Threads : pc[t] \in OnPair => call[t].pair \in Pairs

\* The lock is held exactly while one thread is inside it.
Inside(step) == step \in {"recheck", "load", "locked_fetch"}
LockHeld ==
    /\ \A t \in Threads : Inside(pc[t]) => lock
    /\ lock => \E t \in Threads : Inside(pc[t])
    /\ \A t, u \in Threads : Inside(pc[t]) /\ Inside(pc[u]) => t = u

EmptyPlace == \A t \in Threads : pc[t] = "load" => call[t].pair \notin resident
EveryLoad == loads = drops + Cardinality(resident)

Builders == {t \in Threads : call[t].built}

IInv == TypeOK /\ PairKnown /\ LockHeld /\ EmptyPlace /\ EveryLoad /\ ClaimsMatchLoads

-----------------------------------------------------------------------------
LEMMA TypeSets == TypeOK => pc \in [Threads -> Places] /\ call \in [Threads -> Calls]
BY DEF TypeOK, Places, Calls, Kinds, Stages

LEMMA NoCallType == NoCall \in Calls /\ ~NoCall.built
BY DEF NoCall, Calls, Kinds, Stages

LEMMA CheckpointType == Checkpoint \in Pairs
BY StoreAssumption DEF Checkpoint

\* A code is folded onto a package, onto nothing, or stays without a name.
LEMMA FoldType ==
    ASSUME NEW kind, NEW name \in Names
    PROVE  Fold(kind, name) \in Pairs \cup {Unknown, Unnamed}
BY CheckpointType DEF Fold, Names

\* The fields of a call, one at a time.
LEMMA StageField ==
    ASSUME NEW c \in Calls, NEW s \in Stages
    PROVE  /\ [c EXCEPT !.stage = s] \in Calls
           /\ [c EXCEPT !.stage = s].pair = c.pair /\ [c EXCEPT !.stage = s].built = c.built
BY DEF Calls, Kinds, Stages

LEMMA BuiltField ==
    ASSUME NEW c \in Calls, NEW b \in BOOLEAN
    PROVE  /\ [c EXCEPT !.built = b] \in Calls
           /\ [c EXCEPT !.built = b].pair = c.pair /\ [c EXCEPT !.built = b].built = b
BY DEF Calls, Kinds, Stages

LEMMA ListedField ==
    ASSUME NEW c \in Calls, NEW b \in BOOLEAN
    PROVE  /\ [c EXCEPT !.listed = b] \in Calls
           /\ [c EXCEPT !.listed = b].pair = c.pair /\ [c EXCEPT !.listed = b].built = c.built
BY DEF Calls, Kinds, Stages

\* A step of a thread: where it goes, and the call it goes there with.
Moves(t, step, c) ==
    /\ pc' = [pc EXCEPT ![t] = step]
    /\ call' = [call EXCEPT ![t] = c]

LEMMA MoveType ==
    ASSUME TypeOK, NEW t \in Threads, NEW step \in Places, NEW c \in Calls, Moves(t, step, c)
    PROVE  /\ pc' \in [Threads -> Places] /\ call' \in [Threads -> Calls]
           /\ pc'[t] = step /\ call'[t] = c
           /\ \A u \in Threads \ {t} : pc'[u] = pc[u] /\ call'[u] = call[u]
BY TypeSets DEF Moves

\* A step outside the lock, on the pair of the call or on none, that loads nothing.
LEMMA OutsideStep ==
    ASSUME IInv, NEW t \in Threads, NEW step \in Places, NEW c \in Calls, Moves(t, step, c),
           Inside(step) <=> Inside(pc[t]), step # "load",
           step \in OnPair => c.pair \in Pairs,
           c.built => call[t].built, claims' \in {claims, claims + 1},
           claims' = claims + 1 => call[t].built /\ ~c.built,
           listing' \in [Threads -> {"none", "same", "grown", "old"}], starved' \in BOOLEAN,
           UNCHANGED <<backend, resident, lock, loads, drops>>
    PROVE  IInv'
<1>0. TypeOK /\ PairKnown /\ LockHeld /\ EmptyPlace /\ EveryLoad /\ ClaimsMatchLoads
  BY DEF IInv
<1>1. /\ pc' \in [Threads -> Places] /\ call' \in [Threads -> Calls]
      /\ pc'[t] = step /\ call'[t] = c
      /\ \A u \in Threads \ {t} : pc'[u] = pc[u] /\ call'[u] = call[u]
  BY <1>0, MoveType
<1>2. TypeOK'
  BY <1>0, <1>1 DEF TypeOK, Places, Calls, Kinds, Stages
<1>3. PairKnown'
  BY <1>0, <1>1 DEF PairKnown
<1>4. LockHeld'
  BY <1>0, <1>1 DEF LockHeld
<1>5. EmptyPlace' /\ EveryLoad'
  BY <1>0, <1>1 DEF EmptyPlace, EveryLoad
<1>6. ClaimsMatchLoads'
  <2>1. IsFiniteSet(Builders) /\ Cardinality(Builders) \in Nat
    BY StoreAssumption, FS_Subset, FS_CardinalityType DEF Builders
  <2>2. claims \in Nat /\ loads \in Nat /\ claims + Cardinality(Builders) <= loads
    BY <1>0 DEF TypeOK, ClaimsMatchLoads, Builders
  <2>3. CASE claims' = claims
    <3>1. Builders' \subseteq Builders
      BY <1>1 DEF Builders
    <3>2. Cardinality(Builders') <= Cardinality(Builders) /\ Cardinality(Builders') \in Nat
      BY <2>1, <3>1, FS_Subset, FS_CardinalityType
    <3> QED
      BY <2>1, <2>2, <2>3, <3>2 DEF ClaimsMatchLoads, Builders
  <2>4. CASE claims' = claims + 1
    <3>1. Builders' = Builders \ {t} /\ t \in Builders
      BY <1>1, <2>2, <2>4 DEF Builders
    <3>2. Cardinality(Builders') = Cardinality(Builders) - 1
      BY <2>1, <3>1, FS_RemoveElement
    <3> QED
      BY <2>1, <2>2, <2>4, <3>2 DEF ClaimsMatchLoads, Builders
  <2> QED
    BY <2>3, <2>4
<1> QED
  BY <1>2, <1>3, <1>4, <1>5, <1>6 DEF IInv

\* A claim counts only where a load was.
LEMMA AnswerStep ==
    ASSUME IInv, NEW t \in Threads, NEW reports \in BOOLEAN, Answer(t, reports),
           reports => call[t].built, pc[t] \in {"use", "listing"},
           listing' \in [Threads -> {"none", "same", "grown", "old"}], starved' \in BOOLEAN,
           UNCHANGED <<backend, resident, lock, loads, drops>>
    PROVE  IInv'
<1>1. Moves(t, "idle", NoCall) /\ NoCall \in Calls /\ ~NoCall.built
  BY NoCallType DEF Answer, Return, Goto, Moves
<1>2. claims' \in {claims, claims + 1} /\ (claims' = claims + 1 => call[t].built)
  <2>1. claims \in Nat
    BY DEF IInv, TypeOK
  <2> QED
    BY <2>1 DEF Answer
<1> QED
  BY <1>1, <1>2, OutsideStep DEF Inside, OnPair, Places

\* Steps of a call that is not in the lock.
LEMMA RequestSteps ==
    ASSUME IInv, NEW t \in Threads,
           \/ \E name \in Names : \/ Ask(t, "translate", name) \/ Ask(t, "warm", name)
                                 \/ AskReload(t, "reload_warm", name)
           \/ AskReload(t, "reload", Unnamed) \/ Readyz(t) \/ Enter(t) \/ Test(t)
    PROVE  IInv'
<1>0. TypeOK /\ PairKnown /\ call[t] \in Calls /\ NoCall \in Calls /\ ~NoCall.built
  BY TypeSets, NoCallType DEF IInv
<1>s. call = [call EXCEPT ![t] = call[t]]
  BY <1>0, TypeSets
<1>1. ASSUME NEW kind \in Kinds, NEW name \in Names, Ask(t, kind, name) PROVE IInv'
  <2> DEFINE c == [NoCall EXCEPT !.kind = kind, !.pair = Fold(kind, name)]
  <2>1. c \in Calls /\ c.built = NoCall.built
    <3>1. Fold(kind, name) \in Pairs \cup {Unknown, Unnamed} /\ "none" \in Stages
      BY FoldType DEF Stages
    <3> QED
      BY <1>0, <3>1 DEF Calls
  <2>2. Moves(t, "enter", c)
    BY <1>1 DEF Ask, Goto, Moves
  <2>3. pc[t] = "idle" /\ UNCHANGED <<backend, resident, lock, listing, historyVars>>
    BY <1>1 DEF Ask
  <2> HIDE DEF c
  <2> QED
    BY <1>0, <2>1, <2>2, <2>3, OutsideStep DEF Inside, OnPair, Places, historyVars, TypeOK
<1>2. ASSUME NEW kind \in Kinds, NEW name \in Names, AskReload(t, kind, name) PROVE IInv'
  <2> DEFINE c == [NoCall EXCEPT !.kind = kind, !.pair = Fold(kind, name), !.stage = "discard"]
  <2>1. c \in Calls /\ c.built = NoCall.built
    <3>1. Fold(kind, name) \in Pairs \cup {Unknown, Unnamed} /\ "discard" \in Stages
      BY FoldType DEF Stages
    <3> QED
      BY <1>0, <3>1 DEF Calls
  <2>2. Moves(t, "look", c)
    BY <1>2 DEF AskReload, Goto, Moves
  <2>3. pc[t] = "idle" /\ UNCHANGED <<backend, resident, lock, listing, historyVars>>
    BY <1>2 DEF AskReload
  <2> HIDE DEF c
  <2> QED
    BY <1>0, <2>1, <2>2, <2>3, OutsideStep DEF Inside, OnPair, Places, historyVars, TypeOK
<1>3. CASE Readyz(t)
  <2> DEFINE c == [NoCall EXCEPT !.kind = "readyz", !.stage = "report"]
  <2>1. c \in Calls /\ c.built = NoCall.built
    <3>1. "readyz" \in Kinds /\ "report" \in Stages /\ Unnamed \in Pairs \cup {Unknown, Unnamed}
      BY DEF Kinds, Stages
    <3> QED
      BY <1>0, <3>1 DEF Calls
  <2>2. Moves(t, "look", c)
    BY <1>3 DEF Readyz, Goto, Moves
  <2>3. pc[t] = "idle" /\ UNCHANGED <<backend, resident, lock, listing, historyVars>>
    BY <1>3 DEF Readyz
  <2> HIDE DEF c
  <2> QED
    BY <1>0, <2>1, <2>2, <2>3, OutsideStep DEF Inside, OnPair, Places, historyVars, TypeOK
<1>4. CASE Enter(t)
  <2>0. pc[t] = "enter" /\ UNCHANGED <<backend, resident, lock, listing, historyVars>>
    BY <1>4 DEF Enter
  <2>1. ASSUME NEW step \in {"idle", "look", "test"}, NEW c \in Calls, Moves(t, step, c),
               step = "test" => c.pair \in Pairs, c.built => call[t].built
        PROVE  IInv'
    BY <1>0, <2>0, <2>1, OutsideStep DEF Inside, OnPair, Places, historyVars, TypeOK
  <2>2. CASE call[t].pair = Unknown
    <3>1. Moves(t, "idle", NoCall)
      BY <1>4, <2>2, StoreAssumption DEF Enter, Return, Goto, Moves
    <3> QED
      BY <3>1, <2>1, <1>0
  <2>3. CASE call[t].pair # Unknown /\ call[t].pair = Unnamed
    <3>1. Moves(t, "look", [call[t] EXCEPT !.stage = "report"])
      BY <1>4, <2>3, StoreAssumption DEF Enter, Look, Goto, Moves
    <3>2. /\ [call[t] EXCEPT !.stage = "report"] \in Calls
          /\ [call[t] EXCEPT !.stage = "report"].built = call[t].built
      BY <1>0, StageField DEF Stages
    <3> QED
      BY <3>1, <3>2, <2>1
  <2>4. CASE call[t].pair # Unknown /\ call[t].pair # Unnamed
    <3>1. Moves(t, "test", call[t])
      BY <1>4, <2>4, <1>s DEF Enter, Goto, Moves
    <3>2. call[t].pair \in Pairs
      BY <1>0, <2>4 DEF Calls
    <3> QED
      BY <3>1, <3>2, <2>1, <1>0
  <2> QED
    BY <2>2, <2>3, <2>4
<1>5. CASE Test(t)
  <2>1. PICK step \in {"fetch", "lock"} : Moves(t, step, call[t])
    BY <1>5, <1>s DEF Test, Goto, Moves
  <2>2. pc[t] = "test" /\ UNCHANGED <<backend, resident, lock, listing, historyVars>>
    BY <1>5 DEF Test
  <2>3. call[t].pair \in Pairs
    BY <1>0, <2>2 DEF PairKnown, OnPair
  <2> QED
    BY <1>0, <2>1, <2>2, <2>3, OutsideStep DEF Inside, OnPair, Places, historyVars, TypeOK
<1>6. Unnamed \in Names
  BY DEF Names
<1> QED
  BY <1>1, <1>2, <1>3, <1>4, <1>5, <1>6 DEF Kinds

LEMMA LookSteps ==
    ASSUME IInv, NEW t \in Threads, Use(t) \/ List(t) \/ EndListing(t)
    PROVE  IInv'
<1>0. /\ TypeOK /\ PairKnown /\ call[t] \in Calls /\ NoCall \in Calls /\ ~NoCall.built
      /\ call[t].built \in BOOLEAN /\ call[t].listed \in BOOLEAN
  BY TypeSets, NoCallType DEF IInv, Calls
<1>s. call = [call EXCEPT ![t] = call[t]]
  BY <1>0, TypeSets
<1>t. \A s \in Stages : /\ [call[t] EXCEPT !.stage = s] \in Calls
                        /\ [call[t] EXCEPT !.stage = s].built = call[t].built
  BY <1>0, StageField
<1>1. CASE Use(t)
  <2>0. /\ pc[t] = "use" /\ UNCHANGED <<backend, resident, lock, listing, loads, drops, starved>>
        /\ listing' \in [Threads -> {"none", "same", "grown", "old"}] /\ starved' \in BOOLEAN
    BY <1>0, <1>1 DEF Use, TypeOK
  <2>1. ASSUME NEW step \in {"idle", "look"}, NEW c \in Calls, Moves(t, step, c),
               c.built => call[t].built, claims' = claims
        PROVE  IInv'
    BY <1>0, <2>0, <2>1, OutsideStep DEF Inside, OnPair, Places, TypeOK
  <2>2. CASE Return(t) /\ UNCHANGED claims
    BY <1>0, <2>1, <2>2 DEF Return, Goto, Moves
  <2>3. ASSUME NEW s \in Stages, Look(t, s), UNCHANGED claims PROVE IInv'
    BY <1>t, <2>1, <2>3 DEF Look, Goto, Moves
  <2>4. CASE Answer(t, call[t].built)
    BY <1>0, <2>0, <2>4, AnswerStep
  <2> QED
    BY <1>1, <2>2, <2>3, <2>4 DEF Use, Stages
<1>2. CASE List(t)
  <2>0. /\ pc[t] = "look" /\ UNCHANGED <<backend, resident, lock, historyVars>>
        /\ listing' \in [Threads -> {"none", "same", "grown", "old"}]
    BY <1>0, <1>2 DEF List, TypeOK
  <2>1. PICK b \in BOOLEAN : call' = [call EXCEPT ![t].listed = b]
    BY <1>2 DEF List
  <2>2. Moves(t, "listing", [call[t] EXCEPT !.listed = b])
    BY <1>2, <2>1 DEF List, Goto, Moves
  <2>3. [call[t] EXCEPT !.listed = b] \in Calls /\ [call[t] EXCEPT !.listed = b].built = call[t].built
    BY <1>0, ListedField
  <2> QED
    BY <1>0, <2>0, <2>2, <2>3, OutsideStep DEF Inside, OnPair, Places, historyVars, TypeOK
<1>3. CASE EndListing(t)
  <2>0. /\ pc[t] = "listing" /\ UNCHANGED <<backend, resident, lock, loads, drops, starved>>
        /\ listing' \in [Threads -> {"none", "same", "grown", "old"}] /\ starved' \in BOOLEAN
    BY <1>0, <1>3 DEF EndListing, TypeOK
  <2>1. ASSUME NEW step \in {"idle", "look", "drop", "enter"}, NEW c \in Calls, Moves(t, step, c),
               c.built => call[t].built, claims' = claims
        PROVE  IInv'
    BY <1>0, <2>0, <2>1, OutsideStep DEF Inside, OnPair, Places, TypeOK
  <2>2. CASE Return(t) /\ UNCHANGED claims
    BY <1>0, <2>1, <2>2 DEF Return, Goto, Moves
  <2>3. CASE Look(t, "reword") /\ UNCHANGED claims
    BY <1>t, <2>1, <2>3 DEF Look, Goto, Moves, Stages
  <2>4. ASSUME NEW reports \in BOOLEAN, Answer(t, reports), reports => call[t].built PROVE IInv'
    BY <2>0, <2>4, AnswerStep
  <2>5. ASSUME NEW step \in {"drop", "enter"}, Goto(t, step), UNCHANGED <<call, claims>> PROVE IInv'
    <3>1. Moves(t, step, call[t])
      BY <1>s, <2>5 DEF Goto, Moves
    <3> QED
      BY <1>0, <2>1, <2>5, <3>1
  <2>6. CASE AfterDrop(t)
    BY <2>4, <2>5, <2>6 DEF AfterDrop
  <2>7. /\ (call[t].built /\ call[t].listed) \in BOOLEAN
        /\ (call[t].built /\ call[t].listed) => call[t].built
    BY <1>0
  <2> QED
    BY <1>0, <1>3, <2>2, <2>3, <2>4, <2>5, <2>6, <2>7 DEF EndListing, AfterLook
<1> QED
  BY <1>1, <1>2, <1>3

-----------------------------------------------------------------------------
\* The engines in memory are finitely many, and so are the callers that loaded one.
LEMMA Finite ==
    ASSUME IInv
    PROVE  /\ IsFiniteSet(resident) /\ Cardinality(resident) \in Nat
           /\ IsFiniteSet(Builders) /\ Cardinality(Builders) \in Nat
           /\ loads \in Nat /\ drops \in Nat /\ claims \in Nat
           /\ claims + Cardinality(Builders) <= loads
           /\ loads = drops + Cardinality(resident)
<1>1. resident \subseteq Pairs /\ Builders \subseteq Threads
  BY DEF IInv, TypeOK, Builders
<1>2. /\ IsFiniteSet(resident) /\ Cardinality(resident) \in Nat
      /\ IsFiniteSet(Builders) /\ Cardinality(Builders) \in Nat
  BY <1>1, StoreAssumption, FS_Subset, FS_CardinalityType
<1> QED
  BY <1>2 DEF IInv, TypeOK, EveryLoad, ClaimsMatchLoads, Builders

\* A step of the thread inside the lock, or into it or out of it, that keeps the counts.
LEMMA LockedStep ==
    ASSUME IInv, NEW t \in Threads, NEW step \in Places, NEW c \in Calls, Moves(t, step, c),
           \/ ~lock /\ lock' = TRUE /\ Inside(step)
           \/ Inside(pc[t]) /\ lock' = lock /\ Inside(step)
           \/ Inside(pc[t]) /\ lock' = FALSE /\ ~Inside(step),
           step \in OnPair => c.pair \in Pairs,
           step = "load" => c.pair \notin resident,
           c.built => call[t].built,
           starved' \in BOOLEAN, UNCHANGED <<backend, resident, listing, loads, drops, claims>>
    PROVE  IInv'
<1>0. TypeOK /\ PairKnown /\ LockHeld /\ EmptyPlace /\ EveryLoad /\ ClaimsMatchLoads
  BY DEF IInv
<1>1. /\ pc' \in [Threads -> Places] /\ call' \in [Threads -> Calls]
      /\ pc'[t] = step /\ call'[t] = c
      /\ \A u \in Threads \ {t} : pc'[u] = pc[u] /\ call'[u] = call[u]
  BY <1>0, MoveType
<1>2. TypeOK'
  <2>1. lock' \in BOOLEAN
    BY <1>0 DEF TypeOK
  <2> QED
    BY <1>0, <1>1, <2>1 DEF TypeOK, Places, Calls, Kinds, Stages
<1>3. PairKnown'
  BY <1>0, <1>1 DEF PairKnown
<1>4. LockHeld'
  <2>1. CASE ~lock /\ lock' = TRUE /\ Inside(step)
    BY <1>0, <1>1, <2>1 DEF LockHeld
  <2>2. CASE Inside(pc[t]) /\ lock' = lock /\ Inside(step)
    BY <1>0, <1>1, <2>2 DEF LockHeld
  <2>3. CASE Inside(pc[t]) /\ lock' = FALSE /\ ~Inside(step)
    BY <1>0, <1>1, <2>3 DEF LockHeld
  <2> QED
    BY <2>1, <2>2, <2>3
<1>5. EmptyPlace' /\ EveryLoad'
  BY <1>0, <1>1 DEF EmptyPlace, EveryLoad
<1>6. ClaimsMatchLoads'
  <2>1. Builders' \subseteq Builders
    BY <1>1 DEF Builders
  <2>2. Cardinality(Builders') <= Cardinality(Builders) /\ Cardinality(Builders') \in Nat
    BY <2>1, Finite, FS_Subset, FS_CardinalityType
  <2> QED
    BY <2>2, Finite DEF ClaimsMatchLoads, Builders
<1> QED
  BY <1>2, <1>3, <1>4, <1>5, <1>6 DEF IInv

LEMMA LockSteps ==
    ASSUME IInv, NEW t \in Threads, Lock(t) \/ Recheck(t) \/ LoadFails(t) \/ Fetch(t)
    PROVE  IInv'
<1>0. TypeOK /\ PairKnown /\ LockHeld /\ call[t] \in Calls /\ NoCall \in Calls /\ ~NoCall.built
  BY TypeSets, NoCallType DEF IInv
<1>s. call = [call EXCEPT ![t] = call[t]]
  BY <1>0, TypeSets
<1>1. CASE Lock(t)
  <2>1. Moves(t, "recheck", call[t]) /\ pc[t] = "lock" /\ ~lock /\ lock' = TRUE
    BY <1>1, <1>s DEF Lock, Goto, Moves
  <2>2. UNCHANGED <<backend, resident, call, listing, historyVars>> /\ call[t].pair \in Pairs
    BY <1>0, <1>1 DEF Lock, PairKnown, OnPair
  <2> QED
    BY <1>0, <2>1, <2>2, LockedStep DEF Inside, Places, historyVars, TypeOK
<1>2. CASE Recheck(t)
  <2>1. PICK step \in {"locked_fetch", "load"} :
          Moves(t, step, call[t]) /\ (step = "load" => call[t].pair \notin resident)
    BY <1>2, <1>s DEF Recheck, Goto, Moves
  <2>2. pc[t] = "recheck" /\ UNCHANGED <<backend, resident, lock, call, listing, historyVars>>
    BY <1>2 DEF Recheck
  <2>3. call[t].pair \in Pairs
    BY <1>0, <2>2 DEF PairKnown, OnPair
  <2>4. step \in Places /\ Inside(step) /\ Inside(pc[t]) /\ lock' = lock
    BY <2>2 DEF Inside, Places
  <2>5. starved' \in BOOLEAN /\ UNCHANGED <<backend, resident, listing, loads, drops, claims>>
    BY <1>0, <2>2 DEF historyVars, TypeOK
  <2> QED
    BY <1>0, <2>1, <2>3, <2>4, <2>5, LockedStep
<1>3. CASE LoadFails(t)
  <2>1. Moves(t, "idle", NoCall) /\ pc[t] = "load" /\ lock' = FALSE
    BY <1>3 DEF LoadFails, Return, Goto, Moves
  <2>2. UNCHANGED <<backend, resident, listing, historyVars>>
    BY <1>3 DEF LoadFails
  <2> QED
    BY <1>0, <2>1, <2>2, LockedStep DEF Inside, Places, OnPair, historyVars, TypeOK
<1>4. CASE Fetch(t)
  <2>1. \/ Moves(t, "use", call[t])
        \/ Moves(t, "idle", NoCall)
    BY <1>4, <1>s DEF Fetch, Return, Goto, Moves
  <2>2. /\ pc[t] \in {"fetch", "locked_fetch"}
        /\ UNCHANGED <<backend, resident, listing, loads, drops, claims>>
        /\ lock' = (IF pc[t] = "locked_fetch" THEN FALSE ELSE lock)
    BY <1>4 DEF Fetch
  <2>3. starved' \in BOOLEAN
    BY <1>0, <1>4 DEF Fetch, TypeOK
  <2>4. PICK step \in {"use", "idle"}, c \in Calls : Moves(t, step, c) /\ (c.built => call[t].built)
    BY <1>0, <2>1
  <2>5. CASE pc[t] = "locked_fetch"
    BY <2>2, <2>3, <2>4, <2>5, LockedStep DEF Inside, Places, OnPair
  <2>6. CASE pc[t] = "fetch"
    BY <1>0, <2>2, <2>3, <2>4, <2>6, OutsideStep DEF Inside, Places, OnPair, TypeOK
  <2> QED
    BY <2>2, <2>5, <2>6
<1> QED
  BY <1>1, <1>2, <1>3, <1>4

\* A load adds an engine that was not there, and one caller that may claim it.
LEMMA LoadStep ==
    ASSUME IInv, NEW t \in Threads, Load(t)
    PROVE  IInv'
<1>0. TypeOK /\ PairKnown /\ LockHeld /\ EmptyPlace /\ EveryLoad /\ call[t] \in Calls
  BY TypeSets DEF IInv
<1> DEFINE c == [call[t] EXCEPT !.built = TRUE]
<1>1. c \in Calls /\ c.pair = call[t].pair /\ c.built = TRUE
  BY <1>0, BuiltField
<1>2. Moves(t, "locked_fetch", c) /\ pc[t] = "load"
  BY <1>0, <1>1 DEF Load, Goto, Moves
<1>3. UNCHANGED <<backend, lock, drops, claims, starved>>
  BY DEF Load
<1>4. resident' = resident \cup {call[t].pair} /\ loads' = loads + 1
  BY DEF Load
<1>5. call[t].pair \in Pairs /\ call[t].pair \notin resident
  BY <1>0, <1>2 DEF PairKnown, OnPair, EmptyPlace
<1>6. listing' \in [Threads -> {"none", "same", "grown", "old"}]
  BY <1>0 DEF Load, Grown, TypeOK
<1> HIDE DEF c
<1>7. /\ pc' \in [Threads -> Places] /\ call' \in [Threads -> Calls]
      /\ pc'[t] = "locked_fetch" /\ call'[t] = c
      /\ \A u \in Threads \ {t} : pc'[u] = pc[u] /\ call'[u] = call[u]
  BY <1>0, <1>1, <1>2, MoveType DEF Places
<1>8. TypeOK'
  BY <1>0, <1>3, <1>4, <1>5, <1>6, <1>7 DEF TypeOK, Places, Calls, Kinds, Stages
<1>9. PairKnown' /\ LockHeld'
  <2>1. PairKnown'
    BY <1>0, <1>1, <1>5, <1>7 DEF PairKnown
  <2>2. LockHeld'
    BY <1>0, <1>2, <1>3, <1>7 DEF LockHeld, Inside
  <2> QED
    BY <2>1, <2>2
<1>10. EmptyPlace'
  BY <1>0, <1>2, <1>7 DEF EmptyPlace, LockHeld, Inside
<1>11. EveryLoad'
  <2>1. Cardinality(resident') = Cardinality(resident) + 1
    BY <1>4, <1>5, Finite, FS_AddElement
  <2> QED
    BY <1>3, <1>4, <2>1, Finite DEF EveryLoad
<1>12. ClaimsMatchLoads'
  <2>1. Builders' = Builders \cup {t}
    BY <1>1, <1>7 DEF Builders
  <2>2. Cardinality(Builders') <= Cardinality(Builders) + 1 /\ Cardinality(Builders') \in Nat
    <3>1. CASE t \in Builders
      <4>1. Builders' = Builders
        BY <2>1, <3>1
      <4> QED
        BY <4>1, Finite
    <3>2. CASE t \notin Builders
      <4>1. Cardinality(Builders \cup {t}) = Cardinality(Builders) + 1
        BY <3>2, Finite, FS_AddElement
      <4> QED
        BY <2>1, <4>1, Finite
    <3> QED
      BY <3>1, <3>2
  <2> QED
    BY <1>3, <1>4, <2>2, Finite DEF ClaimsMatchLoads, Builders
<1> QED
  BY <1>8, <1>9, <1>10, <1>11, <1>12 DEF IInv

\* A drop turns the engines in memory into engines dropped.
LEMMA DropStep ==
    ASSUME IInv, NEW t \in Threads, Drop(t)
    PROVE  IInv'
<1>0. TypeOK /\ PairKnown /\ LockHeld /\ call[t] \in Calls
  BY TypeSets DEF IInv
<1> DEFINE c == [call[t] EXCEPT !.stage = "word"]
<1>1. c \in Calls /\ c.built = call[t].built
  BY <1>0, StageField DEF Stages
<1>2. Moves(t, "look", c) /\ pc[t] = "drop"
  BY DEF Drop, Look, Goto, Moves
<1>3. UNCHANGED <<backend, lock, loads, claims, starved>>
  BY DEF Drop
<1>4. resident' = {} /\ drops' = drops + Cardinality(resident)
  BY DEF Drop
<1>5. listing' \in [Threads -> {"none", "same", "grown", "old"}]
  BY <1>0 DEF Drop, TypeOK
<1> HIDE DEF c
<1>6. /\ pc' \in [Threads -> Places] /\ call' \in [Threads -> Calls]
      /\ pc'[t] = "look" /\ call'[t] = c
      /\ \A u \in Threads \ {t} : pc'[u] = pc[u] /\ call'[u] = call[u]
  BY <1>0, <1>1, <1>2, MoveType DEF Places
<1>7. TypeOK'
  <2>1. drops' \in Nat
    BY <1>4, Finite
  <2> QED
    BY <1>0, <1>3, <1>4, <1>5, <1>6, <2>1 DEF TypeOK, Places, Calls, Kinds, Stages
<1>8. PairKnown'
  BY <1>0, <1>6 DEF PairKnown, OnPair
<1>9. LockHeld'
  BY <1>0, <1>2, <1>3, <1>6 DEF LockHeld, Inside
<1>10. EmptyPlace'
  BY <1>4 DEF EmptyPlace
<1>11. EveryLoad'
  BY <1>3, <1>4, Finite, FS_EmptySet DEF EveryLoad
<1>12. ClaimsMatchLoads'
  <2>1. Builders' = Builders
    BY <1>1, <1>6 DEF Builders
  <2> QED
    BY <1>3, <2>1, Finite DEF ClaimsMatchLoads, Builders
<1> QED
  BY <1>7, <1>8, <1>9, <1>10, <1>11, <1>12 DEF IInv

-----------------------------------------------------------------------------
LEMMA Initially == Init => IInv
<1> SUFFICES ASSUME Init PROVE IInv
  OBVIOUS
<1>1. \A t \in Threads : pc[t] = "idle" /\ call[t] = NoCall
  BY DEF Init
<1>2. TypeOK
  <2>1. call \in [Threads -> Calls]
    BY NoCallType DEF Init
  <2> QED
    BY <2>1, StoreAssumption DEF Init, InitBackend, TypeOK, Calls, Kinds, Stages
<1>3. PairKnown /\ LockHeld /\ EmptyPlace
  BY <1>1 DEF Init, PairKnown, OnPair, LockHeld, Inside, EmptyPlace
<1>4. EveryLoad
  BY FS_EmptySet DEF Init, InitBackend, EveryLoad
<1>5. ClaimsMatchLoads
  <2>1. {t \in Threads : call[t].built} = {}
    BY <1>1, NoCallType
  <2> QED
    BY <2>1, FS_EmptySet DEF Init, ClaimsMatchLoads
<1> QED
  BY <1>2, <1>3, <1>4, <1>5 DEF IInv

LEMMA Inductive == IInv /\ [Next]_vars => IInv'
<1> SUFFICES ASSUME IInv, [Next]_vars PROVE IInv'
  OBVIOUS
<1>1. ASSUME NEW t \in Threads, Proceed(t) PROVE IInv'
  BY <1>1, RequestSteps, LookSteps, LockSteps, LoadStep, DropStep DEF Proceed
<1>2. CASE UNCHANGED vars
  BY <1>2 DEF IInv, TypeOK, PairKnown, LockHeld, EmptyPlace, EveryLoad, ClaimsMatchLoads, vars,
              historyVars
<1> QED
  BY <1>1, <1>2, RequestSteps DEF Next

LEMMA Invariance == Spec => []IInv
BY Initially, Inductive, PTL DEF Spec

(***************************************************************************)
(* The models in memory keep their types, whichever backend serves.        *)
(***************************************************************************)
THEOREM TypeCorrect == Spec => []TypeOK
<1>1. IInv => TypeOK
  BY DEF IInv
<1> QED
  BY <1>1, Invariance, PTL

(***************************************************************************)
(* _load and _ensure_engine load one engine at a time and never over one   *)
(* that is there, with any number of requests, warm-ups and reloads.       *)
(***************************************************************************)
THEOREM OneLoadPerPlace == Spec => []LoadsFillHoles
<1>1. IInv => LoadsFillHoles
  <2> SUFFICES ASSUME IInv PROVE LoadsFillHoles
    OBVIOUS
  <2>1. LockHeld /\ EmptyPlace /\ EveryLoad /\ lock \in BOOLEAN
    BY DEF IInv, TypeOK
  <2>2. InLock = {t \in Threads : Inside(pc[t])}
    BY DEF InLock, Inside
  <2>3. CASE lock
    <3>1. PICK t \in Threads : InLock = {t}
      BY <2>1, <2>2, <2>3 DEF LockHeld
    <3>2. Cardinality(InLock) = 1
      BY <3>1, FS_Singleton
    <3> QED
      BY <2>1, <2>3, <3>2 DEF LoadsFillHoles, EmptyPlace, EveryLoad
  <2>4. CASE ~lock
    <3>1. InLock = {}
      BY <2>1, <2>2, <2>4 DEF LockHeld
    <3>2. Cardinality(InLock) = 0
      BY <3>1, FS_EmptySet
    <3> QED
      BY <2>1, <2>4, <3>2 DEF LoadsFillHoles, EmptyPlace, EveryLoad
  <2> QED
    BY <2>3, <2>4
<1> QED
  BY <1>1, Invariance, PTL

(***************************************************************************)
(* The flag decided inside the lock: no more answers report a load than    *)
(* there were loads.                                                       *)
(***************************************************************************)
THEOREM LoadsClaimedOnce == Spec => []ClaimsMatchLoads
<1>1. IInv => ClaimsMatchLoads
  BY DEF IInv
<1> QED
  BY <1>1, Invariance, PTL

-----------------------------------------------------------------------------
(* The engine that was seen.  Between the test and the read that fetches   *)
(* the engine a thread holds no lock, so that what it has seen is there    *)
(* only if nobody has dropped an engine, or nobody else is there to.       *)
Undisturbed == drops = 0 \/ \E t \in Threads : Threads = {t}
Sighted ==
    /\ ~starved
    /\ \A t \in Threads : pc[t] \in {"fetch", "locked_fetch"} => call[t].pair \in resident

LEMMA UndisturbedBefore == IInv /\ [Next]_vars /\ Undisturbed' => Undisturbed
<1> SUFFICES ASSUME IInv, [Next]_vars, drops' = 0 PROVE drops = 0
  BY DEF Undisturbed
<1>1. drops \in Nat /\ Cardinality(resident) \in Nat
  BY Finite DEF IInv, TypeOK
<1>2. CASE drops' = drops + Cardinality(resident)
  BY <1>1, <1>2
<1>3. CASE drops' = drops
  BY <1>3
<1> QED
  BY <1>2, <1>3 DEF Next, Ask, AskReload, Readyz, Proceed, Enter, Test, Lock, Recheck, Load,
     LoadFails, Fetch, Use, List, EndListing, Drop, vars, historyVars

LEMMA SightedNext == IInv /\ Sighted /\ Undisturbed' /\ [Next]_vars => Sighted'
<1> SUFFICES ASSUME IInv, Sighted, Undisturbed', [Next]_vars PROVE Sighted'
  OBVIOUS
<1>0. TypeOK /\ pc \in [Threads -> Places] /\ call \in [Threads -> Calls]
  BY TypeSets DEF IInv
<1> USE DEF Sighted
<1>1. ASSUME NEW t \in Threads, NEW step \in {"fetch", "locked_fetch"}, NEW c \in Calls,
             Moves(t, step, c), c.pair \in resident', resident \subseteq resident', UNCHANGED starved
      PROVE  Sighted'
  <2>1. /\ pc'[t] = step /\ call'[t] = c
        /\ \A u \in Threads \ {t} : pc'[u] = pc[u] /\ call'[u] = call[u]
    BY <1>0, <1>1, MoveType DEF Places
  <2> QED
    BY <1>1, <2>1
<1>2. ASSUME NEW t \in Threads, Test(t) PROVE Sighted'
  <2>1. UNCHANGED <<resident, starved, call>> /\ call[t] \in Calls
        /\ pc' = [pc EXCEPT ![t] = IF call[t].pair \in resident THEN "fetch" ELSE "lock"]
    BY <1>0, <1>2 DEF Test, Goto, historyVars
  <2> QED
    BY <1>0, <2>1
<1>3. ASSUME NEW t \in Threads, Recheck(t) PROVE Sighted'
  <2>1. UNCHANGED <<resident, starved, call>> /\ call[t] \in Calls
        /\ pc' = [pc EXCEPT ![t] = IF call[t].pair \in resident THEN "locked_fetch" ELSE "load"]
    BY <1>0, <1>3 DEF Recheck, Goto, historyVars
  <2> QED
    BY <1>0, <2>1
<1>4. ASSUME NEW t \in Threads, Load(t) PROVE Sighted'
  <2> DEFINE c == [call[t] EXCEPT !.built = TRUE]
  <2>1. c \in Calls /\ c.pair = call[t].pair
    BY <1>0, BuiltField
  <2>2. /\ Moves(t, "locked_fetch", c) /\ UNCHANGED starved
        /\ resident' = resident \cup {call[t].pair}
    BY <1>4 DEF Load, Goto, Moves
  <2> HIDE DEF c
  <2> QED
    BY <1>1, <2>1, <2>2
<1>5. ASSUME NEW t \in Threads, Fetch(t) PROVE Sighted'
  <2>1. pc[t] \in {"fetch", "locked_fetch"} /\ call[t].pair \in resident
    BY <1>5 DEF Fetch
  <2>2. ~starved' /\ UNCHANGED resident /\ pc' = [pc EXCEPT ![t] = "use"] /\ UNCHANGED call
    BY <1>5, <2>1 DEF Fetch, Goto
  <2> QED
    BY <1>0, <2>2
<1>6. ASSUME NEW t \in Threads, Drop(t) PROVE Sighted'
  <2>1. resident' = {} /\ drops' = drops + Cardinality(resident) /\ UNCHANGED starved
        /\ pc[t] = "drop"
    BY <1>6 DEF Drop
  <2>2. \A u \in Threads \ {t} : pc'[u] = pc[u] /\ call'[u] = call[u]
    BY <1>0, <1>6 DEF Drop, Look, Goto
  <2>3. pc'[t] = "look"
    BY <1>0, <1>6 DEF Drop, Look, Goto
  <2>4. CASE drops' = 0
    <3>1. Cardinality(resident) = 0 /\ IsFiniteSet(resident)
      BY <2>1, <2>4, Finite DEF IInv, TypeOK
    <3>2. resident = {}
      BY <3>1, FS_EmptySet
    <3> QED
      BY <2>1, <2>2, <2>3, <3>2
  <2>5. CASE \E u \in Threads : Threads = {u}
    BY <2>1, <2>3, <2>5
  <2> QED
    BY <2>4, <2>5 DEF Undisturbed
<1>7. ASSUME NEW t \in Threads, Lock(t) \/ LoadFails(t) \/ Enter(t) \/ Use(t) \/ List(t)
                                \/ EndListing(t)
      PROVE  Sighted'
  <2>1. UNCHANGED <<resident, starved>>
    BY <1>7 DEF Lock, LoadFails, Enter, Use, List, EndListing, historyVars
  <2>2. /\ pc'[t] \notin {"fetch", "locked_fetch"}
        /\ \A u \in Threads \ {t} : pc'[u] = pc[u] /\ call'[u] = call[u]
    BY <1>0, <1>7 DEF Lock, LoadFails, Enter, Use, List, EndListing, AfterLook, AfterDrop, Answer,
       Look, Return, Goto
  <2> QED
    BY <2>1, <2>2
<1>8. ASSUME NEW t \in Threads,
             \/ \E name \in Names : \/ Ask(t, "translate", name) \/ Ask(t, "warm", name)
                                    \/ AskReload(t, "reload_warm", name)
             \/ AskReload(t, "reload", Unnamed) \/ Readyz(t)
      PROVE  Sighted'
  <2>1. UNCHANGED <<resident, starved>>
    BY <1>8 DEF Ask, AskReload, Readyz, historyVars
  <2>2. /\ pc'[t] \notin {"fetch", "locked_fetch"}
        /\ \A u \in Threads \ {t} : pc'[u] = pc[u] /\ call'[u] = call[u]
    BY <1>0, <1>8 DEF Ask, AskReload, Readyz, Goto
  <2> QED
    BY <2>1, <2>2
<1>9. CASE UNCHANGED vars
  BY <1>9 DEF vars, historyVars
<1> QED
  BY <1>2, <1>3, <1>4, <1>5, <1>6, <1>7, <1>8, <1>9 DEF Next, Proceed

LEMMA SightedAlways == Spec => [](Undisturbed => Sighted)
<1>1. Init => Sighted
  BY DEF Init, Sighted
<1>2. IInv /\ (Undisturbed => Sighted) /\ [Next]_vars => (Undisturbed => Sighted)'
  BY UndisturbedBefore, SightedNext
<1> QED
  BY <1>1, <1>2, Invariance, PTL DEF Spec

(***************************************************************************)
(* A request finds no engine where it has seen one only after a reload has *)
(* dropped engines: loads, failed loads, warm-ups and readiness alone      *)
(* never starve it, in either backend and with any number of callers.      *)
(***************************************************************************)
THEOREM OnlyDropsStarve == Spec => [](starved => drops # 0)
<1>1. (Undisturbed => Sighted) => (starved => drops # 0)
  BY DEF Undisturbed, Sighted
<1> QED
  BY <1>1, SightedAlways, PTL

(***************************************************************************)
(* With one caller MadladBackend.reload keeps its word: a reload costs the *)
(* next request a load and nothing else.  It takes a second caller between *)
(* the test and the read to break it.                                      *)
(***************************************************************************)
THEOREM OneCallerPaysTheLoad ==
    ASSUME \E t \in Threads : Threads = {t}
    PROVE  Spec => []ReloadOnlyCostsALoad
<1>1. (Undisturbed => Sighted) => ReloadOnlyCostsALoad
  BY DEF Undisturbed, Sighted, ReloadOnlyCostsALoad
<1> QED
  BY <1>1, SightedAlways, PTL
=============================================================================

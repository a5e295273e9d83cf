------------------------ MODULE SidecarServiceProofs ------------------------
(***************************************************************************)
(* Proofs about SidecarService, for any number of requests and any flags.  *)
(***************************************************************************)
EXTENDS SidecarService, FiniteSetTheorems, TLAPS

Early == {"away", "accepted", "malformed", "waiting", "granted", "refused", "admitted", "busy", "decoding"}
Answered == {"text", "unsupported", "missing"}

(***************************************************************************)
(* Where a handler stands says what it has done: nothing is charged or     *)
(* written before the engine has come back, what is being charged was      *)
(* answered by the engine, a translation is charged after its slot went    *)
(* back and an error before, and a crash is never charged.                 *)
(***************************************************************************)
EarlyShape(r) ==
    pc[r] \in Early => outcome[r] = "none" /\ permit[r] = 0 /\ reply[r] = "none" /\ ~spent[r]

ChargeShape(r) ==
    /\ pc[r] = "charge" =>
          outcome[r] \in Answered /\ permit[r] = 0 /\ reply[r] = "none" /\ ~spent[r]
    /\ pc[r] \in {"charged", "retire", "answer"} =>
          outcome[r] \in Answered /\ permit[r] # 0 /\ reply[r] = "none"

ReleaseShape(r) ==
    /\ pc[r] \in {"finish", "release"} /\ outcome[r] \in {"text", "crash"} =>
             permit[r] = 0 /\ reply[r] = "none" /\ ~spent[r]
    /\ pc[r] \in {"waiting", "granted", "refused", "admitted", "busy", "release"} => slots > 0

Shape == \A r \in Requests : EarlyShape(r) /\ ChargeShape(r) /\ ReleaseShape(r)

-----------------------------------------------------------------------------
\* Init establishes the types: a limit is a natural number whatever the flag says.
LEMMA InitType == Init => TypeOK
<1> SUFFICES ASSUME Init PROVE TypeOK
  OBVIOUS
<1>1. PICK s \in SlotFlags, w \in WaitFlags, b \in BudgetFlags :
         Gate(s, w, b)
  BY DEF Init
<1>2. waits \in BOOLEAN
  BY <1>1, ServiceAssumption DEF Gate
<1>3. slots \in Nat /\ budget \in Nat
  BY <1>1, ServiceAssumption DEF Limit, Gate
<1>4. free \in Nat
  BY <1>1, <1>3 DEF Gate
<1> QED
  BY <1>2, <1>3, <1>4 DEF Init, InitSignals, TypeOK

\* One disjunct of Next at a time.
LEMMA StepType == TypeOK /\ Shape /\ [Next]_vars => TypeOK'
<1> SUFFICES ASSUME TypeOK, Shape, [Next]_vars PROVE TypeOK'
  OBVIOUS
<1> USE DEF TypeOK
<1>1. ASSUME NEW r \in Requests, Accept(r) PROVE TypeOK'
  BY <1>1 DEF Accept, Readings, Goto, flags
<1>2. ASSUME NEW r \in Requests, EnterUngated(r) PROVE TypeOK'
  BY <1>2 DEF EnterUngated, Goto, flags
<1>3. ASSUME NEW r \in Requests, EnterQueue(r) PROVE TypeOK'
  BY <1>3 DEF EnterQueue, Goto, flags
<1>4. ASSUME NEW r \in Requests, Grant(r) PROVE TypeOK'
  BY <1>4 DEF Grant, Goto, flags
<1>5. ASSUME NEW r \in Requests, Refuse(r) PROVE TypeOK'
  BY <1>5 DEF Refuse, Goto, flags
<1>6. ASSUME NEW r \in Requests, LeaveQueue(r) PROVE TypeOK'
  BY <1>6 DEF LeaveQueue, Goto, flags, ClampedPred
<1>7. ASSUME NEW r \in Requests, StartDecode(r) PROVE TypeOK'
  BY <1>7 DEF StartDecode, Goto, flags
<1>8. ASSUME NEW r \in Requests, FinishDecode(r) PROVE TypeOK'
  BY <1>8 DEF FinishDecode, Goto, flags, ClampedPred, AfterRelease
<1>9. ASSUME NEW r \in Requests, ReleaseSlot(r) PROVE TypeOK'
  BY <1>9 DEF ReleaseSlot, Goto, flags, AfterRelease
<1>10. ASSUME NEW r \in Requests, Charge(r) PROVE TypeOK'
  BY <1>10 DEF Charge, Goto, flags
<1>11. ASSUME NEW r \in Requests, LookAtBudget(r) PROVE TypeOK'
  <2>1. OverBudget \in BOOLEAN
    BY DEF OverBudget
  <2> QED
    BY <1>11, <2>1 DEF LookAtBudget, Goto, flags
<1>12. ASSUME NEW r \in Requests, Retire(r) PROVE TypeOK'
  BY <1>12 DEF Retire, Goto, flags
<1>13. ASSUME NEW r \in Requests, Send(r) PROVE TypeOK'
  <2>1. gone' \in [answers : Nat, refusals : Nat]
    BY <1>13 DEF Send, CountGone
  <2>2. reply' \in [Requests -> {"none", "busy", "malformed", "text", "unsupported", "missing"}]
    BY <1>13 DEF Send, Written, Shape, ChargeShape, Answered
  <2> QED
    BY <1>13, <2>1, <2>2 DEF Send, Written, Goto, flags
<1>14. ASSUME NEW r \in Requests, Decode(r) PROVE TypeOK'
  BY <1>14 DEF Decode, Goto, flags
<1>15. CASE CloseLoop
  BY <1>15 DEF CloseLoop, flags
<1>16. CASE ExitProcess
  BY <1>16 DEF ExitProcess, flags
<1>17. CASE UNCHANGED vars
  BY <1>17 DEF vars, flags
<1> QED
  BY <1>1, <1>2, <1>3, <1>4, <1>5, <1>6, <1>7, <1>8, <1>9, <1>10, <1>11, <1>12, <1>13,
     <1>14, <1>15, <1>16, <1>17 DEF Next, Handle

-----------------------------------------------------------------------------
LEMMA InitShape == Init => Shape
BY DEF Init, InitSignals, Shape, EarlyShape, ChargeShape, ReleaseShape, Early

\* A step of one handler leaves the others where they stand.
LEMMA StepShape == TypeOK /\ Shape /\ [Next]_vars => Shape'
<1> SUFFICES ASSUME TypeOK, Shape, [Next]_vars, NEW q \in Requests
             PROVE  (EarlyShape(q) /\ ChargeShape(q) /\ ReleaseShape(q))'
  BY DEF Shape
<1> DEFINE Good == (EarlyShape(q) /\ ChargeShape(q) /\ ReleaseShape(q))'
<1>0. EarlyShape(q) /\ ChargeShape(q) /\ ReleaseShape(q)
  BY DEF Shape
<1> USE <1>0 DEF TypeOK, EarlyShape, ChargeShape, ReleaseShape, Early, Answered
<1>1. ASSUME NEW r \in Requests, Accept(r) PROVE Good
  BY <1>1 DEF Accept, Readings, Goto, flags
<1>2. ASSUME NEW r \in Requests, EnterUngated(r) PROVE Good
  BY <1>2 DEF EnterUngated, Goto, flags
<1>3. ASSUME NEW r \in Requests, EnterQueue(r) PROVE Good
  BY <1>3 DEF EnterQueue, Goto, flags
<1>4. ASSUME NEW r \in Requests, Grant(r) PROVE Good
  BY <1>4 DEF Grant, Goto, flags
<1>5. ASSUME NEW r \in Requests, Refuse(r) PROVE Good
  BY <1>5 DEF Refuse, Goto, flags
<1>6. ASSUME NEW r \in Requests, LeaveQueue(r) PROVE Good
  BY <1>6 DEF LeaveQueue, Goto, flags
<1>7. ASSUME NEW r \in Requests, StartDecode(r) PROVE Good
  BY <1>7 DEF StartDecode, Goto, flags
<1>8. ASSUME NEW r \in Requests, FinishDecode(r) PROVE Good
  BY <1>8 DEF FinishDecode, Goto, flags, AfterRelease
<1>9. ASSUME NEW r \in Requests, ReleaseSlot(r) PROVE Good
  BY <1>9 DEF ReleaseSlot, Goto, flags, AfterRelease
<1>10. ASSUME NEW r \in Requests, Charge(r) PROVE Good
  BY <1>10 DEF Charge, Goto, flags
<1>11. ASSUME NEW r \in Requests, LookAtBudget(r) PROVE Good
  BY <1>11 DEF LookAtBudget, Goto, flags
<1>12. ASSUME NEW r \in Requests, Retire(r) PROVE Good
  BY <1>12 DEF Retire, Goto, flags
<1>13. ASSUME NEW r \in Requests, Send(r) PROVE Good
  BY <1>13 DEF Send, Written, Goto, flags
<1>14. ASSUME NEW r \in Requests, Decode(r) PROVE Good
  BY <1>14 DEF Decode, Goto, flags
<1>15. ASSUME CloseLoop PROVE Good
  BY <1>15 DEF CloseLoop, flags
<1>16. ASSUME ExitProcess PROVE Good
  BY <1>16 DEF ExitProcess, flags
<1>17. ASSUME UNCHANGED vars PROVE Good
  BY <1>17 DEF vars, flags
<1> HIDE <1>0 DEF Good, TypeOK, EarlyShape, ChargeShape, ReleaseShape, Early, Answered
<1>18. Good
  BY <1>1, <1>2, <1>3, <1>4, <1>5, <1>6, <1>7, <1>8, <1>9, <1>10, <1>11, <1>12, <1>13,
     <1>14, <1>15, <1>16, <1>17 DEF Next, Handle
<1> QED
  BY <1>18 DEF Good

-----------------------------------------------------------------------------
\* Sets of requests are finite, and one request more or less counts for one.
LEMMA CountRequests ==
    ASSUME NEW S \in SUBSET Requests, NEW r \in Requests
    PROVE  /\ Cardinality(S) \in Nat
           /\ r \notin S => Cardinality(S \cup {r}) = Cardinality(S) + 1
           /\ r \in S => Cardinality(S \ {r}) = Cardinality(S) - 1 /\ Cardinality(S) > 0
<1>1. IsFiniteSet(S)
  BY ServiceAssumption, FS_Subset
<1>2. Cardinality(S) \in Nat
  BY <1>1, FS_CardinalityType
<1>3. r \in S => Cardinality(S) # 0
  BY <1>1, FS_EmptySet
<1>4. r \notin S => Cardinality(S \cup {r}) = Cardinality(S) + 1
  BY <1>1, FS_AddElement
<1>5. r \in S => Cardinality(S \ {r}) = Cardinality(S) - 1
  BY <1>1, FS_RemoveElement
<1> QED
  BY <1>2, <1>3, <1>4, <1>5

\* Decodes hold slots.
LEMMA DecodingHolds ==
    /\ Decoding \in SUBSET Requests /\ Holding \in SUBSET Requests
    /\ Cardinality(Decoding) \in Nat /\ Cardinality(Holding) \in Nat
    /\ Cardinality(Decoding) <= Cardinality(Holding)
<1>1. Decoding \in SUBSET Holding /\ Holding \in SUBSET Requests
  BY DEF Decoding, Holding
<1>2. IsFiniteSet(Holding) /\ IsFiniteSet(Decoding)
  BY <1>1, ServiceAssumption, FS_Subset
<1> QED
  BY <1>1, <1>2, FS_Subset, FS_CardinalityType

\* The books of the gate, apart from the process's end.
GateBooks ==
    /\ decodes = Cardinality(Decoding)
    /\ slots > 0 => free + Cardinality(Holding) = slots

LEMMA BooksAccount == TypeOK /\ GateBooks => GateAccounted
BY DecodingHolds DEF TypeOK, GateBooks, GateAccounted

LEMMA InitGate == Init => GateBooks
<1> SUFFICES ASSUME Init PROVE GateBooks
  OBVIOUS
<1>1. Decoding = {} /\ Holding = {}
  BY DEF Init, Gate, InitSignals, Decoding, Holding, Failing
<1>2. slots \in Nat
  BY InitType DEF TypeOK
<1> QED
  BY <1>1, <1>2, FS_EmptySet DEF Init, Gate, InitSignals, GateBooks

\* Every step of a handler books what it takes and what it gives back.
LEMMA StepGate ==
    ASSUME TypeOK, Shape, GateBooks, NEW r \in Requests,
           Accept(r) \/ Handle(r) \/ Decode(r)
    PROVE  GateBooks'
<1> DEFINE Still == Decoding' = Decoding /\ Holding' = Holding
<1>0. EarlyShape(r) /\ ChargeShape(r) /\ ReleaseShape(r)
  BY DEF Shape
<1>s. Still /\ UNCHANGED <<slots, free, decodes>> => GateBooks'
  BY DEF GateBooks
<1> USE DEF TypeOK
<1>1. CASE Accept(r)
  <2>1. Still
    BY <1>0, <1>1 DEF Accept, Readings, Goto, Decoding, Holding, Failing
  <2> QED
    BY <1>1, <2>1, <1>s DEF Accept, flags
<1>2. CASE EnterQueue(r)
  <2>1. Still
    BY <1>0, <1>2 DEF EnterQueue, Goto, Decoding, Holding, Failing
  <2> QED
    BY <1>2, <2>1, <1>s DEF EnterQueue, flags
<1>3. CASE Refuse(r)
  <2>1. Still
    BY <1>0, <1>3 DEF Refuse, Goto, Decoding, Holding, Failing
  <2> QED
    BY <1>3, <2>1, <1>s DEF Refuse, flags
<1>4. CASE LeaveQueue(r)
  <2>1. Still
    BY <1>0, <1>4 DEF LeaveQueue, Goto, Decoding, Holding, Failing
  <2> QED
    BY <1>4, <2>1, <1>s DEF LeaveQueue, flags
<1>5. CASE Charge(r)
  <2>1. Still
    BY <1>0, <1>5 DEF Charge, Goto, Decoding, Holding, Failing
  <2> QED
    BY <1>5, <2>1, <1>s DEF Charge, flags
<1>6. CASE LookAtBudget(r)
  <2>1. Still
    BY <1>0, <1>6 DEF LookAtBudget, Goto, Decoding, Holding, Failing
  <2> QED
    BY <1>6, <2>1, <1>s DEF LookAtBudget, flags
<1>7. CASE Retire(r)
  <2>1. Still
    BY <1>0, <1>7 DEF Retire, Goto, Decoding, Holding, Failing
  <2> QED
    BY <1>7, <2>1, <1>s DEF Retire, flags
<1>8. CASE Send(r)
  <2>1. Still
    BY <1>0, <1>8 DEF Send, Written, Goto, Decoding, Holding, Failing, EarlyShape, ChargeShape, Early, Answered
  <2> QED
    BY <1>8, <2>1, <1>s DEF Send, flags
<1>9. CASE Decode(r)
  <2>1. Still
    BY <1>0, <1>9 DEF Decode, Goto, Decoding, Holding, Failing, EarlyShape, Early
  <2> QED
    BY <1>9, <2>1, <1>s DEF Decode, flags
<1>10. CASE EnterUngated(r)
  <2>1. Decoding' = Decoding \cup {r} /\ r \notin Decoding
    BY <1>10 DEF EnterUngated, Goto, Decoding, Failing
  <2>2. Cardinality(Decoding') = Cardinality(Decoding) + 1
    BY <2>1, CountRequests, DecodingHolds
  <2> QED
    BY <1>10, <2>2 DEF EnterUngated, flags, GateBooks
<1>11. CASE Grant(r)
  <2>1. Decoding' = Decoding
    BY <1>11 DEF Grant, Goto, Decoding, Failing
  <2>2. Holding' = Holding \cup {r} /\ r \notin Holding
    BY <1>11, <2>1 DEF Grant, Goto, Holding, Decoding, Failing
  <2>3. Cardinality(Holding') = Cardinality(Holding) + 1
    BY <2>2, CountRequests, DecodingHolds
  <2> QED
    BY <1>11, <2>1, <2>3, DecodingHolds DEF Grant, flags, GateBooks
<1>12. CASE StartDecode(r)
  <2>1. Decoding' = Decoding \cup {r} /\ r \notin Decoding
    BY <1>12 DEF StartDecode, Goto, Decoding, Failing
  <2>2. Holding' = Holding
    BY <1>12, <2>1 DEF StartDecode, Goto, Holding
  <2>3. Cardinality(Decoding') = Cardinality(Decoding) + 1
    BY <2>1, CountRequests, DecodingHolds
  <2> QED
    BY <1>12, <2>2, <2>3 DEF StartDecode, flags, GateBooks
<1>13. CASE FinishDecode(r)
  <2>1. r \in Decoding /\ r \in Holding
    BY <1>13 DEF FinishDecode, Decoding, Holding
  <2>2. Decoding' = Decoding \ {r}
    BY <1>13 DEF FinishDecode, AfterRelease, Goto, Decoding, Failing
  <2>3. /\ Cardinality(Decoding') = Cardinality(Decoding) - 1
        /\ Cardinality(Decoding) > 0
    BY <2>1, <2>2, CountRequests, DecodingHolds
  <2>4. slots > 0 => Holding' = Holding
    BY <1>13, <2>1, <2>2 DEF FinishDecode, Goto, Holding
  <2> QED
    BY <1>13, <2>3, <2>4 DEF FinishDecode, ClampedPred, flags, GateBooks
<1>14. CASE ReleaseSlot(r)
  <2>1. r \in Holding /\ slots > 0
    BY <1>0, <1>14 DEF ReleaseSlot, Holding, ReleaseShape
  <2>2. Decoding' = Decoding /\ r \notin Decoding
    BY <1>14 DEF ReleaseSlot, AfterRelease, Goto, Decoding, Failing
  <2>3. Holding' = Holding \ {r}
    BY <1>14, <2>2 DEF ReleaseSlot, AfterRelease, Goto, Holding
  <2>4. /\ Cardinality(Holding') = Cardinality(Holding) - 1
        /\ Cardinality(Holding) > 0
    BY <2>1, <2>3, CountRequests, DecodingHolds
  <2> QED
    BY <1>14, <2>1, <2>2, <2>4, DecodingHolds DEF ReleaseSlot, flags, GateBooks
<1> HIDE DEF TypeOK
<1> QED
  BY <1>1, <1>2, <1>3, <1>4, <1>5, <1>6, <1>7, <1>8, <1>9, <1>10, <1>11, <1>12, <1>13,
     <1>14 DEF Handle

-----------------------------------------------------------------------------
\* The books of the queue, apart from the process's end.
QueueBooks == queued = Cardinality(Blocked)

LEMMA InitQueue == Init => QueueBooks
<1> SUFFICES ASSUME Init PROVE QueueBooks
  OBVIOUS
<1>1. Blocked = {}
  BY DEF Init, Gate, InitSignals, Blocked
<1> QED
  BY <1>1, FS_EmptySet DEF Init, Gate, InitSignals, QueueBooks

\* A handler enters the queue once and leaves it once, granted or refused.
LEMMA StepQueue ==
    ASSUME TypeOK, QueueBooks, NEW r \in Requests,
           Accept(r) \/ Handle(r) \/ Decode(r)
    PROVE  QueueBooks'
<1>s. Blocked' = Blocked /\ UNCHANGED queued => QueueBooks'
  BY DEF QueueBooks
<1>b. Blocked \in SUBSET Requests
  BY DEF Blocked
<1> USE DEF TypeOK
<1>1. CASE Accept(r)
  <2>1. Blocked' = Blocked
    BY <1>1 DEF Accept, Readings, Goto, Blocked, flags
  <2> QED
    BY <1>1, <2>1, <1>s DEF Accept
<1>2. CASE EnterUngated(r)
  <2>1. Blocked' = Blocked
    BY <1>2 DEF EnterUngated, Goto, Blocked, flags
  <2> QED
    BY <1>2, <2>1, <1>s DEF EnterUngated
<1>3. CASE Grant(r)
  <2>1. Blocked' = Blocked
    BY <1>3 DEF Grant, Goto, Blocked, flags
  <2> QED
    BY <1>3, <2>1, <1>s DEF Grant
<1>4. CASE Refuse(r)
  <2>1. Blocked' = Blocked
    BY <1>4 DEF Refuse, Goto, Blocked, flags
  <2> QED
    BY <1>4, <2>1, <1>s DEF Refuse
<1>5. CASE StartDecode(r)
  <2>1. Blocked' = Blocked
    BY <1>5 DEF StartDecode, Goto, Blocked, flags
  <2> QED
    BY <1>5, <2>1, <1>s DEF StartDecode
<1>6. CASE FinishDecode(r)
  <2>1. Blocked' = Blocked
    BY <1>6 DEF FinishDecode, Goto, Blocked, flags, AfterRelease
  <2> QED
    BY <1>6, <2>1, <1>s DEF FinishDecode
<1>7. CASE ReleaseSlot(r)
  <2>1. Blocked' = Blocked
    BY <1>7 DEF ReleaseSlot, Goto, Blocked, flags, AfterRelease
  <2> QED
    BY <1>7, <2>1, <1>s DEF ReleaseSlot
<1>8. CASE Charge(r)
  <2>1. Blocked' = Blocked
    BY <1>8 DEF Charge, Goto, Blocked, flags
  <2> QED
    BY <1>8, <2>1, <1>s DEF Charge
<1>9. CASE LookAtBudget(r)
  <2>1. Blocked' = Blocked
    BY <1>9 DEF LookAtBudget, Goto, Blocked, flags
  <2> QED
    BY <1>9, <2>1, <1>s DEF LookAtBudget
<1>10. CASE Retire(r)
  <2>1. Blocked' = Blocked
    BY <1>10 DEF Retire, Goto, Blocked, flags
  <2> QED
    BY <1>10, <2>1, <1>s DEF Retire
<1>11. CASE Send(r)
  <2>1. Blocked' = Blocked
    BY <1>11 DEF Send, Written, Goto, Blocked, flags
  <2> QED
    BY <1>11, <2>1, <1>s DEF Send
<1>12. CASE Decode(r)
  <2>1. Blocked' = Blocked
    BY <1>12 DEF Decode, Goto, Blocked, flags
  <2> QED
    BY <1>12, <2>1, <1>s DEF Decode
<1>13. CASE EnterQueue(r)
  <2>1. CASE waits
    <3>1. Blocked' = Blocked \cup {r} /\ r \notin Blocked
      BY <1>13, <2>1 DEF EnterQueue, Goto, Blocked, flags
    <3> QED
      BY <1>13, <2>1, <3>1, <1>b, CountRequests DEF EnterQueue, QueueBooks
  <2>2. CASE ~waits
    <3>1. Blocked' = Blocked
      BY <1>13, <2>2 DEF EnterQueue, Goto, Blocked, flags
    <3> QED
      BY <1>13, <2>2, <3>1, <1>s DEF EnterQueue
  <2> QED
    BY <2>1, <2>2
<1>14. CASE LeaveQueue(r)
  <2>1. CASE waits
    <3>1. Blocked' = Blocked \ {r} /\ r \in Blocked
      BY <1>14, <2>1 DEF LeaveQueue, Goto, Blocked, flags
    <3>2. Cardinality(Blocked') = Cardinality(Blocked) - 1 /\ Cardinality(Blocked) > 0
      BY <3>1, <1>b, CountRequests
    <3> QED
      BY <1>14, <2>1, <3>2 DEF LeaveQueue, ClampedPred, QueueBooks
  <2>2. CASE ~waits
    <3>1. Blocked' = Blocked
      BY <1>14, <2>2 DEF LeaveQueue, Goto, Blocked, flags
    <3> QED
      BY <1>14, <2>2, <3>1, <1>s DEF LeaveQueue
  <2> QED
    BY <2>1, <2>2
<1> HIDE DEF TypeOK
<1> QED
  BY <1>1, <1>2, <1>3, <1>4, <1>5, <1>6, <1>7, <1>8, <1>9, <1>10, <1>11, <1>12, <1>13,
     <1>14 DEF Handle

-----------------------------------------------------------------------------
LEMMA InitCharges == Init => ChargesMatchAnswers
<1> SUFFICES ASSUME Init PROVE ChargesMatchAnswers
  OBVIOUS
<1>1. Charged = {}
  BY DEF Init, Gate, InitSignals, Charged
<1> QED
  BY <1>1, FS_EmptySet DEF Init, Gate, InitSignals, ChargesMatchAnswers

\* Only Charge charges, only Send writes, and only a handler that was charged writes
\* what the engine said.
LEMMA StepCharges ==
    ASSUME TypeOK, Shape, ChargesMatchAnswers, NEW r \in Requests,
           Accept(r) \/ Handle(r) \/ Decode(r)
    PROVE  ChargesMatchAnswers'
<1>0. EarlyShape(r) /\ ChargeShape(r) /\ ReleaseShape(r)
  BY DEF Shape
<1>c. Charged \in SUBSET Requests
  BY DEF Charged
<1>s. UNCHANGED <<served, reply, permit, outcome>> => ChargesMatchAnswers'
  BY DEF ChargesMatchAnswers, Charged
<1> USE DEF TypeOK
<1>1. CASE Accept(r)
  BY <1>1, <1>s DEF Accept
<1>2. CASE EnterUngated(r)
  BY <1>2, <1>s DEF EnterUngated
<1>3. CASE EnterQueue(r)
  BY <1>3, <1>s DEF EnterQueue
<1>4. CASE Grant(r)
  BY <1>4, <1>s DEF Grant
<1>5. CASE Refuse(r)
  BY <1>5, <1>s DEF Refuse
<1>6. CASE LeaveQueue(r)
  BY <1>6, <1>s DEF LeaveQueue
<1>7. CASE StartDecode(r)
  BY <1>7, <1>s DEF StartDecode
<1>8. CASE FinishDecode(r)
  BY <1>8, <1>s DEF FinishDecode
<1>9. CASE ReleaseSlot(r)
  BY <1>9, <1>s DEF ReleaseSlot
<1>10. CASE LookAtBudget(r)
  BY <1>10, <1>s DEF LookAtBudget
<1>11. CASE Retire(r)
  BY <1>11, <1>s DEF Retire
<1>12. CASE Decode(r)
  <2>1. r \notin Charged /\ reply[r] = "none"
    BY <1>0, <1>12 DEF Decode, EarlyShape, Early, Charged
  <2>2. Charged' = Charged
    BY <1>12 DEF Decode, Charged
  <2>3. \A q \in Charged : outcome'[q] = outcome[q]
    BY <1>12, <2>1, <1>c DEF Decode
  <2> QED
    BY <1>12, <2>2, <2>3, <1>c DEF Decode, ChargesMatchAnswers
<1>13. CASE Charge(r)
  <2>1. r \notin Charged /\ reply[r] = "none" /\ outcome[r] \in Answered
    BY <1>0, <1>13 DEF Charge, ChargeShape, Charged
  <2>2. Charged' = Charged \cup {r}
    BY <1>13 DEF Charge, Charged
  <2>3. Cardinality(Charged') = Cardinality(Charged) + 1
    BY <2>1, <2>2, <1>c, CountRequests
  <2> QED
    BY <1>13, <2>1, <2>2, <2>3, <1>c DEF Charge, ChargesMatchAnswers, Answered
<1>14. CASE Send(r)
  <2>1. reply[r] = "none"
    BY <1>0, <1>14 DEF Send, EarlyShape, ChargeShape, Early
  <2>2. pc[r] \in {"busy", "malformed"} => r \notin Charged
    BY <1>0, <1>14 DEF EarlyShape, Early, Charged
  <2>3. pc[r] = "answer" => r \in Charged /\ outcome[r] \in Answered
    BY <1>0, <1>14 DEF ChargeShape, Charged
  <2>4. Charged' = Charged
    BY <1>14 DEF Send, Charged
  <2> QED
    BY <1>14, <2>1, <2>2, <2>3, <2>4, <1>c DEF Send, Written, ChargesMatchAnswers, Answered
<1> HIDE DEF TypeOK
<1> QED
  BY <1>1, <1>2, <1>3, <1>4, <1>5, <1>6, <1>7, <1>8, <1>9, <1>10, <1>11, <1>12, <1>13,
     <1>14 DEF Handle

-----------------------------------------------------------------------------
\* A handler that is past the look at the budget knows whether it took the last permit,
\* and whoever is about to say so has requested the exit.
Announced(r) ==
    /\ permit[r] <= served
    /\ budget > 0 /\ permit[r] >= budget /\ (pc[r] \in {"retire", "answer"} \/ reply[r] # "none")
          => spent[r]
    /\ spent[r] /\ (pc[r] = "answer" \/ reply[r] # "none") => exiting

AllAnnounced == \A r \in Requests : Announced(r)

LEMMA InitAnnounced == Init => AllAnnounced
BY DEF Init, Gate, InitSignals, AllAnnounced, Announced

LEMMA StepAnnounced ==
    ASSUME TypeOK, Shape, AllAnnounced, NEW r \in Requests,
           Accept(r) \/ Handle(r) \/ Decode(r)
    PROVE  AllAnnounced'
<1> SUFFICES ASSUME NEW q \in Requests PROVE Announced(q)'
  BY DEF AllAnnounced
<1>0. EarlyShape(q) /\ ChargeShape(q) /\ Announced(q)
  BY DEF Shape, AllAnnounced
<1> USE DEF TypeOK
<1>1. CASE Accept(r)
  BY <1>0, <1>1 DEF Accept, Readings, Goto, flags, Announced
<1>2. CASE EnterUngated(r)
  BY <1>0, <1>2 DEF EnterUngated, Goto, flags, Announced
<1>3. CASE EnterQueue(r)
  BY <1>0, <1>3 DEF EnterQueue, Goto, flags, Announced
<1>4. CASE Grant(r)
  BY <1>0, <1>4 DEF Grant, Goto, flags, Announced
<1>5. CASE Refuse(r)
  BY <1>0, <1>5 DEF Refuse, Goto, flags, Announced
<1>6. CASE LeaveQueue(r)
  BY <1>0, <1>6 DEF LeaveQueue, Goto, flags, Announced
<1>7. CASE StartDecode(r)
  BY <1>0, <1>7 DEF StartDecode, Goto, flags, Announced
<1>8. CASE FinishDecode(r)
  BY <1>0, <1>8 DEF FinishDecode, Goto, flags, Announced, AfterRelease
<1>9. CASE ReleaseSlot(r)
  BY <1>0, <1>9 DEF ReleaseSlot, Goto, flags, Announced, AfterRelease
<1>10. CASE Charge(r)
  BY <1>0, <1>10 DEF Charge, Goto, flags, Announced, ChargeShape
<1>11. CASE LookAtBudget(r)
  <2>1. CASE q # r
    BY <1>0, <1>11, <2>1 DEF LookAtBudget, Goto, flags, Announced
  <2>2. CASE q = r /\ OverBudget
    BY <1>0, <1>11, <2>2 DEF LookAtBudget, Goto, flags, Announced, ChargeShape
  <2>3. CASE q = r /\ ~OverBudget
    <3>1. ~(budget > 0 /\ permit[q] >= budget)
      BY <1>0, <2>3 DEF OverBudget, Announced
    <3>2. ~spent'[q] /\ UNCHANGED <<permit, served, budget>>
      BY <1>11, <2>3 DEF LookAtBudget, flags
    <3> QED
      BY <1>0, <3>1, <3>2 DEF Announced
  <2> QED
    BY <2>1, <2>2, <2>3
<1>12. CASE Retire(r)
  BY <1>0, <1>12 DEF Retire, Goto, flags, Announced
<1>13. CASE Send(r)
  BY <1>0, <1>13 DEF Send, Written, Goto, flags, Announced, EarlyShape, Early
<1>14. CASE Decode(r)
  BY <1>0, <1>14 DEF Decode, Goto, flags, Announced
<1> HIDE DEF TypeOK
<1> QED
  BY <1>1, <1>2, <1>3, <1>4, <1>5, <1>6, <1>7, <1>8, <1>9, <1>10, <1>11, <1>12, <1>13,
     <1>14 DEF Handle

-----------------------------------------------------------------------------
(***************************************************************************)
(* The inductive invariant.  GateAccounted and QueueAccounted speak of the *)
(* living process only: once main has returned there is nothing to count,  *)
(* so their books are kept up to that step.                                *)
(***************************************************************************)
Books == loop # "exited" => GateBooks /\ QueueBooks

IInv == TypeOK /\ Shape /\ Books /\ ChargesMatchAnswers /\ AllAnnounced

\* The main thread touches nothing the handlers count.
LEMMA StepMain ==
    ASSUME IInv, CloseLoop \/ ExitProcess \/ UNCHANGED vars
    PROVE  Books' /\ ChargesMatchAnswers' /\ AllAnnounced'
<1>1. ChargesMatchAnswers'
  BY DEF IInv, ChargesMatchAnswers, Charged, CloseLoop, ExitProcess, vars, flags
<1>2. AllAnnounced'
  <2>1. CASE CloseLoop
    BY <2>1 DEF IInv, AllAnnounced, Announced, CloseLoop, flags
  <2>2. CASE ExitProcess
    BY <2>2 DEF IInv, TypeOK, AllAnnounced, Announced, ExitProcess, flags
  <2>3. CASE UNCHANGED vars
    BY <2>3 DEF IInv, AllAnnounced, Announced, vars, flags
  <2> QED
    BY <2>1, <2>2, <2>3
<1>3. Books'
  <2>1. CASE loop' = "exited"
    BY <2>1 DEF Books
  <2>2. CASE loop' # "exited"
    <3>1. UNCHANGED <<slots, waits, free, decodes, queued, pc, outcome>>
      BY <2>2 DEF CloseLoop, ExitProcess, vars, flags
    <3>2. loop # "exited"
      BY <2>2 DEF CloseLoop, ExitProcess, vars
    <3>3. Decoding' = Decoding /\ Holding' = Holding /\ Blocked' = Blocked
      BY <3>1 DEF Decoding, Holding, Blocked, Failing
    <3> QED
      BY <3>1, <3>2, <3>3 DEF IInv, Books, GateBooks, QueueBooks
  <2> QED
    BY <2>1, <2>2
<1> QED
  BY <1>1, <1>2, <1>3

LEMMA Inductive == IInv /\ [Next]_vars => IInv'
<1> SUFFICES ASSUME IInv, [Next]_vars PROVE IInv'
  OBVIOUS
<1>1. TypeOK' /\ Shape'
  BY StepType, StepShape DEF IInv
<1>2. ASSUME NEW r \in Requests, Accept(r) \/ Handle(r) \/ Decode(r)
      PROVE  Books' /\ ChargesMatchAnswers' /\ AllAnnounced'
  <2>1. ChargesMatchAnswers' /\ AllAnnounced'
    BY <1>2, StepCharges, StepAnnounced DEF IInv
  <2>2. loop' = loop
    BY <1>2 DEF Accept, Handle, Decode, EnterUngated, EnterQueue, Grant, Refuse, LeaveQueue,
                StartDecode, FinishDecode, ReleaseSlot, Charge, LookAtBudget, Retire, Send
  <2>3. GateBooks /\ QueueBooks => GateBooks' /\ QueueBooks'
    BY <1>2, StepGate, StepQueue DEF IInv
  <2> QED
    BY <2>1, <2>2, <2>3 DEF IInv, Books
<1>3. CASE CloseLoop \/ ExitProcess \/ UNCHANGED vars
  BY <1>1, <1>3, StepMain DEF IInv
<1> QED
  BY <1>1, <1>2, <1>3 DEF Next, IInv

LEMMA Invariance == Spec => []IInv
<1>1. Init => IInv
  BY InitType, InitShape, InitGate, InitQueue, InitCharges, InitAnnounced DEF IInv, Books
<1> QED
  BY <1>1, Inductive, PTL DEF Spec

(***************************************************************************)
(* The service keeps its types, whatever flags it is started with.         *)
(***************************************************************************)
THEOREM TypeCorrect == Spec => []TypeOK
<1>1. IInv => TypeOK
  BY DEF IInv
<1> QED
  BY <1>1, Invariance, PTL

(***************************************************************************)
(* The gate is accounted for: release_decode gives back what               *)
(* acquire_decode took, on every path through do_POST, for any number of   *)
(* requests and slots.                                                     *)
(***************************************************************************)
THEOREM GateIsAccounted == Spec => []GateAccounted
<1>1. IInv => GateAccounted
  BY BooksAccount DEF IInv, Books, GateAccounted
<1> QED
  BY <1>1, Invariance, PTL

(***************************************************************************)
(* decodes_queued counts the blocked callers: queue_entered and queue_left *)
(* pair up whether the wait is granted or runs out.                        *)
(***************************************************************************)
THEOREM QueueIsAccounted == Spec => []QueueAccounted
<1>1. IInv => QueueAccounted
  BY DEF IInv, Books, QueueBooks, QueueAccounted
<1> QED
  BY <1>1, Invariance, PTL

(***************************************************************************)
(* count_served charges a request once, when the engine answered it, and a *)
(* busy refusal never.                                                     *)
(***************************************************************************)
THEOREM ChargesAreDue == Spec => []ChargesMatchAnswers
<1>1. IInv => ChargesMatchAnswers
  BY DEF IInv
<1> QED
  BY <1>1, Invariance, PTL

(***************************************************************************)
(* Every answer charged at or past the budget announces the exit, although *)
(* the charge and the look at the budget take the lock separately.         *)
(***************************************************************************)
THEOREM LastPermitsAreAnnounced == Spec => []LastPermitsAnnounced
<1>1. IInv => LastPermitsAnnounced
  BY DEF IInv, AllAnnounced, Announced, LastPermitsAnnounced
<1> QED
  BY <1>1, Invariance, PTL

-----------------------------------------------------------------------------
(* Why the process leaves.                                                 *)

\* The loop is asked to stop by a handler that found the budget spent, and stops only when asked.
Earned ==
    /\ loop # "serving" => exiting
    /\ exiting => OverBudget
    /\ \A r \in Requests : spent[r] \/ pc[r] = "retire" => OverBudget

LEMMA EarnedNext == TypeOK /\ Earned /\ [Next]_vars => Earned'
<1> SUFFICES ASSUME TypeOK, Earned, [Next]_vars PROVE Earned'
  OBVIOUS
<1> USE DEF Earned, OverBudget, TypeOK
<1>1. ASSUME NEW r \in Requests, Charge(r) PROVE Earned'
  BY <1>1 DEF Charge, Goto, flags
<1>2. ASSUME NEW r \in Requests, LookAtBudget(r) PROVE Earned'
  BY <1>2 DEF LookAtBudget, Goto, flags
<1>3. ASSUME NEW r \in Requests, Retire(r) PROVE Earned'
  BY <1>3 DEF Retire, Goto, flags
<1>4. ASSUME NEW r \in Requests,
             \/ Accept(r) \/ EnterUngated(r) \/ EnterQueue(r) \/ Grant(r) \/ Refuse(r)
             \/ LeaveQueue(r) \/ StartDecode(r) \/ Decode(r) \/ FinishDecode(r)
             \/ ReleaseSlot(r) \/ Send(r)
      PROVE  Earned'
  <2>1. UNCHANGED <<flags, served, exiting, loop, spent>>
    BY <1>4 DEF Accept, EnterUngated, EnterQueue, Grant, Refuse, LeaveQueue, StartDecode, Decode,
                FinishDecode, ReleaseSlot, Send
  <2>2. \A q \in Requests : pc'[q] = "retire" => pc[q] = "retire"
    <3>1. CASE Accept(r) \/ EnterUngated(r) \/ EnterQueue(r) \/ Grant(r) \/ Refuse(r)
      BY <3>1 DEF Accept, Readings, EnterUngated, EnterQueue, Grant, Refuse, Goto
    <3>2. CASE LeaveQueue(r) \/ StartDecode(r) \/ Decode(r)
      BY <3>2 DEF LeaveQueue, StartDecode, Decode, Goto
    <3>3. CASE FinishDecode(r) \/ ReleaseSlot(r) \/ Send(r)
      BY <3>3 DEF FinishDecode, ReleaseSlot, Send, AfterRelease, Goto
    <3> QED
      BY <1>4, <3>1, <3>2, <3>3
  <2> QED
    BY <2>1, <2>2 DEF flags
<1>5. CASE CloseLoop
  BY <1>5 DEF CloseLoop, flags
<1>6. CASE ExitProcess
  BY <1>6 DEF ExitProcess, flags
<1>7. CASE UNCHANGED vars
  BY <1>7 DEF vars, flags
<1> QED
  BY <1>1, <1>2, <1>3, <1>4, <1>5, <1>6, <1>7 DEF Next, Handle

(***************************************************************************)
(* The process announces its exit, stops listening and leaves only once    *)
(* as many requests as the budget names have been answered by the engine   *)
(* and charged (count_served): refusals and unreadable bodies, however     *)
(* many, and crashes retire nobody.                                        *)
(***************************************************************************)
RetirementEarned ==
    exiting \/ loop # "serving" \/ (\E r \in Requests : spent[r]) =>
        budget > 0 /\ Cardinality(Charged) >= budget

THEOREM RetirementIsEarned == Spec => []RetirementEarned
<1>1. Init => Earned
  BY DEF Init, Earned
<1>2. IInv => TypeOK
  BY DEF IInv
<1>3. IInv /\ Earned => RetirementEarned
  BY DEF IInv, Earned, OverBudget, ChargesMatchAnswers, RetirementEarned
<1> QED
  BY <1>1, <1>2, <1>3, Invariance, EarnedNext, PTL DEF Spec
=============================================================================

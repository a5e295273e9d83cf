--------------------------- MODULE SidecarService ---------------------------
(***************************************************************************)
(* One process of the translation sidecar (sidecar/ct2_sidecar.py) serving *)
(* POST /translate.  Every request has a handler thread of its own.        *)
(* The threads share the decode gate (a bounded semaphore), the counters   *)
(* of HealthSignals (one lock, taken per update) and the request budget    *)
(* that retires the process: the handler that spends it asks the listening *)
(* loop to stop, the main thread then leaves main(), and daemon handler    *)
(* threads die with the process.  A step is one critical section or one    *)
(* call; other threads run between two of them.                            *)
(***************************************************************************)
EXTENDS Integers, FiniteSets

CONSTANTS
    Requests,      \* POST /translate calls that reach this process
    SlotFlags,     \* values of --decode-slots
    WaitFlags,     \* whether --queue-wait-ms lets a caller wait
    BudgetFlags    \* values of --max-requests

ASSUME ServiceAssumption ==
    /\ IsFiniteSet(Requests)
    /\ SlotFlags \subseteq Int /\ BudgetFlags \subseteq Int
    /\ WaitFlags \subseteq BOOLEAN

VARIABLES
    slots,      \* decode_slots, 0 for no gate
    waits,      \* queue_wait_s > 0
    budget,     \* max_requests, 0 for unbounded
    free,       \* the semaphore's value
    decodes,    \* HealthSignals._decodes
    queued,     \* HealthSignals._queued
    served,     \* HealthSignals._served
    gone,       \* HealthSignals._gone_answers and _gone_refusals
    exiting,    \* exit_requested
    loop,       \* the main thread: serving, closed, exited
    pc,         \* where each handler stands
    outcome,    \* what came of the engine call of a request
    spent,      \* count_served told the handler it took the last permit
    reply,      \* what the handler wrote
    permit      \* history: the value of served when the request was charged

flags == <<slots, waits, budget>>
vars == <<flags, free, decodes, queued, served, gone, exiting, loop,
          pc, outcome, spent, reply, permit>>

\* Fault: a limit is taken as it is given.
LimitAsGiven(raw) == raw

\* resolve_decode_slots and resolve_max_requests: zero and below mean no limit.
Limit(raw) == IF raw > 0 THEN raw ELSE 0

Goto(r, step) == pc' = [pc EXCEPT ![r] = step]

\* The handler threads of the process; main's exit takes them with it.
Live == {r \in Requests : pc[r] \notin {"away", "done", "killed"}}

-----------------------------------------------------------------------------
\* What a body is read as: lines to translate, or neither or both of text and texts, nothing but
\* blanks, or no JSON at all.
Readings == {"accepted", "malformed"}

\* The listening loop hands the connection to a new thread, which parses the request.
Accept(r) ==
    /\ pc[r] = "away" /\ loop = "serving"
    /\ \E reading \in Readings : Goto(r, reading)
    /\ UNCHANGED <<flags, free, decodes, queued, served, gone, exiting, loop,
                   outcome, spent, reply, permit>>

\* acquire_decode without a gate: the answer is always yes.
EnterUngated(r) ==
    /\ pc[r] = "accepted" /\ slots = 0
    /\ decodes' = decodes + 1
    /\ Goto(r, "decoding")
    /\ UNCHANGED <<flags, free, queued, served, gone, exiting, loop,
                   outcome, spent, reply, permit>>

\* acquire_decode with one: a caller that may block is counted as queued first.
EnterQueue(r) ==
    /\ pc[r] = "accepted" /\ slots > 0
    /\ queued' = IF waits THEN queued + 1 ELSE queued
    /\ Goto(r, "waiting")
    /\ UNCHANGED <<flags, free, decodes, served, gone, exiting, loop,
                   outcome, spent, reply, permit>>

Grant(r) ==
    /\ pc[r] = "waiting" /\ free > 0
    /\ free' = free - 1
    /\ Goto(r, "granted")
    /\ UNCHANGED <<flags, decodes, queued, served, gone, exiting, loop,
                   outcome, spent, reply, permit>>

\* Fault: a wait without a limit.
RefuseNever(r) == FALSE

\* The wait, of any length, runs out while no slot is free.
Refuse(r) ==
    /\ pc[r] = "waiting" /\ free = 0
    /\ Goto(r, "refused")
    /\ UNCHANGED <<flags, free, decodes, queued, served, gone, exiting, loop,
                   outcome, spent, reply, permit>>

ClampedPred(n) == IF n > 0 THEN n - 1 ELSE 0

\* Fault: queue_left only after a granted wait.
LeaveQueueIfGranted(r) ==
    /\ pc[r] \in {"granted", "refused"}
    /\ queued' = IF waits /\ pc[r] = "granted" THEN ClampedPred(queued) ELSE queued
    /\ Goto(r, IF pc[r] = "granted" THEN "admitted" ELSE "busy")
    /\ UNCHANGED <<flags, free, decodes, served, gone, exiting, loop,
                   outcome, spent, reply, permit>>

\* The finally block of acquire_decode.
LeaveQueue(r) ==
    /\ pc[r] \in {"granted", "refused"}
    /\ queued' = IF waits THEN ClampedPred(queued) ELSE queued
    /\ Goto(r, IF pc[r] = "granted" THEN "admitted" ELSE "busy")
    /\ UNCHANGED <<flags, free, decodes, served, gone, exiting, loop,
                   outcome, spent, reply, permit>>

StartDecode(r) ==
    /\ pc[r] = "admitted"
    /\ decodes' = decodes + 1
    /\ Goto(r, "decoding")
    /\ UNCHANGED <<flags, free, queued, served, gone, exiting, loop,
                   outcome, spent, reply, permit>>

\* The engine answers line by line (a line without an answer is named in the reply), or one line
\* raises UnsupportedTarget or MissingDependency, which are charged and answered with the
\* slot still held, or anything else.
Decode(r) ==
    /\ pc[r] = "decoding"
    /\ \E result \in {"text", "unsupported", "missing", "crash"} :
          /\ outcome' = [outcome EXCEPT ![r] = result]
          /\ Goto(r, IF result \in {"text", "crash"} THEN "finish" ELSE "charge")
    /\ UNCHANGED <<flags, free, decodes, queued, served, gone, exiting, loop,
                   spent, reply, permit>>

-----------------------------------------------------------------------------
\* After release_decode only a translation is still to be charged and answered.
AfterRelease(r) == IF outcome[r] = "text" THEN "charge" ELSE "done"

\* release_decode, the finally block: the tally first ...
FinishDecode(r) ==
    /\ pc[r] = "finish"
    /\ decodes' = ClampedPred(decodes)
    /\ Goto(r, IF slots > 0 THEN "release" ELSE AfterRelease(r))
    /\ UNCHANGED <<flags, free, queued, served, gone, exiting, loop,
                   outcome, spent, reply, permit>>

\* Fault: the slot comes back only after a translation.
ReleaseSlotOfText(r) ==
    /\ pc[r] = "release"
    /\ free' = IF outcome[r] = "text" THEN free + 1 ELSE free
    /\ Goto(r, AfterRelease(r))
    /\ UNCHANGED <<flags, decodes, queued, served, gone, exiting, loop,
                   outcome, spent, reply, permit>>

\* ... then the slot; the bounded semaphore ignores a release too many.
ReleaseSlot(r) ==
    /\ pc[r] = "release"
    /\ free' = IF free < slots THEN free + 1 ELSE free
    /\ Goto(r, AfterRelease(r))
    /\ UNCHANGED <<flags, decodes, queued, served, gone, exiting, loop,
                   outcome, spent, reply, permit>>

\* Fault: only translations are charged.
ChargeText(r) ==
    /\ pc[r] = "charge"
    /\ served' = IF outcome[r] = "text" THEN served + 1 ELSE served
    /\ permit' = [permit EXCEPT ![r] = served']
    /\ Goto(r, "charged")
    /\ UNCHANGED <<flags, free, decodes, queued, gone, exiting, loop,
                   outcome, spent, reply>>

\* count_served: the charge and the look at the budget take the lock one after the other.
Charge(r) ==
    /\ pc[r] = "charge"
    /\ served' = served + 1
    /\ permit' = [permit EXCEPT ![r] = served']
    /\ Goto(r, "charged")
    /\ UNCHANGED <<flags, free, decodes, queued, gone, exiting, loop,
                   outcome, spent, reply>>

\* Fault: the budget is over at one value of the counter.
OverBudgetOnce == budget > 0 /\ served = budget

OverBudget == budget > 0 /\ served >= budget

\* Fault: whoever finds the exit already requested took no last permit.
LookAtBudgetFirst(r) ==
    /\ pc[r] = "charged"
    /\ spent' = [spent EXCEPT ![r] = OverBudget /\ ~exiting]
    /\ Goto(r, IF OverBudget THEN "retire" ELSE "answer")
    /\ UNCHANGED <<flags, free, decodes, queued, served, gone, exiting, loop,
                   outcome, reply, permit>>

LookAtBudget(r) ==
    /\ pc[r] = "charged"
    /\ spent' = [spent EXCEPT ![r] = OverBudget]
    /\ Goto(r, IF OverBudget THEN "retire" ELSE "answer")
    /\ UNCHANGED <<flags, free, decodes, queued, served, gone, exiting, loop,
                   outcome, reply, permit>>

\* The shutdown of the loop is left to a thread of its own; asking twice is asking once.
Retire(r) ==
    /\ pc[r] = "retire"
    /\ exiting' = TRUE
    /\ Goto(r, "answer")
    /\ UNCHANGED <<flags, free, decodes, queued, served, gone, loop,
                   outcome, spent, reply, permit>>

CountGone(r) ==
    gone' = IF pc[r] = "answer" /\ outcome[r] = "text"
            THEN [gone EXCEPT !.answers = @ + 1]
            ELSE [gone EXCEPT !.refusals = @ + 1]

\* The answer.  One that was charged announces the exit if spent[r] (_mark_exit).
Written(r) == IF pc[r] = "answer" THEN outcome[r] ELSE pc[r]

\* _send: the caller may have hung up by now, and the write may notice.  An error
\* answer is written before the slot goes back, a translation after it.
Send(r) ==
    /\ pc[r] \in {"answer", "busy", "malformed"}
    /\ reply' = [reply EXCEPT ![r] = Written(r)]
    /\ \/ UNCHANGED gone
       \/ CountGone(r)
    /\ Goto(r, IF pc[r] = "answer" /\ outcome[r] # "text" THEN "finish" ELSE "done")
    /\ UNCHANGED <<flags, free, decodes, queued, served, exiting, loop,
                   outcome, spent, permit>>

-----------------------------------------------------------------------------
\* serve_forever returns at its next look at the request, and the socket is closed.
CloseLoop ==
    /\ loop = "serving" /\ exiting
    /\ loop' = "closed"
    /\ UNCHANGED <<flags, free, decodes, queued, served, gone, exiting,
                   pc, outcome, spent, reply, permit>>

\* main returns; daemon handler threads are not waited for.
ExitProcess ==
    /\ loop = "closed"
    /\ loop' = "exited"
    /\ pc' = [r \in Requests |-> IF r \in Live THEN "killed" ELSE pc[r]]
    /\ UNCHANGED <<flags, free, decodes, queued, served, gone, exiting,
                   outcome, spent, reply, permit>>

\* A fresh HealthSignals.
InitSignals ==
    /\ decodes = 0 /\ queued = 0 /\ served = 0
    /\ gone = [answers |-> 0, refusals |-> 0]

\* A server resolves its limits before its gate is made from them.
Gate(s, w, b) == slots = Limit(s) /\ waits = w /\ budget = Limit(b) /\ free = slots

\* The command line names the limits.
Init ==
    /\ \E s \in SlotFlags, w \in WaitFlags, b \in BudgetFlags : Gate(s, w, b)
    /\ InitSignals
    /\ exiting = FALSE /\ loop = "serving"
    /\ pc = [r \in Requests |-> "away"]
    /\ outcome = [r \in Requests |-> "none"]
    /\ spent = [r \in Requests |-> FALSE]
    /\ reply = [r \in Requests |-> "none"]
    /\ permit = [r \in Requests |-> 0]

\* What the handler thread of r does next, the engine call apart.
Handle(r) ==
    \/ EnterUngated(r) \/ EnterQueue(r) \/ Grant(r) \/ Refuse(r) \/ LeaveQueue(r)
    \/ StartDecode(r) \/ FinishDecode(r) \/ ReleaseSlot(r)
    \/ Charge(r) \/ LookAtBudget(r) \/ Retire(r) \/ Send(r)

Next ==
    \/ \E r \in Requests : Accept(r) \/ Handle(r) \/ Decode(r)
    \/ CloseLoop \/ ExitProcess

\* Threads are scheduled and the loop polls; a decode may take for ever, and whether
\* a caller connects is its own affair.
Fairness ==
    /\ \A r \in Requests : WF_vars(Handle(r))
    /\ WF_vars(CloseLoop) /\ WF_vars(ExitProcess)

Spec == Init /\ [][Next]_vars /\ Fairness

-----------------------------------------------------------------------------
\* Each component of the state holds what the code can put in it.
TypeOK ==
    /\ slots \in Nat /\ waits \in BOOLEAN /\ budget \in Nat
    /\ free \in Nat /\ decodes \in Nat /\ queued \in Nat /\ served \in Nat
    /\ gone \in [answers : Nat, refusals : Nat]
    /\ exiting \in BOOLEAN /\ loop \in {"serving", "closed", "exited"}
    /\ pc \in [Requests -> {"away", "accepted", "malformed", "waiting", "granted", "refused",
                  "admitted", "busy", "decoding", "finish", "release", "charge",
                  "charged", "retire", "answer", "done", "killed"}]
    /\ outcome \in [Requests -> {"none", "text", "unsupported", "missing", "crash"}]
    /\ spent \in [Requests -> BOOLEAN]
    /\ reply \in [Requests -> {"none", "busy", "malformed", "text", "unsupported", "missing"}]
    /\ permit \in [Requests -> Nat]

\* The engine call ended in an error that is charged and answered before the release.
Failing(r) == outcome[r] \in {"unsupported", "missing"}

Decoding ==
    {r \in Requests : \/ pc[r] \in {"decoding", "finish"}
                      \/ Failing(r) /\ pc[r] \in {"charge", "charged", "retire", "answer"}}

Holding == Decoding \cup {r \in Requests : pc[r] \in {"granted", "admitted", "release"}}

(***************************************************************************)
(* While the process lives, the semaphore lacks exactly the slots that     *)
(* handlers hold, whichever way their engine calls ended, and the decodes  *)
(* /health reports are exactly the decodes in flight, so never more than   *)
(* the slots (release_decode counts down before it gives the slot back).   *)
(***************************************************************************)
GateAccounted ==
    loop # "exited" =>
        /\ decodes = Cardinality(Decoding)
        /\ slots > 0 => free + Cardinality(Holding) = slots /\ decodes <= slots

\* The handlers that entered the queue and have not left it.
Blocked == {r \in Requests : waits /\ pc[r] \in {"waiting", "granted", "refused"}}

(***************************************************************************)
(* decodes_queued is exactly the callers blocked on the gate, granted and  *)
(* refused ones included until their handler leaves the wait, and zero     *)
(* when --queue-wait-ms lets nobody wait.                                  *)
(***************************************************************************)
QueueAccounted == loop # "exited" => queued = Cardinality(Blocked)

\* The requests charged.
Charged == {r \in Requests : permit[r] # 0}

(***************************************************************************)
(* The budget is charged once for every request that reached the engine    *)
(* and came back, refused language codes included, and never for a busy    *)
(* refusal or an unreadable body: retries into a busy service cannot       *)
(* spend it.  The charge comes before the write, so it does not ask        *)
(* whether the caller is still there; what the module's own comment says   *)
(* of such writes is not claimed here.                                     *)
(***************************************************************************)
ChargesMatchAnswers ==
    /\ served = Cardinality(Charged)
    /\ \A r \in Requests : reply[r] \notin {"none", "busy", "malformed"} => r \in Charged
    /\ \A r \in Charged : reply[r] \notin {"busy", "malformed"} /\ outcome[r] \in {"text", "unsupported", "missing"}

(***************************************************************************)
(* Nobody is left believing the process lives on: a request charged at or  *)
(* past the budget is told of the exit in its answer, and by the time      *)
(* anybody is told, the exit has been requested.                           *)
(***************************************************************************)
LastPermitsAnnounced ==
    \A r \in Requests :
        /\ budget > 0 /\ permit[r] >= budget /\ reply[r] # "none" => spent[r]
        /\ spent[r] /\ reply[r] # "none" => exiting

(***************************************************************************)
(* A queued caller is admitted or refused, even behind decodes that never  *)
(* end: waiting past queue_wait_s is refused rather than left hanging.     *)
(***************************************************************************)
QueueMoves ==
    \A r \in Requests : pc[r] = "waiting" ~> pc[r] \in {"decoding", "done", "killed"}

(***************************************************************************)
(* A spent budget ends the process, whatever other handlers are doing.     *)
(***************************************************************************)
BudgetRetires == (budget > 0 /\ served >= budget) ~> loop = "exited"

(***************************************************************************)
(* Violated.  SidecarServer says the request that spends the budget still  *)
(* has to answer, "losing that last answer would not be" the point.  The   *)
(* loop is asked to stop before the answer is written, and the main thread *)
(* does not wait for daemon handler threads, so it can exit in between.    *)
(***************************************************************************)
LastAnswerSent == loop = "exited" => \A r \in Requests : spent[r] => reply[r] # "none"
=============================================================================

----------------------------- MODULE ModelStore -----------------------------
(***************************************************************************)
(* The engines a sidecar process keeps in memory (CT2Backend: one per      *)
(* language pair in a dictionary; MadladBackend: one checkpoint), as the   *)
(* handler threads of /translate, /warmup, /reload and /readyz share them. *)
(* Loading is double-checked under a lock; a reload and a look at what is  *)
(* loaded take no lock at all.  A step is one access to the shared         *)
(* attribute, so another thread may run between the test of an engine and  *)
(* the read that fetches it.                                               *)
(***************************************************************************)
EXTENDS Naturals, FiniteSets

CONSTANTS
    Threads,    \* handler threads
    Pairs,      \* the language pairs with a package on disk
    Backends,   \* the backends to check: "ct2", "madlad"
    Unknown,    \* a language nothing on disk serves
    Unnamed,    \* no language given
    MaxLoads    \* bound: engines loaded in a run

ASSUME StoreAssumption ==
    /\ IsFiniteSet(Threads) /\ IsFiniteSet(Pairs) /\ Pairs # {}
    /\ Unknown # Unnamed /\ Pairs \cap {Unknown, Unnamed} = {}
    /\ Backends \subseteq {"ct2", "madlad"}
    /\ MaxLoads \in Nat

VARIABLES
    backend,    \* make_backend's choice
    resident,   \* _loaded, or _translator: the pairs whose engine is in memory
    lock,       \* _LOAD_LOCK is held
    pc,         \* where each thread stands
    call,       \* the call it works on
    listing,    \* what became of the dictionary a thread iterates over
    loads,      \* history: engines loaded
    drops,      \* history: engines dropped
    claims,     \* history: answers that reported a load of their own
    starved     \* history: some call found no engine where it had seen one

historyVars == <<loads, drops, claims, starved>>
vars == <<backend, resident, lock, pc, call, listing, historyVars>>

\* Madlad has one engine for every pair.
Checkpoint == CHOOSE p \in Pairs : TRUE

\* What callers write: codes as the packages spell them, region-qualified ones, others, none.
Names == (Pairs \X {"bare", "region"}) \cup {Unknown, Unnamed}

\* Fault: the pair as the caller spelled it, not folded onto a package.
FoldUnfolded(kind, name) ==
    IF name = Unnamed THEN IF kind = "translate" THEN Unknown ELSE Unnamed ELSE name

\* resolve_source and resolve_target: a region-qualified code falls back to its language, an
\* empty one serves a warm-up only.
Fold(kind, name) ==
    CASE name = Unknown -> Unknown
      [] name = Unnamed -> IF kind = "translate" THEN Unknown
                           ELSE IF backend = "ct2" THEN Unnamed ELSE Checkpoint
      [] OTHER -> IF backend = "ct2" THEN name[1] ELSE Checkpoint

\* A call: its kind and pair, whether it loaded the engine itself, what it looks at the
\* loaded engines for, and whether there were any after its warm-up.
NoCall == [kind |-> "none", pair |-> Unnamed, built |-> FALSE, stage |-> "none", listed |-> FALSE]

Goto(t, step) == pc' = [pc EXCEPT ![t] = step]
Return(t) == Goto(t, "idle") /\ call' = [call EXCEPT ![t] = NoCall]

\* Readiness, a warm-up's report and a reload's list of what it drops look at all that is loaded.
Look(t, stage) == Goto(t, "look") /\ call' = [call EXCEPT ![t].stage = stage]

\* An answer with the report of a load, or without one.
Answer(t, reports) == claims' = (IF reports THEN claims + 1 ELSE claims) /\ Return(t)

-----------------------------------------------------------------------------
\* A request arrives; its codes are folded onto what the backend serves.
Ask(t, kind, name) ==
    /\ pc[t] = "idle"
    /\ call' = [call EXCEPT ![t] = [NoCall EXCEPT !.kind = kind, !.pair = Fold(kind, name)]]
    /\ Goto(t, "enter")
    /\ UNCHANGED <<backend, resident, lock, listing, historyVars>>

\* /reload drops before it looks at the pair to warm; /readyz names none.
AskReload(t, kind, name) ==
    /\ pc[t] = "idle"
    /\ call' = [call EXCEPT ![t] = [NoCall EXCEPT !.kind = kind, !.pair = Fold(kind, name),
                                                  !.stage = "discard"]]
    /\ Goto(t, "look")
    /\ UNCHANGED <<backend, resident, lock, listing, historyVars>>

Readyz(t) ==
    /\ pc[t] = "idle"
    /\ call' = [call EXCEPT ![t] = [NoCall EXCEPT !.kind = "readyz", !.stage = "report"]]
    /\ Goto(t, "look")
    /\ UNCHANGED <<backend, resident, lock, listing, historyVars>>

\* A pair nothing serves is refused; a warm-up that names no pair loads none.
Enter(t) ==
    /\ pc[t] = "enter"
    /\ \/ call[t].pair = Unknown /\ Return(t)
       \/ call[t].pair = Unnamed /\ Look(t, "report")
       \/ call[t].pair \in Pairs /\ Goto(t, "test") /\ UNCHANGED call
    /\ UNCHANGED <<backend, resident, lock, listing, historyVars>>

\* The test outside the lock.
Test(t) ==
    /\ pc[t] = "test"
    /\ Goto(t, IF call[t].pair \in resident THEN "fetch" ELSE "lock")
    /\ UNCHANGED <<backend, resident, lock, call, listing, historyVars>>

\* Fault: the lock keeps nobody out.
LockBarging(t) ==
    /\ pc[t] = "lock"
    /\ lock' = TRUE
    /\ Goto(t, "recheck")
    /\ UNCHANGED <<backend, resident, call, listing, historyVars>>

Lock(t) ==
    /\ pc[t] = "lock" /\ ~lock
    /\ lock' = TRUE
    /\ Goto(t, "recheck")
    /\ UNCHANGED <<backend, resident, call, listing, historyVars>>

\* Fault: whoever saw a cold store claims the load.
RecheckClaiming(t) ==
    /\ pc[t] = "recheck"
    /\ Goto(t, IF call[t].pair \in resident THEN "locked_fetch" ELSE "load")
    /\ call' = [call EXCEPT ![t].built = TRUE]
    /\ UNCHANGED <<backend, resident, lock, listing, historyVars>>

\* The test inside the lock decides who loads.
Recheck(t) ==
    /\ pc[t] = "recheck"
    /\ Goto(t, IF call[t].pair \in resident THEN "locked_fetch" ELSE "load")
    /\ UNCHANGED <<backend, resident, lock, call, listing, historyVars>>

\* The dictionary grew under the reloads that were iterating over it.
Grown == [t \in Threads |-> IF listing[t] = "same" THEN "grown" ELSE listing[t]]

Load(t) ==
    /\ pc[t] = "load" /\ loads < MaxLoads
    /\ resident' = resident \cup {call[t].pair}
    /\ listing' = IF call[t].pair \in resident THEN listing ELSE Grown
    /\ call' = [call EXCEPT ![t].built = TRUE]
    /\ loads' = loads + 1
    /\ Goto(t, "locked_fetch")
    /\ UNCHANGED <<backend, lock, drops, claims, starved>>

\* Fault: the lock stays behind when the library raises.
LoadFailsLocked(t) ==
    /\ pc[t] = "load"
    /\ Return(t)
    /\ UNCHANGED <<backend, resident, lock, listing, historyVars>>

\* The library cannot load the model: the exception leaves the lock and the handler.
LoadFails(t) ==
    /\ pc[t] = "load"
    /\ lock' = FALSE
    /\ Return(t)
    /\ UNCHANGED <<backend, resident, listing, historyVars>>

\* The engine is read once more on the way out; a reload may have taken it since.  Then
\* the dictionary raises, or Madlad hands out None: a translation fails on it, and a
\* warm-up, which does not look at it, reports success.
Fetch(t) ==
    /\ pc[t] \in {"fetch", "locked_fetch"}
    /\ lock' = IF pc[t] = "locked_fetch" THEN FALSE ELSE lock
    /\ starved' = (starved \/ call[t].pair \notin resident)
    /\ LET found == call[t].pair \in resident \/ (backend = "madlad" /\ call[t].kind # "translate")
       IN \/ found /\ Goto(t, "use") /\ UNCHANGED call
          \/ ~found /\ Return(t)
    /\ UNCHANGED <<backend, resident, listing, loads, drops, claims>>

\* A translation decodes on the reference it holds.  A warm-up reports: Argos what is loaded
\* now, Madlad that it is ready; one that belongs to a reload is followed by another look.
Use(t) ==
    /\ pc[t] = "use"
    /\ \/ call[t].kind = "translate" /\ Return(t) /\ UNCHANGED claims
       \/ call[t].kind # "translate" /\ backend = "ct2" /\ Look(t, "report") /\ UNCHANGED claims
       \/ call[t].kind = "warm" /\ backend = "madlad" /\ Answer(t, call[t].built)
       \/ call[t].kind = "reload_warm" /\ backend = "madlad" /\ Look(t, "reword") /\ UNCHANGED claims
    /\ UNCHANGED <<backend, resident, lock, listing, loads, drops, starved>>

-----------------------------------------------------------------------------
\* CT2Backend iterates over its dictionary, MadladBackend looks at one attribute.
List(t) ==
    /\ pc[t] = "look"
    /\ listing' = [listing EXCEPT ![t] = IF backend = "ct2" THEN "same" ELSE "old"]
    /\ call' = [call EXCEPT ![t].listed = call[t].stage = "reword" /\ resident # {}]
    /\ Goto(t, "listing")
    /\ UNCHANGED <<backend, resident, lock, historyVars>>

\* A reload that dropped its engines answers, unless the caller asked it to warm one up.
AfterDrop(t) ==
    \/ call[t].kind = "reload" /\ Answer(t, FALSE)
    \/ call[t].kind = "reload_warm" /\ Goto(t, "enter") /\ UNCHANGED <<call, claims>>

\* /reload goes on to drop, or to what follows its drop and its warm-up (reloaded only if this
\* call did the work and an engine is there); /readyz and /warmup answer.
AfterLook(t) ==
    \/ call[t].stage = "discard" /\ Goto(t, "drop") /\ UNCHANGED <<call, claims>>
    \/ call[t].stage = "word" /\ AfterDrop(t)
    \/ call[t].stage = "reword" /\ Answer(t, call[t].built /\ call[t].listed)
    \/ /\ call[t].stage = "report" /\ call[t].kind = "reload_warm"
       /\ Look(t, "reword") /\ UNCHANGED claims
    \/ /\ call[t].stage = "report" /\ call[t].kind \in {"readyz", "warm"}
       /\ Answer(t, call[t].built)

\* A dictionary that changed size under the iteration makes it raise, and the call ends there.
EndListing(t) ==
    /\ pc[t] = "listing"
    /\ listing' = [listing EXCEPT ![t] = "none"]
    /\ \/ listing[t] = "grown" /\ Return(t) /\ UNCHANGED claims
       \/ listing[t] # "grown" /\ AfterLook(t)
    /\ UNCHANGED <<backend, resident, lock, loads, drops, starved>>

\* The attribute is replaced; iterations under way go on over the old dictionary.
Drop(t) ==
    /\ pc[t] = "drop"
    /\ drops' = drops + Cardinality(resident)
    /\ resident' = {}
    /\ listing' = [u \in Threads |-> IF listing[u] = "same" THEN "old" ELSE listing[u]]
    /\ Look(t, "word")
    /\ UNCHANGED <<backend, lock, loads, claims, starved>>

\* A backend that finds its libraries and its models on disk starts with no engine in memory;
\* without them the process does not start.
InitBackend == backend \in Backends /\ resident = {}

Init ==
    /\ InitBackend
    /\ lock = FALSE
    /\ pc = [t \in Threads |-> "idle"]
    /\ call = [t \in Threads |-> NoCall]
    /\ listing = [t \in Threads |-> "none"]
    /\ loads = 0 /\ drops = 0 /\ claims = 0 /\ starved = FALSE

\* The rest of a call, once asked.
Proceed(t) ==
    \/ Enter(t) \/ Test(t) \/ Lock(t) \/ Recheck(t) \/ Load(t) \/ LoadFails(t) \/ Fetch(t)
    \/ Use(t) \/ List(t) \/ EndListing(t) \/ Drop(t)

Next ==
    \E t \in Threads :
        \/ \E name \in Names :
              \/ Ask(t, "translate", name) \/ Ask(t, "warm", name)
              \/ AskReload(t, "reload_warm", name)
        \/ AskReload(t, "reload", Unnamed) \/ Readyz(t)
        \/ Proceed(t)

\* Threads are scheduled, and a load ends one way or the other.
Spec == Init /\ [][Next]_vars /\ \A t \in Threads : WF_vars(Proceed(t))

-----------------------------------------------------------------------------
\* Each component of the state holds what the code can put in it.
TypeOK ==
    /\ backend \in {"ct2", "madlad"}
    /\ resident \subseteq Pairs
    /\ lock \in BOOLEAN
    /\ pc \in [Threads -> {"idle", "enter", "test", "lock", "recheck", "load", "fetch",
                           "locked_fetch", "use", "look", "listing", "drop"}]
    /\ call \in [Threads -> [kind : {"none", "translate", "warm", "reload", "reload_warm", "readyz"},
                             pair : Pairs \cup {Unknown, Unnamed}, built : BOOLEAN,
                             stage : {"none", "discard", "word", "report", "reword"},
                             listed : BOOLEAN]]
    /\ listing \in [Threads -> {"none", "same", "grown", "old"}]
    /\ loads \in Nat /\ drops \in Nat /\ claims \in Nat
    /\ starved \in BOOLEAN

InLock == {t \in Threads : pc[t] \in {"recheck", "load", "locked_fetch"}}

(***************************************************************************)
(* One load at a time, and only into an empty place: however requests,     *)
(* warm-ups and reloads interleave, no engine is loaded over a resident    *)
(* one, so every engine loaded is resident or was dropped by a reload      *)
(* ("double-checked: one load per pair").                                  *)
(***************************************************************************)
LoadsFillHoles ==
    /\ Cardinality(InLock) = IF lock THEN 1 ELSE 0
    /\ \A t \in Threads : pc[t] = "load" => call[t].pair \notin resident
    /\ loads = drops + Cardinality(resident)

(***************************************************************************)
(* No load is claimed twice: of the callers that waited for one load, only *)
(* the one that paid for it says so (the flag is decided inside the lock). *)
(***************************************************************************)
ClaimsMatchLoads == claims + Cardinality({t \in Threads : call[t].built}) <= loads

(***************************************************************************)
(* The lock always comes back, a load that raises included.                *)
(***************************************************************************)
LockComesBack == lock ~> ~lock

(***************************************************************************)
(* Violated.  MadladBackend.reload says a reload cannot pull the engine    *)
(* out from under a request, it "only means the next one pays the load".   *)
(* The drop takes no lock: between the test that saw the engine and the    *)
(* read that fetches it, a reload leaves the request with no engine.       *)
(***************************************************************************)
ReloadOnlyCostsALoad == ~starved
=============================================================================

----------------------------- MODULE Downloads -----------------------------
(***************************************************************************)
(* The three fetch scripts over one model directory: an Argos package and  *)
(* a voice archive (downloaded beside the directory, unpacked into it), a  *)
(* single voice file (moved into it) and the MADLAD checkpoint (several    *)
(* files, downloaded in place).  Each run checks what is cached, downloads *)
(* what is not, unpacks, verifies and records; it can be killed between    *)
(* any two of these steps.  net_guard.fetch is one step here, with the     *)
(* outcomes Fetch shows it has: what an attempt leaves parked is where the *)
(* next one goes on, and nothing says it is of the same generation.        *)
(***************************************************************************)
EXTENDS Naturals, ModelOrigin

CONSTANTS
    Main,         \* the asset of a directory that holds only one
    Families,     \* families to check
    Junk,         \* bytes that are no generation of the asset
    Attempts,     \* attempts a script makes at one asset (4 in the scripts)
    MaxRuns,      \* bound: runs of a script
    MaxReleases,  \* bound: times upstream replaces an asset
    MaxTampers    \* bound: times somebody changes a file by hand

VARIABLES
    family,   \* whose directory this is
    pin,      \* EXPECTED_SHA256, or None for an asset without one
    served,   \* what upstream serves
    parked,   \* bytes an interrupted attempt left for the next one
    file,     \* the archive, or the leaves of the checkpoint
    tree,     \* the unpacked directory
    cut,      \* history: a kill left this tree half removed or half unpacked
    doc,      \* the origin record in it
    run,      \* the run in progress
    outcome,  \* history: how the last run ended
    budget    \* runs, releases and changes by hand so far

vars == <<family, pin, served, parked, file, tree, cut, doc, run, outcome, budget>>
constant == <<family, pin>>

Bytes == Gens \cup {Splice, Junk, None}
NoTree == [gen |-> None, whole |-> FALSE, laid |-> FALSE]
Whole(g) == [gen |-> g, whole |-> TRUE, laid |-> TRUE]
Leaves == IF family = "madlad" THEN Assets ELSE {Main}
Archived == family \in {"argos", "voice"}

Idle == [pc |-> "idle", todo |-> {}, asset |-> Main, force |-> FALSE, allow |-> FALSE,
         ask |-> FALSE, digest |-> None, said |-> Unasked, tries |-> 0,
         writing |-> NoDoc]
NoOutcome == [result |-> "none", forced |-> FALSE, answered |-> [a \in Assets |-> None]]

Goto(step) == run' = [run EXCEPT !.pc = step]

\* The run ends with an exit code, or with an exception nobody catches.
End(result) ==
    /\ run' = Idle
    /\ outcome' = [outcome EXCEPT !.result = result, !.forced = run.force]

-----------------------------------------------------------------------------
Start(force, allow) ==
    /\ run.pc = "idle" /\ budget.runs < MaxRuns
    /\ budget' = [budget EXCEPT !.runs = @ + 1]
    /\ run' = [Idle EXCEPT !.pc = "cached", !.todo = Leaves \ {Main}, !.force = force,
                           !.allow = allow]
    /\ outcome' = NoOutcome
    /\ UNCHANGED <<constant, served, parked, file, tree, cut, doc>>

\* Fault: a file that is there is taken for the right one.
Cached == pin[run.asset] # None /\ file[run.asset] # None

\* Does the copy on disk match its pin?
Verified == pin[run.asset] # None /\ file[run.asset] = pin[run.asset]
Present == file[run.asset] # None

Download(ask) ==
    run' = [run EXCEPT !.pc = "ask", !.ask = ask, !.tries = 0, !.said = Silent]
KeepCached(digest) ==
    run' = [run EXCEPT !.pc = IF family = "madlad" THEN "record" ELSE "place",
                       !.digest = digest, !.said = Unasked]
NextLeaf ==
    IF run.todo = {}
    THEN run' = [run EXCEPT !.pc = "verify", !.digest = None]
    ELSE \E a \in run.todo :
           run' = [run EXCEPT !.pc = "cached", !.asset = a, !.todo = @ \ {a}, !.digest = None]

\* fetch_pair: a cached package counts only if it matches a pin.
CachedArgos ==
    /\ run.pc = "cached" /\ family = "argos"
    /\ IF run.force \/ ~Verified THEN Download(Present) ELSE KeepCached(pin[run.asset])
    /\ UNCHANGED <<constant, served, parked, file, tree, cut, doc, outcome, budget>>

\* fetch: a directory with the right layout is left alone; the archive is re-hashed if it
\* is still there, and then recorded.
CachedVoice ==
    /\ run.pc = "cached" /\ family \in {"voice", "voicefile"}
    /\ \/ /\ tree.laid /\ ~run.force
          /\ \/ /\ Present /\ pin[run.asset] # None
                /\ IF Verified
                   THEN run' = [run EXCEPT !.pc = "record", !.digest = pin[run.asset]]
                        /\ UNCHANGED outcome
                   ELSE End("failed")
             \/ /\ ~Present \/ pin[run.asset] = None
                /\ End("ok")
       \/ /\ ~tree.laid \/ run.force
          /\ IF run.force \/ ~Present \/ (pin[run.asset] # None /\ ~Verified)
             THEN Download(Present)
             ELSE KeepCached(pin[run.asset])
          /\ UNCHANGED outcome
    /\ UNCHANGED <<constant, served, parked, file, tree, cut, doc, budget>>

\* download: the conditional question is asked under --force only.
CachedMadlad ==
    /\ run.pc = "cached" /\ family = "madlad"
    /\ IF run.force \/ ~Present \/ (pin[run.asset] # None /\ ~Verified)
       THEN Download(run.force /\ Present)
       ELSE IF Verified THEN KeepCached(pin[run.asset]) ELSE NextLeaf
    /\ UNCHANGED <<constant, served, parked, file, tree, cut, doc, outcome, budget>>

-----------------------------------------------------------------------------
\* What the server is asked with: nothing, while an attempt goes on from parked bytes.
Question ==
    IF run.ask /\ parked[run.asset] = None THEN Conditional(doc, run.asset) ELSE NoEntry

\* What an attempt ends up with: what is served, or the rest of it behind what was parked.
Resumed == IF parked[run.asset] \in {None, served[run.asset]} THEN served[run.asset] ELSE Splice
Landable == {served[run.asset], Resumed}
Park(bytes) == parked' = [parked EXCEPT ![run.asset] = bytes]

GiveUp ==
    IF family = "madlad" THEN NextLeaf /\ UNCHANGED outcome ELSE End("failed")

Answered(g) == outcome' = [outcome EXCEPT !.answered[run.asset] = g]

Unpinned == run.pc = "ask" /\ pin[run.asset] = None /\ ~run.allow

\* A missing pin ends the attempts before any request; so does a checksum mismatch, which
\* throws away what was parked.
Refused ==
    /\ run.pc = "ask"
    /\ \/ Unpinned /\ UNCHANGED parked
       \/ (\E bytes \in Landable : pin[run.asset] \notin {None, bytes}) /\ Park(None)
    /\ GiveUp
    /\ UNCHANGED <<constant, served, file, tree, cut, doc, budget>>

\* Transport errors and short bodies are retried: what arrived is parked.  So is an answer that
\* cannot be appended, which is not.
AttemptFails ==
    /\ run.pc = "ask" /\ ~Unpinned
    /\ IF run.tries + 1 = Attempts
       THEN GiveUp
       ELSE run' = [run EXCEPT !.tries = @ + 1] /\ UNCHANGED outcome
    /\ \E bytes \in Landable \cup {parked[run.asset], None} : Park(bytes)
    /\ UNCHANGED <<constant, served, file, tree, cut, doc, budget>>

Downloaded(said) ==
    /\ run.pc = "ask" /\ ~Unpinned
    /\ said \in {Silent, served[run.asset]}
    /\ \E bytes \in Landable :
         /\ pin[run.asset] \in {None, bytes}
         /\ file' = [file EXCEPT ![run.asset] = bytes]
         /\ run' = [run EXCEPT !.pc = IF family = "madlad" THEN "record" ELSE "place",
                               !.digest = bytes, !.said = said]
    /\ Answered(served[run.asset]) /\ Park(None)
    /\ UNCHANGED <<constant, served, tree, cut, doc, budget>>

\* Fault: the 304 is believed about the local copy, too.
NotModifiedBelieved(said) ==
    /\ run.pc = "ask" /\ ~Unpinned
    /\ Question.etag = served[run.asset]
    /\ said \in {Silent, served[run.asset]}
    /\ Answered(served[run.asset])
    /\ run' = [run EXCEPT !.pc = IF family = "madlad" THEN "refresh" ELSE "place",
                          !.digest = Question.sha, !.said = said]
    /\ UNCHANGED <<constant, served, parked, file, tree, cut, doc, budget>>

\* 304: upstream's copy has not changed.  Ours is kept only if it still has the recorded
\* digest; if not, the rest of the attempts ask no condition.  Splice stands for any splice, so
\* that one may differ from the one on record.
NotModified(said) ==
    /\ run.pc = "ask" /\ ~Unpinned
    /\ Question.etag = served[run.asset]
    /\ said \in {Silent, served[run.asset]}
    /\ \/ /\ MatchesRecord(file[run.asset], Question)
          /\ Answered(served[run.asset])
          /\ run' = [run EXCEPT !.pc = IF family = "madlad" THEN "refresh" ELSE "place",
                                !.digest = Question.sha, !.said = said]
       \/ /\ ~MatchesRecord(file[run.asset], Question) \/ file[run.asset] = Splice
          /\ IF run.tries + 1 = Attempts
             THEN GiveUp
             ELSE run' = [run EXCEPT !.tries = @ + 1, !.ask = FALSE] /\ UNCHANGED outcome
    /\ UNCHANGED <<constant, served, parked, file, tree, cut, doc, budget>>

-----------------------------------------------------------------------------
\* --force clears the directory first: the tree, and the origin record that lives in it.
\* Halfway, files are missing that Verify may not ask for.
Clear ==
    /\ run.pc = "place" /\ Archived /\ run.force /\ tree # NoTree
    /\ \/ tree' = NoTree /\ cut' = FALSE /\ doc' = NoDoc
       \/ /\ \E laid \in {FALSE, tree.laid} :
               tree' = [tree EXCEPT !.whole = FALSE, !.laid = laid]
          /\ doc' \in {doc, NoDoc} /\ UNCHANGED cut
    /\ UNCHANGED <<constant, served, parked, file, run, outcome, budget>>

\* Extraction begins in an empty directory.
Unpack ==
    /\ run.pc = "place" /\ Archived /\ tree = NoTree
    /\ \E laid \in BOOLEAN :
         tree' = [gen |-> file[run.asset], whole |-> FALSE, laid |-> laid]
    /\ Goto("unpacking")
    /\ UNCHANGED <<constant, served, parked, file, cut, doc, outcome, budget>>

\* The voice script extracts over what a killed run left; a top-level directory is then
\* flattened only if nothing else is there.
UnpackOver ==
    /\ run.pc = "place" /\ family = "voice" /\ tree # NoTree /\ ~run.force
    /\ \/ /\ \E laid \in BOOLEAN :
               tree' = [gen |-> file[run.asset], whole |-> FALSE, laid |-> laid]
          /\ Goto("unpacking")
       \/ /\ tree' = [gen |-> file[run.asset], whole |-> FALSE, laid |-> FALSE]
          /\ Goto("verify")
    /\ UNCHANGED <<constant, served, parked, file, cut, doc, outcome, budget>>

\* The Argos script leaves a directory that exists as it is.
SkipUnpack ==
    /\ run.pc = "place" /\ family = "argos" /\ tree # NoTree /\ ~run.force
    /\ Goto("verify")
    /\ UNCHANGED <<constant, served, parked, file, tree, cut, doc, outcome, budget>>

Unpacked ==
    /\ run.pc = "unpacking"
    /\ tree' = Whole(tree.gen) /\ cut' = FALSE
    /\ Goto("verify")
    /\ UNCHANGED <<constant, served, parked, file, doc, outcome, budget>>

\* A component of a single file is moved into place.
Move ==
    /\ run.pc = "place" /\ family = "voicefile"
    /\ tree' = Whole(file[run.asset]) /\ cut' = FALSE
    /\ file' = [file EXCEPT ![run.asset] = None]
    /\ Goto("verify")
    /\ UNCHANGED <<constant, served, parked, doc, outcome, budget>>

\* Layout checks, and for the checkpoint the digest of every pinned leaf: its exit code
\* comes from these alone, not from the list of failed downloads.
Verify ==
    /\ run.pc = "verify"
    /\ IF family = "madlad"
       THEN End(IF \A a \in Assets : file[a] # None /\ pin[a] \in {None, file[a]}
                THEN "ok" ELSE "failed")
       ELSE IF ~tree.laid THEN End("failed")
       ELSE IF run.digest = None THEN End("ok")
       ELSE Goto("record") /\ UNCHANGED outcome
    /\ UNCHANGED <<constant, served, parked, file, tree, cut, doc, budget>>

\* The record is opened for writing, and holds nothing readable until it is closed.
OpenRecord ==
    /\ run.pc = "record"
    /\ IF Recordable(doc)
       THEN /\ run' = [run EXCEPT !.pc = "recording", !.writing =
                         Recorded(doc, run.asset, run.digest, run.said)]
            /\ doc' = TornDoc /\ UNCHANGED outcome
       ELSE End("aborted") /\ UNCHANGED doc
    /\ UNCHANGED <<constant, served, parked, file, tree, cut, budget>>

\* After a 304 the entry that was asked with is there: only then could it be asked.
OpenRefresh ==
    /\ run.pc = "refresh"
    /\ run' = [run EXCEPT !.pc = "recording", !.writing = Refreshed(doc, run.asset, run.said)]
    /\ doc' = TornDoc
    /\ UNCHANGED <<constant, served, parked, file, tree, cut, outcome, budget>>

CloseRecord ==
    /\ run.pc = "recording"
    /\ doc' = run.writing
    /\ IF family = "madlad" THEN NextLeaf /\ UNCHANGED outcome ELSE End("ok")
    /\ UNCHANGED <<constant, served, parked, file, tree, cut, budget>>

-----------------------------------------------------------------------------
\* A killed attempt keeps the parked bytes it has claimed to itself.
Kill ==
    /\ run.pc # "idle"
    /\ End("killed")
    /\ UNCHANGED parked \/ (run.pc = "ask" /\ Park(None))
    /\ cut' = (cut \/ (run.pc \in {"place", "unpacking"} /\ tree # NoTree /\ ~tree.whole))
    /\ UNCHANGED <<constant, served, file, tree, doc, budget>>

\* Upstream replaces an asset under the same name.
Release(a, g) ==
    /\ budget.releases < MaxReleases /\ g # served[a]
    /\ served' = [served EXCEPT ![a] = g]
    /\ budget' = [budget EXCEPT !.releases = @ + 1]
    /\ UNCHANGED <<constant, parked, file, tree, cut, doc, run, outcome>>

\* A file is restored, replaced or deleted by hand.
Tamper(a, bytes) ==
    /\ run.pc = "idle" /\ budget.tampers < MaxTampers
    /\ a \in Leaves /\ bytes # file[a]
    /\ file' = [file EXCEPT ![a] = bytes]
    /\ budget' = [budget EXCEPT !.tampers = @ + 1]
    /\ outcome' = NoOutcome
    /\ UNCHANGED <<constant, served, parked, tree, cut, doc, run>>

Init ==
    /\ family \in Families
    /\ served \in {[a \in Assets |-> g] : g \in Gens}
    /\ pin \in {[a \in Assets |-> g] : g \in Gens \cup {None}}
    /\ file = [a \in Assets |-> None] /\ parked = [a \in Assets |-> None]
    /\ tree = NoTree /\ cut = FALSE /\ doc = NoDoc
    /\ run = Idle /\ outcome = NoOutcome
    /\ budget = [runs |-> 0, releases |-> 0, tampers |-> 0]

Next ==
    \/ \E force, allow \in BOOLEAN : Start(force, allow)
    \/ CachedArgos \/ CachedVoice \/ CachedMadlad
    \/ Refused \/ AttemptFails
    \/ \E said \in Gens \cup {Silent} : Downloaded(said) \/ NotModified(said)
    \/ Clear \/ Unpack \/ UnpackOver \/ SkipUnpack \/ Unpacked \/ Move
    \/ Verify \/ OpenRecord \/ OpenRefresh \/ CloseRecord
    \/ Kill
    \/ \E a \in Assets, g \in Gens : Release(a, g)
    \/ \E a \in Assets, bytes \in Bytes \ {Splice} : Tamper(a, bytes)

Spec == Init /\ [][Next]_vars

-----------------------------------------------------------------------------
Steps == {"idle", "cached", "ask", "place", "unpacking", "verify", "record", "refresh",
          "recording"}
Runs == [pc : Steps, todo : SUBSET Assets, asset : Assets, force : BOOLEAN, allow : BOOLEAN,
         ask : BOOLEAN, digest : Gens \cup {Splice, None}, said : Statements, tries : 0..Attempts,
         writing : Docs]
Results == {"none", "ok", "failed", "aborted", "killed"}

\* Every variable keeps its type.
TypeOK ==
    /\ family \in Families
    /\ pin \in [Assets -> Gens \cup {None}] /\ served \in [Assets -> Gens]
    /\ file \in [Assets -> Bytes] /\ parked \in [Assets -> Gens \cup {Splice, None}]
    /\ tree \in [gen : Bytes, whole : BOOLEAN, laid : BOOLEAN] /\ cut \in BOOLEAN
    /\ doc \in Docs /\ run \in Runs
    /\ outcome \in [result : Results, forced : BOOLEAN, answered : [Assets -> Gens \cup {None}]]

Done == outcome.result = "ok"
Held(a) == IF family = "madlad" THEN file[a] ELSE tree.gen

\* No pin says what an unpinned download must be, and one that went on from another release's
\* bytes has landed a splice.
Spliced(a, digest) == pin[a] = None /\ digest = Splice

\* A --force run that reports success leaves in use the bytes the server answered for, a 304
\* included: it vouches for upstream's copy, never for a local one that was changed.  Only a
\* splice stays: its digest is on record, beside the etag of what was served when it landed.
ForcedIsCurrent ==
    Done /\ outcome.forced =>
        \A a \in Leaves : outcome.answered[a] # None =>
            Held(a) = outcome.answered[a] \/ Spliced(a, Held(a))

\* The etag kept in a record describes the bytes the record names, so that the question
\* asked with it is about them: always under a pin, and without one unless they are a splice.
ValidatorsDescribeDigest ==
    \A a \in Named(doc) : LET entry == doc.entries[a]
                         IN entry.etag \in {None, entry.sha} \/ Spliced(a, entry.sha)

\* A run that reports success leaves in use the pinned bytes of every pinned asset, whatever
\* was cached, replaced by hand, or left by a killed run; and they are all there, unless a kill
\* has cut a removal or an extraction short: the layout may pass Verify with the rest missing.
FinishedIsPinned ==
    Done => /\ \A a \in Leaves : pin[a] # None => Held(a) = pin[a]
            /\ family # "madlad" /\ ~cut => tree.whole

\* After a run that reports success without --force, the record of an Argos package or of
\* the checkpoint names the pinned digest of each of its assets, not only of the last one.
RecordNamesHeld ==
    Done /\ ~outcome.forced /\ family \in {"argos", "madlad"} =>
        \A a \in Leaves : pin[a] # None => doc.entries[a].sha = pin[a]
=============================================================================

--------------------------- MODULE OfflineBundle ---------------------------
(***************************************************************************)
(* offline_bundle.py and pack_installer.py: one model directory is packed  *)
(* into an archive with a manifest, the archive is carried to another      *)
(* machine, and installed there, alone or inside a deliverable with the    *)
(* application.  A file is as good as the generation it belongs to, and a  *)
(* digest is named after it.  The directory packed may be changing, a      *)
(* medium may rot, and an operator may kill any command.                   *)
(***************************************************************************)
EXTENDS Naturals

CONSTANTS
    Files,      \* files of the unit, the origin record among them
    Origin,     \* its wonslate-origin.json
    Gens,       \* generations of the unit
    Junk,       \* bytes of no generation: rotten, or a record that does not parse
    None,       \* no file
    MaxPacks,   \* bound: bundles made
    MaxInstalls,\* bound: installations
    MaxChanges  \* bound: changes to either directory, and rotten bytes

VARIABLES
    src,       \* the directory that is packed
    bundle,    \* the archive and its manifest
    dest,      \* the directory installed into
    part,      \* the staging names in it
    receipt,   \* what wonslate-install.json says was installed
    pack,      \* the pack command in progress
    inst,      \* the install command in progress
    deliver,   \* the deliverable
    ended,     \* history: how the last install ended, and what it found when it began
    used       \* packs, installs and changes so far

vars == <<src, bundle, dest, part, receipt, pack, inst, deliver, ended, used>>

Bytes == Gens \cup {Junk}
Trees == [Files -> Bytes \cup {None}]
Empty == [f \in Files |-> None]

\* An archive: without a manifest it is no bundle.
Archives == [made : BOOLEAN, closed : BOOLEAN, members : Trees, manifest : Trees]
NoArchive == [made |-> FALSE, closed |-> FALSE, members |-> Empty, manifest |-> Empty]

IdlePack == [busy |-> FALSE, todo |-> {}, at |-> None, seen |-> Empty]
IdleInst == [pc |-> "idle", force |-> FALSE, todo |-> {}, at |-> None, declared |-> Empty]
NoDeliverable == [state |-> "none", shipped |-> FALSE, models |-> NoArchive, rotten |-> FALSE,
                  verdict |-> "none"]
NoEnd == [result |-> "none", force |-> FALSE, found |-> Empty]

-----------------------------------------------------------------------------
\* verify: an archive without a manifest, or whose origin record does not parse, is corrupt;
\* members that are not what the manifest says are problems.
Verify(archive) ==
    IF ~archive.closed \/ archive.members[Origin] = Junk THEN "corrupt"
    ELSE IF archive.members # archive.manifest THEN "problems" ELSE "clean"

\* Only a directory with an origin record is a unit; the archive must not exist yet.
PackBegin ==
    /\ ~pack.busy /\ ~bundle.made /\ used.packs < MaxPacks
    /\ src[Origin] # None
    /\ bundle' = [NoArchive EXCEPT !.made = TRUE]
    /\ pack' = [IdlePack EXCEPT !.busy = TRUE, !.todo = {f \in Files : src[f] # None}]
    /\ used' = [used EXCEPT !.packs = @ + 1]
    /\ UNCHANGED <<src, dest, part, receipt, inst, deliver, ended>>

\* Each file is read for its digest, ...
PackDigest(f) ==
    /\ pack.busy /\ pack.at = None /\ f \in pack.todo
    /\ pack' = IF src[f] = None THEN IdlePack
               ELSE [pack EXCEPT !.at = f, !.todo = @ \ {f}, !.seen[f] = src[f]]
    /\ UNCHANGED <<src, bundle, dest, part, receipt, inst, deliver, ended, used>>

\* ... and once more for the archive; it may have changed, or gone, in between.
PackWrite ==
    /\ pack.busy /\ pack.at # None
    /\ IF src[pack.at] = None
       THEN pack' = IdlePack /\ UNCHANGED bundle
       ELSE /\ bundle' = [bundle EXCEPT !.members[pack.at] = src[pack.at]]
            /\ pack' = [pack EXCEPT !.at = None]
    /\ UNCHANGED <<src, dest, part, receipt, inst, deliver, ended, used>>

PackClose ==
    /\ pack.busy /\ pack.at = None /\ pack.todo = {}
    /\ bundle' = [bundle EXCEPT !.closed = TRUE, !.manifest = pack.seen]
    /\ pack' = IdlePack
    /\ UNCHANGED <<src, dest, part, receipt, inst, deliver, ended, used>>

PackKilled ==
    /\ pack.busy
    /\ pack' = IdlePack
    /\ UNCHANGED <<src, bundle, dest, part, receipt, inst, deliver, ended, used>>

-----------------------------------------------------------------------------
EndInst(result) ==
    /\ inst' = IdleInst
    /\ ended' = [ended EXCEPT !.result = result]

\* install: everything is verified first.
Begin(force) ==
    /\ inst.pc = "idle" /\ bundle.made /\ ~pack.busy /\ used.installs < MaxInstalls
    /\ used' = [used EXCEPT !.installs = @ + 1]
    /\ IF Verify(bundle) = "clean"
       THEN /\ inst' = [IdleInst EXCEPT !.pc = "check", !.force = force, !.declared = bundle.manifest]
            /\ ended' = [NoEnd EXCEPT !.force = force, !.found = dest]
       ELSE /\ inst' = IdleInst
            /\ ended' = [result |-> "corrupt", force |-> force, found |-> dest]
    /\ UNCHANGED <<src, bundle, dest, part, receipt, pack, deliver>>

Promised == {f \in Files : inst.declared[f] # None}
Conflicts == {f \in Promised : dest[f] \notin {None, inst.declared[f]}}

\* Fault: conflicts are left to the landing of each file.
CheckLater ==
    /\ inst.pc = "check"
    /\ inst' = [inst EXCEPT !.pc = "land", !.todo = Promised] /\ UNCHANGED ended
    /\ UNCHANGED <<src, bundle, dest, part, receipt, pack, deliver, used>>

\* Every destination is checked before any is written; only a conflict can be forced.
Check ==
    /\ inst.pc = "check"
    /\ IF Conflicts # {} /\ ~inst.force
       THEN EndInst("conflict")
       ELSE inst' = [inst EXCEPT !.pc = "land", !.todo = Promised] /\ UNCHANGED ended
    /\ UNCHANGED <<src, bundle, dest, part, receipt, pack, deliver, used>>

\* Fault: a file that is there is taken for the right one.
KeepWhatIsThere(f) ==
    /\ inst.pc = "land" /\ f \in inst.todo /\ dest[f] # None
    /\ inst' = [inst EXCEPT !.todo = @ \ {f}]
    /\ UNCHANGED <<src, bundle, dest, part, receipt, pack, deliver, ended, used>>

\* A file that is exactly right already is not written.
Keep(f) ==
    /\ inst.pc = "land" /\ f \in inst.todo /\ dest[f] = inst.declared[f]
    /\ inst' = [inst EXCEPT !.todo = @ \ {f}]
    /\ UNCHANGED <<src, bundle, dest, part, receipt, pack, deliver, ended, used>>

\* Any other is extracted under a temporary name, ...
Stage(f) ==
    /\ inst.pc = "land" /\ f \in inst.todo /\ dest[f] # inst.declared[f]
    /\ part' = [part EXCEPT ![f] = bundle.members[f]]
    /\ inst' = [inst EXCEPT !.pc = "staged", !.at = f]
    /\ UNCHANGED <<src, bundle, dest, receipt, pack, deliver, ended, used>>

\* ... and gets its own only if it is what the manifest promised.
Settle ==
    /\ inst.pc = "staged"
    /\ part' = [part EXCEPT ![inst.at] = None]
    /\ IF part[inst.at] = inst.declared[inst.at]
       THEN /\ dest' = [dest EXCEPT ![inst.at] = part[inst.at]]
            /\ inst' = [inst EXCEPT !.pc = "land", !.at = None, !.todo = @ \ {inst.at}]
            /\ UNCHANGED ended
       ELSE EndInst("broken") /\ UNCHANGED dest
    /\ UNCHANGED <<src, bundle, receipt, pack, deliver, used>>

Stamp ==
    /\ inst.pc = "land" /\ inst.todo = {}
    /\ receipt' = inst.declared
    /\ EndInst("ok")
    /\ UNCHANGED <<src, bundle, dest, part, pack, deliver, used>>

InstallKilled ==
    /\ inst.pc # "idle"
    /\ EndInst("killed")
    /\ \/ UNCHANGED part
       \/ inst.pc = "staged" /\ part' = [part EXCEPT ![inst.at] = Junk]
    /\ UNCHANGED <<src, bundle, dest, receipt, pack, deliver, used>>

-----------------------------------------------------------------------------
\* assemble: a bundle that does not verify is refused before anything is written; ...
Assemble(models) ==
    /\ deliver.state = "none" /\ (models => bundle.made /\ ~pack.busy /\ Verify(bundle) = "clean")
    /\ deliver' = [NoDeliverable EXCEPT !.state = "reading", !.shipped = models]
    /\ UNCHANGED <<src, bundle, dest, part, receipt, pack, inst, ended, used>>

\* ... and is then read again, with the digest the manifest will have.
Embed ==
    /\ deliver.state = "reading"
    /\ deliver' = [deliver EXCEPT !.state = "made",
                     !.models = IF deliver.shipped THEN bundle ELSE NoArchive]
    /\ UNCHANGED <<src, bundle, dest, part, receipt, pack, inst, ended, used>>

\* Fault: a member that hashes like the manifest is enough.
VerifyMembers ==
    /\ deliver.state = "made"
    /\ deliver' = [deliver EXCEPT !.verdict = IF deliver.rotten THEN "problems" ELSE "clean"]
    /\ UNCHANGED <<src, bundle, dest, part, receipt, pack, inst, ended, used>>

\* verify of the deliverable: its members, and the embedded bundle by its own verify.
VerifyDeliverable ==
    /\ deliver.state = "made"
    /\ deliver' = [deliver EXCEPT !.verdict =
                     IF deliver.shipped /\ Verify(deliver.models) # "clean" THEN "refused"
                     ELSE IF deliver.rotten THEN "problems" ELSE "clean"]
    /\ UNCHANGED <<src, bundle, dest, part, receipt, pack, inst, ended, used>>

\* The customer installs the bundle that came with the application.
Unwrap ==
    /\ deliver.state = "made" /\ deliver.shipped /\ deliver.verdict = "clean"
    /\ inst.pc = "idle" /\ ~pack.busy /\ bundle # deliver.models
    /\ bundle' = deliver.models
    /\ UNCHANGED <<src, dest, part, receipt, pack, inst, deliver, ended, used>>

-----------------------------------------------------------------------------
Change == used.changes < MaxChanges /\ used' = [used EXCEPT !.changes = @ + 1]

\* A fetch script replaces a file of the packed directory, or is in the middle of writing it.
ChangeSource(f, bytes) ==
    /\ Change /\ src[f] # bytes
    /\ src' = [src EXCEPT ![f] = bytes]
    /\ UNCHANGED <<bundle, dest, part, receipt, pack, inst, deliver, ended>>

\* A file of the destination is fetched, replaced or removed while nothing is installed.
ChangeDest(f, bytes) ==
    /\ Change /\ inst.pc = "idle" /\ dest[f] # bytes
    /\ dest' = [dest EXCEPT ![f] = bytes]
    /\ ended' = NoEnd
    /\ UNCHANGED <<src, bundle, part, receipt, pack, inst, deliver>>

\* Bytes of the archive, or of the deliverable around it, are lost.
RotBundle(f) ==
    /\ Change /\ bundle.members[f] \in Gens
    /\ bundle' = [bundle EXCEPT !.members[f] = Junk]
    /\ UNCHANGED <<src, dest, part, receipt, pack, inst, deliver, ended>>

RotDeliverable(f) ==
    /\ Change /\ deliver.state = "made" /\ ~deliver.rotten
    /\ deliver' = [deliver EXCEPT !.rotten = TRUE, !.verdict = "none",
         !.models = IF deliver.models.members[f] \in Gens
                    THEN [@ EXCEPT !.members[f] = Junk] ELSE @]
    /\ UNCHANGED <<src, bundle, dest, part, receipt, pack, inst, ended>>

\* The archive is thrown away, to be packed anew.
DropBundle ==
    /\ bundle.made /\ ~pack.busy /\ inst.pc = "idle" /\ deliver.state # "reading"
    /\ bundle' = NoArchive
    /\ UNCHANGED <<src, dest, part, receipt, pack, inst, deliver, ended, used>>

Init ==
    /\ src \in {[f \in Files |-> g] : g \in Gens}
    /\ bundle = NoArchive /\ dest = Empty /\ part = Empty /\ receipt = Empty
    /\ pack = IdlePack /\ inst = IdleInst /\ deliver = NoDeliverable /\ ended = NoEnd
    /\ used = [packs |-> 0, installs |-> 0, changes |-> 0]

Next ==
    \/ PackBegin \/ (\E f \in Files : PackDigest(f)) \/ PackWrite \/ PackClose \/ PackKilled
    \/ \E force \in BOOLEAN : Begin(force)
    \/ Check \/ (\E f \in Files : Keep(f) \/ Stage(f)) \/ Settle \/ Stamp \/ InstallKilled
    \/ \E models \in BOOLEAN : Assemble(models)
    \/ Embed \/ VerifyDeliverable \/ Unwrap \/ DropBundle
    \/ \E f \in Files : RotBundle(f) \/ RotDeliverable(f)
    \/ \E f \in Files, bytes \in Bytes \cup {None} : ChangeSource(f, bytes) \/ ChangeDest(f, bytes)

Spec == Init /\ [][Next]_vars

-----------------------------------------------------------------------------
\* Every variable keeps its type.
TypeOK ==
    /\ src \in Trees /\ dest \in Trees /\ part \in Trees /\ receipt \in Trees
    /\ bundle \in Archives /\ deliver.models \in Archives
    /\ pack.todo \subseteq Files /\ pack.at \in Files \cup {None} /\ pack.seen \in Trees
    /\ inst.todo \subseteq Files /\ inst.at \in Files \cup {None} /\ inst.declared \in Trees

\* An install that reports success leaves every file of the bundle as its manifest promised,
\* and so does the receipt say: whatever was there, whichever kill came before, and although
\* the archive may have rotted since it was verified.
InstalledMatches ==
    ended.result = "ok" => \A f \in Files : receipt[f] # None => dest[f] = receipt[f]

\* An install refused before it landed anything has touched nothing, and without --force no
\* file that was there is ever replaced, not even by a half-finished install.
RefusalTouchesNothing ==
    \A f \in Files :
        ended.found[f] # None /\ (~ended.force \/ ended.result \in {"corrupt", "conflict"})
            => dest[f] = ended.found[f]

\* A deliverable that verifies and says that models are shipped carries a bundle that can be
\* installed, also when the bundle changed between its check and its embedding.
ShippedIsUsable ==
    deliver.verdict = "clean" /\ deliver.shipped => Verify(deliver.models) = "clean"
=============================================================================

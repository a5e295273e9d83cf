---------------------------- MODULE BundleProofs ----------------------------
(***************************************************************************)
(* What the offline bundle keeps for any files and generations, any number *)
(* of bundles, installations, changes and rotten bytes: an install that    *)
(* reports success matches its manifest, a refused one touches nothing,    *)
(* and a deliverable that verifies carries a bundle that verifies.         *)
(***************************************************************************)
EXTENDS Scripts, TLAPS

-----------------------------------------------------------------------------
FileTrees == [Files -> Gens \cup {Junk, None}]
Archives == [made : BOOLEAN, closed : BOOLEAN, members : FileTrees, manifest : FileTrees]
Installs == [pc : {"idle", "check", "land", "staged"}, force : BOOLEAN, todo : SUBSET Files,
             at : Files \cup {None}, declared : FileTrees]
Results == {"none", "ok", "corrupt", "conflict", "broken", "killed"}
Ends == [result : Results, force : BOOLEAN, found : FileTrees]
Packs == [busy : BOOLEAN, todo : SUBSET Files, at : Files \cup {None}, seen : FileTrees]
Deliverables == [state : {"none", "reading", "made"}, shipped : BOOLEAN, models : Archives,
                 rotten : BOOLEAN, verdict : {"none", "clean", "problems", "refused"}]

Typed ==
    /\ src \in FileTrees /\ dest \in FileTrees /\ part \in FileTrees /\ receipt \in FileTrees
    /\ bundle \in Archives /\ pack \in Packs /\ inst \in Installs
    /\ deliver \in Deliverables /\ ended \in Ends

\* An install in progress has no result yet, and was asked for by the call it will end.
Installing == inst.pc # "idle" => ended.result = "none" /\ ended.force = inst.force

\* Nothing is written before every destination was looked at.
Unwritten == inst.pc = "check" \/ ended.result \in {"corrupt", "conflict"} => dest = ended.found

\* Only what the manifest promises is landed, and what is done is as promised.
Landing ==
    inst.pc \in {"land", "staged"} =>
        /\ \A f \in inst.todo : inst.declared[f] # None
        /\ \A f \in Files : inst.declared[f] # None /\ f \notin inst.todo => dest[f] = inst.declared[f]
        /\ inst.pc = "staged" => inst.at \in inst.todo

\* Without --force what was there either agrees with the manifest or is none of its business.
Spared ==
    /\ inst.pc \in {"land", "staged"} /\ ~inst.force =>
         \A f \in Files : ended.found[f] # None /\ inst.declared[f] # None
                            => ended.found[f] = inst.declared[f]
    /\ ~ended.force => \A f \in Files : ended.found[f] # None => dest[f] = ended.found[f]

\* A verdict is about the bundle that is in the deliverable now.
Judged ==
    /\ deliver.verdict # "none" => deliver.state = "made"
    /\ B!ShippedIsUsable

IInv == Typed /\ Installing /\ Unwritten /\ Landing /\ Spared /\ Judged /\ B!InstalledMatches

-----------------------------------------------------------------------------
LEMMA EmptyType == B!Empty \in FileTrees
BY DEF B!Empty, FileTrees

LEMMA IdleTypes ==
    /\ B!NoArchive \in Archives /\ B!IdlePack \in Packs /\ B!IdleInst \in Installs
    /\ B!NoDeliverable \in Deliverables /\ B!NoEnd \in Ends
BY EmptyType DEF B!NoArchive, B!IdlePack, B!IdleInst, B!NoDeliverable, B!NoEnd,
                 Archives, Packs, Installs, Deliverables, Ends, Results

LEMMA TypedInit == B!Init => Typed
BY EmptyType, IdleTypes DEF B!Init, Typed, FileTrees

LEMMA BundleInit == B!Init => IInv
<1> SUFFICES ASSUME B!Init PROVE IInv
  OBVIOUS
<1>1. Typed
  BY TypedInit
<1>2. inst = B!IdleInst /\ ended = B!NoEnd /\ deliver = B!NoDeliverable /\ dest = B!Empty
  BY DEF B!Init
<1>3. Installing /\ Unwritten /\ Landing /\ Judged /\ B!InstalledMatches
  BY <1>2 DEF Installing, Unwritten, Landing, Judged, B!InstalledMatches, B!ShippedIsUsable,
              B!IdleInst, B!NoEnd, B!NoDeliverable
<1>4. Spared
  BY <1>2 DEF Spared, B!IdleInst, B!NoEnd, B!Empty
<1> QED
  BY <1>1, <1>3, <1>4 DEF IInv

LEMMA MemberEdit ==
    ASSUME NEW a \in Archives, NEW f \in Files, NEW b \in Gens \cup {Junk, None}
    PROVE  [a EXCEPT !.members[f] = b] \in Archives
<1> DEFINE m == [a.members EXCEPT ![f] = b]
<1>1. [a EXCEPT !.members[f] = b] = [a EXCEPT !.members = m]
  BY DEF Archives
<1>2. m \in FileTrees
  BY DEF Archives, FileTrees
<1> HIDE DEF m
<1> QED
  BY <1>1, <1>2 DEF Archives

LEMMA TypedNext == Typed /\ Landing /\ B!Next => Typed'
<1> SUFFICES ASSUME Typed, Landing, B!Next PROVE Typed'
  OBVIOUS
<1>t. /\ src \in FileTrees /\ dest \in FileTrees /\ part \in FileTrees /\ receipt \in FileTrees
      /\ bundle \in Archives /\ pack \in Packs /\ inst \in Installs
      /\ deliver \in Deliverables /\ ended \in Ends
  BY DEF Typed
<1>1. ASSUME B!PackBegin PROVE Typed'
  <2>1. bundle' \in Archives
    BY <1>1, <1>t, IdleTypes DEF B!PackBegin, Archives
  <2>2. pack' \in Packs
    BY <1>1, <1>t, IdleTypes DEF B!PackBegin, Packs, FileTrees
  <2>u. UNCHANGED <<src, dest, part, receipt, inst, deliver, ended>>
    BY <1>1 DEF B!PackBegin
  <2> QED
    BY <1>t, <2>1, <2>2, <2>u DEF Typed
<1>2. ASSUME NEW f \in Files, B!PackDigest(f) PROVE Typed'
  <2>1. pack' \in Packs
    BY <1>2, <1>t, IdleTypes DEF B!PackDigest, Packs, FileTrees
  <2>u. UNCHANGED <<src, bundle, dest, part, receipt, inst, deliver, ended>>
    BY <1>2 DEF B!PackDigest
  <2> QED
    BY <1>t, <2>1, <2>u DEF Typed
<1>3. ASSUME B!PackWrite PROVE Typed'
  <2>1. bundle' \in Archives
    <3>1. pack.at \in Files /\ src[pack.at] \in Gens \cup {Junk, None}
      BY <1>3, <1>t DEF B!PackWrite, Packs, FileTrees
    <3> QED
      BY <1>3, <1>t, <3>1, MemberEdit DEF B!PackWrite
  <2>2. pack' \in Packs
    BY <1>3, <1>t, IdleTypes DEF B!PackWrite, Packs, FileTrees
  <2>u. UNCHANGED <<src, dest, part, receipt, inst, deliver, ended>>
    BY <1>3 DEF B!PackWrite
  <2> QED
    BY <1>t, <2>1, <2>2, <2>u DEF Typed
<1>4. ASSUME B!PackClose PROVE Typed'
  <2>1. bundle' \in Archives
    BY <1>4, <1>t, IdleTypes DEF B!PackClose, Archives, Packs
  <2>2. pack' \in Packs
    BY <1>4, <1>t, IdleTypes DEF B!PackClose, Packs, FileTrees
  <2>u. UNCHANGED <<src, dest, part, receipt, inst, deliver, ended>>
    BY <1>4 DEF B!PackClose
  <2> QED
    BY <1>t, <2>1, <2>2, <2>u DEF Typed
<1>5. ASSUME B!PackKilled PROVE Typed'
  <2>1. pack' \in Packs
    BY <1>5, <1>t, IdleTypes DEF B!PackKilled, Packs, FileTrees
  <2>u. UNCHANGED <<src, bundle, dest, part, receipt, inst, deliver, ended>>
    BY <1>5 DEF B!PackKilled
  <2> QED
    BY <1>t, <2>1, <2>u DEF Typed
<1>6. ASSUME NEW force \in BOOLEAN, B!Begin(force) PROVE Typed'
  <2>1. inst' \in Installs
    <3>1. [B!IdleInst EXCEPT !.pc = "check", !.force = force, !.declared = bundle.manifest] \in Installs
      BY <1>t, IdleTypes DEF Installs, Archives
    <3> QED
      BY <1>6, <3>1, IdleTypes DEF B!Begin
  <2>2. ended' \in Ends
    <3>1. [B!NoEnd EXCEPT !.force = force, !.found = dest] \in Ends
      BY <1>t, IdleTypes DEF Ends
    <3>2. [result |-> "corrupt", force |-> force, found |-> dest] \in Ends
      BY <1>t DEF Ends, Results
    <3> QED
      BY <1>6, <3>1, <3>2 DEF B!Begin
  <2>u. UNCHANGED <<src, bundle, dest, part, receipt, pack, deliver>>
    BY <1>6 DEF B!Begin
  <2> QED
    BY <1>t, <2>1, <2>2, <2>u DEF Typed
<1>7. ASSUME B!Check PROVE Typed'
  <2>1. inst' \in Installs
    <3>1. B!Promised \subseteq Files
      BY DEF B!Promised
    <3>2. [inst EXCEPT !.pc = "land", !.todo = B!Promised] \in Installs
      BY <1>t, <3>1 DEF Installs
    <3> QED
      BY <1>7, <3>2, IdleTypes DEF B!Check, B!EndInst
  <2>2. ended' \in Ends
    BY <1>7, <1>t, IdleTypes DEF B!Check, Ends, Results, B!Promised, B!EndInst
  <2>u. UNCHANGED <<src, bundle, dest, part, receipt, pack, deliver>>
    BY <1>7 DEF B!Check
  <2> QED
    BY <1>t, <2>1, <2>2, <2>u DEF Typed
<1>8. ASSUME NEW f \in Files, B!Keep(f) PROVE Typed'
  <2>1. inst' \in Installs
    BY <1>8, <1>t, IdleTypes DEF B!Keep, Installs, FileTrees
  <2>u. UNCHANGED <<src, bundle, dest, part, receipt, pack, deliver, ended>>
    BY <1>8 DEF B!Keep
  <2> QED
    BY <1>t, <2>1, <2>u DEF Typed
<1>9. ASSUME NEW f \in Files, B!Stage(f) PROVE Typed'
  <2>1. part' \in FileTrees
    BY <1>9, <1>t, IdleTypes DEF B!Stage, FileTrees, Archives
  <2>2. inst' \in Installs
    BY <1>9, <1>t, IdleTypes DEF B!Stage, Installs, FileTrees, Archives
  <2>u. UNCHANGED <<src, bundle, dest, receipt, pack, deliver, ended>>
    BY <1>9 DEF B!Stage
  <2> QED
    BY <1>t, <2>1, <2>2, <2>u DEF Typed
<1>10. ASSUME B!Settle PROVE Typed'
  <2>1. part' \in FileTrees
    BY <1>10, <1>t, IdleTypes DEF B!Settle, FileTrees, B!EndInst, Installs
  <2>2. dest' \in FileTrees
    BY <1>10, <1>t DEF B!Settle, FileTrees, Installs
  <2>3. inst' \in Installs
    <3>1. [inst EXCEPT !.pc = "land", !.at = None, !.todo = @ \ {inst.at}] \in Installs
      BY <1>t DEF Installs
    <3> QED
      BY <1>10, <3>1, IdleTypes DEF B!Settle, B!EndInst
  <2>4. ended' \in Ends
    BY <1>10, <1>t, IdleTypes DEF B!Settle, Ends, Results, B!EndInst, Installs
  <2>u. UNCHANGED <<src, bundle, receipt, pack, deliver>>
    BY <1>10 DEF B!Settle
  <2> QED
    BY <1>t, <2>1, <2>2, <2>3, <2>4, <2>u DEF Typed
<1>11. ASSUME B!Stamp PROVE Typed'
  <2>1. receipt' \in FileTrees
    BY <1>11, <1>t, IdleTypes DEF B!Stamp, FileTrees, B!EndInst, Installs
  <2>2. inst' \in Installs
    BY <1>11, <1>t, IdleTypes DEF B!Stamp, Installs, FileTrees, B!EndInst
  <2>3. ended' \in Ends
    BY <1>11, <1>t, IdleTypes DEF B!Stamp, Ends, Results, B!EndInst, Installs
  <2>u. UNCHANGED <<src, bundle, dest, part, pack, deliver>>
    BY <1>11 DEF B!Stamp
  <2> QED
    BY <1>t, <2>1, <2>2, <2>3, <2>u DEF Typed
<1>12. ASSUME B!InstallKilled PROVE Typed'
  <2>1. part' \in FileTrees
    BY <1>12, <1>t, IdleTypes DEF B!InstallKilled, FileTrees, B!EndInst, Installs
  <2>2. inst' \in Installs
    BY <1>12, <1>t, IdleTypes DEF B!InstallKilled, Installs, FileTrees, B!EndInst
  <2>3. ended' \in Ends
    BY <1>12, <1>t, IdleTypes DEF B!InstallKilled, Ends, Results, B!EndInst, Installs
  <2>u. UNCHANGED <<src, bundle, dest, receipt, pack, deliver>>
    BY <1>12 DEF B!InstallKilled
  <2> QED
    BY <1>t, <2>1, <2>2, <2>3, <2>u DEF Typed
<1>13. ASSUME NEW models \in BOOLEAN, B!Assemble(models) PROVE Typed'
  <2>1. deliver' \in Deliverables
    BY <1>13, <1>t, IdleTypes DEF B!Assemble, Deliverables, Archives, FileTrees
  <2>u. UNCHANGED <<src, bundle, dest, part, receipt, pack, inst, ended>>
    BY <1>13 DEF B!Assemble
  <2> QED
    BY <1>t, <2>1, <2>u DEF Typed
<1>14. ASSUME B!Embed PROVE Typed'
  <2>1. deliver' \in Deliverables
    BY <1>14, <1>t, IdleTypes DEF B!Embed, Deliverables, Archives, FileTrees
  <2>u. UNCHANGED <<src, bundle, dest, part, receipt, pack, inst, ended>>
    BY <1>14 DEF B!Embed
  <2> QED
    BY <1>t, <2>1, <2>u DEF Typed
<1>15. ASSUME B!VerifyDeliverable PROVE Typed'
  <2>1. deliver' \in Deliverables
    BY <1>15, <1>t, IdleTypes DEF B!VerifyDeliverable, Deliverables, Archives, FileTrees
  <2>u. UNCHANGED <<src, bundle, dest, part, receipt, pack, inst, ended>>
    BY <1>15 DEF B!VerifyDeliverable
  <2> QED
    BY <1>t, <2>1, <2>u DEF Typed
<1>16. ASSUME B!Unwrap PROVE Typed'
  <2>1. bundle' \in Archives
    BY <1>16, <1>t, IdleTypes DEF B!Unwrap, Archives, Deliverables
  <2>u. UNCHANGED <<src, dest, part, receipt, pack, inst, deliver, ended>>
    BY <1>16 DEF B!Unwrap
  <2> QED
    BY <1>t, <2>1, <2>u DEF Typed
<1>17. ASSUME B!DropBundle PROVE Typed'
  <2>1. bundle' \in Archives
    BY <1>17, <1>t, IdleTypes DEF B!DropBundle, Archives
  <2>u. UNCHANGED <<src, dest, part, receipt, pack, inst, deliver, ended>>
    BY <1>17 DEF B!DropBundle
  <2> QED
    BY <1>t, <2>1, <2>u DEF Typed
<1>18. ASSUME NEW f \in Files, B!RotBundle(f) PROVE Typed'
  <2>1. bundle' \in Archives
    BY <1>18, <1>t, MemberEdit DEF B!RotBundle
  <2>u. UNCHANGED <<src, dest, part, receipt, pack, inst, deliver, ended>>
    BY <1>18 DEF B!RotBundle
  <2> QED
    BY <1>t, <2>1, <2>u DEF Typed
<1>19. ASSUME NEW f \in Files, B!RotDeliverable(f) PROVE Typed'
  <2>1. deliver' \in Deliverables
    BY <1>19, <1>t, IdleTypes DEF B!RotDeliverable, Deliverables, Archives, FileTrees
  <2>u. UNCHANGED <<src, bundle, dest, part, receipt, pack, inst, ended>>
    BY <1>19 DEF B!RotDeliverable
  <2> QED
    BY <1>t, <2>1, <2>u DEF Typed
<1>20. ASSUME NEW f \in Files, NEW bytes \in Gens \cup {Junk, None}, B!ChangeSource(f, bytes) PROVE Typed'
  <2>1. src' \in FileTrees
    BY <1>20, <1>t, IdleTypes DEF B!ChangeSource, FileTrees
  <2>u. UNCHANGED <<bundle, dest, part, receipt, pack, inst, deliver, ended>>
    BY <1>20 DEF B!ChangeSource
  <2> QED
    BY <1>t, <2>1, <2>u DEF Typed
<1>21. ASSUME NEW f \in Files, NEW bytes \in Gens \cup {Junk, None}, B!ChangeDest(f, bytes) PROVE Typed'
  <2>1. dest' \in FileTrees
    BY <1>21, <1>t, IdleTypes DEF B!ChangeDest, FileTrees
  <2>2. ended' \in Ends
    BY <1>21, <1>t, IdleTypes DEF B!ChangeDest, Ends, Results
  <2>u. UNCHANGED <<src, bundle, part, receipt, pack, inst, deliver>>
    BY <1>21 DEF B!ChangeDest
  <2> QED
    BY <1>t, <2>1, <2>2, <2>u DEF Typed
<1> QED
  BY <1>1, <1>2, <1>3, <1>4, <1>5, <1>6, <1>7, <1>8, <1>9, <1>10, <1>11, <1>12, <1>13, <1>14, <1>15, <1>16, <1>17, <1>18, <1>19, <1>20, <1>21 DEF B!Next, B!Bytes

-----------------------------------------------------------------------------
LEMMA BundleNext == IInv /\ B!Next => IInv'
<1> SUFFICES ASSUME IInv, B!Next PROVE IInv'
  OBVIOUS
<1>t. /\ Typed /\ Installing /\ Unwritten /\ Landing /\ Spared /\ Judged /\ B!InstalledMatches
      /\ inst \in Installs /\ ended \in Ends /\ deliver \in Deliverables
      /\ dest \in FileTrees /\ receipt \in FileTrees /\ part \in FileTrees
  BY DEF IInv, Typed
<1>s. Typed'
  BY <1>t, TypedNext
<1> DEFINE Install == Installing' /\ Unwritten' /\ Landing' /\ Spared' /\ B!InstalledMatches'
<1>1. ASSUME UNCHANGED <<dest, receipt, inst, ended>> PROVE Install
  BY <1>1, <1>t DEF Installing, Unwritten, Landing, Spared, B!InstalledMatches
<1>2. ASSUME NEW force \in BOOLEAN, B!Begin(force) PROVE Install
  <2>1. UNCHANGED <<dest, receipt>> /\ inst.pc = "idle"
    BY <1>2 DEF B!Begin
  <2>2. CASE B!Verify(bundle) = "clean"
    <3>1. /\ inst'.pc = "check" /\ inst'.force = force /\ ended'.result = "none"
          /\ ended'.force = force /\ ended'.found = dest
      BY <1>2, <2>2 DEF B!Begin, B!IdleInst, B!NoEnd
    <3> QED
      BY <2>1, <3>1 DEF Installing, Unwritten, Landing, Spared, B!InstalledMatches
  <2>3. CASE B!Verify(bundle) # "clean"
    <3>1. inst'.pc = "idle" /\ ended' = [result |-> "corrupt", force |-> force, found |-> dest]
      BY <1>2, <2>3 DEF B!Begin, B!IdleInst
    <3> QED
      BY <2>1, <3>1 DEF Installing, Unwritten, Landing, Spared, B!InstalledMatches
  <2> QED
    BY <2>2, <2>3
<1>3. ASSUME B!Check PROVE Install
  <2>1. UNCHANGED <<dest, receipt>> /\ inst.pc = "check"
    BY <1>3 DEF B!Check
  <2>2. dest = ended.found /\ ended.result = "none" /\ ended.force = inst.force
    BY <1>t, <2>1 DEF Installing, Unwritten
  <2>3. CASE B!Conflicts # {} /\ ~inst.force
    <3>1. /\ inst'.pc = "idle" /\ ended'.result = "conflict" /\ ended'.force = ended.force
          /\ ended'.found = ended.found
      BY <1>3, <1>t, <2>3 DEF B!Check, B!EndInst, B!IdleInst, Ends
    <3> QED
      BY <1>t, <2>1, <2>2, <3>1 DEF Installing, Unwritten, Landing, Spared, B!InstalledMatches
  <2>4. CASE ~(B!Conflicts # {} /\ ~inst.force)
    <3>1. /\ inst'.pc = "land" /\ inst'.todo = B!Promised /\ UNCHANGED ended
          /\ inst'.force = inst.force /\ inst'.declared = inst.declared
      BY <1>3, <1>t, <2>4 DEF B!Check, Installs
    <3>2. \A f \in Files : f \in B!Promised <=> inst.declared[f] # None
      BY DEF B!Promised
    <3>3. ~inst.force => \A f \in B!Promised : dest[f] \in {None, inst.declared[f]}
      BY <2>4 DEF B!Conflicts
    <3> QED
      BY <1>t, <2>1, <2>2, <3>1, <3>2, <3>3
         DEF Installing, Unwritten, Landing, Spared, B!InstalledMatches, B!Promised
  <2> QED
    BY <2>3, <2>4
<1>4. ASSUME NEW f \in Files, B!Keep(f) PROVE Install
  <2>1. /\ UNCHANGED <<dest, receipt, ended>> /\ inst.pc = "land" /\ dest[f] = inst.declared[f]
        /\ inst'.pc = "land" /\ inst'.todo = inst.todo \ {f}
        /\ inst'.force = inst.force /\ inst'.declared = inst.declared
    BY <1>4, <1>t DEF B!Keep, Installs
  <2> QED
    BY <1>t, <2>1 DEF Installing, Unwritten, Landing, Spared, B!InstalledMatches
<1>5. ASSUME NEW f \in Files, B!Stage(f) PROVE Install
  <2>1. /\ UNCHANGED <<dest, receipt, ended>> /\ inst.pc = "land" /\ f \in inst.todo
        /\ inst'.pc = "staged" /\ inst'.todo = inst.todo /\ inst'.at = f
        /\ inst'.force = inst.force /\ inst'.declared = inst.declared
    BY <1>5, <1>t DEF B!Stage, Installs
  <2> QED
    BY <1>t, <2>1 DEF Installing, Unwritten, Landing, Spared, B!InstalledMatches
<1>6. ASSUME B!Settle PROVE Install
  <2> DEFINE f == inst.at
  <2>1. UNCHANGED receipt /\ inst.pc = "staged" /\ f \in inst.todo /\ f \in Files
    BY <1>6, <1>t DEF B!Settle, Landing, Installs
  <2>2. CASE part[f] = inst.declared[f]
    <3>1. /\ UNCHANGED ended /\ dest' = [dest EXCEPT ![f] = inst.declared[f]]
          /\ inst'.pc = "land" /\ inst'.todo = inst.todo \ {f}
          /\ inst'.force = inst.force /\ inst'.declared = inst.declared
      BY <1>6, <1>t, <2>2 DEF B!Settle, Installs
    <3>2. \A g \in Files : dest'[g] = IF g = f THEN inst.declared[f] ELSE dest[g]
      BY <1>t, <2>1, <3>1 DEF FileTrees
    <3>3. inst.declared[f] # None
      BY <1>t, <2>1 DEF Landing
    <3> HIDE DEF f
    <3>4. Installing' /\ Unwritten' /\ B!InstalledMatches'
      BY <1>t, <2>1, <3>1 DEF Installing, Unwritten, B!InstalledMatches
    <3>5. Landing'
      BY <1>t, <2>1, <3>1, <3>2 DEF Landing
    <3>6. Spared'
      BY <1>t, <2>1, <3>1, <3>2, <3>3 DEF Spared, Installing
    <3> QED
      BY <3>4, <3>5, <3>6
  <2>3. CASE part[f] # inst.declared[f]
    <3>1. /\ UNCHANGED dest /\ inst'.pc = "idle" /\ ended'.result = "broken"
          /\ ended'.force = ended.force /\ ended'.found = ended.found
      BY <1>6, <1>t, <2>3 DEF B!Settle, B!EndInst, B!IdleInst, Ends
    <3> QED
      BY <1>t, <2>1, <3>1 DEF Installing, Unwritten, Landing, Spared, B!InstalledMatches
  <2> QED
    BY <2>2, <2>3
<1>7. ASSUME B!Stamp PROVE Install
  <2>1. /\ UNCHANGED dest /\ inst.pc = "land" /\ inst.todo = {} /\ receipt' = inst.declared
        /\ inst'.pc = "idle" /\ ended'.result = "ok"
        /\ ended'.force = ended.force /\ ended'.found = ended.found
    BY <1>7, <1>t DEF B!Stamp, B!EndInst, B!IdleInst, Ends
  <2> QED
    BY <1>t, <2>1 DEF Installing, Unwritten, Landing, Spared, B!InstalledMatches
<1>8. ASSUME B!InstallKilled PROVE Install
  <2>1. /\ UNCHANGED <<dest, receipt>> /\ inst'.pc = "idle" /\ ended'.result = "killed"
        /\ ended'.force = ended.force /\ ended'.found = ended.found
    BY <1>8, <1>t DEF B!InstallKilled, B!EndInst, B!IdleInst, Ends
  <2> QED
    BY <1>t, <2>1 DEF Installing, Unwritten, Landing, Spared, B!InstalledMatches
<1>9. ASSUME NEW f \in Files, NEW bytes \in Gens \cup {Junk, None}, B!ChangeDest(f, bytes)
      PROVE  Install
  <2>1. UNCHANGED <<receipt, inst>> /\ inst.pc = "idle" /\ ended' = B!NoEnd
    BY <1>9 DEF B!ChangeDest
  <2>2. ended'.result = "none" /\ \A g \in Files : ended'.found[g] = None
    BY <2>1 DEF B!NoEnd, B!Empty
  <2> QED
    BY <1>t, <2>1, <2>2 DEF Installing, Unwritten, Landing, Spared, B!InstalledMatches
<1>10. Install
  BY <1>1, <1>2, <1>3, <1>4, <1>5, <1>6, <1>7, <1>8, <1>9
     DEF B!Next, B!Bytes, B!PackBegin, B!PackDigest, B!PackWrite, B!PackClose, B!PackKilled,
         B!Assemble, B!Embed, B!VerifyDeliverable, B!Unwrap, B!DropBundle, B!RotBundle,
         B!RotDeliverable, B!ChangeSource
<1>11. Judged'
  <2>1. CASE UNCHANGED deliver
    BY <1>t, <2>1 DEF Judged, B!ShippedIsUsable
  <2>2. ASSUME NEW models \in BOOLEAN, B!Assemble(models) PROVE Judged'
    <3>1. deliver'.verdict = "none"
      BY <2>2 DEF B!Assemble, B!NoDeliverable
    <3> QED
      BY <3>1 DEF Judged, B!ShippedIsUsable
  <2>3. CASE B!Embed
    <3>1. deliver'.verdict = "none"
      BY <1>t, <2>3 DEF B!Embed, Judged, Deliverables
    <3> QED
      BY <3>1 DEF Judged, B!ShippedIsUsable
  <2>4. CASE B!VerifyDeliverable
    <3>1. /\ deliver'.state = "made" /\ deliver'.shipped = deliver.shipped
          /\ deliver'.models = deliver.models
          /\ deliver'.verdict = "clean" /\ deliver.shipped => B!Verify(deliver.models) = "clean"
      BY <1>t, <2>4 DEF B!VerifyDeliverable, Deliverables
    <3>2. B!Verify(deliver.models)' = B!Verify(deliver.models)
      BY <3>1 DEF B!Verify
    <3> QED
      BY <3>1, <3>2 DEF Judged, B!ShippedIsUsable
  <2>5. ASSUME NEW f \in Files, B!RotDeliverable(f) PROVE Judged'
    <3>1. deliver'.verdict = "none"
      BY <1>t, <2>5 DEF B!RotDeliverable, Deliverables
    <3> QED
      BY <3>1 DEF Judged, B!ShippedIsUsable
  <2> QED
    BY <2>1, <2>2, <2>3, <2>4, <2>5
       DEF B!Next, B!PackBegin, B!PackDigest, B!PackWrite, B!PackClose, B!PackKilled, B!Begin,
           B!Check, B!Keep, B!Stage, B!Settle, B!Stamp, B!InstallKilled, B!Unwrap, B!DropBundle,
           B!RotBundle, B!ChangeSource, B!ChangeDest
<1> QED
  BY <1>s, <1>t, <1>10, <1>11 DEF IInv

-----------------------------------------------------------------------------
\* The other scripts leave the bundle alone.
LEMMA BundleTyped == IInv => B!TypeOK
<1>1. B!Trees = FileTrees /\ B!Archives = Archives
  BY DEF B!Trees, B!Bytes, B!Archives, FileTrees, Archives
<1> QED
  BY <1>1 DEF IInv, Typed, Packs, Installs, Deliverables, B!TypeOK

BundleInv == tool = "bundle" => IInv

LEMMA BundleInvInit == Init => BundleInv
BY BundleInit DEF Init, BundleInv

LEMMA BundleInvNext == BundleInv /\ [Next]_vars => BundleInv'
<1> SUFFICES ASSUME BundleInv, [Next]_vars PROVE BundleInv'
  OBVIOUS
<1>1. CASE tool = "bundle" /\ B!Next
  BY <1>1, BundleNext DEF BundleInv
<1>2. CASE UNCHANGED vars
  BY <1>2 DEF BundleInv, vars, bundling, IInv, Typed, Installing, Unwritten, Landing, Spared, Judged,
              B!ShippedIsUsable, B!InstalledMatches, B!Verify
<1>3. CASE tool # "bundle" /\ UNCHANGED tool
  BY <1>3 DEF BundleInv
<1> QED
  BY <1>1, <1>2, <1>3 DEF Next

\* An install that reports success leaves every file of the bundle as its manifest promised,
\* whatever was there, whichever kill came before and whatever rotted in between.
THEOREM InstallsAreExact == Spec => []InstalledMatches
<1>1. BundleInv => InstalledMatches
  BY DEF BundleInv, IInv, InstalledMatches
<1> QED
  BY <1>1, BundleInvInit, BundleInvNext, PTL DEF Spec

\* An install that is refused, or runs without --force, replaces no file that was there.
THEOREM RefusalsSpare == Spec => []RefusalTouchesNothing
<1>1. BundleInv => RefusalTouchesNothing
  BY DEF BundleInv, IInv, RefusalTouchesNothing, B!RefusalTouchesNothing, Unwritten, Spared
<1> QED
  BY <1>1, BundleInvInit, BundleInvNext, PTL DEF Spec

\* A deliverable that verifies and says it carries models carries a bundle that verifies.
THEOREM DeliverablesAreUsable == Spec => []ShippedIsUsable
<1>1. BundleInv => ShippedIsUsable
  BY DEF BundleInv, IInv, ShippedIsUsable, Judged
<1> QED
  BY <1>1, BundleInvInit, BundleInvNext, PTL DEF Spec
=============================================================================

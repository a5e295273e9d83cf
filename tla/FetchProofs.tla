---------------------------- MODULE FetchProofs ----------------------------
(***************************************************************************)
(* What Fetch keeps for any number of downloader processes, generations    *)
(* and sizes, hosts and releases: the types, the exactness of what lands,  *)
(* and that parked bytes have one resumer.                                 *)
(***************************************************************************)
EXTENDS Fetch, SequenceTheorems, TLAPS

-----------------------------------------------------------------------------
\* What a process may rely on where it stands.  The digest has seen, block for block, what the
\* working file holds: it starts with the resumed prefix and grows with the file.
Position(p) ==
    /\ pc[p] \in {"claim", "take", "unclaim"} => job[p].start = 0
    /\ pc[p] = "ask" /\ job[p].start > 0 => private[p] # NoFile
    /\ pc[p] = "read" => /\ job[p].serving \in Gens
                         /\ private[p] = hashed[p]

\* A download that resumed nothing has read blocks of one generation only.
Fresh(p) ==
    pc[p] = "read" /\ job[p].start = 0 =>
        /\ Len(hashed[p]) <= Size[job[p].serving]
        /\ \A i \in 1..Len(hashed[p]) : hashed[p][i] = job[p].serving

Positions == \A p \in Procs : Position(p) /\ Fresh(p)

\* A parking is a number that was never given before, and leaves partial with the bytes.
Parkings ==
    /\ parked <= parkings
    /\ \A p \in Procs : job[p].from <= parkings
    /\ \A p \in Procs : parked # 0 => job[p].from # parked

\* The destination is what the landing says.
Landed == PinnedLandsExact /\ UnpinnedLandsWhole

IInv == TypeOK /\ Positions /\ Parkings /\ OneResumer /\ Landed

-----------------------------------------------------------------------------
\* A file of either kind.
LEMMA BlocksAreFiles == \A s \in Blocks : s # NoFile /\ s \in File
BY FetchAssumption DEF Blocks, File

LEMMA EmptyIsBlocks == << >> \in Blocks /\ Len(<< >>) = 0
BY EmptySeq DEF Blocks

\* A whole generation is a file of its size.
LEMMA FullIsBlocks == \A g \in Gens : Full(g) \in Blocks /\ Len(Full(g)) = Size[g]
<1> TAKE g \in Gens
<1>1. Size[g] \in Nat
  BY FetchAssumption
<1> QED
  BY <1>1 DEF Full, Blocks

LEMMA NoJobType == NoJob \in Jobs /\ NoClaim \in Claims /\ NoLanding \in Landings
BY FetchAssumption DEF NoJob, Jobs, NoClaim, Claims, NoLanding, Landings

\* The types, one field of a job at a time.
LEMMA JobFields ==
    ASSUME NEW j \in Jobs
    PROVE  /\ \A h \in Hosts, g \in Gens \cup {NoPin}, s \in Gens \cup {NoFile} :
                 [NoJob EXCEPT !.host = h, !.pin = g, !.since = s] \in Jobs
           /\ \A n \in Nat : [NoJob EXCEPT !.host = j.host, !.pin = j.pin, !.start = n] \in Jobs
           /\ \A c \in Claims : [j EXCEPT !.seen = c] \in Jobs
           /\ \A n \in Nat : [j EXCEPT !.from = n] \in Jobs
           /\ \A n, m \in Nat : [j EXCEPT !.start = n, !.from = m, !.seen = NoClaim] \in Jobs
           /\ \A g \in Gens, t \in Nat \cup {Unstated} :
                 [j EXCEPT !.serving = g, !.total = t] \in Jobs
           /\ \A g \in Gens, t \in Nat \cup {Unstated} :
                 [j EXCEPT !.serving = g, !.start = 0, !.from = 0, !.total = t] \in Jobs
BY NoJobType DEF Jobs, NoJob

\* Leaving fetch, and leaving it with bytes to hand off or to throw away.
LEMMA LeaveType ==
    ASSUME TypeOK, NEW p \in Procs, Leave(p)
    PROVE  /\ job' \in [Procs -> Jobs] /\ hashed' \in [Procs -> Blocks] /\ pc' \in [Procs -> Places]
           /\ job'[p] = NoJob /\ pc'[p] = "idle"
           /\ \A q \in Procs \ {p} : job'[q] = job[q] /\ pc'[q] = pc[q] /\ hashed'[q] = hashed[q]
BY NoJobType DEF TypeOK, Leave, Goto, Places, Blocks

LEMMA FinishType ==
    ASSUME TypeOK, NEW p \in Procs, NEW resumable \in BOOLEAN, NEW written \in Nat,
           Finish(p, resumable, written)
    PROVE  /\ job' \in [Procs -> Jobs] /\ hashed' \in [Procs -> Blocks] /\ pc' \in [Procs -> Places]
           /\ pc'[p] = "discard" \/ (pc'[p] = "describe" /\ resumable /\ written > 0)
           /\ job'[p].from = 0
           /\ \A q \in Procs \ {p} : job'[q] = job[q] /\ pc'[q] = pc[q] /\ hashed'[q] = hashed[q]
<1> DEFINE next == IF resumable /\ written > 0
                   THEN [NoJob EXCEPT !.host = job[p].host, !.pin = job[p].pin, !.start = written]
                   ELSE NoJob
<1>1. job[p] \in Jobs
  BY DEF TypeOK
<1>2. next \in Jobs /\ next.from = 0
  <2>1. NoJob.from = 0 /\ [NoJob EXCEPT !.host = job[p].host, !.pin = job[p].pin,
                                         !.start = written].from = 0
    BY DEF NoJob
  <2> QED
    BY <1>1, <2>1, NoJobType, JobFields
<1>3. job' = [job EXCEPT ![p] = next]
  BY DEF Finish
<1> HIDE DEF next
<1>4. job' \in [Procs -> Jobs] /\ job'[p] = next /\ \A q \in Procs \ {p} : job'[q] = job[q]
  BY <1>2, <1>3 DEF TypeOK
<1>5. /\ hashed' \in [Procs -> Blocks] /\ pc' \in [Procs -> Places]
      /\ pc'[p] = "discard" \/ (pc'[p] = "describe" /\ resumable /\ written > 0)
      /\ \A q \in Procs \ {p} : pc'[q] = pc[q] /\ hashed'[q] = hashed[q]
  BY DEF TypeOK, Finish, Goto, Places, Blocks
<1> QED
  BY <1>2, <1>4, <1>5

-----------------------------------------------------------------------------
\* The bytes a process holds count as many as its digest has seen, or none.
LEMMA Lengths ==
    ASSUME TypeOK, NEW p \in Procs
    PROVE  /\ Len(hashed[p]) \in Nat /\ Length(private[p]) \in Nat /\ Usable(p) \in Nat
           /\ Usable(p) > 0 => private[p] # NoFile
           /\ job[p] \in Jobs /\ job[p].start \in Nat /\ Size[served] \in Nat
<1>1. job[p] \in Jobs /\ private[p] \in File /\ hashed[p] \in Blocks
  BY DEF TypeOK
<1>2. job[p].start \in Nat /\ job[p].seen.size \in Nat
  BY <1>1 DEF Jobs, Claims
<1>3. Len(hashed[p]) \in Nat /\ Length(private[p]) \in Nat
  BY <1>1 DEF File, Blocks, Length
<1>4. Usable(p) \in Nat /\ (Usable(p) > 0 => private[p] # NoFile)
  BY <1>2, <1>3 DEF Usable, Length
<1>5. Size[served] \in Nat
  BY FetchAssumption DEF TypeOK
<1> QED
  BY <1>1, <1>2, <1>3, <1>4, <1>5

\* The types through the claim ...
LEMMA ClaimType ==
    ASSUME TypeOK, NEW p \in Procs,
           \/ \E h \in Hosts, pin \in Pins, since \in Validators : Begin(p, h, pin, since)
           \/ FindPartial(p) \/ TakePartial(p) \/ Unclaim(p)
    PROVE  TypeOK'
<1>j. job[p] \in Jobs
  BY DEF TypeOK
<1>1. ASSUME NEW h \in Hosts, NEW pin \in Pins, NEW since \in Validators, Begin(p, h, pin, since)
      PROVE  TypeOK'
  <2>1. [NoJob EXCEPT !.host = h, !.pin = pin, !.since = since] \in Jobs
    BY <1>j, FetchAssumption, JobFields
  <2>2. job' \in [Procs -> Jobs]
    BY <1>1, <2>1 DEF Begin, TypeOK
  <2>3. private' \in [Procs -> File]
    <3>1. << >> \in File
      BY EmptyIsBlocks, BlocksAreFiles
    <3> QED
      BY <1>1, <3>1 DEF Begin, TypeOK
  <2>4. \A q \in Procs : pc'[q] \in {"read", "describe", "park"} => private'[q] # NoFile
    BY <1>1 DEF Begin, TypeOK, Goto
  <2>5. UNCHANGED <<served, disk, hashed, releases, history>>
    BY <1>1 DEF Begin
  <2>6. pc' \in [Procs -> Places] /\ attempts' \in Nat
    <3>1. Goto(p, "claim") /\ attempts' = attempts + 1
      BY <1>1 DEF Begin
    <3> QED
      BY <3>1 DEF TypeOK, Goto, Places
  <2> QED
    BY <2>2, <2>3, <2>4, <2>5, <2>6 DEF TypeOK, disk, history
<1>2. CASE FindPartial(p)
  <2>1. [job[p] EXCEPT !.seen = IF partial = NoFile THEN NoClaim ELSE claim] \in Jobs
    BY <1>j, NoJobType, JobFields DEF TypeOK
  <2>2. job' \in [Procs -> Jobs]
    BY <1>2, <2>1 DEF FindPartial, TypeOK
  <2> QED
    BY <1>2, <2>2 DEF FindPartial, TypeOK, Goto, Places, disk, history
<1>3. CASE TakePartial(p)
  <2>1. [job[p] EXCEPT !.from = parked] \in Jobs
    BY <1>j, JobFields DEF TypeOK
  <2>2. job' \in [Procs -> Jobs]
    BY <1>3, <2>1 DEF TakePartial, TypeOK
  <2>3. private' \in [Procs -> File] /\ partial' \in File
    BY <1>3 DEF TakePartial, TypeOK, File
  <2>4. \A q \in Procs : pc'[q] \in {"read", "describe", "park"} => private'[q] # NoFile
    BY <1>3 DEF TakePartial, TypeOK, Goto
  <2> QED
    BY <1>3, <2>2, <2>3, <2>4 DEF TakePartial, TypeOK, Goto, Places
<1>4. CASE Unclaim(p)
  <2>1. \A m \in Nat : [job[p] EXCEPT !.start = Usable(p), !.from = m, !.seen = NoClaim] \in Jobs
    BY <1>j, Lengths, JobFields
  <2>2. job[p].from \in Nat
    BY <1>j DEF Jobs
  <2>3. job' \in [Procs -> Jobs]
    BY <1>4, <2>1, <2>2 DEF Unclaim, TypeOK
  <2>4. private' \in [Procs -> File]
    BY <1>4 DEF Unclaim, TypeOK, File
  <2>5. \A q \in Procs : pc'[q] \in {"read", "describe", "park"} => private'[q] # NoFile
    BY <1>4 DEF Unclaim, TypeOK, Goto
  <2> QED
    BY <1>4, <2>3, <2>4, <2>5, NoJobType DEF Unclaim, TypeOK, Goto, Places, history
<1> QED
  BY <1>1, <1>2, <1>3, <1>4

\* ... through the answer and the stream ...
LEMMA StreamType ==
    ASSUME TypeOK, Positions, NEW p \in Procs,
           \/ Respond(p) \/ Read(p) \/ StreamDies(p) \/ Interrupt(p)
           \/ Truncated(p) \/ RefuseDigest(p) \/ LandFails(p)
    PROVE  TypeOK'
<1>j. job[p] \in Jobs /\ served \in Gens
  BY DEF TypeOK
<1>l. /\ Len(hashed[p]) \in Nat /\ job[p].start \in Nat /\ Size[served] \in Nat
  BY Lengths
<1>p. Position(p) /\ (pc[p] = "read" => private[p] # NoFile)
  BY DEF Positions, TypeOK
<1>a. ASSUME NEW resumable \in BOOLEAN, NEW written \in Nat, Finish(p, resumable, written),
             private'[p] \in File, private' = [private EXCEPT ![p] = private'[p]],
             resumable /\ written > 0 => private'[p] # NoFile,
             UNCHANGED <<served, disk, attempts, releases, history>>
      PROVE  TypeOK'
  <2>1. /\ job' \in [Procs -> Jobs] /\ hashed' \in [Procs -> Blocks] /\ pc' \in [Procs -> Places]
        /\ pc'[p] = "discard" \/ (pc'[p] = "describe" /\ resumable /\ written > 0)
        /\ \A q \in Procs \ {p} : pc'[q] = pc[q]
    BY <1>a, FinishType
  <2>2. private' \in [Procs -> File] /\ \A q \in Procs \ {p} : private'[q] = private[q]
    BY <1>a DEF TypeOK
  <2>3. \A q \in Procs : pc'[q] \in {"read", "describe", "park"} => private'[q] # NoFile
    BY <1>a, <2>1, <2>2 DEF TypeOK
  <2> QED
    BY <1>a, <2>1, <2>2, <2>3 DEF TypeOK, disk, history
<1>b. private = [private EXCEPT ![p] = private[p]] /\ private[p] \in File
  BY DEF TypeOK
<1>1. CASE NotModified(p)
  BY <1>1, <1>a, <1>b DEF NotModified
<1>2. CASE OpenFails(p)
  BY <1>2, <1>a, <1>b, <1>l, <1>p DEF OpenFails, Position
<1>3. CASE RefuseBareSlice(p)
  BY <1>3, <1>a, <1>b DEF RefuseBareSlice
<1>4. ASSUME NEW stated \in BOOLEAN, OpenSlice(p, stated) PROVE TypeOK'
  <2>1. private[p] # NoFile /\ private[p] \in Blocks
    BY <1>4, <1>p, <1>b, <1>l DEF OpenSlice, RangeFits, Position, File
  <2>2. [job[p] EXCEPT !.serving = served, !.total = IF stated THEN Size[served] ELSE Unstated] \in Jobs
    BY <1>j, <1>l, JobFields
  <2>3. job' \in [Procs -> Jobs]
    BY <1>4, <2>2 DEF OpenSlice, TypeOK
  <2> QED
    BY <1>4, <2>1, <2>3 DEF OpenSlice, TypeOK, Goto, Places, disk, history
<1>5. ASSUME NEW stated \in BOOLEAN, OpenWhole(p, stated) PROVE TypeOK'
  <2>1. << >> \in Blocks /\ << >> \in File /\ << >> # NoFile
    BY BlocksAreFiles, EmptyIsBlocks
  <2>2. [job[p] EXCEPT !.serving = served, !.start = 0, !.from = 0,
                       !.total = IF stated THEN Size[served] ELSE Unstated] \in Jobs
    BY <1>j, <1>l, JobFields
  <2>3. job' \in [Procs -> Jobs]
    BY <1>5, <2>2 DEF OpenWhole, TypeOK
  <2> QED
    BY <1>5, <2>1, <2>3 DEF OpenWhole, TypeOK, Goto, Places, disk, history
<1>6. CASE Read(p)
  <2>1. private[p] = hashed[p] /\ job[p].serving \in Gens
    BY <1>6, <1>p DEF Read, Position
  <2>2. hashed[p] \in Seq(Gens)
    BY DEF TypeOK, Blocks
  <2>3. Append(hashed[p], job[p].serving) \in Blocks
    BY <2>1, <2>2 DEF Blocks
  <2>4. Append(private[p], job[p].serving) \in File /\ Append(private[p], job[p].serving) # NoFile
    BY <2>1, <2>3, BlocksAreFiles
  <2> QED
    BY <1>6, <2>3, <2>4 DEF Read, TypeOK, disk, history
<1>7. CASE StreamDies(p)
  <2>1. private[p] \in Seq(Gens) /\ private[p] # NoFile
    BY <1>7, <1>p DEF StreamDies, Position, TypeOK, Blocks
  <2>2. CASE UNCHANGED private
    BY <1>7, <1>a, <1>b, <1>l, <2>1, <2>2 DEF StreamDies
  <2>3. CASE /\ Len(private[p]) > 0
             /\ private' = [private EXCEPT ![p] = SubSeq(@, 1, Len(@) - 1)]
    <3>1. SubSeq(private[p], 1, Len(private[p]) - 1) \in Blocks
      BY <2>1, <2>3 DEF Blocks
    <3>2. private'[p] = SubSeq(private[p], 1, Len(private[p]) - 1)
      BY <2>3 DEF TypeOK
    <3>3. private'[p] \in File /\ private'[p] # NoFile
      BY <3>1, <3>2, BlocksAreFiles
    <3>4. private' = [private EXCEPT ![p] = private'[p]]
      BY <2>3, <3>2
    <3> QED
      BY <1>7, <1>a, <1>l, <3>3, <3>4 DEF StreamDies
  <2> QED
    BY <1>7, <2>2, <2>3 DEF StreamDies
<1>8. CASE Interrupt(p)
  BY <1>8, <1>a, <1>b DEF Interrupt
<1>9. CASE Truncated(p)
  BY <1>9, <1>a, <1>b, <1>l, <1>p DEF Truncated
<1>10. CASE RefuseDigest(p)
  BY <1>10, <1>a, <1>b DEF RefuseDigest
<1>11. CASE LandFails(p)
  BY <1>11, <1>a, <1>b, <1>l, <1>p DEF LandFails
<1> QED
  BY <1>1, <1>2, <1>3, <1>4, <1>5, <1>6, <1>7, <1>8, <1>9, <1>10, <1>11 DEF Respond

\* ... and through the ways out.
LEMMA WayOutType ==
    ASSUME TypeOK, NEW p \in Procs,
           Land(p) \/ Describe(p) \/ Park(p) \/ Unparkable(p) \/ Discard(p) \/ Kill(p)
    PROVE  TypeOK'
<1>j. job[p] \in Jobs
  BY DEF TypeOK
<1>b. private[p] \in File /\ NoFile \in File
  BY DEF TypeOK, File
<1>a. ASSUME Leave(p), private' = [private EXCEPT ![p] = NoFile],
             dest' \in File, partial' \in File, claim' \in Claims, landing' \in Landings,
             parkings' \in Nat, parked' \in Nat, UNCHANGED <<served, attempts, releases>>
      PROVE  TypeOK'
  <2>1. /\ job' \in [Procs -> Jobs] /\ hashed' \in [Procs -> Blocks] /\ pc' \in [Procs -> Places]
        /\ pc'[p] = "idle" /\ \A q \in Procs \ {p} : pc'[q] = pc[q]
    BY <1>a, LeaveType
  <2>2. private' \in [Procs -> File] /\ \A q \in Procs \ {p} : private'[q] = private[q]
    BY <1>a, <1>b DEF TypeOK
  <2>3. \A q \in Procs : pc'[q] \in {"read", "describe", "park"} => private'[q] # NoFile
    BY <2>1, <2>2 DEF TypeOK
  <2> QED
    BY <1>a, <2>1, <2>2, <2>3 DEF TypeOK
<1>1. CASE Land(p)
  <2>1. [pin |-> job[p].pin, total |-> job[p].total, start |-> job[p].start] \in Landings
    BY <1>j DEF Jobs, Landings
  <2> QED
    BY <1>1, <1>a, <1>b, <2>1 DEF Land, TypeOK
<1>2. CASE Describe(p)
  <2>1. [host |-> job[p].host, pin |-> job[p].pin, size |-> job[p].start] \in Claims
    BY <1>j DEF Jobs, Claims
  <2> QED
    BY <1>2, <2>1 DEF Describe, TypeOK, Goto, Places, history
<1>3. CASE Park(p)
  BY <1>3, <1>a, <1>b DEF Park, TypeOK
<1>4. CASE Unparkable(p)
  BY <1>4 DEF Unparkable, TypeOK, Goto, Places, disk, history
<1>5. CASE Discard(p)
  BY <1>5, <1>a, NoJobType DEF Discard, TypeOK, history
<1>6. CASE Kill(p)
  BY <1>6, <1>a DEF Kill, TypeOK, disk, history
<1> QED
  BY <1>1, <1>2, <1>3, <1>4, <1>5, <1>6

-----------------------------------------------------------------------------
\* A process touches nobody else's working file, digest and job.
Same(q) == /\ pc'[q] = pc[q] /\ job'[q] = job[q]
           /\ private'[q] = private[q] /\ hashed'[q] = hashed[q]

LEMMA OthersStay ==
    ASSUME TypeOK, Positions, NEW p \in Procs, Step(p), NEW q \in Procs \ {p}
    PROVE  Same(q)
<1>a. ASSUME NEW resumable \in BOOLEAN, NEW written \in Nat, Finish(p, resumable, written)
      PROVE  pc'[q] = pc[q] /\ job'[q] = job[q] /\ hashed'[q] = hashed[q]
  BY <1>a, FinishType
<1>b. ASSUME Leave(p) PROVE pc'[q] = pc[q] /\ job'[q] = job[q] /\ hashed'[q] = hashed[q]
  BY <1>b, LeaveType
<1>l. Len(hashed[p]) \in Nat /\ job[p].start \in Nat
  BY Lengths
<1> USE DEF TypeOK, Same, Goto
<1>1. ASSUME NEW h \in Hosts, NEW pin \in Pins, NEW since \in Validators, Begin(p, h, pin, since)
      PROVE  Same(q)
  BY <1>1 DEF Begin
<1>2. CASE FindPartial(p)
  BY <1>2 DEF FindPartial
<1>3. CASE TakePartial(p)
  BY <1>3 DEF TakePartial
<1>4. CASE Unclaim(p)
  BY <1>4 DEF Unclaim
<1>5. CASE NotModified(p)
  BY <1>5, <1>a DEF NotModified
<1>6. CASE OpenFails(p)
  BY <1>6, <1>a, <1>l DEF OpenFails
<1>7. CASE RefuseBareSlice(p)
  BY <1>7, <1>a DEF RefuseBareSlice
<1>8. ASSUME NEW stated \in BOOLEAN, OpenSlice(p, stated) PROVE Same(q)
  BY <1>8 DEF OpenSlice
<1>9. ASSUME NEW stated \in BOOLEAN, OpenWhole(p, stated) PROVE Same(q)
  BY <1>9 DEF OpenWhole
<1>10. CASE Read(p)
  BY <1>10 DEF Read
<1>11. CASE StreamDies(p)
  BY <1>11, <1>a, <1>l DEF StreamDies
<1>12. CASE Interrupt(p)
  BY <1>12, <1>a DEF Interrupt
<1>13. CASE Truncated(p)
  BY <1>13, <1>a, <1>l DEF Truncated
<1>14. CASE RefuseDigest(p)
  BY <1>14, <1>a DEF RefuseDigest
<1>15. CASE Land(p)
  BY <1>15, <1>b DEF Land
<1>16. CASE LandFails(p)
  BY <1>16, <1>a, <1>l DEF LandFails
<1>17. CASE Describe(p)
  BY <1>17 DEF Describe
<1>18. CASE Park(p)
  BY <1>18, <1>b DEF Park
<1>19. CASE Unparkable(p)
  BY <1>19 DEF Unparkable
<1>20. CASE Discard(p)
  BY <1>20, <1>b DEF Discard
<1>21. CASE Kill(p)
  BY <1>21, <1>b DEF Kill
<1> HIDE DEF Same
<1> QED
  BY <1>1, <1>2, <1>3, <1>4, <1>5, <1>6, <1>7, <1>8, <1>9, <1>10, <1>11, <1>12, <1>13, <1>14,
     <1>15, <1>16, <1>17, <1>18, <1>19, <1>20, <1>21 DEF Step, Respond

\* The digest covers the file from the moment the connection answers.
LEMMA StepPosition ==
    ASSUME TypeOK, Positions, NEW p \in Procs, Step(p)
    PROVE  Position(p)' /\ Fresh(p)'
<1> DEFINE Good == Position(p)' /\ Fresh(p)'
<1> SUFFICES Good
  OBVIOUS
<1>0. Position(p) /\ Fresh(p)
  BY DEF Positions
<1>l. /\ Len(hashed[p]) \in Nat /\ job[p].start \in Nat /\ Size[served] \in Nat
      /\ Usable(p) \in Nat /\ (Usable(p) > 0 => private[p] # NoFile) /\ job[p] \in Jobs
  BY Lengths
<1>a. ASSUME NEW resumable \in BOOLEAN, NEW written \in Nat, Finish(p, resumable, written)
      PROVE  Good
  <2>1. pc'[p] \in {"discard", "describe"}
    BY <1>a, FinishType
  <2> QED
    BY <2>1 DEF Position, Fresh
<1>b. ASSUME Leave(p) PROVE Good
  <2>1. pc'[p] = "idle"
    BY <1>b, LeaveType
  <2> QED
    BY <2>1 DEF Position, Fresh
<1>1. ASSUME NEW h \in Hosts, NEW pin \in Pins, NEW since \in Validators, Begin(p, h, pin, since)
      PROVE  Good
  <2>1. pc'[p] = "claim" /\ job'[p].start = 0
    BY <1>1 DEF Begin, TypeOK, Goto, NoJob
  <2> QED
    BY <2>1 DEF Position, Fresh
<1>2. CASE FindPartial(p)
  <2>1. pc'[p] \in {"take", "unclaim"} /\ job'[p].start = job[p].start /\ job[p].start = 0
    BY <1>0, <1>2 DEF FindPartial, TypeOK, Goto, Position, Jobs
  <2> QED
    BY <2>1 DEF Position, Fresh
<1>3. CASE TakePartial(p)
  <2>1. pc'[p] \in {"ask", "unclaim"} /\ job'[p].start = job[p].start /\ job[p].start = 0
    BY <1>0, <1>3 DEF TakePartial, TypeOK, Goto, Position, Jobs
  <2> QED
    BY <2>1 DEF Position, Fresh
<1>4. CASE Unclaim(p)
  <2>1. pc'[p] = "ask" /\ job'[p].start = Usable(p)
    BY <1>4, <1>l DEF Unclaim, TypeOK, Goto, Jobs
  <2>2. Usable(p) > 0 => private'[p] = private[p]
    BY <1>4 DEF Unclaim, TypeOK
  <2> QED
    BY <2>1, <2>2, <1>l DEF Position, Fresh
<1>5. CASE NotModified(p)
  BY <1>5, <1>a DEF NotModified
<1>6. CASE OpenFails(p)
  BY <1>6, <1>a, <1>l DEF OpenFails
<1>7. CASE RefuseBareSlice(p)
  BY <1>7, <1>a DEF RefuseBareSlice
<1>8. ASSUME NEW stated \in BOOLEAN, OpenSlice(p, stated) PROVE Good
  <2>1. /\ pc'[p] = "read" /\ job'[p].serving = served /\ job'[p].start = job[p].start
        /\ job[p].start > 0 /\ hashed'[p] = private[p] /\ private'[p] = private[p]
    BY <1>8, <1>l DEF OpenSlice, TypeOK, Goto, RangeFits, Jobs
  <2> QED
    BY <2>1, <1>l DEF Position, Fresh, TypeOK
<1>9. ASSUME NEW stated \in BOOLEAN, OpenWhole(p, stated) PROVE Good
  <2>1. /\ pc'[p] = "read" /\ job'[p].serving = served
        /\ hashed'[p] = << >> /\ private'[p] = << >>
    BY <1>9, <1>l DEF OpenWhole, TypeOK, Goto, Jobs
  <2>2. Position(p)'
    BY <2>1 DEF Position, TypeOK
  <2>3. Fresh(p)'
    BY <2>1, <1>l, EmptyIsBlocks DEF Fresh
  <2> QED
    BY <2>2, <2>3
<1>10. CASE Read(p)
  <2> DEFINE g == job[p].serving
  <2>1. /\ pc[p] = "read" /\ pc'[p] = "read" /\ job'[p] = job[p]
        /\ hashed'[p] = Append(hashed[p], g) /\ private'[p] = Append(private[p], g)
        /\ Len(hashed[p]) < Size[g]
    BY <1>10 DEF Read, TypeOK
  <2>2. g \in Gens /\ private[p] = hashed[p]
    BY <2>1, <1>0 DEF Position
  <2>3. Position(p)'
    BY <2>1, <2>2 DEF Position
  <2>4. Fresh(p)'
    <3>1. hashed[p] \in Seq(Gens) /\ Size[g] \in Nat
      BY <2>2, FetchAssumption DEF TypeOK, Blocks
    <3>2. /\ Len(hashed'[p]) = Len(hashed[p]) + 1
          /\ \A i \in 1..Len(hashed[p]) : hashed'[p][i] = hashed[p][i]
          /\ hashed'[p][Len(hashed[p]) + 1] = g
      BY <2>1, <2>2, <3>1
    <3> QED
      BY <2>1, <3>1, <3>2, <1>0, <1>l DEF Fresh
  <2> QED
    BY <2>3, <2>4
<1>11. CASE StreamDies(p)
  BY <1>11, <1>a, <1>l DEF StreamDies
<1>12. CASE Interrupt(p)
  BY <1>12, <1>a DEF Interrupt
<1>13. CASE Truncated(p)
  BY <1>13, <1>a, <1>l DEF Truncated
<1>14. CASE RefuseDigest(p)
  BY <1>14, <1>a DEF RefuseDigest
<1>15. CASE Land(p)
  BY <1>15, <1>b DEF Land
<1>16. CASE LandFails(p)
  BY <1>16, <1>a, <1>l DEF LandFails
<1>17. CASE Describe(p)
  <2>1. pc'[p] = "park"
    BY <1>17 DEF Describe, TypeOK, Goto
  <2> QED
    BY <2>1 DEF Position, Fresh
<1>18. CASE Park(p)
  BY <1>18, <1>b DEF Park
<1>19. CASE Unparkable(p)
  <2>1. pc'[p] = "discard"
    BY <1>19 DEF Unparkable, TypeOK, Goto
  <2> QED
    BY <2>1 DEF Position, Fresh
<1>20. CASE Discard(p)
  BY <1>20, <1>b DEF Discard
<1>21. CASE Kill(p)
  BY <1>21, <1>b DEF Kill
<1> HIDE DEF Good
<1> QED
  BY <1>1, <1>2, <1>3, <1>4, <1>5, <1>6, <1>7, <1>8, <1>9, <1>10, <1>11, <1>12, <1>13, <1>14,
     <1>15, <1>16, <1>17, <1>18, <1>19, <1>20, <1>21 DEF Step, Respond

LEMMA PositionsKept ==
    ASSUME TypeOK, Positions, NEW p \in Procs, Step(p)
    PROVE  Positions'
<1> SUFFICES ASSUME NEW q \in Procs PROVE Position(q)' /\ Fresh(q)'
  BY DEF Positions
<1>1. CASE q = p
  BY <1>1, StepPosition
<1>2. CASE q # p
  <2>1. Same(q)
    BY <1>2, OthersStay
  <2> QED
    BY <2>1 DEF Positions, Position, Fresh, Same
<1> QED
  BY <1>1, <1>2

-----------------------------------------------------------------------------
\* Bytes are resumed, dropped or parked.
From(p) == job[p].from

Resumed(p) == From(p)' \in {0, From(p)} /\ parked' = parked /\ parkings' = parkings
Taken(p) == From(p)' = parked /\ parked' = 0 /\ parkings' = parkings
ParkedAnew(p) == From(p)' = 0 /\ parkings' = parkings + 1 /\ parked' = parkings + 1

LEMMA ParkingSteps ==
    ASSUME TypeOK, NEW p \in Procs, Step(p)
    PROVE  Resumed(p) \/ Taken(p) \/ ParkedAnew(p)
<1>l. Len(hashed[p]) \in Nat /\ job[p].start \in Nat /\ job[p] \in Jobs
  BY Lengths
<1>a. ASSUME NEW resumable \in BOOLEAN, NEW written \in Nat, Finish(p, resumable, written)
      PROVE  From(p)' = 0
  BY <1>a, FinishType DEF From
<1>b. ASSUME Leave(p) PROVE From(p)' = 0
  BY <1>b, LeaveType DEF From, NoJob
<1>1. ASSUME NEW h \in Hosts, NEW pin \in Pins, NEW since \in Validators, Begin(p, h, pin, since)
      PROVE  Resumed(p)
  BY <1>1 DEF Begin, Resumed, From, TypeOK, NoJob, history
<1>2. CASE FindPartial(p)
  BY <1>2, <1>l DEF FindPartial, Resumed, From, TypeOK, history, Jobs
<1>3. CASE TakePartial(p)
  BY <1>3, <1>l DEF TakePartial, Resumed, Taken, From, TypeOK, Jobs
<1>4. CASE Unclaim(p)
  BY <1>4, <1>l DEF Unclaim, Resumed, From, TypeOK, history, Jobs
<1>5. CASE NotModified(p)
  BY <1>5, <1>a DEF NotModified, Resumed, history
<1>6. CASE OpenFails(p)
  BY <1>6, <1>a, <1>l DEF OpenFails, Resumed, history
<1>7. CASE RefuseBareSlice(p)
  BY <1>7, <1>a DEF RefuseBareSlice, Resumed, history
<1>8. ASSUME NEW stated \in BOOLEAN, OpenSlice(p, stated) PROVE Resumed(p)
  BY <1>8, <1>l DEF OpenSlice, Resumed, From, TypeOK, history, Jobs
<1>9. ASSUME NEW stated \in BOOLEAN, OpenWhole(p, stated) PROVE Resumed(p)
  BY <1>9, <1>l DEF OpenWhole, Resumed, From, TypeOK, history, Jobs
<1>10. CASE Read(p)
  BY <1>10 DEF Read, Resumed, From, history
<1>11. CASE StreamDies(p)
  BY <1>11, <1>a, <1>l DEF StreamDies, Resumed, history
<1>12. CASE Interrupt(p)
  BY <1>12, <1>a DEF Interrupt, Resumed, history
<1>13. CASE Truncated(p)
  BY <1>13, <1>a, <1>l DEF Truncated, Resumed, history
<1>14. CASE RefuseDigest(p)
  BY <1>14, <1>a DEF RefuseDigest, Resumed, history
<1>15. CASE Land(p)
  BY <1>15, <1>b DEF Land, Resumed
<1>16. CASE LandFails(p)
  BY <1>16, <1>a, <1>l DEF LandFails, Resumed, history
<1>17. CASE Describe(p)
  BY <1>17 DEF Describe, Resumed, From, history
<1>18. CASE Park(p)
  BY <1>18, <1>b DEF Park, ParkedAnew
<1>19. CASE Unparkable(p)
  BY <1>19 DEF Unparkable, Resumed, From, history
<1>20. CASE Discard(p)
  BY <1>20, <1>b DEF Discard, Resumed, history
<1>21. CASE Kill(p)
  BY <1>21, <1>b DEF Kill, Resumed, history
<1> QED
  BY <1>1, <1>2, <1>3, <1>4, <1>5, <1>6, <1>7, <1>8, <1>9, <1>10, <1>11, <1>12, <1>13, <1>14,
     <1>15, <1>16, <1>17, <1>18, <1>19, <1>20, <1>21 DEF Step, Respond

\* The number of a parking is in partial or with one process, never with two.
LEMMA ParkingsKept ==
    ASSUME TypeOK, Positions, Parkings, OneResumer, NEW p \in Procs, Step(p)
    PROVE  Parkings' /\ OneResumer'
<1>1. \A q \in Procs \ {p} : From(q)' = From(q)
  BY OthersStay DEF Same, From
<1>2. \A q \in Procs : From(q) \in Nat
  BY DEF TypeOK, Jobs, From
<1>3. parked \in Nat /\ parkings \in Nat
  BY DEF TypeOK
<1>4. /\ parked <= parkings
      /\ \A q \in Procs : From(q) <= parkings /\ (parked # 0 => From(q) # parked)
      /\ \A q, r \in Procs : q # r /\ From(q) # 0 => From(r) # From(q)
  BY DEF Parkings, OneResumer, From
<1>5. /\ parked' <= parkings'
      /\ \A q \in Procs : From(q)' <= parkings' /\ (parked' # 0 => From(q)' # parked')
      /\ \A q, r \in Procs : q # r /\ From(q)' # 0 => From(r)' # From(q)'
  <2>1. CASE Resumed(p)
    BY <1>1, <1>2, <1>3, <1>4, <2>1 DEF Resumed
  <2>2. CASE Taken(p)
    BY <1>1, <1>2, <1>3, <1>4, <2>2 DEF Taken
  <2>3. CASE ParkedAnew(p)
    BY <1>1, <1>2, <1>3, <1>4, <2>3 DEF ParkedAnew
  <2> QED
    BY <2>1, <2>2, <2>3, ParkingSteps
<1> QED
  BY <1>5 DEF Parkings, OneResumer, From

-----------------------------------------------------------------------------
\* Blocks of one generation, no more than it has, are a beginning of it.
LEMMA OneGeneration ==
    ASSUME NEW g \in Gens, NEW s \in Blocks, Len(s) <= Size[g],
           \A i \in 1..Len(s) : s[i] = g
    PROVE  s = SubSeq(Full(g), 1, Len(s))
<1>1. Size[g] \in Nat /\ s \in Seq(Gens) /\ Len(s) \in Nat
  BY FetchAssumption DEF Blocks
<1>2. Full(g) \in Seq(Gens) /\ Len(Full(g)) = Size[g]
  BY FullIsBlocks DEF Blocks
<1>3. \A i \in 1..Size[g] : Full(g)[i] = g
  BY DEF Full
<1>4. /\ SubSeq(Full(g), 1, Len(s)) \in Seq(Gens)
      /\ Len(SubSeq(Full(g), 1, Len(s))) = Len(s)
      /\ \A i \in 1..Len(s) : SubSeq(Full(g), 1, Len(s))[i] = g
  BY <1>1, <1>2, <1>3
<1> HIDE DEF Full
<1> QED
  BY <1>1, <1>4, SeqEqual

\* Only Land changes the destination, and what it lands is what the digest has seen.
LEMMA LandedKept ==
    ASSUME TypeOK, Positions, Landed, NEW p \in Procs, Step(p)
    PROVE  Landed'
<1>1. CASE Land(p)
  <2> DEFINE s == hashed[p]
  <2>1. s \in Blocks /\ job[p] \in Jobs
    BY DEF TypeOK
  <2>2. dest' = s /\ job[p].serving \in Gens /\ Fresh(p)
    BY <1>1 DEF Land, Positions, Position
  <2>3. /\ landing'.pin = job[p].pin /\ landing'.total = job[p].total
        /\ landing'.start = job[p].start
    BY <1>1 DEF Land
  <2>4. PinnedLandsExact'
    BY <1>1, <2>2, <2>3 DEF Land, Mismatch, PinnedLandsExact
  <2>5. landing'.total # Unstated => Len(dest') = landing'.total
    BY <1>1, <2>2, <2>3 DEF Land, Short
  <2>6. landing'.start = 0 =>
          \E g \in Gens : Len(dest') <= Size[g] /\ dest' = SubSeq(Full(g), 1, Len(dest'))
    BY <1>1, <2>1, <2>2, <2>3, OneGeneration DEF Land, Fresh
  <2> QED
    BY <2>4, <2>5, <2>6 DEF Landed, UnpinnedLandsWhole
<1>2. CASE UNCHANGED <<dest, landing>>
  BY <1>2 DEF Landed, PinnedLandsExact, UnpinnedLandsWhole
<1>3. Land(p) \/ UNCHANGED <<dest, landing>>
  BY DEF Step, Respond, Begin, FindPartial, TakePartial, Unclaim, NotModified, OpenFails,
         RefuseBareSlice, OpenSlice, OpenWhole, Read, StreamDies, Interrupt, Truncated,
         RefuseDigest, LandFails, Describe, Park, Unparkable, Discard, Kill, disk, history
<1> QED
  BY <1>1, <1>2, <1>3

-----------------------------------------------------------------------------
LEMMA Initially == Init => IInv
<1> SUFFICES ASSUME Init PROVE IInv
  OBVIOUS
<1>1. TypeOK
  BY NoJobType, EmptyIsBlocks DEF Init, TypeOK, File, Places
<1>2. Positions
  BY DEF Init, Positions, Position, Fresh, NoJob
<1>3. Parkings /\ OneResumer
  BY DEF Init, Parkings, OneResumer, NoJob
<1>4. Landed
  BY DEF Init, Landed, PinnedLandsExact, UnpinnedLandsWhole
<1> QED
  BY <1>1, <1>2, <1>3, <1>4 DEF IInv

LEMMA Inductive == IInv /\ [Next]_vars => IInv'
<1> SUFFICES ASSUME IInv, [Next]_vars PROVE IInv'
  OBVIOUS
<1>0. TypeOK /\ Positions /\ Parkings /\ OneResumer /\ Landed
  BY DEF IInv
<1>1. ASSUME NEW p \in Procs, Step(p) PROVE IInv'
  <2>1. TypeOK'
    BY <1>0, <1>1, ClaimType, StreamType, WayOutType DEF Step
  <2> QED
    BY <1>0, <1>1, <2>1, PositionsKept, ParkingsKept, LandedKept DEF IInv
<1>2. ASSUME NEW g \in Gens, Release(g) PROVE IInv'
  <2> USE <1>0, <1>2 DEF Release, disk, history
  <2>1. TypeOK'
    BY DEF TypeOK
  <2>2. Positions' /\ Parkings' /\ OneResumer'
    BY DEF Positions, Position, Fresh, Parkings, OneResumer
  <2>3. Landed'
    BY DEF Landed, PinnedLandsExact, UnpinnedLandsWhole
  <2> QED
    BY <2>1, <2>2, <2>3 DEF IInv
<1>3. CASE UNCHANGED vars
  <2> USE <1>0, <1>3 DEF vars, disk, history
  <2>1. TypeOK'
    BY DEF TypeOK
  <2>2. Positions' /\ Parkings' /\ OneResumer'
    BY DEF Positions, Position, Fresh, Parkings, OneResumer
  <2>3. Landed'
    BY DEF Landed, PinnedLandsExact, UnpinnedLandsWhole
  <2> QED
    BY <2>1, <2>2, <2>3 DEF IInv
<1> QED
  BY <1>1, <1>2, <1>3 DEF Next

LEMMA Invariance == Spec => []IInv
BY Initially, Inductive, PTL DEF Spec

(***************************************************************************)
(* Every variable keeps its type, and a process that reads or parks has a  *)
(* working file.                                                           *)
(***************************************************************************)
THEOREM TypeCorrect == Spec => []TypeOK
<1>1. IInv => TypeOK
  BY DEF IInv
<1> QED
  BY <1>1, Invariance, PTL

(***************************************************************************)
(* What fetch puts in place under a pinned digest is the pinned file, for  *)
(* any number of processes that resume, race, die and hand off, and any    *)
(* releases in between.                                                    *)
(***************************************************************************)
THEOREM PinnedIsExact == Spec => []PinnedLandsExact
<1>1. IInv => PinnedLandsExact
  BY DEF IInv, Landed
<1> QED
  BY <1>1, Invariance, PTL

(***************************************************************************)
(* Without a pin, fetch puts in place as much as the server promised, and  *)
(* blocks of one generation if nothing was resumed.                        *)
(***************************************************************************)
THEOREM UnpinnedIsWhole == Spec => []UnpinnedLandsWhole
<1>1. IInv => UnpinnedLandsWhole
  BY DEF IInv, Landed
<1> QED
  BY <1>1, Invariance, PTL

(***************************************************************************)
(* The rename in fetch's claim gives parked bytes to one process at most.  *)
(***************************************************************************)
THEOREM ResumerIsAlone == Spec => []OneResumer
<1>1. IInv => OneResumer
  BY DEF IInv
<1> QED
  BY <1>1, Invariance, PTL
=============================================================================

------------------------------- MODULE Fetch -------------------------------
(***************************************************************************)
(* net_guard.fetch: how one model file comes over the network, with        *)
(* several downloader processes at work on one destination directory.  A   *)
(* file is the sequence of its blocks, and a block is named after the      *)
(* generation of the asset it belongs to, so a splice of two generations   *)
(* and a short file can be told from a whole one.  A step is one call that *)
(* touches the directory or the connection; an exists() directly followed  *)
(* by the unlink or the read it guards is one step.                        *)
(***************************************************************************)
EXTENDS Naturals, Sequences, FiniteSets

CONSTANTS
    Procs,        \* downloader processes
    Gens,         \* generations of the asset an upstream can serve
    Size,         \* the blocks of each generation
    Hosts,        \* hosts a URL can name
    Allowlisted,  \* the fixed public upstreams
    Declared,     \* the mirrors the operator named
    NonPublic,    \* hosts that resolve to an address that is not public
    Validators,   \* etags a caller may hold: generations, or NoFile
    Pins,         \* digests a script may expect: generations, or NoPin
    NoPin,        \* no digest expected (--allow-unpinned)
    NoFile,       \* there is no such file
    Unstated,     \* the server promised no length
    MaxAttempts,  \* bound: calls of fetch in a run
    MaxReleases   \* bound: times upstream replaces the asset

ASSUME FetchAssumption ==
    /\ Size \in [Gens -> Nat \ {0}]
    /\ Pins \subseteq Gens \cup {NoPin} /\ NoPin \notin Gens
    /\ Validators \subseteq Gens \cup {NoFile}
    /\ Allowlisted \subseteq Hosts /\ Declared \subseteq Hosts /\ NonPublic \subseteq Hosts
    /\ NoFile \notin Seq(Gens)
    /\ Unstated \notin Nat
    /\ MaxAttempts \in Nat /\ MaxReleases \in Nat

VARIABLES
    served,    \* the generation the upstreams serve
    dest,      \* the destination
    partial,   \* <name>.part
    claim,     \* <name>.part.meta
    private,   \* the working file of each process, <name>.part.<random>
    hashed,    \* the blocks each process has put into its digest
    pc,        \* where each process stands
    job,       \* what each process was asked for, and what its server answered
    attempts,  \* calls of fetch so far
    releases,  \* times upstream replaced the asset
    parkings,  \* history: times bytes were parked under the claimable name
    parked,    \* history: which parking the bytes in partial come from
    landing    \* history: what was known of the bytes that reached dest

disk == <<dest, partial, claim>>
history == <<parkings, parked, landing>>
vars == <<served, disk, private, hashed, pc, job, attempts, releases, history>>

Blocks == Seq(Gens)
Full(g) == [i \in 1..Size[g] |-> g]
Length(file) == IF file = NoFile THEN 0 ELSE Len(file)

\* Which of the two axes accepts a host; the stricter one is asked first.
ClassifyHost(h) ==
    IF h \in Allowlisted THEN "primary" ELSE IF h \in Declared THEN "mirror" ELSE "none"

\* Only a host of the fixed allowlist has to resolve to public addresses.
Reachable(h) == ClassifyHost(h) = "mirror" \/ (ClassifyHost(h) = "primary" /\ h \notin NonPublic)

NoClaim == [host |-> NoFile, pin |-> NoPin, size |-> 0]
NoJob == [host |-> NoFile, pin |-> NoPin, since |-> NoFile, start |-> 0, seen |-> NoClaim,
          from |-> 0, serving |-> NoFile, total |-> Unstated]
NoLanding == [pin |-> NoPin, total |-> Unstated, start |-> 0]

Goto(p, step) == pc' = [pc EXCEPT ![p] = step]

\* Leave fetch, by return or by exception.
Leave(p) == Goto(p, "idle") /\ job' = [job EXCEPT ![p] = NoJob]
              /\ hashed' = [hashed EXCEPT ![p] = << >>]

\* Fault: whatever was resumable is handed off, nothing at all included.
FinishEmpty(p, resumable, written) ==
    /\ Goto(p, IF resumable THEN "describe" ELSE "discard")
    /\ job' = [job EXCEPT ![p] =
           IF resumable THEN [NoJob EXCEPT !.host = job[p].host, !.pin = job[p].pin, !.start = written]
           ELSE NoJob]
    /\ hashed' = [hashed EXCEPT ![p] = << >>]

\* The finally clause: bytes worth keeping are handed off, all others are thrown away.
Finish(p, resumable, written) ==
    LET keep == resumable /\ written > 0 IN
    /\ Goto(p, IF keep THEN "describe" ELSE "discard")
    /\ job' = [job EXCEPT ![p] =
           IF keep THEN [NoJob EXCEPT !.host = job[p].host, !.pin = job[p].pin, !.start = written]
           ELSE NoJob]
    /\ hashed' = [hashed EXCEPT ![p] = << >>]

-----------------------------------------------------------------------------
\* A call of fetch: a refused host or a missing pin ends it before anything is written.
Begin(p, h, pin, since) ==
    /\ pc[p] = "idle" /\ attempts < MaxAttempts
    /\ Reachable(h)
    /\ attempts' = attempts + 1
    /\ private' = [private EXCEPT ![p] = << >>]
    /\ job' = [job EXCEPT ![p] = [NoJob EXCEPT !.host = h, !.pin = pin, !.since = since]]
    /\ Goto(p, "claim")
    /\ UNCHANGED <<served, disk, hashed, releases, history>>

\* Is there something to resume, and what does its claim say?
FindPartial(p) ==
    /\ pc[p] = "claim"
    /\ job' = [job EXCEPT ![p].seen = IF partial = NoFile THEN NoClaim ELSE claim]
    /\ Goto(p, IF partial = NoFile THEN "unclaim" ELSE "take")
    /\ UNCHANGED <<served, disk, private, hashed, attempts, releases, history>>

\* Fault: the bytes are copied, and stay for others to find.
CopyPartial(p) ==
    /\ pc[p] = "take"
    /\ IF partial = NoFile
       THEN Goto(p, "ask") /\ UNCHANGED <<partial, private, parked, job>>
       ELSE /\ Goto(p, "unclaim")
            /\ private' = [private EXCEPT ![p] = partial]
            /\ job' = [job EXCEPT ![p].from = parked]
            /\ UNCHANGED <<partial, parked>>
    /\ UNCHANGED <<served, dest, claim, hashed, attempts, releases, parkings, landing>>

\* The rename is the claim; the loser of a race finds nothing and starts from zero.
TakePartial(p) ==
    /\ pc[p] = "take"
    /\ IF partial = NoFile
       THEN Goto(p, "ask") /\ UNCHANGED <<partial, private, parked, job>>
       ELSE /\ Goto(p, "unclaim")
            /\ private' = [private EXCEPT ![p] = partial]
            /\ partial' = NoFile /\ parked' = 0
            /\ job' = [job EXCEPT ![p].from = parked]
    /\ UNCHANGED <<served, dest, claim, hashed, attempts, releases, parkings, landing>>

\* How many of the taken bytes may be resumed: all, if the claim read before the rename
\* names the same URL, the same pin and their size.
Usable(p) ==
    LET seen == job[p].seen IN
    IF seen.host = job[p].host /\ seen.pin = job[p].pin /\ seen.size = Length(private[p])
    THEN seen.size ELSE 0

\* The claim goes away with the bytes it described.  Bytes without any claim stay in the
\* working file, unused; bytes of a claim that does not fit are deleted.
Unclaim(p) ==
    /\ pc[p] = "unclaim"
    /\ claim' = NoClaim
    /\ job' = [job EXCEPT ![p].start = Usable(p),
                          ![p].from = IF Usable(p) = 0 THEN 0 ELSE @,
                          ![p].seen = NoClaim]
    /\ private' = [private EXCEPT ![p] =
                     IF Usable(p) > 0 \/ job[p].seen = NoClaim THEN @ ELSE NoFile]
    /\ Goto(p, "ask")
    /\ UNCHANGED <<served, dest, partial, hashed, attempts, releases, history>>

-----------------------------------------------------------------------------
Conditional(p) == job[p].since # NoFile /\ job[p].start = 0
RangeFits(p) == job[p].start > 0 /\ job[p].start < Size[served]

\* The server has nothing newer; the caller's file is left alone.
NotModified(p) ==
    /\ pc[p] = "ask" /\ Conditional(p) /\ job[p].since = served
    /\ Finish(p, FALSE, 0)
    /\ UNCHANGED <<served, disk, private, attempts, releases, history>>

\* No response: the network, an error status (a range past the end is one), a redirect to
\* a host the policy refuses.  The bytes resumed are still worth keeping.
OpenFails(p) ==
    /\ pc[p] = "ask"
    /\ Finish(p, TRUE, job[p].start)
    /\ UNCHANGED <<served, disk, private, attempts, releases, history>>

\* A slice that does not say what it is, for an asset no digest can vouch for.
RefuseBareSlice(p) ==
    /\ pc[p] = "ask" /\ RangeFits(p) /\ job[p].pin = NoPin
    /\ Finish(p, FALSE, 0)
    /\ UNCHANGED <<served, disk, private, attempts, releases, history>>

\* The rest of the file: append, with the resumed prefix in the digest.
OpenSlice(p, stated) ==
    /\ pc[p] = "ask" /\ RangeFits(p)
    /\ stated \/ job[p].pin # NoPin
    /\ hashed' = [hashed EXCEPT ![p] = private[p]]
    /\ job' = [job EXCEPT ![p].serving = served,
                          ![p].total = IF stated THEN Size[served] ELSE Unstated]
    /\ Goto(p, "read")
    /\ UNCHANGED <<served, disk, private, attempts, releases, history>>

\* The whole file, asked for or not: restart from zero.
OpenWhole(p, stated) ==
    /\ pc[p] = "ask"
    /\ hashed' = [hashed EXCEPT ![p] = << >>]
    /\ private' = [private EXCEPT ![p] = << >>]
    /\ job' = [job EXCEPT ![p].serving = served, ![p].start = 0, ![p].from = 0,
                          ![p].total = IF stated THEN Size[served] ELSE Unstated]
    /\ Goto(p, "read")
    /\ UNCHANGED <<served, disk, attempts, releases, history>>

\* One block, to the file and to the digest.
Read(p) ==
    /\ pc[p] = "read" /\ Len(hashed[p]) < Size[job[p].serving]
    /\ private' = [private EXCEPT ![p] = Append(@, job[p].serving)]
    /\ hashed' = [hashed EXCEPT ![p] = Append(@, job[p].serving)]
    /\ UNCHANGED <<served, disk, pc, job, attempts, releases, history>>

\* The connection dies, or the disk is full and the file lost what was not written out.
StreamDies(p) ==
    /\ pc[p] = "read"
    /\ Finish(p, TRUE, Len(hashed[p]))
    /\ \/ UNCHANGED private
       \/ /\ Len(private[p]) > 0
          /\ private' = [private EXCEPT ![p] = SubSeq(@, 1, Len(@) - 1)]
    /\ UNCHANGED <<served, disk, attempts, releases, history>>

\* Anything that is no URLError and no OSError ends the call too: an interrupt, a
\* malformed chunk.
Interrupt(p) ==
    /\ pc[p] \in {"ask", "read"}
    /\ Finish(p, FALSE, 0)
    /\ UNCHANGED <<served, disk, private, attempts, releases, history>>

-----------------------------------------------------------------------------
\* Fault: the length is left to the digest.
NeverShort(p) == FALSE

Short(p) == job[p].total # Unstated /\ Len(hashed[p]) # job[p].total
Mismatch(p) == job[p].pin # NoPin /\ hashed[p] # Full(job[p].pin)

\* The body ended early, and the server had said how long it was.
Truncated(p) ==
    /\ pc[p] = "read" /\ Short(p)
    /\ Finish(p, TRUE, Len(hashed[p]))
    /\ UNCHANGED <<served, disk, private, attempts, releases, history>>

RefuseDigest(p) ==
    /\ pc[p] = "read" /\ ~Short(p) /\ Mismatch(p)
    /\ Finish(p, FALSE, 0)
    /\ UNCHANGED <<served, disk, private, attempts, releases, history>>

\* Fault: a resumed file is taken at its length.
LandUnverified(p) ==
    /\ pc[p] = "read" /\ ~Short(p) /\ (job[p].start > 0 \/ ~Mismatch(p))
    /\ dest' = private[p]
    /\ landing' = [pin |-> job[p].pin, total |-> job[p].total, start |-> job[p].start]
    /\ private' = [private EXCEPT ![p] = NoFile]
    /\ Leave(p)
    /\ UNCHANGED <<served, partial, claim, attempts, releases, parkings, parked>>

\* Length and digest check out: the working file becomes the destination.
Land(p) ==
    /\ pc[p] = "read" /\ ~Short(p) /\ ~Mismatch(p)
    /\ dest' = private[p]
    /\ landing' = [pin |-> job[p].pin, total |-> job[p].total, start |-> job[p].start]
    /\ private' = [private EXCEPT ![p] = NoFile]
    /\ Leave(p)
    /\ UNCHANGED <<served, partial, claim, attempts, releases, parkings, parked>>

\* The destination is in use: the rename fails, and the whole file counts as a partial.
LandFails(p) ==
    /\ pc[p] = "read" /\ ~Short(p) /\ ~Mismatch(p)
    /\ Finish(p, TRUE, Len(hashed[p]))
    /\ UNCHANGED <<served, disk, private, attempts, releases, history>>

-----------------------------------------------------------------------------
\* The claim is written before the bytes get their name, ...
Describe(p) ==
    /\ pc[p] = "describe"
    /\ claim' = [host |-> job[p].host, pin |-> job[p].pin, size |-> job[p].start]
    /\ Goto(p, "park")
    /\ UNCHANGED <<served, dest, partial, private, hashed, job, attempts, releases, history>>

\* ... and both are dropped if either cannot be.
Unparkable(p) ==
    /\ pc[p] \in {"describe", "park"}
    /\ Goto(p, "discard")
    /\ UNCHANGED <<served, disk, private, hashed, job, attempts, releases, history>>

Park(p) ==
    /\ pc[p] = "park"
    /\ partial' = private[p]
    /\ private' = [private EXCEPT ![p] = NoFile]
    /\ parkings' = parkings + 1 /\ parked' = parkings + 1
    /\ Leave(p)
    /\ UNCHANGED <<served, dest, claim, attempts, releases, landing>>

Discard(p) ==
    /\ pc[p] = "discard"
    /\ private' = [private EXCEPT ![p] = NoFile]
    /\ claim' = NoClaim
    /\ Leave(p)
    /\ UNCHANGED <<served, dest, partial, attempts, releases, history>>

\* The process is killed: its working file stays, under a name nobody will look for.
Kill(p) ==
    /\ pc[p] # "idle"
    /\ private' = [private EXCEPT ![p] = NoFile]
    /\ Leave(p)
    /\ UNCHANGED <<served, disk, attempts, releases, history>>

\* Upstream replaces the asset under the same URL.
Release(g) ==
    /\ releases < MaxReleases /\ g # served
    /\ served' = g /\ releases' = releases + 1
    /\ UNCHANGED <<disk, private, hashed, pc, job, attempts, history>>

-----------------------------------------------------------------------------
Init ==
    /\ served \in Gens
    /\ dest = NoFile /\ partial = NoFile /\ claim = NoClaim
    /\ private = [p \in Procs |-> NoFile]
    /\ hashed = [p \in Procs |-> << >>]
    /\ pc = [p \in Procs |-> "idle"]
    /\ job = [p \in Procs |-> NoJob]
    /\ attempts = 0 /\ releases = 0
    /\ parkings = 0 /\ parked = 0 /\ landing = NoLanding

Respond(p) ==
    \/ NotModified(p) \/ OpenFails(p) \/ RefuseBareSlice(p)
    \/ \E stated \in BOOLEAN : OpenSlice(p, stated) \/ OpenWhole(p, stated)

Step(p) ==
    \/ \E h \in Hosts, pin \in Pins, since \in Validators : Begin(p, h, pin, since)
    \/ FindPartial(p) \/ TakePartial(p) \/ Unclaim(p)
    \/ Respond(p)
    \/ Read(p) \/ StreamDies(p) \/ Interrupt(p)
    \/ Truncated(p) \/ RefuseDigest(p) \/ Land(p) \/ LandFails(p)
    \/ Describe(p) \/ Park(p) \/ Unparkable(p) \/ Discard(p)
    \/ Kill(p)

Next == (\E p \in Procs : Step(p)) \/ (\E g \in Gens : Release(g))

Spec == Init /\ [][Next]_vars

-----------------------------------------------------------------------------
File == Blocks \cup {NoFile}
Claims == [host : Hosts \cup {NoFile}, pin : Gens \cup {NoPin}, size : Nat]
Jobs == [host : Hosts \cup {NoFile}, pin : Gens \cup {NoPin}, since : Gens \cup {NoFile},
         start : Nat, seen : Claims, from : Nat, serving : Gens \cup {NoFile},
         total : Nat \cup {Unstated}]
Landings == [pin : Gens \cup {NoPin}, total : Nat \cup {Unstated}, start : Nat]
Places == {"idle", "claim", "take", "unclaim", "ask", "read", "describe", "park", "discard"}

\* Every variable keeps its type, and a process at work has a working file.
TypeOK ==
    /\ served \in Gens
    /\ dest \in File /\ partial \in File /\ claim \in Claims
    /\ private \in [Procs -> File] /\ hashed \in [Procs -> Blocks]
    /\ pc \in [Procs -> Places] /\ job \in [Procs -> Jobs]
    /\ attempts \in Nat /\ releases \in Nat
    /\ parkings \in Nat /\ parked \in Nat /\ landing \in Landings
    /\ \A p \in Procs : pc[p] \in {"read", "describe", "park"} => private[p] # NoFile

\* What reaches the destination under a pin is, block for block, the pinned generation:
\* whatever was resumed, whoever else was downloading, and although the digest is taken
\* of the stream and never of the file.
PinnedLandsExact == dest # NoFile /\ landing.pin # NoPin => dest = Full(landing.pin)

\* A file never lands short of (or past) the length its server promised, and one that was not
\* resumed holds blocks of one generation only, from the first on: no bytes of an abandoned
\* download are left under it, and no dropped connection is taken for the end of the file.
UnpinnedLandsWhole ==
    dest # NoFile =>
        /\ landing.total # Unstated => Len(dest) = landing.total
        /\ landing.start = 0 =>
            \E g \in Gens : Len(dest) <= Size[g] /\ dest = SubSeq(Full(g), 1, Len(dest))

\* Parked bytes are resumed by one process at most: the rename that takes them is the only
\* arbiter, there is no pid table and no lock.
OneResumer ==
    \A p, q \in Procs : p # q /\ job[p].from # 0 => job[q].from # job[p].from

=============================================================================

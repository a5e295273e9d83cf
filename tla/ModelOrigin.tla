---------------------------- MODULE ModelOrigin ----------------------------
(***************************************************************************)
(* wonslate-origin.json (model_origin.py): which bytes of which assets a   *)
(* model directory holds.  One file covers every asset of the directory,   *)
(* and a writer merges its entry into what is there.  A digest is named    *)
(* after the generation it is the digest of, and so is an etag; the other  *)
(* fields of an entry carry nothing the properties tell apart.             *)
(***************************************************************************)
CONSTANTS
    Assets,   \* assets a directory can hold
    Gens,     \* generations upstream can serve
    Splice,   \* bytes pieced together from two generations, and their digest
    None,     \* no digest, no etag, no pin, no file
    Unasked,  \* validators=None: the writer did not talk to the server
    Silent    \* validators={}: the server published none

ASSUME OriginAssumption ==
    /\ None \notin Gens /\ Unasked \notin Gens /\ Silent \notin Gens
    /\ Unasked # Silent /\ Splice \notin Gens \cup {None}

Statements == Gens \cup {Unasked, Silent}
Entries == [sha : Gens \cup {Splice, None}, etag : Gens \cup {None}]
NoEntry == [sha |-> None, etag |-> None]

\* A record file is missing, unreadable ("torn") or holds an entry per asset.
Docs == [state : {"missing", "torn", "read"}, entries : [Assets -> Entries]]
NoDoc == [state |-> "missing", entries |-> [a \in Assets |-> NoEntry]]
TornDoc == [NoDoc EXCEPT !.state = "torn"]

Named(doc) == {a \in Assets : doc.entries[a].sha # None}

\* The answer for one asset.  An unreadable file and a file about other assets are answers
\* of their own, neither of them "up to date".
ReadState(doc, a) ==
    CASE doc.state = "missing" -> "missing"
      [] doc.state = "torn" -> "incomplete"
      [] a \in Named(doc) -> "ok"
      [] OTHER -> "absent"

\* What a caller may ask the server with, and the digest a 304 would vouch for.
Conditional(doc, a) ==
    IF ReadState(doc, a) = "ok" THEN doc.entries[a] ELSE NoEntry

\* Does a file hold what its entry says?  An entry without a digest says nothing.
MatchesRecord(bytes, entry) == entry.sha # None /\ bytes = entry.sha

\* record() refuses to merge into a file it cannot read.
Recordable(doc) == doc.state # "torn"

\* Fault: a server that publishes no validator is taken for a writer that did not ask.
RecordedKeeping(doc, a, sha, said) ==
    [state |-> "read",
     entries |-> [doc.entries EXCEPT ![a] =
        [sha |-> sha, etag |-> IF said \in Gens THEN said ELSE @.etag]]]

\* Fault: the file holds what was written last (defect D81).
RecordedAlone(doc, a, sha, said) ==
    [state |-> "read",
     entries |-> [NoDoc.entries EXCEPT ![a] = [sha |-> sha, etag |-> IF said \in Gens THEN said ELSE None]]]

\* record(): the other assets keep their entries, and so does the etag when the writer only
\* verified the bytes that are there.
Recorded(doc, a, sha, said) ==
    [state |-> "read",
     entries |-> [doc.entries EXCEPT ![a] =
        [sha |-> sha, etag |-> CASE said = Unasked -> @.etag
                                 [] said = Silent -> None
                                 [] OTHER -> said]]]

\* write_validators(): after a 304 only what the server spoke about changes.
Refreshed(doc, a, said) ==
    IF ReadState(doc, a) = "ok" /\ said \in Gens
    THEN [doc EXCEPT !.entries[a].etag = said]
    ELSE doc
=============================================================================

----------------------------- MODULE TmContract -----------------------------
(***************************************************************************)
(* What the translation memory promises, with no threads, locks, cache or  *)
(* staging files: a table of records in memory and a file holding an       *)
(* earlier state of the table.  A candidate improves a row or leaves its   *)
(* text alone, a use is counted, a rejection marks the record, a save      *)
(* makes the file equal to the table as it stands, and a restart brings    *)
(* back exactly what was saved last.                                       *)
(***************************************************************************)
EXTENDS Naturals

CONSTANTS Keys, Candidates, NoRow, MaxHits

VARIABLES
    table,   \* table[k]: the record of k in memory
    file     \* what a restart would load

contractVars == <<table, file>>

\* A candidate seen for the first time.
Fresh(c) == [text |-> c.text, quality |-> c.quality, hits |-> 1]

\* Fault: the last candidate wins, whatever its quality.
MergeLastWins(row, c) == Fresh(c)

\* A candidate meeting a row it competes with: the better of the two stays.
Merge(row, c) ==
    IF c.quality > row.quality THEN Fresh(c) ELSE [row EXCEPT !.hits = @ + 1]

Rows == [text : {c.text : c \in Candidates},
         quality : {c.quality : c \in Candidates},
         hits : Nat \ {0}]

Records == [row : Rows, flagged : BOOLEAN]

\* The record answers lookups: it exists and nobody rejected it.
Active(records, k) == records[k] # NoRow /\ ~records[k].flagged

Settled(records, k, c) ==
    IF Active(records, k) THEN Merge(records[k].row, c) ELSE Fresh(c)

Init == table = [k \in Keys |-> NoRow] /\ file = [k \in Keys |-> NoRow]

Offer(k, c) ==
    /\ table' = [table EXCEPT ![k] = [row |-> Settled(table, k, c), flagged |-> FALSE]]
    /\ table'[k].row.hits <= MaxHits
    /\ UNCHANGED file

Use(k) ==
    /\ table[k] # NoRow
    /\ table[k].row.hits < MaxHits
    /\ table' = [table EXCEPT ![k].row.hits = @ + 1]
    /\ UNCHANGED file

Reject(k) ==
    /\ table[k] # NoRow
    /\ table' = [table EXCEPT ![k].flagged = TRUE]
    /\ UNCHANGED file

Save == file' = table /\ UNCHANGED table

Restart == table' = file /\ UNCHANGED file

Next ==
    \/ \E k \in Keys : Use(k) \/ Reject(k) \/ \E c \in Candidates : Offer(k, c)
    \/ Save
    \/ Restart

Spec == Init /\ [][Next]_contractVars
=============================================================================

-------------------------- MODULE GlossaryContract --------------------------
(***************************************************************************)
(* What the glossary promises, with no threads, jobs, counters or staging  *)
(* files: a table of rows in memory and a file holding an earlier state of *)
(* the table.  A machine adds a row or raises one nobody locked, a person  *)
(* writes and removes rows, a save makes the file equal to the table as it *)
(* stands, and a restart brings back exactly what was saved last.          *)
(***************************************************************************)
EXTENDS Naturals

CONSTANTS
    Keys,
    Rows,    \* rows: [target, confidence, source, locked]
    NoRow

VARIABLES
    table,   \* table[k]: the row of k in memory
    file     \* what a restart would load

contractVars == <<table, file>>

Init == table = [k \in Keys |-> NoRow] /\ file = [k \in Keys |-> NoRow]

\* A row a machine may put in place of what there is: never over a lock, never a less confident
\* one, and under the provenance the row had.
Raises(old, row) ==
    /\ ~row.locked
    /\ old # NoRow => /\ ~old.locked
                      /\ row.confidence > old.confidence
                      /\ row.source = old.source

Learn(k, row) ==
    /\ Raises(table[k], row)
    /\ table' = [table EXCEPT ![k] = row]
    /\ UNCHANGED file

\* What a person types says so.
Type(k, row) ==
    /\ row.source = "manual"
    /\ table' = [table EXCEPT ![k] = row]
    /\ UNCHANGED file

Remove(k) ==
    /\ table' = [table EXCEPT ![k] = NoRow]
    /\ UNCHANGED file

Save == file' = table /\ UNCHANGED table

Restart == table' = file /\ UNCHANGED file

Next ==
    \/ \E k \in Keys, row \in Rows : Learn(k, row) \/ Type(k, row)
    \/ \E k \in Keys : Remove(k)
    \/ Save
    \/ Restart

Spec == Init /\ [][Next]_contractVars
=============================================================================

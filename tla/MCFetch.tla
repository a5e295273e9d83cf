------------------------------ MODULE MCFetch ------------------------------
(* Small instances of Fetch for TLC.                                       *)
EXTENDS Fetch, TLC

CONSTANTS g1, g2

\* Generations of different length, so that a claim's size can tell them apart.
TwoThenThree == (g1 :> 2) @@ (g2 :> 3)

\* Downloaders differ in nothing but their name.
AnyOrder == Permutations(Procs)
=============================================================================

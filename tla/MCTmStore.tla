----------------------------- MODULE MCTmStore -----------------------------
(* Small instances of TmStore for TLC.                                     *)
EXTENDS TmStore

\* A bad and a good translation of the one text.
GoodAndBad == {[text |-> "bad", quality |-> 1], [text |-> "good", quality |-> 2]}
=============================================================================

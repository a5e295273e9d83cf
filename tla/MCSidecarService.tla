-------------------------- MODULE MCSidecarService --------------------------
(* Small instances of SidecarService for TLC.                              *)
EXTENDS SidecarService

\* A limit nobody means, one that two handlers can overspend, and one they can spend together.
BudgetArguments == {-1, 1, 2}
=============================================================================

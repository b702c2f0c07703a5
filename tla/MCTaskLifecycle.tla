--------------------------- MODULE MCTaskLifecycle ---------------------------
(* Small instances of TaskLifecycle for TLC. *)
EXTENDS TaskLifecycle, TLC

\* Requests differ in nothing but their names.
Symmetry == Permutations(Requests)
=============================================================================

---------------------------- MODULE MCTaskWindow ----------------------------
(* Instances of TaskWindow for TLC. *)
EXTENDS TaskWindow

CONSTANTS p, q

TwoProjects == {p, q}
=============================================================================

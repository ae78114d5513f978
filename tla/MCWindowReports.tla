---------------------------- MODULE MCWindowReports ----------------------------
(* Instances of WindowReports for TLC. *)
EXTENDS WindowReports

CONSTANTS p, q

TwoProjects == {p, q}
=============================================================================

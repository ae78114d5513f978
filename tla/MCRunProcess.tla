--------------------------- MODULE MCRunProcess ---------------------------
(* Instances of RunProcess for TLC. *)
EXTENDS RunProcess

CONSTANTS m1, m2

TwoMembers == {m1, m2}
=============================================================================

---------------------------- MODULE ProcessCall ----------------------------
(***************************************************************************)
(* A call of run_process as its caller sees it: it runs, meanwhile a       *)
(* cancellation may be requested and the deadline may pass, and then it is *)
(* answered once, truthfully, or throws.                                   *)
(***************************************************************************)
EXTENDS ProcessResult

VARIABLES
  phase,     (* "idle", "running", "returned" or "threw"                  *)
  answer,    (* the status, meaningful once returned                      *)
  asked,     (* a cancellation was requested                              *)
  expired    (* the deadline has passed                                   *)

vars == <<phase, answer, asked, expired>>

Init == phase = "idle" /\ answer = "none" /\ asked = FALSE /\ expired = FALSE

Call == phase = "idle" /\ phase' = "running" /\ UNCHANGED <<answer, asked, expired>>

RequestCancel == ~asked /\ asked' = TRUE /\ UNCHANGED <<phase, answer, expired>>

Expire == ~expired /\ expired' = TRUE /\ UNCHANGED <<phase, answer, asked>>

Return(status) ==
  /\ phase = "running"
  /\ MayAnswer(status, asked, expired)
  /\ phase' = "returned"
  /\ answer' = status
  /\ UNCHANGED <<asked, expired>>

Throw == phase = "running" /\ phase' = "threw" /\ UNCHANGED <<answer, asked, expired>>

Finish == Throw \/ \E status \in ProcessStatuses : Return(status)

Next == Call \/ RequestCancel \/ Expire \/ Finish

Spec == Init /\ [][Next]_vars

\* The call comes back, whatever the program it runs does.
FairSpec == Spec /\ WF_vars(Finish)
=============================================================================

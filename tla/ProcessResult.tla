--------------------------- MODULE ProcessResult ---------------------------
(***************************************************************************)
(* What run_process answers (core/include/codeguard/process.hpp), and when *)
(* it may answer it.  The promise callers build on; RunProcess keeps it.   *)
(***************************************************************************)

ProcessStatuses == {"passed", "failed", "start_failed", "timed_out", "cancelled"}

\* "cancelled" needs a cancellation and "timed_out" an expired deadline; the
\* other answers, a success among them, are possible whatever else happened.
MayAnswer(status, cancelRequested, deadlinePassed) ==
  /\ status = "cancelled" => cancelRequested
  /\ status = "timed_out" => deadlinePassed
=============================================================================

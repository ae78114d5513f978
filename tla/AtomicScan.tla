----------------------------- MODULE AtomicScan -----------------------------
(***************************************************************************)
(* What a scan promises its caller, without locks, phases or threads: it   *)
(* either appends its snapshot to the history in one step, or it leaves    *)
(* the history alone and says so.  The promise docs/qt-frontend.md makes   *)
(* about cancelling: if the cancellation comes first no snapshot is saved, *)
(* if the commit comes first the cancellation is refused.                  *)
(***************************************************************************)
EXTENDS Naturals, Sequences

CONSTANT Scans

VARIABLES
  log,   (* the scans whose snapshots are in the history, oldest first    *)
  run    (* scan -> its state                                             *)

RunStates == {"idle", "active", "doomed", "committed", "cancelled", "failed", "lost"}

Become(s, from, to) == run[s] \in from /\ run' = [run EXCEPT ![s] = to]

Begin(s)        == Become(s, {"idle"}, "active") /\ UNCHANGED log
AcceptCancel(s) == Become(s, {"active"}, "doomed") /\ UNCHANGED log
CommitScan(s)   == Become(s, {"active"}, "committed") /\ log' = Append(log, s)
Fail(s)         == Become(s, {"active"}, "failed") /\ UNCHANGED log
ReportCancel(s) == Become(s, {"doomed"}, "cancelled") /\ UNCHANGED log
Lose(s)         == Become(s, {"active", "doomed"}, "lost") /\ UNCHANGED log

Init == log = <<>> /\ run = [s \in Scans |-> "idle"]

Next == \E s \in Scans :
  \/ Begin(s) \/ AcceptCancel(s) \/ CommitScan(s)
  \/ Fail(s) \/ ReportCancel(s) \/ Lose(s)

Spec == Init /\ [][Next]_<<log, run>>
=============================================================================

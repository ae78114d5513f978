---------------------------- MODULE ScanControl ----------------------------
(***************************************************************************)
(* The control word of one cancellable job (core/include/codeguard/        *)
(* scan_control.hpp).  It is one std::atomic<State>; every operation below *)
(* is a single atomic load, compare-exchange or exchange of that word, so  *)
(* a module that owns a control word applies them inside one action.       *)
(***************************************************************************)

ControlStates == {"running", "cancel_requested", "committing", "finished"}

\* request_cancel: compare_exchange(running, cancel_requested) succeeds.
Cancellable(c) == c = "running"

\* check: throws ScanCancelled.
Cancelled(c) == c = "cancel_requested"

\* Mutant: begin_commit stores the new state without comparing.
MayCommit_PlainStore(c) == c # "finished"

\* begin_commit: compare_exchange(running, committing) succeeds.  When it does
\* not, begin_commit throws: ScanCancelled if the word is Cancelled, otherwise
\* std::logic_error("scan control already consumed").
MayCommit(c) == c = "running"
=============================================================================

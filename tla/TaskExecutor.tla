---------------------------- MODULE TaskExecutor ----------------------------
(***************************************************************************)
(* What the users of ThreadPool rely on, without threads: a bounded first- *)
(* in first-out queue served by at most Width tasks at a time, that can be *)
(* shut and then drains.                                                   *)
(***************************************************************************)
EXTENDS Naturals, Sequences, FiniteSets

CONSTANTS Tasks, Capacity, Width

VARIABLES
  waiting,   (* accepted tasks, in the order of acceptance *)
  running,   (* tasks being executed                       *)
  finished,  (* tasks that returned or threw               *)
  phase      (* open, draining or closed                   *)

vars == <<waiting, running, finished, phase>>

InQueue == {waiting[i] : i \in DOMAIN waiting}

Admit(t) ==
  /\ phase = "open"
  /\ Len(waiting) < Capacity
  /\ t \notin InQueue \cup running \cup finished
  /\ waiting' = Append(waiting, t)
  /\ UNCHANGED <<running, finished, phase>>

Begin ==
  /\ phase # "closed"
  /\ waiting # <<>>
  /\ Cardinality(running) < Width
  /\ running' = running \cup {Head(waiting)}
  /\ waiting' = Tail(waiting)
  /\ UNCHANGED <<finished, phase>>

End(t) ==
  /\ t \in running
  /\ running'  = running \ {t}
  /\ finished' = finished \cup {t}
  /\ UNCHANGED <<waiting, phase>>

Shut  == phase = "open" /\ phase' = "draining" /\ UNCHANGED <<waiting, running, finished>>

Close ==
  /\ phase = "draining"
  /\ waiting = <<>> /\ running = {}
  /\ phase' = "closed"
  /\ UNCHANGED <<waiting, running, finished>>

Init == waiting = <<>> /\ running = {} /\ finished = {} /\ phase = "open"
Next == Shut \/ Close \/ Begin \/ \E t \in Tasks : Admit(t) \/ End(t)
Spec == Init /\ [][Next]_vars
=============================================================================

---------------------------- MODULE RunProcess ----------------------------
(***************************************************************************)
(* run_process (core/process/process.cpp), the POSIX branch: one managed   *)
(* program in a process group of its own, its output read through a        *)
(* non-blocking pipe, a deadline and a cancellation.                       *)
(*                                                                         *)
(* The manager is the calling thread; the program is the forked leader and *)
(* any further members of its group, which may spawn, write, exit, ignore  *)
(* everything but SIGKILL, and outlive the leader.  A process that leaves  *)
(* the group is outside what docs/level3-acceptance.md promises and        *)
(* outside this model.  stdout and stderr are two copies of one mechanism; *)
(* one of them is modelled, in units of bytes.                             *)
(***************************************************************************)
EXTENDS Naturals, ScanControl, ProcessResult

CONSTANTS
  Members,       (* processes the program may add to its group            *)
  PipeCapacity,  (* bytes the kernel holds for a pipe                     *)
  DrainLimit,    (* bytes one drain reads: 16 reads of 8192               *)
  CaptureLimit,  (* options.capture_limit                                 *)
  MaxWritten     (* bound on the bytes the program writes                 *)

ASSUME RunProcessAssumption ==
  /\ PipeCapacity \in Nat /\ DrainLimit \in Nat
  /\ CaptureLimit \in Nat /\ MaxWritten \in Nat
  /\ PipeCapacity <= DrainLimit   \* 64 KiB pipes against 128 KiB a drain

VARIABLES
  control,    (* the caller's ScanControl word                            *)
  expired,    (* options.timeout has passed                               *)
  pc,         (* where the manager is                                     *)
  status,     (* result.status                                            *)
  leader,     (* the forked process                                       *)
  code,       (* its exit code, once it is dead                           *)
  execError,  (* an errno was written to the exec_error pipe              *)
  members,    (* live processes of the group other than the leader        *)
  written,    (* bytes the program wrote                                  *)
  pipe,       (* of these, bytes still in the pipe                        *)
  captured,   (* bytes in the captured text                               *)
  truncated   (* result.output_truncated                                  *)

program == <<leader, code, execError, members>>
output  == <<written, pipe, captured, truncated>>
vars    == <<control, expired, pc, status, program, output>>

Killed    == 137   \* 128 + SIGKILL
NotFound  == 127
ExitCodes == {0, 1}

-----------------------------------------------------------------------------
(* The program *)

LeaderAlive == leader \in {"forked", "failing", "running"}

\* execvp in the child: it succeeds, or its errno goes into the exec_error
\* pipe before the child exits.
Exec ==
  /\ leader = "forked"
  /\ \/ leader' = "running" /\ UNCHANGED execError
     \/ leader' = "failing" /\ execError' = TRUE
  /\ UNCHANGED <<control, expired, pc, status, code, members, output>>

Exit ==
  /\ \/ leader = "running" /\ code' \in ExitCodes
     \/ leader = "failing" /\ code' = NotFound
  /\ leader' = "exited"
  /\ UNCHANGED <<control, expired, pc, status, execError, members, output>>

Spawn(m) ==
  /\ leader = "running" \/ members # {}
  /\ members' = members \cup {m}
  /\ UNCHANGED <<control, expired, pc, status, leader, code, execError, output>>

MemberExits(m) ==
  /\ m \in members
  /\ members' = members \ {m}
  /\ UNCHANGED <<control, expired, pc, status, leader, code, execError, output>>

Write ==
  /\ leader = "running" \/ members # {}
  /\ written < MaxWritten
  /\ pipe < PipeCapacity
  /\ written' = written + 1
  /\ pipe' = pipe + 1
  /\ UNCHANGED <<control, expired, pc, status, program, captured, truncated>>

-----------------------------------------------------------------------------
(* The caller's other threads, and time *)

RequestCancel ==
  /\ Cancellable(control)
  /\ control' = "cancel_requested"
  /\ UNCHANGED <<expired, pc, status, program, output>>

Expire ==
  /\ pc # "idle"
  /\ ~expired
  /\ expired' = TRUE
  /\ UNCHANGED <<control, pc, status, program, output>>

-----------------------------------------------------------------------------
(* The manager *)

\* Mutant: bytes beyond the limit vanish silently.
Drain_Silently ==
  LET n == IF pipe < DrainLimit THEN pipe ELSE DrainLimit
  IN  /\ pipe' = pipe - n
      /\ captured' = IF captured + n < CaptureLimit THEN captured + n ELSE CaptureLimit
      /\ UNCHANGED <<written, truncated>>

\* Read what is there, keep the first CaptureLimit bytes, drop the rest.
Drain ==
  LET n == IF pipe < DrainLimit THEN pipe ELSE DrainLimit
  IN  /\ pipe' = pipe - n
      /\ captured' = IF captured + n < CaptureLimit THEN captured + n ELSE CaptureLimit
      /\ truncated' = (truncated \/ captured + n > CaptureLimit)
      /\ UNCHANGED written

\* Mutant: only the leader is killed, not its group.
KillGroup_LeaderOnly == UNCHANGED members

\* kill(-pid, SIGKILL).  The leader is reaped by the action that kills it.
KillGroup == members' = {}

Call ==
  /\ pc = "idle"
  /\ pc' = "starting"
  /\ UNCHANGED <<control, expired, status, program, output>>

\* A call that is already cancelled starts nothing; pipes and fork may fail.
Fork ==
  /\ pc = "starting"
  /\ IF Cancelled(control)
     THEN pc' = "returned" /\ status' = "cancelled" /\ UNCHANGED leader
     ELSE \/ pc' = "draining" /\ status' = "failed" /\ leader' = "forked"
          \/ pc' = "returned" /\ UNCHANGED <<status, leader>>
          \/ pc' = "threw" /\ UNCHANGED <<status, leader>>
  /\ UNCHANGED <<control, expired, code, execError, members, output>>

ReadOutput ==
  /\ pc = "draining"
  /\ Drain
  /\ pc' = "waiting"
  /\ UNCHANGED <<control, expired, status, program>>

\* waitpid(pid, WNOHANG)
Wait ==
  /\ pc = "waiting"
  /\ IF leader = "exited"
     THEN leader' = "reaped" /\ pc' = "killing"
     ELSE pc' = "judging" /\ UNCHANGED leader
  /\ UNCHANGED <<control, expired, status, code, execError, members, output>>

\* waitpid fails: the group is killed, the guard reaps, the call throws.
WaitFails ==
  /\ pc = "waiting"
  /\ leader' = "reaped"
  /\ code' = IF LeaderAlive THEN Killed ELSE code
  /\ KillGroup
  /\ pc' = "threw"
  /\ UNCHANGED <<control, expired, status, execError, output>>

\* Mutant: only a cancellation ends the loop.
Judge_NoTimeout ==
  /\ pc = "judging"
  /\ IF Cancelled(control)
     THEN /\ status' = "cancelled"
          /\ leader' = "reaped"
          /\ code' = IF LeaderAlive THEN Killed ELSE code
          /\ KillGroup
          /\ pc' = "killing"
     ELSE pc' = "draining" /\ UNCHANGED <<status, leader, code, members>>
  /\ UNCHANGED <<control, expired, execError, output>>

\* Cancelled or too late: kill, then wait for the leader, which may have
\* exited by itself in the meantime.  Otherwise sleep and go round again.
Judge ==
  /\ pc = "judging"
  /\ IF Cancelled(control) \/ expired
     THEN /\ status' = IF Cancelled(control) THEN "cancelled" ELSE "timed_out"
          /\ leader' = "reaped"
          /\ code' = IF LeaderAlive THEN Killed ELSE code
          /\ KillGroup
          /\ pc' = "killing"
     ELSE pc' = "draining" /\ UNCHANGED <<status, leader, code, members>>
  /\ UNCHANGED <<control, expired, execError, output>>

\* Members that outlived the leader are killed in every case.
KillRest ==
  /\ pc = "killing"
  /\ KillGroup
  /\ pc' = "collecting"
  /\ UNCHANGED <<control, expired, status, leader, code, execError, output>>

Collect ==
  /\ pc = "collecting"
  /\ Drain
  /\ pc' = "deciding"
  /\ UNCHANGED <<control, expired, status, program>>

\* An exec that failed wins over everything; then an exit code of 0 counts.
FinalStatus ==
  IF execError THEN "start_failed"
  ELSE IF status = "failed" /\ code = 0 THEN "passed"
  ELSE status

Decide ==
  /\ pc = "deciding"
  /\ status' = FinalStatus
  /\ pc' = "returned"
  /\ UNCHANGED <<control, expired, program, output>>

-----------------------------------------------------------------------------
(* The specification *)

Init ==
  /\ control = "running"
  /\ expired = FALSE
  /\ pc = "idle"
  /\ status = "start_failed"
  /\ leader = "none"
  /\ code = 0
  /\ execError = FALSE
  /\ members = {}
  /\ written = 0
  /\ pipe = 0
  /\ captured = 0
  /\ truncated = FALSE

Program == Exec \/ Exit \/ Write \/ \E m \in Members : Spawn(m) \/ MemberExits(m)

Loop == Fork \/ ReadOutput \/ Wait \/ WaitFails \/ Judge \/ KillRest \/ Collect \/ Decide

Next == Program \/ RequestCancel \/ Expire \/ Call \/ Loop

Spec == Init /\ [][Next]_vars

\* The calling thread runs and time passes.  Nothing makes the program exit,
\* read a signal, or stop writing.
FairSpec == Spec /\ WF_vars(Loop) /\ WF_vars(Expire)

-----------------------------------------------------------------------------
(* Properties *)

\* Every variable holds a value of its type.
TypeOK ==
  /\ control \in ControlStates
  /\ expired \in BOOLEAN
  /\ pc \in {"idle", "starting", "draining", "waiting", "judging", "killing",
             "collecting", "deciding", "returned", "threw"}
  /\ status \in ProcessStatuses
  /\ leader \in {"none", "forked", "failing", "running", "exited", "reaped"}
  /\ code \in ExitCodes \cup {Killed, NotFound}
  /\ execError \in BOOLEAN
  /\ members \subseteq Members
  /\ written \in 0..MaxWritten
  /\ pipe \in 0..PipeCapacity
  /\ captured \in 0..CaptureLimit
  /\ truncated \in BOOLEAN

\* When the call is over nothing of the program is left: the leader is reaped,
\* also when it never reached exec, and no member of its group runs on, also
\* when the leader exited long before its children.
NothingSurvives ==
  pc \in {"returned", "threw"} => members = {} /\ leader \in {"none", "reaped"}

\* "passed" means that the requested program ran and exited with 0 of its own
\* accord, whatever cancellation, deadline or failed exec it raced with.
PassedMeansExitedZero ==
  pc = "returned" /\ status = "passed" => leader = "reaped" /\ code = 0 /\ ~execError

\* The captured text is the beginning of what was written, all of it unless
\* the result says it was truncated, and truncated only at the limit: the
\* bytes still in the pipe when the program dies are not lost.
OutputIsAccountedFor ==
  pc = "returned" =>
    /\ captured = IF written < CaptureLimit THEN written ELSE CaptureLimit
    /\ truncated <=> written > CaptureLimit

\* What the caller is told is what happened, whatever raced with what.
ResultTellsTheRun == PassedMeansExitedZero /\ OutputIsAccountedFor

-----------------------------------------------------------------------------
(* Refinement *)

CallView == INSTANCE ProcessCall WITH
  phase   <- IF pc \in {"idle", "returned", "threw"} THEN pc ELSE "running",
  answer  <- IF pc = "returned" THEN status ELSE "none",
  asked   <- Cancelled(control)

\* The caller sees one truthful answer, and sees it in the end: a program that
\* never exits, fills its pipe or ignores signals cannot hold the caller.
CallIsAnswered == CallView!FairSpec
=============================================================================

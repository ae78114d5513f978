-------------------------- MODULE RunProcessProofs --------------------------
(***************************************************************************)
(* Safety of RunProcess for any pipe, drain and capture size, any number   *)
(* of group members and any amount of output; and the promise ProcessCall. *)
(***************************************************************************)
EXTENDS RunProcess, TLAPS

\* How much of the group is left, by where the manager is.
GroupInv ==
  /\ pc \in {"idle", "starting"} => leader = "none" /\ members = {}
  /\ pc \in {"draining", "waiting", "judging"} => leader \in {"forked", "failing", "running", "exited"}
  /\ pc \in {"killing", "collecting", "deciding"} => leader = "reaped"
  /\ pc \in {"collecting", "deciding", "returned", "threw"} => members = {}
  /\ pc \in {"returned", "threw"} => leader \in {"none", "reaped"}

\* What the status can be, by where the manager is, and what it tells.
StatusInv ==
  /\ pc \in {"idle", "starting"} => status = "start_failed"
  /\ pc \in {"draining", "waiting", "judging"} => status = "failed"
  /\ pc \in {"killing", "collecting", "deciding"} => status \in {"failed", "cancelled", "timed_out"}
  /\ status = "cancelled" => Cancelled(control)
  /\ status = "timed_out" => expired

\* Every byte is in the pipe, in the captured text, or beyond the limit; and
\* the last drain, which the program does not survive, empties the pipe.
OutputInv ==
  /\ pipe <= written
  /\ captured = IF written - pipe < CaptureLimit THEN written - pipe ELSE CaptureLimit
  /\ (truncated <=> written - pipe > CaptureLimit)
  /\ pc \in {"idle", "starting", "deciding", "returned"} => pipe = 0

IInv == TypeOK /\ GroupInv /\ StatusInv /\ PassedMeansExitedZero /\ OutputInv

-----------------------------------------------------------------------------

LEMMA InitIInv == Init => IInv
  <1> SUFFICES ASSUME Init PROVE IInv
    OBVIOUS
  <1>1. TypeOK
    <2>1. /\ control \in ControlStates /\ status \in ProcessStatuses
          /\ code \in ExitCodes \cup {Killed, NotFound} /\ members \subseteq Members
      BY DEF Init, ControlStates, ProcessStatuses, ExitCodes
    <2>2. expired \in BOOLEAN /\ execError \in BOOLEAN /\ truncated \in BOOLEAN
      BY Zenon DEF Init
    <2>3. written \in 0..MaxWritten /\ pipe \in 0..PipeCapacity /\ captured \in 0..CaptureLimit
      BY RunProcessAssumption DEF Init
    <2>4. QED
      BY <2>1, <2>2, <2>3, Zenon DEF Init, TypeOK
  <1>2. GroupInv /\ StatusInv /\ PassedMeansExitedZero
    BY DEF Init, GroupInv, StatusInv, PassedMeansExitedZero
  <1>3. OutputInv
    <2>1. /\ pipe <= written
          /\ captured = IF written - pipe < CaptureLimit THEN written - pipe ELSE CaptureLimit
          /\ ~(written - pipe > CaptureLimit)
      BY RunProcessAssumption DEF Init
    <2>2. truncated = FALSE /\ pipe = 0
      BY Zenon DEF Init
    <2>3. QED
      BY <2>1, <2>2, Zenon DEF OutputInv
  <1>4. QED
    BY <1>1, <1>2, <1>3 DEF IInv

LEMMA DrainKeepsOutput ==
  ASSUME IInv, Drain
  PROVE  /\ pipe' = 0 /\ captured' \in 0..CaptureLimit /\ truncated' \in BOOLEAN
         /\ written' = written
         /\ captured' = IF written' < CaptureLimit THEN written' ELSE CaptureLimit
         /\ (truncated' <=> written' > CaptureLimit)
  <1> DEFINE n == IF pipe < DrainLimit THEN pipe ELSE DrainLimit
  <1>1. /\ pipe \in Nat /\ written \in Nat /\ captured \in Nat /\ pipe <= PipeCapacity
        /\ pipe <= written /\ CaptureLimit \in Nat
    BY RunProcessAssumption DEF IInv, TypeOK, OutputInv
  <1>2. n = pipe
    BY <1>1, RunProcessAssumption
  <1>3. /\ pipe' = pipe - n /\ written' = written
        /\ captured' = IF captured + n < CaptureLimit THEN captured + n ELSE CaptureLimit
        /\ truncated' = (truncated \/ captured + n > CaptureLimit)
    BY DEF Drain
  <1> HIDE DEF n
  <1>4. /\ captured = IF written - pipe < CaptureLimit THEN written - pipe ELSE CaptureLimit
        /\ (truncated <=> written - pipe > CaptureLimit)
    BY DEF IInv, OutputInv
  <1>5. truncated \in BOOLEAN
    BY DEF IInv, TypeOK
  <1>6. pipe' = 0 /\ written' = written
    BY <1>1, <1>2, <1>3
  <1>7. captured' = IF written < CaptureLimit THEN written ELSE CaptureLimit
    BY <1>1, <1>2, <1>3, <1>4
  <1>8. captured + n > CaptureLimit \/ truncated <=> written > CaptureLimit
    <2>1. (written - pipe > CaptureLimit) <=> truncated
      BY <1>4, <1>5, Zenon
    <2>2. captured + n > CaptureLimit \/ written - pipe > CaptureLimit <=> written > CaptureLimit
      BY <1>1, <1>2, <1>4
    <2>3. QED
      BY <2>1, <2>2, Zenon
  <1>9. truncated' <=> written > CaptureLimit
    BY <1>3, <1>8, Zenon
  <1>10. truncated' \in BOOLEAN
    BY <1>3, Zenon
  <1>11. captured' \in 0..CaptureLimit
    BY <1>1, <1>7
  <1>12. QED
    BY <1>6, <1>7, <1>9, <1>10, <1>11

LEMMA NextIInv == IInv /\ [Next]_vars => IInv'
  <1> SUFFICES ASSUME IInv, [Next]_vars PROVE IInv'
    OBVIOUS
  <1> USE RunProcessAssumption DEF IInv, TypeOK, GroupInv, StatusInv, PassedMeansExitedZero
  <1>1. CASE Exec BY <1>1 DEF Exec, output, OutputInv
  <1>2. CASE Exit BY <1>2 DEF Exit, output, ExitCodes, OutputInv
  <1>3. ASSUME NEW m \in Members, Spawn(m) PROVE IInv'
    BY <1>3 DEF Spawn, output, OutputInv
  <1>4. ASSUME NEW m \in Members, MemberExits(m) PROVE IInv'
    BY <1>4 DEF MemberExits, output, OutputInv
  <1>5. CASE Write BY <1>5 DEF Write, program, OutputInv
  <1>6. CASE RequestCancel
    BY <1>6 DEF RequestCancel, program, output, OutputInv, Cancellable, Cancelled, ControlStates
  <1>7. CASE Expire BY <1>7 DEF Expire, program, output, OutputInv
  <1>8. CASE Call BY <1>8 DEF Call, program, output, OutputInv
  <1>9. CASE Fork BY <1>9 DEF Fork, output, OutputInv, ProcessStatuses
  <1>10. CASE ReadOutput
    <2>1. pc = "draining" /\ pc' = "waiting" /\ UNCHANGED <<control, expired, status, program>> /\ Drain
      BY <1>10 DEF ReadOutput
    <2>2. OutputInv' /\ written' \in 0..MaxWritten /\ pipe' \in 0..PipeCapacity
          /\ captured' \in 0..CaptureLimit /\ truncated' \in BOOLEAN
      BY <2>1, DrainKeepsOutput DEF OutputInv
    <2>3. QED BY <2>1, <2>2 DEF program
  <1>11. CASE Wait BY <1>11 DEF Wait, output, OutputInv
  <1>12. CASE WaitFails BY <1>12 DEF WaitFails, KillGroup, output, OutputInv
  <1>13. CASE Judge BY <1>13 DEF Judge, KillGroup, output, OutputInv, ProcessStatuses
  <1>14. CASE KillRest BY <1>14 DEF KillRest, KillGroup, output, OutputInv
  <1>15. CASE Collect
    <2>1. pc = "collecting" /\ pc' = "deciding" /\ UNCHANGED <<control, expired, status, program>> /\ Drain
      BY <1>15 DEF Collect
    <2>2. OutputInv' /\ written' \in 0..MaxWritten /\ pipe' \in 0..PipeCapacity
          /\ captured' \in 0..CaptureLimit /\ truncated' \in BOOLEAN
      BY <2>1, DrainKeepsOutput DEF OutputInv
    <2>3. QED BY <2>1, <2>2 DEF program
  <1>16. CASE Decide BY <1>16 DEF Decide, FinalStatus, program, output, OutputInv, ProcessStatuses
  <1>17. CASE UNCHANGED vars BY <1>17 DEF vars, program, output, OutputInv
  <1>18. QED
    BY <1>1, <1>2, <1>3, <1>4, <1>5, <1>6, <1>7, <1>8, <1>9, <1>10, <1>11, <1>12, <1>13, <1>14,
       <1>15, <1>16, <1>17 DEF Next, Program, Loop

-----------------------------------------------------------------------------
(* Theorems *)

\* Type correctness, and what the other theorems rest on.
THEOREM ProcessInvariant == Spec => []IInv
  BY InitIInv, NextIInv, PTL DEF Spec

\* Nothing of the program is left when run_process has returned or thrown.
THEOREM GroupIsGone == Spec => []NothingSurvives
  <1>1. IInv => NothingSurvives
    BY DEF IInv, GroupInv, NothingSurvives
  <1>2. QED
    BY <1>1, ProcessInvariant, PTL

\* run_process answers "passed" only for a program that was executed and left
\* with exit code 0.
THEOREM PassedIsZero == Spec => []PassedMeansExitedZero
  <1>1. IInv => PassedMeansExitedZero
    BY DEF IInv
  <1>2. QED
    BY <1>1, ProcessInvariant, PTL

\* The text run_process returns is the beginning of what was written, and the
\* truncation flag says whether it is all.
THEOREM OutputIsComplete == Spec => []OutputIsAccountedFor
  <1>1. IInv => OutputIsAccountedFor
    BY RunProcessAssumption DEF IInv, TypeOK, OutputInv, OutputIsAccountedFor
  <1>2. QED
    BY <1>1, ProcessInvariant, PTL

\* Seen by its caller, run_process answers once and only what MayAnswer allows.
THEOREM CallIsTruthful == Spec => CallView!Spec
  <1>1. Init => CallView!Init
    BY DEF Init, CallView!Init, Cancelled
  <1>2. IInv /\ [Next]_vars => [CallView!Next]_CallView!vars
    <2> SUFFICES ASSUME IInv, [Next]_vars PROVE [CallView!Next]_CallView!vars
      OBVIOUS
    <2> USE DEF CallView!vars
    <2>1. CASE Program \/ ReadOutput \/ Wait \/ KillRest \/ Collect \/ UNCHANGED vars
      BY <2>1 DEF Program, Exec, Exit, Write, Spawn, MemberExits, ReadOutput, Wait, KillRest, Collect, vars
    <2>2. CASE RequestCancel
      BY <2>2 DEF RequestCancel, Cancellable, Cancelled, CallView!Next, CallView!RequestCancel
    <2>3. CASE Expire
      BY <2>3 DEF Expire, CallView!Next, CallView!Expire
    <2>4. CASE Call
      BY <2>4 DEF Call, CallView!Next, CallView!Call
    <2>5. CASE Fork
      BY <2>5 DEF Fork, IInv, StatusInv, CallView!Next, CallView!Finish, CallView!Return, CallView!Throw,
         CallView!MayAnswer, CallView!ProcessStatuses
    <2>6. CASE WaitFails
      BY <2>6 DEF WaitFails, CallView!Next, CallView!Finish, CallView!Throw
    <2>7. CASE Judge
      BY <2>7 DEF Judge
    <2>8. CASE Decide
      BY <2>8 DEF Decide, FinalStatus, IInv, StatusInv, CallView!Next, CallView!Finish, CallView!Return,
         CallView!MayAnswer, CallView!ProcessStatuses
    <2>9. QED
      BY <2>1, <2>2, <2>3, <2>4, <2>5, <2>6, <2>7, <2>8 DEF Next, Loop
  <1>3. QED
    BY <1>1, <1>2, ProcessInvariant, PTL DEF Spec, CallView!Spec
\* Type correctness of a call.
THEOREM ProcessTypes == Spec => []TypeOK
  <1>1. IInv => TypeOK
    BY DEF IInv
  <1>2. QED
    BY <1>1, ProcessInvariant, PTL
\* The two together: what run_process returns is what happened.
THEOREM ResultIsTrue == Spec => []ResultTellsTheRun
  <1>1. PassedMeansExitedZero /\ OutputIsAccountedFor => ResultTellsTheRun
    BY DEF ResultTellsTheRun
  <1>2. QED
    BY <1>1, PassedIsZero, OutputIsComplete, PTL
=============================================================================

--------------------------- MODULE BuildRunProofs ---------------------------
(***************************************************************************)
(* Safety of BuildRun for any number of builds, files, edits and scans.    *)
(***************************************************************************)
EXTENDS BuildRun, TLAPS, SequenceTheorems

(***************************************************************************)
(* The inductive invariant, of one build: r is its locals, c its control   *)
(* word, a whether a cancellation was accepted, s whether it is recorded.  *)
(***************************************************************************)

Preparing == {"idle", "reading", "claiming", "claimed", "prechecking", "copying",
              "copied", "rechecking", "comparing"}
Ending    == {"fencing", "logging", "saving", "returned", "done", "threw"}
Fenced    == {"logging", "saving", "returned"}
Whole     == {"passed", "configured"}

\* The control word is sealed last, and behind the fence it is consumed.
ControlInv(r, c, a) ==
  /\ r.pc = "done" <=> c = "finished"
  /\ a => c \in {"cancel_requested", "finished"}
  /\ c = "cancel_requested" => a
  /\ c = "committing" => r.pc \in {"logging", "saving", "returned", "threw"}
  /\ r.pc \in Fenced => c \in {"committing", "cancel_requested"}

\* The status follows an accepted cancellation from the fence on.
CancelInv(r, a, s) ==
  /\ r.status = "cancelled" => a
  /\ r.pc \in Fenced \/ s => (a => r.status = "cancelled")
  /\ s => r.pc \in {"returned", "done"}

\* What passed began from the scan that was read.
ScanInv(r) ==
  /\ r.scan # NoScan => r.scan \in DOMAIN scans
  /\ r.pc \notin {"idle", "reading", "done", "threw"} => r.scan # NoScan
  /\ r.status \in Whole => r.scan # NoScan /\ r.built = scans[r.scan]
  /\ r.status = "configured" => r.copy = scans[r.scan] /\ r.pc \in Ending \cup {"verifying"}
  /\ r.status \in Whole /\ r.pc \in Ending => r.same

\* No stage ran behind one that did not pass.
StepsInv(r) ==
  /\ r.pc \in Preparing => r.status = "none" /\ r.steps = <<>>
  /\ r.pc = "running" => r.status = "passed"
  /\ r.status \in Whole => \A k \in DOMAIN r.steps : r.steps[k] = "passed"
  /\ \A i, k \in DOMAIN r.steps : i < k /\ r.steps[i] # "passed" => r.steps[k] = "skipped"

JobInv(r, c, a, s) ==
  ControlInv(r, c, a) /\ CancelInv(r, a, s) /\ ScanInv(r) /\ StepsInv(r)

IInv ==
  /\ TypeOK
  /\ \A b \in Builds : /\ ui[b] = "idle" => job[b].pc = "idle"
                       /\ JobInv(job[b], control[b], accepted[b], Saved(b))

-----------------------------------------------------------------------------
(* Types *)

LEMMA AppendFacts ==
  ASSUME NEW S, NEW q \in Seq(S), NEW x \in S
  PROVE  /\ Append(q, x) \in Seq(S) /\ Len(q) \in Nat
         /\ DOMAIN q = 1..Len(q) /\ DOMAIN Append(q, x) = 1..(Len(q) + 1)
         /\ \A i \in DOMAIN q : i \in DOMAIN Append(q, x) /\ Append(q, x)[i] = q[i]
         /\ \A i \in DOMAIN Append(q, x) : i \in DOMAIN q \/ i = Len(q) + 1
         /\ Append(q, x)[Len(q) + 1] = x
  BY LenProperties, AppendProperties

\* Every assignment to fields of a build's locals leaves locals.
LEMMA JobFields ==
  ASSUME NEW r \in Job
  PROVE  /\ \A p \in Places : [r EXCEPT !.pc = p] \in Job
         /\ \A o \in RunStatuses \cup {"error"}, p \in Places : [r EXCEPT !.outcome = o, !.pc = p] \in Job
         /\ \A n \in Nat, m \in BOOLEAN, p \in Places :
              [r EXCEPT !.scan = n, !.matched = m, !.pc = p] \in Job
         /\ \A o \in BOOLEAN, p \in Places : [r EXCEPT !.only = o, !.pc = p] \in Job
         /\ \A s \in RunStatuses, t \in SUBSET Files, p \in Places :
              [r EXCEPT !.status = s, !.same = TRUE, !.todo = t, !.pc = p] \in Job
         /\ \A t \in SUBSET Files, p \in Places : [r EXCEPT !.todo = t, !.pc = p] \in Job
         /\ \A c \in Tree, t \in SUBSET Files, p \in Places :
              [r EXCEPT !.copy = c, !.todo = t, !.pc = p] \in Job
         /\ \A c \in Tree, s \in RunStatuses, p \in Places :
              [r EXCEPT !.built = c, !.status = s, !.pc = p] \in Job
         /\ \A s \in RunStatuses, p \in Places : [r EXCEPT !.status = s, !.pc = p] \in Job
         /\ \A o \in BOOLEAN, t \in SUBSET Files : [r EXCEPT !.same = o, !.todo = t] \in Job
         /\ \A o \in BOOLEAN, s \in RunStatuses, p \in Places :
              [r EXCEPT !.same = o, !.pc = p, !.status = s] \in Job
         /\ \A m \in BOOLEAN : [r EXCEPT !.matched = m] \in Job
         /\ \A q \in Seq(StepStatuses), s \in RunStatuses, c \in Tree, p \in Places :
              [r EXCEPT !.steps = q, !.status = s, !.copy = c, !.todo = Files, !.same = TRUE, !.pc = p] \in Job
  BY DEF Job

LEMMA InitTypes == Init => TypeOK
  <1> SUFFICES ASSUME Init PROVE TypeOK
    OBVIOUS
  <1>1. NoJob \in Job
    BY EmptySeq DEF NoJob, Job, Places, Tree, RunStatuses, NoScan
  <1>2. scans \in Seq(Tree) /\ saved \in Seq(Builds)
    <2>1. <<>> \in Seq(Tree) /\ <<>> \in Seq(Builds)
      BY EmptySeq
    <2>2. tree \in Tree => <<tree>> \in Seq(Tree)
      OBVIOUS
    <2>3. QED BY <2>1, <2>2 DEF Init
  <1>3. tree \in Tree /\ edits \in 0..MaxEdits
    BY BuildRunAssumption DEF Init
  <1>4. control \in [Builds -> ControlStates] /\ ui \in [Builds -> {"idle", "busy", "delivered"}]
    BY DEF Init, ControlStates
  <1>5. locked \in BOOLEAN /\ accepted \in [Builds -> BOOLEAN]
    BY DEF Init
  <1>6. job \in [Builds -> Job]
    BY <1>1 DEF Init
  <1>7. QED
    BY <1>2, <1>3, <1>4, <1>5, <1>6, Zenon DEF TypeOK

\* A step of the worker of b that replaces the locals of b by r.
Local(b, r) == job' = [c \in Builds |-> IF c = b THEN r ELSE job[c]]

LEMMA LocalTypes ==
  ASSUME TypeOK, NEW b \in Builds, NEW r \in Job, Local(b, r), UNCHANGED shared
  PROVE  TypeOK'
  <1>1. job' \in [Builds -> Job]
    BY DEF TypeOK, Local
  <1>2. QED
    BY <1>1, Zenon DEF TypeOK, shared

-----------------------------------------------------------------------------
(* The locals of a build: every worker action preserves JobInv             *)

\* A local step keeps the invariant when the new locals do.
LEMMA LocalKeeps ==
  ASSUME IInv, NEW b \in Builds, NEW r \in Job, Local(b, r), UNCHANGED shared,
         r.pc # "idle", job[b].pc # "idle",
         JobInv(r, control[b], accepted[b], Saved(b))
  PROVE  IInv'
  <1>1. TypeOK'
    BY LocalTypes DEF IInv
  <1>2. ASSUME NEW c \in Builds
        PROVE  /\ ui'[c] = "idle" => job'[c].pc = "idle"
               /\ JobInv(job'[c], control'[c], accepted'[c], Saved(c)')
    <2>1. /\ ui' = ui /\ control' = control /\ accepted' = accepted /\ scans' = scans
          /\ Saved(c)' <=> Saved(c)
      BY DEF shared, Saved
    <2>2. CASE c = b
      <3>1. job'[c] = r /\ ui[c] # "idle"
        BY <2>2 DEF Local, IInv
      <3>2. JobInv(r, control[c], accepted[c], Saved(c)')
        BY <2>1, <2>2, Zenon DEF JobInv, CancelInv
      <3>3. QED BY <2>1, <3>1, <3>2
    <2>3. CASE c # b
      <3>1. job'[c] = job[c]
        BY <2>3 DEF Local
      <3>2. JobInv(job[c], control[c], accepted[c], Saved(c)')
        BY <2>1, Zenon DEF IInv, JobInv, CancelInv
      <3>3. QED BY <2>1, <3>1, <3>2 DEF IInv
    <2>4. QED BY <2>2, <2>3
  <1>3. (\A c \in Builds : /\ ui[c] = "idle" => job[c].pc = "idle"
                          /\ JobInv(job[c], control[c], accepted[c], Saved(c)))'
    <2>1. scans' = scans
      BY DEF shared
    <2>2. QED BY <1>2, <2>1 DEF JobInv, ScanInv, ControlInv, CancelInv, StepsInv
  <1>4. QED BY <1>1, <1>3, Zenon DEF IInv

LEMMA JobFacts ==
  ASSUME IInv, NEW b \in Builds
  PROVE  /\ job[b] \in Job /\ accepted[b] \in BOOLEAN /\ control[b] \in ControlStates
         /\ JobInv(job[b], control[b], accepted[b], Saved(b))
         /\ job = [c \in Builds |-> job[c]]
  BY DEF IInv, TypeOK

LEMMA EscapeKeeps ==
  ASSUME IInv, NEW b \in Builds, Escape(b), UNCHANGED shared,
         job[b].pc \in {"reading", "claiming", "logging", "saving"}
  PROVE  IInv'
  <1> DEFINE r == [job[b] EXCEPT !.outcome = "error", !.pc = "threw"]
  <1>1. job[b] \in Job /\ JobInv(job[b], control[b], accepted[b], Saved(b))
    BY JobFacts
  <1>2. r \in Job
    BY <1>1, JobFields DEF Places
  <1>3. Local(b, r)
    BY JobFacts DEF Escape, Local
  <1>4. /\ r.pc = "threw" /\ r.scan = job[b].scan /\ r.status = job[b].status /\ r.steps = job[b].steps
        /\ r.built = job[b].built /\ r.copy = job[b].copy /\ r.same = job[b].same
    BY <1>1 DEF Job
  <1> HIDE DEF r
  <1>5. JobInv(r, control[b], accepted[b], Saved(b))
    <2>1. ControlInv(r, control[b], accepted[b])
      BY <1>1, <1>4 DEF JobInv, ControlInv, Fenced
    <2>2. CancelInv(r, accepted[b], Saved(b))
      BY <1>1, <1>4 DEF JobInv, CancelInv, Fenced
    <2>3. ScanInv(r)
      BY <1>1, <1>4 DEF JobInv, ScanInv, StepsInv, Whole, Ending, Preparing
    <2>4. StepsInv(r)
      BY <1>1, <1>4 DEF JobInv, StepsInv, Preparing
    <2>5. QED BY <2>1, <2>2, <2>3, <2>4 DEF JobInv
  <1>6. QED BY <1>2, <1>3, <1>4, <1>5, LocalKeeps

\* The last comparison begins, with a status that is not a success.
LEMMA FailsKeeps ==
  ASSUME IInv, NEW b \in Builds, Fails(b), UNCHANGED shared,
         job[b].pc \in (Preparing \ {"idle", "reading"}) \cup {"running", "generated"}
  PROVE  IInv'
  <1> DEFINE st == IF Cancelled(control[b]) THEN "cancelled" ELSE "failed"
             r  == [job[b] EXCEPT !.status = st, !.same = TRUE, !.todo = Files, !.pc = "verifying"]
  <1>1. job[b] \in Job /\ JobInv(job[b], control[b], accepted[b], Saved(b))
    BY JobFacts
  <1>2. r \in Job
    BY <1>1, JobFields DEF Places, RunStatuses, ProcessStatuses
  <1>3. Local(b, r)
    BY JobFacts DEF Fails, Local
  <1>4. /\ r.pc = "verifying" /\ r.scan = job[b].scan /\ r.status = st /\ r.steps = job[b].steps
        /\ st = "cancelled" \/ st = "failed"
        /\ st = "cancelled" => control[b] = "cancel_requested"
    BY <1>1 DEF Job, Cancelled
  <1> HIDE DEF r, st
  <1>5. JobInv(r, control[b], accepted[b], Saved(b))
    <2>1. ControlInv(r, control[b], accepted[b])
      BY <1>1, <1>4 DEF JobInv, ControlInv, Fenced, Preparing
    <2>2. CancelInv(r, accepted[b], Saved(b))
      BY <1>1, <1>4 DEF JobInv, ControlInv, CancelInv, Fenced, Preparing
    <2>3. ScanInv(r)
      BY <1>1, <1>4 DEF JobInv, ScanInv, Whole, Ending, Preparing
    <2>4. StepsInv(r)
      BY <1>1, <1>4 DEF JobInv, StepsInv, Preparing, Whole
    <2>5. QED BY <2>1, <2>2, <2>3, <2>4 DEF JobInv
  <1>6. QED BY <1>2, <1>3, <1>4, <1>5, LocalKeeps

\* The preparation moves on: only the place, the paths to visit and the copy change.
LEMMA MoveKeeps ==
  ASSUME IInv, NEW b \in Builds, NEW r \in Job, Local(b, r), UNCHANGED shared,
         job[b].pc \in Preparing \ {"idle", "reading"}, r.pc \in Preparing \ {"idle", "reading"},
         r.scan = job[b].scan, r.status = job[b].status, r.steps = job[b].steps
  PROVE  IInv'
  <1>1. job[b] \in Job /\ JobInv(job[b], control[b], accepted[b], Saved(b))
    BY JobFacts
  <1>2. JobInv(r, control[b], accepted[b], Saved(b))
    <2>1. ControlInv(r, control[b], accepted[b])
      BY <1>1 DEF JobInv, ControlInv, Fenced, Preparing
    <2>2. CancelInv(r, accepted[b], Saved(b))
      BY <1>1 DEF JobInv, ControlInv, CancelInv, Fenced, Preparing
    <2>3. ScanInv(r)
      BY <1>1 DEF JobInv, ScanInv, StepsInv, Whole, Ending, Preparing
    <2>4. StepsInv(r)
      BY <1>1 DEF JobInv, StepsInv, Preparing, Whole
    <2>5. QED BY <2>1, <2>2, <2>3, <2>4 DEF JobInv
  <1>3. QED BY <1>1, <1>2, LocalKeeps DEF Preparing

LEMMA ReadScanKeeps ==
  ASSUME IInv, NEW b \in Builds, ReadScan(b)
  PROVE  IInv'
  <1>1. CASE Escape(b)
    BY <1>1, EscapeKeeps DEF ReadScan, At
  <1>2. CASE ~Escape(b)
    <2> DEFINE m == tree = scans[Len(scans)]
               r == [job[b] EXCEPT !.scan = Len(scans), !.matched = m, !.pc = "claiming"]
    <2>1. job[b] \in Job /\ JobInv(job[b], control[b], accepted[b], Saved(b))
      BY JobFacts
    <2>2. Len(scans) \in DOMAIN scans /\ Len(scans) \in Nat /\ Len(scans) # 0
      <3>1. scans \in Seq(Tree) /\ scans # <<>>
        BY <1>2 DEF ReadScan, IInv, TypeOK
      <3>2. QED BY <3>1, LenProperties, EmptySeq
    <2>3. m \in BOOLEAN
      OBVIOUS
    <2>4. Local(b, r) /\ job[b].pc = "reading" /\ UNCHANGED shared
      BY <1>2, JobFacts DEF ReadScan, Local, At
    <2> HIDE DEF m
    <2>5. r \in Job
      BY <2>1, <2>2, <2>3, JobFields DEF Places
    <2>6. r.pc = "claiming" /\ r.scan = Len(scans) /\ r.status = job[b].status /\ r.steps = job[b].steps
      BY <2>1 DEF Job
    <2> HIDE DEF r
    <2>7. JobInv(r, control[b], accepted[b], Saved(b))
      <3>1. ControlInv(r, control[b], accepted[b])
        BY <2>1, <2>4, <2>6 DEF JobInv, ControlInv, Fenced
      <3>2. CancelInv(r, accepted[b], Saved(b))
        BY <2>1, <2>4, <2>6 DEF JobInv, CancelInv, Fenced
      <3>3. ScanInv(r)
        BY <2>1, <2>2, <2>4, <2>6 DEF JobInv, ScanInv, StepsInv, Whole, Preparing, NoScan
      <3>4. StepsInv(r)
        BY <2>1, <2>4, <2>6 DEF JobInv, StepsInv, Preparing
      <3>5. QED BY <3>1, <3>2, <3>3, <3>4 DEF JobInv
    <2>8. QED BY <2>4, <2>5, <2>6, <2>7, LocalKeeps
  <1>3. QED BY <1>1, <1>2

LEMMA VisitKeeps ==
  ASSUME IInv, NEW b \in Builds, NEW f \in Files, NEW next \in {"copying", "comparing"},
         Visit(b, f, next), job[b].pc \in {"prechecking", "rechecking"}
  PROVE  IInv'
  <1>1. CASE Fails(b)
    BY <1>1, FailsKeeps DEF Visit, Preparing
  <1>2. CASE ~Fails(b)
    <2>1. job[b] \in Job /\ UNCHANGED shared
      BY JobFacts DEF Visit
    <2>2. CASE LastToVisit(b, f)
      <3> DEFINE r == [job[b] EXCEPT !.todo = Files, !.pc = next]
      <3>1. r \in Job
        BY <2>1, JobFields DEF Places
      <3>2. Local(b, r)
        BY <1>2, <2>2, JobFacts DEF Visit, Local
      <3>3. r.pc = next /\ r.scan = job[b].scan /\ r.status = job[b].status /\ r.steps = job[b].steps
        BY <2>1 DEF Job
      <3> HIDE DEF r
      <3>4. QED BY <2>1, <3>1, <3>2, <3>3, MoveKeeps DEF Preparing
    <2>3. CASE ~LastToVisit(b, f)
      <3> DEFINE r == [job[b] EXCEPT !.todo = job[b].todo \ {f}]
      <3>1. r \in Job
        BY <2>1 DEF Job
      <3>2. Local(b, r)
        BY <1>2, <2>3, JobFacts DEF Visit, Local
      <3>3. r.pc = job[b].pc /\ r.scan = job[b].scan /\ r.status = job[b].status /\ r.steps = job[b].steps
        BY <2>1 DEF Job
      <3> HIDE DEF r
      <3>4. QED BY <2>1, <3>1, <3>2, <3>3, MoveKeeps DEF Preparing
    <2>4. QED BY <2>2, <2>3
  <1>3. QED BY <1>1, <1>2

LEMMA CopyFileKeeps ==
  ASSUME IInv, NEW b \in Builds, NEW f \in Files, CopyFile(b, f)
  PROVE  IInv'
  <1>1. CASE Fails(b)
    BY <1>1, FailsKeeps DEF CopyFile, Preparing, At
  <1>2. CASE ~Fails(b)
    <2> DEFINE files == [job[b].copy EXCEPT ![f] = tree[f]]
               place == IF LastToVisit(b, f) THEN "copied" ELSE job[b].pc
               r == [job[b] EXCEPT !.copy = files, !.todo = job[b].todo \ {f}, !.pc = place]
    <2>1. job[b] \in Job /\ UNCHANGED shared /\ job[b].pc = "copying"
      BY JobFacts DEF CopyFile, At
    <2>2. files \in Tree
      <3>1. tree \in Tree /\ job[b].copy \in Tree
        BY <2>1 DEF IInv, TypeOK, Job
      <3>2. QED BY <3>1 DEF Tree
    <2>3. Local(b, r)
      BY <1>2, JobFacts DEF CopyFile, Local
    <2>4. place \in {"copying", "copied"}
      BY <2>1
    <2>5. job[b].todo \ {f} \in SUBSET Files
      BY <2>1 DEF Job
    <2> HIDE DEF files, place
    <2>6. r \in Job
      BY <2>1, <2>2, <2>4, <2>5, JobFields DEF Places
    <2>7. r.pc = place /\ r.scan = job[b].scan /\ r.status = job[b].status /\ r.steps = job[b].steps
      BY <2>1 DEF Job
    <2> HIDE DEF r
    <2>8. QED BY <2>1, <2>3, <2>4, <2>6, <2>7, MoveKeeps DEF Preparing
  <1>3. QED BY <1>1, <1>2

LEMMA CompareCopyKeeps ==
  ASSUME IInv, NEW b \in Builds, CompareCopy(b)
  PROVE  IInv'
  <1>1. CASE Fails(b)
    BY <1>1, FailsKeeps DEF CompareCopy, Preparing, At
  <1>2. CASE ~Fails(b)
    <2> DEFINE r == [job[b] EXCEPT !.built = job[b].copy, !.status = "passed", !.pc = "staging"]
    <2>1. /\ job[b] \in Job /\ JobInv(job[b], control[b], accepted[b], Saved(b))
          /\ UNCHANGED shared /\ job[b].pc = "comparing" /\ job[b].copy = scans[job[b].scan]
      BY <1>2, JobFacts DEF CompareCopy, At, Scanned
    <2>2. job[b].copy \in Tree
      BY <2>1 DEF Job
    <2>3. r \in Job
      BY <2>1, <2>2, JobFields DEF Places, RunStatuses, ProcessStatuses
    <2>4. Local(b, r)
      BY <1>2, JobFacts DEF CompareCopy, BeginStages, Local
    <2>5. /\ r.pc = "staging" /\ r.scan = job[b].scan /\ r.status = "passed"
          /\ r.steps = job[b].steps /\ r.built = job[b].copy
      BY <2>1 DEF Job
    <2> HIDE DEF r
    <2>6. JobInv(r, control[b], accepted[b], Saved(b))
      <3>1. ControlInv(r, control[b], accepted[b])
        BY <2>1, <2>5 DEF JobInv, ControlInv, Fenced
      <3>2. CancelInv(r, accepted[b], Saved(b))
        BY <2>1, <2>5 DEF JobInv, CancelInv, Fenced
      <3>3. ScanInv(r)
        BY <2>1, <2>5 DEF JobInv, ScanInv, Whole, Ending
      <3>4. StepsInv(r)
        BY <2>1, <2>5 DEF JobInv, StepsInv, Preparing
      <3>5. QED BY <3>1, <3>2, <3>3, <3>4 DEF JobInv
    <2>7. QED BY <2>1, <2>3, <2>4, <2>5, <2>6, LocalKeeps
  <1>3. QED BY <1>1, <1>2

LEMMA PrepareKeeps ==
  ASSUME IInv, NEW b \in Builds, Prepare(b)
  PROVE  IInv'
  <1>1. job[b] \in Job
    BY JobFacts
  <1>2. CASE Claim(b)
    <2>1. CASE Escape(b)
      BY <1>2, <2>1, EscapeKeeps DEF Claim, At
    <2>2. CASE ~Escape(b)
      <3> DEFINE r == [job[b] EXCEPT !.pc = "claimed"]
      <3>1. r \in Job
        BY <1>1, JobFields DEF Places
      <3>2. Local(b, r)
        BY <1>2, <2>2, JobFacts DEF Claim, Local
      <3>3. r.pc = "claimed" /\ r.scan = job[b].scan /\ r.status = job[b].status /\ r.steps = job[b].steps
        BY <1>1 DEF Job
      <3> HIDE DEF r
      <3>4. QED BY <1>2, <3>1, <3>2, <3>3, MoveKeeps DEF Preparing, Claim, At
    <2>3. QED BY <2>1, <2>2
  <1>3. CASE Continue(b)
    <2>1. PICK step \in {<<"claimed", "prechecking">>, <<"copied", "rechecking">>} :
            At(b, step[1]) /\ job' = [job EXCEPT ![b].todo = Files, ![b].pc = step[2]]
      BY <1>3 DEF Continue
    <2>2. job[b].pc \in {"claimed", "copied"} /\ step[2] \in {"prechecking", "rechecking"}
      BY <2>1 DEF At
    <2> DEFINE r == [job[b] EXCEPT !.todo = Files, !.pc = step[2]]
    <2>3. r \in Job
      BY <1>1, <2>2, JobFields DEF Places
    <2>4. Local(b, r)
      BY <2>1, JobFacts DEF Local
    <2>5. r.pc = step[2] /\ r.scan = job[b].scan /\ r.status = job[b].status /\ r.steps = job[b].steps
      BY <1>1 DEF Job
    <2> HIDE DEF r
    <2>6. QED BY <1>3, <2>2, <2>3, <2>4, <2>5, MoveKeeps DEF Preparing, Continue
  <1>4. ASSUME NEW f \in Files, Precheck(b, f) \/ CopyFile(b, f) \/ Recheck(b, f)
        PROVE  IInv'
    BY <1>4, VisitKeeps, CopyFileKeeps DEF Precheck, Recheck, At
  <1>5. CASE PrepareCancelled(b)
    BY <1>5, FailsKeeps DEF PrepareCancelled, Preparing
  <1>6. QED
    BY <1>2, <1>3, <1>4, <1>5, ReadScanKeeps, CompareCopyKeeps DEF Prepare

-----------------------------------------------------------------------------
(* The stages *)

LEMMA StageDoneKeeps ==
  ASSUME IInv, NEW b \in Builds, NEW step \in StepStatuses, NEW st \in RunStatuses, NEW files \in Tree,
         StageDone(b, step, st, files), UNCHANGED shared,
         job[b].pc \in {"staging", "running"},
         step # "skipped" => job[b].status = "passed",
         st \in Whole => st = "passed" /\ step = "passed",
         st = "cancelled" => accepted[b]
  PROVE  IInv'
  <1> DEFINE place == IF Len(job[b].steps) + 1 < Stages(b) THEN "staging"
                      ELSE IF job[b].only THEN "generated" ELSE "verifying"
             q == Append(job[b].steps, step)
             r == [job[b] EXCEPT !.steps = q, !.status = st, !.copy = files,
                                 !.todo = Files, !.same = TRUE, !.pc = place]
  <1>1. job[b] \in Job /\ JobInv(job[b], control[b], accepted[b], Saved(b))
    BY JobFacts
  <1>2. Local(b, r)
    BY JobFacts DEF StageDone, Local
  <1>3. place \in {"staging", "generated", "verifying"}
    OBVIOUS
  <1>4. job[b].steps \in Seq(StepStatuses)
    BY <1>1 DEF Job
  <1>5. /\ q \in Seq(StepStatuses)
        /\ DOMAIN job[b].steps = 1..Len(job[b].steps) /\ DOMAIN q = 1..(Len(job[b].steps) + 1)
        /\ Len(job[b].steps) \in Nat
        /\ \A i \in DOMAIN job[b].steps : q[i] = job[b].steps[i]
        /\ \A i \in DOMAIN q : i \in DOMAIN job[b].steps \/ i = Len(job[b].steps) + 1
        /\ q[Len(job[b].steps) + 1] = step
    <2> DEFINE p == job[b].steps
    <2>1. p \in Seq(StepStatuses)
      BY <1>4
    <2> HIDE DEF p
    <2>2. /\ Append(p, step) \in Seq(StepStatuses)
          /\ DOMAIN p = 1..Len(p) /\ DOMAIN Append(p, step) = 1..(Len(p) + 1)
          /\ Len(p) \in Nat
          /\ \A i \in DOMAIN p : Append(p, step)[i] = p[i]
          /\ \A i \in DOMAIN Append(p, step) : i \in DOMAIN p \/ i = Len(p) + 1
          /\ Append(p, step)[Len(p) + 1] = step
      BY <2>1, AppendFacts
    <2>3. QED BY <2>2 DEF p
  <1> HIDE DEF place, q
  <1>6. r \in Job
    <2>1. q \in Seq(StepStatuses) /\ place \in Places
      BY <1>3, <1>5 DEF Places
    <2>2. QED BY <1>1, <2>1 DEF Job
  <1>7. /\ r.pc = place /\ r.scan = job[b].scan /\ r.status = st /\ r.steps = q
        /\ r.built = job[b].built
    BY <1>1 DEF Job
  <1> HIDE DEF r
  <1>8. JobInv(r, control[b], accepted[b], Saved(b))
    <2>1. ControlInv(r, control[b], accepted[b])
      BY <1>1, <1>3, <1>7 DEF JobInv, ControlInv, Fenced
    <2>2. CancelInv(r, accepted[b], Saved(b))
      BY <1>1, <1>3, <1>7 DEF JobInv, CancelInv, Fenced
    <2>3. ScanInv(r)
      BY <1>1, <1>3, <1>7 DEF JobInv, ScanInv, Whole, Ending, StepStatuses
    <2>4. StepsInv(r)
      <3>1. ASSUME NEW i \in DOMAIN q, NEW k \in DOMAIN q, i < k, q[i] # "passed"
            PROVE  q[k] = "skipped"
        <4>1. i \in DOMAIN job[b].steps
          BY <1>5, <3>1
        <4>2. CASE k \in DOMAIN job[b].steps
          BY <1>1, <1>5, <3>1, <4>1, <4>2 DEF JobInv, StepsInv
        <4>3. CASE k = Len(job[b].steps) + 1
          BY <1>1, <1>5, <3>1, <4>1, <4>3 DEF JobInv, StepsInv, Whole
        <4>4. QED BY <1>5, <4>2, <4>3
      <3>2. ASSUME st \in Whole, NEW k \in DOMAIN q PROVE q[k] = "passed"
        BY <1>1, <1>5, <3>2 DEF JobInv, StepsInv, Whole
      <3>3. QED BY <1>3, <1>7, <3>1, <3>2 DEF StepsInv, Preparing
    <2>5. QED BY <2>1, <2>2, <2>3, <2>4 DEF JobInv
  <1>9. QED BY <1>2, <1>3, <1>6, <1>7, <1>8, LocalKeeps

LEMMA StageKeeps ==
  ASSUME IInv, NEW b \in Builds, Stage(b)
  PROVE  IInv'
  <1>1. job[b] \in Job /\ JobInv(job[b], control[b], accepted[b], Saved(b))
    BY JobFacts
  <1>2. job[b].copy \in Tree /\ job[b].status \in RunStatuses
    BY <1>1 DEF Job
  <1>3. ASSUME Skip(b) PROVE IInv'
    <2>1. job[b].pc = "staging" /\ UNCHANGED shared
      BY <1>3 DEF Skip, At
    <2>2. CASE job[b].status # "passed"
      <3>1. StageDone(b, "skipped", job[b].status, job[b].copy)
        BY <1>3, <2>2 DEF Skip
      <3>2. job[b].status \notin Whole /\ (job[b].status = "cancelled" => accepted[b])
        BY <1>1, <2>1, <2>2 DEF JobInv, ScanInv, CancelInv, Whole, Ending
      <3>3. QED
        BY <1>2, <2>1, <3>1, <3>2, StageDoneKeeps DEF StepStatuses
    <2>3. CASE job[b].status = "passed"
      <3>1. control[b] = "cancel_requested" /\ StageDone(b, "cancelled", "cancelled", job[b].copy)
        BY <1>3, <2>3 DEF Skip, Cancelled
      <3>2. accepted[b]
        BY <1>1, <3>1 DEF JobInv, ControlInv
      <3>3. QED
        BY <1>2, <2>1, <2>3, <3>1, <3>2, StageDoneKeeps DEF StepStatuses, RunStatuses, ProcessStatuses, Whole
    <2>4. QED BY <2>2, <2>3
  <1>4. ASSUME StartStage(b) PROVE IInv'
    <2> DEFINE r == [job[b] EXCEPT !.pc = "running"]
    <2>1. r \in Job
      BY <1>1, JobFields DEF Places
    <2>2. Local(b, r) /\ UNCHANGED shared /\ job[b].pc = "staging" /\ job[b].status = "passed"
      BY <1>4, JobFacts DEF StartStage, Local, At
    <2>3. /\ r.pc = "running" /\ r.scan = job[b].scan /\ r.status = job[b].status
          /\ r.steps = job[b].steps /\ r.built = job[b].built
      BY <1>1 DEF Job
    <2> HIDE DEF r
    <2>4. JobInv(r, control[b], accepted[b], Saved(b))
      <3>1. ControlInv(r, control[b], accepted[b]) /\ CancelInv(r, accepted[b], Saved(b))
        BY <1>1, <2>2, <2>3 DEF JobInv, ControlInv, CancelInv, Fenced
      <3>2. ScanInv(r) /\ StepsInv(r)
        BY <1>1, <2>2, <2>3 DEF JobInv, ScanInv, StepsInv, Whole, Ending, Preparing
      <3>3. QED BY <3>1, <3>2 DEF JobInv
    <2>5. QED BY <2>1, <2>2, <2>3, <2>4, LocalKeeps
  <1>5. ASSUME EndStage(b) PROVE IInv'
    <2>1. job[b].pc = "running" /\ UNCHANGED shared
      BY <1>5 DEF EndStage, At
    <2>2. CASE Fails(b)
      BY <2>1, <2>2, FailsKeeps
    <2>3. CASE ~Fails(b)
      <3>1. PICK st \in ProcessStatuses : /\ MayAnswer(st, Cancelled(control[b]), TRUE)
                                          /\ \E files \in Tree : StageDone(b, st, st, files)
        BY <1>5, <2>3 DEF EndStage
      <3>2. PICK files \in Tree : StageDone(b, st, st, files)
        BY <3>1
      <3>3. job[b].status = "passed" /\ (st = "cancelled" => accepted[b])
        BY <1>1, <2>1, <3>1 DEF JobInv, StepsInv, ControlInv, MayAnswer, Cancelled
      <3>4. QED
        BY <2>1, <3>2, <3>3, StageDoneKeeps DEF StepStatuses, RunStatuses, ProcessStatuses, Whole
    <2>4. QED BY <2>2, <2>3
  <1>6. ASSUME FinishConfigure(b) PROVE IInv'
    <2>1. job[b].pc = "generated" /\ UNCHANGED shared
      BY <1>6 DEF FinishConfigure, At
    <2>2. CASE Fails(b)
      BY <2>1, <2>2, FailsKeeps
    <2>3. ASSUME job[b].status = "passed", job[b].copy = Scanned(b), Configured(b) PROVE IInv'
      <3> DEFINE r == [job[b] EXCEPT !.status = "configured", !.pc = "verifying"]
      <3>1. r \in Job
        BY <1>1, JobFields DEF Places, RunStatuses
      <3>2. Local(b, r) /\ job[b].copy = scans[job[b].scan]
        BY <2>3, JobFacts DEF Configured, Local, Scanned
      <3>3. /\ r.pc = "verifying" /\ r.scan = job[b].scan /\ r.status = "configured"
            /\ r.steps = job[b].steps /\ r.built = job[b].built /\ r.copy = job[b].copy
        BY <1>1 DEF Job
      <3> HIDE DEF r
      <3>4. JobInv(r, control[b], accepted[b], Saved(b))
        <4>1. ControlInv(r, control[b], accepted[b]) /\ CancelInv(r, accepted[b], Saved(b))
          BY <1>1, <2>1, <3>3 DEF JobInv, ControlInv, CancelInv, Fenced
        <4>2. ScanInv(r) /\ StepsInv(r)
          BY <1>1, <2>1, <2>3, <3>2, <3>3 DEF JobInv, ScanInv, StepsInv, Whole, Ending, Preparing
        <4>3. QED BY <4>1, <4>2 DEF JobInv
      <3>5. QED BY <2>1, <3>1, <3>2, <3>3, <3>4, LocalKeeps
    <2>4. ASSUME job[b].status # "passed", job' = [job EXCEPT ![b].pc = "verifying"] PROVE IInv'
      <3> DEFINE r == [job[b] EXCEPT !.pc = "verifying"]
      <3>1. r \in Job
        BY <1>1, JobFields DEF Places
      <3>2. Local(b, r)
        BY <2>4, JobFacts DEF Local
      <3>3. /\ r.pc = "verifying" /\ r.scan = job[b].scan /\ r.status = job[b].status
            /\ r.steps = job[b].steps /\ r.built = job[b].built /\ r.copy = job[b].copy
        BY <1>1 DEF Job
      <3> HIDE DEF r
      <3>4. JobInv(r, control[b], accepted[b], Saved(b))
        <4>1. ControlInv(r, control[b], accepted[b]) /\ CancelInv(r, accepted[b], Saved(b))
          BY <1>1, <2>1, <3>3 DEF JobInv, ControlInv, CancelInv, Fenced
        <4>2. ScanInv(r) /\ StepsInv(r)
          BY <1>1, <2>1, <3>3 DEF JobInv, ScanInv, StepsInv, Whole, Ending, Preparing
        <4>3. QED BY <4>1, <4>2 DEF JobInv
      <3>5. QED BY <2>1, <3>1, <3>2, <3>3, <3>4, LocalKeeps
    <2>5. QED BY <1>6, <2>2, <2>3, <2>4 DEF FinishConfigure
  <1>7. QED BY <1>3, <1>4, <1>5, <1>6 DEF Stage

-----------------------------------------------------------------------------
(* The end *)

LEMMA VerifyKeeps ==
  ASSUME IInv, NEW b \in Builds, NEW f \in Files, Verify(b, f)
  PROVE  IInv'
  <1>1. /\ job[b] \in Job /\ JobInv(job[b], control[b], accepted[b], Saved(b))
        /\ job[b].pc = "verifying" /\ UNCHANGED shared
    BY JobFacts DEF Verify, At
  <1>2. PICK readable \in BOOLEAN :
          LET same == job[b].same /\ readable /\ tree[f] = Scanned(b)[f]
              late == ~same /\ job[b].status \in {"passed", "configured"}
          IN  job' = IF LastToVisit(b, f)
                     THEN [job EXCEPT ![b].same = same, ![b].pc = "fencing",
                                      ![b].status = IF late THEN "source_changed" ELSE @]
                     ELSE [job EXCEPT ![b].same = same, ![b].todo = @ \ {f}]
    BY DEF Verify
  <1> DEFINE same == job[b].same /\ readable /\ tree[f] = Scanned(b)[f]
             st   == IF ~same /\ job[b].status \in Whole THEN "source_changed" ELSE job[b].status
  <1>3. same \in BOOLEAN /\ job[b].status \in RunStatuses
    BY <1>1 DEF Job
  <1>4. st \in RunStatuses
    BY <1>3 DEF RunStatuses
  <1>5. (st \in Whole => same) /\ (st # job[b].status => st = "source_changed")
    BY DEF Whole
  <1>6. CASE LastToVisit(b, f)
    <2> DEFINE r == [job[b] EXCEPT !.same = same, !.pc = "fencing", !.status = st]
    <2>1. Local(b, r)
      BY <1>2, <1>6, JobFacts DEF Local, Whole
    <2> HIDE DEF same, st
    <2>2. r \in Job
      BY <1>1, <1>3, <1>4, JobFields DEF Places
    <2>3. /\ r.pc = "fencing" /\ r.scan = job[b].scan /\ r.status = st /\ r.same = same
          /\ r.steps = job[b].steps /\ r.built = job[b].built /\ r.copy = job[b].copy
      BY <1>1 DEF Job
    <2> HIDE DEF r
    <2>4. JobInv(r, control[b], accepted[b], Saved(b))
      <3>1. ControlInv(r, control[b], accepted[b]) /\ CancelInv(r, accepted[b], Saved(b))
        BY <1>1, <1>5, <2>3 DEF JobInv, ControlInv, CancelInv, Fenced
      <3>2. ScanInv(r) /\ StepsInv(r)
        BY <1>1, <1>5, <2>3 DEF JobInv, ScanInv, StepsInv, Whole, Ending, Preparing
      <3>3. QED BY <3>1, <3>2 DEF JobInv
    <2>5. QED BY <1>1, <2>1, <2>2, <2>3, <2>4, LocalKeeps
  <1>7. CASE ~LastToVisit(b, f)
    <2> DEFINE r == [job[b] EXCEPT !.same = same, !.todo = job[b].todo \ {f}]
    <2>1. Local(b, r)
      BY <1>2, <1>7, JobFacts DEF Local
    <2> HIDE DEF same
    <2>2. r \in Job
      BY <1>1, <1>3 DEF Job
    <2>3. /\ r.pc = "verifying" /\ r.scan = job[b].scan /\ r.status = job[b].status
          /\ r.steps = job[b].steps /\ r.built = job[b].built /\ r.copy = job[b].copy
      BY <1>1 DEF Job
    <2> HIDE DEF r
    <2>4. JobInv(r, control[b], accepted[b], Saved(b))
      <3>1. ControlInv(r, control[b], accepted[b]) /\ CancelInv(r, accepted[b], Saved(b))
        BY <1>1, <2>3 DEF JobInv, ControlInv, CancelInv, Fenced
      <3>2. ScanInv(r) /\ StepsInv(r)
        BY <1>1, <2>3 DEF JobInv, ScanInv, StepsInv, Whole, Ending, Preparing
      <3>3. QED BY <3>1, <3>2 DEF JobInv
    <2>5. QED BY <1>1, <2>1, <2>2, <2>3, <2>4, LocalKeeps
  <1>8. QED BY <1>6, <1>7

\* Any step that concerns one build and leaves the scans alone.
LEMMA OneBuildKeeps ==
  ASSUME IInv, TypeOK', scans' = scans, NEW b \in Builds,
         \A c \in Builds \ {b} :
           /\ ui'[c] = ui[c] /\ job'[c] = job[c] /\ control'[c] = control[c]
           /\ accepted'[c] = accepted[c] /\ (Saved(c)' <=> Saved(c)),
         ui'[b] = "idle" => job'[b].pc = "idle",
         JobInv(job'[b], control'[b], accepted'[b], Saved(b)')
  PROVE  IInv'
  <1>1. ASSUME NEW c \in Builds
        PROVE  /\ ui'[c] = "idle" => job'[c].pc = "idle"
               /\ JobInv(job'[c], control'[c], accepted'[c], Saved(c)')
    <2>1. CASE c # b
      <3>1. JobInv(job[c], control[c], accepted[c], Saved(c)')
        BY <2>1, Zenon DEF IInv, JobInv, CancelInv
      <3>2. QED BY <2>1, <3>1 DEF IInv
    <2>2. QED BY <2>1
  <1>2. (\A c \in Builds : /\ ui[c] = "idle" => job[c].pc = "idle"
                          /\ JobInv(job[c], control[c], accepted[c], Saved(c)))'
    BY <1>1 DEF JobInv, ScanInv, ControlInv, CancelInv, StepsInv
  <1>3. QED BY <1>2, Zenon DEF IInv

LEMMA LogKeeps ==
  ASSUME IInv, NEW b \in Builds, WriteLogs(b) \/ SaveFails(b)
  PROVE  IInv'
  <1>1. CASE Escape(b)
    BY <1>1, EscapeKeeps DEF WriteLogs, SaveFails, At
  <1>2. CASE ~Escape(b)
    <2> DEFINE r == [job[b] EXCEPT !.pc = "saving"]
    <2>1. job[b] \in Job /\ JobInv(job[b], control[b], accepted[b], Saved(b))
      BY JobFacts
    <2>2. r \in Job
      BY <2>1, JobFields DEF Places
    <2>3. Local(b, r) /\ UNCHANGED shared /\ job[b].pc = "logging"
      BY <1>2, JobFacts DEF WriteLogs, SaveFails, Local, At
    <2>4. /\ r.pc = "saving" /\ r.scan = job[b].scan /\ r.status = job[b].status /\ r.same = job[b].same
          /\ r.steps = job[b].steps /\ r.built = job[b].built /\ r.copy = job[b].copy
      BY <2>1 DEF Job
    <2> HIDE DEF r
    <2>5. JobInv(r, control[b], accepted[b], Saved(b))
      <3>1. ControlInv(r, control[b], accepted[b]) /\ CancelInv(r, accepted[b], Saved(b))
        BY <2>1, <2>3, <2>4 DEF JobInv, ControlInv, CancelInv, Fenced
      <3>2. ScanInv(r) /\ StepsInv(r)
        BY <2>1, <2>3, <2>4 DEF JobInv, ScanInv, StepsInv, Whole, Ending, Preparing
      <3>3. QED BY <3>1, <3>2 DEF JobInv
    <2>6. QED BY <2>2, <2>3, <2>4, <2>5, LocalKeeps
  <1>3. QED BY <1>1, <1>2

LEMMA FenceKeeps ==
  ASSUME IInv, NEW b \in Builds, Fence(b)
  PROVE  IInv'
  <1> DEFINE w  == IF MayCommit(control[b]) THEN "committing" ELSE control[b]
             st == IF MayCommit(control[b]) THEN job[b].status ELSE "cancelled"
             r  == [job[b] EXCEPT !.status = st, !.pc = "logging"]
  <1>1. /\ job[b] \in Job /\ JobInv(job[b], control[b], accepted[b], Saved(b))
        /\ accepted[b] \in BOOLEAN /\ control[b] \in ControlStates
    BY JobFacts
  <1>2. job[b].pc = "fencing" /\ UNCHANGED <<tree, edits, scans, locked, saved, accepted, ui>>
    BY DEF Fence, At
  <1>3. job' = [c \in Builds |-> IF c = b THEN r ELSE job[c]]
    BY JobFacts DEF Fence
  <1>4. control' = [c \in Builds |-> IF c = b THEN w ELSE control[c]]
    BY DEF Fence, IInv, TypeOK
  <1>5. /\ control[b] = "cancel_requested" => w = "cancel_requested" /\ st = "cancelled"
        /\ control[b] = "running" => w = "committing" /\ st = job[b].status
        /\ control[b] \in {"cancel_requested", "running"}
    <2>1. control[b] # "finished" /\ control[b] # "committing"
      BY <1>1, <1>2 DEF JobInv, ControlInv
    <2>2. QED BY <1>1, <2>1 DEF MayCommit, ControlStates
  <1>6. st \in RunStatuses
    BY <1>1 DEF Job, RunStatuses, ProcessStatuses
  <1> HIDE DEF w, st
  <1>7. r \in Job
    BY <1>1, <1>6, JobFields DEF Places
  <1>8. /\ r.pc = "logging" /\ r.scan = job[b].scan /\ r.status = st /\ r.same = job[b].same
        /\ r.steps = job[b].steps /\ r.built = job[b].built /\ r.copy = job[b].copy
    BY <1>1 DEF Job
  <1> HIDE DEF r
  <1>9. TypeOK'
    <2>1. control' \in [Builds -> ControlStates] /\ job' \in [Builds -> Job]
      BY <1>3, <1>4, <1>5, <1>7 DEF IInv, TypeOK, ControlStates
    <2>2. QED BY <1>2, <2>1, Zenon DEF IInv, TypeOK
  <1>10. JobInv(r, w, accepted[b], Saved(b))
    <2>1. ControlInv(r, w, accepted[b])
      BY <1>1, <1>5, <1>8 DEF JobInv, ControlInv, Fenced
    <2>2. CancelInv(r, accepted[b], Saved(b))
      BY <1>1, <1>2, <1>5, <1>8 DEF JobInv, ControlInv, CancelInv
    <2>3. ScanInv(r) /\ StepsInv(r)
      BY <1>1, <1>2, <1>5, <1>8 DEF JobInv, ScanInv, StepsInv, Whole, Ending, Preparing
    <2>4. QED BY <2>1, <2>2, <2>3 DEF JobInv
  <1>11. JobInv(job'[b], control'[b], accepted'[b], Saved(b)')
    <2>1. job'[b] = r /\ control'[b] = w /\ accepted'[b] = accepted[b] /\ (Saved(b)' <=> Saved(b))
      BY <1>2, <1>3, <1>4 DEF Saved
    <2>2. QED BY <1>10, <2>1 DEF JobInv, CancelInv
  <1>12. \A c \in Builds \ {b} :
           /\ ui'[c] = ui[c] /\ job'[c] = job[c] /\ control'[c] = control[c]
           /\ accepted'[c] = accepted[c] /\ (Saved(c)' <=> Saved(c))
    BY <1>2, <1>3, <1>4 DEF Saved
  <1>13. ui'[b] # "idle"
    BY <1>2 DEF IInv
  <1>14. QED BY <1>2, <1>9, <1>11, <1>12, <1>13, OneBuildKeeps

LEMMA SaveKeeps ==
  ASSUME IInv, NEW b \in Builds, Save(b)
  PROVE  IInv'
  <1> DEFINE r == [job[b] EXCEPT !.outcome = job[b].status, !.pc = "returned"]
  <1>1. /\ job[b] \in Job /\ JobInv(job[b], control[b], accepted[b], Saved(b))
        /\ job[b].status \in RunStatuses
    BY JobFacts DEF Job
  <1>2. /\ job[b].pc = "saving" /\ UNCHANGED <<tree, edits, scans, locked, control, accepted, ui>>
        /\ saved' = Append(saved, b)
    BY DEF Save, At
  <1>3. job' = [c \in Builds |-> IF c = b THEN r ELSE job[c]]
    BY JobFacts DEF Save
  <1>4. r \in Job
    BY <1>1, JobFields DEF Places
  <1>5. /\ r.pc = "returned" /\ r.scan = job[b].scan /\ r.status = job[b].status /\ r.same = job[b].same
        /\ r.steps = job[b].steps /\ r.built = job[b].built /\ r.copy = job[b].copy
    BY <1>1 DEF Job
  <1> HIDE DEF r
  <1>6. /\ saved' \in Seq(Builds) /\ Saved(b)'
        /\ \A c \in Builds \ {b} : Saved(c)' <=> Saved(c)
    <2>1. saved \in Seq(Builds)
      BY DEF IInv, TypeOK
    <2>2. /\ Append(saved, b) \in Seq(Builds) /\ Len(saved) \in Nat
          /\ DOMAIN Append(saved, b) = 1..(Len(saved) + 1)
          /\ \A i \in DOMAIN saved : i \in DOMAIN Append(saved, b) /\ Append(saved, b)[i] = saved[i]
          /\ \A i \in DOMAIN Append(saved, b) : i \in DOMAIN saved \/ i = Len(saved) + 1
          /\ Append(saved, b)[Len(saved) + 1] = b
      BY <2>1, AppendFacts
    <2>3. QED BY <1>2, <2>2 DEF Saved
  <1>7. TypeOK'
    <2>1. job' \in [Builds -> Job]
      BY <1>3, <1>4 DEF IInv, TypeOK
    <2>2. QED BY <1>2, <1>6, <2>1, Zenon DEF IInv, TypeOK
  <1>8. JobInv(r, control[b], accepted[b], TRUE)
    <2>1. ControlInv(r, control[b], accepted[b]) /\ CancelInv(r, accepted[b], TRUE)
      BY <1>1, <1>2, <1>5 DEF JobInv, ControlInv, CancelInv, Fenced
    <2>2. ScanInv(r) /\ StepsInv(r)
      BY <1>1, <1>2, <1>5 DEF JobInv, ScanInv, StepsInv, Whole, Ending, Preparing
    <2>3. QED BY <2>1, <2>2 DEF JobInv
  <1>9. JobInv(job'[b], control'[b], accepted'[b], Saved(b)')
    <2>1. job'[b] = r /\ control'[b] = control[b] /\ accepted'[b] = accepted[b]
      BY <1>2, <1>3
    <2>2. QED BY <1>6, <1>8, <2>1 DEF JobInv, CancelInv
  <1>10. \A c \in Builds \ {b} :
           /\ ui'[c] = ui[c] /\ job'[c] = job[c] /\ control'[c] = control[c]
           /\ accepted'[c] = accepted[c] /\ (Saved(c)' <=> Saved(c))
    BY <1>2, <1>3, <1>6
  <1>11. ui'[b] # "idle"
    BY <1>2 DEF IInv
  <1>12. QED BY <1>2, <1>7, <1>9, <1>10, <1>11, OneBuildKeeps

LEMMA SealKeeps ==
  ASSUME IInv, NEW b \in Builds, Seal(b)
  PROVE  IInv'
  <1> DEFINE r == [job[b] EXCEPT !.pc = "done"]
  <1>1. job[b] \in Job /\ JobInv(job[b], control[b], accepted[b], Saved(b))
    BY JobFacts
  <1>2. /\ job[b].pc \in {"returned", "threw"}
        /\ UNCHANGED <<tree, edits, scans, locked, saved, accepted, ui>>
    BY DEF Seal
  <1>3. job' = [c \in Builds |-> IF c = b THEN r ELSE job[c]]
    BY JobFacts DEF Seal
  <1>4. control' = [c \in Builds |-> IF c = b THEN "finished" ELSE control[c]]
    BY DEF Seal, IInv, TypeOK
  <1>5. r \in Job
    BY <1>1, JobFields DEF Places
  <1>6. /\ r.pc = "done" /\ r.scan = job[b].scan /\ r.status = job[b].status /\ r.same = job[b].same
        /\ r.steps = job[b].steps /\ r.built = job[b].built /\ r.copy = job[b].copy
    BY <1>1 DEF Job
  <1> HIDE DEF r
  <1>7. TypeOK'
    <2>1. control' \in [Builds -> ControlStates] /\ job' \in [Builds -> Job]
      BY <1>3, <1>4, <1>5 DEF IInv, TypeOK, ControlStates
    <2>2. QED BY <1>2, <2>1, Zenon DEF IInv, TypeOK
  <1>8. JobInv(r, "finished", accepted[b], Saved(b))
    <2>1. ControlInv(r, "finished", accepted[b]) /\ CancelInv(r, accepted[b], Saved(b))
      BY <1>1, <1>2, <1>6 DEF JobInv, ControlInv, CancelInv, Fenced
    <2>2. ScanInv(r) /\ StepsInv(r)
      BY <1>1, <1>2, <1>6 DEF JobInv, ScanInv, StepsInv, Whole, Ending, Preparing
    <2>3. QED BY <2>1, <2>2 DEF JobInv
  <1>9. JobInv(job'[b], control'[b], accepted'[b], Saved(b)')
    <2>1. job'[b] = r /\ control'[b] = "finished" /\ accepted'[b] = accepted[b] /\ (Saved(b)' <=> Saved(b))
      BY <1>2, <1>3, <1>4 DEF Saved
    <2>2. QED BY <1>8, <2>1 DEF JobInv, CancelInv
  <1>10. \A c \in Builds \ {b} :
           /\ ui'[c] = ui[c] /\ job'[c] = job[c] /\ control'[c] = control[c]
           /\ accepted'[c] = accepted[c] /\ (Saved(c)' <=> Saved(c))
    BY <1>2, <1>3, <1>4 DEF Saved
  <1>11. ui'[b] # "idle"
    BY <1>2 DEF IInv
  <1>12. QED BY <1>2, <1>7, <1>9, <1>10, <1>11, OneBuildKeeps

LEMMA RecordKeeps ==
  ASSUME IInv, NEW b \in Builds, Record(b)
  PROVE  IInv'
  BY VerifyKeeps, FenceKeeps, LogKeeps, SaveKeeps, SealKeeps DEF Record

-----------------------------------------------------------------------------
(* The window and the environment *)

LEMMA StartKeeps ==
  ASSUME IInv, NEW b \in Builds, Start(b)
  PROVE  IInv'
  <1>1. PICK only \in BOOLEAN : job' = [job EXCEPT ![b].only = only, ![b].pc = "reading"]
    BY DEF Start
  <1> DEFINE r == [job[b] EXCEPT !.only = only, !.pc = "reading"]
  <1>2. /\ job[b] \in Job /\ JobInv(job[b], control[b], accepted[b], Saved(b))
        /\ job[b].pc = "idle"
    BY JobFacts DEF Start, IInv
  <1>3. /\ UNCHANGED <<tree, edits, scans, locked, saved, control, accepted>>
        /\ ui' = [c \in Builds |-> IF c = b THEN "busy" ELSE ui[c]]
    BY DEF Start, IInv, TypeOK
  <1>4. job' = [c \in Builds |-> IF c = b THEN r ELSE job[c]]
    BY <1>1, JobFacts
  <1>5. r \in Job
    BY <1>2, JobFields DEF Places
  <1>6. /\ r.pc = "reading" /\ r.scan = job[b].scan /\ r.status = job[b].status /\ r.same = job[b].same
        /\ r.steps = job[b].steps /\ r.built = job[b].built /\ r.copy = job[b].copy
    BY <1>2 DEF Job
  <1> HIDE DEF r
  <1>7. TypeOK'
    <2>1. job' \in [Builds -> Job] /\ ui' \in [Builds -> {"idle", "busy", "delivered"}]
      BY <1>3, <1>4, <1>5 DEF IInv, TypeOK
    <2>2. QED BY <1>3, <2>1, Zenon DEF IInv, TypeOK
  <1>8. JobInv(r, control[b], accepted[b], Saved(b))
    <2>1. ControlInv(r, control[b], accepted[b]) /\ CancelInv(r, accepted[b], Saved(b))
      BY <1>2, <1>6 DEF JobInv, ControlInv, CancelInv, Fenced
    <2>2. ScanInv(r) /\ StepsInv(r)
      BY <1>2, <1>6 DEF JobInv, ScanInv, StepsInv, Whole, Ending, Preparing
    <2>3. QED BY <2>1, <2>2 DEF JobInv
  <1>9. JobInv(job'[b], control'[b], accepted'[b], Saved(b)')
    <2>1. job'[b] = r /\ control'[b] = control[b] /\ accepted'[b] = accepted[b] /\ (Saved(b)' <=> Saved(b))
      BY <1>3, <1>4 DEF Saved
    <2>2. QED BY <1>8, <2>1 DEF JobInv, CancelInv
  <1>10. \A c \in Builds \ {b} :
           /\ ui'[c] = ui[c] /\ job'[c] = job[c] /\ control'[c] = control[c]
           /\ accepted'[c] = accepted[c] /\ (Saved(c)' <=> Saved(c))
    BY <1>3, <1>4 DEF Saved
  <1>11. ui'[b] # "idle"
    BY <1>3
  <1>12. QED BY <1>3, <1>7, <1>9, <1>10, <1>11, OneBuildKeeps

\* A cancellation is accepted only before the fence.
LEMMA CancelKeeps ==
  ASSUME IInv, NEW b \in Builds, Cancel(b)
  PROVE  IInv'
  <1>1. /\ job[b] \in Job /\ JobInv(job[b], control[b], accepted[b], Saved(b))
        /\ control[b] = "running" /\ ui[b] = "busy"
        /\ UNCHANGED <<tree, edits, scans, locked, saved, ui, job>>
    BY JobFacts DEF Cancel, Cancellable
  <1>2. control' = [c \in Builds |-> IF c = b THEN "cancel_requested" ELSE control[c]]
    BY DEF Cancel, IInv, TypeOK
  <1>3. accepted' = [c \in Builds |-> IF c = b THEN TRUE ELSE accepted[c]]
    BY DEF Cancel, IInv, TypeOK
  <1>4. TypeOK'
    <2>1. control' \in [Builds -> ControlStates]
      BY <1>2 DEF IInv, TypeOK, ControlStates
    <2>2. accepted' \in [Builds -> BOOLEAN]
      BY <1>3 DEF IInv, TypeOK
    <2>3. QED BY <1>1, <2>1, <2>2, Zenon DEF IInv, TypeOK
  <1>5. job[b].pc \notin Fenced /\ job[b].pc # "done"
    BY <1>1 DEF JobInv, ControlInv
  <1>6. JobInv(job[b], "cancel_requested", TRUE, Saved(b))
    <2>1. ControlInv(job[b], "cancel_requested", TRUE)
      BY <1>1, <1>5 DEF JobInv, ControlInv
    <2>2. CancelInv(job[b], TRUE, Saved(b))
      BY <1>1, <1>5 DEF JobInv, CancelInv, Fenced
    <2>3. QED BY <1>1, <2>1, <2>2 DEF JobInv
  <1>7. JobInv(job'[b], control'[b], accepted'[b], Saved(b)')
    <2>1. job'[b] = job[b] /\ control'[b] = "cancel_requested" /\ accepted'[b] = TRUE /\ (Saved(b)' <=> Saved(b))
      BY <1>1, <1>2, <1>3 DEF Saved
    <2>2. QED BY <1>6, <2>1 DEF JobInv, CancelInv
  <1>8. \A c \in Builds \ {b} :
           /\ ui'[c] = ui[c] /\ job'[c] = job[c] /\ control'[c] = control[c]
           /\ accepted'[c] = accepted[c] /\ (Saved(c)' <=> Saved(c))
    BY <1>1, <1>2, <1>3 DEF Saved
  <1>9. QED BY <1>1, <1>4, <1>7, <1>8, OneBuildKeeps

LEMMA PollKeeps ==
  ASSUME IInv, NEW b \in Builds, Poll(b)
  PROVE  IInv'
  <1>1. /\ UNCHANGED <<tree, edits, scans, locked, saved, control, accepted, job>>
        /\ ui' = [c \in Builds |-> IF c = b THEN "delivered" ELSE ui[c]]
    BY DEF Poll, IInv, TypeOK
  <1>2. TypeOK'
    <2>1. ui' \in [Builds -> {"idle", "busy", "delivered"}]
      BY <1>1 DEF IInv, TypeOK
    <2>2. QED BY <1>1, <2>1, Zenon DEF IInv, TypeOK
  <1>3. JobInv(job'[b], control'[b], accepted'[b], Saved(b)')
    <2>1. job' = job /\ control' = control /\ accepted' = accepted /\ (Saved(b)' <=> Saved(b))
      BY <1>1 DEF Saved
    <2>2. QED BY <2>1, JobFacts DEF JobInv, CancelInv
  <1>4. \A c \in Builds \ {b} :
           /\ ui'[c] = ui[c] /\ job'[c] = job[c] /\ control'[c] = control[c]
           /\ accepted'[c] = accepted[c] /\ (Saved(c)' <=> Saved(c))
    BY <1>1 DEF Saved
  <1>5. ui'[b] # "idle"
    BY <1>1
  <1>6. QED BY <1>1, <1>2, <1>3, <1>4, <1>5, OneBuildKeeps

\* A step that changes neither what a build relies on nor what was scanned
\* before.
LEMMA EnvironmentKeeps ==
  ASSUME IInv, TypeOK', UNCHANGED <<saved, control, accepted, ui>>,
         \A i \in DOMAIN scans : i \in DOMAIN scans' /\ scans'[i] = scans[i],
         \A b \in Builds :
           /\ job'[b].pc = job[b].pc /\ job'[b].scan = job[b].scan /\ job'[b].status = job[b].status
           /\ job'[b].same = job[b].same /\ job'[b].steps = job[b].steps
           /\ job'[b].built = job[b].built /\ job'[b].copy = job[b].copy
  PROVE  IInv'
  <1>1. ASSUME NEW b \in Builds
        PROVE  (/\ ui[b] = "idle" => job[b].pc = "idle"
                /\ JobInv(job[b], control[b], accepted[b], Saved(b)))'
    <2>1. JobInv(job[b], control[b], accepted[b], Saved(b)) /\ (Saved(b)' <=> Saved(b))
      BY JobFacts DEF Saved
    <2>2. ControlInv(job[b], control[b], accepted[b])'
      BY <2>1 DEF JobInv, ControlInv
    <2>3. CancelInv(job[b], accepted[b], Saved(b))'
      BY <2>1 DEF JobInv, CancelInv
    <2>4. ScanInv(job[b])'
      <3>1. /\ job[b].scan # NoScan => job[b].scan \in DOMAIN scans /\ job[b].scan \in DOMAIN scans'
                                      /\ scans'[job[b].scan] = scans[job[b].scan]
            /\ ScanInv(job[b])
        BY <2>1 DEF JobInv, ScanInv
      <3> DEFINE r == job[b]
      <3>2. /\ job'[b].pc = r.pc /\ job'[b].scan = r.scan /\ job'[b].status = r.status
            /\ (job'[b].same <=> r.same) /\ job'[b].built = r.built /\ job'[b].copy = r.copy
        OBVIOUS
      <3>3. ScanInv(r)
        BY <3>1
      <3> HIDE DEF r
      <3>4. r.scan # NoScan => r.scan \in DOMAIN scans' /\ scans'[r.scan] = scans[r.scan]
        BY <3>1 DEF r
      <3>5. /\ job'[b].status \in Whole => job'[b].scan # NoScan /\ job'[b].built = scans'[job'[b].scan]
            /\ job'[b].status = "configured" =>
                 job'[b].copy = scans'[job'[b].scan] /\ job'[b].pc \in Ending \cup {"verifying"}
        BY <3>2, <3>3, <3>4 DEF ScanInv, Whole
      <3>6. /\ job'[b].scan # NoScan => job'[b].scan \in DOMAIN scans'
            /\ job'[b].pc \notin {"idle", "reading", "done", "threw"} => job'[b].scan # NoScan
            /\ job'[b].status \in Whole /\ job'[b].pc \in Ending => job'[b].same
        BY <3>2, <3>3, <3>4 DEF ScanInv
      <3>7. QED BY <3>5, <3>6, Zenon DEF ScanInv
    <2>5. StepsInv(job[b])'
      BY <2>1 DEF JobInv, StepsInv
    <2>6. QED BY <2>2, <2>3, <2>4, <2>5 DEF JobInv, IInv
  <1>2. QED BY <1>1, Zenon DEF IInv

LEMMA EditKeeps ==
  ASSUME IInv, NEW f \in Files, Edit(f)
  PROVE  IInv'
  <1>1. UNCHANGED <<scans, locked, saved, control, accepted, ui>> /\ edits' = edits + 1 /\ edits < MaxEdits
    BY DEF Edit
  <1>2. PICK t \in Texts \cup {Absent} : tree' = [tree EXCEPT ![f] = t]
    BY DEF Edit
  <1>3. tree' \in Tree /\ edits' \in 0..MaxEdits
    BY <1>1, <1>2, BuildRunAssumption DEF IInv, TypeOK, Tree
  <1>4. ASSUME NEW b \in Builds
        PROVE  /\ job'[b] \in Job
               /\ job'[b].pc = job[b].pc /\ job'[b].scan = job[b].scan /\ job'[b].status = job[b].status
               /\ job'[b].same = job[b].same /\ job'[b].steps = job[b].steps
               /\ job'[b].built = job[b].built /\ job'[b].copy = job[b].copy
    <2> DEFINE m == job[b].matched \/ (job[b].scan # NoScan /\ tree' = Scanned(b))
    <2>1. job'[b] = [job[b] EXCEPT !.matched = m] /\ m \in BOOLEAN /\ job[b] \in Job
      BY JobFacts DEF Edit
    <2> DEFINE r == [job[b] EXCEPT !.matched = m]
    <2> HIDE DEF m
    <2>2. r \in Job
      BY <2>1, JobFields
    <2>3. /\ r.pc = job[b].pc /\ r.scan = job[b].scan /\ r.status = job[b].status
          /\ r.same = job[b].same /\ r.steps = job[b].steps
          /\ r.built = job[b].built /\ r.copy = job[b].copy
      BY <2>1 DEF Job
    <2> HIDE DEF r
    <2>4. job'[b] = r
      BY <2>1 DEF r
    <2>5. QED BY <2>2, <2>3, <2>4
  <1>5. TypeOK'
    <2>1. job' \in [Builds -> Job]
      BY <1>4 DEF Edit
    <2>2. QED BY <1>1, <1>3, <2>1, Zenon DEF IInv, TypeOK
  <1>6. QED BY <1>1, <1>4, <1>5, EnvironmentKeeps

LEMMA ScanKeeps ==
  ASSUME IInv, Scan
  PROVE  IInv'
  <1>1. /\ UNCHANGED <<tree, edits, locked, saved, control, accepted, ui, job>>
        /\ scans' = Append(scans, tree) /\ scans \in Seq(Tree) /\ tree \in Tree
    BY DEF Scan, IInv, TypeOK
  <1>2. /\ Append(scans, tree) \in Seq(Tree)
        /\ \A i \in DOMAIN scans : i \in DOMAIN Append(scans, tree) /\ Append(scans, tree)[i] = scans[i]
    BY <1>1, AppendFacts
  <1>3. TypeOK'
    BY <1>1, <1>2, Zenon DEF IInv, TypeOK
  <1>4. QED BY <1>1, <1>2, <1>3, EnvironmentKeeps

LEMMA OtherWriterKeeps ==
  ASSUME IInv, OtherWriter
  PROVE  IInv'
  <1>1. UNCHANGED <<tree, edits, scans, saved, control, accepted, ui, job>> /\ locked' \in BOOLEAN
    BY DEF OtherWriter
  <1>2. TypeOK'
    BY <1>1, Zenon DEF IInv, TypeOK
  <1>3. QED BY <1>1, <1>2, EnvironmentKeeps

-----------------------------------------------------------------------------
(* The theorems *)

LEMMA InitIInv == Init => IInv
  <1> SUFFICES ASSUME Init PROVE IInv
    OBVIOUS
  <1>1. TypeOK
    BY InitTypes
  <1>2. ASSUME NEW b \in Builds
        PROVE  /\ ui[b] = "idle" => job[b].pc = "idle"
               /\ JobInv(job[b], control[b], accepted[b], Saved(b))
    <2>1. job[b] = NoJob /\ control[b] = "running" /\ accepted[b] = FALSE /\ ~Saved(b)
      BY DEF Init, Saved
    <2>2. /\ NoJob.pc = "idle" /\ NoJob.scan = NoScan /\ NoJob.steps = <<>>
          /\ NoJob.status = "none"
      BY DEF NoJob
    <2>3. ControlInv(job[b], control[b], accepted[b]) /\ CancelInv(job[b], accepted[b], Saved(b))
      BY <2>1, <2>2 DEF ControlInv, CancelInv, Fenced
    <2>4. ScanInv(job[b]) /\ StepsInv(job[b])
      BY <2>1, <2>2 DEF ScanInv, StepsInv, Whole
    <2>5. QED BY <2>1, <2>2, <2>3, <2>4 DEF JobInv
  <1>3. QED BY <1>1, <1>2, Zenon DEF IInv

LEMMA NextIInv == IInv /\ [Next]_vars => IInv'
  <1> SUFFICES ASSUME IInv, [Next]_vars PROVE IInv'
    OBVIOUS
  <1>1. ASSUME NEW b \in Builds, Worker(b) PROVE IInv'
    BY <1>1, PrepareKeeps, StageKeeps, RecordKeeps DEF Worker
  <1>2. ASSUME NEW b \in Builds, Gui(b) PROVE IInv'
    BY <1>2, StartKeeps, CancelKeeps, PollKeeps DEF Gui
  <1>3. CASE UNCHANGED vars
    <2>1. UNCHANGED <<tree, edits, scans, locked, saved, control, accepted, job, ui>>
      BY <1>3 DEF vars, shared
    <2>2. TypeOK'
      BY <2>1, Zenon DEF IInv, TypeOK
    <2>3. QED BY <2>1, <2>2, EnvironmentKeeps
  <1>4. QED BY <1>1, <1>2, <1>3, EditKeeps, ScanKeeps, OtherWriterKeeps DEF Next

\* The invariant the others follow from: what a build knows at each place of
\* build_and_test, whatever editors, scans, other builds and the window do.
THEOREM BuildInvariant == Spec => []IInv
  <1>1. QED BY InitIInv, NextIInv, PTL DEF Spec

\* A recorded success is of the sources of its scan (same_source before, on and
\* after the copy), with every stage passed.
THEOREM PassedIsOfItsScan == Spec => []PassedRunIsOfItsScan
  <1>1. IInv => PassedRunIsOfItsScan
    <2> SUFFICES ASSUME IInv, NEW b \in Builds, Saved(b), job[b].status = "passed"
                 PROVE  /\ job[b].built = Scanned(b)
                        /\ \A k \in DOMAIN job[b].steps : job[b].steps[k] = "passed"
                        /\ job[b].same
      BY DEF PassedRunIsOfItsScan
    <2>1. JobInv(job[b], control[b], accepted[b], Saved(b)) /\ job[b].pc \in {"returned", "done"}
      BY JobFacts DEF JobInv, CancelInv
    <2>2. QED BY <2>1 DEF JobInv, ScanInv, StepsInv, Whole, Ending, Scanned
  <1>2. QED BY <1>1, BuildInvariant, PTL

\* Kept compile commands are of sources that CMake left as they were scanned.
THEOREM ConfiguredIsScanned == Spec => []ConfiguredSourcesAreScanned
  <1>1. IInv => ConfiguredSourcesAreScanned
    BY JobFacts DEF ConfiguredSourcesAreScanned, JobInv, ScanInv, Scanned
  <1>2. QED BY <1>1, BuildInvariant, PTL

\* The recorded word "cancelled" and the accepted cancellations agree, because
\* begin_commit decides between them once.
THEOREM CancelledIsAccepted == Spec => []CancelledMeansAccepted
  <1>1. IInv => CancelledMeansAccepted
    <2> SUFFICES ASSUME IInv, NEW b \in Builds, Saved(b)
                 PROVE  (job[b].status = "cancelled") = accepted[b]
      BY DEF CancelledMeansAccepted
    <2>1. /\ JobInv(job[b], control[b], accepted[b], Saved(b))
          /\ accepted[b] \in BOOLEAN
      BY JobFacts
    <2>2. job[b].status = "cancelled" <=> accepted[b]
      BY <2>1, Zenon DEF JobInv, CancelInv
    <2>3. QED BY <2>1, <2>2
  <1>2. QED BY <1>1, BuildInvariant, PTL

\* Behind a stage that did not pass every later stage is skipped.
THEOREM FailureStopsStages == Spec => []NothingRunsAfterAFailure
  <1>1. IInv => NothingRunsAfterAFailure
    BY JobFacts DEF NothingRunsAfterAFailure, JobInv, StepsInv
  <1>2. QED BY <1>1, BuildInvariant, PTL
\* Type correctness of the builds and their surroundings.
THEOREM BuildTypes == Spec => []TypeOK
  <1>1. IInv => TypeOK
    BY DEF IInv
  <1>2. QED
    BY <1>1, BuildInvariant, PTL
\* The two together: the record of a run tells how it went.
THEOREM RecordIsTrue == Spec => []RecordTellsTheRun
  <1>1. CancelledMeansAccepted /\ NothingRunsAfterAFailure => RecordTellsTheRun
    BY DEF RecordTellsTheRun
  <1>2. QED
    BY <1>1, CancelledIsAccepted, FailureStopsStages, PTL
=============================================================================

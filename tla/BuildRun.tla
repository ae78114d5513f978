------------------------------ MODULE BuildRun ------------------------------
(***************************************************************************)
(* Builds of one scanned project: build_and_test and BuildTask             *)
(* (core/testing/engineering.cpp, gui/qt/build_task.cpp), with save_build  *)
(* of the database.                                                        *)
(*                                                                         *)
(* A build copies the source tree into a workspace of its own while        *)
(* editors keep writing, checks that tree and copy are what the last scan  *)
(* recorded, runs CMake and CTest on the copy, checks the tree again and   *)
(* stores what happened.  A stage is a call of run_process, taken by its   *)
(* promise (ProcessResult, kept by RunProcess).  The comparison of sources *)
(* is by content: same_source looks at path, hash and size.                *)
(***************************************************************************)
EXTENDS Naturals, Sequences, ScanControl, ProcessResult

CONSTANTS
  Builds,        (* the builds that may be started                        *)
  Files,         (* the C/C++ paths of the project                        *)
  Texts,         (* what a file may contain                               *)
  Absent,        (* the text of a path at which there is no file          *)
  MaxEdits,      (* bound on the edits of the source tree                 *)
  MaxScans       (* bound on the scans of the project                     *)

ASSUME BuildRunAssumption ==
  /\ Absent \notin Texts
  /\ MaxEdits \in Nat /\ MaxScans \in Nat

VARIABLES
  tree,      (* the source tree: path -> text                             *)
  edits,     (* how many edits there were                                 *)
  scans,     (* the inventories of the saved scans, oldest first          *)
  locked,    (* another connection is writing the database                *)
  saved,     (* the build_run rows, oldest first                          *)
  control,   (* build -> its ScanControl word                             *)
  accepted,  (* history variable: build -> a cancellation was accepted    *)
  job,       (* build -> the locals of its build_and_test                 *)
  ui         (* build -> BuildTask, on the GUI thread                     *)

shared == <<tree, edits, scans, locked, saved, control, accepted, ui>>
vars   == <<shared, job>>

NoScan == 0   \* no scan was read; scans are numbered from 1

Tree == [Files -> Texts \cup {Absent}]

StepStatuses == ProcessStatuses \cup {"skipped"}
RunStatuses  == ProcessStatuses \cup {"none", "configured", "source_changed"}

Places == {"idle", "reading", "claiming", "claimed", "prechecking", "copying",
           "copied", "rechecking", "comparing", "staging", "running", "generated",
           "verifying", "fencing", "logging", "saving", "returned", "done", "threw"}

Job == [pc      : Places,
        todo    : SUBSET Files,             \* paths the current pass has still to visit
        only    : BOOLEAN,                  \* options.configure_only
        scan    : Nat,                      \* run.scan_id
        copy    : Tree,                     \* the copied sources, now
        built   : Tree,                     \* history: ... when the stages began
        matched : BOOLEAN,                  \* history: tree equalled the scan once
        steps   : Seq(StepStatuses),        \* of the stages only
        status  : RunStatuses,              \* run.status
        same    : BOOLEAN,                  \* run.source_unchanged
        outcome : RunStatuses \cup {"error"}]

NoJob == [pc |-> "idle", todo |-> {}, only |-> FALSE, scan |-> NoScan,
          copy |-> [f \in Files |-> Absent], built |-> [f \in Files |-> Absent],
          matched |-> FALSE, steps |-> <<>>, status |-> "none", same |-> FALSE,
          outcome |-> "none"]

\* configure, build and test, in this order.
Stages(b) == IF job[b].only THEN 1 ELSE 3

At(b, place)   == job[b].pc = place
Scanned(b)     == scans[job[b].scan]
LastToVisit(b, f) == job[b].todo = {f}

-----------------------------------------------------------------------------
(* The environment: editors, scans, other writers of the database *)

Edit(f) ==
  /\ edits < MaxEdits
  /\ \E t \in Texts \cup {Absent} : tree' = [tree EXCEPT ![f] = t]
  /\ edits' = edits + 1
  /\ job' = [b \in Builds |-> [job[b] EXCEPT !.matched =
                @ \/ (job[b].scan # NoScan /\ tree' = Scanned(b))]]
  /\ UNCHANGED <<scans, locked, saved, control, accepted, ui>>

\* A scan is one atomic append (ScanSession shows it).
Scan ==
  /\ Len(scans) < MaxScans
  /\ scans' = Append(scans, tree)
  /\ UNCHANGED <<tree, edits, locked, saved, control, accepted, ui, job>>

OtherWriter ==
  /\ locked' = ~locked
  /\ UNCHANGED <<tree, edits, scans, saved, control, accepted, ui, job>>

-----------------------------------------------------------------------------
(* The worker: build_and_test *)

Escape(b) == job' = [job EXCEPT ![b].outcome = "error", ![b].pc = "threw"]

\* Invalid options, and no snapshot of the project, are refused before anything
\* is created.
ReadScan(b) ==
  /\ At(b, "reading")
  /\ \/ Escape(b)
     \/ /\ scans # <<>>
        /\ job' = [job EXCEPT ![b].scan = Len(scans),
                              ![b].matched = (tree = scans[Len(scans)]),
                              ![b].pc = "claiming"]
  /\ UNCHANGED shared

\* create_directory, which fails on a directory that exists, gives the build a
\* workspace that no other build has or gets: a name that is taken is tried again
\* with the next attempt, a hundred times.  So copy belongs to the build.
Claim(b) ==
  /\ At(b, "claiming")
  /\ Escape(b) \/ job' = [job EXCEPT ![b].pc = "claimed"]
  /\ UNCHANGED shared

\* catch: the run failed, or was cancelled, and is still recorded; then the
\* last comparison with the tree begins.
Fails(b) ==
  job' = [job EXCEPT
    ![b].status = IF Cancelled(control[b]) THEN "cancelled" ELSE "failed",
    ![b].same = TRUE, ![b].todo = Files, ![b].pc = "verifying"]

\* check_cancel before the first comparison and again behind the copy.
Continue(b) ==
  /\ ~Cancelled(control[b])
  /\ \E step \in {<<"claimed", "prechecking">>, <<"copied", "rechecking">>} :
       /\ At(b, step[1])
       /\ job' = [job EXCEPT ![b].todo = Files, ![b].pc = step[2]]
  /\ UNCHANGED shared

\* One file of a scan_project pass; the file differs from the scan or cannot be
\* read, or the pass goes on.
Visit(b, f, next) ==
  /\ f \in job[b].todo
  /\ \/ Fails(b)
     \/ /\ tree[f] = Scanned(b)[f]
        /\ job' = IF LastToVisit(b, f)
                  THEN [job EXCEPT ![b].todo = Files, ![b].pc = next]
                  ELSE [job EXCEPT ![b].todo = @ \ {f}]
  /\ UNCHANGED shared

Precheck(b, f) == At(b, "prechecking") /\ Visit(b, f, "copying")

\* copy_project checks for a cancellation before every file and every block.
CopyFile(b, f) ==
  /\ At(b, "copying")
  /\ ~Cancelled(control[b])
  /\ f \in job[b].todo
  /\ \/ Fails(b)
     \/ job' = [job EXCEPT ![b].copy[f] = tree[f], ![b].todo = @ \ {f},
                           ![b].pc = IF LastToVisit(b, f) THEN "copied" ELSE @]
  /\ UNCHANGED shared

Recheck(b, f) == At(b, "rechecking") /\ Visit(b, f, "comparing")

\* The cancellations that the preparation notices.
PrepareCancelled(b) ==
  /\ job[b].pc \in {"claimed", "copying", "copied"}
  /\ Cancelled(control[b])
  /\ Fails(b)
  /\ UNCHANGED shared

BeginStages(b) ==
  job' = [job EXCEPT ![b].built = job[b].copy, ![b].status = "passed", ![b].pc = "staging"]

\* Mutant: only the tree is compared again, not the copy.
CompareCopy_Trusts(b) ==
  /\ At(b, "comparing")
  /\ BeginStages(b)
  /\ UNCHANGED shared

\* The copy is compared too; CMakeLists.txt must be there; Git is asked and
\* its answer only logged.
CompareCopy(b) ==
  /\ At(b, "comparing")
  /\ Fails(b) \/ (job[b].copy = Scanned(b) /\ BeginStages(b))
  /\ UNCHANGED shared

\* The stage pushes its step; behind the last one the tree is compared again.
StageDone(b, step, st, files) ==
  job' = [job EXCEPT
    ![b].steps = Append(@, step), ![b].status = st, ![b].copy = files,
    ![b].todo = Files, ![b].same = TRUE,
    ![b].pc = IF Len(job[b].steps) + 1 < Stages(b) THEN "staging"
              ELSE IF job[b].only THEN "generated" ELSE "verifying"]

\* A stage behind one that did not pass, or one that run_process refuses to
\* start because the build is already cancelled.
Skip(b) ==
  /\ At(b, "staging")
  /\ IF job[b].status # "passed"
     THEN StageDone(b, "skipped", job[b].status, job[b].copy)
     ELSE Cancelled(control[b]) /\ StageDone(b, "cancelled", "cancelled", job[b].copy)
  /\ UNCHANGED shared

StartStage(b) ==
  /\ At(b, "staging")
  /\ job[b].status = "passed"
  /\ ~Cancelled(control[b])
  /\ job' = [job EXCEPT ![b].pc = "running"]
  /\ UNCHANGED shared

\* run_process answers, or throws.  The program may have changed the copy as it
\* likes.
EndStage(b) ==
  /\ At(b, "running")
  /\ \/ Fails(b)
     \/ \E st \in ProcessStatuses :
          /\ MayAnswer(st, Cancelled(control[b]), TRUE)
          /\ \E files \in Tree : StageDone(b, st, st, files)
  /\ UNCHANGED shared

Configured(b) == job' = [job EXCEPT ![b].status = "configured", ![b].pc = "verifying"]

\* Mutant: CMake is trusted not to have written sources.
FinishConfigure_Trusts(b) ==
  /\ At(b, "generated")
  /\ IF job[b].status = "passed"
     THEN Configured(b)
     ELSE job' = [job EXCEPT ![b].pc = "verifying"]
  /\ UNCHANGED shared

\* prepare: the commands CMake wrote are kept when the copied sources are still
\* those of the scan and the commands can be relocated.
FinishConfigure(b) ==
  /\ At(b, "generated")
  /\ IF job[b].status = "passed"
     THEN Fails(b) \/ (job[b].copy = Scanned(b) /\ Configured(b))
     ELSE job' = [job EXCEPT ![b].pc = "verifying"]
  /\ UNCHANGED shared

\* The last comparison of the tree with the scan, also after a failure.
Verify(b, f) ==
  /\ At(b, "verifying")
  /\ f \in job[b].todo
  /\ \E readable \in BOOLEAN :
       LET same == job[b].same /\ readable /\ tree[f] = Scanned(b)[f]
           late == ~same /\ job[b].status \in {"passed", "configured"}
       IN  job' = IF LastToVisit(b, f)
                  THEN [job EXCEPT ![b].same = same, ![b].pc = "fencing",
                                   ![b].status = IF late THEN "source_changed" ELSE @]
                  ELSE [job EXCEPT ![b].same = same, ![b].todo = @ \ {f}]
  /\ UNCHANGED shared

\* Mutant: the cancellation that begin_commit reports is swallowed.
Fence_Swallows(b) ==
  /\ At(b, "fencing")
  /\ control' = [control EXCEPT ![b] = IF MayCommit(@) THEN "committing" ELSE @]
  /\ job' = [job EXCEPT ![b].pc = "logging"]
  /\ UNCHANGED <<tree, edits, scans, locked, saved, accepted, ui>>

\* begin_commit.  A cancelled run is recorded too, as cancelled.
Fence(b) ==
  /\ At(b, "fencing")
  /\ control' = [control EXCEPT ![b] = IF MayCommit(@) THEN "committing" ELSE @]
  /\ job' = [job EXCEPT ![b].status = IF MayCommit(control[b]) THEN @ ELSE "cancelled",
                        ![b].pc = "logging"]
  /\ UNCHANGED <<tree, edits, scans, locked, saved, accepted, ui>>

\* The log files in the workspace.
WriteLogs(b) ==
  /\ At(b, "logging")
  /\ Escape(b) \/ job' = [job EXCEPT ![b].pc = "saving"]
  /\ UNCHANGED shared

\* Mutant: a busy database is waited for without a limit.
SaveFails_Never(b) == At(b, "saving") /\ FALSE /\ UNCHANGED vars

\* Five seconds of another writer, or an I/O error: the run is not recorded.
SaveFails(b) == At(b, "saving") /\ Escape(b) /\ UNCHANGED shared

\* save_build: one transaction on a connection without a control word.
Save(b) ==
  /\ At(b, "saving")
  /\ ~locked
  /\ saved' = Append(saved, b)
  /\ job' = [job EXCEPT ![b].outcome = job[b].status, ![b].pc = "returned"]
  /\ UNCHANGED <<tree, edits, scans, locked, control, accepted, ui>>

\* BuildTask's worker: finish() seals the control word.
Seal(b) ==
  /\ job[b].pc \in {"returned", "threw"}
  /\ control' = [control EXCEPT ![b] = "finished"]
  /\ job' = [job EXCEPT ![b].pc = "done"]
  /\ UNCHANGED <<tree, edits, scans, locked, saved, accepted, ui>>

-----------------------------------------------------------------------------
(* The GUI thread: BuildTask *)

Start(b) ==
  /\ ui[b] = "idle"
  /\ ui' = [ui EXCEPT ![b] = "busy"]
  /\ \E only \in BOOLEAN :
       job' = [job EXCEPT ![b].only = only, ![b].pc = "reading"]
  /\ UNCHANGED <<tree, edits, scans, locked, saved, control, accepted>>

Cancel(b) ==
  /\ ui[b] = "busy"
  /\ Cancellable(control[b])
  /\ control'  = [control EXCEPT ![b] = "cancel_requested"]
  /\ accepted' = [accepted EXCEPT ![b] = TRUE]
  /\ UNCHANGED <<tree, edits, scans, locked, saved, ui, job>>

Poll(b) ==
  /\ ui[b] = "busy"
  /\ At(b, "done")
  /\ ui' = [ui EXCEPT ![b] = "delivered"]
  /\ UNCHANGED <<tree, edits, scans, locked, saved, control, accepted, job>>

-----------------------------------------------------------------------------
(* The specification *)

Init ==
  /\ tree \in Tree
  /\ edits = 0
  /\ scans \in {<<>>, <<tree>>}
  /\ locked = FALSE
  /\ saved = <<>>
  /\ control  = [b \in Builds |-> "running"]
  /\ accepted = [b \in Builds |-> FALSE]
  /\ job      = [b \in Builds |-> NoJob]
  /\ ui       = [b \in Builds |-> "idle"]

Prepare(b) ==
  \/ ReadScan(b)
  \/ Claim(b)
  \/ Continue(b)
  \/ \E f \in Files : Precheck(b, f) \/ CopyFile(b, f) \/ Recheck(b, f)
  \/ PrepareCancelled(b)
  \/ CompareCopy(b)

Stage(b) == Skip(b) \/ StartStage(b) \/ EndStage(b) \/ FinishConfigure(b)

Record(b) ==
  \/ \E f \in Files : Verify(b, f)
  \/ Fence(b)
  \/ WriteLogs(b)
  \/ Save(b)
  \/ SaveFails(b)
  \/ Seal(b)

Worker(b) == Prepare(b) \/ Stage(b) \/ Record(b)

Gui(b) == Start(b) \/ Cancel(b) \/ Poll(b)

Next ==
  \/ \E b \in Builds : Worker(b) \/ Gui(b)
  \/ \E f \in Files : Edit(f)
  \/ Scan
  \/ OtherWriter

Spec == Init /\ [][Next]_vars

\* The worker thread runs (a stage ends: RunProcess is answered, and waiting
\* for the database ends after five seconds) and the timer fires.
FairSpec == Spec /\ \A b \in Builds : WF_vars(Worker(b)) /\ WF_vars(Poll(b))

-----------------------------------------------------------------------------
(* Properties *)

\* Every variable holds a value of its type.
TypeOK ==
  /\ tree \in Tree
  /\ edits \in 0..MaxEdits
  /\ scans \in Seq(Tree)
  /\ locked \in BOOLEAN
  /\ saved \in Seq(Builds)
  /\ control  \in [Builds -> ControlStates]
  /\ accepted \in [Builds -> BOOLEAN]
  /\ job      \in [Builds -> Job]
  /\ ui       \in [Builds -> {"idle", "busy", "delivered"}]

Saved(b) == \E i \in DOMAIN saved : saved[i] = b

\* A run is recorded as passed only for the sources of its scan: the stages
\* started from exactly the files the scan recorded, although every file was
\* copied at another moment and may have been edited and edited back, every
\* stage passed, and the tree still matched afterwards.
PassedRunIsOfItsScan ==
  \A b \in Builds :
    Saved(b) /\ job[b].status = "passed" =>
      /\ job[b].built = Scanned(b)
      /\ \A k \in DOMAIN job[b].steps : job[b].steps[k] = "passed"
      /\ job[b].same

\* Compile commands are kept ("configured") only when the sources they were
\* made for, after CMake ran, are those of the scan.
ConfiguredSourcesAreScanned ==
  \A b \in Builds :
    Saved(b) /\ job[b].status = "configured" => job[b].copy = Scanned(b)

\* A recorded run says "cancelled" exactly when a cancellation of it was
\* accepted, at whatever moment, even while its last stage was passing.
CancelledMeansAccepted ==
  \A b \in Builds : Saved(b) => (job[b].status = "cancelled") = accepted[b]

\* No stage runs after one that did not pass.
NothingRunsAfterAFailure ==
  \A b \in Builds : \A i, k \in DOMAIN job[b].steps :
    i < k /\ job[b].steps[i] # "passed" => job[b].steps[k] = "skipped"

\* The record of a run is the truth about how it went.
RecordTellsTheRun == CancelledMeansAccepted /\ NothingRunsAfterAFailure

\* engineering.hpp:33: "Runs are attached to an existing, source-matching scan,
\* including failed/cancelled runs."  So the source tree was, at least once
\* while the build ran, what its scan recorded.
RunsAreOfMatchingScans == \A b \in Builds : Saved(b) => job[b].matched

\* Every build that was started is delivered, although editors keep writing,
\* stages fail, and other connections keep the database.
EveryBuildIsDelivered == \A b \in Builds : ui[b] = "busy" ~> ui[b] = "delivered"
=============================================================================

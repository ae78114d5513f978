---------------------------- MODULE ScanSession ----------------------------
(***************************************************************************)
(* Scans of one project into one SQLite inventory database.                *)
(*                                                                         *)
(* Each element of Scans is one run of gui/qt/scan_task.cpp: a GUI-thread  *)
(* controller (Start, Cancel, Poll, Destroy) and the worker it launches,   *)
(* which runs import_project (core/application.cpp), scan_project          *)
(* (core/project/scanner.cpp) and SqliteDatabase::save.  Scans of several  *)
(* windows or processes overlap, share the database, and read a source     *)
(* tree that is edited meanwhile.                                          *)
(*                                                                         *)
(* SQLite's rollback-journal locks are external and modelled by what the   *)
(* code relies on: many SHARED readers, one RESERVED writer (BEGIN         *)
(* IMMEDIATE), a PENDING writer that lets no new reader in, and a COMMIT   *)
(* that needs every reader gone.  A connection that meets a busy lock      *)
(* waits in Impl::busy until the lock is free, the scan is cancelled, or   *)
(* five seconds have passed; the passing of five seconds is an action that *)
(* is possible whenever a connection waits.                                *)
(***************************************************************************)
EXTENDS Naturals, Sequences, FiniteSets, ScanControl

CONSTANTS
  Scans,      (* the scans that may be started                            *)
  Analyzing,  (* those that run Clang (options.compile_commands is set)   *)
  Browsers,   (* other read-only connections: history reads, CLI queries  *)
  Files,      (* the paths a scan may find under the project root         *)
  Texts,      (* what a file may contain                                  *)
  Absent,     (* the text of a path at which there is no file             *)
  NoScan,     (* nobody holds the write lock                              *)
  MaxEdits    (* bound on the edits of the source tree                    *)

ASSUME ScanSessionAssumption ==
  /\ Analyzing \subseteq Scans
  /\ Scans \cap Browsers = {}
  /\ NoScan \notin Scans
  /\ Files # {}
  /\ IsFiniteSet(Files)
  /\ Absent \notin Texts
  /\ MaxEdits \in Nat

VARIABLES
  tree,      (* the source tree: path -> content and modification time    *)
  edits,     (* how many edits there were; also the clock of mtimes       *)
  everAbsent,(* history variable: paths at which there once was no file   *)
  history,   (* the committed snapshots of the project, oldest first      *)
  writer,    (* the scan that holds the RESERVED lock, or NoScan          *)
  pending,   (* the writer is waiting in COMMIT: no new reader gets in    *)
  readers,   (* who holds a SHARED lock                                   *)
  control,   (* scan -> its ScanControl word                              *)
  accepted,  (* history variable: scan -> a request_cancel returned true  *)
  pc,        (* scan -> where its worker is                               *)
  todo,      (* scan -> paths the current pass has still to visit         *)
  result,    (* scan -> the ScanResult under construction                 *)
  thrown,    (* scan -> the exception in flight                           *)
  outcome,   (* scan -> TaskOutcome::state                                *)
  ui         (* scan -> ScanTask::state_, on the GUI thread               *)

source  == <<tree, edits, everAbsent>>
store   == <<history, writer, pending, readers>>
thread  == <<pc, todo, result, thrown, outcome>>
vars    == <<source, store, control, accepted, thread, ui>>

-----------------------------------------------------------------------------
(* Values *)

FileState == [text : Texts \cup {Absent}, mtime : 0..MaxEdits]
Inventory == [Files -> FileState]
NoFiles   == [f \in Files |-> [text |-> Absent, mtime |-> 0]]

Present(inv) == {f \in Files : inv[f].text # Absent}

\* Mutant: the comparison forgets mtime.
Same_NoMtime(a, b) == a.text = b.text

\* The comparison of two file records: hash, size and mtime.
Same(a, b) == IF a.text = Absent THEN b.text = Absent ELSE a = b

Delta  == [added : Nat, changed : Nat, unchanged : Nat, removed : Nat]
Status == {"not_requested", "complete", "partial"}

Result == [inv     : Inventory,                      \* files
           diags   : BOOLEAN,                        \* diagnostics is not empty
           base    : Nat,                            \* the snapshot compared with
           delta   : Delta,
           parsed  : [Files -> Texts \cup {Absent}], \* what the parser read
           status  : Status,
           id      : Nat]                            \* 0: not saved

NoResult == [inv |-> NoFiles, diags |-> FALSE, base |-> 0,
             delta |-> [added |-> 0, changed |-> 0, unchanged |-> 0, removed |-> 0],
             parsed |-> [f \in Files |-> Absent], status |-> "not_requested", id |-> 0]

Snapshot == [by : Scans, inv : Inventory, base : Nat, delta : Delta,
             parsed : [Files -> Texts \cup {Absent}], analysed : BOOLEAN]

Busy     == {"running", "cancelling", "committing"}
Outcomes == {"completed", "partial", "cancelled", "failed"}
Ended    == {"idle", "done", "crashed"}
Places   == Ended \cup
            {"preparing", "scanning", "opening", "reading", "comparing",
             "analyzing", "verifying", "saving", "inserting", "fencing",
             "committing", "returned", "unwinding", "caught", "sealing"}

\* Where the next thing the code does is ScanContext::check, or SQLite asks
\* whether the scan was cancelled (Impl::busy, Impl::progress).
Checkpoints == {"preparing", "scanning", "opening", "reading", "comparing",
                "analyzing", "verifying", "saving", "inserting", "fencing"}

-----------------------------------------------------------------------------
(* Helpers *)

Goto(s, place) == pc' = [pc EXCEPT ![s] = place]

\* Past a checkpoint: the check did not throw.
Proceeds(s, place) == pc[s] = place /\ ~Cancelled(control[s])

\* Mutant: save's catch clause does not roll back.
Releases_NoRollback(s) ==
  /\ readers' = readers \ {s}
  /\ UNCHANGED <<writer, pending>>

Releases(s) ==
  /\ writer'  = IF writer = s THEN NoScan ELSE writer
  /\ pending' = (pending /\ writer # s)
  /\ readers' = readers \ {s}

\* An exception leaves import_project's body: its result is lost, connections
\* close, an open transaction is rolled back.
Throw(s, exception) ==
  /\ thrown' = [thrown EXCEPT ![s] = exception]
  /\ Goto(s, "unwinding")
  /\ Releases(s)
  /\ todo'   = [todo EXCEPT ![s] = {}]
  /\ result' = [result EXCEPT ![s] = NoResult]
  /\ UNCHANGED <<history, outcome>>

\* Mutant: a changed file stays in the map of old files.
Difference_KeepsChanged(old, new) ==
  LET common == Present(old) \cap Present(new)
      same   == {f \in common : Same(old[f], new[f])}
  IN  [added     |-> Cardinality(Present(new) \ common),
       changed   |-> Cardinality(common \ same),
       unchanged |-> Cardinality(same),
       removed   |-> Cardinality(Present(old) \ same)]

\* The counts of files that are new, differ, are the same and are gone.
Difference(old, new) ==
  LET common == Present(old) \cap Present(new)
      same   == {f \in common : Same(old[f], new[f])}
  IN  [added     |-> Cardinality(Present(new) \ common),
       changed   |-> Cardinality(common \ same),
       unchanged |-> Cardinality(same),
       removed   |-> Cardinality(Present(old) \ common)]

Before(base) == IF base = 0 THEN NoFiles ELSE history[base].inv

Saved(s) == \E i \in DOMAIN history : history[i].by = s

-----------------------------------------------------------------------------
(* The environment: editors of the source tree and other readers *)

\* A write, a creation or a removal.  Every edit gets a modification time of
\* its own; the stamp of a missing file is never read.
Edit(f) ==
  /\ edits < MaxEdits
  /\ \E t \in Texts \cup {Absent} :
       /\ tree' = [tree EXCEPT ![f] = [text |-> t, mtime |-> edits + 1]]
       /\ everAbsent' = IF t = Absent THEN everAbsent \cup {f} ELSE everAbsent
  /\ edits' = edits + 1
  /\ UNCHANGED <<store, control, accepted, thread, ui>>

\* Another connection runs a SELECT.
Browse(b) ==
  /\ IF b \in readers
     THEN readers' = readers \ {b}
     ELSE ~pending /\ readers' = readers \cup {b}
  /\ UNCHANGED <<source, history, writer, pending, control, accepted, thread, ui>>

-----------------------------------------------------------------------------
(* The worker: import_project *)

Prepare(s) ==
  /\ Proceeds(s, "preparing")
  /\ \/ /\ Goto(s, "scanning")
        /\ todo' = [todo EXCEPT ![s] = Files]
        /\ UNCHANGED <<store, result, thrown, outcome>>
     \/ Throw(s, "error")  \* invalid configuration, root or database path
  /\ UNCHANGED <<source, control, accepted, ui>>

\* One entry of the directory walk.  read_file compares size and mtime before
\* and after reading, so the record is that of one moment, or a diagnostic.
ScanFile(s, f) ==
  /\ Proceeds(s, "scanning")
  /\ f \in todo[s]
  /\ \/ result' = [result EXCEPT ![s].inv[f] = tree[f]]
     \/ /\ tree[f].text # Absent
        /\ result' = [result EXCEPT ![s].diags = TRUE]
  /\ todo' = [todo EXCEPT ![s] = @ \ {f}]
  /\ Goto(s, IF todo[s] = {f} THEN "opening" ELSE "scanning")
  /\ UNCHANGED <<source, store, control, accepted, thrown, outcome, ui>>

\* Open the read-only connection and start the SELECT for the last snapshot.
OpenHistory(s) ==
  /\ Proceeds(s, "opening")
  /\ ~pending
  /\ readers' = readers \cup {s}
  /\ Goto(s, "reading")
  /\ UNCHANGED <<source, history, writer, pending, control, accepted, todo,
                 result, thrown, outcome, ui>>

LoadPrevious(s) ==
  /\ Proceeds(s, "reading")
  /\ result'  = [result EXCEPT ![s].base = Len(history)]
  /\ readers' = readers \ {s}
  /\ Goto(s, "comparing")
  /\ UNCHANGED <<source, history, writer, pending, control, accepted, todo,
                 thrown, outcome, ui>>

\* Count the differences; an incomplete inventory goes no further.
Compare(s) ==
  /\ Proceeds(s, "comparing")
  /\ IF result[s].diags
     THEN Goto(s, "returned") /\ UNCHANGED <<todo, result>>
     ELSE /\ result' = [result EXCEPT ![s].delta =
                          Difference(Before(result[s].base), result[s].inv)]
          /\ Goto(s, IF s \in Analyzing THEN "analyzing" ELSE "saving")
          /\ todo' = [todo EXCEPT ![s] = IF s \in Analyzing THEN Files ELSE {}]
  /\ UNCHANGED <<source, store, control, accepted, thrown, outcome, ui>>

\* The parser reads one file of the inventory, at a moment of its own.
ParseFile(s, f) ==
  /\ Proceeds(s, "analyzing")
  /\ f \in todo[s]
  /\ \E st \in {"complete", "partial"} :
       LET read == IF result[s].inv[f].text = Absent THEN Absent ELSE tree[f].text
       IN  result' = [result EXCEPT
             ![s].parsed[f] = read,
             ![s].status = IF @ = "partial" THEN @ ELSE st]
  /\ IF todo[s] = {f}
     THEN Goto(s, "verifying") /\ todo' = [todo EXCEPT ![s] = Files]
     ELSE UNCHANGED pc /\ todo' = [todo EXCEPT ![s] = @ \ {f}]
  /\ UNCHANGED <<source, store, control, accepted, thrown, outcome, ui>>

\* A path cannot be resolved, the database refuses, a command selection no longer
\* exists: what a step calls throws.
StepFails(s) ==
  /\ pc[s] \in {"scanning", "opening", "reading", "analyzing", "verifying", "saving"}
  /\ Throw(s, "error")
  /\ UNCHANGED <<source, control, accepted, ui>>

\* The second pass over the tree: any difference from the inventory is a
\* diagnostic and the snapshot is not saved.
VerifyFile(s, f) ==
  /\ Proceeds(s, "verifying")
  /\ f \in todo[s]
  /\ \E readable \in BOOLEAN :
       LET stable == readable /\ Same(result[s].inv[f], tree[f])
           diags  == result[s].diags \/ ~stable
       IN  /\ result' = [result EXCEPT ![s].diags = diags]
           /\ Goto(s, CASE todo[s] # {f} -> "verifying"
                        [] todo[s] = {f} /\ diags -> "returned"
                        [] OTHER -> "saving")
  /\ todo' = [todo EXCEPT ![s] = @ \ {f}]
  /\ UNCHANGED <<source, store, control, accepted, thrown, outcome, ui>>

\* The writer thread opens its connection and gets BEGIN IMMEDIATE through.
BeginImmediate(s) ==
  /\ Proceeds(s, "saving")
  /\ writer = NoScan
  /\ writer' = s
  /\ Goto(s, "inserting")
  /\ UNCHANGED <<source, history, pending, readers, control, accepted, todo,
                 result, thrown, outcome, ui>>

\* Every INSERT of the snapshot, each behind a check; one may fail.
Insert(s) ==
  /\ Proceeds(s, "inserting")
  /\ \/ /\ Goto(s, "fencing")
        /\ UNCHANGED <<store, todo, result, thrown, outcome>>
     \/ Throw(s, "error")
  /\ UNCHANGED <<source, control, accepted, ui>>

\* begin_commit: from here on a cancellation is refused.
Fence(s) ==
  /\ pc[s] = "fencing"
  /\ MayCommit(control[s])
  /\ control' = [control EXCEPT ![s] = "committing"]
  /\ Goto(s, "committing")
  /\ UNCHANGED <<source, store, accepted, todo, result, thrown, outcome, ui>>

\* COMMIT meets readers: it takes the PENDING lock and waits.
AwaitReaders(s) ==
  /\ pc[s] = "committing"
  /\ readers # {}
  /\ ~pending
  /\ pending' = TRUE
  /\ UNCHANGED <<source, history, writer, readers, control, accepted, thread, ui>>

NewSnapshot(s) ==
  [by |-> s, inv |-> result[s].inv, base |-> result[s].base,
   delta |-> result[s].delta, parsed |-> result[s].parsed,
   analysed |-> s \in Analyzing]

\* Mutant: save forgets result.id = id.
Commit_NoId(s) ==
  /\ pc[s] = "committing"
  /\ readers = {}
  /\ history' = Append(history, NewSnapshot(s))
  /\ writer'  = NoScan
  /\ pending' = FALSE
  /\ Goto(s, "returned")
  /\ UNCHANGED <<source, readers, control, accepted, todo, result, thrown, outcome, ui>>

Commit(s) ==
  /\ pc[s] = "committing"
  /\ readers = {}
  /\ history' = Append(history, NewSnapshot(s))
  /\ result'  = [result EXCEPT ![s].id = Len(history) + 1]
  /\ writer'  = NoScan
  /\ pending' = FALSE
  /\ Goto(s, "returned")
  /\ UNCHANGED <<source, readers, control, accepted, todo, thrown, outcome, ui>>

\* Mutant: the busy handler never gives up.
CommitFails_Never(s) == pc[s] = "committing" /\ FALSE /\ UNCHANGED vars

\* COMMIT fails: five seconds of readers, or an I/O error.
CommitFails(s) ==
  /\ pc[s] = "committing"
  /\ Throw(s, "error")
  /\ UNCHANGED <<source, control, accepted, ui>>

\* Five seconds of a busy lock: SQLITE_BUSY becomes an exception.
BusyTimeout(s) ==
  /\ \/ pc[s] = "opening" /\ pending
     \/ pc[s] = "saving" /\ writer # NoScan
  /\ Throw(s, "error")
  /\ UNCHANGED <<source, control, accepted, ui>>

\* A checkpoint of a cancelled scan: ScanCancelled from a check, or, where the
\* database is read or waited for, the SQLite error of a call cut short.
Abandon(s) ==
  /\ pc[s] \in Checkpoints
  /\ Cancelled(control[s])
  /\ \/ Throw(s, "cancelled")
     \/ pc[s] \in {"opening", "reading", "saving"} /\ Throw(s, "error")
  /\ UNCHANGED <<source, control, accepted, ui>>

\* catch (...) of import_project: a backend error of a cancelled scan becomes
\* ScanCancelled.
Unwind(s) ==
  /\ pc[s] = "unwinding"
  /\ thrown' = [thrown EXCEPT ![s] = IF Cancelled(control[s]) THEN "cancelled" ELSE @]
  /\ Goto(s, "caught")
  /\ UNCHANGED <<source, store, control, accepted, todo, result, outcome, ui>>

\* The catch clauses of ScanTask's worker.
Catch(s) ==
  /\ pc[s] = "caught"
  /\ outcome' = [outcome EXCEPT ![s] =
       IF thrown[s] = "cancelled" \/ Cancelled(control[s]) THEN "cancelled" ELSE "failed"]
  /\ Goto(s, "sealing")
  /\ UNCHANGED <<source, store, control, accepted, todo, result, thrown, ui>>

\* import_project returned: without an ID nothing was saved.
Return(s) ==
  /\ pc[s] = "returned"
  /\ outcome' = [outcome EXCEPT ![s] =
       IF result[s].id = 0 THEN "failed"
       ELSE IF result[s].status = "partial" THEN "partial" ELSE "completed"]
  /\ Goto(s, "sealing")
  /\ UNCHANGED <<source, store, control, accepted, todo, result, thrown, ui>>

\* Mutant: finish() is called, its answer is not used.
SealedOutcome_Unsealed(s) == outcome[s]

\* The outcome a scan ends with: a cancellation that was accepted while the
\* worker was already leaving without a snapshot still makes it cancelled.
SealedOutcome(s) ==
  IF Cancelled(control[s]) /\ result[s].id = 0 THEN "cancelled" ELSE outcome[s]

Seal(s) ==
  /\ pc[s] = "sealing"
  /\ outcome' = [outcome EXCEPT ![s] = SealedOutcome(s)]
  /\ control' = [control EXCEPT ![s] = "finished"]
  /\ Goto(s, "done")
  /\ UNCHANGED <<source, store, accepted, todo, result, thrown, ui>>

-----------------------------------------------------------------------------
(* The GUI thread: ScanTask *)

Start(s) ==
  /\ pc[s] = "idle"
  /\ Goto(s, "preparing")
  /\ ui' = [ui EXCEPT ![s] = "running"]
  /\ UNCHANGED <<source, store, control, accepted, todo, result, thrown, outcome>>

\* ScanTask::cancel, when request_cancel returns true; otherwise it changes
\* nothing.
Cancel(s) ==
  /\ ui[s] \in Busy
  /\ Cancellable(control[s])
  /\ control'  = [control EXCEPT ![s] = "cancel_requested"]
  /\ accepted' = [accepted EXCEPT ![s] = TRUE]
  /\ ui'       = [ui EXCEPT ![s] = "cancelling"]
  /\ UNCHANGED <<source, store, thread>>

\* The 25 ms timer: show that the commit has begun, deliver the outcome.
Poll(s) ==
  /\ ui[s] \in Busy
  /\ \/ pc[s] # "done" /\ control[s] = "committing" /\ ui' = [ui EXCEPT ![s] = "committing"]
     \/ pc[s] = "done" /\ ui' = [ui EXCEPT ![s] = outcome[s]]
  /\ UNCHANGED <<source, store, control, accepted, thread>>

\* ~ScanTask of a busy task: request a cancellation, then wait for the worker.
Destroy(s) ==
  /\ ui[s] \in Busy
  /\ ui' = [ui EXCEPT ![s] = "destroyed"]
  /\ IF Cancellable(control[s])
     THEN /\ control'  = [control EXCEPT ![s] = "cancel_requested"]
          /\ accepted' = [accepted EXCEPT ![s] = TRUE]
     ELSE UNCHANGED <<control, accepted>>
  /\ UNCHANGED <<source, store, thread>>

\* The process dies; SQLite rolls a journal back, so the locks and the open
\* transaction are gone.
Crash(s) ==
  /\ pc[s] \notin Ended
  /\ Goto(s, "crashed")
  /\ ui' = [ui EXCEPT ![s] = "crashed"]
  /\ Releases(s)
  /\ UNCHANGED <<source, history, control, accepted, todo, result, thrown, outcome>>

-----------------------------------------------------------------------------
(* The specification *)

Init ==
  /\ tree \in [Files -> [text : Texts \cup {Absent}, mtime : {0}]]
  /\ edits = 0
  /\ everAbsent = {f \in Files : tree[f].text = Absent}
  /\ history = <<>>
  /\ writer = NoScan
  /\ pending = FALSE
  /\ readers = {}
  /\ control  = [s \in Scans |-> "running"]
  /\ accepted = [s \in Scans |-> FALSE]
  /\ pc       = [s \in Scans |-> "idle"]
  /\ todo     = [s \in Scans |-> {}]
  /\ result   = [s \in Scans |-> NoResult]
  /\ thrown   = [s \in Scans |-> "none"]
  /\ outcome  = [s \in Scans |-> "none"]
  /\ ui       = [s \in Scans |-> "idle"]

Import(s) ==
  \/ Prepare(s)
  \/ \E f \in Files : ScanFile(s, f)
  \/ OpenHistory(s)
  \/ LoadPrevious(s)
  \/ Compare(s)
  \/ \E f \in Files : ParseFile(s, f)
  \/ StepFails(s)
  \/ \E f \in Files : VerifyFile(s, f)
  \/ BeginImmediate(s)
  \/ Insert(s)
  \/ Fence(s)
  \/ AwaitReaders(s)
  \/ Commit(s)
  \/ CommitFails(s)

Worker(s) ==
  \/ Import(s)
  \/ BusyTimeout(s)
  \/ Abandon(s)
  \/ Unwind(s)
  \/ Catch(s)
  \/ Return(s)
  \/ Seal(s)

Gui(s) == Start(s) \/ Cancel(s) \/ Poll(s) \/ Destroy(s)

Next ==
  \/ \E s \in Scans : Worker(s) \/ Gui(s) \/ Crash(s)
  \/ \E f \in Files : Edit(f)
  \/ \E b \in Browsers : Browse(b)

Spec == Init /\ [][Next]_vars

\* A worker thread keeps running, a busy wait ends after five seconds, and
\* the timer keeps firing.  Nothing forces an editor, a browser, a crash or
\* the user.
Fairness == \A s \in Scans : WF_vars(Worker(s)) /\ WF_vars(Poll(s))

FairSpec == Spec /\ Fairness

-----------------------------------------------------------------------------
(* Properties *)

\* Every variable holds a value of its type.
TypeOK ==
  /\ tree \in Inventory
  /\ edits \in 0..MaxEdits
  /\ everAbsent \subseteq Files
  /\ history \in Seq(Snapshot)
  /\ writer \in Scans \cup {NoScan}
  /\ pending \in BOOLEAN
  /\ readers \subseteq Scans \cup Browsers
  /\ control  \in [Scans -> ControlStates]
  /\ accepted \in [Scans -> BOOLEAN]
  /\ pc       \in [Scans -> Places]
  /\ todo     \in [Scans -> SUBSET Files]
  /\ result   \in [Scans -> Result]
  /\ thrown   \in [Scans -> {"none", "cancelled", "error"}]
  /\ outcome  \in [Scans -> Outcomes \cup {"none"}]
  /\ ui       \in [Scans -> Busy \cup Outcomes \cup {"idle", "destroyed", "crashed"}]

\* "The commit fence linearizes cancel versus COMMIT" (scan_control.hpp): a
\* scan whose cancellation was accepted, however late, leaves no snapshot.
CancelledLeavesNoSnapshot ==
  \A s \in Scans : accepted[s] => ~Saved(s)

\* What the window tells the user is what the database holds: a delivered
\* success has its snapshot, a delivered failure or cancellation has none.
OutcomeTellsTheStore ==
  \A s \in Scans :
    /\ ui[s] \in {"completed", "partial"} => Saved(s)
    /\ ui[s] \in {"failed", "cancelled"}  => ~Saved(s)

\* A snapshot with an analysis describes the files that were analysed: the
\* parser saw, for every file, the text the inventory records, although the
\* parser reads files long after the inventory and editors keep writing.
AnalysisDescribesInventory ==
  \A i \in DOMAIN history :
    history[i].analysed =>
      \A f \in Files : history[i].parsed[f] = history[i].inv[f].text

\* A file that could not be read is never published as missing (and then
\* counted as removed): a path a snapshot lacks was really absent once.
UnreadableIsNotRemoved ==
  \A i \in DOMAIN history : Files \ Present(history[i].inv) \subseteq everAbsent

\* The published counts account for every file of the new snapshot and for
\* every file of the one it was compared with, which is an earlier one.
DeltaAccountsForAllFiles ==
  \A i \in DOMAIN history :
    LET snapshot == history[i]
        delta    == snapshot.delta
    IN  /\ snapshot.base < i
        /\ delta.added + delta.changed + delta.unchanged
             = Cardinality(Present(snapshot.inv))
        /\ delta.removed + delta.changed + delta.unchanged
             = Cardinality(Present(Before(snapshot.base)))

\* The counts that are published are of the two snapshots, whatever could not be
\* read and whoever committed in between.
CountsAreTrue == UnreadableIsNotRemoved /\ DeltaAccountsForAllFiles

\* No lock outlives the scan that took it, whichever way the scan ended: a
\* leaked transaction would block every later writer.
NoLockOutlivesItsScan ==
  \A s \in Scans :
    /\ writer = s    => pc[s] \in {"inserting", "fencing", "committing"}
    /\ s \in readers => pc[s] = "reading"
    /\ pending       => writer # NoScan /\ pc[writer] = "committing"

\* Once the window says "cancelling" the scan is reported as cancelled and as
\* nothing else, although the worker may just then be failing by itself.
CancellingEndsCancelled ==
  [][\A s \in Scans :
       ui[s] = "cancelling" /\ ui'[s] # ui[s]
         => ui'[s] \in {"cancelled", "destroyed", "crashed"}]_ui

\* Every scan that was started is delivered: no lock, reader or exception
\* keeps the window busy for ever; and a destroyed window gets its worker
\* back: the destructor's wait ends.
EveryScanIsDelivered ==
  \A s \in Scans :
    /\ ui[s] \in Busy ~> ui[s] \in Outcomes \cup {"destroyed", "crashed"}
    /\ ui[s] = "destroyed" ~> pc[s] \in Ended

-----------------------------------------------------------------------------
(* Refinement: a scan is atomic *)

RunOf(s) ==
  CASE Saved(s)                              -> "committed"
    [] ~Saved(s) /\ pc[s] = "idle"           -> "idle"
    [] ~Saved(s) /\ pc[s] = "crashed"        -> "lost"
    [] ~Saved(s) /\ pc[s] = "done"           -> outcome[s]
    [] OTHER -> IF accepted[s] THEN "doomed" ELSE "active"

Atomic == INSTANCE AtomicScan WITH
  log <- [i \in DOMAIN history |-> history[i].by],
  run <- [s \in Scans |-> RunOf(s)]

\* The whole of a scan, its locks, waits, exceptions and cancellation, looks
\* from outside like one atomic append or like nothing at all.
ScanIsAtomic == Atomic!Spec
=============================================================================

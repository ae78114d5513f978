---------------------------- MODULE ReportDialog ----------------------------
(***************************************************************************)
(* The report dialog (gui/qt/report_dialog.cpp) and the export it starts    *)
(* (core/report/export.cpp).  One operation runs at a time, on a worker     *)
(* thread and with a control word of its own: a page of the scan history is *)
(* read, or two snapshots are read, rendered and written to a new directory. *)
(***************************************************************************)
EXTENDS Naturals, Sequences, ScanControl

CONSTANTS
  PageSize,     (* scans per page of the history                           *)
  MaxScans      (* bound on the scans of the project                       *)

VARIABLE dialog

\* "taken": something of that name exists, or the name is refused.  "created" and
\* "half" are an incomplete report.
Folders == {"absent", "taken", "created", "half", "complete"}

Dialog == [open    : BOOLEAN,
           scans   : 0..MaxScans,     \* how many scans the project has: 1..scans
           folder  : Folders,         \* the directory of the last export
           op      : {"none", "history", "export"},      \* the last operation
           step    : {"idle", "reading", "preparing", "prepared", "creating",
                      "writing", "done", "threw"},
           control : ControlStates,
           reset   : BOOLEAN,                            \* reset_pending_
           page    : Seq(1..MaxScans),                   \* what the read returned
           listed  : Seq(1..MaxScans),                   \* the entries of current_
           cursor  : 0..MaxScans,
           more    : BOOLEAN,
           closing : {"no", "pending", "destroying"},
           status  : {"none", "loaded", "saved", "failed", "cancelled"}]

Closed == [open |-> FALSE, scans |-> 0, folder |-> "absent", op |-> "none",
           step |-> "idle", control |-> "finished", reset |-> FALSE, page |-> <<>>,
           listed |-> <<>>, cursor |-> 0, more |-> FALSE, closing |-> "no",
           status |-> "none"]

Running    == dialog.step \notin {"idle", "done", "threw"}
Throw      == [dialog EXCEPT !.step = "threw"]
Asked(d)   == IF d.step # "idle" /\ Cancellable(d.control)
              THEN [d EXCEPT !.control = "cancel_requested"] ELSE d

-----------------------------------------------------------------------------
(* The GUI thread *)

\* load: refused while an operation is under way.
Loading(d, reset) ==
  [d EXCEPT !.op = "history", !.step = "reading", !.control = "running",
            !.reset = reset, !.page = <<>>, !.status = "none"]

\* The constructor loads the newest scans of a project that has been scanned.
OpenDialog ==
  /\ ~dialog.open
  /\ \E n \in 1..MaxScans :
       dialog' = Loading([Closed EXCEPT !.open = TRUE, !.scans = n], TRUE)

Usable == dialog.open /\ dialog.step = "idle"

Load(reset) ==
  /\ Usable
  /\ reset \/ dialog.more
  /\ dialog' = Loading(dialog, reset)

\* exportSelected, with a baseline older than the scan, or none, into a directory
\* that does not exist or does.
ExportSelected ==
  /\ Usable
  /\ dialog.listed # <<>>
  /\ \E found \in {"absent", "taken"} :
       dialog' = [dialog EXCEPT !.op = "export", !.step = "preparing", !.folder = found,
                                !.control = "running", !.status = "none"]

CancelOperation ==
  /\ dialog.open
  /\ dialog' = Asked(dialog)

\* reject: closes at once, or when the operation is over.
Reject ==
  /\ dialog.open
  /\ dialog' = IF dialog.step = "idle" THEN Closed
               ELSE [Asked(dialog) EXCEPT !.closing = "pending"]

\* The application quits: the destructor cancels and waits for the worker.
Destroy(d) == [Asked(d) EXCEPT !.closing = "destroying"]

Destroyed ==
  /\ dialog.open /\ dialog.closing = "destroying" /\ ~Running
  /\ dialog' = Closed

\* A page was read: it replaces the list or continues it, unless the reading was
\* cancelled.
Show(d) ==
  LET kept == IF d.reset THEN <<>> ELSE d.listed
      last == IF d.page # <<>> THEN d.page[Len(d.page)] ELSE IF d.reset THEN 0 ELSE d.cursor
  IN IF d.step = "threw" \/ Cancelled(d.control)
     THEN [d EXCEPT !.status = IF Cancelled(d.control) THEN "cancelled" ELSE "failed"]
     ELSE [d EXCEPT !.listed = kept \o d.page, !.cursor = last,
                    !.more = (Len(d.page) = PageSize), !.status = "loaded"]

\* The export is over.
Report(d) ==
  [d EXCEPT !.status = IF d.step = "done" THEN "saved"
                       ELSE IF Cancelled(d.control) THEN "cancelled" ELSE "failed"]

\* The end of poll: no operation is left, and a pending close is done.
Leave(d) ==
  IF d.closing = "pending" THEN Closed
  ELSE [d EXCEPT !.step = "idle", !.control = "finished", !.page = <<>>]

\* poll
Poll ==
  /\ dialog.open /\ dialog.closing # "destroying"
  /\ dialog.step \in {"done", "threw"}
  /\ dialog' = Leave(IF dialog.op = "history" THEN Show(dialog) ELSE Report(dialog))

-----------------------------------------------------------------------------
(* The worker *)

\* SqliteDatabase::scans: the newest scans before the cursor.
PageAt(cursor) ==
  LET newest == IF cursor = 0 THEN dialog.scans ELSE cursor - 1
      size   == IF newest < PageSize THEN newest ELSE PageSize
  IN [i \in 1..size |-> newest + 1 - i]

\* The database may be busy or damaged, and notices a cancellation at any row.
ReadPage ==
  /\ dialog.step = "reading"
  /\ \/ dialog' = Throw
     \/ dialog' = [dialog EXCEPT !.page = PageAt(IF dialog.reset THEN 0 ELSE dialog.cursor),
                                 !.step = "done"]

\* export_report up to the fence: the snapshots are read and both texts rendered;
\* every row and every element checks for a cancellation, also the last.
Prepare ==
  /\ dialog.step = "preparing"
  /\ \/ dialog' = Throw
     \/ ~Cancelled(dialog.control) /\ dialog' = [dialog EXCEPT !.step = "prepared"]

\* Mutant: the directory is made before the fence is passed.
PassFence_Late ==
  /\ dialog.step = "prepared"
  /\ LET made == [dialog EXCEPT !.folder = IF @ = "absent" THEN "created" ELSE @]
     IN dialog' = IF MayCommit(dialog.control)
                  THEN [made EXCEPT !.control = "committing", !.step = "writing"]
                  ELSE [made EXCEPT !.step = "threw"]

\* begin_commit
PassFence ==
  /\ dialog.step = "prepared"
  /\ dialog' = IF MayCommit(dialog.control)
               THEN [dialog EXCEPT !.control = "committing", !.step = "creating"]
               ELSE Throw

\* create_directory fails on a name that is taken.
CreateFolder ==
  /\ dialog.step = "creating"
  /\ \/ dialog' = Throw
     \/ /\ dialog.folder = "absent"
        /\ dialog' = [dialog EXCEPT !.folder = "created", !.step = "writing"]

\* report.json, then report.html.  What was written before a failure stays.
WriteFile ==
  /\ dialog.step = "writing"
  /\ \/ dialog' = Throw
     \/ dialog.folder = "created" /\ dialog' = [dialog EXCEPT !.folder = "half"]
     \/ dialog.folder = "half"
        /\ dialog' = [dialog EXCEPT !.folder = "complete", !.step = "done"]

-----------------------------------------------------------------------------
(* Other programs *)

\* A scan is saved, by the command line or another window.
ScanSaved ==
  /\ dialog.open /\ dialog.scans < MaxScans
  /\ dialog' = [dialog EXCEPT !.scans = @ + 1]

\* Something of the same name appears before the directory is made.
TakeName ==
  /\ dialog.open /\ dialog.folder = "absent"
  /\ dialog' = [dialog EXCEPT !.folder = "taken"]

-----------------------------------------------------------------------------
DialogInit == dialog = Closed

DialogUser == (\E reset \in BOOLEAN : Load(reset)) \/ ExportSelected \/ CancelOperation \/ Reject

DialogWorker == ReadPage \/ Prepare \/ PassFence \/ CreateFolder \/ WriteFile

DialogNext == DialogUser \/ DialogWorker \/ Poll \/ Destroyed

Elsewhere == ScanSaved \/ TakeName

-----------------------------------------------------------------------------
(* Properties *)

DialogTypeOK == dialog \in Dialog

\* What the dialog says of an export is what is in the directory: "saved" means
\* both files, "cancelled" that no directory was made, and an incomplete one is
\* only ever left behind by an export that is reported as failed.
StatusTellsTheFolder ==
  dialog.open /\ dialog.op = "export" /\ dialog.step = "idle" =>
    CASE dialog.status = "saved"     -> dialog.folder = "complete"
      [] dialog.status = "cancelled" -> dialog.folder \in {"absent", "taken"}
      [] OTHER                       -> dialog.folder # "complete"

\* The listed scans are consecutive, newest first, although scans are saved
\* between two pages; when there is no further page the first scan is listed.
ListHasNoGaps ==
  /\ \A i \in 1..Len(dialog.listed) - 1 : dialog.listed[i+1] = dialog.listed[i] - 1
  /\ dialog.listed # <<>> /\ ~dialog.more => dialog.listed[Len(dialog.listed)] = 1

\* docs/performance-and-interaction.md: a cancelled reading keeps the list.
CancelledReadingKeepsTheList ==
  [][dialog.op = "history" /\ Cancelled(dialog.control) /\ dialog.step # "idle" =>
       dialog'.listed \in {dialog.listed, <<>>} /\ (dialog'.open => dialog'.listed = dialog.listed)
    ]_dialog

\* A dialog whose closing was asked for closes.
DialogCloses == dialog.closing # "no" ~> ~dialog.open
=============================================================================

--------------------------- MODULE WindowReports ---------------------------
(***************************************************************************)
(* The main window with its report dialog.  The dialog is modal: while it is *)
(* open the window takes no clicks, but timers and workers go on, and a      *)
(* pending close of the window may come due under it.                        *)
(***************************************************************************)
EXTENDS TaskWindow

CONSTANTS PageSize, MaxScans

ASSUME WindowReportsAssumption == PageSize \in Nat \ {0} /\ MaxScans \in Nat \ {0}

VARIABLE dialog

R == INSTANCE ReportDialog

allVars == <<vars, dialog>>

\* "report": refused like everything else that reads the database.
OpenReport ==
  /\ Click("report") /\ Quiet(job) /\ win.root # NoProject
  /\ R!OpenDialog
  /\ UNCHANGED <<profile, job, win, faults>>

\* When the window closes the application quits and the dialog is destroyed.
DialogOf(opened, closed) ==
  IF dialog.open /\ opened /\ closed THEN R!Destroy(dialog) ELSE dialog

\* A step of the window, whose dialog goes with it.
With(A) ==
  /\ A
  /\ dialog' = DialogOf(win.open, ~win'.open)

\* Clicks reach the window when no dialog is open.
WindowUser == ~dialog.open /\ With(User)

Background == With((\E t \in Jobs : Worker(t)) \/ Timer)

DialogStep ==
  /\ R!DialogWorker \/ R!Poll \/ R!Destroyed \/ R!Elsewhere
  /\ UNCHANGED vars

DialogUser == win.open /\ R!DialogUser /\ UNCHANGED vars

AllInit == Init /\ R!DialogInit

AllNext == OpenReport \/ WindowUser \/ Background \/ DialogUser \/ DialogStep

AllSpec == AllInit /\ [][AllNext]_allVars

\* Workers end, and the event loop runs its timers, also below the dialog.
FairSpec ==
  /\ AllSpec
  /\ \A t \in Jobs : WF_allVars(With(Finish(t)))
  /\ WF_allVars(With(ScanFinished)) /\ WF_allVars(With(BuildFinished))
  /\ WF_allVars(With(QueryFinished)) /\ WF_allVars(With(HistoryFinished))
  /\ WF_allVars(With(PostedClose))
  /\ WF_allVars(R!DialogWorker /\ UNCHANGED vars)
  /\ WF_allVars(R!Poll /\ UNCHANGED vars)
  /\ WF_allVars(R!Destroyed /\ UNCHANGED vars)

-----------------------------------------------------------------------------
(* Properties *)

\* Every variable of the window and of its dialog holds a value of its type.
AllTypeOK == TypeOK /\ R!DialogTypeOK

\* The dialog tells the truth: a status of a report is that of the folder it was written
\* to, and the list of scans has no gap and no repetition although scans are saved
\* while it is read page by page.
DialogTellsTheTruth == R!StatusTellsTheFolder /\ R!ListHasNoGaps

\* A read whose cancellation was accepted, of the window or of its dialog, changes
\* nothing that is shown.
CancelledShowsNothing == CancelledReadShowsNothing /\ R!CancelledReadingKeepsTheList

\* A window or a dialog that was asked to close closes, whatever is at work.
EverythingCloses == WindowCloses /\ R!DialogCloses
=============================================================================

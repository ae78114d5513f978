----------------------------- MODULE TaskWindow -----------------------------
(***************************************************************************)
(* The main window (gui/qt/main.cpp) and its four background jobs: ScanTask,*)
(* BuildTask, and two ReadTasks (gui/qt/read_task.hpp), one for queries and *)
(* one for everything that is read from the database.  Every action is one  *)
(* event of the GUI thread, or the end of a worker.  What a scan and a build *)
(* do is in ScanSession and BuildRun; here they pass their fence and answer. *)
(*                                                                         *)
(* The settings in the widgets (project_config and the fields above the     *)
(* tabs) are modelled by the project whose profile they came from.          *)
(***************************************************************************)
EXTENDS Naturals, ScanControl

CONSTANTS
  Projects,     (* canonical roots                                         *)
  NoProject,    (* the empty root, and "no profile saved"                  *)
  Defaults,     (* settings that come from no profile                      *)
  MaxClicks,    (* bound on the clicks that start something                *)
  MaxFaults     (* bound on the reads of a shown project's profile that fail *)

ASSUME TaskWindowAssumption ==
  /\ NoProject \notin Projects /\ Defaults \notin Projects /\ NoProject # Defaults
  /\ MaxClicks \in Nat /\ MaxFaults \in Nat

VARIABLES
  profile,    (* project -> whose settings its saved profile holds         *)
  job,        (* the four background jobs                                  *)
  win,        (* the window's own variables and widgets                    *)
  closing,    (* close_pending, and whether a close event is posted        *)
  clicks, faults

vars == <<profile, job, win, closing, clicks, faults>>

Jobs    == {"scan", "build", "query", "history"}
Reads   == {"query", "history"}
Buttons == {"open", "rescan", "settings", "suppress", "report", "build", "run"}
Objects == 1..5    \* ScanResult objects; 0 is no object
Origins == Projects \cup {Defaults}

\* kind is what is read; answer is what the worker's future holds.
Job == [phase   : {"idle", "running", "ready"},
        control : ControlStates,
        kind    : {"none", "project", "builds", "log"},
        root    : Projects \cup {NoProject},
        answer  : {"none", "result", "configured", "failed", "cancelled"}]

Idle == [phase |-> "idle", control |-> "finished", kind |-> "none",
         root |-> NoProject, answer |-> "none"]

Window == [open       : BOOLEAN,
           root       : Projects \cup {NoProject},   \* current->root
           object     : Objects \cup {0},            \* current
           answer     : Objects \cup {0},            \* the snapshot of the answer in query_model
           builds     : Projects \cup {NoProject},   \* the project of build_runs
           queried    : Objects \cup {0},            \* queried_snapshot
           reading    : Objects \cup {0},            \* history_snapshot
           settings   : Origins,
           configRoot : Projects \cup {NoProject},
           generating : BOOLEAN,
           enabled    : SUBSET Buttons]

Busy(js, t) == js[t].phase # "idle"
Quiet(js)   == \A t \in {"scan", "build", "history"} : ~Busy(js, t)

\* start(): a fresh control word, and a worker.
Launch(js, t, kind, p) ==
  [js EXCEPT ![t] = [phase |-> "running", control |-> "running", kind |-> kind,
                     root |-> p, answer |-> "none"]]

\* cancel() of each of the tasks.
Cancel(js, t) ==
  IF Busy(js, t) /\ Cancellable(js[t].control)
  THEN [js EXCEPT ![t].control = "cancel_requested"] ELSE js

\* A new shared_ptr is none of those the window still holds.
FreshObject(w) ==
  CHOOSE n \in Objects : n \notin {w.object, w.answer, w.queried, w.reading}

\* set_running
SetRunning(w, js, busy) ==
  LET running == busy \/ Busy(js, "history")
      shown   == w.root # NoProject
      When(b, names) == IF b THEN names ELSE {}
  IN [w EXCEPT !.enabled =
        (@ \cap {"run"})
        \cup When(~running, {"open"})
        \cup When(~running /\ (shown \/ w.configRoot # NoProject), {"rescan"})
        \cup When(~running /\ ~Busy(js, "build"),
                  {"suppress"} \cup When(w.configRoot # NoProject, {"settings"})
                               \cup When(shown, {"report", "build"}))]

\* Mutant: the answer of the last query stays in its table.
Display_KeepsAnswer(w, js, p) ==
  [w EXCEPT !.root = p, !.object = FreshObject(w), !.builds = NoProject,
            !.enabled = IF Busy(js, "query") THEN @ \ {"run"} ELSE @ \cup {"run"}]

\* display, with the query it cancels left to the caller.
Display(w, js, p) ==
  [w EXCEPT !.root = p, !.object = FreshObject(w), !.builds = NoProject, !.answer = 0,
            !.enabled = IF Busy(js, "query") THEN @ \ {"run"} ELSE @ \cup {"run"}]

\* load_config: the saved profile, or what the last scan used, or the defaults,
\* which are then the project's own.
LoadConfig(w, saved, p) ==
  [w EXCEPT !.configRoot = p, !.settings = IF saved[p] = NoProject THEN p ELSE saved[p]]

-----------------------------------------------------------------------------
(* Handlers that several events share.  An outcome is a record of the       *)
(* variables a handler leaves behind and of the faults it met.              *)

Outcome(w, js, saved, failed) ==
  [win |-> w, job |-> js, profile |-> saved, faults |-> failed]

Becomes(o) ==
  /\ faults + o.faults <= MaxFaults
  /\ win' = o.win /\ job' = o.job /\ profile' = o.profile
  /\ faults' = faults + o.faults

\* Back to the settings of the shown project; when its profile cannot be read,
\* the widgets keep what they have.
Restored(w, js, saved) ==
  IF w.root = NoProject
  THEN {Outcome(SetRunning(w, js, FALSE), js, saved, 0)}
  ELSE {Outcome(SetRunning(LoadConfig(w, saved, w.root), js, FALSE), js, saved, 0),
        Outcome(w, js, saved, 1)}

\* scan(p): refused while another job runs.  Otherwise the profile of p is read
\* and the settings are saved; a profile that cannot be read, a choice of
\* compile commands that the user leaves, and a failing save restore the
\* selection.
ScanOf(w, js, saved, p) ==
  LET loaded == IF w.configRoot # p THEN LoadConfig(w, saved, p) ELSE w
      begun  == Launch(js, "scan", "none", p)
  IN IF ~Quiet(js) THEN {Outcome(w, js, saved, 0)}
     ELSE {Outcome(SetRunning(loaded, begun, TRUE), begun,
                   [saved EXCEPT ![p] = loaded.settings], 0)}
          \cup Restored(w, js, saved) \cup Restored(loaded, js, saved)

\* refresh_builds
RefreshBuilds(w, js, saved) ==
  IF Busy(js, "history") \/ closing.pending THEN Outcome(w, js, saved, 0)
  ELSE LET begun == Launch(js, "history", "builds", w.root)
       IN Outcome(SetRunning([w EXCEPT !.reading = w.object], begun, FALSE),
                  begun, saved, 0)

\* Mutant: the handlers leave the pending close to the user.
PostClose_Never == UNCHANGED closing

\* What the last lines of every "finished" handler do.
PostClose == closing' = [closing EXCEPT !.posted = @ \/ closing.pending]

-----------------------------------------------------------------------------
(* The user *)

Click(b) ==
  /\ win.open /\ b \in win.enabled
  /\ clicks < MaxClicks /\ clicks' = clicks + 1
  /\ UNCHANGED closing

\* "open" of another project, "rescan" of the selected one.
Open(p) ==
  /\ Click("open") /\ Quiet(job)
  /\ \E o \in ScanOf(win, job, profile, p) : Becomes(o)

Rescan ==
  /\ Click("rescan") /\ Quiet(job)
  /\ \E o \in ScanOf(win, job, profile,
               IF win.configRoot = NoProject THEN win.root ELSE win.configRoot) : Becomes(o)

\* open_history: a database is opened, or the last session restored.
Reopen ==
  /\ Click("open") /\ Quiet(job)
  /\ job' = Launch(job, "history", "project", NoProject)
  /\ win' = SetRunning(win, job', FALSE)
  /\ UNCHANGED <<profile, faults>>

ShowBuilds ==
  /\ Click("build") /\ ~Busy(job, "scan") /\ ~Busy(job, "build")
  /\ Becomes(RefreshBuilds(win, job, profile))

StartLogRead ==
  /\ job' = Launch(job, "history", "log", win.root)
  /\ win' = SetRunning([win EXCEPT !.reading = win.object], job', FALSE)
  /\ UNCHANGED <<profile, closing, clicks, faults>>

\* A click on a row of the build table, which is never disabled.
ReadLog ==
  /\ win.open /\ win.builds # NoProject
  /\ Quiet(job) /\ ~closing.pending
  /\ StartLogRead

\* start_build and "generate": the settings are saved as the profile of the
\* shown project; when that fails nothing starts.
Build(generate) ==
  /\ Click("build") /\ Quiet(job) /\ win.root # NoProject
  /\ job' = Launch(job, "build", "none", win.root)
  /\ win' = [win EXCEPT !.generating = generate, !.enabled = @ \cap {"run"}]
  /\ profile' = [profile EXCEPT ![win.root] = win.settings]
  /\ UNCHANGED faults

\* project_settings saves for the project whose settings were loaded, ...
SaveSettings ==
  /\ Click("settings") /\ ~Busy(job, "scan") /\ ~Busy(job, "build")
  /\ profile' = [profile EXCEPT ![win.configRoot] = win.settings]
  /\ UNCHANGED <<job, win, faults>>

\* ... suppress_action for the one that is shown.
Suppress ==
  /\ Click("suppress") /\ Quiet(job) /\ win.root # NoProject
  /\ profile' = [profile EXCEPT ![win.root] = win.settings]
  /\ UNCHANGED <<job, win, faults>>

RunQuery ==
  /\ Click("run") /\ ~Busy(job, "query") /\ win.root # NoProject
  /\ job' = Launch(job, "query", "none", win.root)
  /\ win' = [win EXCEPT !.answer = 0, !.queried = win.object, !.enabled = @ \ {"run"}]
  /\ UNCHANGED <<profile, faults>>

\* One of the four cancel buttons.
CancelJob(t) ==
  /\ win.open /\ Busy(job, t)
  /\ job' = Cancel(job, t)
  /\ UNCHANGED <<profile, win, closing, clicks, faults>>

\* allowClose: the window closes, or every job is cancelled and will be waited for.
Close ==
  IF \A t \in Jobs : ~Busy(job, t)
  THEN /\ win' = [win EXCEPT !.open = FALSE]
       /\ closing' = [closing EXCEPT !.posted = FALSE]
       /\ UNCHANGED job
  ELSE /\ closing' = [pending |-> TRUE, posted |-> FALSE]
       /\ job' = [t \in Jobs |-> Cancel(job, t)[t]]
       /\ UNCHANGED win

CloseButton ==
  /\ win.open
  /\ Close
  /\ UNCHANGED <<profile, clicks, faults>>

\* The single-shot timer that a "finished" handler started.
PostedClose ==
  /\ win.open /\ closing.posted
  /\ Close
  /\ UNCHANGED <<profile, clicks, faults>>

-----------------------------------------------------------------------------
(* The workers *)

\* begin_commit of import_project and build_and_test; a build that is cancelled
\* goes on to record itself.
PassFence(t) ==
  /\ t \in {"scan", "build"} /\ job[t].phase = "running"
  /\ MayCommit(job[t].control)
  /\ job' = [job EXCEPT ![t].control = "committing"]
  /\ UNCHANGED <<profile, win, closing, clicks, faults>>

Answers(t) ==
  LET j == job[t]
  IN CASE t = "scan"  -> IF Cancelled(j.control) THEN {"cancelled"}
                         ELSE {"failed"} \cup {x \in {"result"} : j.control = "committing"}
       [] t = "build" -> {"result", "failed"}
                         \cup {x \in {"configured"} : win.generating /\ j.control = "committing"}
       [] OTHER       -> {"result", "failed"} \cup {x \in {"cancelled"} : Cancelled(j.control)}

\* The worker's future becomes ready.  A scan and a build have sealed their
\* control word by then, a read has not.  What project a project read finds is up
\* to the database, to which other programs write.
Finish(t) ==
  /\ job[t].phase = "running"
  /\ \E answer \in Answers(t), p \in Projects \cup {NoProject} :
       /\ IF job[t].kind = "project" /\ answer = "result" THEN p # NoProject
                                                        ELSE p = job[t].root
       /\ job' = [job EXCEPT ![t].phase = "ready", ![t].answer = answer, ![t].root = p,
                             ![t].control = IF t \in Reads THEN @ ELSE "finished"]
  /\ UNCHANGED <<profile, win, closing, clicks, faults>>

-----------------------------------------------------------------------------
(* The timers: a ready future is delivered *)

\* Mutant: the control word is not looked at again.
Delivered_Unsealed(t) == job[t].answer

\* ReadTask::poll: finish() seals the word; an accepted cancellation drops a
\* result that was not shown yet.
Delivered(t) == IF Cancelled(job[t].control) THEN "cancelled" ELSE job[t].answer

Ready(t) == win.open /\ job[t].phase = "ready"
Freed(t) == [job EXCEPT ![t] = Idle]

ScanFinished ==
  /\ Ready("scan")
  /\ LET js   == Freed("scan")
         w    == SetRunning(win, js, FALSE)
         seen == SetRunning(Display(w, js, job["scan"].root), js, FALSE)
     IN IF job["scan"].answer = "result"
        THEN Becomes(Outcome(seen, Cancel(js, "query"), profile, 0))
        ELSE \E o \in Restored(w, js, profile) : Becomes(o)
  /\ PostClose
  /\ UNCHANGED clicks

\* A finished build refreshes the table of builds; a configuration that was
\* asked for is saved and scanned.
BuildFinished ==
  /\ Ready("build")
  /\ LET js     == Freed("build")
         w      == SetRunning([win EXCEPT !.generating = FALSE], js, FALSE)
         saved  == [profile EXCEPT ![w.root] = w.settings]
         answer == job["build"].answer
     IN IF win.generating
        THEN IF answer = "configured" /\ ~closing.pending
             THEN \/ Becomes(Outcome(w, js, profile, 0))
                  \/ \E o \in ScanOf(w, js, saved, w.root) : Becomes(o)
             ELSE Becomes(Outcome(w, js, profile, 0))
        ELSE Becomes(IF answer = "failed" THEN Outcome(w, js, profile, 0)
                     ELSE RefreshBuilds(w, js, profile))
  /\ PostClose
  /\ UNCHANGED clicks

\* Mutant: the button is left to the next display.
QueryButton_Off == {}

QueryButton == {b \in {"run"} : win.root # NoProject}

\* The answer is shown when the snapshot it was computed from still is.
QueryFinished ==
  /\ Ready("query")
  /\ LET shown == win.queried = win.object /\ ~closing.pending /\ Delivered("query") = "result"
     IN win' = [win EXCEPT !.answer = IF shown THEN win.queried ELSE @, !.queried = 0,
                           !.enabled = @ \cup QueryButton]
  /\ job' = Freed("query")
  /\ PostClose
  /\ UNCHANGED <<profile, clicks, faults>>

\* Mutant: settings that could not be read are left empty.
ProjectRead_Empty(w, js, p) ==
  LET seen == Display(w, js, p)
      none == [seen EXCEPT !.configRoot = NoProject, !.settings = NoProject]
  IN {Outcome(SetRunning(none, js, FALSE), Cancel(js, "query"), profile, 1)}

\* What a project read shows: the snapshot, and the settings, or the defaults
\* when the profile could not be read.
ProjectRead(w, js, p) ==
  LET seen == Display(w, js, p)
      with == LoadConfig(seen, profile, p)
      none == [seen EXCEPT !.configRoot = NoProject, !.settings = Defaults]
  IN {Outcome(SetRunning(with, js, FALSE), Cancel(js, "query"), profile, 0),
      Outcome(SetRunning(none, js, FALSE), Cancel(js, "query"), profile, 1)}

\* What a read of the builds shows: a copy of the snapshot that knows its builds.
BuildsRead(w, js) ==
  Outcome([w EXCEPT !.object = FreshObject(w), !.answer = 0, !.builds = w.root],
          Cancel(js, "query"), profile, 0)

HistoryFinished ==
  /\ Ready("history")
  /\ LET js   == Freed("history")
         w    == [SetRunning(win, js, FALSE) EXCEPT !.reading = 0]
         kind == job["history"].kind
     IN IF closing.pending \/ Delivered("history") # "result"
        THEN Becomes(Outcome(w, js, profile, 0))
        ELSE \/ /\ kind = "project"
                /\ \E o \in ProjectRead(w, js, job["history"].root) : Becomes(o)
             \/ /\ kind = "builds" /\ win.reading = win.object
                /\ Becomes(BuildsRead(w, js))
             \/ /\ kind = "log" \/ (kind = "builds" /\ win.reading # win.object)
                /\ Becomes(Outcome(w, js, profile, 0))
  /\ PostClose
  /\ UNCHANGED clicks

-----------------------------------------------------------------------------
Init ==
  /\ profile \in {f \in [Projects -> Projects \cup {NoProject}] :
                    \A p \in Projects : f[p] \in {p, NoProject}}
  /\ job = [t \in Jobs |-> Idle]
  /\ win = [open |-> TRUE, root |-> NoProject, object |-> 0, answer |-> 0,
            builds |-> NoProject, queried |-> 0, reading |-> 0, settings |-> Defaults,
            configRoot |-> NoProject, generating |-> FALSE,
            enabled |-> {"open", "suppress"}]
  /\ closing = [pending |-> FALSE, posted |-> FALSE]
  /\ clicks = 0 /\ faults = 0

User ==
  \/ \E p \in Projects : Open(p)
  \/ \E generate \in BOOLEAN : Build(generate)
  \/ \E t \in Jobs : CancelJob(t)
  \/ Rescan \/ Reopen \/ ShowBuilds \/ ReadLog \/ SaveSettings \/ Suppress
  \/ RunQuery \/ CloseButton

Worker(t) == PassFence(t) \/ Finish(t)

Timer == ScanFinished \/ BuildFinished \/ QueryFinished \/ HistoryFinished \/ PostedClose

Next == User \/ (\E t \in Jobs : Worker(t)) \/ Timer

Spec == Init /\ [][Next]_vars

-----------------------------------------------------------------------------
(* Properties *)

TypeOK ==
  /\ profile \in [Projects -> Origins \cup {NoProject}]
  /\ job \in [Jobs -> Job]
  /\ win \in Window
  /\ closing \in [pending : BOOLEAN, posted : BOOLEAN]
  /\ clicks \in 0..MaxClicks /\ faults \in 0..MaxFaults

\* At most one scan, build or database read runs at a time, and a read of builds
\* or of a log is of the snapshot that is still shown.
WorkIsOfWhatIsShown ==
  /\ \A t, u \in {"scan", "build", "history"} : Busy(job, t) /\ Busy(job, u) => t = u
  /\ job["history"].kind \in {"builds", "log"} => win.reading = win.object
  /\ Busy(job, "build") => job["build"].root = win.root

\* The rows of a query and of the build table belong to the snapshot the rest of
\* the window shows, whatever finished in between.
RowsAreOfWhatIsShown ==
  /\ win.answer \in {0, win.object}
  /\ win.builds \in {NoProject, win.root}

\* All that is shown, and all that is at work, is of one snapshot of one project.
ShownBelongsTogether == WorkIsOfWhatIsShown /\ RowsAreOfWhatIsShown

\* When nothing runs, the buttons that start something are enabled again.
ButtonsComeBack ==
  (\A t \in Jobs : ~Busy(job, t)) =>
    /\ "open" \in win.enabled
    /\ win.root # NoProject => {"rescan", "report", "build", "run"} \subseteq win.enabled

\* A read whose cancellation was accepted, also one that was ready but not yet
\* delivered, changes nothing that is shown.
CancelledReadShowsNothing ==
  [][\A t \in Reads :
       Busy(job, t) /\ Cancelled(job[t].control) /\ ~Busy(job', t) =>
         /\ win'.root = win.root /\ win'.object = win.object
         /\ win'.answer = win.answer /\ win'.builds = win.builds]_vars

\* A window that was asked to close while jobs ran does close, although jobs
\* behind their fence cannot be cancelled and the user may start others.
WindowCloses == closing.pending ~> ~win.open

\* docs/project-configuration.md: settings are kept per project and switching
\* projects loads its settings; a profile never receives another project's.
ProfilesStayApart == \A p \in Projects : profile[p] \in {p, NoProject}
=============================================================================

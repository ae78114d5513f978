------------------------- MODULE WindowReportsProofs -------------------------
(***************************************************************************)
(* What is true of the window and of its report dialog for any number of    *)
(* projects, clicks, scans and pages.                                       *)
(***************************************************************************)
EXTENDS WindowReports, TLAPS, SequenceTheorems

(***************************************************************************)
(* The dialog.                                                              *)
(***************************************************************************)

\* Which operation is where, and who holds its control word.
StepFits(d) ==
  /\ ~d.open => d = R!Closed
  /\ d.open => d.op \in {"history", "export"} /\ d.scans >= 1
  /\ d.op = "none" => d.step = "idle"
  /\ d.op = "history" => d.step \in {"idle", "reading", "done", "threw"}
  /\ d.op = "export" => d.step # "reading"
  /\ d.step = "idle" <=> d.control = "finished"
  /\ d.op = "history" => d.control # "committing"

\* Where the export is, so is its directory.
FolderFits(d) ==
  d.op = "export" =>
    /\ d.step # "idle" /\ d.control # "committing" => d.folder \in {"absent", "taken"}
    /\ d.step \in {"preparing", "prepared"} => d.control # "committing"
    /\ d.step \in {"creating", "writing", "done"} => d.control = "committing"
    /\ d.step = "creating" => d.folder \in {"absent", "taken"}
    /\ d.step = "writing" => d.folder \in {"created", "half"}
    /\ d.step = "done" => d.folder = "complete"
    /\ d.step = "threw" => d.folder # "complete"

\* The newest scans before n + 1, as many as a page holds.
Newest(n) == [i \in 1..(IF n < PageSize THEN n ELSE PageSize) |-> n + 1 - i]

\* The cursor is where the list ends, and what is read is what comes after it.
ListFits(d) ==
  /\ d.listed # <<>> => d.cursor = d.listed[Len(d.listed)]
  /\ d.listed = <<>> => d.cursor = 0 /\ ~d.more
  /\ d.op = "history" /\ d.step # "idle" /\ ~d.reset => d.listed # <<>>
  /\ d.op = "history" /\ d.step = "done" =>
       \E n \in 0..MaxScans : d.page = Newest(n) /\ (~d.reset => n = d.cursor - 1)

DialogInv ==
  /\ R!DialogTypeOK
  /\ StepFits(dialog) /\ FolderFits(dialog) /\ ListFits(dialog)
  /\ R!StatusTellsTheFolder /\ R!ListHasNoGaps

(***************************************************************************)
(* The window: what holds of its variables w, its jobs js and the saved      *)
(* profiles, and stays so through every handler.                            *)
(***************************************************************************)

Exclusive == {"scan", "build", "history"}

\* One job at a time besides the query, and what each of them was asked for.
Working(js) ==
  /\ \A t, u \in Exclusive : Busy(js, t) /\ Busy(js, u) => t = u
  /\ \A t \in Jobs : js[t].kind # "none" => t = "history" /\ Busy(js, t)
  /\ js["history"].phase = "ready" /\ js["history"].kind = "project"
       /\ js["history"].answer = "result" => js["history"].root \in Projects

\* What is shown and what is being read or built belong together.
Together(w, js) ==
  /\ js["history"].kind \in {"builds", "log"} => w.reading = w.object
  /\ Busy(js, "build") => js["build"].root = w.root /\ w.root # NoProject
  /\ w.answer \in {0, w.object}
  /\ w.builds \in {NoProject, w.root}

Consistent(w, js, saved) ==
  /\ w \in Window /\ js \in [Jobs -> Job] /\ saved \in [Projects -> Origins \cup {NoProject}]
  /\ Working(js) /\ Together(w, js)

\* The buttons: what starts a job comes back when the jobs that exclude it are over.
Startable(w, js) ==
  /\ Quiet(js) => /\ "open" \in w.enabled
                  /\ w.root # NoProject => {"rescan", "report", "build"} \subseteq w.enabled
  /\ "rescan" \in w.enabled => w.root # NoProject \/ w.configRoot # NoProject

Runnable(w, js) == ~Busy(js, "query") /\ w.root # NoProject => "run" \in w.enabled

Fits(w, js, saved) == Consistent(w, js, saved) /\ Startable(w, js) /\ Runnable(w, js)

WindowInv ==
  /\ Fits(win, job, profile)
  /\ closing \in [pending : BOOLEAN, posted : BOOLEAN]
  /\ clicks \in 0..MaxClicks /\ faults \in 0..MaxFaults

(***************************************************************************)
(* The helpers of the handlers.                                             *)
(***************************************************************************)

LEMMA Distinct ==
  NoProject \notin Projects /\ Defaults \notin Projects /\ NoProject # Defaults
  BY TaskWindowAssumption

LEMMA FreshType == \A w \in Window : FreshObject(w) \in Objects
<1> SUFFICES ASSUME NEW w \in Window PROVE FreshObject(w) \in Objects
  OBVIOUS
<1>1. w.object \in 0..5 /\ w.answer \in 0..5 /\ w.queried \in 0..5 /\ w.reading \in 0..5
  BY SMT DEF Window, Objects
<1>2. \E n \in Objects : n \notin {w.object, w.answer, w.queried, w.reading}
  BY <1>1, SMT DEF Objects
<1> QED  BY <1>2 DEF FreshObject

\* set_running changes the buttons only, and enables what may start.
LEMMA RunningFields ==
  ASSUME NEW w \in Window, NEW js, NEW busy
  PROVE  LET s == SetRunning(w, js, busy)
         IN s = [w EXCEPT !.enabled = s.enabled] /\ s.enabled \subseteq Buttons
  BY DEF SetRunning, Window, Buttons

LEMMA RunningFits ==
  ASSUME NEW w, NEW js, NEW saved, NEW busy \in BOOLEAN,
         Consistent(w, js, saved), Runnable(w, js), busy => ~Quiet(js)
  PROVE  Fits(SetRunning(w, js, busy), js, saved)
<1> DEFINE s == SetRunning(w, js, busy)
<1>1. w \in Window
  BY DEF Consistent
<1>2. s = [w EXCEPT !.enabled = s.enabled] /\ s.enabled \subseteq Buttons
  BY <1>1, RunningFields
<1>3. Consistent(s, js, saved)
  BY <1>1, <1>2 DEF Consistent, Together, Window
<1>4. Startable(s, js)
  BY <1>1 DEF Startable, SetRunning, Quiet, Window
<1>5. Runnable(s, js)
  BY <1>1 DEF Runnable, SetRunning, Window
<1> QED  BY <1>3, <1>4, <1>5 DEF Fits

LEMMA LoadFits ==
  ASSUME NEW w, NEW js, NEW saved, NEW p \in Projects, Consistent(w, js, saved)
  PROVE  LET l == LoadConfig(w, saved, p)
         IN /\ Consistent(l, js, saved)
            /\ Runnable(w, js) => Runnable(l, js)
            /\ Startable(w, js) => Startable(l, js)
            /\ l.root = w.root /\ l.settings \in Origins
<1> DEFINE l == LoadConfig(w, saved, p)
<1>1. w \in Window /\ saved[p] \in Origins \cup {NoProject}
  BY DEF Consistent
<1>2. p \in Origins /\ p \in Projects \cup {NoProject} /\ p # NoProject
  BY Distinct DEF Origins
<1>3. l \in Window /\ l.root = w.root /\ l.enabled = w.enabled /\ l.configRoot = p
      /\ l.object = w.object /\ l.answer = w.answer /\ l.builds = w.builds
      /\ l.reading = w.reading
  BY <1>1, <1>2 DEF LoadConfig, Window
<1>4. l.settings \in Origins
  BY <1>3 DEF Window
<1> QED  BY <1>2, <1>3, <1>4 DEF Consistent, Together, Runnable, Startable

\* What is displayed is a new snapshot, without rows.
LEMMA DisplayFits ==
  ASSUME NEW w, NEW js, NEW saved, NEW p \in Projects \cup {NoProject},
         Consistent(w, js, saved), js["history"].kind \notin {"builds", "log"},
         ~Busy(js, "build")
  PROVE  /\ Consistent(Display(w, js, p), js, saved)
         /\ Runnable(Display(w, js, p), js)
         /\ Display(w, js, p).root = p
<1>1. w \in Window /\ FreshObject(w) \in Objects
  BY FreshType DEF Consistent
<1>2. Display(w, js, p) \in Window
  BY <1>1 DEF Display, Window, Buttons
<1> QED  BY <1>1, <1>2 DEF Display, Window, Consistent, Together, Runnable

\* A job that starts while nothing that excludes it runs.
LEMMA LaunchFits ==
  ASSUME NEW w, NEW js, NEW saved, NEW t \in Jobs,
         NEW kind \in {"none", "project", "builds", "log"},
         NEW p \in Projects \cup {NoProject},
         Consistent(w, js, saved),
         t = "query" \/ Quiet(js),
         kind # "none" => t = "history",
         kind \in {"builds", "log"} => w.reading = w.object,
         t = "build" => p = w.root /\ w.root # NoProject
  PROVE  /\ Consistent(w, Launch(js, t, kind, p), saved)
         /\ Runnable(w, js) => Runnable(w, Launch(js, t, kind, p))
         /\ Busy(Launch(js, t, kind, p), t)
         /\ \A u \in Jobs : Busy(js, u) => Busy(Launch(js, t, kind, p), u)
         /\ t # "query" => ~Quiet(Launch(js, t, kind, p))
<1> DEFINE new == [phase |-> "running", control |-> "running", kind |-> kind,
                   root |-> p, answer |-> "none"]
           ls  == Launch(js, t, kind, p)
<1>1. js \in [Jobs -> Job] /\ new \in Job
  BY DEF Consistent, Job, ControlStates
<1>2. ls \in [Jobs -> Job] /\ ls = [js EXCEPT ![t] = new]
  BY <1>1 DEF Launch
<1>3. Busy(ls, t) /\ \A u \in Jobs : u # t => ls[u] = js[u]
  BY <1>1, <1>2 DEF Busy
<1>4. \A u \in Jobs : Busy(js, u) => Busy(ls, u)
  BY <1>3 DEF Busy
<1>5. ls[t] = new
  BY <1>1, <1>2
<1>6. Working(ls)
  BY <1>1, <1>3, <1>5 DEF Working, Quiet, Jobs, Exclusive, Busy, Consistent
<1>7. Together(w, ls)
  BY <1>1, <1>3, <1>5 DEF Together, Jobs, Busy, Consistent, Working
<1>8. t # "query" => ~Quiet(ls)
  BY <1>3 DEF Quiet, Jobs
<1>9. Runnable(w, js) => Runnable(w, ls)
  BY <1>4 DEF Runnable, Jobs
<1> QED  BY <1>2, <1>3, <1>4, <1>6, <1>7, <1>8, <1>9 DEF Consistent

LEMMA CancelFits ==
  ASSUME NEW w, NEW js, NEW saved, NEW t \in Jobs, Consistent(w, js, saved)
  PROVE  /\ Consistent(w, Cancel(js, t), saved)
         /\ \A u \in Jobs : Busy(js, u) <=> Busy(Cancel(js, t), u)
<1> DEFINE c == Cancel(js, t)
<1>1. js \in [Jobs -> Job]
  BY DEF Consistent
<1>2. /\ c \in [Jobs -> Job]
      /\ \A u \in Jobs : c[u].phase = js[u].phase /\ c[u].kind = js[u].kind
                        /\ c[u].root = js[u].root /\ c[u].answer = js[u].answer
  BY <1>1 DEF Cancel, Job, ControlStates
<1>3. \A u \in Jobs : Busy(js, u) <=> Busy(c, u)
  BY <1>2 DEF Busy
<1>4. Working(c)
  BY <1>2, <1>3 DEF Working, Consistent, Jobs, Exclusive
<1>5. Together(w, c)
  BY <1>2, <1>3 DEF Together, Consistent, Jobs
<1> QED  BY <1>2, <1>3, <1>4, <1>5 DEF Consistent

\* With the same jobs at work the buttons fit as before.
LEMMA SameBusyFits ==
  ASSUME NEW w, NEW js, NEW ks, NEW saved, Fits(w, js, saved), Consistent(w, ks, saved),
         \A u \in Jobs : Busy(js, u) <=> Busy(ks, u)
  PROVE  Fits(w, ks, saved)
  BY DEF Fits, Startable, Runnable, Quiet, Jobs

LEMMA FreedFits ==
  ASSUME NEW w, NEW js, NEW saved, NEW t \in Jobs, Consistent(w, js, saved)
  PROVE  LET f == [js EXCEPT ![t] = Idle]
         IN /\ Consistent(w, f, saved)
            /\ ~Busy(f, t) /\ f[t].kind = "none"
            /\ \A u \in Jobs : u # t => f[u] = js[u]
            /\ t # "query" /\ Runnable(w, js) => Runnable(w, f)
            /\ t \in Exclusive /\ Busy(js, t) => Quiet(f)
<1> DEFINE f == [js EXCEPT ![t] = Idle]
<1>1. js \in [Jobs -> Job] /\ Idle \in Job
  BY DEF Consistent, Job, Idle, ControlStates
<1>2. f \in [Jobs -> Job] /\ f[t] = Idle /\ \A u \in Jobs : u # t => f[u] = js[u]
  BY <1>1
<1>3. ~Busy(f, t) /\ f[t].kind = "none" /\ f[t].phase = "idle"
  BY <1>2 DEF Busy, Idle
<1>4. \A u \in Jobs : u # t => (Busy(f, u) <=> Busy(js, u))
  BY <1>2 DEF Busy
<1>5. Working(f)
  BY <1>2, <1>3, <1>4 DEF Working, Consistent, Jobs, Exclusive
<1>6. Together(w, f)
  BY <1>2, <1>3, <1>4 DEF Together, Consistent, Jobs
<1>7. t # "query" /\ Runnable(w, js) => Runnable(w, f)
  BY <1>4 DEF Runnable, Jobs
<1>8. t \in Exclusive /\ Busy(js, t) => Quiet(f)
  BY <1>3, <1>4 DEF Quiet, Consistent, Working, Exclusive, Jobs
<1> QED  BY <1>2, <1>3, <1>5, <1>6, <1>7, <1>8 DEF Consistent

(***************************************************************************)
(* The handlers.                                                            *)
(***************************************************************************)

\* Reads that run when a handler is called still run when it returns.
Keeps(js, ks) == \A t \in Reads : Busy(js, t) => Busy(ks, t)

\* What a handler leaves behind.
Sound(o) == Fits(o.win, o.job, o.profile) /\ o.faults \in {0, 1}

LEMMA OutcomeSound ==
  ASSUME NEW w, NEW js, NEW saved, NEW failed \in {0, 1}, Fits(w, js, saved)
  PROVE  /\ Sound(Outcome(w, js, saved, failed))
         /\ Outcome(w, js, saved, failed).job = js
  BY DEF Sound, Outcome

LEMMA RestoredFits ==
  ASSUME NEW w, NEW js, NEW saved, Fits(w, js, saved), NEW o \in Restored(w, js, saved)
  PROVE  Sound(o) /\ o.job = js
<1>1. w.root \in Projects \cup {NoProject}
  BY DEF Fits, Consistent, Window
<1>2. CASE w.root = NoProject
  <2>1. o = Outcome(SetRunning(w, js, FALSE), js, saved, 0)
    BY <1>2 DEF Restored
  <2>2. Fits(SetRunning(w, js, FALSE), js, saved)
    BY RunningFits DEF Fits
  <2> QED  BY <2>1, <2>2, OutcomeSound
<1>3. CASE w.root # NoProject
  <2> DEFINE l == LoadConfig(w, saved, w.root)
  <2>1. w.root \in Projects
    BY <1>1, <1>3
  <2>2. Consistent(l, js, saved) /\ Runnable(l, js)
    BY <2>1, LoadFits DEF Fits
  <2>3. Fits(SetRunning(l, js, FALSE), js, saved)
    BY <2>2, RunningFits
  <2>4. o = Outcome(SetRunning(l, js, FALSE), js, saved, 0) \/ o = Outcome(w, js, saved, 1)
    BY <1>3 DEF Restored
  <2> HIDE DEF l
  <2>5. CASE o = Outcome(SetRunning(l, js, FALSE), js, saved, 0)
    BY <2>3, <2>5, OutcomeSound
  <2>6. CASE o = Outcome(w, js, saved, 1)
    BY <2>6, OutcomeSound
  <2> QED  BY <2>4, <2>5, <2>6
<1> QED  BY <1>2, <1>3

LEMMA ScanOfFits ==
  ASSUME NEW w, NEW js, NEW saved, NEW p \in Projects, Fits(w, js, saved),
         NEW o \in ScanOf(w, js, saved, p)
  PROVE  Sound(o) /\ Keeps(js, o.job)
<1> DEFINE loaded == IF w.configRoot # p THEN LoadConfig(w, saved, p) ELSE w
           begun  == Launch(js, "scan", "none", p)
           after  == [saved EXCEPT ![p] = loaded.settings]
<1>1. Fits(loaded, js, saved) /\ loaded.settings \in Origins
  BY LoadFits DEF Fits, Consistent, Window
<1>2. CASE ~Quiet(js)
  <2>1. o = Outcome(w, js, saved, 0)
    BY <1>2 DEF ScanOf
  <2> QED  BY <2>1, OutcomeSound DEF Keeps
<1>3. CASE Quiet(js)
  <2>1. /\ Consistent(loaded, begun, saved) /\ Runnable(loaded, begun)
        /\ ~Quiet(begun) /\ \A u \in Jobs : Busy(js, u) => Busy(begun, u)
    BY <1>1, <1>3, LaunchFits DEF Fits, Jobs
  <2>2. after \in [Projects -> Origins \cup {NoProject}]
    BY <1>1 DEF Fits, Consistent
  <2>3. Consistent(loaded, begun, after)
    BY <2>1, <2>2 DEF Consistent
  <2>4. Fits(SetRunning(loaded, begun, TRUE), begun, after)
    BY <2>1, <2>3, RunningFits
  <2>5. o \in {Outcome(SetRunning(loaded, begun, TRUE), begun, after, 0)}
             \cup Restored(w, js, saved) \cup Restored(loaded, js, saved)
    BY <1>3 DEF ScanOf
  <2> HIDE DEF loaded, begun, after
  <2>6. CASE o = Outcome(SetRunning(loaded, begun, TRUE), begun, after, 0)
    <3>1. Sound(o) /\ o.job = begun
      BY <2>4, <2>6, OutcomeSound
    <3> QED  BY <2>1, <3>1 DEF Keeps, Reads, Jobs
  <2>7. CASE o \in Restored(w, js, saved) \cup Restored(loaded, js, saved)
    <3>1. Sound(o) /\ o.job = js
      BY <1>1, <2>7, RestoredFits
    <3> QED  BY <3>1 DEF Keeps
  <2> QED  BY <2>5, <2>6, <2>7
<1> QED  BY <1>2, <1>3

LEMMA RefreshFits ==
  ASSUME NEW w, NEW js, NEW saved, Fits(w, js, saved), ~Busy(js, "scan"), ~Busy(js, "build")
  PROVE  Sound(RefreshBuilds(w, js, saved)) /\ Keeps(js, RefreshBuilds(w, js, saved).job)
<1> DEFINE begun == Launch(js, "history", "builds", w.root)
           r     == [w EXCEPT !.reading = w.object]
<1>1. CASE Busy(js, "history") \/ closing.pending
  <2>1. RefreshBuilds(w, js, saved) = Outcome(w, js, saved, 0)
    BY <1>1 DEF RefreshBuilds
  <2> QED  BY <2>1, OutcomeSound DEF Keeps
<1>2. CASE ~(Busy(js, "history") \/ closing.pending)
  <2>1. w \in Window
    BY DEF Fits, Consistent
  <2>2. r \in Window /\ r.reading = r.object /\ r.object = w.object /\ r.root = w.root
        /\ r.answer = w.answer /\ r.builds = w.builds /\ r.enabled = w.enabled
        /\ w.root \in Projects \cup {NoProject}
    BY <2>1 DEF Window
  <2>3. Quiet(js)
    BY <1>2 DEF Quiet
  <2>4. Consistent(r, js, saved) /\ Runnable(r, js)
    BY <2>2 DEF Fits, Consistent, Together, Runnable
  <2>5. /\ Consistent(r, begun, saved) /\ Runnable(r, begun)
        /\ \A u \in Jobs : Busy(js, u) => Busy(begun, u)
    <3> HIDE DEF r
    <3> QED  BY <2>2, <2>3, <2>4, LaunchFits DEF Jobs
  <2>6. Fits(SetRunning(r, begun, FALSE), begun, saved)
    BY <2>5, RunningFits
  <2>7. RefreshBuilds(w, js, saved) = Outcome(SetRunning(r, begun, FALSE), begun, saved, 0)
    BY <1>2 DEF RefreshBuilds
  <2> HIDE DEF r, begun
  <2>8. /\ Sound(Outcome(SetRunning(r, begun, FALSE), begun, saved, 0))
        /\ Outcome(SetRunning(r, begun, FALSE), begun, saved, 0).job = begun
    BY <2>6, OutcomeSound
  <2> QED  BY <2>5, <2>7, <2>8 DEF Keeps, Reads, Jobs
<1> QED  BY <1>1, <1>2

\* A step to a sound outcome.
LEMMA BecomesFits ==
  ASSUME TypeOK, NEW o, Sound(o), Becomes(o)
  PROVE  Fits(win', job', profile') /\ faults' \in 0..MaxFaults
  BY TaskWindowAssumption DEF Sound, Becomes, TypeOK

(***************************************************************************)
(* Every step keeps the invariant of the window.                            *)
(***************************************************************************)

\* No read ends.
StillReading == \A t \in Reads : Busy(job, t) => Busy(job', t)

LEMMA TypesFit == WindowInv => TypeOK
  BY DEF WindowInv, TypeOK, Fits, Consistent

LEMMA ClickFits ==
  ASSUME WindowInv, NEW b, Click(b)
  PROVE  clicks' \in 0..MaxClicks /\ closing' = closing
  BY TaskWindowAssumption DEF WindowInv, Click

LEMMA OpenFits ==
  ASSUME WindowInv, NEW p \in Projects, Open(p)
  PROVE  WindowInv' /\ StillReading
<1>1. PICK o \in ScanOf(win, job, profile, p) : Becomes(o)
  BY DEF Open
<1>2. Sound(o) /\ Keeps(job, o.job)
  BY ScanOfFits DEF WindowInv
<1>3. Fits(win', job', profile') /\ faults' \in 0..MaxFaults
  BY <1>1, <1>2, TypesFit, BecomesFits
<1>4. StillReading
  BY <1>1, <1>2 DEF Keeps, StillReading, Becomes
<1> QED  BY <1>3, <1>4, ClickFits DEF WindowInv, Open

LEMMA RescanFits == ASSUME WindowInv, Rescan PROVE WindowInv' /\ StillReading
<1> DEFINE p == IF win.configRoot = NoProject THEN win.root ELSE win.configRoot
<1>1. p \in Projects
  BY DEF Rescan, Click, WindowInv, Fits, Consistent, Startable, Window
<1>2. PICK o \in ScanOf(win, job, profile, p) : Becomes(o)
  BY DEF Rescan
<1> HIDE DEF p
<1>3. Sound(o) /\ Keeps(job, o.job)
  BY <1>1, ScanOfFits DEF WindowInv
<1>4. Fits(win', job', profile') /\ faults' \in 0..MaxFaults
  BY <1>2, <1>3, TypesFit, BecomesFits
<1>5. StillReading
  BY <1>2, <1>3 DEF Keeps, StillReading, Becomes
<1> QED  BY <1>4, <1>5, ClickFits DEF WindowInv, Rescan

LEMMA ReopenFits == ASSUME WindowInv, Reopen PROVE WindowInv' /\ StillReading
<1>1. Quiet(job) /\ job' = Launch(job, "history", "project", NoProject)
  BY DEF Reopen
<1>2. /\ Consistent(win, job', profile) /\ Runnable(win, job')
      /\ \A u \in Jobs : Busy(job, u) => Busy(job', u)
  BY <1>1, LaunchFits DEF WindowInv, Fits, Jobs
<1>3. Fits(win', job', profile')
  BY <1>2, RunningFits DEF Reopen
<1> QED  BY <1>2, <1>3, ClickFits DEF WindowInv, Reopen, StillReading, Reads, Jobs

LEMMA ShowBuildsFits == ASSUME WindowInv, ShowBuilds PROVE WindowInv' /\ StillReading
<1> DEFINE o == RefreshBuilds(win, job, profile)
<1>1. Sound(o) /\ Keeps(job, o.job)
  BY RefreshFits DEF WindowInv, ShowBuilds
<1>2. Becomes(o)
  BY DEF ShowBuilds
<1> HIDE DEF o
<1>3. Fits(win', job', profile') /\ faults' \in 0..MaxFaults
  BY <1>1, <1>2, TypesFit, BecomesFits
<1>4. StillReading
  BY <1>1, <1>2 DEF Keeps, StillReading, Becomes
<1> QED  BY <1>3, <1>4, ClickFits DEF WindowInv, ShowBuilds

\* The snapshot that a read of its builds or of a log is for.
LEMMA ReadingFits ==
  ASSUME NEW w, NEW js, NEW saved, Consistent(w, js, saved), Runnable(w, js), Quiet(js)
  PROVE  LET r == [w EXCEPT !.reading = w.object]
         IN /\ Consistent(r, js, saved) /\ Runnable(r, js)
            /\ r.reading = r.object /\ w.root \in Projects \cup {NoProject}
  BY DEF Consistent, Together, Runnable, Window

LEMMA ReadLogFits == ASSUME WindowInv, ReadLog PROVE WindowInv' /\ StillReading
<1> DEFINE r == [win EXCEPT !.reading = win.object]
<1>1. Quiet(job) /\ job' = Launch(job, "history", "log", win.root)
  BY DEF ReadLog, StartLogRead
<1>2. Consistent(r, job, profile) /\ Runnable(r, job) /\ r.reading = r.object
      /\ win.root \in Projects \cup {NoProject}
  BY <1>1, ReadingFits DEF WindowInv, Fits
<1>3. win' = SetRunning(r, job', FALSE)
  BY DEF ReadLog, StartLogRead
<1> HIDE DEF r
<1>4. /\ Consistent(r, job', profile) /\ Runnable(r, job')
      /\ \A u \in Jobs : Busy(job, u) => Busy(job', u)
  BY <1>1, <1>2, LaunchFits DEF Jobs
<1>5. Fits(win', job', profile)
  BY <1>3, <1>4, RunningFits
<1> QED  BY <1>4, <1>5 DEF WindowInv, ReadLog, StartLogRead, StillReading, Reads, Jobs

LEMMA BuildFits ==
  ASSUME WindowInv, NEW generate \in BOOLEAN, Build(generate)
  PROVE  WindowInv' /\ StillReading
<1>1. Quiet(job) /\ win.root # NoProject /\ job' = Launch(job, "build", "none", win.root)
  BY DEF Build
<1>2. win \in Window /\ win.settings \in Origins /\ win.root \in Projects \cup {NoProject}
  BY DEF WindowInv, Fits, Consistent, Window
<1>3. /\ Consistent(win, job', profile) /\ Runnable(win, job') /\ ~Quiet(job')
      /\ \A u \in Jobs : Busy(job, u) => Busy(job', u)
  BY <1>1, <1>2, LaunchFits DEF WindowInv, Fits, Jobs
<1>4. win' \in Window /\ win'.root = win.root /\ win'.reading = win.reading
      /\ win'.object = win.object /\ win'.answer = win.answer /\ win'.builds = win.builds
      /\ win'.enabled = win.enabled \cap {"run"}
  BY <1>2 DEF Build, Window
<1>5. profile' \in [Projects -> Origins \cup {NoProject}]
  BY <1>2 DEF Build, WindowInv, Fits, Consistent
<1>6. Consistent(win', job', profile')
  BY <1>3, <1>4, <1>5 DEF Consistent, Together
<1>7. Runnable(win', job') /\ Startable(win', job')
  BY <1>3, <1>4 DEF Runnable, Startable
<1> QED  BY <1>3, <1>6, <1>7, ClickFits DEF WindowInv, Fits, Build, StillReading, Reads, Jobs

LEMMA SettingsFit ==
  ASSUME WindowInv, SaveSettings \/ Suppress
  PROVE  WindowInv' /\ StillReading
<1>1. win.settings \in Origins
  BY DEF WindowInv, Fits, Consistent, Window
<1>2. profile' \in [Projects -> Origins \cup {NoProject}]
  BY <1>1 DEF SaveSettings, Suppress, WindowInv, Fits, Consistent
<1>3. win' = win /\ job' = job /\ faults' = faults /\ clicks' \in 0..MaxClicks /\ closing' = closing
  BY ClickFits DEF SaveSettings, Suppress
<1>4. Fits(win, job, profile')
  BY <1>2 DEF WindowInv, Fits, Consistent
<1> QED  BY <1>3, <1>4 DEF WindowInv, StillReading

LEMMA RunQueryFits == ASSUME WindowInv, RunQuery PROVE WindowInv' /\ StillReading
<1>1. job' = Launch(job, "query", "none", win.root) /\ profile' = profile
  BY DEF RunQuery
<1>2. win \in Window /\ win.root \in Projects \cup {NoProject}
  BY DEF WindowInv, Fits, Consistent, Window
<1>3. /\ Consistent(win, job', profile) /\ Busy(job', "query")
      /\ \A u \in Jobs : Busy(job, u) => Busy(job', u)
  BY <1>1, <1>2, LaunchFits DEF WindowInv, Fits, Jobs
<1>4. /\ win' \in Window /\ win'.root = win.root /\ win'.reading = win.reading
      /\ win'.object = win.object /\ win'.answer = 0 /\ win'.builds = win.builds
      /\ win'.configRoot = win.configRoot /\ win'.enabled = win.enabled \ {"run"}
  BY <1>2 DEF RunQuery, Window
<1>5. Consistent(win', job', profile)
  BY <1>3, <1>4 DEF Consistent, Together
<1>6. Startable(win', job')
  BY <1>3, <1>4 DEF WindowInv, Fits, Startable, Quiet, Jobs
<1>7. Runnable(win', job')
  BY <1>3 DEF Runnable
<1> QED  BY <1>1, <1>3, <1>5, <1>6, <1>7, ClickFits
            DEF WindowInv, Fits, RunQuery, StillReading, Reads, Jobs

LEMMA CancelJobFits ==
  ASSUME WindowInv, NEW t \in Jobs, CancelJob(t)
  PROVE  WindowInv' /\ StillReading
<1>1. job' = Cancel(job, t)
  BY DEF CancelJob
<1>2. Consistent(win, job', profile) /\ \A u \in Jobs : Busy(job, u) <=> Busy(job', u)
  BY <1>1, CancelFits DEF WindowInv, Fits
<1>3. Fits(win, job', profile)
  BY <1>2, SameBusyFits DEF WindowInv
<1> QED  BY <1>2, <1>3 DEF WindowInv, CancelJob, StillReading, Reads, Jobs

\* Each job is cancelled for itself.
LEMMA CloseFits ==
  ASSUME WindowInv, Close, UNCHANGED <<profile, clicks, faults>>
  PROVE  WindowInv' /\ StillReading
<1>1. CASE \A t \in Jobs : ~Busy(job, t)
  <2>1. win' = [win EXCEPT !.open = FALSE] /\ job' = job
        /\ closing' = [closing EXCEPT !.posted = FALSE]
    BY <1>1 DEF Close
  <2>2. Fits(win', job, profile)
    BY <2>1 DEF WindowInv, Fits, Consistent, Together, Startable, Runnable, Window
  <2> QED  BY <2>1, <2>2 DEF WindowInv, StillReading
<1>2. CASE ~ \A t \in Jobs : ~Busy(job, t)
  <2>1. win' = win /\ closing' = [pending |-> TRUE, posted |-> FALSE]
        /\ job' = [t \in Jobs |-> Cancel(job, t)[t]]
    BY <1>2 DEF Close
  <2>2. job \in [Jobs -> Job]
    BY DEF WindowInv, Fits, Consistent
  <2>3. \A t \in Jobs : /\ job'[t] \in Job /\ job'[t].phase = job[t].phase
                        /\ job'[t].kind = job[t].kind /\ job'[t].root = job[t].root
                        /\ job'[t].answer = job[t].answer
    BY <2>1, <2>2 DEF Cancel, Job, ControlStates
  <2>4. job' \in [Jobs -> Job]
    BY <2>1, <2>3
  <2>5. \A t \in Jobs : Busy(job, t) <=> Busy(job', t)
    BY <2>3 DEF Busy
  <2>6. Working(job') /\ Together(win, job')
    BY <2>3, <2>5 DEF WindowInv, Fits, Consistent, Working, Together, Jobs, Exclusive
  <2>7. Fits(win, job', profile)
    BY <2>4, <2>5, <2>6, SameBusyFits DEF WindowInv, Fits, Consistent
  <2> QED  BY <2>1, <2>5, <2>7 DEF WindowInv, StillReading, Reads, Jobs
<1> QED  BY <1>1, <1>2

LEMMA WorkerFits ==
  ASSUME WindowInv, NEW t \in Jobs, Worker(t)
  PROVE  WindowInv' /\ StillReading
<1>1. job \in [Jobs -> Job]
  BY DEF WindowInv, Fits, Consistent
<1>2. CASE PassFence(t)
  <2>1. /\ job' = [job EXCEPT ![t].control = "committing"]
        /\ UNCHANGED <<profile, win, closing, clicks, faults>>
    BY <1>2 DEF PassFence
  <2>2. job' \in [Jobs -> Job]
        /\ \A u \in Jobs : /\ job'[u].phase = job[u].phase /\ job'[u].kind = job[u].kind
                          /\ job'[u].root = job[u].root /\ job'[u].answer = job[u].answer
    BY <1>1, <2>1 DEF Job, ControlStates
  <2>3. \A u \in Jobs : Busy(job, u) <=> Busy(job', u)
    BY <2>2 DEF Busy
  <2>4. Working(job') /\ Together(win, job')
    BY <2>2, <2>3 DEF WindowInv, Fits, Consistent, Working, Together, Jobs, Exclusive
  <2>5. Fits(win, job', profile)
    BY <2>2, <2>3, <2>4, SameBusyFits DEF WindowInv, Fits, Consistent
  <2> QED  BY <2>1, <2>3, <2>5 DEF WindowInv, StillReading, Reads, Jobs
<1>3. CASE Finish(t)
  <2>1. PICK answer \in Answers(t), p \in Projects \cup {NoProject} :
          /\ IF job[t].kind = "project" /\ answer = "result" THEN p # NoProject
                                                           ELSE p = job[t].root
          /\ job' = [job EXCEPT ![t].phase = "ready", ![t].answer = answer, ![t].root = p,
                                ![t].control = IF t \in Reads THEN @ ELSE "finished"]
    BY <1>3 DEF Finish
  <2>2. job[t].phase = "running" /\ UNCHANGED <<profile, win, closing, clicks, faults>>
    BY <1>3 DEF Finish
  <2>3. answer \in {"none", "result", "configured", "failed", "cancelled"}
    BY <2>1 DEF Answers
  <2>4. job' \in [Jobs -> Job]
    <3> DEFINE new == [job[t] EXCEPT !.phase = "ready", !.answer = answer, !.root = p,
                                     !.control = IF t \in Reads THEN @ ELSE "finished"]
    <3>1. job' = [job EXCEPT ![t] = new]
      BY <1>1, <2>1
    <3>2. job[t] \in Job
      BY <1>1
    <3>3. new \in Job
      BY <2>3, <3>2 DEF Job, ControlStates
    <3> HIDE DEF new
    <3> QED  BY <1>1, <3>1, <3>3
  <2>5. /\ job'[t].phase = "ready" /\ job'[t].kind = job[t].kind
        /\ job'[t].answer = answer /\ job'[t].root = p
        /\ \A u \in Jobs : u # t => job'[u] = job[u]
    BY <1>1, <2>1 DEF Job
  <2>6. \A u \in Jobs : Busy(job, u) <=> Busy(job', u)
    BY <2>2, <2>5 DEF Busy
  <2>7. Working(job')
    BY <2>1, <2>5, <2>6 DEF WindowInv, Fits, Consistent, Working, Jobs, Exclusive
  <2>8. job[t].kind # "none" => t = "history"
    BY DEF WindowInv, Fits, Consistent, Working
  <2>9. Together(win, job')
    BY <2>1, <2>5, <2>6, <2>8 DEF WindowInv, Fits, Consistent, Together, Jobs
  <2>10. Fits(win, job', profile)
    BY <2>4, <2>6, <2>7, <2>9, SameBusyFits DEF WindowInv, Fits, Consistent
  <2> QED  BY <2>2, <2>6, <2>10 DEF WindowInv, StillReading, Reads, Jobs
<1> QED  BY <1>2, <1>3 DEF Worker

LEMMA PostCloseFits ==
  ASSUME WindowInv, PostClose
  PROVE  closing' \in [pending : BOOLEAN, posted : BOOLEAN]
  BY DEF WindowInv, PostClose

LEMMA ScanFinishedFits == ASSUME WindowInv, ScanFinished PROVE WindowInv' /\ StillReading
<1> DEFINE js   == Freed("scan")
           w    == SetRunning(win, js, FALSE)
           p    == job["scan"].root
           d    == Display(w, js, p)
           seen == SetRunning(d, js, FALSE)
<1>1. /\ Consistent(win, js, profile) /\ Runnable(win, js) /\ Quiet(js)
      /\ \A u \in Jobs : u # "scan" => js[u] = job[u]
  <2>1. Busy(job, "scan") /\ js = [job EXCEPT !["scan"] = Idle]
    BY DEF ScanFinished, Ready, Freed, Busy
  <2>2. "scan" \in Jobs /\ "scan" \in Exclusive /\ "scan" # "query"
    BY DEF Jobs, Exclusive
  <2>3. Consistent(win, job, profile) /\ Runnable(win, job)
    BY DEF WindowInv, Fits
  <2> HIDE DEF js
  <2> QED  BY <2>1, <2>2, <2>3, FreedFits
<1>2. p \in Projects \cup {NoProject}
  BY DEF WindowInv, Fits, Consistent, Job, Jobs
<1>3. Fits(w, js, profile)
  BY <1>1, RunningFits
<1>4. js["history"].kind \notin {"builds", "log"} /\ ~Busy(js, "build")
  BY <1>1 DEF Consistent, Working, Quiet, Jobs
<1>5. \A u \in Reads : Busy(job, u) <=> Busy(js, u)
  BY <1>1 DEF Reads, Jobs, Busy
<1>6. CASE job["scan"].answer = "result"
  <2> DEFINE ks == Cancel(js, "query")
  <2>1. Becomes(Outcome(seen, ks, profile, 0))
    BY <1>6 DEF ScanFinished
  <2> HIDE DEF js, w, p
  <2>2. Consistent(d, js, profile) /\ Runnable(d, js)
    BY <1>2, <1>3, <1>4, DisplayFits DEF Fits
  <2> HIDE DEF d
  <2>3. Fits(seen, js, profile)
    BY <2>2, RunningFits
  <2> HIDE DEF seen
  <2>4. Consistent(seen, ks, profile) /\ \A u \in Jobs : Busy(js, u) <=> Busy(ks, u)
    BY <2>3, CancelFits DEF Fits, Jobs
  <2>5. Fits(seen, ks, profile)
    BY <2>3, <2>4, SameBusyFits
  <2> HIDE DEF ks
  <2>6. Sound(Outcome(seen, ks, profile, 0)) /\ Outcome(seen, ks, profile, 0).job = ks
    BY <2>5, OutcomeSound
  <2>7. Fits(win', job', profile') /\ faults' \in 0..MaxFaults
    BY <2>1, <2>6, TypesFit, BecomesFits
  <2>8. StillReading
    BY <1>5, <2>1, <2>4, <2>6 DEF StillReading, Becomes, Reads, Jobs
  <2> QED  BY <2>7, <2>8, PostCloseFits DEF WindowInv, ScanFinished
<1>7. CASE job["scan"].answer # "result"
  <2>1. PICK o \in Restored(w, js, profile) : Becomes(o)
    BY <1>7 DEF ScanFinished
  <2> HIDE DEF js, w
  <2>2. Sound(o) /\ o.job = js
    BY <1>3, RestoredFits
  <2>3. Fits(win', job', profile') /\ faults' \in 0..MaxFaults
    BY <2>1, <2>2, TypesFit, BecomesFits
  <2>4. StillReading
    BY <1>5, <2>1, <2>2 DEF StillReading, Becomes
  <2> QED  BY <2>3, <2>4, PostCloseFits DEF WindowInv, ScanFinished
<1> QED  BY <1>6, <1>7

LEMMA BuildFinishedFits == ASSUME WindowInv, BuildFinished PROVE WindowInv' /\ StillReading
<1> DEFINE js    == Freed("build")
           v     == [win EXCEPT !.generating = FALSE]
           w     == SetRunning(v, js, FALSE)
           saved == [profile EXCEPT ![w.root] = w.settings]
<1>1. /\ Consistent(win, js, profile) /\ Runnable(win, js) /\ Quiet(js)
      /\ \A u \in Jobs : u # "build" => js[u] = job[u]
  <2>1. Busy(job, "build") /\ js = [job EXCEPT !["build"] = Idle]
    BY DEF BuildFinished, Ready, Freed, Busy
  <2>2. "build" \in Jobs /\ "build" \in Exclusive /\ "build" # "query"
    BY DEF Jobs, Exclusive
  <2>3. Consistent(win, job, profile) /\ Runnable(win, job)
    BY DEF WindowInv, Fits
  <2> HIDE DEF js
  <2> QED  BY <2>1, <2>2, <2>3, FreedFits
<1>2. win.root \in Projects
  BY DEF WindowInv, Fits, Consistent, Together, Window, BuildFinished, Ready, Busy
<1>3. Consistent(v, js, profile) /\ Runnable(v, js) /\ v.root = win.root
  BY <1>1 DEF Consistent, Together, Runnable, Window
<1>4. \A u \in Reads : Busy(job, u) <=> Busy(js, u)
  BY <1>1 DEF Reads, Jobs, Busy
<1>5. /\ closing' \in [pending : BOOLEAN, posted : BOOLEAN] /\ clicks' = clicks
      /\ \/ Becomes(Outcome(w, js, profile, 0))
         \/ \E o \in ScanOf(w, js, saved, w.root) : Becomes(o)
         \/ Becomes(RefreshBuilds(w, js, profile))
  BY PostCloseFits DEF BuildFinished
<1> HIDE DEF js, v
<1>6. Fits(w, js, profile)
  BY <1>3, RunningFits
<1>7. w.root \in Projects /\ w.settings \in Origins
  <2>1. w = [v EXCEPT !.enabled = w.enabled] /\ v \in Window
    BY <1>3, RunningFields DEF Consistent
  <2>2. w \in Window
    BY <1>6 DEF Fits, Consistent
  <2>3. w.root = v.root /\ w.settings \in Origins
    BY <2>1, <2>2 DEF Window
  <2> QED  BY <1>2, <1>3, <2>3
<1> HIDE DEF w
<1>8. Fits(w, js, saved)
  BY <1>6, <1>7 DEF Fits, Consistent
<1>9. Keeps(job, js)
  BY <1>4 DEF Keeps
<1>10. ASSUME NEW o, Becomes(o), Sound(o), Keeps(js, o.job)
       PROVE  WindowInv' /\ StillReading
  <2>1. Fits(win', job', profile') /\ faults' \in 0..MaxFaults
    BY <1>10, TypesFit, BecomesFits
  <2>2. StillReading
    BY <1>9, <1>10 DEF Keeps, StillReading, Becomes
  <2> QED  BY <1>5, <2>1, <2>2 DEF WindowInv
<1>11. CASE Becomes(Outcome(w, js, profile, 0))
  <2>1. Sound(Outcome(w, js, profile, 0)) /\ Outcome(w, js, profile, 0).job = js
    BY <1>6, OutcomeSound
  <2>2. Keeps(js, Outcome(w, js, profile, 0).job)
    BY <2>1 DEF Keeps
  <2> QED  BY <1>10, <1>11, <2>1, <2>2
<1>12. CASE \E o \in ScanOf(w, js, saved, w.root) : Becomes(o)
  <2>1. PICK o \in ScanOf(w, js, saved, w.root) : Becomes(o)
    BY <1>12
  <2> HIDE DEF saved
  <2>2. Sound(o) /\ Keeps(js, o.job)
    BY <1>7, <1>8, ScanOfFits
  <2> QED  BY <1>10, <2>1, <2>2
<1>13. CASE Becomes(RefreshBuilds(w, js, profile))
  <2>1. Sound(RefreshBuilds(w, js, profile)) /\ Keeps(js, RefreshBuilds(w, js, profile).job)
    BY <1>1, <1>6, RefreshFits DEF Quiet
  <2> QED  BY <1>10, <1>13, <2>1
<1> QED  BY <1>5, <1>11, <1>12, <1>13

LEMMA QueryFinishedFits == ASSUME WindowInv, QueryFinished PROVE WindowInv'
<1> DEFINE js    == Freed("query")
           shown == win.queried = win.object /\ ~closing.pending /\ Delivered("query") = "result"
<1>1. /\ Consistent(win, js, profile)
      /\ \A u \in Jobs : u # "query" => js[u] = job[u]
  BY FreedFits DEF WindowInv, Fits, Freed, Jobs
<1>2. win \in Window /\ QueryButton \subseteq Buttons
  BY DEF WindowInv, Fits, Consistent, QueryButton, Buttons
<1>3. win' = [win EXCEPT !.answer = IF shown THEN win.queried ELSE @, !.queried = 0,
                        !.enabled = @ \cup QueryButton]
      /\ job' = js /\ PostClose /\ UNCHANGED <<profile, clicks, faults>>
  BY DEF QueryFinished
<1>4. /\ win' \in Window /\ win'.root = win.root /\ win'.reading = win.reading
      /\ win'.object = win.object /\ win'.builds = win.builds
      /\ win'.configRoot = win.configRoot /\ win'.enabled = win.enabled \cup QueryButton
      /\ win'.answer \in {win.answer, win.object}
  BY <1>2, <1>3 DEF Window
<1>5. Consistent(win', js, profile)
  BY <1>1, <1>4 DEF Consistent, Together
<1>6. Startable(win', js)
  <2>1. Quiet(js) <=> Quiet(job)
    BY <1>1 DEF Quiet, Busy, Jobs
  <2> QED  BY <1>4, <2>1 DEF WindowInv, Fits, Startable, QueryButton
<1>7. Runnable(win', js)
  BY <1>4 DEF Runnable, QueryButton
<1> QED  BY <1>3, <1>5, <1>6, <1>7, PostCloseFits DEF WindowInv, Fits

LEMMA HistoryFinishedFits == ASSUME WindowInv, HistoryFinished PROVE WindowInv'
<1> DEFINE js == Freed("history")
           v  == SetRunning(win, js, FALSE)
           w  == [v EXCEPT !.reading = 0]
           p  == job["history"].root
<1>1. /\ Consistent(win, js, profile) /\ Runnable(win, js) /\ Quiet(js)
  <2>1. Busy(job, "history") /\ js = [job EXCEPT !["history"] = Idle]
    BY DEF HistoryFinished, Ready, Freed, Busy
  <2>2. "history" \in Jobs /\ "history" \in Exclusive /\ "history" # "query"
    BY DEF Jobs, Exclusive
  <2>3. Consistent(win, job, profile) /\ Runnable(win, job)
    BY DEF WindowInv, Fits
  <2> HIDE DEF js
  <2> QED  BY <2>1, <2>2, <2>3, FreedFits
<1>2. Fits(v, js, profile) /\ js["history"].kind = "none"
  BY <1>1, RunningFits DEF Freed, Idle, WindowInv, Fits, Consistent, Jobs
<1>3. Fits(w, js, profile)
  <2> HIDE DEF v
  <2>1. v \in Window
    BY <1>2 DEF Fits, Consistent
  <2>2. w \in Window /\ w.root = v.root /\ w.object = v.object /\ w.answer = v.answer
        /\ w.builds = v.builds /\ w.enabled = v.enabled /\ w.configRoot = v.configRoot
    BY <2>1 DEF Window, Objects
  <2> QED  BY <1>1, <1>2, <2>2 DEF Fits, Consistent, Together, Startable, Runnable
<1>4. \/ Becomes(Outcome(w, js, profile, 0))
      \/ /\ ~closing.pending /\ Delivered("history") = "result"
         /\ job["history"].kind = "project" /\ \E o \in ProjectRead(w, js, p) : Becomes(o)
      \/ Becomes(BuildsRead(w, js))
  BY DEF HistoryFinished
<1>5. /\ closing' \in [pending : BOOLEAN, posted : BOOLEAN] /\ clicks' = clicks
      /\ job["history"].phase = "ready"
  BY PostCloseFits DEF HistoryFinished, Ready
<1>6. ASSUME NEW o, Becomes(o), Sound(o) PROVE WindowInv'
  BY <1>5, <1>6, TypesFit, BecomesFits DEF WindowInv
<1> HIDE DEF js, w
<1>7. ASSUME NEW x, Fits(x, js, profile), NEW n \in {0, 1}
      PROVE  Sound(Outcome(x, Cancel(js, "query"), profile, n))
  <2>1. /\ Consistent(x, Cancel(js, "query"), profile)
        /\ \A u \in Jobs : Busy(js, u) <=> Busy(Cancel(js, "query"), u)
    BY <1>7, CancelFits DEF Fits, Jobs
  <2>2. Fits(x, Cancel(js, "query"), profile)
    BY <1>7, <2>1, SameBusyFits
  <2> QED  BY <2>2, OutcomeSound
<1>8. CASE Becomes(Outcome(w, js, profile, 0))
  BY <1>3, <1>6, <1>8, OutcomeSound
<1>9. CASE /\ ~closing.pending /\ Delivered("history") = "result"
           /\ job["history"].kind = "project" /\ \E o \in ProjectRead(w, js, p) : Becomes(o)
  <2> DEFINE seen == Display(w, js, p)
             with == LoadConfig(seen, profile, p)
             none == [seen EXCEPT !.configRoot = NoProject, !.settings = Defaults]
  <2>1. p \in Projects
    BY <1>5, <1>9 DEF Delivered, WindowInv, Fits, Consistent, Working
  <2>2. Consistent(seen, js, profile) /\ Runnable(seen, js) /\ seen.root = p
    <3>1. ~Busy(js, "build")
      BY <1>1 DEF Quiet
    <3> QED  BY <1>1, <1>2, <1>3, <2>1, <3>1, DisplayFits DEF Fits
  <2>3. PICK o \in ProjectRead(w, js, p) : Becomes(o)
    BY <1>9
  <2>4. \/ o = Outcome(SetRunning(with, js, FALSE), Cancel(js, "query"), profile, 0)
        \/ o = Outcome(SetRunning(none, js, FALSE), Cancel(js, "query"), profile, 1)
    BY <2>3 DEF ProjectRead
  <2> HIDE DEF p, seen
  <2>5. Consistent(with, js, profile) /\ Runnable(with, js)
    BY <2>1, <2>2, LoadFits
  <2>6. Consistent(none, js, profile) /\ Runnable(none, js)
    BY <2>2 DEF Consistent, Together, Runnable, Window, Origins
  <2> HIDE DEF with, none
  <2>7. /\ Fits(SetRunning(with, js, FALSE), js, profile)
        /\ Fits(SetRunning(none, js, FALSE), js, profile)
    BY <2>5, <2>6, RunningFits
  <2>8. Sound(o)
    BY <1>7, <2>4, <2>7
  <2> QED  BY <1>6, <2>3, <2>8
<1>10. CASE Becomes(BuildsRead(w, js))
  <2> DEFINE x == [w EXCEPT !.object = FreshObject(w), !.answer = 0, !.builds = w.root]
  <2>1. w \in Window /\ FreshObject(w) \in Objects
    BY <1>3, FreshType DEF Fits, Consistent
  <2>2. x \in Window /\ x.root = w.root /\ x.answer = 0 /\ x.builds = w.root
        /\ x.enabled = w.enabled /\ x.configRoot = w.configRoot
    BY <2>1 DEF Window
  <2>3. Fits(x, js, profile)
    <3> HIDE DEF x
    <3>1. ~Busy(js, "build")
      BY <1>1 DEF Quiet
    <3> QED  BY <1>1, <1>2, <1>3, <2>2, <3>1 DEF Fits, Consistent, Together, Startable, Runnable
  <2>4. BuildsRead(w, js) = Outcome(x, Cancel(js, "query"), profile, 0)
    BY DEF BuildsRead
  <2> HIDE DEF x
  <2>5. Sound(BuildsRead(w, js))
    BY <1>7, <2>3, <2>4
  <2> QED  BY <1>6, <1>10, <2>5
<1> QED  BY <1>4, <1>8, <1>9, <1>10

LEMMA WindowStarts == Init => WindowInv
<1> SUFFICES ASSUME Init PROVE WindowInv
  OBVIOUS
<1>1. win \in Window /\ job \in [Jobs -> Job]
  BY DEF Init, Window, Job, Idle, ControlStates, Buttons, Origins
<1>2. profile \in [Projects -> Origins \cup {NoProject}]
  BY DEF Init, Origins
<1>3. \A t \in Jobs : ~Busy(job, t) /\ job[t].kind = "none" /\ job[t].phase = "idle"
  BY DEF Init, Busy, Idle
<1>4. Consistent(win, job, profile)
  BY <1>1, <1>2, <1>3 DEF Consistent, Working, Together, Init, Exclusive, Jobs
<1>5. Startable(win, job) /\ Runnable(win, job)
  BY DEF Init, Startable, Runnable
<1> QED  BY <1>4, <1>5, TaskWindowAssumption DEF WindowInv, Fits, Init

LEMMA WindowGoesOn == WindowInv /\ [Next]_vars => WindowInv'
<1> SUFFICES ASSUME WindowInv, [Next]_vars PROVE WindowInv'
  OBVIOUS
<1>1. CASE User
  BY <1>1, OpenFits, BuildFits, CancelJobFits, RescanFits, ReopenFits, ShowBuildsFits,
     ReadLogFits, SettingsFit, RunQueryFits, CloseFits DEF User, CloseButton
<1>2. CASE \E t \in Jobs : Worker(t)
  BY <1>2, WorkerFits
<1>3. CASE Timer
  BY <1>3, ScanFinishedFits, BuildFinishedFits, QueryFinishedFits, HistoryFinishedFits,
     CloseFits DEF Timer, PostedClose
<1>4. CASE UNCHANGED vars
  BY <1>4 DEF vars, WindowInv
<1> QED  BY <1>1, <1>2, <1>3, <1>4 DEF Next

\* Only its own delivery ends a read, and a cancelled one changes nothing.
LEMMA CancelledRead ==
  ASSUME WindowInv, [Next]_vars, NEW t \in Reads,
         Busy(job, t), Cancelled(job[t].control), ~Busy(job', t)
  PROVE  /\ win'.root = win.root /\ win'.object = win.object
         /\ win'.answer = win.answer /\ win'.builds = win.builds
<1>1. CASE QueryFinished
  <2>1. t = "query"
    BY <1>1 DEF QueryFinished, Freed, Reads, Busy, WindowInv, Fits, Consistent, Jobs
  <2>2. Delivered("query") # "result"
    BY <2>1 DEF Delivered
  <2> QED  BY <1>1, <2>2 DEF QueryFinished, WindowInv, Fits, Consistent, Window
<1>2. CASE HistoryFinished
  <2>1. job' = Freed("history") \/ job' = Cancel(Freed("history"), "query")
    <3> DEFINE js == Freed("history")
               w  == [SetRunning(win, js, FALSE) EXCEPT !.reading = 0]
               p  == job["history"].root
    <3>1. \/ Becomes(Outcome(w, js, profile, 0))
          \/ \E o \in ProjectRead(w, js, p) : Becomes(o)
          \/ Becomes(BuildsRead(w, js))
      BY <1>2 DEF HistoryFinished
    <3> HIDE DEF js, w, p
    <3>2. Outcome(w, js, profile, 0).job = js
      BY DEF Outcome
    <3>3. \A o \in ProjectRead(w, js, p) : o.job = Cancel(js, "query")
      <4>1. \A x, n : Outcome(x, Cancel(js, "query"), profile, n).job = Cancel(js, "query")
        BY DEF Outcome
      <4> QED  BY <4>1 DEF ProjectRead
    <3>4. BuildsRead(w, js).job = Cancel(js, "query")
      BY DEF Outcome, BuildsRead
    <3>5. job' = js \/ job' = Cancel(js, "query")
      BY <3>1, <3>2, <3>3, <3>4 DEF Becomes
    <3> QED  BY <3>5 DEF js
  <2>2. t = "history"
    <3>1. Consistent(win, Freed("history"), profile)
      BY FreedFits DEF WindowInv, Fits, Freed, Jobs
    <3>2. Busy(job, "query") <=> Busy(Freed("history"), "query")
      BY DEF Freed, Busy, WindowInv, Fits, Consistent, Jobs
    <3>3. Busy(Freed("history"), "query") <=> Busy(Cancel(Freed("history"), "query"), "query")
      BY <3>1, CancelFits DEF Jobs
    <3> QED  BY <2>1, <3>2, <3>3 DEF Reads
  <2>3. Delivered("history") # "result"
    BY <2>2 DEF Delivered
  <2>4. win' = [SetRunning(win, Freed("history"), FALSE) EXCEPT !.reading = 0]
    BY <1>2, <2>3 DEF HistoryFinished, Becomes, Outcome
  <2> QED  BY <2>4 DEF SetRunning, WindowInv, Fits, Consistent, Window
<1>3. CASE User
  <2>1. StillReading
    BY <1>3, OpenFits, BuildFits, CancelJobFits, RescanFits, ReopenFits, ShowBuildsFits,
       ReadLogFits, SettingsFit, RunQueryFits, CloseFits DEF User, CloseButton
  <2> QED  BY <2>1 DEF StillReading
<1>4. CASE \E u \in Jobs : Worker(u)
  <2>1. StillReading
    BY <1>4, WorkerFits
  <2> QED  BY <2>1 DEF StillReading
<1>5. CASE ScanFinished \/ BuildFinished \/ PostedClose
  <2>1. StillReading
    BY <1>5, ScanFinishedFits, BuildFinishedFits, CloseFits DEF PostedClose
  <2> QED  BY <2>1 DEF StillReading
<1>6. CASE UNCHANGED vars
  BY <1>6 DEF vars
<1> QED  BY <1>1, <1>2, <1>3, <1>4, <1>5, <1>6 DEF Next, Timer

(***************************************************************************)
(* The dialog keeps its invariant in each of its steps.                     *)
(***************************************************************************)

LEMMA DialogStarts == R!DialogInit => DialogInv
<1> SUFFICES ASSUME R!DialogInit PROVE DialogInv
  OBVIOUS
<1>1. dialog \in R!Dialog
  BY WindowReportsAssumption, EmptySeq
     DEF R!DialogInit, R!Closed, R!Dialog, R!Folders, R!ControlStates
<1> QED  BY <1>1 DEF DialogInv, R!DialogInit, R!Closed, R!DialogTypeOK, StepFits, FolderFits,
            ListFits, R!StatusTellsTheFolder, R!ListHasNoGaps

\* But for the place of the operation, its control word, its folder and the closing.
Alike(d, e) ==
  /\ e.open = d.open /\ e.scans = d.scans /\ e.op = d.op /\ e.reset = d.reset
  /\ e.page = d.page /\ e.listed = d.listed /\ e.cursor = d.cursor /\ e.more = d.more
  /\ e.status = d.status

LEMMA AlikeFits ==
  ASSUME DialogInv, dialog.open, dialog' \in R!Dialog, Alike(dialog, dialog'),
         StepFits(dialog'), FolderFits(dialog'),
         \/ dialog'.step = dialog.step /\ dialog'.folder = dialog.folder
         \/ dialog'.step # "idle" /\ dialog.op = "export"
  PROVE  DialogInv'
<1>1. ListFits(dialog')
  BY DEF DialogInv, ListFits, Alike
<1>2. R!StatusTellsTheFolder' /\ R!ListHasNoGaps'
  BY DEF DialogInv, Alike, R!StatusTellsTheFolder, R!ListHasNoGaps
<1> QED  BY <1>1, <1>2 DEF DialogInv, R!DialogTypeOK

\* What is asked is noted in the control word, unless the export is past its fence.
LEMMA AskedFits ==
  ASSUME DialogInv, dialog.open,
         \/ dialog' = R!Asked(dialog)
         \/ \E ends \in {"pending", "destroying"} :
              dialog' = [R!Asked(dialog) EXCEPT !.closing = ends]
  PROVE  DialogInv'
<1>1. dialog \in R!Dialog
  BY DEF DialogInv, R!DialogTypeOK
<1> DEFINE d == R!Asked(dialog)
<1>2. \/ d = dialog
      \/ /\ dialog.control = "running" /\ dialog.step # "idle"
         /\ d = [dialog EXCEPT !.control = "cancel_requested"]
  BY DEF R!Asked, R!Cancellable
<1>0. dialog' = d \/ \E ends \in {"pending", "destroying"} : dialog' = [d EXCEPT !.closing = ends]
  OBVIOUS
<1> HIDE DEF d
<1>3. /\ d \in R!Dialog /\ Alike(dialog, d) /\ d.step = dialog.step /\ d.folder = dialog.folder
      /\ \/ d.control = dialog.control
         \/ dialog.control = "running" /\ dialog.step # "idle" /\ d.control = "cancel_requested"
  <2>1. CASE d = dialog
    BY <1>1, <2>1 DEF Alike
  <2>2. CASE /\ dialog.control = "running" /\ dialog.step # "idle"
             /\ d = [dialog EXCEPT !.control = "cancel_requested"]
    BY <1>1, <2>2 DEF Alike, R!Dialog, R!ControlStates
  <2> QED  BY <1>2, <2>1, <2>2
<1>4. /\ dialog' \in R!Dialog /\ Alike(d, dialog')
      /\ dialog'.step = d.step /\ dialog'.folder = d.folder /\ dialog'.control = d.control
  <2>1. CASE dialog' = d
    BY <1>3, <2>1 DEF Alike
  <2>2. CASE \E ends \in {"pending", "destroying"} : dialog' = [d EXCEPT !.closing = ends]
    BY <1>3, <2>2 DEF Alike, R!Dialog
  <2> QED  BY <1>0, <2>1, <2>2
<1>5. Alike(dialog, dialog') /\ dialog'.step = dialog.step /\ dialog'.folder = dialog.folder
  BY <1>3, <1>4 DEF Alike
<1>6. StepFits(dialog') /\ FolderFits(dialog')
  BY <1>3, <1>4, <1>5 DEF DialogInv, StepFits, FolderFits, Alike
<1> QED  BY <1>4, <1>5, <1>6, AlikeFits

LEMMA ClosedFits == ASSUME dialog' = R!Closed PROVE DialogInv'
<1>1. dialog' \in R!Dialog
  BY WindowReportsAssumption, EmptySeq DEF R!Closed, R!Dialog, R!Folders, R!ControlStates
<1> QED  BY <1>1 DEF DialogInv, R!Closed, R!DialogTypeOK, StepFits, FolderFits, ListFits,
            R!StatusTellsTheFolder, R!ListHasNoGaps

LEMMA NewestFacts ==
  ASSUME NEW n \in 0..MaxScans
  PROVE  /\ Newest(n) \in Seq(1..MaxScans)
         /\ Len(Newest(n)) = (IF n < PageSize THEN n ELSE PageSize)
         /\ \A i \in 1..Len(Newest(n)) : Newest(n)[i] = n + 1 - i
<1> DEFINE size == IF n < PageSize THEN n ELSE PageSize
<1>1. size \in 0..n /\ n \in Nat
  BY WindowReportsAssumption
<1>2. \A i \in 1..size : n + 1 - i \in 1..MaxScans
  BY <1>1, WindowReportsAssumption
<1>3. Newest(n) = [i \in 1..size |-> n + 1 - i]
  BY DEF Newest
<1> HIDE DEF size
<1>4. Newest(n) \in Seq(1..MaxScans) /\ Len(Newest(n)) = size
  BY <1>1, <1>2, <1>3
<1> QED  BY <1>3, <1>4 DEF size

LEMMA OpenDialogFits == ASSUME DialogInv, R!OpenDialog PROVE DialogInv'
<1>1. PICK n \in 1..MaxScans :
        dialog' = R!Loading([R!Closed EXCEPT !.open = TRUE, !.scans = n], TRUE)
  BY DEF R!OpenDialog
<1>2. dialog' = [open |-> TRUE, scans |-> n, folder |-> "absent", op |-> "history",
                 step |-> "reading", control |-> "running", reset |-> TRUE, page |-> <<>>,
                 listed |-> <<>>, cursor |-> 0, more |-> FALSE, closing |-> "no",
                 status |-> "none"]
  BY <1>1 DEF R!Loading, R!Closed
<1>3. dialog' \in R!Dialog
  BY <1>2, WindowReportsAssumption, EmptySeq DEF R!Dialog, R!Folders, R!ControlStates
<1> QED  BY <1>2, <1>3 DEF DialogInv, R!DialogTypeOK, StepFits, FolderFits, ListFits,
            R!StatusTellsTheFolder, R!ListHasNoGaps

LEMMA LoadListFits ==
  ASSUME DialogInv, NEW reset \in BOOLEAN, R!Load(reset) PROVE DialogInv'
<1>1. /\ dialog.open /\ dialog.step = "idle" /\ (reset \/ dialog.more)
      /\ dialog' = [dialog EXCEPT !.op = "history", !.step = "reading", !.control = "running",
                                  !.reset = reset, !.page = <<>>, !.status = "none"]
  BY DEF R!Load, R!Usable, R!Loading
<1>2. dialog' \in R!Dialog
  BY <1>1, EmptySeq DEF DialogInv, R!DialogTypeOK, R!Dialog, R!ControlStates
<1>3. StepFits(dialog') /\ FolderFits(dialog')
  BY <1>1 DEF DialogInv, R!DialogTypeOK, R!Dialog, StepFits, FolderFits
<1>4. ListFits(dialog')
  BY <1>1 DEF DialogInv, R!DialogTypeOK, R!Dialog, ListFits
<1>5. R!StatusTellsTheFolder' /\ R!ListHasNoGaps'
  BY <1>1 DEF DialogInv, R!DialogTypeOK, R!Dialog, R!StatusTellsTheFolder, R!ListHasNoGaps
<1> QED  BY <1>2, <1>3, <1>4, <1>5 DEF DialogInv, R!DialogTypeOK

LEMMA ExportFits == ASSUME DialogInv, R!ExportSelected PROVE DialogInv'
<1>1. PICK found \in {"absent", "taken"} :
        dialog' = [dialog EXCEPT !.op = "export", !.step = "preparing", !.folder = found,
                                 !.control = "running", !.status = "none"]
  BY DEF R!ExportSelected
<1>2. dialog \in R!Dialog /\ dialog.open /\ dialog.step = "idle"
  BY DEF R!ExportSelected, R!Usable, DialogInv, R!DialogTypeOK
<1>3. dialog' \in R!Dialog
  BY <1>1, <1>2 DEF DialogInv, R!DialogTypeOK, R!Dialog, R!ControlStates, R!Folders
<1>4. StepFits(dialog') /\ FolderFits(dialog')
  BY <1>1, <1>2 DEF DialogInv, R!DialogTypeOK, R!Dialog, StepFits, FolderFits
<1>5. ListFits(dialog')
  BY <1>1 DEF DialogInv, R!DialogTypeOK, R!Dialog, ListFits
<1>6. R!StatusTellsTheFolder' /\ R!ListHasNoGaps'
  BY <1>1 DEF DialogInv, R!DialogTypeOK, R!Dialog, R!StatusTellsTheFolder, R!ListHasNoGaps
<1> QED  BY <1>3, <1>4, <1>5, <1>6 DEF DialogInv, R!DialogTypeOK

LEMMA CancelOperationFits == ASSUME DialogInv, R!CancelOperation PROVE DialogInv'
  BY AskedFits DEF R!CancelOperation

LEMMA RejectFits == ASSUME DialogInv, R!Reject PROVE DialogInv'
  BY ClosedFits, AskedFits DEF R!Reject

LEMMA DestroyFits ==
  ASSUME DialogInv, dialog.open, dialog' = R!Destroy(dialog) PROVE DialogInv'
  BY AskedFits DEF R!Destroy

LEMMA ReadPageFits == ASSUME DialogInv, R!ReadPage PROVE DialogInv'
<1>1. dialog \in R!Dialog /\ dialog.step = "reading" /\ dialog.op = "history" /\ dialog.open
  BY DEF DialogInv, R!DialogTypeOK, R!ReadPage, StepFits, R!Dialog, R!Closed
<1>2. CASE dialog' = R!Throw
  <2>1. dialog' = [dialog EXCEPT !.step = "threw"]
    BY <1>2 DEF R!Throw
  <2> QED  BY <1>1, <2>1 DEF DialogInv, R!DialogTypeOK, R!Dialog, StepFits, FolderFits, ListFits,
              R!StatusTellsTheFolder, R!ListHasNoGaps
<1>3. CASE dialog' # R!Throw
  <2> DEFINE cursor == IF dialog.reset THEN 0 ELSE dialog.cursor
             n      == IF cursor = 0 THEN dialog.scans ELSE cursor - 1
  <2>1. dialog' = [dialog EXCEPT !.page = R!PageAt(cursor), !.step = "done"]
    BY <1>3 DEF R!ReadPage
  <2>2. R!PageAt(cursor) = Newest(n)
    BY DEF R!PageAt, Newest
  <2>3. dialog.reset \/ dialog.cursor \in 1..MaxScans
    <3>1. ~dialog.reset => dialog.listed # <<>>
      BY <1>1 DEF DialogInv, ListFits
    <3>2. dialog.listed # <<>> => Len(dialog.listed) \in 1..Len(dialog.listed)
      BY <1>1 DEF R!Dialog
    <3>3. dialog.listed # <<>> => dialog.listed[Len(dialog.listed)] \in 1..MaxScans
      BY <1>1, <3>2, ElementOfSeq DEF R!Dialog
    <3> QED  BY <3>1, <3>3 DEF DialogInv, ListFits
  <2>4. n \in 0..MaxScans /\ (~dialog.reset => n = dialog.cursor - 1)
    BY <1>1, <2>3, WindowReportsAssumption DEF R!Dialog
  <2> HIDE DEF n, cursor
  <2>5. dialog' = [dialog EXCEPT !.page = Newest(n), !.step = "done"]
    BY <2>1, <2>2
  <2>6. dialog' \in R!Dialog
    BY <1>1, <2>4, <2>5, NewestFacts DEF R!Dialog
  <2>7. StepFits(dialog') /\ FolderFits(dialog')
    BY <1>1, <2>5 DEF DialogInv, R!Dialog, StepFits, FolderFits
  <2>8. ListFits(dialog')
    BY <1>1, <2>4, <2>5 DEF DialogInv, R!Dialog, ListFits
  <2>9. R!StatusTellsTheFolder' /\ R!ListHasNoGaps'
    BY <1>1, <2>5 DEF DialogInv, R!Dialog, R!StatusTellsTheFolder, R!ListHasNoGaps
  <2> QED  BY <2>6, <2>7, <2>8, <2>9 DEF DialogInv, R!DialogTypeOK
<1> QED  BY <1>2, <1>3

\* A step of an export leaves the list alone.
LEMMA WorkingFits ==
  ASSUME DialogInv, R!Prepare \/ R!PassFence \/ R!CreateFolder \/ R!WriteFile
  PROVE  DialogInv'
<1>1. /\ dialog \in R!Dialog /\ dialog.op = "export" /\ dialog.open /\ dialog.control # "finished"
      /\ dialog.step \in {"preparing", "prepared", "creating", "writing"}
  BY DEF DialogInv, R!DialogTypeOK, R!Prepare, R!PassFence, R!CreateFolder, R!WriteFile,
         StepFits, R!Dialog, R!Closed
<1>2. ASSUME dialog' \in R!Dialog, Alike(dialog, dialog'), FolderFits(dialog'),
             dialog'.step \in {"prepared", "creating", "writing", "done", "threw"},
             dialog'.control # "finished"
      PROVE  DialogInv'
  <2>1. StepFits(dialog')
    BY <1>1, <1>2 DEF DialogInv, StepFits, Alike
  <2> QED  BY <1>1, <1>2, <2>1, AlikeFits
<1>3. CASE dialog' = R!Throw
  <2>1. dialog' = [dialog EXCEPT !.step = "threw"]
    BY <1>3 DEF R!Throw
  <2>2. dialog' \in R!Dialog /\ Alike(dialog, dialog')
    BY <1>1, <2>1 DEF R!Dialog, R!Folders, R!ControlStates, Alike
  <2>3. FolderFits(dialog')
    BY <1>1, <2>1 DEF FolderFits, DialogInv, R!Dialog
  <2> QED  BY <1>1, <1>2, <2>1, <2>2, <2>3 DEF R!Dialog
<1>4. CASE R!Prepare /\ dialog' # R!Throw
  <2>1. dialog' = [dialog EXCEPT !.step = "prepared"] /\ dialog.step = "preparing"
    BY <1>4 DEF R!Prepare
  <2>2. dialog' \in R!Dialog /\ Alike(dialog, dialog')
    BY <1>1, <2>1 DEF R!Dialog, R!Folders, R!ControlStates, Alike
  <2>3. FolderFits(dialog')
    BY <1>1, <2>1 DEF FolderFits, DialogInv, R!Dialog
  <2> QED  BY <1>1, <1>2, <2>1, <2>2, <2>3 DEF R!Dialog
<1>5. CASE R!PassFence /\ dialog' # R!Throw
  <2>1. /\ dialog' = [dialog EXCEPT !.control = "committing", !.step = "creating"]
        /\ dialog.step = "prepared"
    BY <1>5 DEF R!PassFence
  <2>2. dialog' \in R!Dialog /\ Alike(dialog, dialog')
    BY <1>1, <2>1 DEF R!Dialog, R!Folders, R!ControlStates, Alike
  <2>3. FolderFits(dialog')
    BY <1>1, <2>1 DEF FolderFits, DialogInv, R!Dialog
  <2> QED  BY <1>1, <1>2, <2>1, <2>2, <2>3 DEF R!Dialog
<1>6. CASE R!CreateFolder /\ dialog' # R!Throw
  <2>1. /\ dialog' = [dialog EXCEPT !.folder = "created", !.step = "writing"]
        /\ dialog.step = "creating"
    BY <1>6 DEF R!CreateFolder
  <2>2. dialog' \in R!Dialog /\ Alike(dialog, dialog')
    BY <1>1, <2>1 DEF R!Dialog, R!Folders, R!ControlStates, Alike
  <2>3. FolderFits(dialog')
    BY <1>1, <2>1 DEF FolderFits, DialogInv, R!Dialog
  <2> QED  BY <1>1, <1>2, <2>1, <2>2, <2>3 DEF R!Dialog
<1>7. CASE R!WriteFile /\ dialog.folder = "created" /\ dialog' # R!Throw
  <2>1. /\ dialog' = [dialog EXCEPT !.folder = "half"]
        /\ dialog.step = "writing" /\ dialog.folder = "created"
    BY <1>7 DEF R!WriteFile
  <2>2. dialog' \in R!Dialog /\ Alike(dialog, dialog')
    BY <1>1, <2>1 DEF R!Dialog, R!Folders, R!ControlStates, Alike
  <2>3. FolderFits(dialog')
    BY <1>1, <2>1 DEF FolderFits, DialogInv, R!Dialog
  <2> QED  BY <1>1, <1>2, <2>1, <2>2, <2>3 DEF R!Dialog
<1>8. CASE R!WriteFile /\ dialog.folder = "half" /\ dialog' # R!Throw
  <2>1. /\ dialog' = [dialog EXCEPT !.folder = "complete", !.step = "done"]
        /\ dialog.step = "writing" /\ dialog.folder = "half"
    BY <1>8 DEF R!WriteFile
  <2>2. dialog' \in R!Dialog /\ Alike(dialog, dialog')
    BY <1>1, <2>1 DEF R!Dialog, R!Folders, R!ControlStates, Alike
  <2>3. FolderFits(dialog')
    BY <1>1, <2>1 DEF FolderFits, DialogInv, R!Dialog
  <2> QED  BY <1>1, <1>2, <2>1, <2>2, <2>3 DEF R!Dialog
<1>9. R!WriteFile => dialog' = R!Throw \/ dialog.folder \in {"created", "half"}
  BY DEF R!WriteFile
<1> QED  BY <1>3, <1>4, <1>5, <1>6, <1>7, <1>8, <1>9

\* What other programs do.
LEMMA ElsewhereFits == ASSUME DialogInv, R!Elsewhere PROVE DialogInv'
<1>1. dialog \in R!Dialog /\ dialog.open
  BY DEF DialogInv, R!DialogTypeOK, R!Elsewhere, R!ScanSaved, R!TakeName
<1>2. CASE R!ScanSaved
  <2>1. dialog' = [dialog EXCEPT !.scans = dialog.scans + 1] /\ dialog.scans < MaxScans
    BY <1>1, <1>2 DEF R!ScanSaved
  <2>2. dialog.scans + 1 \in 1..MaxScans
    BY <1>1, <2>1, WindowReportsAssumption DEF R!Dialog
  <2>3. dialog' \in R!Dialog
    BY <1>1, <2>1, <2>2 DEF R!Dialog
  <2>4. StepFits(dialog') /\ FolderFits(dialog') /\ ListFits(dialog')
    BY <1>1, <2>1, <2>2 DEF DialogInv, StepFits, FolderFits, ListFits, R!Dialog
  <2>5. R!StatusTellsTheFolder' /\ R!ListHasNoGaps'
    BY <1>1, <2>1 DEF DialogInv, R!Dialog, R!StatusTellsTheFolder, R!ListHasNoGaps
  <2> QED  BY <2>3, <2>4, <2>5 DEF DialogInv, R!DialogTypeOK
<1>3. CASE R!TakeName
  <2>1. dialog' = [dialog EXCEPT !.folder = "taken"] /\ dialog.folder = "absent"
    BY <1>3 DEF R!TakeName
  <2>2. dialog' \in R!Dialog
    BY <1>1, <2>1 DEF R!Dialog, R!Folders
  <2>3. StepFits(dialog') /\ FolderFits(dialog') /\ ListFits(dialog')
    BY <1>1, <2>1 DEF DialogInv, StepFits, FolderFits, ListFits, R!Dialog
  <2>4. R!StatusTellsTheFolder' /\ R!ListHasNoGaps'
    BY <1>1, <2>1 DEF DialogInv, R!Dialog, R!StatusTellsTheFolder, R!ListHasNoGaps
  <2> QED  BY <2>2, <2>3, <2>4 DEF DialogInv, R!DialogTypeOK
<1> QED  BY <1>2, <1>3 DEF R!Elsewhere

\* The list with the page that follows it.
Continues(kept, page, cursor) ==
  LET all  == kept \o page
      last == IF page # <<>> THEN page[Len(page)] ELSE cursor
  IN /\ all \in Seq(1..MaxScans) /\ last \in 0..MaxScans
     /\ \A i \in 1..Len(all) - 1 : all[i+1] = all[i] - 1
     /\ all # <<>> => last = all[Len(all)]
     /\ all = <<>> => last = 0 /\ Len(page) # PageSize
     /\ all # <<>> /\ Len(page) # PageSize => all[Len(all)] = 1

LEMMA PageContinues ==
  ASSUME NEW kept \in Seq(1..MaxScans), NEW n \in 0..MaxScans, NEW cursor \in 0..MaxScans,
         kept # <<>> => cursor = kept[Len(kept)] /\ n = cursor - 1,
         kept = <<>> => cursor = 0,
         \A i \in 1..Len(kept) - 1 : kept[i+1] = kept[i] - 1
  PROVE  Continues(kept, Newest(n), cursor)
<1> DEFINE page == Newest(n)
           all  == kept \o page
<1>1. /\ page \in Seq(1..MaxScans) /\ Len(page) = (IF n < PageSize THEN n ELSE PageSize)
      /\ \A i \in 1..Len(page) : page[i] = n + 1 - i
  BY NewestFacts
<1> HIDE DEF page
<1>2. all \in Seq(1..MaxScans) /\ Len(all) = Len(kept) + Len(page)
      /\ \A i \in 1..Len(all) : all[i] = IF i <= Len(kept) THEN kept[i] ELSE page[i - Len(kept)]
  <2>1. page \in Seq(1..MaxScans)
    BY <1>1
  <2> QED  BY <2>1, ConcatProperties
<1> HIDE DEF all
<1>3. Len(kept) \in Nat /\ Len(page) \in Nat /\ n \in Nat /\ PageSize \in Nat \ {0}
  BY <1>1, WindowReportsAssumption
<1>4. /\ kept = <<>> <=> Len(kept) = 0
      /\ page = <<>> <=> Len(page) = 0
      /\ all = <<>> <=> Len(all) = 0
  BY <1>1, <1>2, EmptySeq
<1>5. \A i \in 1..Len(kept) : kept[i] \in 1..MaxScans
  BY ElementOfSeq
<1>6. \A i \in 1..Len(page) : page[i] \in 1..MaxScans
  BY <1>1, ElementOfSeq
<1>7. ASSUME NEW i \in 1..Len(all) - 1 PROVE all[i+1] = all[i] - 1
  <2>1. CASE i + 1 <= Len(kept)
    BY <1>2, <1>3, <1>5, <2>1
  <2>2. CASE i = Len(kept)
    <3>1. i \in 1..Len(kept) /\ i + 1 - Len(kept) = 1 /\ ~(i + 1 <= Len(kept)) /\ 1 \in 1..Len(page)
          /\ i \in 1..Len(all) /\ i + 1 \in 1..Len(all)
      BY <1>2, <1>3, <2>2
    <3>2. all[i] = kept[i] /\ all[i+1] = page[i + 1 - Len(kept)] /\ page[1] = n
      <4>1. all[i] = kept[i]
        BY <1>2, <3>1
      <4>2. all[i+1] = page[i + 1 - Len(kept)]
        BY <1>2, <3>1
      <4>3. page[1] = n + 1 - 1
        BY <1>1, <3>1
      <4>4. n + 1 - 1 = n
        BY <1>3
      <4> QED  BY <4>1, <4>2, <4>3, <4>4
    <3>3. n = kept[i] - 1
      <4>1. kept # <<>>
        BY <1>3, <1>4, <3>1
      <4> QED  BY <2>2, <4>1
    <3> QED  BY <3>1, <3>2, <3>3
  <2>3. CASE i > Len(kept)
    <3>1. i - Len(kept) \in 1..Len(page) /\ i + 1 - Len(kept) \in 1..Len(page)
      BY <1>2, <1>3, <2>3
    <3> QED  BY <1>1, <1>2, <1>3, <2>3, <3>1
  <2> QED  BY <1>3, <2>1, <2>2, <2>3
<1>8. CASE Len(page) = 0
  <2>1. Len(all) = Len(kept) /\ (Len(all) # 0 => all[Len(all)] = kept[Len(kept)])
    BY <1>2, <1>3, <1>8
  <2>2. n = 0
    BY <1>1, <1>3, <1>8
  <2> QED  BY <1>2, <1>3, <1>4, <1>5, <1>7, <1>8, <2>1, <2>2 DEF page, all, Continues
<1>9. CASE Len(page) # 0
  <2>1. Len(all) \in 1..Len(all) /\ Len(all) > Len(kept) /\ Len(all) - Len(kept) = Len(page)
    BY <1>2, <1>3, <1>9
  <2>2. all[Len(all)] = page[Len(page)] /\ page[Len(page)] \in 1..MaxScans
    BY <1>2, <1>3, <1>6, <2>1
  <2>3. Len(page) # PageSize => page[Len(page)] = 1
    BY <1>1, <1>3, <1>9
  <2>4. page # <<>> /\ all # <<>>
    BY <1>3, <1>4, <1>9, <2>1
  <2>5. (IF page # <<>> THEN page[Len(page)] ELSE cursor) = all[Len(all)]
    BY <2>2, <2>4
  <2>6. all[Len(all)] \in 0..MaxScans
    BY <2>2
  <2> QED  BY <1>2, <1>7, <2>2, <2>3, <2>4, <2>5, <2>6 DEF page, all, Continues
<1> QED  BY <1>8, <1>9

\* The dialog as poll leaves it, when no close is pending.
LEMMA ShowFits ==
  ASSUME DialogInv, dialog.open, dialog.op = "history", dialog.step \in {"done", "threw"}
  PROVE  LET d == R!Show(dialog)
         IN /\ d \in R!Dialog
            /\ d.open /\ d.op = "history" /\ d.scans = dialog.scans
            /\ d.listed # <<>> => d.cursor = d.listed[Len(d.listed)]
            /\ d.listed = <<>> => d.cursor = 0 /\ ~d.more
            /\ \A i \in 1..Len(d.listed) - 1 : d.listed[i+1] = d.listed[i] - 1
            /\ d.listed # <<>> /\ ~d.more => d.listed[Len(d.listed)] = 1
            /\ Cancelled(dialog.control) => d.listed = dialog.listed
<1>1. dialog \in R!Dialog
  BY DEF DialogInv, R!DialogTypeOK
<1>2. CASE dialog.step = "threw" \/ R!Cancelled(dialog.control)
  <2>1. \E status \in {"cancelled", "failed"} : R!Show(dialog) = [dialog EXCEPT !.status = status]
    BY <1>2 DEF R!Show
  <2> QED  BY <1>1, <2>1 DEF DialogInv, R!Dialog, ListFits, R!ListHasNoGaps
<1>3. CASE ~(dialog.step = "threw" \/ R!Cancelled(dialog.control))
  <2> DEFINE kept == IF dialog.reset THEN <<>> ELSE dialog.listed
             from == IF dialog.reset THEN 0 ELSE dialog.cursor
             page == dialog.page
             last == IF page # <<>> THEN page[Len(page)] ELSE from
             all  == kept \o page
             d    == R!Show(dialog)
  <2>1. PICK n \in 0..MaxScans : page = Newest(n) /\ (~dialog.reset => n = dialog.cursor - 1)
    <3>1. dialog.step = "done" /\ ListFits(dialog)
      BY <1>3 DEF DialogInv
    <3> QED  BY <3>1 DEF ListFits
  <2>2. kept \in Seq(1..MaxScans) /\ from \in 0..MaxScans
    <3>1. dialog.listed \in Seq(1..MaxScans) /\ dialog.cursor \in 0..MaxScans
      BY <1>1 DEF R!Dialog
    <3>2. <<>> \in Seq(1..MaxScans) /\ 0 \in 0..MaxScans
      BY EmptySeq, WindowReportsAssumption
    <3> QED  BY <3>1, <3>2
  <2>3. /\ kept # <<>> => from = kept[Len(kept)] /\ n = from - 1
        /\ kept = <<>> => from = 0
        /\ \A i \in 1..Len(kept) - 1 : kept[i+1] = kept[i] - 1
    <3>1. CASE dialog.reset
      <4>1. kept = <<>> /\ from = 0 /\ Len(kept) = 0
        BY <3>1
      <4> QED  BY <4>1
    <3>2. CASE ~dialog.reset
      BY <2>1, <3>2 DEF DialogInv, ListFits, R!ListHasNoGaps
    <3> QED  BY <3>1, <3>2
  <2>4. R!Show(dialog) = [dialog EXCEPT !.listed = all, !.cursor = last,
                                        !.more = (Len(page) = PageSize), !.status = "loaded"]
    BY <1>3 DEF R!Show
  <2> HIDE DEF kept, from
  <2>8. Continues(kept, page, from)
    <3>1. Continues(kept, Newest(n), from)
      BY <2>2, <2>3, PageContinues
    <3> QED  BY <2>1, <3>1
  <2>5. /\ all \in Seq(1..MaxScans) /\ last \in 0..MaxScans
        /\ \A i \in 1..Len(all) - 1 : all[i+1] = all[i] - 1
        /\ all # <<>> => last = all[Len(all)]
        /\ all = <<>> => last = 0 /\ Len(page) # PageSize
        /\ all # <<>> /\ Len(page) # PageSize => all[Len(all)] = 1
    BY <2>8 DEF Continues
  <2> HIDE DEF all, last, page
  <2>6. /\ d \in R!Dialog /\ d.open /\ d.op = "history" /\ d.scans = dialog.scans
        /\ d.listed = all /\ d.cursor = last /\ d.more = (Len(page) = PageSize)
    BY <1>1, <2>4, <2>5 DEF R!Dialog
  <2> HIDE DEF d
  <2>7. ~Cancelled(dialog.control)
    BY <1>3 DEF Cancelled, R!Cancelled
  <2> QED  BY <2>5, <2>6, <2>7 DEF d
<1> QED  BY <1>2, <1>3

LEMMA PollFits == ASSUME DialogInv, R!Poll PROVE DialogInv'
<1>1. /\ dialog \in R!Dialog /\ dialog.open /\ dialog.step \in {"done", "threw"}
      /\ dialog.op \in {"history", "export"}
  BY DEF DialogInv, R!DialogTypeOK, R!Poll, StepFits
<1> DEFINE d == IF dialog.op = "history" THEN R!Show(dialog) ELSE R!Report(dialog)
<1>2. dialog' = IF d.closing = "pending" THEN R!Closed
                ELSE [d EXCEPT !.step = "idle", !.control = "finished", !.page = <<>>]
  BY DEF R!Poll, R!Leave
<1>3. CASE d.closing = "pending"
  BY <1>2, <1>3, ClosedFits
<1>4. CASE dialog.op = "history" /\ d.closing # "pending"
  <2>1. /\ d \in R!Dialog /\ d.open /\ d.op = "history" /\ d.scans = dialog.scans
        /\ d.listed # <<>> => d.cursor = d.listed[Len(d.listed)]
        /\ d.listed = <<>> => d.cursor = 0 /\ ~d.more
        /\ \A i \in 1..Len(d.listed) - 1 : d.listed[i+1] = d.listed[i] - 1
        /\ d.listed # <<>> /\ ~d.more => d.listed[Len(d.listed)] = 1
    BY <1>1, <1>4, ShowFits
  <2> HIDE DEF d
  <2>2. dialog' = [d EXCEPT !.step = "idle", !.control = "finished", !.page = <<>>]
    BY <1>2, <1>4
  <2>3. dialog' \in R!Dialog
    BY <2>1, <2>2, EmptySeq DEF R!Dialog, R!ControlStates
  <2>4. /\ dialog'.open /\ dialog'.op = "history" /\ dialog'.scans = dialog.scans
        /\ dialog'.step = "idle" /\ dialog'.control = "finished"
        /\ dialog'.listed = d.listed /\ dialog'.cursor = d.cursor /\ dialog'.more = d.more
    BY <2>1, <2>2 DEF R!Dialog
  <2>5. StepFits(dialog') /\ FolderFits(dialog')
    BY <1>1, <2>4 DEF DialogInv, StepFits, FolderFits
  <2>6. ListFits(dialog')
    BY <2>1, <2>4 DEF ListFits
  <2>7. R!StatusTellsTheFolder' /\ R!ListHasNoGaps'
    BY <2>1, <2>4 DEF R!StatusTellsTheFolder, R!ListHasNoGaps
  <2> QED  BY <2>3, <2>5, <2>6, <2>7 DEF DialogInv, R!DialogTypeOK
<1>5. CASE dialog.op = "export" /\ d.closing # "pending"
  <2> DEFINE status == IF dialog.step = "done" THEN "saved"
                       ELSE IF R!Cancelled(dialog.control) THEN "cancelled" ELSE "failed"
  <2>1. d = [dialog EXCEPT !.status = status]
    BY <1>5 DEF R!Report
  <2>2. status \in {"saved", "cancelled", "failed"}
    OBVIOUS
  <2>3. /\ status = "saved" => dialog.folder = "complete"
        /\ status = "cancelled" => dialog.folder \in {"absent", "taken"}
        /\ status = "failed" => dialog.folder # "complete"
    BY <1>1, <1>5 DEF DialogInv, FolderFits, R!Cancelled
  <2> HIDE DEF status
  <2>4. d \in R!Dialog /\ Alike([dialog EXCEPT !.status = status], d) /\ d.folder = dialog.folder
    BY <1>1, <2>1, <2>2 DEF Alike, R!Dialog
  <2>5. /\ d.open /\ d.op = "export" /\ d.scans = dialog.scans /\ d.listed = dialog.listed
        /\ d.cursor = dialog.cursor /\ d.more = dialog.more /\ d.status = status
    BY <1>1, <1>5, <2>1, <2>2 DEF R!Dialog
  <2> HIDE DEF d
  <2>6. dialog' = [d EXCEPT !.step = "idle", !.control = "finished", !.page = <<>>]
    BY <1>2, <1>5
  <2>7. dialog' \in R!Dialog
    BY <2>4, <2>6, EmptySeq DEF R!Dialog, R!ControlStates
  <2>8. /\ dialog'.open /\ dialog'.op = "export" /\ dialog'.scans = dialog.scans
        /\ dialog'.step = "idle" /\ dialog'.control = "finished"
        /\ dialog'.folder = dialog.folder /\ dialog'.status = status
        /\ dialog'.listed = dialog.listed /\ dialog'.cursor = dialog.cursor
        /\ dialog'.more = dialog.more
    BY <2>4, <2>5, <2>6 DEF R!Dialog
  <2>9. StepFits(dialog') /\ FolderFits(dialog')
    BY <1>1, <2>8 DEF DialogInv, StepFits, FolderFits
  <2>10. ListFits(dialog') /\ R!ListHasNoGaps'
    BY <2>8 DEF DialogInv, ListFits, R!ListHasNoGaps
  <2>11. R!StatusTellsTheFolder'
    BY <2>2, <2>3, <2>8 DEF R!StatusTellsTheFolder
  <2> QED  BY <2>7, <2>9, <2>10, <2>11 DEF DialogInv, R!DialogTypeOK
<1> QED  BY <1>1, <1>3, <1>4, <1>5

(***************************************************************************)
(* The window and its dialog together.                                      *)
(***************************************************************************)

AllInv == WindowInv /\ DialogInv

LEMMA AllStarts == AllInit => AllInv
  BY WindowStarts, DialogStarts DEF AllInit, AllInv

LEMMA WithFits ==
  ASSUME DialogInv, dialog' = DialogOf(win.open, ~win'.open)
  PROVE  DialogInv'
<1>1. CASE dialog' = dialog
  BY <1>1 DEF DialogInv, R!DialogTypeOK, R!StatusTellsTheFolder, R!ListHasNoGaps
<1>2. CASE dialog.open /\ dialog' = R!Destroy(dialog)
  BY <1>2, DestroyFits
<1> QED  BY <1>1, <1>2 DEF DialogOf

LEMMA SameDialog == ASSUME DialogInv, dialog' = dialog PROVE DialogInv'
  BY DEF DialogInv, R!DialogTypeOK, R!StatusTellsTheFolder, R!ListHasNoGaps

LEMMA DialogUserFits == ASSUME DialogInv, R!DialogUser PROVE DialogInv'
  BY LoadListFits, ExportFits, CancelOperationFits, RejectFits DEF R!DialogUser

LEMMA DialogStepFits ==
  ASSUME DialogInv, R!DialogWorker \/ R!Poll \/ R!Destroyed \/ R!Elsewhere
  PROVE  DialogInv'
  BY ReadPageFits, WorkingFits, PollFits, ClosedFits, ElsewhereFits
     DEF R!DialogWorker, R!Destroyed

LEMMA SameWindow == ASSUME WindowInv, UNCHANGED vars PROVE WindowInv'
  BY DEF WindowInv, vars

LEMMA AllGoesOn == AllInv /\ [AllNext]_allVars => AllInv'
<1> SUFFICES ASSUME AllInv, [AllNext]_allVars PROVE AllInv'
  OBVIOUS
<1> USE DEF AllInv
<1>1. CASE OpenReport
  <2>1. DialogInv'
    BY <1>1, OpenDialogFits DEF OpenReport
  <2>2. WindowInv'
    BY <1>1, ClickFits DEF OpenReport, WindowInv
  <2> QED  BY <2>1, <2>2
<1>2. CASE WindowUser
  BY <1>2, WindowGoesOn, WithFits DEF WindowUser, With, Next
<1>3. CASE Background
  BY <1>3, WindowGoesOn, WithFits DEF Background, With, Next
<1>4. CASE DialogUser
  BY <1>4, SameWindow, DialogUserFits DEF DialogUser
<1>5. CASE DialogStep
  BY <1>5, SameWindow, DialogStepFits DEF DialogStep
<1>6. CASE UNCHANGED allVars
  BY <1>6, SameWindow, SameDialog DEF allVars
<1> QED  BY <1>1, <1>2, <1>3, <1>4, <1>5, <1>6 DEF AllNext

LEMMA AllIsSound == AllSpec => []AllInv
  BY AllStarts, AllGoesOn, PTL DEF AllSpec

\* A reading of the dialog that was cancelled leaves the list, or closes with it.
ListKept ==
  dialog.op = "history" /\ R!Cancelled(dialog.control) /\ dialog.step # "idle" =>
    dialog'.listed \in {dialog.listed, <<>>} /\ (dialog'.open => dialog'.listed = dialog.listed)

LEMMA AskedKeepsList ==
  ASSUME NEW d \in R!Dialog
  PROVE  R!Asked(d).listed = d.listed /\ R!Asked(d) \in R!Dialog
  BY DEF R!Asked, R!Dialog, R!ControlStates

LEMMA PollKeepsList == ASSUME DialogInv, R!Poll PROVE ListKept
<1> SUFFICES ASSUME dialog.op = "history", R!Cancelled(dialog.control)
             PROVE  dialog'.listed \in {dialog.listed, <<>>}
                    /\ (dialog'.open => dialog'.listed = dialog.listed)
  BY DEF ListKept
<1> DEFINE d == R!Show(dialog)
<1>1. d \in R!Dialog /\ d.listed = dialog.listed
  BY ShowFits DEF R!Poll, Cancelled, R!Cancelled
<1>2. dialog' = R!Closed
      \/ dialog' = [d EXCEPT !.step = "idle", !.control = "finished", !.page = <<>>]
  BY DEF R!Poll, R!Leave
<1> HIDE DEF d
<1>3. CASE dialog' = R!Closed
  <2>1. dialog'.listed = <<>> /\ dialog'.open = FALSE
    BY <1>3 DEF R!Closed
  <2> QED  BY <2>1
<1>4. CASE dialog' = [d EXCEPT !.step = "idle", !.control = "finished", !.page = <<>>]
  <2>1. dialog'.listed = d.listed
    BY <1>1, <1>4 DEF R!Dialog
  <2> QED  BY <1>1, <2>1
<1> QED  BY <1>2, <1>3, <1>4

LEMMA DialogKeepsList ==
  ASSUME DialogInv,
         \/ R!OpenDialog \/ R!DialogUser \/ R!DialogWorker
         \/ R!Poll \/ R!Destroyed \/ R!Elsewhere
  PROVE  ListKept
<1>1. dialog \in R!Dialog /\ StepFits(dialog)
  BY DEF DialogInv, R!DialogTypeOK
<1>2. CASE R!OpenDialog \/ (\E reset \in BOOLEAN : R!Load(reset)) \/ R!ExportSelected
  <2>1. dialog.step = "idle"
    <3>1. CASE R!OpenDialog
      <4>1. dialog = R!Closed
        BY <1>1, <3>1 DEF R!OpenDialog, StepFits
      <4> QED  BY <4>1 DEF R!Closed
    <3>2. CASE (\E reset \in BOOLEAN : R!Load(reset)) \/ R!ExportSelected
      BY <3>2 DEF R!Load, R!ExportSelected, R!Usable
    <3> QED  BY <1>2, <3>1, <3>2
  <2> QED  BY <2>1 DEF ListKept
<1>3. CASE R!CancelOperation
  BY <1>1, <1>3, AskedKeepsList DEF R!CancelOperation, ListKept
<1>4. CASE R!Reject
  <2>1. dialog' = R!Closed \/ dialog' = [R!Asked(dialog) EXCEPT !.closing = "pending"]
    BY <1>4 DEF R!Reject
  <2>2. CASE dialog' = R!Closed
    BY <2>2 DEF R!Closed, ListKept
  <2>3. CASE dialog' = [R!Asked(dialog) EXCEPT !.closing = "pending"]
    <3>1. dialog'.listed = R!Asked(dialog).listed
      BY <1>1, <2>3, AskedKeepsList DEF R!Dialog
    <3> QED  BY <1>1, <3>1, AskedKeepsList DEF ListKept
  <2> QED  BY <2>1, <2>2, <2>3
<1>5. CASE R!ReadPage \/ R!Elsewhere
  BY <1>1, <1>5 DEF R!ReadPage, R!Throw, R!Elsewhere, R!ScanSaved, R!TakeName, R!Dialog, ListKept
<1>6. CASE R!Prepare \/ R!PassFence \/ R!CreateFolder \/ R!WriteFile
  <2>1. dialog.op # "history"
    BY <1>1, <1>6 DEF R!Prepare, R!PassFence, R!CreateFolder, R!WriteFile, StepFits
  <2> QED  BY <2>1 DEF ListKept
<1>7. CASE R!Destroyed
  BY <1>7 DEF R!Destroyed, R!Closed, ListKept
<1> QED  BY <1>2, <1>3, <1>4, <1>5, <1>6, <1>7, PollKeepsList
         DEF R!DialogUser, R!DialogWorker

LEMMA WithKeepsList ==
  ASSUME DialogInv, dialog' = DialogOf(win.open, ~win'.open)
  PROVE  ListKept
<1>1. dialog \in R!Dialog
  BY DEF DialogInv, R!DialogTypeOK
<1>2. CASE dialog' = dialog
  BY <1>2 DEF ListKept
<1>3. CASE dialog' = R!Destroy(dialog)
  <2>1. dialog'.listed = R!Asked(dialog).listed
    BY <1>1, <1>3, AskedKeepsList DEF R!Destroy, R!Dialog
  <2> QED  BY <1>1, <2>1, AskedKeepsList DEF ListKept
<1> QED  BY <1>2, <1>3 DEF DialogOf

LEMMA StepShowsNothing ==
  ASSUME AllInv, [AllNext]_allVars
  PROVE  /\ [\A t \in Reads :
                Busy(job, t) /\ Cancelled(job[t].control) /\ ~Busy(job', t) =>
                  /\ win'.root = win.root /\ win'.object = win.object
                  /\ win'.answer = win.answer /\ win'.builds = win.builds]_vars
         /\ [ListKept]_dialog
<1>1. CASE WindowUser \/ Background
  BY <1>1, CancelledRead, WithKeepsList DEF AllInv, WindowUser, Background, With, Next
<1>2. CASE OpenReport
  BY <1>2, DialogKeepsList DEF AllInv, OpenReport
<1>3. CASE DialogUser \/ DialogStep
  BY <1>3, DialogKeepsList DEF AllInv, DialogUser, DialogStep
<1>4. CASE UNCHANGED allVars
  BY <1>4 DEF allVars
<1> QED  BY <1>1, <1>2, <1>3, <1>4 DEF AllNext

(***************************************************************************)
(* Theorems.                                                                *)
(***************************************************************************)

\* Type correctness of the window, its jobs and its report dialog.
THEOREM WindowTypes == AllSpec => []AllTypeOK
<1>1. AllInv => AllTypeOK
  BY TypesFit DEF AllInv, AllTypeOK, DialogInv
<1> QED  BY <1>1, AllIsSound, PTL

\* What is shown and what is at work is of one snapshot of one project, in whatever
\* order the four jobs are started, cancelled and delivered.
THEOREM ShownIsOfOneProject == AllSpec => []ShownBelongsTogether
<1>1. AllInv => ShownBelongsTogether
  BY DEF AllInv, WindowInv, Fits, Consistent, Working, Together, Exclusive,
         ShownBelongsTogether, WorkIsOfWhatIsShown, RowsAreOfWhatIsShown
<1> QED  BY <1>1, AllIsSound, PTL

\* When every job is over, what starts one is enabled: no handler, on no path, leaves
\* the window without its buttons.
THEOREM ButtonsAreBack == AllSpec => []ButtonsComeBack
<1>1. AllInv => ButtonsComeBack
  BY DEF AllInv, WindowInv, Fits, Startable, Runnable, Quiet, Jobs, ButtonsComeBack
<1> QED  BY <1>1, AllIsSound, PTL

\* The status of an export is that of its folder, and the list of scans has no gap, for
\* pages of any size and any number of scans saved meanwhile.
THEOREM DialogIsTruthful == AllSpec => []DialogTellsTheTruth
<1>1. AllInv => DialogTellsTheTruth
  BY DEF AllInv, DialogInv, DialogTellsTheTruth
<1> QED  BY <1>1, AllIsSound, PTL

\* A read whose cancellation was accepted changes nothing that is shown, in the window
\* and in the dialog.
THEOREM CancelledReadsAreDropped == AllSpec => CancelledShowsNothing
<1>1. AllInv /\ [AllNext]_allVars =>
        /\ [\A t \in Reads :
               Busy(job, t) /\ Cancelled(job[t].control) /\ ~Busy(job', t) =>
                 /\ win'.root = win.root /\ win'.object = win.object
                 /\ win'.answer = win.answer /\ win'.builds = win.builds]_vars
        /\ [ListKept]_dialog
  BY StepShowsNothing
<1> QED  BY <1>1, AllIsSound, PTL
         DEF AllSpec, CancelledShowsNothing, CancelledReadShowsNothing,
             R!CancelledReadingKeepsTheList, ListKept
=============================================================================

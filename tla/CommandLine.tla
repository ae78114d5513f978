----------------------------- MODULE CommandLine -----------------------------
(***************************************************************************)
(* Runs of codeguard-cli (cli/main.cpp) on one project and one database.    *)
(* A command is a sequence of uses of the database, each with a connection  *)
(* of its own; what it loaded first is what it saves last.  Ctrl+C is heard *)
(* while an InterruptScope is in place, and kills the program otherwise.    *)
(***************************************************************************)
EXTENDS DatabaseFile, Sequences

CONSTANT MayRun   (* program -> the commands it may be started with *)

VARIABLE run    \* program -> its command

cliVars == <<file, conn, run>>

\* "listen" is the construction of the InterruptScope.  "query" stands for the commands
\* that print what is saved.  "window" is the button of the window that saves the
\* settings; those it loaded, when the project was opened, are the defaults here.
Plan == [show     |-> <<"load">>,
         config   |-> <<"load", "save">>,
         suppress |-> <<"load", "read", "save">>,
         scan     |-> <<"load", "listen", "read", "import">>,
         build    |-> <<"load", "listen", "read", "record">>,
         prepare  |-> <<"load", "read", "read", "import", "listen", "read", "record", "save">>,
         query    |-> <<"read">>,
         window   |-> <<"save">>]

Commands == DOMAIN Plan

ASSUME CommandLineAssumption == MayRun \in [Programs -> SUBSET Commands]

Run == [command : Commands,
        at      : 1..9,
        scope   : {"off", "handler", "listening"},
        flag    : BOOLEAN,                       \* interrupted
        cancel  : BOOLEAN,                       \* the control word asks to cancel
        loaded  : SUBSET Programs,               \* the profile it started from
        seen    : Nat,                           \* history: file.saves when it asked for it
        outcome : {"none", "passed", "failed", "cancelled"},
        wrote   : SUBSET {"profile", "scan", "build"},
        exit    : {"running", "0", "1", "2", "130", "killed"}]

Use(p)     == Plan[run[p].command][run[p].at]
Doing(p,u) == run[p].exit = "running" /\ run[p].at <= Len(Plan[run[p].command]) /\ Use(p) = u
Holds(p)   == ~InState(p, "closed")
Update(p, r) == run' = [run EXCEPT ![p] = r]

\* main returns, and nothing is left but what was done and the exit code.
Exited(r, code) == [r EXCEPT !.exit = code, !.at = 1, !.scope = "off", !.flag = FALSE,
                             !.cancel = FALSE]
Exit(p, code) == Update(p, Exited(run[p], code))

\* The use is over; prepare skips the inventory when the project has been scanned.
Advance(r, found) ==
  [r EXCEPT !.at = @ + (IF r.command = "prepare" /\ r.at = 2 /\ found THEN 3 ELSE 1)]

\* No scan is needed to compare with, nor to find out that there is none.
NeedsNoScan(r) == r.command = "scan" \/ (r.command = "prepare" /\ r.at <= 3)

-----------------------------------------------------------------------------
(* The uses of the database *)

\* load_project_config: no file, no profile.
Load(p) ==
  /\ Doing(p, "load")
  /\ \/ /\ ~file.exists /\ ~Holds(p)
        /\ Update(p, Advance([run[p] EXCEPT !.loaded = {}, !.seen = file.saves], FALSE))
        /\ UNCHANGED dbVars
     \/ Connect(p, TRUE) /\ Update(p, [run[p] EXCEPT !.seen = file.saves])
     \/ /\ InState(p, "open") /\ Decodes(p)
        /\ Update(p, Advance([run[p] EXCEPT !.loaded = Configuration(p)], FALSE))
        /\ Disconnect(p)

\* The newest snapshot: a scan compares with it, prepare asks for it, a build copies
\* what it describes, and a suppression and "query" need it.
Read(p) ==
  /\ Doing(p, "read")
  /\ \/ /\ ~file.exists /\ ~Holds(p) /\ NeedsNoScan(run[p])
        /\ Update(p, Advance(run[p], FALSE)) /\ UNCHANGED dbVars
     \/ Connect(p, TRUE) /\ UNCHANGED run
     \/ (FindLatest(p) \/ SnapshotRead(p)) /\ UNCHANGED run
     \/ /\ InState(p, "read")
        /\ conn[p].found > 0 \/ NeedsNoScan(run[p])
        /\ Update(p, Advance(run[p], conn[p].found > 0)) /\ Disconnect(p)

\* import_project, after it read the sources; what could not be read completely is
\* not saved.
Import(p) ==
  /\ Doing(p, "import")
  /\ \/ /\ ~Holds(p)
        /\ IF run[p].command = "scan" THEN Exit(p, "2") ELSE Update(p, Advance(run[p], FALSE))
        /\ UNCHANGED dbVars
     \/ Connect(p, FALSE) /\ UNCHANGED run
     \/ BeginWrite(p, "scan") /\ UNCHANGED run
     \/ /\ ~run[p].cancel
        /\ CommitWrite(p)
        /\ Update(p, [run[p] EXCEPT !.wrote = @ \cup {"scan"}])
     \/ /\ InState(p, "read")
        /\ Update(p, Advance(run[p], FALSE)) /\ Disconnect(p)

\* Mutant: prepare saves the profile whatever CMake said.
Recorded_Anyway(p) == Advance(run[p], FALSE)

\* prepare goes on when CMake was configured.
Recorded(p) ==
  CASE run[p].outcome = "passed" /\ run[p].command = "prepare" -> Advance(run[p], FALSE)
    [] run[p].outcome = "passed" /\ run[p].command = "build"   -> Exited(run[p], "0")
    [] run[p].outcome = "cancelled" -> Exited(run[p], "130")
    [] OTHER                        -> Exited(run[p], "2")

\* build_and_test, whose run is recorded whatever became of it.
Record(p) ==
  /\ Doing(p, "record")
  /\ \/ /\ run[p].outcome = "none" /\ ~Holds(p)
        /\ \E o \in {"passed", "failed"} \cup {c \in {"cancelled"} : run[p].cancel} :
             Update(p, [run[p] EXCEPT !.outcome = o])
        /\ UNCHANGED dbVars
     \/ run[p].outcome # "none" /\ Connect(p, FALSE) /\ UNCHANGED run
     \/ BeginWrite(p, "build") /\ UNCHANGED run
     \/ /\ CommitWrite(p)
        /\ Update(p, [run[p] EXCEPT !.wrote = @ \cup {"build"}])
     \/ InState(p, "read") /\ Update(p, Recorded(p)) /\ Disconnect(p)

\* save_project_config: the profile as it was loaded, with the change.
Save(p) ==
  /\ Doing(p, "save")
  /\ \/ Connect(p, FALSE) /\ UNCHANGED run
     \/ CheckProfile(p) /\ UNCHANGED run
     \/ /\ WriteProfile(p, run[p].loaded \cup {p})
        /\ Update(p, [run[p] EXCEPT !.wrote = @ \cup {"profile"}])
     \/ /\ InState(p, "read")
        /\ Update(p, Advance(run[p], FALSE)) /\ Disconnect(p)

Construct(p) == run[p].exit = "running" /\ Constructor(p) /\ UNCHANGED run

-----------------------------------------------------------------------------
(* Interrupts *)

\* The constructor of InterruptScope installs the handler, clears the flag and
\* starts the monitor.
Listen(p) ==
  /\ Doing(p, "listen")
  /\ Update(p, IF run[p].scope = "off" THEN [run[p] EXCEPT !.scope = "handler"]
               ELSE Advance([run[p] EXCEPT !.scope = "listening", !.flag = FALSE], FALSE))
  /\ UNCHANGED dbVars

\* Ctrl+C, when it does not end the program.
Interrupt(p) ==
  /\ run[p].exit = "running" /\ run[p].scope # "off"
  /\ Update(p, [run[p] EXCEPT !.flag = TRUE])
  /\ UNCHANGED dbVars

\* The monitor looks at the flag every few milliseconds.
Monitor(p) ==
  /\ run[p].exit = "running" /\ run[p].scope = "listening"
  /\ run[p].flag /\ ~run[p].cancel
  /\ Update(p, [run[p] EXCEPT !.cancel = TRUE])
  /\ UNCHANGED dbVars

\* ScanCancelled: what a scan has begun to write is rolled back.
Cancelled(p) ==
  /\ Doing(p, "read") \/ Doing(p, "import")
  /\ run[p].command = "scan" /\ run[p].cancel /\ "scan" \notin run[p].wrote
  /\ Exit(p, "130") /\ Disconnect(p)

-----------------------------------------------------------------------------
(* Errors *)

\* Mutant: an upgrade that clashes is tried again and again.
Fail_Retries(p) ==
  /\ run[p].exit = "running" /\ run[p].at <= Len(Plan[run[p].command])
  /\ Use(p) # "listen" /\ ~(InState(p, "read") /\ ~conn[p].readOnly)
  /\ ~UpgradeClashes(p)
  /\ Exit(p, "1") /\ Disconnect(p)

\* A file that is locked for too long, a disk that is full, a refused file, an
\* upgrade that clashes, a profile that cannot be decoded, a project never scanned.
Fail(p) ==
  /\ run[p].exit = "running" /\ run[p].at <= Len(Plan[run[p].command])
  /\ Use(p) # "listen" /\ ~(InState(p, "read") /\ ~conn[p].readOnly)
  /\ Exit(p, "1") /\ Disconnect(p)

\* The process is killed.
Kill(p) == run[p].exit = "running" /\ Exit(p, "killed") /\ Disconnect(p)

\* The command is through; a scan may have covered only part of the project.
Return(p) ==
  /\ run[p].exit = "running" /\ run[p].at > Len(Plan[run[p].command])
  /\ \E code \in {"0"} \cup {c \in {"2"} : run[p].command \in {"scan", "query"}} : Exit(p, code)
  /\ UNCHANGED dbVars

-----------------------------------------------------------------------------
CliInit ==
  /\ DatabaseInit
  /\ \E c \in [Programs -> Commands] :
       /\ \A p \in Programs : c[p] \in MayRun[p]
       /\ run = [p \in Programs |->
                   [command |-> c[p], at |-> 1, scope |-> "off", flag |-> FALSE,
                    cancel |-> FALSE, loaded |-> {}, seen |-> 0, outcome |-> "none",
                    wrote |-> {}, exit |-> "running"]]

Works(p) == Load(p) \/ Read(p) \/ Import(p) \/ Record(p) \/ Save(p) \/ Construct(p)
            \/ Listen(p) \/ Return(p)

CliNext == \E p \in Programs :
  Works(p) \/ Interrupt(p) \/ Monitor(p) \/ Cancelled(p) \/ Fail(p) \/ Kill(p)

CliSpec == CliInit /\ [][CliNext]_cliVars

\* A program runs on, and waits for a lock only so long before it fails.
CliFairSpec ==
  CliSpec /\ \A p \in Programs : WF_cliVars(Works(p) \/ Fail(p))

-----------------------------------------------------------------------------
(* Properties *)

CliTypeOK == DatabaseTypeOK /\ run \in [Programs -> Run]

\* docs/project-configuration.md: 0 is success, 130 a cancellation, 1 an error and 2 a
\* build that did not pass or a partial scan.  What was saved agrees with it: a
\* success saved all it should, a cancelled or failed command no profile, and a
\* cancelled scan nothing.
ExitCodeTellsTheTruth ==
  \A p \in Programs :
    LET r == run[p]
    IN /\ r.exit = "0" =>
            /\ r.command \in {"config", "suppress", "prepare", "window"} => "profile" \in r.wrote
            /\ r.command \in {"build", "prepare"} => "build" \in r.wrote /\ r.outcome = "passed"
            /\ r.command = "scan" => "scan" \in r.wrote
       /\ r.exit = "130" => IF r.command = "scan" THEN r.wrote = {} ELSE r.outcome = "cancelled"
       /\ r.exit \in {"1", "2", "130"} => "profile" \notin r.wrote

\* A profile is saved as a whole, so that the last one to save wins; but what another
\* program saved before this one began to load it is never lost, although the
\* connection it was loaded through may have met the file at a version without
\* profiles, and though others upgrade, save and die before it is saved.
OnlyOverlappingSavesAreLost ==
  [][\A p \in Programs :
       file'.saves # file.saves /\ run'[p] # run[p] /\ run[p].seen = file.saves =>
         file'.profile = file.profile \cup {p}]_cliVars

\* Every command comes to an end, whoever locks the file or dies with it locked.
CommandsEnd == \A p \in Programs : <>(run[p].exit # "running")
=============================================================================

# CodeGuard: specifications, model checks and proofs

CodeGuard (the repository beside this directory) scans a C/C++ project, parses it
with Clang, stores inventories, symbols, issues and build results in one SQLite
database, and shows them in a Qt window and on a command line. This directory
holds TLA+ models of the parts in which order, concurrency and failure decide
whether the program is right, the TLC runs that check them on small instances,
and TLAPS proofs of what matters most for every instance. All of it is
translated from the C++ code; `PROJECT.json` ("map") names the lines every
definition stands for. Paths below are relative to the repository.

## 1. Inventory

| Component (source) | State it keeps | Operations | Hard behaviour | What makes it right | Modelled in |
|---|---|---|---|---|---|
| Scan session (`core/application.cpp`, `core/project/scanner.cpp`, `gui/qt/scan_task.cpp`) | control word, phase, inventory, result, outcome, window state | start, cancel, 25 ms poll, destroy; inventory, compare, analyse, verify, save | cancellation against COMMIT, files edited between three passes, exceptions, destruction while busy | a scan is one atomic append or nothing, and the window says which | `ScanSession` |
| Control word (`core/include/codeguard/scan_control.hpp`) | one atomic of four states | `request_cancel`, `check`, `begin_commit`, `finish` | compare-exchange races of two threads | a cancellation and a commit never both win | `ScanControl` |
| SQLite database (`core/database/sqlite_database.cpp`) | schema version, snapshots, profiles, builds; connection locks | open and upgrade, `save`, `latest`, `load_snapshot`, `save_configuration`, `save_build`, `builds` | busy locks, five-second waits, rollback on every error, two programs upgrading, overlapping saves of one profile | snapshots are immutable, no lock leaks, a transaction loses nothing, a saved profile is lost to an overlapping save only | `DatabaseFile`, `ScanSession`, `BuildRun` |
| Thread pool (`core/include/codeguard/thread_pool.hpp`) | queue, closing flag, threads, two condition variables | construct, `submit`, worker loop, `close`, destroy | lost or shared wake-ups, closing while full, constructor failing half way | bounded, first in first out, nothing accepted is dropped, everyone returns | `ThreadPool` |
| Clang analysis and AST cache (`core/parser/`) | one output per unit, cache directory of entries | command choice, probe, lookup, parse, compare, second probe, write entry, merge | files changing between three readings, two writers, entries left half written, units finishing in any order | a hit is what a full analysis would give; the merge does not depend on the schedule | `TuCache`, `ProjectAnalysis` |
| Build and test (`core/testing/engineering.cpp`, `gui/qt/build_task.cpp`) | run record, workspace, copied sources | copy, compare, configure, build, test, compare again, record | edits while copying, CMake writing sources, cancellation of a passing stage | what is recorded as passed is a test of the scanned sources | `BuildRun` |
| Process runner (`core/process/process.cpp`) | child group, pipes, deadline | fork/exec, drain, wait, kill, classify | exit, cancel, deadline and failing exec in any order; children that outlive the program | one truthful answer, nothing left running, output accounted for | `RunProcess` |
| Configuration (`core/project/configuration.cpp`) | one profile per project | decode, validate, load, save, discover and relocate compile commands | two tools load-modify-save a profile; profiles of another version; a profile that cannot be read once | no profile is overwritten by what is not its own | `DatabaseFile`, `CommandLine`, `TaskWindow` (storage); text format and discovery not |
| Rules and comparison (`core/analyzer/rules.cpp`, `core/report/comparison.cpp`) | none (functions of snapshots) | suppress, diagnose, pair, classify | repeated and moved issues, headers seen through several units, suppressions of an older text | no observation is lost; "not detected" is said only when someone looked | `RulePolicy`, `CompareScans`, `ScanReports` |
| Graph and query (`core/graph`, `core/query`) | none (pure functions) | components, cycles, topological order; filter, sort, limit | ties, repetitions, cycles, limits that are met exactly | equal to their mathematical definitions | `RelationGraph`, `QueryPredicate` |
| Export and reading tasks (`core/report/export.cpp`, `gui/qt/read_task.hpp`, `gui/qt/report_dialog.cpp`) | one control word per operation, dialog state, a directory | read, page, export, cancel, close | results that arrive after a cancellation, two files of which one fails | nothing is shown or created after an accepted cancellation; the status is that of the directory | `ReportDialog`, `TaskWindow` |
| Window (`gui/qt/main.cpp`, other `gui/qt` files) | four jobs, shown project and snapshot, profile widgets, pending close | start and stop jobs, apply results, open projects, save settings, close | stale results, closing with jobs past their fence, failed profile reads | jobs exclude each other, stale results are dropped, the window closes in the end | `TaskWindow`, `WindowReports` |
| Command line (`cli/`) | interrupt flag, scope, control word | show, configure, suppress, scan, build, prepare, queries | Ctrl+C between any two steps, kills, another program on the same file | the exit code tells what was saved | `CommandLine` |
| Python line (`src/defectguard`) | progress files and result stores | parse, train, evaluate, sweep | none: a sweep that is resumed refuses an entry it cannot verify | out of scope | not modelled |
| Native tool, scripts, CI | none | one shot | none | out of scope | not modelled |

Interaction: the window (or a command) starts a job; a job owns one control word
which the GUI thread (or the signal's listener) and the worker share; the worker
calls core functions, which use the thread pool, the process runner and
short-lived SQLite connections; jobs report back through a future that a 25 ms
timer polls. Different windows and processes meet only in the database file, the
cache directory and the source tree.

`PROJECT.json` lists the hazards of this code line by line, with the properties
that cover each. One has none: a stored snapshot does not say which snapshot its
counts compare with.

## 2. Modules

Jobs, storage and processes:

| Module | Models | How it corresponds |
|---|---|---|
| `ScanControl` | the control word | one operator per compare-exchange; modules that own a control word apply it inside one action |
| `AtomicScan` | the promise of a scan | abstract: begin, accept a cancellation, commit, fail, report, be lost |
| `ScanSession` | scans into one database | one worker `pc` per scan with an action for each stretch between two points where another actor can be noticed; one action per file in each of the three passes over the sources; GUI-thread actions `Start`, `Cancel`, `Poll`, `Destroy`; SQLite locks as `writer`, `pending`, `readers` |
| `TaskExecutor` | the promise of the pool | abstract: accept, start in order, finish, refuse after close |
| `ThreadPool` | `thread_pool.hpp` | every critical section is one action per monitor step; waiting threads are sets, a wake-up moves a thread to the mutex queue; `notify_one` picks any waiter; spurious wake-ups are allowed |
| `ProcessResult`, `ProcessCall` | the promise of `run_process` | when each status may be answered; a call is answered once |
| `RunProcess` | the POSIX branch of `run_process` | the manager's loop, the leader from fork to reaping, the rest of its group, one of the two pipes in bytes |
| `BuildRun` | `build_and_test`, `BuildTask`, `save_build` | one record of locals per build; each comparison with the scan visits one file per step; a stage is a call kept to `MayAnswer` |
| `TuCache` | the task of one unit with the AST cache | each of the three readings visits one file per step; an entry directory is claimed, filled, damaged, never overwritten |
| `DatabaseFile` | the file and its connections | a connection reads the application id, the version and the table list in statements of their own, then creates or upgrades, one transaction per version, and keeps the version it read last; a transaction works on a copy of the pages (`draft`) that its COMMIT puts back; the first SELECT of a snapshot stays unfinished until the others are through, and nobody commits meanwhile; a profile is checked and then replaced as a whole |
| `CommandLine` | `codeguard-cli` | a command is a sequence of uses (`Plan`): load, read, listen, import, record, save, each with a connection of its own; `InterruptScope` has a moment of installation, of listening and none; a kill may come at every step |

The window:

| Module | Models | How it corresponds |
|---|---|---|
| `TaskWindow` | `main.cpp` with its scan, build, query and history jobs | one action per click handler, finished signal and queued close, one for the end of each worker; `win` holds what is shown (project, snapshot, query rows, history), `profile` whose settings the widgets hold |
| `ReportDialog` | the report dialog and `export_report` | one operation at a time; pages are read from the newest scan down while scans are saved; the export passes a fence, creates its directory, and writes two files |
| `WindowReports` | both over one event loop | the dialog is modal for clicks only: timers, workers and a pending close of the window go on under it |

From sources to results, where schedule and history matter more than threads:

| Module | Models | How it corresponds |
|---|---|---|
| `ProjectAnalysis` | `analyze_project` | any worker finishes any unit at any time; the caller merges in the order of the inventory |
| `RulePolicy` | `rules.cpp` | suppressions bound to a text; a diagnostic for each that hides nothing |
| `CompareScans` | `comparison.cpp` | pairing by place, then by the one that is left; the status of what has no partner |
| `ScanReports` | edits, scan, policy, snapshot, comparison | the composition of the three: the user edits sources, commands and profile between scans |
| `RelationGraph` | `summarize_graph` | two iterative depth-first walks and the topological order, statement by statement |
| `QueryPredicate` | the grammar of WHERE and its evaluation | recursive descent over tokens with its limits on depth and nodes; the calls of `disjunction` and `conjunction` that are open are a stack with the operands they hold, and each token, append, refusal and return is an action; the reference is a definition by positions and levels in the text, not a second parser |

`MC...` modules give small instances; `XProofs` holds the theorems about `X`
(section 5). `ReportsProofs` holds those about `ScanReports`, `CompareScans`,
`ProjectAnalysis`, `RelationGraph` and `QueryPredicate`, `CommandLineProofs` also those about
`DatabaseFile`, and `WindowReportsProofs` those about `TaskWindow` and `ReportDialog`.

Composition: `ScanSession`, `BuildRun`, `TaskWindow` and `ReportDialog` use
`ScanControl`; `RunProcess` implements `ProcessCall`, whose `MayAnswer` is all
that `BuildRun` assumes of a stage; `ThreadPool` implements `TaskExecutor`;
`ScanSession` implements `AtomicScan`, and `BuildRun`, `TaskWindow` and
`DatabaseFile` take a scan as that atomic append. `ProjectAnalysis` takes what
the cache returns for the result of an analysis, which is what `TuCache` shows.

Abstractions shared by all modules. File contents are a few model values; hashes
are injective; a modification time is a counter that every edit increases
(`ScanSession` compares hash, size and mtime, as the code does; `BuildRun`
compares content only, as `same_source` does). What Clang or CMake computes is
not modelled, only what it read, wrote and answered; in `ScanReports` a text is
the set of issues that are found in it. Messages, progress, timings, Git output,
test counts and layout are left out. A `catch` that turns an exception into an
outcome is modelled; allocation failures are not, except in the constructor of
the pool, where the code handles them.

## 3. Runs

| Run | Question and properties | Bounds, and why they are enough |
|---|---|---|
| `scan_races` | Are overlapping scans atomic (`ScanIsAtomic`), cancellable up to the fence and no further (`CancelledLeavesNoSnapshot`, `CancellingEndsCancelled`), reported truthfully (`OutcomeTellsTheStore`), and do locks come back (`NoLockOutlivesItsScan`)? | two scans (one analysing), one file, one other reader, no edits: every lock conflict needs two parties, and a reader that meets the pending writer is the third |
| `scan_edits` | Does a stored analysis describe the stored inventory (`AnalysisDescribesInventory`)? Do the published counts account for every file, and is an unreadable file never "removed" (`CountsAreTrue`)? | two scans, so that the base is not always the predecessor; one file of two texts, two edits, between any two readings |
| `scan_ends` | Is every scan delivered and does every destructor return (`EveryScanIsDelivered`)? | liveness, with crashes, readers that never leave and writers that keep the lock |
| `pool` | Is the pool a bounded first-in-first-out executor (`PoolIsExecutor`) that drops nothing (`TasksAreKept`), and is any wake-up lost (`AcceptedTaskRuns`, `CallsReturn`)? | two workers, two producers, two slots, four tasks: full and empty queues, shared wake-ups, close at any time |
| `process_call` | Is a call answered once (`CallIsAnswered`), truthfully (`ResultTellsTheRun`), with nothing left running (`NothingSurvives`)? | two further group members; two bytes of pipe, three of capture, five written: full pipe, cut output, rest in the pipe at exit |
| `build_edits` | Is a passed or configured build one of the scanned sources (`PassedRunIsOfItsScan`, `ConfiguredSourcesAreScanned`), is its record true (`RecordTellsTheRun`), and does every build end (`EveryBuildIsDelivered`)? | full and configure-only; two files, two edits: an edit and its undoing between copy and comparison; CMake may write the missing file; a database that others may keep |
| `build_stale` | expected violation, see section 7 | one file, one edit |
| `cache_edits` | Does the cache ever hand out anything but a full analysis (`EntriesAreSound`, `HitsAreFullResults`, `EntriesAreWrittenOnce`)? | two analyses, two rule choices, one opened and one optional file, three edits |
| `window` | Does what is shown belong together (`ShownBelongsTogether`), do the buttons come back (`ButtonsComeBack`), is the dialog truthful (`DialogTellsTheTruth`), does a cancelled read show nothing (`CancelledShowsNothing`), and does everything that was asked to close close (`EverythingCloses`)? | two projects, so that a result can be stale; three clicks that start something, one failing profile read; pages of one scan and two scans, so that the list has two pages and grows under the reader; cancelling and closing are unbounded |
| `window_profile` | expected violation, see section 7 | the window without its dialog, four clicks |
| `database` | Do connections fit the schema they work on (`SchemaFitsItsUsers`), are exit codes true (`ExitCodeTellsTheTruth`), does every transaction keep what others saved, and a profile that cannot be decoded stay (`NothingSavedIsLost`), does a save of a profile drop nothing but what was saved while its own command was under way (`OnlyOverlappingSavesAreLost`), and do commands end (`CommandsEnd`)? | any command, or the settings button of the window, beside a scan or a change of settings in another process; a file that is absent, of version 1 or of version 2; two versions stand for the seven of the code, the last of which brings the profile table, as the fourth does there; two scans |
| `reports` | Is an analysis independent of its schedule (`AnalysisIsScheduleFree`), are fix candidates gone (`FixCandidatesAreGone`), does every observation have its change (`EveryObservationHasItsChange`), do suppressions stay with their text (`SuppressionsStayWithTheirText`)? And, in behaviours of their own, is the summary of a graph right (`GraphIsRight`), and does a predicate mean what its text says (`TreesMeanTheirText`)? | two units and a header they share, one edit before the first scan and three in all, two scans; every graph of four nodes and four edges (two cycles, and a tail or a node by itself); every input of seven tokens with parentheses one deep and five nodes, so that both limits are met and passed |

Deadlock checking is off only where the system may stop: every job of the
instance is over. Every property has a mutant in `PROJECT.json`: a plausible bug
of the same code for which TLC reports the property violated. The symmetry in
`scan_edits` (texts) and `reports` (commands) permutes values that are only
compared, and both runs check invariants alone.

## 4. Fairness

* `ScanSession`, `BuildRun`: weak fairness of each worker as a whole, and of the
  25 ms timer. The worker is a thread that keeps running. Its busy waits are
  bounded in the code (five seconds in the busy handler), so a worker that waits
  always has the time-out as an enabled step. Nothing is assumed of users,
  editors, other readers and writers, or crashes.
* `ThreadPool`: every pool thread, and every caller already inside `submit` or
  `close`, keeps running, and a mutex is granted in the end. Nobody must submit
  or close. Spurious wake-ups may happen and are not relied on.
* `RunProcess`: the calling thread runs and time passes. The managed program may
  never exit, write or read.
* `WindowReports`: each worker ends (what it does inside is bounded by the
  modules above), and the event loop handles each timer and each queued call that
  stays pending. Nothing is assumed of the user. `EverythingCloses` is about
  finitely many clicks: a user who starts a new job after every old one may put
  off a close that the code only carries out when nothing runs.
* `CommandLine`: weak fairness of each program. It keeps running, and it waits
  for a lock only as long as the busy handler does, after which it fails; the
  two together are one fair action.
* `ProcessCall` states the same as fairness of its abstract step, and
  `CallIsAnswered` shows that it follows.

## 5. Proved

`tlapm` checks eight modules, from the assumptions on the constants alone, for
any number of scans, files, threads, projects, programs, units or clicks. Each
proof rests on an inductive invariant that TLC checked before it was proved; for
every action there is one step.

`ThreadPoolProofs` — `PoolInvariant` establishes an inductive invariant: types,
the discipline of the monitor (a thread inside a critical section holds the
mutex; a waiting thread does not), and where each task is. From it follow
`PoolIsBounded` (the queue never exceeds its capacity; not inductive by itself,
since a producer that woke up decides under the mutex), `PoolKeepsTasks` (a task
is in the queue, or with one worker, or done), `PoolDrains` (when the workers
have left, the queue is empty), and `PoolKeepsAll`, which joins them.
`PoolImplementsExecutor`: every step of threads and monitor is a step of
`TaskExecutor` or a stutter.

`ScanSessionProofs` — `ScanTypes` strengthens `TypeOK` by two facts without which
the types of stored snapshots do not persist: the base of a result is a snapshot
that exists, and ended scans have an outcome. The other theorems each have an
inductive invariant of their own:

* `CancelIsFinal`: for an accepted cancellation the control word can never again
  reach "committing", hence no worker of such a scan is between fence and end
  with a commit ahead (`FenceInv`).
* `AnalysisIsOfTheInventory`: an equal stamp means an equal text, for the tree and
  for every recorded file (`RecordsAgree`), and a parsed text that differs from
  the inventory lies in the tree with a later stamp, so the verification finds it
  (`ParsedAgrees`).
* `LocksAreReturned`: who holds which lock is determined by where it is
  (`LocksInv`).
* `WindowTellsTheStore`: the result has an id exactly when the snapshot is in the
  history, and the outcome agrees with the id in every phase behind the commit
  (`StoreInv`).
* `CountsAreOfTheFiles`: the counts of a snapshot are those of a partition of its
  files and those of its base, with the unreadable ones apart.
* `CancellingIsKept`: the action property that a window that says "cancelling"
  says "cancelled" next.
* `ScanImplementsAtomicScan`: with all of the above, every step of a scan is a
  step of `AtomicScan` or a stutter.

`TuCacheProofs` — the three readings of a file (probe, parse, second probe) are
not atomic, so `EntriesAreExact` is far from inductive. A file that is looked up
only changes once and a file that is opened carries its text into the trace;
hence two equal probes bracket the parse (`ProbeIsFresh`, `ParseIsSteady`), a task
knows at each place which texts its key and its result are of (`TaskKnows`), and
an entry that is being written belongs to the one task that created its directory
(`WritersHaveClaimed`). `CacheIsExact`, `CacheIsSound`, `HitsAreExact`,
`WritersAreAlone` and `EntriesStay` follow.

`RunProcessProofs` — `GroupInv` says how much of the process group is left at each
place of the manager, `StatusInv` what the status can be there and what it tells
of cancellation and deadline, `OutputInv` that every byte is in the pipe, in the
captured text or beyond its limit, and that the last drain empties the pipe.
`GroupIsGone`, `PassedIsZero`, `OutputIsComplete` and `ResultIsTrue` follow, and
`CallIsTruthful`: every step of `RunProcess` is a step or a stutter of
`ProcessCall`.

`BuildRunProofs` — `JobInv` is a statement about the locals of one build, its
control word, whether a cancellation was accepted and whether it is recorded:
where the word may be consumed (`ControlInv`), that status and accepted
cancellation agree from the fence on (`CancelInv`), that a success began from the
scan that was read (`ScanInv`), and that the stages of a success all passed
(`StepsInv`). Other builds, editors and scans do not disturb it, since scans only
grow. From it follow `PassedIsOfItsScan`, `ConfiguredIsScanned`,
`CancelledIsAccepted`, `FailureStopsStages` and `RecordIsTrue`.

`CommandLineProofs` — the invariant has three layers. `DatabaseInv` is about the
file and every connection: what a connection believes of the version, at each
place where it may be, is no more than the file has reached; and whoever holds
the write lock has a draft of the pages that are in the file now, with its own
change, since nobody else could commit after its BEGIN. `CliInv` ties each
command to its connection (`UseFits`: the connection is in a place that belongs
to the current use), its own fields to one another (`CommandFits`: scope, flag,
control word), and its exit code to what it wrote (`TellsTheTruth`). A step of
one program leaves the statement about the others alone because it cannot touch
the pages under their lock, and file versions only grow. `SchemaFits`,
`ExitCodesAreTrue` and `SavedIsKept` follow for any number of programs, versions
and scans. `ProfileInv` adds what a command knows of the profile: as long as
nobody has saved one since it began to load, what it loaded is what the file
holds, although it may have loaded through a connection to an old version
(`SeenFits`). `OverlappingSavesOnly` follows. It needs the second layer: only
there is it known that a command that saves is through with loading.

`ReportsProofs` — `ComparisonIsComplete` is about any two snapshots, however
they came about: each observation on either side is in one change, and pairs are
one to one. `ReportInv` says that the merged prefix is that of the units in
order, whoever has finished (`PartInv`), that each snapshot is that of the
project it records (`HistoryInv`), and that what a profile suppresses was seen in
the text it names (`GrantInv`). `MergeIsScheduleFree`, `CandidatesAreGone`,
`ObservationsAreCovered` and `SuppressionsStay` follow for any units, contents
and commands.

`ReportsProofs` also holds `GraphSummaryIsRight`: for any finite graph the
components are the classes of mutual reachability, and the topological order is
there exactly when none of them is cyclic, has every edge forward and takes the
smallest ready node in each place. Reachability is the smallest closed set; where
an induction is needed, a minimal member of a family of finite sets is chosen
(`FamilyHasMinimal`, from the well-foundedness of strict inclusion). The invariant
(`Fits`) has a part for each of the three phases. `VisitInv` is about the first
walk: each node on the stack is reached from those below it, and when a node is
finished, what the nodes finished by then point to is finished before it or
reaches it (`FinishFits`). `GatherInv` is about the second: what is being gathered
reaches one another, contains a node that is later in the order of finishing than
all that is not gathered, and hence takes in a predecessor only if it is mutual
(`BackwardIsMutual`); what is complete has no predecessor outside. `PeelInv` is
about the order: the counters are those of the predecessors that are left, and
"ready" is the set of nodes without one. At the end, a complete order puts every
edge forward, so that no class has two nodes (`OrderHasNoCycle`); and if a node is
left, one that is reached from the fewest lies on a cycle (`StuckHasCycle`).

The third part of `ReportsProofs` ends in `TreesAreRight`: whatever is typed, and
whatever the limits and the comparisons are, the parser of WHERE accepts exactly the
predicates within its limits, and the tree is true of the rows that the text is
true of. `TreesMeanTheirText` speaks of the end only; the invariant (`QueryInv`)
says at each place what has been read (`Follows`): where the groups of the open
calls begin (`Opened`), that what was read is the beginning of a predicate
(`Alternates`, `IsShallow`), that every word that was read is a node or a connective whose
left operand is held, so that the list overflows exactly when the text is too long
(`IsCounted`), and for every open call that the operands it holds are worth what
its group is worth up to here (`Agrees`): the held "or" operand the conjunctions
that are over, the held "and" operand the one that is being read. Values of nodes and meanings of
groups are recursive functions; that they exist follows from `RecursionOnRank` (a
rule that looks only at lower ranks has a fixed point, by the smallest rank that
would refute it), with positions as ranks for nodes and, backwards, for groups. Every
refusal needs a proof of its own that no predicate begins like this
(`NoOperandIsRefused`, `FullListIsRefused`, `LeftoverIsRefused`).

`WindowReportsProofs` — `WindowInv` says that the shown parts are of the shown
project, that scan, build and history reading exclude each other, what each of them was
asked for, and which buttons are enabled when nothing excludes their jobs;
`DialogInv` that the place of the dialog's operation, its control word,
its directory and its status agree, and that the list is a gapless range of the
scans. `ShownIsOfOneProject`, `ButtonsAreBack`, `DialogIsTruthful` and the action
property `CancelledReadsAreDropped` follow, whatever the number of projects,
clicks, failing reads, scans and their pages.

The theorems `PoolTypes`, `SessionTypes`, `CacheTypes`, `ProcessTypes`,
`BuildTypes`, `CommandTypes` and `WindowTypes` state type correctness of their
specifications.

## 6. Only model-checked

Liveness and fairness are out of the prover's reach: `AcceptedTaskRuns`,
`CallsReturn`, `EveryScanIsDelivered`, `EveryBuildIsDelivered`,
`EverythingCloses`, `CommandsEnd`, and the fairness part of `CallIsAnswered`. Every
safety invariant and every action property of the runs is stated by a theorem of
section 5.

The library's induction theorems take an operator as a parameter, which the
provers cannot instantiate. The proofs choose a smallest number or a minimal set
instead, and need no induction rule.

## 7. Where documents and code differ

* `core/include/codeguard/engineering.hpp:33` says that runs are attached to a
  source-matching scan, "including failed/cancelled runs". The comparison with
  the scan happens inside the `try` block of `build_and_test`, so a build of a
  tree that no longer matches is recorded as well, attached to the scan it does
  not match, with status `failed` or `cancelled` and `source_unchanged` 0. The run
  `build_stale` shows such a record. The record says so itself; only the comment
  promises more.
* `docs/project-configuration.md:16` says that settings are saved per project and
  that switching projects loads the corresponding settings. When the profile of
  the shown project cannot be read once (a database that is locked too long, an
  I/O error), `gui/qt/main.cpp:822` puts default settings into the widgets, and
  after a failed scan of another project (lines 662 and 688) they keep those of
  the project shown before. The next build, generation or suppression saves the
  widgets as the profile of the shown project (lines 873, 881 and 735). The run
  `window_profile` shows such an overwritten profile.

## 8. Limits

* Every edit gets a modification time of its own (`ScanSession`).
  `docs/performance-and-interaction.md` makes no promise for files that change
  and are restored between two readings; the models say precisely where that
  matters. In `BuildRun` edits may be undone freely. In `TuCache` files that are
  opened may be edited back, while a file that is only tested by `__has_include`
  changes once: the parser's trace is compared by the files it opened, so such a
  file that changes for the duration of the parse only is noticed by no
  comparison.
* In `ScanSession` the database of a first scan exists only when the scan saves;
  reading it before is modelled as reading an empty history, which is what the
  code does when the file is missing. Creation and upgrades are in
  `DatabaseFile`. Of two programs that create or upgrade one file at once, one
  may fail with an error; the code does not retry, and the model does not either.
* SQLite keeps the whole transaction in its cache until COMMIT; a spill, which
  would need an exclusive lock earlier, is not modelled.
* A profile is saved as a whole, without a check that it is still the one that was
  loaded: of two saves that overlap the last one wins. No document promises more,
  and `OnlyOverlappingSavesAreLost` says that this is all that is ever lost.
* The counts of a snapshot compare with the snapshot that was read, which need not
  be its predecessor when scans overlap. It is not stored which one that was.
* An `InterruptScope` installs its handler before it clears the flag; a Ctrl+C
  between the two is forgotten, in the code and in the model.
* `TaskWindow`: one database file; message boxes, which stop the click that
  opened them and nothing else, are left out; polls that only repeat a progress
  text are left out because they are idempotent; a profile read that fails is
  transient, and the number of failures is bounded.
* `RunProcess`: a process that leaves its group is out of reach for the code and
  for the model (`docs/level3-acceptance.md` says so); SIGKILL takes effect at
  once; process ids are not reused between the reaping and the last kill. A pipe
  holds no more than one drain reads (64 KiB against 128 KiB); this is an
  assumption of the module because the last drain relies on it. The Windows
  branch is not modelled.
* `ScanReports`: issues of one rule and one symbol, as sets; severities and
  detectors are labels and left out; the cache is left out there and is the
  subject of `TuCache`; edges and references, which are sorted and deduplicated
  as the issues are, are left out of the merge. `FixCandidatesAreGone` makes one
  exception, which `docs/references-and-metrics.md:37` makes as well: the local
  symbol of an issue in a header is named after one representative unit, and when
  another unit takes its place the issue may show as added and "not detected".
* `RelationGraph`: `related_nodes`, `function_references` and the layout are left
  out. `QueryPredicate`: lexing, typing, ORDER BY and LIMIT are left out; a
  comparison of a field with a literal is one token.
* Not modelled: AST matching (it needs Clang), the native tool (single shot, no
  state), text formats, JSON and HTML, widgets and drawing, scripts and CI, and
  the Python line, an older research program beside this one.

## 9. What could follow

In order of importance: the discovery and relocation of compilation databases
(`core/project/configuration.cpp`) as a bounded search; edges and references in
the merge of `ProjectAnalysis`, and with them `related_nodes` and
`function_references`; ORDER BY and LIMIT as functions with reference
definitions; the job object of the Windows branch as a second implementation of
`ProcessCall`.

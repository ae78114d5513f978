----------------------------- MODULE ScanReports -----------------------------
(***************************************************************************)
(* From the sources to the report: the user edits the project and its       *)
(* profile between scans, a scan analyses it, applies the rule policy and   *)
(* saves a snapshot, and the report compares two snapshots.  What happens   *)
(* while a scan runs is the subject of ScanSession.                         *)
(***************************************************************************)
EXTENDS ProjectAnalysis, RulePolicy, CompareScans

CONSTANTS
  Texts,        (* file -> the contents it may have, sets of findings  *)
  CommandSets,  (* sets of compile commands a unit may have            *)
  FirstEdits,   (* bound on the edits before the first scan            *)
  MaxEdits,     (* bound on all edits; none follows the last scan      *)
  MaxScans      (* bound on the scans                                  *)

VARIABLES
  scans,   (* the snapshots of the project, oldest first              *)
  phase,   (* "editing", or "scanning"                                *)
  edits    (* the number of edits so far                              *)

reportVars == <<project, part, merged, scans, phase, edits>>

Files == Range(Order) \cup {Header}
Units == Range(Order)

\* What is found in a file can be counted.
ASSUME ReportsAssumption == \A f \in Files : \A t \in Texts[f] : IsFiniteSet(t)

\* The inventory: what is there and not ignored, with its contents.
Recorded == [f \in InScope \cup {Header} |-> project.text[f]]

Unanalysed == [status |-> "not_requested", units |-> <<>>, symbol |-> {}, metric |-> {},
               issues |-> {}]

Analysed ==
  [status |-> OverallStatus(merged.units), units |-> merged.units, symbol |-> merged.symbol,
   metric |-> merged.metric, issues |-> merged.issues]

\* apply_rule_policy on the merged analysis; "of" is the project that was scanned, for
\* the properties only.
Snapshot(a) ==
  LET hidden == Suppressed(Recorded, a.issues, project.suppressions)
  IN [texts      |-> Recorded,
      order      |-> Order,
      units      |-> a.units,
      status     |-> a.status,
      symbol     |-> a.symbol,
      metric     |-> a.metric,
      issues     |-> a.issues \ hidden,
      suppressed |-> hidden,
      diagnosed  |-> Diagnostics(Recorded, a.issues, project.suppressions, project.ruleOff),
      policy     |-> project.ignored,
      analyzer   |-> project.tool,
      config     |-> "recorded",
      ruleOff    |-> project.ruleOff,
      of         |-> project]

\* What an earlier version of the program would have saved.
Early(s) ==
  [s EXCEPT !.policy = Unknown, !.analyzer = Unknown, !.config = Unknown,
            !.ruleOff = Unknown,
            !.units = [u \in DOMAIN s.units |->
                         [s.units[u] EXCEPT !.command = Unknown, !.covered = {}]]]

-----------------------------------------------------------------------------
(* Scans *)

StartScan ==
  /\ phase = "editing" /\ Len(scans) < MaxScans
  /\ project.requested
  /\ Submit
  /\ phase' = "scanning"
  /\ UNCHANGED <<scans, edits>>

Worker == \E u \in Units : Work(u) /\ UNCHANGED <<scans, phase, edits>>
Caller == phase = "scanning" /\ \E u \in Units : Take(u) /\ UNCHANGED <<scans, phase, edits>>

Save(s) ==
  /\ scans' = Append(scans, s)
  /\ phase' = "editing" /\ part' = Idle /\ merged' = NothingYet
  /\ UNCHANGED <<project, edits>>

SaveAnalysis ==
  /\ phase = "scanning" /\ Taken
  /\ \/ Save(Snapshot(Analysed))
     \/ scans = <<>> /\ Save(Early(Snapshot(Analysed)))

SaveInventory ==
  /\ phase = "editing" /\ Len(scans) < MaxScans
  /\ ~project.requested
  /\ Save(Snapshot(Unanalysed))

-----------------------------------------------------------------------------
(* Edits *)

Edit(p) ==
  /\ phase = "editing" /\ Len(scans) < MaxScans
  /\ edits < IF scans = <<>> THEN FirstEdits ELSE MaxEdits
  /\ p # project
  /\ project' = p
  /\ edits' = edits + 1
  /\ UNCHANGED <<part, merged, scans, phase>>

Toggle(S, x) == IF x \in S THEN S \ {x} ELSE S \cup {x}

EditText(f)    == \E t \in Texts[f] : Edit([project EXCEPT !.text[f] = t])
BreakUnit(u)   == Edit([project EXCEPT !.broken = Toggle(@, u)])
EditInclude(u) == Edit([project EXCEPT !.including = Toggle(@, u)])
MoveUnit(u)    == Edit([project EXCEPT !.present = Toggle(@, u)])
Ignore(u)      == Edit([project EXCEPT !.ignored = Toggle(@, u)])
Rebuild(u)     == \E C \in CommandSets : Edit([project EXCEPT !.commands[u] = C])
Choose(u)      == \E c \in project.commands[u] \cup {NoChoice} : Edit([project EXCEPT !.choice[u] = c])
SwitchRule     == Edit([project EXCEPT !.ruleOff = ~@])
SwitchOff      == Edit([project EXCEPT !.requested = ~@])
UpgradeTool    == Edit([project EXCEPT !.tool = "newer"])

\* suppress_issue on an active issue of the last snapshot.
Suppress ==
  /\ scans # <<>>
  /\ \E i \in Last(scans).issues :
       Edit([project EXCEPT !.suppressions =
               WithSuppression(@, Suppression(Last(scans), i))])

User ==
  \/ \E f \in Files : EditText(f)
  \/ \E u \in Units : BreakUnit(u) \/ EditInclude(u) \/ MoveUnit(u) \/ Ignore(u)
                      \/ Rebuild(u) \/ Choose(u)
  \/ SwitchRule \/ SwitchOff \/ UpgradeTool \/ Suppress

-----------------------------------------------------------------------------
ReportInit ==
  /\ \E t \in [Files -> UNION {Texts[f] : f \in Files}], C \in CommandSets :
       /\ \A f \in Files : t[f] \in Texts[f]
       /\ Cardinality(C) = 1 /\ Unsafe \notin C
       /\ project = [present |-> Units, ignored |-> {}, text |-> t, including |-> Units,
                     broken |-> {}, commands |-> [u \in Units |-> C],
                     choice |-> [u \in Units |-> NoChoice], ruleOff |-> FALSE,
                     requested |-> TRUE, tool |-> "older", suppressions |-> {}]
  /\ part = Idle /\ merged = NothingYet
  /\ scans = <<>> /\ phase = "editing" /\ edits = 0

ReportNext == StartScan \/ Worker \/ Caller \/ SaveAnalysis \/ SaveInventory \/ User

ReportSpec == ReportInit /\ [][ReportNext]_reportVars

-----------------------------------------------------------------------------
(* Properties *)

ReadBy(p, u, f) == f = u \/ (f = Header /\ u \in p.including)

Parsed(s) == {u \in DOMAIN s.units : s.units[u].status = "success"}

Readers(s, f) == {u \in Parsed(s) : ReadBy(s.of, u, f)}

Size(s, u) == Cardinality(s.of.text[u])

MostComplex(s) == {u \in Parsed(s) : \A v \in Parsed(s) : Size(s, v) <= Size(s, u)}

First(S) == {u \in S : \A v \in S : Place(u) <= Place(v)}

\* readers: file -> the units that were parsed and read it.
FirstFindings(p, readers) ==
  IF p.ruleOff THEN {}
  ELSE UNION {{Finding(f, x, u) : x \in p.text[f], u \in First(readers[f])} : f \in Files}

\* Of every finding the copy of the first unit that was parsed, of the symbol the first
\* definition, of the metrics the first of the most complex.
FirstInOrder(s) ==
  /\ Items(s) = FirstFindings(s.of, [f \in Files |-> Readers(s, f)])
  /\ s.symbol = {[defined |-> TRUE, file |-> u] : u \in First(Parsed(s))}
  /\ s.metric = {[complexity |-> Size(s, u), from |-> u] : u \in First(MostComplex(s))}

\* "Deterministic merge in inventory order" (clang_analysis.cpp:530).  The snapshot is
\* a function of the project, in whatever order the units finish.
AnalysisIsScheduleFree ==
  \A n \in DOMAIN scans : scans[n].status # "not_requested" => FirstInOrder(scans[n])

\* The finding is no longer in the text, unless the unit that gave a header's local
\* symbol its name is another one.
GoneFrom(s, i) ==
  \/ [line |-> i.line, evidence |-> i.evidence] \notin s.of.text[i.file]
  \/ /\ i.symbol.tu # NoUnit /\ Readers(s, i.file) # {}
     /\ i.symbol.tu \notin First(Readers(s, i.file))

\* docs/reports-and-comparison.md: "not_detected" is a candidate for a fix.  An issue is
\* one only if its expression is gone from its place in the sources (the exception is
\* that of docs/references-and-metrics.md): a rule or an analysis switched off, an
\* ignored or unparsed file, another command or another tool never looks like a fix.
FixCandidatesAreGone ==
  \A m, n \in DOMAIN scans : m < n =>
    \A c \in Compare(scans[m], scans[n]) :
      c.status = "not_detected" => \A i \in c.from : GoneFrom(scans[n], i)

\* Every observation of both snapshots is in exactly one change, and what has not moved
\* is paired with itself, however many like it come, go or move around it.
EveryObservationHasItsChange ==
  \A m, n \in DOMAIN scans : m < n => ObservedOnce(scans[m], scans[n])

\* In an earlier snapshot, whose text of the file is the same, is an issue of that place;
\* and what hides nothing has a diagnostic.
HidesWhatWasSeen(n) ==
  LET s == scans[n]
  IN /\ \A i \in s.suppressed : \E m \in 1..(n - 1) :
          /\ scans[m].of.text[i.file] = s.of.text[i.file]
          /\ \E j \in Items(scans[m]) : j.file = i.file /\ j.line = i.line
     /\ \A x \in s.of.suppressions :
          \/ \E i \in s.suppressed : SamePlace(x, i)
          \/ \E d \in s.diagnosed : d.of = x

\* docs/rule-engine.md: a suppression hides what the user saw in that text and nothing
\* in any other text, and one that hides nothing is never dropped without a word.
SuppressionsStayWithTheirText == \A n \in DOMAIN scans : HidesWhatWasSeen(n)
=============================================================================

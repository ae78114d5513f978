--------------------------- MODULE ProjectAnalysis ---------------------------
(***************************************************************************)
(* One Clang analysis of a project (analyze_project in                      *)
(* core/parser/clang_analysis.cpp).  Every translation unit is analysed by  *)
(* some worker of the pool at some time; the caller takes the results in    *)
(* the order of the inventory and merges them.  The cache is left out: what *)
(* it gives back is what an analysis would (TuCache).                       *)
(***************************************************************************)
EXTENDS Naturals, Sequences, FiniteSets, SequencesExt

CONSTANTS
  Order,     (* the translation units, in the order of the inventory *)
  Header,    (* a header that they may include                      *)
  Unsafe,    (* a compile command with a side effect                *)
  NoChoice,  (* no compile command was selected for the unit        *)
  NoUnit     (* no translation unit                                 *)

\* Paths are different, and the marks are not paths.
ASSUME AnalysisAssumption ==
  /\ Order \in Seq(Range(Order)) /\ IsInjective(Order)
  /\ {Header, NoUnit} \cap Range(Order) = {}

VARIABLES
  project,   (* the sources, the compilation database and the profile   *)
  part,      (* unit -> what its worker found, once it is done          *)
  merged     (* the results taken so far                                *)

analysisVars == <<project, part, merged>>

\* A file is analysed when it is there and its directory is not ignored.
InScope == Range(Order) \cap (project.present \ project.ignored)

-----------------------------------------------------------------------------
(* What one worker does *)

\* The one command, or the selected one.
Selected(u) ==
  {c \in project.commands[u] :
     IF project.choice[u] = NoChoice THEN Cardinality(project.commands[u]) = 1
                                     ELSE c = project.choice[u]}

Status(u) ==
  IF project.commands[u] = {} THEN "missing_command"
  ELSE IF Selected(u) = {} THEN "ambiguous_command"
  ELSE IF Unsafe \in Selected(u) THEN "rejected_command"
  ELSE IF u \in project.broken THEN "parse_failed" ELSE "success"

Covered(u) == {u} \cup {h \in {Header} : u \in project.including}

\* The symbol of an issue: a header's is local to the unit that includes it.
SymbolIn(u, f) == [name |-> f, tu |-> IF f = Header THEN u ELSE NoUnit]

\* Every unit has a definition of the one symbol, the header its declaration.
Sightings(u) == {[defined |-> f # Header, file |-> f] : f \in Covered(u)}

Place(f) == IF f = Header THEN Len(Order) + 1 ELSE CHOOSE n \in DOMAIN Order : Order[n] = f

\* Which of two sightings of a symbol is kept.
Better(s, t) ==
  \/ s.defined /\ ~t.defined
  \/ s.defined = t.defined /\ Place(s.file) < Place(t.file)

BestOf(S) == {s \in S : ~\E t \in S : Better(t, s)}

Finding(f, x, u) ==
  [file |-> f, line |-> x.line, evidence |-> x.evidence, symbol |-> SymbolIn(u, f)]

Findings(u) == UNION {{Finding(f, x, u) : x \in project.text[f]} : f \in Covered(u)}

\* What a unit that could not be parsed has is thrown away.
UnitResult(u) ==
  LET good == Status(u) = "success"
  IN [unit    |-> [status  |-> Status(u),
                   command |-> IF Selected(u) = {} THEN "none" ELSE CHOOSE c \in Selected(u) : TRUE,
                   covered |-> IF good THEN Covered(u) ELSE {}],
      symbol  |-> IF good THEN BestOf(Sightings(u)) ELSE {},
      metric  |-> IF good THEN {[complexity |-> Cardinality(project.text[u]), from |-> u]} ELSE {},
      issues  |-> IF good /\ ~project.ruleOff THEN Findings(u) ELSE {}]

-----------------------------------------------------------------------------
(* The merge *)

\* The same finding in another unit's copy of a local symbol.
Identity(i) == <<i.file, i.line, i.evidence, i.symbol.name>>

NothingYet == [units |-> <<>>, symbol |-> {}, metric |-> {}, issues |-> {}]

MetricOf(old, new) ==
  IF old = {} \/ \E m \in new : \A o \in old : m.complexity > o.complexity THEN new ELSE old

Merge(m, u, p) ==
  [units  |-> [v \in DOMAIN m.units \cup {u} |-> IF v = u THEN p.unit ELSE m.units[v]],
   symbol |-> BestOf(m.symbol \cup p.symbol),
   metric |-> MetricOf(m.metric, p.metric),
   issues |-> m.issues \cup
                {i \in p.issues : \A j \in m.issues : Identity(j) # Identity(i)}]

Idle == [u \in {} |-> 0]

\* A selection that is not in the database any more stops the analysis.
StaleChoice ==
  \E u \in Range(Order) :
    project.choice[u] # NoChoice /\ project.choice[u] \notin project.commands[u]

Submit ==
  /\ ~StaleChoice
  /\ part' = [u \in InScope |-> {}]
  /\ merged' = NothingYet
  /\ UNCHANGED project

Work(u) ==
  /\ u \in DOMAIN part /\ part[u] = {}
  /\ part' = [part EXCEPT ![u] = {UnitResult(u)}]
  /\ UNCHANGED <<project, merged>>

NotTaken == InScope \ DOMAIN merged.units

\* Mutant: results are taken as they come.
Turn_Any(u) == u \in NotTaken

\* Whose future the caller waits for.
Turn(u) == u \in NotTaken /\ \A v \in NotTaken : Place(u) <= Place(v)

Take(u) ==
  /\ u \in DOMAIN part /\ part[u] # {} /\ Turn(u)
  /\ \E p \in part[u] : merged' = Merge(merged, u, p)
  /\ UNCHANGED <<project, part>>

Taken == DOMAIN merged.units = DOMAIN part

OverallStatus(units) ==
  LET good == {u \in DOMAIN units : units[u].status = "success"}
  IN IF good = {} THEN "failed" ELSE IF good = DOMAIN units THEN "complete" ELSE "partial"
=============================================================================

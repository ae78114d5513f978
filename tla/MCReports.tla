------------------------------ MODULE MCReports ------------------------------
(* Instances of ScanReports, RelationGraph and QueryPredicate for TLC. *)
EXTENDS ScanReports, RelationGraph, QueryPredicate

CONSTANTS a, b, h, c, d

TwoUnits == <<a, b>>

Site(n, e) == [line |-> n, evidence |-> e]

\* The same expression once or twice in the header, in one place or the other; in the
\* first unit an expression that has only a placeholder for evidence.
SmallTexts ==
  (h :> {{Site(1, "call")}, {Site(2, "call")}, {Site(1, "call"), Site(3, "call")}, {}}) @@
  (a :> {{Site(1, "placeholder")}, {Site(2, "placeholder")}}) @@
  (b :> {{}})

SmallCommands == {{c}, {d}, {c, d}, {Unsafe}, {}}

\* The two harmless commands are alike.
CommandSymmetry == Permutations({c, d})

-----------------------------------------------------------------------------
(* The three have nothing to do with each other: a behaviour is about one of them, and
   the others' variables keep a value of their Init. *)

VARIABLE topic

about == <<topic, reportVars, graphVars, queryVars>>

About(t)     == topic = t /\ topic' = t
NoReports    == project = {} /\ part = Idle /\ merged = NothingYet /\ scans = <<>>
                /\ phase = "editing" /\ edits = 0
NoGraph      == edges = {} /\ walk = StartWalk
NoQuery      == tokens = <<>> /\ parse = StartParse

Init ==
  \/ topic = "reports" /\ ReportInit /\ NoGraph /\ NoQuery
  \/ topic = "graphs" /\ GraphInit /\ NoReports /\ NoQuery
  \/ topic = "queries" /\ QueryInit /\ NoReports /\ NoGraph

Next ==
  \/ About("reports") /\ ReportNext /\ UNCHANGED <<graphVars, queryVars>>
  \/ About("graphs") /\ GraphNext /\ UNCHANGED <<reportVars, queryVars>>
  \/ About("queries") /\ QueryNext /\ UNCHANGED <<reportVars, graphVars>>

Spec == Init /\ [][Next]_about
=============================================================================

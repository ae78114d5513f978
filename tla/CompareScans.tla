---------------------------- MODULE CompareScans ----------------------------
(***************************************************************************)
(* The comparison of two snapshots of a project (core/report/               *)
(* comparison.cpp): which observations of the older one are in the newer    *)
(* one, and what can be said of those that are not.  An analysis keeps one  *)
(* issue per place and symbol, so an observation is its issue.              *)
(***************************************************************************)
EXTENDS Naturals, Sequences, FiniteSets, SequencesExt

CONSTANT Unknown   (* what a snapshot of an earlier version does not record *)

Items(scan) == scan.issues \cup scan.suppressed

Key(i) == [file |-> i.file, symbol |-> i.symbol, evidence |-> i.evidence]

Group(items, i) == {j \in items : Key(j) = Key(i)}

\* Mutant: however many there were.
Partner_Shared(before, after, i) ==
  IF i \in Items(after) THEN {i}
  ELSE IF Cardinality(Group(Items(after), i)) = 1 /\ i.evidence # "placeholder"
       THEN Group(Items(after), i) ELSE {}

\* The same place; or, where only one such expression was and is, wherever it moved.
\* Evidence that is a placeholder says nothing of the expression.
Partner(before, after, i) ==
  IF i \in Items(after) THEN {i}
  ELSE IF /\ Group(Items(before), i) = {i} /\ Cardinality(Group(Items(after), i)) = 1
          /\ i.evidence # "placeholder"
       THEN Group(Items(after), i) ELSE {}

\* The units that read the file when the issue was found, as positions of the inventory.
Contributors(before, i) ==
  {n \in DOMAIN before.order : /\ before.order[n] \in DOMAIN before.units
                               /\ i.file \in before.units[before.order[n]].covered}

Lost(status) == IF status = "parse_failed" THEN "parse_failed" ELSE "coverage_lost"

\* Mutant: only the unit of the file itself is asked.
UnitDoubt_Direct(before, after, i, u) == ""

\* What is different about a contributor now, if anything.
UnitDoubt(before, after, i, u) ==
  IF u \notin DOMAIN after.units THEN "coverage_lost"
  ELSE LET was == before.units[u]
           now == after.units[u]
       IN IF now.status # "success" THEN Lost(now.status)
          ELSE IF Unknown \in {was.command, now.command} THEN "provenance_unknown"
          ELSE IF was.command # now.command THEN "configuration_changed"
          ELSE IF i.file \notin now.covered THEN "coverage_lost" ELSE ""

\* An issue that is not there any more is a candidate for a fix only when all that
\* is recorded about its detection is as it was.
Absent(before, after, i) ==
  LET policies  == {before.policy, after.policy}
      analyzers == {before.analyzer, after.analyzer}
      Doubt(n)  == UnitDoubt(before, after, i, before.order[n])
      doubtful  == {n \in Contributors(before, i) : Doubt(n) # ""}
  IN IF i.file \notin DOMAIN after.texts
     THEN IF Unknown \in policies THEN "inventory_unknown"
          ELSE IF Cardinality(policies) > 1 THEN "inventory_scope_changed" ELSE "file_removed"
     ELSE IF after.status = "not_requested" THEN "analysis_disabled"
     ELSE IF after.ruleOff = TRUE THEN "rule_disabled"
     ELSE IF i.file \in DOMAIN after.units /\ after.units[i.file].status # "success"
          THEN Lost(after.units[i.file].status)
     ELSE IF Unknown \in {before.config, after.config} THEN "configuration_unknown"
     ELSE IF Unknown \in analyzers THEN "provenance_unknown"
     ELSE IF Cardinality(analyzers) > 1 THEN "analyzer_changed"
     ELSE IF doubtful # {} THEN Doubt(Min(doubtful))
     ELSE IF Contributors(before, i) = {} THEN "coverage_unknown" ELSE "not_detected"

Persisting(before, after, i, j) ==
  LET was == i \in before.suppressed
      now == j \in after.suppressed
  IN IF ~was /\ now THEN "suppressed" ELSE IF was /\ ~now THEN "reactivated"
     ELSE IF now THEN "persistent_suppressed" ELSE "persistent"

\* compare_scans; "from" and "to" are sets of at most one issue.
Compare(before, after) ==
  LET old  == Items(before)
      used == UNION {Partner(before, after, i) : i \in old}
  IN {[from |-> {i}, to |-> Partner(before, after, i),
       status |-> IF Partner(before, after, i) = {} THEN Absent(before, after, i)
                  ELSE Persisting(before, after, i, CHOOSE j \in Partner(before, after, i) : TRUE)] :
        i \in old}
     \cup {[from |-> {}, to |-> {j},
            status |-> IF j \in after.suppressed THEN "new_suppressed" ELSE "added"] :
             j \in Items(after) \ used}

-----------------------------------------------------------------------------
(* Properties *)

\* Every observation of both snapshots is in exactly one change, a change has the two of
\* one key, and what has not moved is paired with itself.
ObservedOnce(before, after) ==
  LET old     == Items(before)
      now     == Items(after)
      changes == Compare(before, after)
  IN /\ \A i \in old : Cardinality({c \in changes : i \in c.from}) = 1
     /\ \A j \in now : Cardinality({c \in changes : j \in c.to}) = 1
     /\ \A i \in old \cap now : \E c \in changes : c.from = {i} /\ c.to = {i}
     /\ \A c \in changes : \A i \in c.from, j \in c.to : Key(i) = Key(j)
=============================================================================

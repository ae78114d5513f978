---------------------------- MODULE ReportsProofs ----------------------------
(***************************************************************************)
(* What is true of the snapshots and their comparison for any number of     *)
(* units, whatever their contents, commands and edits; of the summary of a  *)
(* relation graph, whatever its nodes and edges; and of the predicate of a  *)
(* query, whatever is typed and whatever the limits are.                    *)
(***************************************************************************)
EXTENDS ScanReports, RelationGraph, QueryPredicate, SequenceTheorems, FiniteSetTheorems, TLAPS

(***************************************************************************)
(* The comparison of any two snapshots, whatever their issues are.          *)
(***************************************************************************)

\* The change of an older observation, and of one that is new.
Kept(before, after, i) ==
  [from |-> {i}, to |-> Partner(before, after, i),
   status |-> IF Partner(before, after, i) = {} THEN Absent(before, after, i)
              ELSE Persisting(before, after, i, CHOOSE j \in Partner(before, after, i) : TRUE)]

Added(after, j) ==
  [from |-> {}, to |-> {j},
   status |-> IF j \in after.suppressed THEN "new_suppressed" ELSE "added"]

Used(before, after) == UNION {Partner(before, after, i) : i \in Items(before)}

LEMMA CompareShape ==
  ASSUME NEW before, NEW after
  PROVE  Compare(before, after) =
           {Kept(before, after, i) : i \in Items(before)}
             \cup {Added(after, j) : j \in Items(after) \ Used(before, after)}
  BY DEF Compare, Kept, Added, Used

LEMMA KeptFields ==
  ASSUME NEW before, NEW after, NEW i
  PROVE  /\ Kept(before, after, i).from = {i}
         /\ Kept(before, after, i).to = Partner(before, after, i)
  BY DEF Kept

LEMMA AddedFields ==
  ASSUME NEW after, NEW j
  PROVE  Added(after, j).from = {} /\ Added(after, j).to = {j}
  BY DEF Added

\* A partner is an observation of the newer snapshot with the same key.
LEMMA PartnerIsAlike ==
  ASSUME NEW before, NEW after, NEW i
  PROVE  /\ i \in Items(after) => Partner(before, after, i) = {i}
         /\ \A j \in Partner(before, after, i) : j \in Items(after) /\ Key(j) = Key(i)
  BY DEF Partner, Group

\* Nothing is the partner of two.
LEMMA PartnersDiffer ==
  ASSUME NEW before, NEW after, NEW i \in Items(before), NEW k \in Items(before),
         NEW j \in Partner(before, after, i), j \in Partner(before, after, k)
  PROVE  i = k
<1>1. Key(j) = Key(i) /\ Key(j) = Key(k)  BY PartnerIsAlike
<1>2. k \in Group(Items(before), i) /\ i \in Group(Items(before), k)
  BY <1>1 DEF Group
<1>3. CASE i \notin Items(after)
  <2>1. Group(Items(before), i) = {i}  BY <1>3 DEF Partner
  <2> QED  BY <1>2, <2>1
<1>4. CASE k \notin Items(after)
  <2>1. Group(Items(before), k) = {k}  BY <1>4 DEF Partner
  <2> QED  BY <1>2, <2>1
<1>5. CASE i \in Items(after) /\ k \in Items(after)
  BY <1>5, PartnerIsAlike
<1> QED  BY <1>3, <1>4, <1>5

\* However many observations are alike, and however they moved, every one of both
\* snapshots is in one change (core/report/comparison.cpp, compare_scans).
THEOREM ComparisonIsComplete ==
  ASSUME NEW before, NEW after
  PROVE  ObservedOnce(before, after)
<1> DEFINE changes == Compare(before, after)
           P(i)    == Partner(before, after, i)
<1>1. \A c \in changes : \/ \E i \in Items(before) : c = Kept(before, after, i)
                         \/ \E j \in Items(after) \ Used(before, after) : c = Added(after, j)
  BY CompareShape
<1>2. \A i \in Items(before) : Kept(before, after, i) \in changes
  BY CompareShape
<1>3. \A j \in Items(after) \ Used(before, after) : Added(after, j) \in changes
  BY CompareShape
<1> HIDE DEF changes
<1>4. ASSUME NEW i \in Items(before)
      PROVE  Cardinality({c \in changes : i \in c.from}) = 1
  <2>1. {c \in changes : i \in c.from} = {Kept(before, after, i)}
    BY <1>1, <1>2, KeptFields, AddedFields
  <2> QED  BY <2>1, FS_Singleton
<1>5. ASSUME NEW j \in Items(after)
      PROVE  Cardinality({c \in changes : j \in c.to}) = 1
  <2>1. CASE j \in Used(before, after)
    <3>1. PICK i \in Items(before) : j \in P(i)  BY <2>1 DEF Used
    <3>2. ASSUME NEW c \in changes, j \in c.to
          PROVE  c = Kept(before, after, i)
      <4>1. CASE \E k \in Items(before) : c = Kept(before, after, k)
        <5>1. PICK k \in Items(before) : c = Kept(before, after, k)  BY <4>1
        <5>2. j \in P(k)  BY <3>2, <5>1, KeptFields
        <5>3. k = i  BY <3>1, <5>2, PartnersDiffer
        <5> QED  BY <5>1, <5>3
      <4>2. CASE \E k \in Items(after) \ Used(before, after) : c = Added(after, k)
        BY <2>1, <3>2, <4>2, KeptFields, AddedFields
      <4> QED  BY <1>1, <4>1, <4>2
    <3>3. j \in Kept(before, after, i).to  BY <3>1, KeptFields
    <3>4. {c \in changes : j \in c.to} = {Kept(before, after, i)}
      BY <1>2, <3>2, <3>3
    <3> QED  BY <3>4, FS_Singleton
  <2>2. CASE j \notin Used(before, after)
    <3>1. ASSUME NEW c \in changes, j \in c.to
          PROVE  c = Added(after, j)
      <4>1. CASE \E k \in Items(before) : c = Kept(before, after, k)
        BY <2>2, <3>1, <4>1, KeptFields, AddedFields DEF Used
      <4>2. CASE \E k \in Items(after) \ Used(before, after) : c = Added(after, k)
        BY <3>1, <4>2, KeptFields, AddedFields
      <4> QED  BY <1>1, <4>1, <4>2
    <3>2. j \in Added(after, j).to  BY AddedFields
    <3>3. {c \in changes : j \in c.to} = {Added(after, j)}
      BY <1>3, <2>2, <3>1, <3>2
    <3> QED  BY <3>3, FS_Singleton
  <2> QED  BY <2>1, <2>2
<1>6. ASSUME NEW i \in Items(before) \cap Items(after)
      PROVE  \E c \in changes : c.from = {i} /\ c.to = {i}
  <2>1. Kept(before, after, i).from = {i} /\ Kept(before, after, i).to = {i}
    BY KeptFields, PartnerIsAlike
  <2> QED  BY <1>2, <2>1
<1>7. ASSUME NEW c \in changes, NEW i \in c.from, NEW j \in c.to
      PROVE  Key(i) = Key(j)
  <2>1. CASE \E k \in Items(before) : c = Kept(before, after, k)
    <3>1. PICK k \in Items(before) : c = Kept(before, after, k)  BY <2>1
    <3>2. i = k /\ j \in P(k)  BY <3>1, KeptFields
    <3> QED  BY <3>2, PartnerIsAlike
  <2>2. CASE \E k \in Items(after) \ Used(before, after) : c = Added(after, k)
    BY <2>2, AddedFields
  <2> QED  BY <1>1, <2>1, <2>2
<1> QED
  BY <1>4, <1>5, <1>6, <1>7 DEF ObservedOnce, changes

\* What is reported as not detected has no partner, and a unit that still reads its file
\* is parsed as before: every other reason comes first.
LEMMA DoubtIsNoVerdict ==
  ASSUME NEW before, NEW after, NEW i, NEW u
  PROVE  UnitDoubt(before, after, i, u) # "not_detected"
  BY DEF UnitDoubt, Lost

LEMMA NoDoubt ==
  ASSUME NEW before, NEW after, NEW i, NEW u, UnitDoubt(before, after, i, u) = ""
  PROVE  /\ u \in DOMAIN after.units /\ after.units[u].status = "success"
         /\ i.file \in after.units[u].covered
  BY DEF UnitDoubt, Lost

LEMMA NotDetected ==
  ASSUME NEW before, NEW after, NEW i, Absent(before, after, i) = "not_detected"
  PROVE  /\ after.status # "not_requested" /\ after.ruleOff # TRUE
         /\ \E u \in DOMAIN after.units : /\ after.units[u].status = "success"
                                          /\ i.file \in after.units[u].covered
<1> DEFINE Doubt(n) == UnitDoubt(before, after, i, before.order[n])
           doubtful == {n \in Contributors(before, i) : Doubt(n) # ""}
<1>1. \A n : Doubt(n) # "not_detected"  BY DoubtIsNoVerdict
<1>2. after.status # "not_requested" /\ after.ruleOff # TRUE
  BY DEF Absent, Lost
<1>3. doubtful = {} /\ Contributors(before, i) # {}
  <2> HIDE DEF Doubt
  <2>1. Doubt(Min(doubtful)) # "not_detected"  BY <1>1
  <2> QED  BY <2>1 DEF Absent, Lost, Doubt
<1>4. PICK n \in Contributors(before, i) : Doubt(n) = ""  BY <1>3
<1> QED  BY <1>2, <1>4, NoDoubt

LEMMA CandidateHasNoPartner ==
  ASSUME NEW before, NEW after, NEW c \in Compare(before, after), c.status = "not_detected"
  PROVE  \E i \in Items(before) : /\ c.from = {i} /\ i \notin Items(after)
                                  /\ Absent(before, after, i) = "not_detected"
<1>1. ASSUME NEW j \in Items(after)
      PROVE  Added(after, j).status # "not_detected"
  BY DEF Added
<1>2. PICK i \in Items(before) : c = Kept(before, after, i)
  BY <1>1, CompareShape
<1>3. \A j : Persisting(before, after, i, j) # "not_detected"  BY DEF Persisting
<1>4. Partner(before, after, i) = {} /\ Absent(before, after, i) = "not_detected"
  BY <1>2, <1>3 DEF Kept
<1>5. i \notin Items(after)  BY <1>4, PartnerIsAlike
<1> QED  BY <1>2, <1>4, <1>5, KeptFields

(***************************************************************************)
(* The inductive invariant.                                                 *)
(***************************************************************************)

ProjectInv ==
  /\ {"text", "ruleOff", "suppressions"} \subseteq DOMAIN project
  /\ project.ruleOff \in BOOLEAN
  /\ DOMAIN project.text = Files
  /\ \A f \in Files : IsFiniteSet(project.text[f])

\* Of the units of T, those that are parsed, and those of them that read the file.
Good(T)         == {u \in T : Status(u) = "success"}
ReadersIn(T, f) == {u \in Good(T) : f \in Covered(u)}

Complexity(u) == Cardinality(project.text[u])
Largest(T)    == {u \in Good(T) : \A v \in Good(T) : Complexity(v) <= Complexity(u)}

IssuesOf(T) == FirstFindings(project, [f \in Files |-> ReadersIn(T, f)])

\* What has been merged when T has been taken, in whatever order T was analysed.
MergedFrom(m, T) ==
  /\ m = [units |-> m.units, symbol |-> m.symbol, metric |-> m.metric, issues |-> m.issues]
  /\ DOMAIN m.units = T /\ \A u \in T : m.units[u] = UnitResult(u).unit
  /\ m.symbol = {[defined |-> TRUE, file |-> u] : u \in First(Good(T))}
  /\ m.metric = {[complexity |-> Complexity(u), from |-> u] : u \in First(Largest(T))}
  /\ m.issues = IssuesOf(T)

\* Every set of them has a first, and if some are parsed one of them is the largest.
Ordered(T)   == T \subseteq Units /\ \A S \in SUBSET T : S # {} => First(S) # {}
HasLargest(T) == Good(T) # {} => Largest(T) # {}

AllBefore(T) == \A v \in T, w \in InScope \ T : Place(v) < Place(w)

MergeInv(T) ==
  /\ T \subseteq InScope /\ AllBefore(T) /\ Ordered(T) /\ HasLargest(T)
  /\ MergedFrom(merged, T)

PartInv ==
  /\ phase \in {"editing", "scanning"}
  /\ phase = "editing" => DOMAIN part = {}
  /\ phase = "scanning" => /\ DOMAIN part = InScope
                           /\ \A u \in InScope : part[u] \subseteq {UnitResult(u)}
                           /\ MergeInv(DOMAIN merged.units)

\* One snapshot.
ScanInv(s) ==
  /\ \A f \in DOMAIN s.texts : s.texts[f] = s.of.text[f]
  /\ \A i \in Items(s) : i.file \in DOMAIN s.texts
  /\ s.of.ruleOff \in BOOLEAN
  /\ Ordered(DOMAIN s.units)
  /\ \A u \in DOMAIN s.units : \A f \in s.units[u].covered : ReadBy(s.of, u, f)
  /\ s.status = "not_requested" => Items(s) = {}
  /\ s.status # "not_requested" => FirstInOrder(s)

\* Only the first may be of an earlier version.
HistoryInv ==
  /\ scans \in Seq(Range(scans))
  /\ \A n \in DOMAIN scans : /\ ScanInv(scans[n]) /\ HidesWhatWasSeen(n)
                             /\ n # 1 => scans[n].ruleOff = scans[n].of.ruleOff

\* A suppression was granted for what the user saw in a snapshot.
GrantInv ==
  \A x \in project.suppressions : \E m \in DOMAIN scans :
    /\ scans[m].of.text[x.file] = x.hash
    /\ \E j \in Items(scans[m]) : j.file = x.file /\ j.line = x.line

ReportInv == ProjectInv /\ PartInv /\ HistoryInv /\ GrantInv

-----------------------------------------------------------------------------
(* Places *)

LEMMA PlaceFacts ==
  /\ \A u \in Units : Place(u) \in Nat
  /\ \A u, v \in Units : Place(u) = Place(v) => u = v
<1>1. Len(Order) \in Nat /\ DOMAIN Order = 1..Len(Order)
  BY AnalysisAssumption, LenProperties
<1>2. ASSUME NEW u \in Units
      PROVE  Place(u) \in DOMAIN Order /\ Order[Place(u)] = u
  <2>1. \E n \in DOMAIN Order : Order[n] = u  BY DEF Units, Range
  <2>2. u # Header  BY AnalysisAssumption DEF Units
  <2> QED  BY <2>1, <2>2 DEF Place
<1> QED
  BY <1>1, <1>2

\* The first unit is one, and the first of fewer if it is among them.
LEMMA FirstFacts ==
  ASSUME NEW S \in SUBSET Units, NEW u \in First(S)
  PROVE  /\ u \in S
         /\ \A v \in First(S) : v = u
         /\ \A R \in SUBSET S : u \in R => u \in First(R)
<1>1. ASSUME NEW v \in First(S)
      PROVE  v = u
  <2>1. Place(u) <= Place(v) /\ Place(v) <= Place(u) /\ u \in Units /\ v \in Units
    BY DEF First
  <2> QED  BY <2>1, PlaceFacts
<1> QED  BY <1>1 DEF First

\* One more unit, behind all of them.
LEMMA FirstStays ==
  ASSUME NEW T \in SUBSET Units, Ordered(T), NEW u \in Units \ T,
         \A v \in T : Place(v) < Place(u),
         NEW S, S \subseteq T \cup {u}, S \cap T # {}
  PROVE  First(S) = First(S \cap T) /\ First(S) # {}
<1>1. PICK w \in First(S \cap T) : TRUE  BY DEF Ordered
<1>2. w \in S /\ w \in T /\ \A v \in S \cap T : Place(w) <= Place(v)  BY <1>1 DEF First
<1>3. Place(w) < Place(u) /\ Place(w) \in Nat /\ Place(u) \in Nat  BY <1>2, PlaceFacts
<1>4. \A v \in S : Place(w) <= Place(v)  BY <1>2, <1>3
<1>5. u \notin First(S)
  <2>1. ~(Place(u) <= Place(w))  BY <1>3
  <2> QED  BY <1>2, <2>1 DEF First
<1>6. \A v \in First(S) : v \in First(S \cap T)  BY <1>5 DEF First
<1>7. ASSUME NEW v \in First(S \cap T)
      PROVE  v \in First(S)
  <2>1. v = w  BY <1>1, FirstFacts
  <2> QED  BY <1>2, <1>4, <2>1 DEF First
<1> QED  BY <1>1, <1>6, <1>7

LEMMA FirstOfOne ==
  ASSUME NEW u \in Units
  PROVE  First({u}) = {u}
<1>1. Place(u) <= Place(u)  BY PlaceFacts
<1> QED  BY <1>1 DEF First

LEMMA FirstIsNew ==
  ASSUME NEW T, NEW u \in Units,
         NEW S, S \subseteq T \cup {u}, S \cap T = {}, u \in S
  PROVE  First(S) = {u}
<1>1. S = {u}  OBVIOUS
<1> QED  BY <1>1, FirstOfOne

LEMMA OrderedMore ==
  ASSUME NEW T \in SUBSET Units, Ordered(T), NEW u \in Units \ T,
         \A v \in T : Place(v) < Place(u)
  PROVE  Ordered(T \cup {u})
<1> SUFFICES ASSUME NEW S \in SUBSET (T \cup {u}), S # {}
             PROVE  First(S) # {}
  BY DEF Ordered
<1>1. CASE S \cap T # {}
  BY <1>1, FirstStays
<1>2. CASE S \cap T = {}
  <2>1. u \in S /\ S \subseteq T \cup {u}  BY <1>2
  <2>2. First(S) = {u}  BY <1>2, <2>1, FirstIsNew
  <2> QED  BY <2>2
<1> QED  BY <1>1, <1>2

-----------------------------------------------------------------------------
(* One more unit is merged *)

LEMMA ScopeFacts ==
  /\ InScope \subseteq Units
  /\ \A u : u \in Covered(u)
  /\ \A u, f : f \in Covered(u) <=> ReadBy(project, u, f)
  /\ \A u, f, x : Finding(f, x, u).file = f
  BY DEF InScope, Units, Covered, ReadBy, Finding

LEMMA CoveredFiles ==
  ASSUME NEW u \in Units, NEW f \in Covered(u)
  PROVE  f \in Files
  BY DEF Covered, Files, Units

\* Two findings of one file are the same to the merge when the text is.
LEMMA SameIdentity ==
  ASSUME NEW f, NEW x, NEW u, NEW v
  PROVE  Identity(Finding(f, x, u)) = Identity(Finding(f, x, v))
  BY DEF Identity, Finding, SymbolIn

LEMMA OtherIdentity ==
  ASSUME NEW f, NEW x, NEW u, NEW g, NEW y, NEW v,
         Identity(Finding(f, x, u)) = Identity(Finding(g, y, v))
  PROVE  f = g
  BY DEF Identity, Finding

\* Readers and parsed units of a larger set.
LEMMA GoodOfMore ==
  ASSUME NEW T, NEW u, u \notin T
  PROVE  /\ Good(T \cup {u}) \cap T = Good(T)
         /\ u \in Good(T \cup {u}) <=> Status(u) = "success"
         /\ \A f : /\ ReadersIn(T \cup {u}, f) \cap T = ReadersIn(T, f)
                   /\ u \in ReadersIn(T \cup {u}, f) <=> Status(u) = "success" /\ f \in Covered(u)
         /\ Good(T \cup {u}) \subseteq T \cup {u}
         /\ \A f : ReadersIn(T \cup {u}, f) \subseteq T \cup {u}
  BY DEF Good, ReadersIn

\* The issues: a file that was read before gives nothing new.
LEMMA MergedIssues ==
  ASSUME NEW T \in SUBSET Units, Ordered(T), NEW u \in Units \ T,
         \A v \in T : Place(v) < Place(u),
         NEW m, m.issues = IssuesOf(T)
  PROVE  m.issues \cup {i \in UnitResult(u).issues :
                          \A j \in m.issues : Identity(j) # Identity(i)} = IssuesOf(T \cup {u})
<1> DEFINE more == {i \in UnitResult(u).issues : \A j \in m.issues : Identity(j) # Identity(i)}
           R(f) == ReadersIn(T, f)
           Q(f) == ReadersIn(T \cup {u}, f)
<1>1. UnitResult(u).issues = IF Status(u) = "success" /\ ~project.ruleOff THEN Findings(u) ELSE {}
  BY DEF UnitResult
<1>2. CASE project.ruleOff
  BY <1>1, <1>2 DEF IssuesOf, FirstFindings
<1>3. CASE ~project.ruleOff
  <2>1. \A i : i \in IssuesOf(T) <=>
          \E f \in Files : \E x \in project.text[f] : \E v \in First(R(f)) : i = Finding(f, x, v)
    BY <1>3 DEF IssuesOf, FirstFindings
  <2>2. \A i : i \in IssuesOf(T \cup {u}) <=>
          \E f \in Files : \E x \in project.text[f] : \E v \in First(Q(f)) : i = Finding(f, x, v)
    BY <1>3 DEF IssuesOf, FirstFindings
  <2>3. \A i : i \in UnitResult(u).issues <=>
          /\ Status(u) = "success"
          /\ \E f \in Covered(u) : \E x \in project.text[f] : i = Finding(f, x, u)
    BY <1>1, <1>3 DEF Findings
  <2>0. \A f : /\ Q(f) \subseteq T \cup {u} /\ Q(f) \cap T = R(f)
               /\ u \in Q(f) <=> Status(u) = "success" /\ f \in Covered(u)
    BY DEF ReadersIn, Good
  <2> HIDE DEF Q, R
  <2>4. ASSUME NEW f, R(f) # {}
        PROVE  First(Q(f)) = First(R(f)) /\ First(R(f)) # {}
    <3>1. Q(f) \subseteq T \cup {u} /\ Q(f) \cap T # {} /\ Q(f) \cap T = R(f)  BY <2>0, <2>4
    <3>2. First(Q(f)) = First(Q(f) \cap T) /\ First(Q(f)) # {}  BY <3>1, FirstStays
    <3> QED  BY <3>1, <3>2
  <2>5. ASSUME NEW f, R(f) = {}
        PROVE  First(Q(f)) = IF Status(u) = "success" /\ f \in Covered(u) THEN {u} ELSE {}
    <3>1. Q(f) \subseteq T \cup {u} /\ Q(f) \cap T = {}  BY <2>0, <2>5
    <3>2. CASE u \in Q(f)
      <4>1. First(Q(f)) = {u}  BY <3>1, <3>2, FirstIsNew
      <4> QED  BY <2>0, <3>2, <4>1
    <3>3. CASE u \notin Q(f)
      <4>1. Q(f) = {}  BY <3>1, <3>3
      <4>2. First(Q(f)) = {}  BY <4>1 DEF First
      <4> QED  BY <2>0, <3>3, <4>2
    <3> QED  BY <3>2, <3>3
  <2>6. \A f : First(R(f)) \subseteq R(f)  BY DEF First
  <2>7. ASSUME NEW i \in IssuesOf(T)
        PROVE  i \in IssuesOf(T \cup {u})
    <3>1. PICK f \in Files : \E x \in project.text[f] : \E v \in First(R(f)) : i = Finding(f, x, v)
      BY <2>1
    <3>2. First(Q(f)) = First(R(f))  BY <2>4, <2>6, <3>1
    <3> QED  BY <2>2, <3>1, <3>2
  <2>8. ASSUME NEW i \in more
        PROVE  i \in IssuesOf(T \cup {u})
    <3>1. PICK f \in Covered(u) : \E x \in project.text[f] : i = Finding(f, x, u)
      BY <2>3
    <3>2. PICK x \in project.text[f] : i = Finding(f, x, u)  BY <3>1
    <3>3. f \in Files /\ Status(u) = "success"  BY <2>3, CoveredFiles
    <3>4. R(f) = {}
      <4> SUFFICES ASSUME R(f) # {}
                   PROVE  FALSE
        OBVIOUS
      <4>1. PICK v \in First(R(f)) : TRUE  BY <2>4
      <4>2. Finding(f, x, v) \in m.issues  BY <2>1, <3>3, <4>1
      <4> QED  BY <3>2, <4>2, SameIdentity
    <3>5. First(Q(f)) = {u}  BY <2>5, <3>3, <3>4
    <3> QED  BY <2>2, <3>2, <3>3, <3>5
  <2>9. ASSUME NEW i \in IssuesOf(T \cup {u}), i \notin IssuesOf(T)
        PROVE  i \in more
    <3>1. PICK f \in Files : \E x \in project.text[f] : \E v \in First(Q(f)) : i = Finding(f, x, v)
      BY <2>2
    <3>2. PICK x \in project.text[f], v \in First(Q(f)) : i = Finding(f, x, v)  BY <3>1
    <3>3. R(f) = {}
      <4> SUFFICES ASSUME R(f) # {}
                   PROVE  FALSE
        OBVIOUS
      <4>1. v \in First(R(f))  BY <2>4
      <4> QED  BY <2>1, <2>9, <3>2, <4>1
    <3>4. Status(u) = "success" /\ f \in Covered(u) /\ v = u  BY <2>5, <3>3
    <3>5. i \in UnitResult(u).issues  BY <2>3, <3>2, <3>4
    <3>6. ASSUME NEW j \in m.issues
          PROVE  Identity(j) # Identity(i)
      <4>1. PICK g \in Files : \E y \in project.text[g] : \E w \in First(R(g)) : j = Finding(g, y, w)
        BY <2>1
      <4>2. PICK y \in project.text[g], w \in First(R(g)) : j = Finding(g, y, w)  BY <4>1
      <4>3. g # f  BY <2>6, <3>3, <4>2
      <4> QED  BY <3>2, <4>2, <4>3, OtherIdentity
    <3> QED  BY <3>5, <3>6
  <2> QED  BY <2>7, <2>8, <2>9
<1> QED  BY <1>2, <1>3

\* The symbol: the first definition stays.
LEMMA BestSighting ==
  ASSUME NEW u \in Units
  PROVE  BestOf(Sightings(u)) = {[defined |-> TRUE, file |-> u]}
<1>1. u # Header  BY AnalysisAssumption DEF Units
<1>2. \A s : s \in Sightings(u) <=>
        \/ s = [defined |-> TRUE, file |-> u]
        \/ s = [defined |-> FALSE, file |-> Header] /\ u \in project.including
  BY <1>1 DEF Sightings, Covered
<1>3. Better([defined |-> TRUE, file |-> u], [defined |-> FALSE, file |-> Header])
  BY DEF Better
<1>4. ~Better([defined |-> TRUE, file |-> u], [defined |-> TRUE, file |-> u])
  BY PlaceFacts DEF Better
<1>5. ~Better([defined |-> FALSE, file |-> Header], [defined |-> TRUE, file |-> u])
  BY DEF Better
<1> DEFINE D == [defined |-> TRUE, file |-> u]
           H == [defined |-> FALSE, file |-> Header]
<1>6. D \in Sightings(u) /\ \A s \in Sightings(u) : s = D \/ s = H  BY <1>2
<1> HIDE DEF D, H
<1>7. Better(D, H) /\ ~Better(D, D) /\ ~Better(H, D)  BY <1>3, <1>4, <1>5 DEF D, H
<1>8. BestOf(Sightings(u)) = {D}  BY <1>6, <1>7 DEF BestOf
<1> QED  BY <1>8 DEF D

LEMMA BestOfFirst ==
  ASSUME NEW w \in Units, NEW S,
         \A s \in S : \E v \in Units : s = [defined |-> TRUE, file |-> v] /\ Place(w) <= Place(v),
         [defined |-> TRUE, file |-> w] \in S
  PROVE  BestOf(S) = {[defined |-> TRUE, file |-> w]}
<1> DEFINE D(v) == [defined |-> TRUE, file |-> v]
<1>1. \A v \in Units : D(v).defined = TRUE /\ D(v).file = v  OBVIOUS
<1> HIDE DEF D
<1>2. \A x, y \in Units : Better(D(x), D(y)) <=> Place(x) < Place(y)
  BY <1>1 DEF Better
<1>3. \A s \in S : \E v \in Units : s = D(v) /\ Place(w) <= Place(v)  BY DEF D
<1>4. D(w) \in S  BY DEF D
<1>5. ASSUME NEW s \in S
      PROVE  ~Better(s, D(w))
  <2>1. PICK v \in Units : s = D(v) /\ Place(w) <= Place(v)  BY <1>3
  <2> QED  BY <1>2, <2>1, PlaceFacts
<1>6. ASSUME NEW s \in S, s # D(w)
      PROVE  Better(D(w), s)
  <2>1. PICK v \in Units : s = D(v) /\ Place(w) <= Place(v)  BY <1>3
  <2>2. Place(w) # Place(v)  BY <1>6, <2>1, PlaceFacts
  <2> QED  BY <1>2, <2>1, <2>2, PlaceFacts
<1>7. BestOf(S) = {D(w)}
  BY <1>4, <1>5, <1>6 DEF BestOf
<1> QED  BY <1>7 DEF D

LEMMA MergedSymbol ==
  ASSUME NEW T \in SUBSET Units, Ordered(T), NEW u \in Units \ T,
         \A v \in T : Place(v) < Place(u),
         NEW m, m.symbol = {[defined |-> TRUE, file |-> v] : v \in First(Good(T))}
  PROVE  BestOf(m.symbol \cup UnitResult(u).symbol)
           = {[defined |-> TRUE, file |-> v] : v \in First(Good(T \cup {u}))}
<1> DEFINE D(v) == [defined |-> TRUE, file |-> v]
           more == Good(T \cup {u})
<1>1. UnitResult(u).symbol = IF Status(u) = "success" THEN {D(u)} ELSE {}
  BY BestSighting DEF UnitResult
<1>2. more \subseteq T \cup {u} /\ more \cap T = Good(T) /\ (u \in more <=> Status(u) = "success")
  BY DEF Good
<1> SUFFICES BestOf(m.symbol \cup UnitResult(u).symbol) = {D(v) : v \in First(more)}
  OBVIOUS
<1> HIDE DEF more
<1>3. CASE Good(T) # {}
  <2>1. First(more) = First(Good(T)) /\ First(more) # {}  BY <1>2, <1>3, FirstStays
  <2>2. PICK w \in First(more) : TRUE  BY <2>1
  <2>3. w \in T /\ First(more) = {w}
    <3>1. Good(T) \subseteq Units /\ w \in Good(T)  BY <2>1, <2>2 DEF First, Good
    <3>2. First(Good(T)) = {w}  BY <2>1, <2>2, <3>1, FirstFacts
    <3> QED  BY <2>1, <3>1, <3>2 DEF Good
  <2>4. m.symbol = {D(w)}  BY <2>1, <2>3
  <2>5. Place(w) <= Place(w) /\ Place(w) <= Place(u)  BY <2>3, PlaceFacts
  <2>6. \A s \in m.symbol \cup UnitResult(u).symbol :
          \E v \in Units : s = D(v) /\ Place(w) <= Place(v)
    BY <1>1, <2>3, <2>4, <2>5
  <2>7. BestOf(m.symbol \cup UnitResult(u).symbol) = {D(w)}
    BY <2>3, <2>4, <2>6, BestOfFirst
  <2> QED  BY <2>3, <2>7
<1>4. CASE Good(T) = {}
  <2>1. m.symbol = {}  BY <1>4 DEF First
  <2>2. CASE Status(u) = "success"
    <3>1. First(more) = {u}  BY <1>2, <1>4, <2>2, FirstIsNew
    <3>2. m.symbol \cup UnitResult(u).symbol = {D(u)}  BY <1>1, <2>1, <2>2
    <3>3. Place(u) <= Place(u)  BY PlaceFacts
    <3>4. BestOf({D(u)}) = {D(u)}  BY <3>3, BestOfFirst
    <3> QED  BY <3>1, <3>2, <3>4
  <2>3. CASE Status(u) # "success"
    <3>1. more = {}  BY <1>2, <1>4, <2>3
    <3>2. m.symbol \cup UnitResult(u).symbol = {}  BY <1>1, <2>1, <2>3
    <3>3. First(more) = {} /\ BestOf({}) = {}  BY <3>1 DEF First, BestOf
    <3> QED  BY <3>2, <3>3
  <2> QED  BY <2>2, <2>3
<1> QED  BY <1>3, <1>4

\* The metric: the first of the largest stays.
LEMMA ComplexityFacts ==
  ASSUME ProjectInv
  PROVE  \A u \in Units : Complexity(u) \in Nat
<1> SUFFICES ASSUME NEW u \in Units
             PROVE  Complexity(u) \in Nat
  OBVIOUS
<1>1. IsFiniteSet(project.text[u])  BY DEF ProjectInv, Files, Units
<1> QED  BY <1>1, FS_CardinalityType DEF Complexity

LEMMA MergedMetric ==
  ASSUME ProjectInv, NEW T \in SUBSET Units, Ordered(T), HasLargest(T), NEW u \in Units \ T,
         \A v \in T : Place(v) < Place(u),
         NEW m, m.metric = {[complexity |-> Complexity(v), from |-> v] : v \in First(Largest(T))}
  PROVE  /\ MetricOf(m.metric, UnitResult(u).metric)
              = {[complexity |-> Complexity(v), from |-> v] : v \in First(Largest(T \cup {u}))}
         /\ HasLargest(T \cup {u})
<1> DEFINE M(v) == [complexity |-> Complexity(v), from |-> v]
           more == Good(T \cup {u})
           top  == Largest(T \cup {u})
<1>1. UnitResult(u).metric = IF Status(u) = "success" THEN {M(u)} ELSE {}
  BY DEF UnitResult, Complexity
<1>2. more \subseteq T \cup {u} /\ more \cap T = Good(T) /\ (u \in more <=> Status(u) = "success")
  BY DEF Good
<1>3. top = {v \in more : \A w \in more : Complexity(w) <= Complexity(v)}
  BY DEF Largest
<1>4. Largest(T) = {v \in Good(T) : \A w \in Good(T) : Complexity(w) <= Complexity(v)}
  BY DEF Largest
<1>5. \A v : M(v).complexity = Complexity(v)  OBVIOUS
<1>6. \A v \in T \cup {u} : Complexity(v) \in Nat  BY ComplexityFacts
<1> SUFFICES /\ MetricOf(m.metric, UnitResult(u).metric) = {M(v) : v \in First(top)}
             /\ more # {} => top # {}
  BY DEF HasLargest
<1>11. m.metric = {M(v) : v \in First(Largest(T))}  OBVIOUS
<1> HIDE DEF more, top, M
<1>7. Good(T) \subseteq T  BY DEF Good
<1>8. CASE Status(u) # "success"
  <2>1. more = Good(T)  BY <1>2, <1>8
  <2>2. top = Largest(T)  BY <1>3, <1>4, <2>1
  <2>3. MetricOf(m.metric, {}) = m.metric  BY DEF MetricOf
  <2> QED  BY <1>1, <1>8, <1>11, <2>1, <2>2, <2>3 DEF HasLargest
<1>9. CASE Status(u) = "success" /\ Good(T) = {}
  <2>1. more = {u}  BY <1>2, <1>9
  <2>2. Largest(T) = {}  BY <1>4, <1>9
  <2>3. First({}) = {}  BY DEF First
  <2>4. m.metric = {}  BY <1>11, <2>2, <2>3
  <2>5. MetricOf(m.metric, {M(u)}) = {M(u)}  BY <2>4 DEF MetricOf
  <2>6. top = {u}  BY <1>3, <1>6, <2>1
  <2>7. First({u}) = {u}  BY FirstOfOne
  <2> QED  BY <1>1, <1>9, <2>5, <2>6, <2>7
<1>10. CASE Status(u) = "success" /\ Good(T) # {}
  <2>1. Largest(T) # {} /\ Largest(T) \subseteq T  BY <1>4, <1>7, <1>10 DEF HasLargest
  <2>2. PICK w \in First(Largest(T)) : TRUE  BY <2>1 DEF Ordered
  <2>3. w \in Largest(T)  BY <2>2 DEF First
  <2>4. First(Largest(T)) = {w}  BY <2>1, <2>2, FirstFacts
  <2>5. m.metric = {M(w)}  BY <1>11, <2>4
  <2>6. more = Good(T) \cup {u}  BY <1>2, <1>10
  <2>7. \A v \in Good(T) : Complexity(v) <= Complexity(w)  BY <1>4, <2>3
  <2>8. CASE Complexity(u) > Complexity(w)
    <3>1. MetricOf({M(w)}, {M(u)}) = {M(u)}  BY <1>5, <2>8 DEF MetricOf
    <3>2. u \in top
      BY <1>3, <1>6, <1>7, <2>1, <2>3, <2>6, <2>7, <2>8
    <3>3. \A v \in top : v = u
      BY <1>3, <1>4, <1>6, <1>7, <2>1, <2>3, <2>6, <2>7, <2>8
    <3>4. top = {u}  BY <3>2, <3>3
    <3>5. First({u}) = {u}  BY FirstOfOne
    <3> QED  BY <1>1, <1>10, <2>5, <3>1, <3>4, <3>5
  <2>9. CASE ~(Complexity(u) > Complexity(w))
    <3>1. ~(M(u).complexity > M(w).complexity) /\ {M(w)} # {}  BY <1>5, <2>9
    <3>2. MetricOf({M(w)}, {M(u)}) = {M(w)}  BY <3>1 DEF MetricOf
    <3>3. Complexity(u) <= Complexity(w)  BY <1>6, <2>1, <2>3, <2>9
    <3>4. \A v \in Largest(T) : v \in top
      BY <1>3, <1>4, <1>6, <1>7, <2>3, <2>6, <2>7, <3>3
    <3>5. \A v \in top \cap T : v \in Largest(T)  BY <1>2, <1>3, <1>4, <2>6
    <3>6. top \cap T = Largest(T) /\ top \subseteq T \cup {u}
      BY <1>2, <1>3, <2>1, <3>4, <3>5
    <3>7. First(top) = {w}  BY <2>1, <2>4, <3>6, FirstStays
    <3> QED  BY <1>1, <1>10, <2>1, <2>5, <3>2, <3>6, <3>7
  <2> QED  BY <2>8, <2>9
<1> QED  BY <1>8, <1>9, <1>10

-----------------------------------------------------------------------------
(* The analysis *)

LEMMA MergeStarts ==
  /\ AllBefore({}) /\ Ordered({}) /\ HasLargest({})
  /\ MergedFrom(NothingYet, {})
<1>1. Good({}) = {} /\ Largest({}) = {} /\ First({}) = {} /\ \A f : ReadersIn({}, f) = {}
  BY DEF Good, Largest, First, ReadersIn
<1>2. IssuesOf({}) = {}  BY <1>1 DEF IssuesOf, FirstFindings
<1>3. DOMAIN NothingYet.units = {}  BY DEF NothingYet
<1>4. /\ NothingYet = [units |-> NothingYet.units, symbol |-> NothingYet.symbol,
                       metric |-> NothingYet.metric, issues |-> NothingYet.issues]
      /\ NothingYet.symbol = {} /\ NothingYet.metric = {} /\ NothingYet.issues = {}
  BY DEF NothingYet
<1>5. AllBefore({}) /\ Ordered({}) /\ HasLargest({})
  BY <1>1 DEF AllBefore, Ordered, HasLargest
<1> QED  BY <1>1, <1>2, <1>3, <1>4, <1>5 DEF MergedFrom

\* The result of the first unit that was not taken is merged.
LEMMA MergeGoesOn ==
  ASSUME ProjectInv,
         NEW T \in SUBSET InScope, AllBefore(T), Ordered(T), HasLargest(T),
         NEW m, MergedFrom(m, T),
         NEW u \in InScope \ T, \A v \in InScope \ T : Place(u) <= Place(v)
  PROVE  /\ AllBefore(T \cup {u}) /\ Ordered(T \cup {u}) /\ HasLargest(T \cup {u})
         /\ MergedFrom(Merge(m, u, UnitResult(u)), T \cup {u})
<1> DEFINE n == Merge(m, u, UnitResult(u))
<1>0. /\ n = [units |-> n.units, symbol |-> n.symbol, metric |-> n.metric, issues |-> n.issues]
      /\ n.units = [v \in DOMAIN m.units \cup {u} |->
                      IF v = u THEN UnitResult(u).unit ELSE m.units[v]]
      /\ n.symbol = BestOf(m.symbol \cup UnitResult(u).symbol)
      /\ n.metric = MetricOf(m.metric, UnitResult(u).metric)
      /\ n.issues = m.issues \cup {i \in UnitResult(u).issues :
                                    \A j \in m.issues : Identity(j) # Identity(i)}
  BY DEF Merge
<1> HIDE DEF n
<1>1. T \in SUBSET Units /\ u \in Units \ T /\ \A v \in T : Place(v) < Place(u)
  BY ScopeFacts DEF AllBefore
<1>2. AllBefore(T \cup {u})
  <2> SUFFICES ASSUME NEW v \in T \cup {u}, NEW w \in InScope \ (T \cup {u})
               PROVE  Place(v) < Place(w)
    BY DEF AllBefore
  <2>1. Place(u) <= Place(w) /\ w # u /\ w \in Units  BY ScopeFacts
  <2>2. Place(u) # Place(w)  BY <1>1, <2>1, PlaceFacts
  <2>3. Place(u) < Place(w)  BY <1>1, <2>1, <2>2, PlaceFacts
  <2> QED  BY <2>3 DEF AllBefore
<1>3. Ordered(T \cup {u})  BY <1>1, OrderedMore
<1>4. m.symbol = {[defined |-> TRUE, file |-> v] : v \in First(Good(T))}  BY DEF MergedFrom
<1>5. m.metric = {[complexity |-> Complexity(v), from |-> v] : v \in First(Largest(T))}
  BY DEF MergedFrom
<1>6. m.issues = IssuesOf(T)  BY DEF MergedFrom
<1>7. n.symbol = {[defined |-> TRUE, file |-> v] : v \in First(Good(T \cup {u}))}
  BY <1>0, <1>1, <1>4, MergedSymbol
<1>8. /\ n.metric = {[complexity |-> Complexity(v), from |-> v] : v \in First(Largest(T \cup {u}))}
      /\ HasLargest(T \cup {u})
  BY <1>0, <1>1, <1>5, MergedMetric
<1>9. n.issues = IssuesOf(T \cup {u})
  BY <1>0, <1>1, <1>6, MergedIssues
<1>10. DOMAIN n.units = T \cup {u} /\ \A v \in T \cup {u} : n.units[v] = UnitResult(v).unit
  <2>1. DOMAIN m.units = T /\ \A v \in T : m.units[v] = UnitResult(v).unit  BY DEF MergedFrom
  <2> QED  BY <1>0, <2>1
<1>11. MergedFrom(n, T \cup {u})
  BY <1>0, <1>7, <1>8, <1>9, <1>10 DEF MergedFrom
<1> QED
  BY <1>2, <1>3, <1>8, <1>11 DEF n

-----------------------------------------------------------------------------
(* The snapshot *)

LEMMA SnapshotFields ==
  ASSUME NEW a
  PROVE  LET s == Snapshot(a)
             hidden == Suppressed(Recorded, a.issues, project.suppressions)
         IN /\ s.of = project /\ s.texts = Recorded /\ s.units = a.units /\ s.status = a.status
            /\ s.symbol = a.symbol /\ s.metric = a.metric
            /\ s.suppressed = hidden /\ Items(s) = a.issues
            /\ s.diagnosed = Diagnostics(Recorded, a.issues, project.suppressions, project.ruleOff)
            /\ s.ruleOff = project.ruleOff
  BY DEF Snapshot, Suppressed, Items

LEMMA EarlyFields ==
  ASSUME NEW a
  PROVE  LET s == Snapshot(a)
             e == Early(s)
         IN /\ e.of = s.of /\ e.texts = s.texts /\ e.status = s.status
            /\ e.symbol = s.symbol /\ e.metric = s.metric
            /\ e.suppressed = s.suppressed /\ Items(e) = Items(s) /\ e.diagnosed = s.diagnosed
            /\ e.units = [u \in DOMAIN s.units |->
                            [s.units[u] EXCEPT !.command = Unknown, !.covered = {}]]
  BY DEF Snapshot, Early, Items

LEMMA UnitFields ==
  ASSUME NEW u
  PROVE  LET r == UnitResult(u).unit
         IN /\ r.status = Status(u) /\ r.covered \subseteq Covered(u)
            /\ [r EXCEPT !.command = Unknown, !.covered = {}].status = Status(u)
            /\ [r EXCEPT !.command = Unknown, !.covered = {}].covered = {}
  BY DEF UnitResult

LEMMA AnalysedFields ==
  /\ Analysed.units = merged.units /\ Analysed.symbol = merged.symbol
  /\ Analysed.metric = merged.metric /\ Analysed.issues = merged.issues
  /\ Analysed.status # "not_requested"
  BY DEF Analysed, OverallStatus

\* A snapshot of what was merged, of this version or of an earlier one.
LEMMA SoundScan ==
  ASSUME ProjectInv, Ordered(InScope),
         NEW s, s.of = project, s.texts = Recorded, s.status # "not_requested",
         Items(s) = IssuesOf(InScope),
         s.symbol = {[defined |-> TRUE, file |-> u] : u \in First(Good(InScope))},
         s.metric = {[complexity |-> Complexity(u), from |-> u] : u \in First(Largest(InScope))},
         DOMAIN s.units = InScope,
         \A u \in InScope : s.units[u].status = Status(u) /\ s.units[u].covered \subseteq Covered(u)
  PROVE  ScanInv(s)
<1>1. \A f \in DOMAIN s.texts : s.texts[f] = s.of.text[f]  BY DEF Recorded
<1>2. Parsed(s) = Good(InScope)  BY DEF Parsed, Good
<1>3. \A f : Readers(s, f) = ReadersIn(InScope, f)
  BY <1>2, ScopeFacts DEF Readers, ReadersIn
<1>4. \A u : Size(s, u) = Complexity(u)  BY DEF Size, Complexity
<1>5. MostComplex(s) = Largest(InScope)  BY <1>2, <1>4 DEF MostComplex, Largest
<1>6. [f \in Files |-> Readers(s, f)] = [f \in Files |-> ReadersIn(InScope, f)]  BY <1>3
<1>7. IssuesOf(InScope) = FirstFindings(s.of, [f \in Files |-> Readers(s, f)])
  BY <1>6 DEF IssuesOf
<1>8. s.metric = {[complexity |-> Size(s, u), from |-> u] : u \in First(MostComplex(s))}
  BY <1>4, <1>5
<1>9. FirstInOrder(s)
  BY <1>2, <1>7, <1>8 DEF FirstInOrder
<1>10. ASSUME NEW i \in Items(s)
       PROVE  i.file \in DOMAIN s.texts
  <2>1. PICK f \in Files : \E x \in project.text[f], u \in First(ReadersIn(InScope, f)) :
                              i = Finding(f, x, u)
    BY DEF IssuesOf, FirstFindings
  <2>2. PICK u \in InScope : f \in Covered(u) /\ i.file = f
    BY <2>1, ScopeFacts DEF First, ReadersIn, Good
  <2>3. f = u \/ f = Header  BY <2>2 DEF Covered
  <2>4. DOMAIN s.texts = InScope \cup {Header}  BY DEF Recorded
  <2> QED  BY <2>2, <2>3, <2>4
<1>11. \A u \in DOMAIN s.units : \A f \in s.units[u].covered : ReadBy(s.of, u, f)
  BY ScopeFacts
<1>12. s.of.ruleOff \in BOOLEAN  BY DEF ProjectInv
<1> QED
  BY <1>1, <1>9, <1>10, <1>11, <1>12 DEF ScanInv

-----------------------------------------------------------------------------
(* Steps of a scan *)

\* An analysis looks at the project only.
LEMMA SameProject ==
  ASSUME project' = project
  PROVE  /\ InScope' = InScope /\ Recorded' = Recorded
         /\ \A u : UnitResult(u)' = UnitResult(u)
         /\ \A T : (AllBefore(T) <=> AllBefore(T)') /\ (HasLargest(T) <=> HasLargest(T)')
         /\ \A m, T : MergedFrom(m, T) <=> MergedFrom(m, T)'
         /\ ProjectInv <=> ProjectInv'
<1>1. InScope' = InScope  BY DEF InScope
<1>2. Recorded' = Recorded  BY <1>1 DEF Recorded
<1>3. \A u : Selected(u)' = Selected(u)  BY DEF Selected
<1>4. \A u : Covered(u)' = Covered(u)  BY DEF Covered
<1>5. \A u : Status(u)' = Status(u)  BY <1>3 DEF Status
<1>6. \A u : Sightings(u)' = Sightings(u)  BY <1>4 DEF Sightings
<1>7. \A u : Findings(u)' = Findings(u)  BY <1>4 DEF Findings
<1>8. ASSUME NEW u
      PROVE  UnitResult(u)' = UnitResult(u)
  <2>1. Selected(u)' = Selected(u) /\ Covered(u)' = Covered(u) /\ Status(u)' = Status(u)
        /\ Findings(u)' = Findings(u)
    BY <1>3, <1>4, <1>5, <1>7
  <2>2. BestOf(Sightings(u))' = BestOf(Sightings(u))  BY <1>6 DEF BestOf
  <2> QED  BY <2>1, <2>2 DEF UnitResult
<1>9. \A T : Good(T)' = Good(T)  BY <1>5 DEF Good
<1>10. \A T, f : ReadersIn(T, f)' = ReadersIn(T, f)  BY <1>4, <1>9 DEF ReadersIn
<1>11. \A u : Complexity(u)' = Complexity(u)  BY DEF Complexity
<1>12. \A T : Largest(T)' = Largest(T)  BY <1>9, <1>11 DEF Largest
<1>13. \A T : IssuesOf(T)' = IssuesOf(T)  BY <1>10 DEF IssuesOf
<1>14. \A T : AllBefore(T) <=> AllBefore(T)'  BY <1>1 DEF AllBefore
<1>15. \A T : HasLargest(T) <=> HasLargest(T)'  BY <1>9, <1>12 DEF HasLargest
<1>16. \A m, T : MergedFrom(m, T) <=> MergedFrom(m, T)'
  BY <1>8, <1>9, <1>11, <1>12, <1>13 DEF MergedFrom
<1>17. ProjectInv <=> ProjectInv'  BY DEF ProjectInv
<1> QED
  BY <1>1, <1>2, <1>8, <1>14, <1>15, <1>16, <1>17

LEMMA SameScans ==
  ASSUME HistoryInv, scans' = scans
  PROVE  /\ HistoryInv'
         /\ GrantInv /\ project' = project => GrantInv'
<1>1. \A n : HidesWhatWasSeen(n)' <=> HidesWhatWasSeen(n)  BY DEF HidesWhatWasSeen
<1>2. HistoryInv'  BY <1>1 DEF HistoryInv
<1>3. GrantInv /\ project' = project => GrantInv'  BY DEF GrantInv
<1> QED  BY <1>2, <1>3

LEMMA StartKeeps ==
  ASSUME ReportInv, StartScan
  PROVE  ReportInv'
<1>1. /\ project' = project /\ scans' = scans
      /\ phase' = "scanning" /\ part' = [u \in InScope |-> {}] /\ merged' = NothingYet
  BY DEF StartScan, Submit
<1>2. DOMAIN merged'.units = {}  BY <1>1, MergeStarts DEF MergedFrom
<1>3. MergeInv({})'
  <2>1. MergedFrom(merged', {}) /\ AllBefore({}) /\ HasLargest({}) /\ Ordered({})
    BY <1>1, MergeStarts
  <2>2. (MergedFrom(merged, {}))' /\ AllBefore({})' /\ HasLargest({})'
    BY <1>1, <2>1, SameProject DEF MergedFrom
  <2> QED  BY <2>1, <2>2 DEF MergeInv
<1>4. PartInv'
  BY <1>1, <1>2, <1>3, SameProject DEF PartInv
<1> QED
  BY <1>1, <1>4, SameProject, SameScans DEF ReportInv

LEMMA WorkKeeps ==
  ASSUME ReportInv, Worker
  PROVE  ReportInv'
<1>1. PICK u \in Units : Work(u) /\ UNCHANGED <<scans, phase, edits>>  BY DEF Worker
<1>2. /\ u \in DOMAIN part /\ part' = [part EXCEPT ![u] = {UnitResult(u)}]
      /\ project' = project /\ merged' = merged /\ scans' = scans /\ phase' = phase
  BY <1>1 DEF Work
<1>3. phase = "scanning"  BY <1>2 DEF ReportInv, PartInv
<1>4. DOMAIN part = InScope /\ \A v \in InScope : part[v] \subseteq {UnitResult(v)}
  BY <1>3 DEF ReportInv, PartInv
<1>5. DOMAIN part' = InScope /\ \A v \in InScope : part'[v] \subseteq {UnitResult(v)}
  BY <1>2, <1>4
<1>6. MergeInv(DOMAIN merged.units)'
  <2>1. MergeInv(DOMAIN merged.units)  BY <1>3 DEF ReportInv, PartInv
  <2>2. MergedFrom(merged, DOMAIN merged.units)' <=> MergedFrom(merged, DOMAIN merged.units)
    BY <1>2, SameProject DEF MergedFrom
  <2> QED  BY <1>2, <2>1, <2>2, SameProject DEF MergeInv
<1>7. PartInv'
  BY <1>2, <1>3, <1>5, <1>6, SameProject DEF PartInv
<1> QED
  BY <1>2, <1>7, SameProject, SameScans DEF ReportInv

LEMMA TakeKeeps ==
  ASSUME ReportInv, Caller
  PROVE  ReportInv'
<1>1. PICK u \in Units : Take(u) /\ UNCHANGED <<scans, phase, edits>> /\ phase = "scanning"
  BY DEF Caller
<1> DEFINE T == DOMAIN merged.units
<1>2. /\ u \in DOMAIN part /\ Turn(u)
      /\ \E p \in part[u] : merged' = Merge(merged, u, p)
      /\ project' = project /\ part' = part /\ scans' = scans /\ phase' = phase
  BY <1>1 DEF Take
<1>3. /\ DOMAIN part = InScope /\ \A v \in InScope : part[v] \subseteq {UnitResult(v)}
      /\ MergeInv(T)
  BY <1>1 DEF ReportInv, PartInv
<1>4. merged' = Merge(merged, u, UnitResult(u))
  BY <1>2, <1>3
<1>5. u \in InScope \ T /\ \A v \in InScope \ T : Place(u) <= Place(v)
  BY <1>2 DEF Turn, NotTaken
<1>6. T \in SUBSET InScope /\ AllBefore(T) /\ Ordered(T) /\ HasLargest(T) /\ MergedFrom(merged, T)
  BY <1>3 DEF MergeInv
<1>7. ProjectInv  BY DEF ReportInv
<1> HIDE DEF T
<1>8. /\ AllBefore(T \cup {u}) /\ Ordered(T \cup {u}) /\ HasLargest(T \cup {u})
      /\ MergedFrom(merged', T \cup {u})
  BY <1>4, <1>5, <1>6, <1>7, MergeGoesOn
<1>9. DOMAIN merged'.units = T \cup {u}  BY <1>8 DEF MergedFrom
<1> DEFINE N == T \cup {u}
<1>10. N \subseteq InScope  BY <1>5, <1>6
<1>11. MergeInv(DOMAIN merged.units)'
  <2>1. MergedFrom(merged', DOMAIN merged'.units) /\ AllBefore(DOMAIN merged'.units)
        /\ HasLargest(DOMAIN merged'.units) /\ Ordered(DOMAIN merged'.units)
        /\ DOMAIN merged'.units \subseteq InScope
    BY <1>8, <1>9, <1>10
  <2>2. MergedFrom(merged, DOMAIN merged.units)' /\ AllBefore(DOMAIN merged.units)'
        /\ HasLargest(DOMAIN merged.units)'
    BY <1>2, <2>1, SameProject
  <2> QED  BY <1>2, <2>1, <2>2, SameProject DEF MergeInv
<1>12. PartInv'
  BY <1>1, <1>2, <1>3, <1>11, SameProject DEF PartInv
<1> QED
  BY <1>2, <1>12, SameProject, SameScans DEF ReportInv

\* One more snapshot.
LEMMA HistoryGrows ==
  ASSUME HistoryInv, NEW s, scans' = Append(scans, s)
  PROVE  /\ scans' \in Seq(Range(scans')) /\ Len(scans) \in Nat
         /\ DOMAIN scans = 1..Len(scans) /\ DOMAIN scans' = 1..(Len(scans) + 1)
         /\ \A n \in DOMAIN scans : scans'[n] = scans[n]
         /\ scans'[Len(scans) + 1] = s
<1> DEFINE S == Range(scans) \cup {s}
<1>1. scans \in Seq(S)  BY SeqMonotonic DEF HistoryInv
<1>2. /\ scans' \in Seq(S) /\ Len(scans') = Len(scans) + 1
      /\ \A i \in 1..Len(scans) : scans'[i] = scans[i]
      /\ scans'[Len(scans) + 1] = s
  BY <1>1, AppendProperties
<1>3. Len(scans) \in Nat /\ DOMAIN scans = 1..Len(scans) /\ DOMAIN scans' = 1..Len(scans')
  BY <1>1, <1>2, LenProperties
<1>4. S = Range(scans')
  <2>1. \A x \in Range(scans) : x \in Range(scans')
    BY <1>2, <1>3 DEF Range
  <2>2. s \in Range(scans')
    BY <1>2, <1>3 DEF Range
  <2>3. \A x \in Range(scans') : x \in S
    BY <1>2, <1>3 DEF Range
  <2> QED  BY <2>1, <2>2, <2>3
<1> QED  BY <1>2, <1>3, <1>4

LEMMA DiagnosticOfEach ==
  ASSUME NEW texts, NEW I, NEW X, NEW off, NEW x \in X, ~\E i \in I : Covers(texts, x, i)
  PROVE  \E d \in Diagnostics(texts, I, X, off) : d.of = x
<1> DEFINE D(y) == [of  |-> y,
                    why |-> IF y.file \notin DOMAIN texts THEN "missing"
                            ELSE IF texts[y.file] # y.hash THEN "changed"
                            ELSE IF off THEN "disabled" ELSE "no match"]
           Y == {y \in X : ~\E i \in I : Covers(texts, y, i)}
<1>1. Diagnostics(texts, I, X, off) = {D(y) : y \in Y}  BY DEF Diagnostics
<1>2. D(x).of = x /\ x \in Y  OBVIOUS
<1> HIDE DEF D, Y
<1> QED  BY <1>1, <1>2

LEMMA SaveKeeps ==
  ASSUME ReportInv, NEW s, Save(s), ScanInv(s), NEW I,
         s.of = project,
         s.suppressed = Suppressed(Recorded, I, project.suppressions),
         s.diagnosed = Diagnostics(Recorded, I, project.suppressions, project.ruleOff),
         scans # <<>> => s.ruleOff = s.of.ruleOff
  PROVE  ReportInv'
<1>1. /\ scans' = Append(scans, s) /\ phase' = "editing" /\ part' = Idle
      /\ project' = project
  BY DEF Save
<1>2. HistoryInv /\ GrantInv /\ ProjectInv  BY DEF ReportInv
<1>3. PICK L \in Nat :
      /\ scans' \in Seq(Range(scans'))
      /\ DOMAIN scans = 1..L /\ DOMAIN scans' = 1..(L + 1)
      /\ \A n \in DOMAIN scans : scans'[n] = scans[n]
      /\ scans'[L + 1] = s
  BY <1>1, <1>2, HistoryGrows
<1>4. ASSUME NEW n \in DOMAIN scans
      PROVE  HidesWhatWasSeen(n)'
  <2>1. HidesWhatWasSeen(n)  BY <1>2 DEF HistoryInv
  <2>2. \A m \in 1..(n - 1) : scans'[m] = scans[m]  BY <1>3
  <2>3. scans'[n] = scans[n]  BY <1>3
  <2> QED  BY <2>1, <2>2, <2>3 DEF HidesWhatWasSeen
<1>5. HidesWhatWasSeen(L + 1)'
  <2>1. ASSUME NEW i \in s.suppressed
        PROVE  \E m \in 1..L : /\ scans[m].of.text[i.file] = s.of.text[i.file]
                               /\ \E j \in Items(scans[m]) : j.file = i.file /\ j.line = i.line
    <3>1. PICK x \in project.suppressions : Covers(Recorded, x, i)  BY DEF Suppressed
    <3>2. x.file = i.file /\ x.line = i.line /\ Recorded[x.file] = x.hash
          /\ x.file \in DOMAIN Recorded
      BY <3>1 DEF Covers, SamePlace
    <3>3. Recorded[x.file] = project.text[x.file]  BY <3>2 DEF Recorded
    <3>4. PICK m \in DOMAIN scans : /\ scans[m].of.text[x.file] = x.hash
                                    /\ \E j \in Items(scans[m]) : j.file = x.file /\ j.line = x.line
      BY <1>2 DEF GrantInv
    <3> QED  BY <1>3, <3>2, <3>3, <3>4
  <2>2. ASSUME NEW x \in s.of.suppressions
        PROVE  \/ \E i \in s.suppressed : SamePlace(x, i)
               \/ \E d \in s.diagnosed : d.of = x
    <3>1. CASE \E i \in I : Covers(Recorded, x, i)
      BY <3>1 DEF Suppressed, Covers
    <3>2. CASE ~\E i \in I : Covers(Recorded, x, i)
      BY <3>2, DiagnosticOfEach
    <3> QED  BY <3>1, <3>2
  <2>3. (L + 1) - 1 = L /\ \A m \in 1..L : scans'[m] = scans[m]  BY <1>3
  <2>4. \A i \in s.suppressed : \E m \in 1..((L + 1) - 1) :
          /\ scans'[m].of.text[i.file] = s.of.text[i.file]
          /\ \E j \in Items(scans'[m]) : j.file = i.file /\ j.line = i.line
    BY <2>1, <2>3
  <2>5. scans'[L + 1] = s  BY <1>3
  <2> QED  BY <2>2, <2>4, <2>5 DEF HidesWhatWasSeen
<1>6. ASSUME NEW n \in DOMAIN scans'
      PROVE  ScanInv(scans'[n]) /\ HidesWhatWasSeen(n)'
             /\ (n # 1 => scans'[n].ruleOff = scans'[n].of.ruleOff)
  <2>1. CASE n \in DOMAIN scans
    <3>1. ScanInv(scans[n]) /\ (n # 1 => scans[n].ruleOff = scans[n].of.ruleOff)
      BY <1>2, <2>1 DEF HistoryInv
    <3> QED  BY <1>3, <1>4, <2>1, <3>1
  <2>2. CASE n = L + 1
    <3>1. n # 1 => scans # <<>>
      <4>1. n # 1 => 1 \in DOMAIN scans  BY <1>3, <2>2
      <4> QED  BY <4>1
    <3> QED  BY <1>3, <1>5, <2>2, <3>1
  <2> QED  BY <1>3, <2>1, <2>2
<1>7. HistoryInv'
  BY <1>3, <1>6 DEF HistoryInv
<1>8. GrantInv'
  <2> SUFFICES ASSUME NEW x \in project.suppressions
               PROVE  \E m \in DOMAIN scans' :
                        /\ scans'[m].of.text[x.file] = x.hash
                        /\ \E j \in Items(scans'[m]) : j.file = x.file /\ j.line = x.line
    BY <1>1 DEF GrantInv
  <2>1. PICK m \in DOMAIN scans : /\ scans[m].of.text[x.file] = x.hash
                                  /\ \E j \in Items(scans[m]) : j.file = x.file /\ j.line = x.line
    BY <1>2 DEF GrantInv
  <2> QED  BY <1>3, <2>1
<1>9. PartInv'
  BY <1>1 DEF PartInv, Idle
<1> QED
  BY <1>1, <1>2, <1>7, <1>8, <1>9, SameProject DEF ReportInv

LEMMA SaveAnalysisKeeps ==
  ASSUME ReportInv, SaveAnalysis
  PROVE  ReportInv'
<1> DEFINE s == Snapshot(Analysed)
           e == Early(Snapshot(Analysed))
<1>1. phase = "scanning" /\ DOMAIN merged.units = DOMAIN part
      /\ (Save(s) \/ (scans = <<>> /\ Save(e)))
  BY DEF SaveAnalysis, Taken
<1>2. DOMAIN part = InScope /\ MergeInv(InScope) /\ ProjectInv
  BY <1>1 DEF ReportInv, PartInv
<1>3. Ordered(InScope) /\ MergedFrom(merged, InScope)  BY <1>2 DEF MergeInv
<1>4. /\ DOMAIN merged.units = InScope
      /\ \A u \in InScope : merged.units[u] = UnitResult(u).unit
      /\ merged.symbol = {[defined |-> TRUE, file |-> u] : u \in First(Good(InScope))}
      /\ merged.metric = {[complexity |-> Complexity(u), from |-> u] : u \in First(Largest(InScope))}
      /\ merged.issues = IssuesOf(InScope)
  BY <1>3 DEF MergedFrom
<1>5. /\ s.of = project /\ s.texts = Recorded /\ s.units = merged.units
      /\ s.status # "not_requested" /\ s.symbol = merged.symbol /\ s.metric = merged.metric
      /\ Items(s) = merged.issues /\ s.ruleOff = project.ruleOff
      /\ s.suppressed = Suppressed(Recorded, Analysed.issues, project.suppressions)
      /\ s.diagnosed = Diagnostics(Recorded, Analysed.issues, project.suppressions, project.ruleOff)
  BY SnapshotFields, AnalysedFields
<1>6. /\ e.of = s.of /\ e.texts = s.texts /\ e.status = s.status
      /\ e.symbol = s.symbol /\ e.metric = s.metric
      /\ e.suppressed = s.suppressed /\ Items(e) = Items(s) /\ e.diagnosed = s.diagnosed
      /\ e.units = [u \in DOMAIN s.units |-> [s.units[u] EXCEPT !.command = Unknown, !.covered = {}]]
  BY EarlyFields
<1> HIDE DEF s, e
<1>7. CASE Save(s)
  <2>1. \A u \in InScope : s.units[u].status = Status(u) /\ s.units[u].covered \subseteq Covered(u)
    BY <1>4, <1>5, UnitFields
  <2>2. ScanInv(s)  BY <1>2, <1>3, <1>4, <1>5, <2>1, SoundScan
  <2> QED  BY <1>5, <1>7, <2>2, SaveKeeps
<1>8. CASE scans = <<>> /\ Save(e)
  <2>1. DOMAIN e.units = InScope  BY <1>4, <1>5, <1>6
  <2>2. \A u \in InScope : e.units[u].status = Status(u) /\ e.units[u].covered \subseteq Covered(u)
    <3> SUFFICES ASSUME NEW u \in InScope
                 PROVE  e.units[u].status = Status(u) /\ e.units[u].covered \subseteq Covered(u)
      OBVIOUS
    <3>1. e.units[u] = [UnitResult(u).unit EXCEPT !.command = Unknown, !.covered = {}]
      <4>1. u \in DOMAIN s.units /\ s.units[u] = UnitResult(u).unit  BY <1>4, <1>5
      <4>2. e.units[u] = [s.units[u] EXCEPT !.command = Unknown, !.covered = {}]
        BY <1>6, <4>1
      <4> QED  BY <4>1, <4>2
    <3> QED  BY <3>1, UnitFields
  <2>3. ScanInv(e)  BY <1>2, <1>3, <1>4, <1>5, <1>6, <2>1, <2>2, SoundScan
  <2>4. /\ e.of = project /\ Save(e) /\ scans = <<>>
        /\ e.suppressed = Suppressed(Recorded, Analysed.issues, project.suppressions)
        /\ e.diagnosed = Diagnostics(Recorded, Analysed.issues, project.suppressions, project.ruleOff)
    BY <1>5, <1>6, <1>8
  <2>5. scans # <<>> => e.ruleOff = e.of.ruleOff  BY <2>4
  <2> QED  BY <2>3, <2>4, <2>5, SaveKeeps
<1> QED  BY <1>1, <1>7, <1>8

LEMMA SaveInventoryKeeps ==
  ASSUME ReportInv, SaveInventory
  PROVE  ReportInv'
<1> DEFINE s == Snapshot(Unanalysed)
<1>1. Save(s)  BY DEF SaveInventory
<1>2. /\ s.of = project /\ s.texts = Recorded /\ s.units = Unanalysed.units
      /\ s.status = Unanalysed.status
      /\ s.suppressed = Suppressed(Recorded, Unanalysed.issues, project.suppressions)
      /\ Items(s) = Unanalysed.issues
      /\ s.diagnosed = Diagnostics(Recorded, Unanalysed.issues, project.suppressions, project.ruleOff)
      /\ s.ruleOff = project.ruleOff
  BY SnapshotFields
<1>3. /\ DOMAIN Unanalysed.units = {} /\ Unanalysed.status = "not_requested"
      /\ Unanalysed.issues = {}
  BY DEF Unanalysed
<1> HIDE DEF s
<1>4. Ordered(DOMAIN s.units)  BY <1>2, <1>3, MergeStarts
<1>5. \A f \in DOMAIN s.texts : s.texts[f] = s.of.text[f]  BY <1>2 DEF Recorded
<1>6. s.of.ruleOff \in BOOLEAN  BY <1>2 DEF ReportInv, ProjectInv
<1>7. ScanInv(s)
  BY <1>2, <1>3, <1>4, <1>5, <1>6 DEF ScanInv
<1> QED  BY <1>1, <1>2, <1>7, SaveKeeps

-----------------------------------------------------------------------------
(* Edits *)

\* p is a project, with suppressions that were granted.
LEMMA EditKeeps ==
  ASSUME ReportInv, NEW p, Edit(p),
         {"text", "ruleOff", "suppressions"} \subseteq DOMAIN p, p.ruleOff \in BOOLEAN,
         DOMAIN p.text = Files, \A f \in Files : IsFiniteSet(p.text[f]),
         \A x \in p.suppressions :
           \/ x \in project.suppressions
           \/ \E m \in DOMAIN scans : /\ scans[m].of.text[x.file] = x.hash
                                      /\ \E j \in Items(scans[m]) : j.file = x.file /\ j.line = x.line
  PROVE  ReportInv'
<1>1. phase = "editing" /\ project' = p /\ part' = part /\ scans' = scans /\ phase' = phase
  BY DEF Edit
<1>2. ProjectInv'  BY <1>1 DEF ProjectInv
<1>3. PartInv'  BY <1>1 DEF ReportInv, PartInv
<1>4. HistoryInv'  BY <1>1, SameScans DEF ReportInv
<1>5. GrantInv'  BY <1>1 DEF ReportInv, GrantInv
<1> QED  BY <1>2, <1>3, <1>4, <1>5 DEF ReportInv

LEMMA EditTextKeeps ==
  ASSUME ReportInv, NEW f \in Files, EditText(f)
  PROVE  ReportInv'
<1>1. PICK t \in Texts[f] : Edit([project EXCEPT !.text[f] = t])  BY DEF EditText
<1> DEFINE p == [project EXCEPT !.text[f] = t]
<1>2. ProjectInv  BY DEF ReportInv
<1>3. /\ DOMAIN p = DOMAIN project /\ p.ruleOff = project.ruleOff
      /\ p.suppressions = project.suppressions
      /\ p.text = [project.text EXCEPT ![f] = t]
  BY <1>2 DEF ProjectInv
<1>4. IsFiniteSet(t)  BY ReportsAssumption
<1>5. DOMAIN p.text = Files /\ \A g \in Files : IsFiniteSet(p.text[g])
  BY <1>2, <1>3, <1>4 DEF ProjectInv
<1> HIDE DEF p
<1> QED
  <2>1. Edit(p)  BY <1>1 DEF p
  <2> QED  BY <1>2, <1>3, <1>5, <2>1, EditKeeps DEF ProjectInv

\* What else is edited leaves these fields alone.
LEMMA OtherKeeps ==
  ASSUME ReportInv, NEW p, Edit(p), DOMAIN p = DOMAIN project, p.ruleOff \in BOOLEAN,
         p.text = project.text, p.suppressions = project.suppressions
  PROVE  ReportInv'
<1>1. ProjectInv  BY DEF ReportInv
<1> QED  BY <1>1, EditKeeps DEF ProjectInv

LEMMA UnitEditKeeps ==
  ASSUME ReportInv, NEW u \in Units,
         BreakUnit(u) \/ EditInclude(u) \/ MoveUnit(u) \/ Ignore(u) \/ Rebuild(u) \/ Choose(u)
  PROVE  ReportInv'
<1>1. {"text", "ruleOff", "suppressions"} \subseteq DOMAIN project /\ project.ruleOff \in BOOLEAN
  BY DEF ReportInv, ProjectInv
<1>2. ASSUME NEW v, Edit([project EXCEPT !.broken = v])
      PROVE  ReportInv'
  BY <1>1, <1>2, OtherKeeps
<1>3. ASSUME NEW v, Edit([project EXCEPT !.including = v])
      PROVE  ReportInv'
  BY <1>1, <1>3, OtherKeeps
<1>4. ASSUME NEW v, Edit([project EXCEPT !.present = v])
      PROVE  ReportInv'
  BY <1>1, <1>4, OtherKeeps
<1>5. ASSUME NEW v, Edit([project EXCEPT !.ignored = v])
      PROVE  ReportInv'
  BY <1>1, <1>5, OtherKeeps
<1>6. ASSUME NEW C, Edit([project EXCEPT !.commands[u] = C])
      PROVE  ReportInv'
  BY <1>1, <1>6, OtherKeeps
<1>7. ASSUME NEW c, Edit([project EXCEPT !.choice[u] = c])
      PROVE  ReportInv'
  BY <1>1, <1>7, OtherKeeps
<1>8. CASE BreakUnit(u)    BY <1>2, <1>8 DEF BreakUnit
<1>9. CASE EditInclude(u)  BY <1>3, <1>9 DEF EditInclude
<1>10. CASE MoveUnit(u)    BY <1>4, <1>10 DEF MoveUnit
<1>11. CASE Ignore(u)      BY <1>5, <1>11 DEF Ignore
<1>12. CASE Rebuild(u)     BY <1>6, <1>12 DEF Rebuild
<1>13. CASE Choose(u)      BY <1>7, <1>13 DEF Choose
<1> QED  BY <1>8, <1>9, <1>10, <1>11, <1>12, <1>13

LEMMA SettingKeeps ==
  ASSUME ReportInv, SwitchRule \/ SwitchOff \/ UpgradeTool
  PROVE  ReportInv'
<1>1. {"text", "ruleOff", "suppressions"} \subseteq DOMAIN project /\ project.ruleOff \in BOOLEAN
  BY DEF ReportInv, ProjectInv
<1>2. CASE SwitchRule
  BY <1>1, <1>2, OtherKeeps DEF SwitchRule
<1>3. CASE SwitchOff
  BY <1>1, <1>3, OtherKeeps DEF SwitchOff
<1>4. CASE UpgradeTool
  BY <1>1, <1>4, OtherKeeps DEF UpgradeTool
<1> QED  BY <1>2, <1>3, <1>4

\* A suppression is granted for an issue of the last snapshot.
LEMMA SuppressKeeps ==
  ASSUME ReportInv, Suppress
  PROVE  ReportInv'
<1>1. PICK i \in Last(scans).issues :
        Edit([project EXCEPT !.suppressions =
                WithSuppression(project.suppressions, Suppression(Last(scans), i))])
  BY DEF Suppress
<1>2. scans # <<>> /\ scans \in Seq(Range(scans)) /\ ProjectInv
  BY DEF Suppress, ReportInv, HistoryInv
<1>3. Len(scans) \in DOMAIN scans /\ Last(scans) = scans[Len(scans)]
  BY <1>2, LenProperties, EmptySeq DEF Last
<1> DEFINE s == Last(scans)
           x == Suppression(s, i)
           p == [project EXCEPT !.suppressions = WithSuppression(project.suppressions, x)]
<1>4. ScanInv(s)  BY <1>3 DEF ReportInv, HistoryInv
<1>5. i \in Items(s)  BY DEF Items
<1>6. x.file = i.file /\ x.line = i.line /\ x.hash = s.texts[i.file]  BY DEF Suppression
<1>7. s.texts[i.file] = s.of.text[i.file]  BY <1>4, <1>5 DEF ScanInv
<1>8. \A y \in WithSuppression(project.suppressions, x) : y \in project.suppressions \/ y = x
  BY DEF WithSuppression
<1>9. /\ DOMAIN p = DOMAIN project /\ p.ruleOff = project.ruleOff /\ p.text = project.text
      /\ p.suppressions = WithSuppression(project.suppressions, x)
  BY <1>2 DEF ProjectInv
<1>10. Edit(p)  BY <1>1
<1> HIDE DEF p, x, s
<1>11. /\ scans[Len(scans)].of.text[x.file] = x.hash
       /\ \E j \in Items(scans[Len(scans)]) : j.file = x.file /\ j.line = x.line
  BY <1>3, <1>5, <1>6, <1>7 DEF s
<1>12. \A y \in p.suppressions :
         \/ y \in project.suppressions
         \/ \E m \in DOMAIN scans : /\ scans[m].of.text[y.file] = y.hash
                                    /\ \E j \in Items(scans[m]) : j.file = y.file /\ j.line = y.line
  BY <1>3, <1>8, <1>9, <1>11
<1> QED  BY <1>2, <1>9, <1>10, <1>12, EditKeeps DEF ProjectInv

-----------------------------------------------------------------------------
(* The invariant *)

LEMMA ReportsStart == ReportInit => ReportInv
<1> SUFFICES ASSUME ReportInit
             PROVE  ReportInv
  OBVIOUS
<1>1. PICK t \in [Files -> UNION {Texts[f] : f \in Files}], C \in CommandSets :
        /\ \A f \in Files : t[f] \in Texts[f]
        /\ project = [present |-> Units, ignored |-> {}, text |-> t, including |-> Units,
                      broken |-> {}, commands |-> [u \in Units |-> C],
                      choice |-> [u \in Units |-> NoChoice], ruleOff |-> FALSE,
                      requested |-> TRUE, tool |-> "older", suppressions |-> {}]
  BY DEF ReportInit
<1>2. /\ {"text", "ruleOff", "suppressions"} \subseteq DOMAIN project
      /\ project.ruleOff = FALSE /\ project.suppressions = {} /\ project.text = t
  BY <1>1
<1>3. ProjectInv
  BY <1>1, <1>2, ReportsAssumption DEF ProjectInv
<1>4. PartInv  BY DEF ReportInit, PartInv, Idle
<1>5. HistoryInv
  <2>1. scans = <<>>  BY DEF ReportInit
  <2> QED  BY <2>1, EmptySeq DEF HistoryInv
<1>6. GrantInv  BY <1>2 DEF GrantInv
<1> QED  BY <1>3, <1>4, <1>5, <1>6 DEF ReportInv

LEMMA ReportsGoOn == ReportInv /\ [ReportNext]_reportVars => ReportInv'
<1> SUFFICES ASSUME ReportInv, [ReportNext]_reportVars
             PROVE  ReportInv'
  OBVIOUS
<1>1. CASE StartScan      BY <1>1, StartKeeps
<1>2. CASE Worker         BY <1>2, WorkKeeps
<1>3. CASE Caller         BY <1>3, TakeKeeps
<1>4. CASE SaveAnalysis   BY <1>4, SaveAnalysisKeeps
<1>5. CASE SaveInventory  BY <1>5, SaveInventoryKeeps
<1>6. CASE User
  BY <1>6, EditTextKeeps, UnitEditKeeps, SettingKeeps, SuppressKeeps DEF User
<1>7. CASE UNCHANGED reportVars
  <2>1. /\ project' = project /\ part' = part /\ merged' = merged /\ scans' = scans
        /\ phase' = phase
    BY <1>7 DEF reportVars
  <2>2. MergeInv(DOMAIN merged.units)' <=> MergeInv(DOMAIN merged.units)
    <3>1. MergedFrom(merged, DOMAIN merged.units)' <=> MergedFrom(merged, DOMAIN merged.units)
      BY <2>1, SameProject DEF MergedFrom
    <3> QED  BY <2>1, <3>1, SameProject DEF MergeInv
  <2>3. PartInv'  BY <2>1, <2>2, SameProject DEF ReportInv, PartInv
  <2> QED  BY <2>1, <2>3, SameProject, SameScans DEF ReportInv
<1> QED
  BY <1>1, <1>2, <1>3, <1>4, <1>5, <1>6, <1>7 DEF ReportNext

LEMMA ReportsAreSound == ReportSpec => []ReportInv
  BY ReportsStart, ReportsGoOn, PTL DEF ReportSpec

-----------------------------------------------------------------------------
(* The properties *)

\* A candidate for a fix is gone: of two sound snapshots, the newer one of this version.
LEMMA CandidateIsGone ==
  ASSUME NEW before, NEW after, ScanInv(before), ScanInv(after),
         after.ruleOff = after.of.ruleOff,
         NEW i \in Items(before), i \notin Items(after),
         Absent(before, after, i) = "not_detected"
  PROVE  GoneFrom(after, i)
<1> DEFINE old == [f \in Files |-> Readers(before, f)]
           now == [f \in Files |-> Readers(after, f)]
<1>1. /\ after.status # "not_requested" /\ after.ruleOff # TRUE
      /\ \E u \in DOMAIN after.units : /\ after.units[u].status = "success"
                                       /\ i.file \in after.units[u].covered
  BY NotDetected
<1>2. PICK w \in DOMAIN after.units : /\ after.units[w].status = "success"
                                      /\ i.file \in after.units[w].covered
  BY <1>1
<1>3. w \in Readers(after, i.file)
  BY <1>2 DEF ScanInv, Readers, Parsed
<1>4. Items(before) = FirstFindings(before.of, old) /\ Items(after) = FirstFindings(after.of, now)
  BY <1>1 DEF ScanInv, FirstInOrder
<1>5. ~after.of.ruleOff  BY <1>1 DEF ScanInv
<1>6. PICK f \in Files : \E x \in before.of.text[f], u \in First(old[f]) : i = Finding(f, x, u)
  BY <1>4 DEF FirstFindings
<1>7. PICK x \in before.of.text[f], u \in First(old[f]) : i = Finding(f, x, u)  BY <1>6
<1>8. /\ i.file = f /\ i.line = x.line /\ i.evidence = x.evidence
      /\ i.symbol.tu = IF f = Header THEN u ELSE NoUnit
  BY <1>7 DEF Finding, SymbolIn
<1>9. old[f] = Readers(before, f) /\ now[f] = Readers(after, f)  OBVIOUS
<1> HIDE DEF old, now
<1>10. u \in Units
  BY <1>7, <1>9 DEF First, Readers, Parsed, ScanInv, Ordered
<1>11. First(now[f]) # {}
  <2>1. w \in now[f]  BY <1>3, <1>8, <1>9
  <2>2. now[f] \subseteq DOMAIN after.units  BY <1>9 DEF Readers, Parsed
  <2> QED  BY <2>1, <2>2 DEF ScanInv, Ordered
<1>12. ASSUME [line |-> i.line, evidence |-> i.evidence] \in after.of.text[i.file]
       PROVE  /\ i.symbol.tu # NoUnit /\ Readers(after, i.file) # {}
              /\ i.symbol.tu \notin First(Readers(after, i.file))
  <2> DEFINE y == [line |-> i.line, evidence |-> i.evidence]
  <2>1. y \in after.of.text[f] /\ y.line = x.line /\ y.evidence = x.evidence
    BY <1>8, <1>12
  <2> HIDE DEF y
  <2>2. \A v \in First(now[f]) : Finding(f, y, v) \in Items(after)
    BY <1>4, <1>5, <1>6, <2>1 DEF FirstFindings
  <2>3. \A v : SymbolIn(v, f) = SymbolIn(u, f) => Finding(f, y, v) = i
    BY <1>7, <2>1 DEF Finding
  <2>4. \A v \in First(now[f]) : SymbolIn(v, f) # SymbolIn(u, f)
    BY <2>2, <2>3
  <2>5. f = Header
    BY <1>11, <2>4 DEF SymbolIn
  <2>6. u \notin First(now[f])  BY <2>4
  <2>7. u # NoUnit  BY <1>10, AnalysisAssumption DEF Units
  <2> QED  BY <1>3, <1>8, <1>9, <2>5, <2>6, <2>7
<1> QED  BY <1>12 DEF GoneFrom

\* A snapshot is a function of the project: whatever the units, their commands and their
\* contents are, and in whatever order they finish (core/parser/clang_analysis.cpp).
THEOREM MergeIsScheduleFree == ReportSpec => []AnalysisIsScheduleFree
<1>1. ReportInv => AnalysisIsScheduleFree
  BY DEF ReportInv, HistoryInv, ScanInv, AnalysisIsScheduleFree
<1> QED  BY <1>1, ReportsAreSound, PTL

\* "not_detected" is never the effect of a rule, a file, a unit, a command or a tool that
\* was there when the issue was found and is not now (core/report/comparison.cpp, absent).
THEOREM CandidatesAreGone == ReportSpec => []FixCandidatesAreGone
<1>1. ASSUME ReportInv
      PROVE  FixCandidatesAreGone
  <2> SUFFICES ASSUME NEW m \in DOMAIN scans, NEW n \in DOMAIN scans, m < n,
                      NEW c \in Compare(scans[m], scans[n]), c.status = "not_detected",
                      NEW i \in c.from
               PROVE  GoneFrom(scans[n], i)
    BY DEF FixCandidatesAreGone
  <2>1. ScanInv(scans[m]) /\ ScanInv(scans[n])
        /\ (n # 1 => scans[n].ruleOff = scans[n].of.ruleOff)
    BY <1>1 DEF ReportInv, HistoryInv
  <2>2. n # 1
    <3>1. DOMAIN scans = 1..Len(scans) /\ Len(scans) \in Nat
      BY <1>1, LenProperties DEF ReportInv, HistoryInv
    <3> QED  BY <3>1
  <2>3. /\ i \in Items(scans[m]) /\ i \notin Items(scans[n])
        /\ Absent(scans[m], scans[n], i) = "not_detected"
    BY CandidateHasNoPartner
  <2> QED  BY <2>1, <2>2, <2>3, CandidateIsGone
<1> QED  BY <1>1, ReportsAreSound, PTL

\* However the scans of a project differ, their comparison loses and repeats nothing.
THEOREM ObservationsAreCovered == ReportSpec => []EveryObservationHasItsChange
<1>1. EveryObservationHasItsChange
  BY ComparisonIsComplete DEF EveryObservationHasItsChange
<1> QED  BY <1>1, PTL

\* A suppression hides what the user saw in that text and nothing in any other
\* (core/analyzer/rules.cpp, apply_rule_policy).
THEOREM SuppressionsStay == ReportSpec => []SuppressionsStayWithTheirText
<1>1. ReportInv => SuppressionsStayWithTheirText
  BY DEF ReportInv, HistoryInv, SuppressionsStayWithTheirText
<1> QED  BY <1>1, ReportsAreSound, PTL


-----------------------------------------------------------------------------
(***************************************************************************)
(* The summary of a relation graph.  Induction over finite sets is the      *)
(* choice of a minimal one.                                                 *)
(***************************************************************************)

\* Of a family of finite sets one has no other of them inside.
LEMMA FamilyHasMinimal ==
  ASSUME NEW X, NEW F, F \subseteq FiniteSubsetsOf(X), F # {}
  PROVE  \E T \in F : \A U \in F : U \subseteq T => U = T
<1>1. PICK T \in F : \A U \in F : <<U, T>> \notin StrictSubsetOrdering(X)
  BY FS_StrictSubsetOrderingWellFounded, WFMin
<1>2. \A U \in F : U \in SUBSET X  BY DEF FiniteSubsetsOf
<1> QED  BY <1>1, <1>2 DEF StrictSubsetOrdering

LEMMA NatHasSmallest ==
  ASSUME NEW S, S \subseteq Nat, S # {}
  PROVE  \E n \in S : \A m \in S : n <= m
<1> DEFINE F == {1..n : n \in S}
<1>1. F \subseteq FiniteSubsetsOf(Nat)
  <2> SUFFICES ASSUME NEW n \in S PROVE 1..n \in FiniteSubsetsOf(Nat)
    OBVIOUS
  <2>1. n \in Nat /\ 1 \in Int /\ n \in Int  OBVIOUS
  <2>2. IsFiniteSet(1..n)  BY <2>1, FS_Interval
  <2>3. 1..n \subseteq Nat  BY <2>1
  <2> QED  BY <2>2, <2>3 DEF FiniteSubsetsOf
<1>2. F # {}  OBVIOUS
<1>3. PICK T \in F : \A U \in F : U \subseteq T => U = T
  <2> HIDE DEF F
  <2> QED  BY <1>1, <1>2, FamilyHasMinimal
<1>4. PICK n \in S : T = 1..n  BY <1>3
<1>5. ASSUME NEW m \in S, m < n PROVE FALSE
  <2>1. 1..m \subseteq 1..n /\ n \in 1..n /\ n \notin 1..m  BY <1>5
  <2> QED  BY <2>1, <1>3, <1>4
<1>6. \A m \in S : m \in Nat /\ n \in Nat  OBVIOUS
<1> QED  BY <1>5, <1>6

LEMMA SmallestIsLeast ==
  ASSUME NEW S, S \subseteq Nat, S # {}
  PROVE  Smallest(S) \in S /\ \A m \in S : Smallest(S) <= m
BY NatHasSmallest DEF Smallest

LEMMA VerticesAreNat == Vertices \subseteq Nat /\ IsFiniteSet(Vertices)
BY GraphAssumption

LEMMA ReachesItself == \A n \in Vertices : n \in Reach(n)
BY DEF Reach

LEMMA ReachInVertices == \A n : Reach(n) \subseteq Vertices
BY DEF Reach

LEMMA ReachIsClosed ==
  ASSUME NEW n, NEW a \in Reach(n), NEW b \in After(a)
  PROVE  b \in Reach(n)
BY DEF Reach, Closed, After

LEMMA ReachIsSmallest ==
  ASSUME NEW n, NEW S \in SUBSET Vertices, n \in S, Closed(S)
  PROVE  Reach(n) \subseteq S
BY DEF Reach

LEMMA ReachIsTransitive ==
  ASSUME NEW n, NEW a \in Reach(n)
  PROVE  Reach(a) \subseteq Reach(n)
<1>1. Closed(Reach(n))  BY ReachIsClosed DEF Closed
<1>2. Reach(n) \in SUBSET Vertices  BY ReachInVertices
<1> QED  BY <1>1, <1>2, ReachIsSmallest

\* Who reaches a node outside a set from inside it leaves it along an edge.
LEMMA ReachLeaves ==
  ASSUME NEW S, NEW x \in Vertices, x \in S, NEW n \in Reach(x), n \notin S
  PROVE  \E a \in S \cap Reach(x) : \E b \in After(a) : b \notin S /\ b \in Reach(x)
<1> DEFINE T == S \cap Reach(x)
<1>1. T \in SUBSET Vertices /\ x \in T  BY ReachesItself, ReachInVertices
<1>2. ~Closed(T)  BY <1>1, ReachIsSmallest
<1>3. PICK a \in T : \E b \in After(a) : b \notin T  BY <1>2 DEF Closed
<1> QED  BY <1>3, ReachIsClosed

(***************************************************************************)
(* Sequences                                                                *)
(***************************************************************************)

LEMMA FrontAndLast ==
  ASSUME NEW X, NEW s \in Seq(X), s # <<>>
  PROVE  /\ Front(s) \in Seq(X) /\ Len(Front(s)) = Len(s) - 1 /\ Len(s) > 0
         /\ \A i \in 1..(Len(s) - 1) : Front(s)[i] = s[i]
         /\ Last(s) = s[Len(s)] /\ Last(s) \in X
<1>1. Len(s) \in Nat /\ Len(s) # 0  BY EmptySeq, LenProperties
<1>2. DOMAIN s = 1..Len(s) /\ Len(s) \in 1..Len(s)  BY <1>1, LenProperties
<1>3. s[Len(s)] \in X  BY <1>2, ElementOfSeq
<1>4. 1 \in 1..(Len(s) + 1) /\ Len(s) - 1 \in (1 - 1)..Len(s)  BY <1>1
<1>5. /\ SubSeq(s, 1, Len(s) - 1) \in Seq(X)
      /\ Len(SubSeq(s, 1, Len(s) - 1)) = (Len(s) - 1) - 1 + 1
      /\ \A i \in 1..((Len(s) - 1) - 1 + 1) : SubSeq(s, 1, Len(s) - 1)[i] = s[1 + i - 1]
  BY <1>4, SubSeqProperties
<1> QED  BY <1>1, <1>3, <1>5 DEF Front, Last

LEMMA RangeOfFront ==
  ASSUME NEW X, NEW s \in Seq(X), s # <<>>
  PROVE  /\ Range(s) = Range(Front(s)) \cup {Last(s)}
         /\ Range(Front(s)) = {s[i] : i \in 1..(Len(s) - 1)}
<1>1. Len(s) \in Nat /\ Len(s) > 0 /\ DOMAIN s = 1..Len(s)
  BY FrontAndLast, LenProperties
<1>2. DOMAIN Front(s) = 1..(Len(s) - 1)  BY FrontAndLast, LenProperties
<1>3. \A i \in 1..(Len(s) - 1) : Front(s)[i] = s[i]  BY FrontAndLast
<1>4. Last(s) = s[Len(s)]  BY DEF Last
<1>5. Range(Front(s)) = {s[i] : i \in 1..(Len(s) - 1)}  BY <1>2, <1>3 DEF Range
<1>6. 1..Len(s) = 1..(Len(s) - 1) \cup {Len(s)}  BY <1>1
<1>7. Range(s) = {s[i] : i \in 1..Len(s)}  BY <1>1 DEF Range
<1>8. Range(s) = {s[i] : i \in 1..(Len(s) - 1)} \cup {s[Len(s)]}
  <2> HIDE <1>1
  <2> QED  BY <1>6, <1>7
<1> QED  BY <1>4, <1>5, <1>8

LEMMA RangeOfAppend ==
  ASSUME NEW X, NEW s \in Seq(X), NEW x \in X
  PROVE  /\ Append(s, x) \in Seq(X) /\ Len(Append(s, x)) = Len(s) + 1
         /\ \A i \in 1..Len(s) : Append(s, x)[i] = s[i]
         /\ Append(s, x)[Len(s) + 1] = x
         /\ Range(Append(s, x)) = Range(s) \cup {x}
<1>1. /\ Append(s, x) \in Seq(X) /\ Len(Append(s, x)) = Len(s) + 1
      /\ \A i \in 1..Len(s) : Append(s, x)[i] = s[i]
      /\ Append(s, x)[Len(s) + 1] = x
  BY AppendProperties
<1>2. Len(s) \in Nat /\ DOMAIN s = 1..Len(s) /\ DOMAIN Append(s, x) = 1..(Len(s) + 1)
  BY <1>1, LenProperties
<1> QED  BY <1>1, <1>2 DEF Range

\* No element is there twice.
Once(s) == \A i, j \in DOMAIN s : s[i] = s[j] => i = j

LEMMA OnceOfFront ==
  ASSUME NEW X, NEW s \in Seq(X), s # <<>>, Once(s)
  PROVE  Once(Front(s)) /\ Last(s) \notin Range(Front(s))
<1>1. Len(s) \in Nat /\ Len(s) > 0 /\ DOMAIN s = 1..Len(s)
  BY FrontAndLast, LenProperties
<1>2. DOMAIN Front(s) = 1..(Len(s) - 1)  BY FrontAndLast, LenProperties
<1>3. \A i \in 1..(Len(s) - 1) : Front(s)[i] = s[i]  BY FrontAndLast
<1>4. Last(s) = s[Len(s)]  BY DEF Last
<1>5. Once(Front(s))  BY <1>1, <1>2, <1>3 DEF Once
<1>6. \A i \in 1..(Len(s) - 1) : s[i] # s[Len(s)]  BY <1>1 DEF Once
<1> QED  BY <1>4, <1>5, <1>6, RangeOfFront

LEMMA OnceOfAppend ==
  ASSUME NEW X, NEW s \in Seq(X), NEW x \in X, Once(s), x \notin Range(s)
  PROVE  Once(Append(s, x))
<1>1. Len(s) \in Nat /\ DOMAIN s = 1..Len(s) /\ DOMAIN Append(s, x) = 1..(Len(s) + 1)
  BY RangeOfAppend, LenProperties
<1>2. \A i \in 1..Len(s) : s[i] # x  BY <1>1 DEF Range
<1>3. /\ \A i \in 1..Len(s) : Append(s, x)[i] = s[i]
      /\ Append(s, x)[Len(s) + 1] = x
  BY RangeOfAppend
<1>4. 1..(Len(s) + 1) = 1..Len(s) \cup {Len(s) + 1}  BY <1>1
<1> QED  BY <1>1, <1>2, <1>3, <1>4 DEF Once

(***************************************************************************)
(* The first walk                                                           *)
(***************************************************************************)

Class(n) == {m \in Reach(n) : n \in Reach(m)}

On(stack) == {stack[k].node : k \in DOMAIN stack}

\* When a node is finished, every edge from what is finished by then ends in what is
\* finished before it, or in an ancestor of it.
FinishFits(finish) ==
  \A k \in DOMAIN finish : \A i \in 1..k : \A v \in After(finish[i]) :
    (\E j \in 1..(k - 1) : finish[j] = v) \/ finish[k] \in Reach(v)

\* Each node on the stack is reached from those below it, and looks at its successors.
StackFits(seen, stack) ==
  /\ \A j, k \in DOMAIN stack : stack[j].node = stack[k].node => j = k
  /\ \A k \in DOMAIN stack : \A j \in 1..k : stack[k].node \in Reach(stack[j].node)
  /\ \A k \in DOMAIN stack : /\ stack[k].cursor \subseteq After(stack[k].node)
                            /\ After(stack[k].node) \subseteq seen \cup stack[k].cursor

VisitInv(seen, stack, finish) ==
  /\ seen = On(stack) \cup Range(finish)
  /\ On(stack) \cap Range(finish) = {}
  /\ StackFits(seen, stack)
  /\ \A n \in Range(finish) : After(n) \subseteq seen
  /\ Once(finish) /\ FinishFits(finish)

Frames == [node : Vertices, cursor : SUBSET Vertices]

LEMMA PushFields ==
  ASSUME NEW stack \in Seq(Frames), NEW f \in Frames
  PROVE  /\ Append(stack, f) \in Seq(Frames)
         /\ DOMAIN stack = 1..Len(stack) /\ Len(stack) \in Nat
         /\ DOMAIN Append(stack, f) = 1..(Len(stack) + 1)
         /\ \A k \in 1..Len(stack) : Append(stack, f)[k] = stack[k]
         /\ Append(stack, f)[Len(stack) + 1] = f
         /\ On(Append(stack, f)) = On(stack) \cup {f.node}
<1>1. /\ Append(stack, f) \in Seq(Frames)
      /\ \A k \in 1..Len(stack) : Append(stack, f)[k] = stack[k]
      /\ Append(stack, f)[Len(stack) + 1] = f
      /\ Len(Append(stack, f)) = Len(stack) + 1
  BY RangeOfAppend
<1>2. /\ DOMAIN stack = 1..Len(stack) /\ Len(stack) \in Nat
      /\ DOMAIN Append(stack, f) = 1..(Len(stack) + 1)
  BY <1>1, LenProperties
<1>3. On(Append(stack, f)) = {Append(stack, f)[k].node : k \in 1..(Len(stack) + 1)}
  BY <1>2 DEF On
<1>4. 1..(Len(stack) + 1) = 1..Len(stack) \cup {Len(stack) + 1}  BY <1>2
<1>5. On(stack) = {stack[k].node : k \in 1..Len(stack)}  BY <1>2 DEF On
<1>6. On(Append(stack, f)) = On(stack) \cup {f.node}  BY <1>1, <1>3, <1>4, <1>5
<1> QED  BY <1>1, <1>2, <1>6

\* The stack with n taken from cursors.
Moved(stack, new, n) ==
  /\ DOMAIN new = DOMAIN stack
  /\ \A k \in DOMAIN stack : /\ new[k].node = stack[k].node
                            /\ new[k].cursor \subseteq stack[k].cursor
                            /\ stack[k].cursor \subseteq new[k].cursor \cup {n}

\* The top of the stack moves on to its next successor.
LEMMA CursorMoves ==
  ASSUME NEW stack \in Seq(Frames), stack # <<>>, NEW child,
         NEW new, new = [stack EXCEPT ![Len(stack)].cursor = @ \ {child}]
  PROVE  new \in Seq(Frames) /\ new # <<>> /\ Moved(stack, new, child)
<1>1. Len(stack) \in Nat /\ DOMAIN stack = 1..Len(stack) /\ Len(stack) \in DOMAIN stack
  BY FrontAndLast, LenProperties
<1>2. \A k \in 1..Len(stack) : stack[k] \in Frames  BY <1>1, ElementOfSeq
<1>3. new \in Seq(Frames) /\ Len(new) = Len(stack)
  <2>1. [stack[Len(stack)] EXCEPT !.cursor = @ \ {child}] \in Frames  BY <1>1, <1>2 DEF Frames
  <2> QED  BY <1>1, <2>1, ExceptSeq
<1>4. DOMAIN new = 1..Len(stack)  BY <1>3, LenProperties
<1>5. \A k \in 1..Len(stack) : /\ new[k].node = stack[k].node
                              /\ new[k].cursor \subseteq stack[k].cursor
                              /\ stack[k].cursor \subseteq new[k].cursor \cup {child}
  BY <1>1, <1>2 DEF Frames
<1> QED  BY <1>1, <1>3, <1>4, <1>5, EmptySeq DEF Moved

\* A node that has not been seen, and is a root or a successor of the top, is entered.
LEMMA EnterKeeps ==
  ASSUME NEW seen \in SUBSET Vertices, NEW old \in Seq(Frames), NEW finish \in Seq(Vertices),
         VisitInv(seen, old, finish),
         NEW n \in Vertices, n \notin seen,
         \A k \in DOMAIN old : n \in Reach(old[k].node),
         NEW stack \in Seq(Frames), Moved(old, stack, n)
  PROVE  VisitInv(seen \cup {n}, Append(stack, [node |-> n, cursor |-> After(n)]), finish)
<1> DEFINE f == [node |-> n, cursor |-> After(n)]
           new == Append(stack, f)
<1>1. f \in Frames  BY DEF Frames, After
<1>2. /\ DOMAIN stack = 1..Len(stack) /\ Len(stack) \in Nat
      /\ DOMAIN new = 1..(Len(stack) + 1)
      /\ \A k \in 1..Len(stack) : new[k] = stack[k]
      /\ new[Len(stack) + 1] = f
      /\ On(new) = On(stack) \cup {n}
  BY <1>1, PushFields
<1>3. On(stack) = On(old)  BY DEF Moved, On
<1>4. n \notin On(stack) /\ n \notin Range(finish)  BY <1>3 DEF VisitInv
<1>5. /\ \A j, k \in DOMAIN stack : stack[j].node = stack[k].node => j = k
      /\ \A k \in DOMAIN stack : \A j \in 1..k : stack[k].node \in Reach(stack[j].node)
      /\ \A k \in DOMAIN stack : n \in Reach(stack[k].node)
  <2>1. \A k \in DOMAIN stack : \A j \in 1..k : j \in DOMAIN stack  BY <1>2
  <2> QED  BY <2>1 DEF VisitInv, StackFits, Moved
<1>6. \A k \in DOMAIN stack :
        /\ stack[k].cursor \subseteq After(stack[k].node)
        /\ After(stack[k].node) \subseteq (seen \cup {n}) \cup stack[k].cursor
  <2> SUFFICES ASSUME NEW k \in DOMAIN stack
               PROVE  /\ stack[k].cursor \subseteq After(stack[k].node)
                      /\ After(stack[k].node) \subseteq (seen \cup {n}) \cup stack[k].cursor
    OBVIOUS
  <2>1. /\ k \in DOMAIN old /\ stack[k].node = old[k].node
        /\ stack[k].cursor \subseteq old[k].cursor
        /\ old[k].cursor \subseteq stack[k].cursor \cup {n}
    BY DEF Moved
  <2>2. /\ old[k].cursor \subseteq After(old[k].node)
        /\ After(old[k].node) \subseteq seen \cup old[k].cursor
    BY <2>1 DEF VisitInv, StackFits
  <2> QED  BY <2>1, <2>2
<1>7. StackFits(seen \cup {n}, new)
  <2>1. \A j, k \in DOMAIN new : new[j].node = new[k].node => j = k
    <3>1. \A j \in 1..Len(stack) : stack[j].node # n  BY <1>2, <1>4 DEF On
    <3> QED  BY <1>2, <1>5, <3>1
  <2>2. ASSUME NEW k \in DOMAIN new, NEW j \in 1..k
        PROVE  new[k].node \in Reach(new[j].node)
    <3>1. CASE k \in 1..Len(stack)  BY <1>2, <1>5, <3>1
    <3>2. CASE k = Len(stack) + 1 /\ j \in 1..Len(stack)  BY <1>2, <1>5, <3>2
    <3>3. CASE k = Len(stack) + 1 /\ j = k  BY <1>2, <3>3, ReachesItself
    <3> QED  BY <1>2, <3>1, <3>2, <3>3
  <2>3. ASSUME NEW k \in DOMAIN new
        PROVE  /\ new[k].cursor \subseteq After(new[k].node)
               /\ After(new[k].node) \subseteq (seen \cup {n}) \cup new[k].cursor
    BY <1>2, <1>6
  <2> HIDE DEF new
  <2> QED  BY <2>1, <2>2, <2>3 DEF StackFits
<1>8. VisitInv(seen \cup {n}, new, finish)
  <2> HIDE DEF new
  <2>1. \A m \in Range(finish) : After(m) \subseteq seen \cup {n}  BY DEF VisitInv
  <2>2. seen \cup {n} = On(new) \cup Range(finish) /\ On(new) \cap Range(finish) = {}
    BY <1>2, <1>3, <1>4 DEF VisitInv
  <2> QED  BY <1>7, <2>1, <2>2 DEF VisitInv
<1> QED  BY <1>8

\* A child that has been seen is passed.
LEMMA PassKeeps ==
  ASSUME NEW seen \in SUBSET Vertices, NEW stack \in Seq(Frames), NEW finish \in Seq(Vertices),
         VisitInv(seen, stack, finish),
         NEW child \in seen, NEW new \in Seq(Frames), Moved(stack, new, child)
  PROVE  VisitInv(seen, new, finish)
<1>1. On(new) = On(stack)  BY DEF Moved, On
<1>2. StackFits(seen, new)
  <2>1. StackFits(seen, stack)  BY DEF VisitInv
  <2>2. DOMAIN new = 1..Len(new) /\ Len(new) \in Nat  BY LenProperties
  <2>3. \A k \in DOMAIN new : \A j \in 1..k : j \in DOMAIN new  BY <2>2
  <2>4. \A k \in DOMAIN new : After(new[k].node) \subseteq seen \cup new[k].cursor
    BY <2>1 DEF StackFits, Moved
  <2>5. \A k \in DOMAIN new : new[k].cursor \subseteq After(new[k].node)
    BY <2>1 DEF StackFits, Moved
  <2>6. \A k \in DOMAIN new : \A j \in 1..k : new[k].node \in Reach(new[j].node)
    BY <2>1, <2>3 DEF StackFits, Moved
  <2>7. \A j, k \in DOMAIN new : new[j].node = new[k].node => j = k
    BY <2>1 DEF StackFits, Moved
  <2> QED  BY <2>4, <2>5, <2>6, <2>7 DEF StackFits
<1> QED  BY <1>1, <1>2 DEF VisitInv

\* The top has looked at all its successors and is finished.
LEMMA LeaveKeeps ==
  ASSUME NEW seen \in SUBSET Vertices, NEW stack \in Seq(Frames), NEW finish \in Seq(Vertices),
         VisitInv(seen, stack, finish), stack # <<>>, Last(stack).cursor = {}
  PROVE  VisitInv(seen, Front(stack), Append(finish, Last(stack).node))
<1> DEFINE n == Last(stack).node
           top == Len(stack)
           new == Front(stack)
           longer == Append(finish, n)
<1>1. /\ top \in Nat /\ DOMAIN stack = 1..top /\ top \in DOMAIN stack /\ top > 0
      /\ Last(stack) = stack[top] /\ Last(stack) \in Frames
  BY FrontAndLast, LenProperties
<1>2. n \in Vertices /\ n = stack[top].node  BY <1>1 DEF Frames
<1>3. /\ new \in Seq(Frames) /\ DOMAIN new = 1..(top - 1)
      /\ \A k \in 1..(top - 1) : new[k] = stack[k]
  BY FrontAndLast, LenProperties
<1>4. On(stack) = On(new) \cup {n} /\ n \notin On(new)
  <2>1. On(stack) = {stack[k].node : k \in 1..top}  BY <1>1 DEF On
  <2>2. On(new) = {stack[k].node : k \in 1..(top - 1)}  BY <1>3 DEF On
  <2>3. 1..top = 1..(top - 1) \cup {top}  BY <1>1
  <2>4. ASSUME NEW k \in 1..(top - 1), stack[k].node = n PROVE FALSE
    <3>1. top \in Nat /\ DOMAIN stack = 1..top  BY <1>1
    <3>2. k \in 1..top /\ k # top
      <4> HIDE DEF top
      <4> QED  BY <3>1
    <3> QED  BY <1>1, <1>2, <2>4, <3>1, <3>2 DEF VisitInv, StackFits
  <2> HIDE DEF new, n
  <2> QED  BY <1>2, <2>1, <2>2, <2>3, <2>4
<1>5. n \notin Range(finish)  BY <1>4 DEF VisitInv
<1>6. /\ longer \in Seq(Vertices) /\ Len(finish) \in Nat /\ DOMAIN finish = 1..Len(finish)
      /\ DOMAIN longer = 1..(Len(finish) + 1)
      /\ \A i \in 1..Len(finish) : longer[i] = finish[i]
      /\ longer[Len(finish) + 1] = n
      /\ Range(longer) = Range(finish) \cup {n}
      /\ Once(longer)
  BY <1>2, <1>5, RangeOfAppend, OnceOfAppend, LenProperties DEF VisitInv
<1>7. StackFits(seen, new)
  <2> HIDE DEF new
  <2>1. StackFits(seen, stack)  BY DEF VisitInv
  <2>2. \A k \in DOMAIN new : k \in DOMAIN stack /\ new[k] = stack[k]  BY <1>1, <1>3
  <2>3. \A k \in DOMAIN new : \A j \in 1..k : j \in DOMAIN new  BY <1>1, <1>3
  <2> QED  BY <2>1, <2>2, <2>3 DEF StackFits
<1>8. After(n) \subseteq seen  BY <1>1, <1>2 DEF VisitInv, StackFits
<1>9. FinishFits(longer)
  <2> SUFFICES ASSUME NEW k \in DOMAIN longer, NEW i \in 1..k, NEW v \in After(longer[i])
               PROVE  (\E j \in 1..(k - 1) : longer[j] = v) \/ longer[k] \in Reach(v)
    BY DEF FinishFits
  <2>1. CASE k \in 1..Len(finish)
    <3>1. FinishFits(finish)  BY DEF VisitInv
    <3>2. i \in 1..Len(finish) /\ \A j \in 1..(k - 1) : j \in 1..Len(finish)  BY <1>6, <2>1
    <3> QED  BY <1>6, <2>1, <3>1, <3>2 DEF FinishFits
  <2>2. CASE k = Len(finish) + 1
    <3>1. v \in seen
      <4>1. CASE i = k  BY <1>6, <1>8, <2>2, <4>1
      <4>2. CASE i \in 1..Len(finish)  BY <1>6, <4>2 DEF VisitInv, Range
      <4> QED  BY <1>6, <2>2, <4>1, <4>2
    <3>2. CASE v \in Range(finish)
      <4>1. PICK j \in 1..Len(finish) : finish[j] = v  BY <1>6, <3>2 DEF Range
      <4> QED  BY <1>6, <2>2, <4>1
    <3>3. CASE v \in On(stack)
      <4>1. PICK j \in 1..top : stack[j].node = v  BY <1>1, <3>3 DEF On
      <4>2. n \in Reach(v)  BY <1>1, <1>2, <4>1 DEF VisitInv, StackFits
      <4> QED  BY <1>6, <2>2, <4>2
    <3> QED  BY <3>1, <3>2, <3>3 DEF VisitInv
  <2> QED  BY <1>6, <2>1, <2>2
<1> HIDE DEF new, longer
<1>10. seen = On(new) \cup Range(longer) /\ On(new) \cap Range(longer) = {}
  BY <1>4, <1>6 DEF VisitInv
<1>11. \A m \in Range(longer) : After(m) \subseteq seen  BY <1>6, <1>8 DEF VisitInv
<1>12. VisitInv(seen, new, longer)  BY <1>6, <1>7, <1>9, <1>10, <1>11 DEF VisitInv
<1> QED  BY <1>12 DEF new, longer

(***************************************************************************)
(* The second walk                                                          *)
(***************************************************************************)

LEMMA FinishFitsFront ==
  ASSUME NEW finish \in Seq(Vertices), finish # <<>>, FinishFits(finish)
  PROVE  FinishFits(Front(finish))
<1>1. Len(finish) \in Nat /\ Len(finish) > 0 /\ DOMAIN finish = 1..Len(finish)
  BY FrontAndLast, LenProperties
<1>2. DOMAIN Front(finish) = 1..(Len(finish) - 1)  BY FrontAndLast, LenProperties
<1>3. \A i \in 1..(Len(finish) - 1) : Front(finish)[i] = finish[i]  BY FrontAndLast
<1> SUFFICES ASSUME NEW k \in DOMAIN Front(finish), NEW i \in 1..k,
                    NEW v \in After(Front(finish)[i])
             PROVE  \/ \E j \in 1..(k - 1) : Front(finish)[j] = v
                    \/ Front(finish)[k] \in Reach(v)
  BY DEF FinishFits
<1>4. k \in DOMAIN finish /\ i \in 1..(Len(finish) - 1)  BY <1>1, <1>2
<1>5. \A j \in 1..(k - 1) : Front(finish)[j] = finish[j]  BY <1>2, <1>3
<1> QED  BY <1>2, <1>3, <1>4, <1>5 DEF FinishFits

\* What has not been gathered, and has an edge to a node from which the root is reached,
\* is reached from that node.
LEMMA BackwardIsMutual ==
  ASSUME NEW finish \in Seq(Vertices), FinishFits(finish),
         NEW x \in Vertices, NEW n \in Reach(x), n \notin Range(finish),
         NEW m \in Range(finish), m \in Before(x)
  PROVE  m \in Reach(x)
<1>1. DOMAIN finish = 1..Len(finish) /\ Len(finish) \in Nat  BY LenProperties
<1>2. PICK k \in DOMAIN finish : finish[k] = m  BY DEF Range
<1>3. x \in After(m)  BY DEF After, Before
<1> DEFINE S == {finish[j] : j \in 1..(k - 1)}
<1>4. CASE x \in S
  <2>1. n \notin S  BY <1>1, <1>2 DEF Range
  <2>2. PICK a \in S \cap Reach(x) : \E b \in After(a) : b \notin S /\ b \in Reach(x)
    <3> HIDE DEF S
    <3> QED  BY <1>4, <2>1, ReachLeaves
  <2>3. PICK b \in After(a) : b \notin S /\ b \in Reach(x)  BY <2>2
  <2>4. PICK i \in 1..(k - 1) : finish[i] = a  BY <2>2
  <2>5. i \in 1..k  BY <1>1, <1>2, <2>4
  <2>6. m \in Reach(b)  BY <1>2, <2>3, <2>4, <2>5 DEF FinishFits
  <2> QED  BY <2>3, <2>6, ReachIsTransitive
<1>5. CASE x \notin S
  <2>1. k \in 1..k  BY <1>1, <1>2
  <2> QED  BY <1>2, <1>3, <1>5, <2>1 DEF FinishFits
<1> QED  BY <1>4, <1>5

Gathered(gathering, component) == component \cup Range(gathering)

\* The component that is being gathered, and what is complete.
GatherInv(seen, finish, gathering, cursor, component, components) ==
  LET taken == Gathered(gathering, component)
      done == UNION components
  IN /\ seen = done \cup taken /\ taken \cap done = {}
     /\ Vertices = seen \cup Range(finish)
     /\ \A x, y \in taken : y \in Reach(x)
     /\ \A x \in component : Before(x) \subseteq seen \cup cursor
     /\ cursor # {} => \E x \in component : cursor \subseteq Before(x)
     /\ taken # {} => \E n \in taken : n \notin Range(finish)
     /\ \A x \in done : Before(x) \subseteq done
     /\ \A C \in components : C # {} /\ \A x \in C : C = Class(x)
     /\ Once(finish) /\ FinishFits(finish)

LEMMA GatheringStarts ==
  ASSUME NEW finish \in Seq(Vertices), VisitInv(Vertices, <<>>, finish)
  PROVE  GatherInv({}, finish, <<>>, {}, {}, {})
<1>1. On(<<>>) = {} /\ Range(<<>>) = {}  BY DEF On, Range
<1>2. Vertices = Range(finish) /\ Once(finish) /\ FinishFits(finish)  BY <1>1 DEF VisitInv
<1> QED  BY <1>1, <1>2 DEF GatherInv, Gathered

LEMMA NextComponentKeeps ==
  ASSUME NEW seen \in SUBSET Vertices, NEW finish \in Seq(Vertices),
         NEW components \in SUBSET SUBSET Vertices,
         GatherInv(seen, finish, <<>>, {}, {}, components), finish # <<>>,
         NEW n, n = Last(finish),
         NEW gathering, gathering = IF n \in seen THEN <<>> ELSE <<n>>
  PROVE  GatherInv(seen \cup {n}, Front(finish), gathering, {}, {}, components)
<1>1. Range(finish) = Range(Front(finish)) \cup {n} /\ n \in Vertices
  BY RangeOfFront, FrontAndLast
<1>2. Once(Front(finish)) /\ n \notin Range(Front(finish))  BY OnceOfFront DEF GatherInv
<1>3. FinishFits(Front(finish))  BY FinishFitsFront DEF GatherInv
<1>4. Range(<<>>) = {} /\ Range(<<n>>) = {n}  BY DEF Range
<1>5. CASE n \in seen
  <2>1. seen \cup {n} = seen  BY <1>5
  <2> QED  BY <1>1, <1>2, <1>3, <1>4, <1>5, <2>1 DEF GatherInv, Gathered
<1>6. CASE n \notin seen
  <2>1. n \in Reach(n)  BY <1>1, ReachesItself
  <2>2. Gathered(<<n>>, {}) = {n} /\ Gathered(<<>>, {}) = {}  BY <1>4 DEF Gathered
  <2>3. GatherInv(seen \cup {n}, Front(finish), <<n>>, {}, {}, components)
    BY <1>1, <1>2, <1>3, <1>6, <2>1, <2>2 DEF GatherInv
  <2> QED  BY <1>6, <2>3
<1> QED  BY <1>5, <1>6

LEMMA GatherKeeps ==
  ASSUME NEW seen \in SUBSET Vertices, NEW finish \in Seq(Vertices),
         NEW gathering \in Seq(Vertices), NEW component \in SUBSET Vertices,
         NEW components \in SUBSET SUBSET Vertices,
         GatherInv(seen, finish, gathering, {}, component, components), gathering # <<>>,
         NEW n, n = Last(gathering), NEW larger, larger = component \cup {n}
  PROVE  GatherInv(seen, finish, Front(gathering), Before(n), larger, components)
<1>1. Range(gathering) = Range(Front(gathering)) \cup {n}  BY RangeOfFront
<1>2. Gathered(Front(gathering), component \cup {n}) = Gathered(gathering, component)
  BY <1>1 DEF Gathered
<1>3. \A x \in component \cup {n} : Before(x) \subseteq seen \cup Before(n)
  BY DEF GatherInv
<1> QED  BY <1>2, <1>3 DEF GatherInv

LEMMA ChildKeeps ==
  ASSUME NEW seen \in SUBSET Vertices, NEW finish \in Seq(Vertices),
         NEW gathering \in Seq(Vertices), NEW cursor \in SUBSET Vertices,
         NEW component \in SUBSET Vertices, NEW components \in SUBSET SUBSET Vertices,
         GatherInv(seen, finish, gathering, cursor, component, components),
         NEW child \in cursor
  PROVE  /\ child \in seen =>
              GatherInv(seen, finish, gathering, cursor \ {child}, component, components)
         /\ child \notin seen =>
              GatherInv(seen \cup {child}, finish, Append(gathering, child), cursor \ {child},
                        component, components)
<1>1. CASE child \in seen
  <2>1. seen \cup cursor = seen \cup (cursor \ {child})  BY <1>1
  <2>2. cursor \ {child} # {} => \E x \in component : cursor \ {child} \subseteq Before(x)
    BY DEF GatherInv
  <2> QED  BY <1>1, <2>1, <2>2 DEF GatherInv
<1>2. CASE child \notin seen
  <2> DEFINE taken == Gathered(gathering, component)
             new == Append(gathering, child)
  <2>1. Range(new) = Range(gathering) \cup {child}  BY RangeOfAppend
  <2>2. Gathered(new, component) = taken \cup {child}  BY <2>1 DEF Gathered
  <2>3. PICK x \in component : cursor \subseteq Before(x)  BY DEF GatherInv
  <2>4. x \in taken /\ x \in Vertices /\ child \in Before(x) /\ x \in After(child)
    BY <2>3 DEF Gathered, Before, After
  <2>5. PICK n \in taken : n \notin Range(finish)  BY <2>4 DEF GatherInv
  <2>6. child \in Range(finish)  BY <1>2 DEF GatherInv
  <2>7. n \in Reach(x)  BY <2>4, <2>5 DEF GatherInv
  <2>8. child \in Reach(x)
    BY <2>4, <2>5, <2>6, <2>7, BackwardIsMutual DEF GatherInv
  <2>9. x \in Reach(child)  BY <2>4, ReachesItself, ReachIsClosed
  <2>10. ASSUME NEW y \in taken PROVE y \in Reach(child) /\ child \in Reach(y)
    <3>1. y \in Reach(x) /\ x \in Reach(y)  BY <2>4 DEF GatherInv
    <3> QED  BY <2>8, <2>9, <3>1, ReachIsTransitive
  <2>11. child \in Reach(child)  BY ReachesItself
  <2>12. \A y, z \in taken \cup {child} : z \in Reach(y)  BY <2>10, <2>11 DEF GatherInv
  <2>13. seen \cup cursor = (seen \cup {child}) \cup (cursor \ {child})  OBVIOUS
  <2>14. child \notin UNION components /\ child \notin taken  BY <1>2 DEF GatherInv
  <2>15. cursor \ {child} # {} => \E z \in component : cursor \ {child} \subseteq Before(z)
    BY <2>3
  <2>16. /\ seen = (UNION components) \cup taken /\ taken \cap UNION components = {}
         /\ Vertices = seen \cup Range(finish)
         /\ \A z \in component : Before(z) \subseteq seen \cup cursor
         /\ \A z \in UNION components : Before(z) \subseteq UNION components
         /\ \A C \in components : C # {} /\ \A z \in C : C = Class(z)
         /\ Once(finish) /\ FinishFits(finish)
    BY DEF GatherInv
  <2> HIDE DEF taken, new
  <2>17. /\ seen \cup {child} = (UNION components) \cup (taken \cup {child})
         /\ (taken \cup {child}) \cap UNION components = {}
         /\ Vertices = (seen \cup {child}) \cup Range(finish)
    BY <2>6, <2>14, <2>16
  <2>18. \A z \in component : Before(z) \subseteq (seen \cup {child}) \cup (cursor \ {child})
    BY <2>13, <2>16
  <2>19. GatherInv(seen \cup {child}, finish, new, cursor \ {child}, component, components)
    BY <2>2, <2>5, <2>12, <2>15, <2>16, <2>17, <2>18 DEF GatherInv
  <2> QED  BY <1>2, <2>19 DEF new
<1> QED  BY <1>1, <1>2

\* What has no predecessor left outside is the whole class.
LEMMA CloseKeeps ==
  ASSUME NEW seen \in SUBSET Vertices, NEW finish \in Seq(Vertices),
         NEW component \in SUBSET Vertices, NEW components \in SUBSET SUBSET Vertices,
         GatherInv(seen, finish, <<>>, {}, component, components), component # {}
  PROVE  GatherInv(seen, finish, <<>>, {}, {}, components \cup {component})
<1> DEFINE done == UNION components
<1>1. Range(<<>>) = {}  BY DEF Range
<1>2. Gathered(<<>>, component) = component /\ Gathered(<<>>, {}) = {}  BY <1>1 DEF Gathered
<1>3. /\ seen = done \cup component /\ component \cap done = {}
      /\ \A x, y \in component : y \in Reach(x)
      /\ \A x \in component : Before(x) \subseteq seen
      /\ \A x \in done : Before(x) \subseteq done
      /\ \A C \in components : C # {} /\ \A x \in C : C = Class(x)
      /\ Vertices = seen \cup Range(finish) /\ Once(finish) /\ FinishFits(finish)
  BY <1>2 DEF GatherInv
<1>4. Closed(Vertices \ seen)
  <2> SUFFICES ASSUME NEW a \in Vertices \ seen, NEW b \in After(a) PROVE b \in Vertices \ seen
    BY DEF Closed
  <2>1. b \in Vertices /\ a \in Before(b)  BY DEF After, Before
  <2> QED  BY <1>3, <2>1
<1>5. ASSUME NEW x \in component PROVE component = Class(x)
  <2>1. component \subseteq Class(x)  BY <1>3 DEF Class
  <2>2. ASSUME NEW y \in Class(x), y \notin component PROVE FALSE
    <3>1. y \in Vertices /\ x \in Reach(y) /\ y \in Reach(x)  BY <2>2, ReachInVertices DEF Class
    <3>2. CASE y \notin seen
      <4>1. Reach(y) \subseteq Vertices \ seen  BY <1>4, <3>1, <3>2, ReachIsSmallest
      <4> QED  BY <1>3, <3>1, <4>1
    <3>3. CASE y \in seen
      <4>1. PICK C \in components : y \in C  BY <1>3, <2>2, <3>3
      <4>2. C = Class(y)  BY <1>3, <4>1
      <4>3. x \in C  BY <3>1, <4>2 DEF Class
      <4> QED  BY <1>3, <4>1, <4>3
    <3> QED  BY <3>2, <3>3
  <2> QED  BY <2>1, <2>2
<1>6. UNION (components \cup {component}) = seen  BY <1>3
<1>7. \A x \in seen : Before(x) \subseteq seen  BY <1>3
<1>8. \A C \in components \cup {component} : C # {} /\ \A x \in C : C = Class(x)
  BY <1>3, <1>5
<1> QED  BY <1>2, <1>3, <1>6, <1>7, <1>8 DEF GatherInv

Classes == {Class(n) : n \in Vertices}

LEMMA GatheringEnds ==
  ASSUME NEW seen, NEW components,
         GatherInv(seen, <<>>, <<>>, {}, {}, components)
  PROVE  components = Classes
<1>1. Range(<<>>) = {}  BY DEF Range
<1>2. UNION components = Vertices  BY <1>1 DEF GatherInv, Gathered
<1>3. \A C \in components : C # {} /\ \A x \in C : C = Class(x)  BY DEF GatherInv
<1>4. components \subseteq Classes
  <2> SUFFICES ASSUME NEW C \in components PROVE C \in Classes
    OBVIOUS
  <2>1. PICK x \in C : C = Class(x)  BY <1>3
  <2> QED  BY <1>2, <2>1 DEF Classes
<1>5. ASSUME NEW n \in Vertices PROVE Class(n) \in components
  <2>1. PICK C \in components : n \in C  BY <1>2
  <2> QED  BY <1>3, <2>1
<1> QED  BY <1>4, <1>5 DEF Classes

(***************************************************************************)
(* The topological order                                                    *)
(***************************************************************************)

Earlier(order, k) == {order[j] : j \in 1..(k - 1)}

Sources(done) == {n \in Vertices \ done : Before(n) \subseteq done}

\* What is in order was ready in its turn, and was the smallest that was.
PeelInv(incoming, ready, order) ==
  /\ Once(order)
  /\ \A m \in Vertices : incoming[m] = Cardinality(Before(m) \ Range(order))
  /\ ready = Sources(Range(order))
  /\ \A k \in DOMAIN order :
       /\ order[k] \in Sources(Earlier(order, k))
       /\ order[k] = Smallest(Sources(Earlier(order, k)))

LEMMA BeforeIsFinite ==
  ASSUME NEW m, NEW R
  PROVE  Before(m) \subseteq Vertices /\ IsFiniteSet(Before(m)) /\ IsFiniteSet(Before(m) \ R)
<1>1. Before(m) \in SUBSET Vertices /\ Before(m) \ R \in SUBSET Vertices  BY DEF Before
<1> QED  BY <1>1, VerticesAreNat, FS_Subset

LEMMA PeelStarts ==
  PeelInv([n \in Vertices |-> Cardinality(Before(n))], {n \in Vertices : Before(n) = {}}, <<>>)
<1>1. Range(<<>>) = {} /\ DOMAIN <<>> = {}  BY DEF Range
<1>2. \A m : Before(m) \ {} = Before(m)  OBVIOUS
<1>3. {n \in Vertices : Before(n) = {}} = Sources({})  BY DEF Sources
<1> QED  BY <1>1, <1>2, <1>3 DEF PeelInv, Once

LEMMA PeelKeeps ==
  ASSUME NEW incoming, NEW ready, NEW order \in Seq(Vertices),
         PeelInv(incoming, ready, order), ready # {},
         NEW n, n = Smallest(ready),
         NEW left,
         \A m \in After(n) : left[m] = incoming[m] - 1,
         \A m \in Vertices \ After(n) : left[m] = incoming[m],
         NEW next,
         \A m : m \in next <=> (m \in ready /\ m # n) \/ (m \in After(n) /\ left[m] = 0)
  PROVE  PeelInv(left, next, Append(order, n))
<1> DEFINE R == Range(order)
           new == Append(order, n)
<1>1. ready = Sources(R) /\ ready \subseteq Nat  BY VerticesAreNat DEF PeelInv, Sources
<1>2. n \in Sources(R)  BY <1>1, SmallestIsLeast
<1>3. n \in Vertices /\ n \notin R /\ Before(n) \subseteq R /\ n \notin Before(n)
  BY <1>2 DEF Sources
<1>4. /\ new \in Seq(Vertices) /\ Len(order) \in Nat /\ DOMAIN order = 1..Len(order)
      /\ DOMAIN new = 1..(Len(order) + 1)
      /\ \A i \in 1..Len(order) : new[i] = order[i]
      /\ new[Len(order) + 1] = n
      /\ Range(new) = R \cup {n}
      /\ Once(new)
  BY <1>3, RangeOfAppend, OnceOfAppend, LenProperties DEF PeelInv
<1>5. \A m \in Vertices : m \in After(n) <=> n \in Before(m)  BY <1>3 DEF After, Before
<1>6. ASSUME NEW m \in Vertices
      PROVE  /\ left[m] = Cardinality(Before(m) \ (R \cup {n}))
             /\ left[m] = 0 <=> Before(m) \subseteq R \cup {n}
  <2>1. IsFiniteSet(Before(m) \ R) /\ IsFiniteSet(Before(m) \ (R \cup {n}))  BY BeforeIsFinite
  <2>3. Cardinality(Before(m) \ (R \cup {n}))
          = IF n \in Before(m) \ R THEN Cardinality(Before(m) \ R) - 1
            ELSE Cardinality(Before(m) \ R)
    <3> DEFINE D == Before(m) \ R
    <3>1. IsFiniteSet(D) /\ D \ {n} = Before(m) \ (R \cup {n})  BY <2>1
    <3> HIDE DEF D
    <3>2. Cardinality(D \ {n}) = IF n \in D THEN Cardinality(D) - 1 ELSE Cardinality(D)
      BY <3>1, FS_RemoveElement
    <3> QED  BY <3>1, <3>2 DEF D
  <2>4. n \in Before(m) \ R <=> m \in After(n)  BY <1>3, <1>5
  <2>5. /\ m \in After(n) => left[m] = Cardinality(Before(m) \ R) - 1
        /\ m \notin After(n) => left[m] = Cardinality(Before(m) \ R)
    BY DEF PeelInv, After
  <2>6. Cardinality(Before(m) \ R) \in Nat  BY <2>1, FS_CardinalityType
  <2>7. left[m] = Cardinality(Before(m) \ (R \cup {n}))  BY <2>3, <2>4, <2>5, <2>6
  <2>8. Cardinality(Before(m) \ (R \cup {n})) = 0 <=> Before(m) \ (R \cup {n}) = {}
    BY <2>1, FS_EmptySet
  <2> QED  BY <2>7, <2>8
<1>7. \A m \in Vertices : left[m] = Cardinality(Before(m) \ Range(new))
  <2> HIDE DEF new
  <2> QED  BY <1>4, <1>6
<1>8. next = Sources(R \cup {n})
  <2>1. ASSUME NEW m \in After(n), left[m] = 0 PROVE m \in Sources(R \cup {n})
    <3>1. m \in Vertices /\ n \in Before(m)  BY <1>5, <2>1 DEF After
    <3>2. Before(m) \subseteq R \cup {n}  BY <1>6, <2>1, <3>1
    <3>3. m # n  BY <1>3, <3>1
    <3>4. m \notin R
      <4> SUFFICES ASSUME m \in R PROVE FALSE
        OBVIOUS
      <4>1. PICK k \in DOMAIN order : order[k] = m  BY DEF Range
      <4>2. Before(m) \subseteq Earlier(order, k)  BY <4>1 DEF PeelInv, Sources
      <4>3. Earlier(order, k) \subseteq R  BY <1>4, <4>1 DEF Earlier, Range
      <4> QED  BY <1>3, <3>1, <4>2, <4>3
    <3> QED  BY <3>1, <3>2, <3>3, <3>4 DEF Sources
  <2>2. ASSUME NEW m \in ready, m # n PROVE m \in Sources(R \cup {n})
    BY <1>1, <2>2 DEF Sources
  <2>3. ASSUME NEW m \in Sources(R \cup {n}), m \notin ready PROVE m \in After(n) /\ left[m] = 0
    <3>1. m \in Vertices /\ m \notin R /\ m # n /\ Before(m) \subseteq R \cup {n}
      BY <2>3 DEF Sources
    <3>2. n \in Before(m)  BY <1>1, <2>3, <3>1 DEF Sources
    <3> QED  BY <1>5, <1>6, <3>1, <3>2
  <2>4. \A m \in Sources(R \cup {n}) : m # n  BY DEF Sources
  <2>5. \A m : m \in next <=> m \in Sources(R \cup {n})  BY <2>1, <2>2, <2>3, <2>4
  <2> QED  BY <2>5
<1>9. ASSUME NEW k \in DOMAIN new
      PROVE  /\ new[k] \in Sources(Earlier(new, k))
             /\ new[k] = Smallest(Sources(Earlier(new, k)))
  <2>1. \A j \in 1..(k - 1) : new[j] = order[j]  BY <1>4
  <2>2. Earlier(new, k) = Earlier(order, k)
    <3> HIDE DEF new
    <3> QED  BY <2>1 DEF Earlier
  <2>3. CASE k \in 1..Len(order)  BY <1>4, <2>2, <2>3 DEF PeelInv
  <2>4. CASE k = Len(order) + 1
    <3>1. 1..(k - 1) = DOMAIN order  BY <1>4, <2>4
    <3>2. Earlier(order, k) = R  BY <3>1 DEF Earlier, Range
    <3> QED  BY <1>1, <1>2, <1>4, <2>2, <2>4, <3>2
  <2> QED  BY <1>4, <2>3, <2>4
<1> HIDE DEF new
<1>10. PeelInv(left, Sources(R \cup {n}), new)  BY <1>4, <1>7, <1>9 DEF PeelInv
<1> QED  BY <1>3, <1>8, <1>10 DEF new

LEMMA CompleteOrder ==
  ASSUME NEW order \in Seq(Vertices), Once(order)
  PROVE  Len(order) = Cardinality(Vertices) <=> Range(order) = Vertices
<1> DEFINE N == 1..Len(order)
<1>1. Len(order) \in Nat /\ DOMAIN order = N /\ order \in [N -> Vertices]
  BY LenProperties
<1>2. IsFiniteSet(N) /\ Cardinality(N) = Len(order)
  <2>1. 1 \in Int /\ Len(order) \in Int  BY <1>1
  <2> QED  BY <1>1, <2>1, FS_Interval
<1>3. Range(order) \subseteq Vertices  BY <1>1 DEF Range
<1>4. order \in [N -> Range(order)] /\ \A t \in Range(order) : \E s \in N : order[s] = t
  BY <1>1 DEF Range
<1>5. order \in Bijection(N, Range(order))
  <2> HIDE DEF N
  <2> QED  BY <1>1, <1>4 DEF Bijection, Injection, Surjection, IsInjective, Once
<1> HIDE DEF N
<1>6. Cardinality(Range(order)) = Len(order)
  <2>1. ExistsBijection(N, Range(order))  BY <1>5 DEF ExistsBijection
  <2> QED  BY <1>2, <2>1, FS_Bijection
<1>7. Cardinality(Vertices) = Cardinality(Range(order)) => Vertices = Range(order)
  BY <1>3, VerticesAreNat, FS_Subset
<1> QED  BY <1>6, <1>7

\* In an order of all nodes every edge is forward, so that each class is a node alone.
LEMMA OrderHasNoCycle ==
  ASSUME NEW incoming, NEW ready, NEW order \in Seq(Vertices),
         PeelInv(incoming, ready, order), Range(order) = Vertices,
         NEW C \in Classes
  PROVE  ~Cyclic(C)
<1>1. DOMAIN order = 1..Len(order) /\ Len(order) \in Nat  BY LenProperties
<1>2. ASSUME NEW k \in DOMAIN order, NEW i \in DOMAIN order, order[i] \in After(order[k])
      PROVE  k < i
  <2>1. order[k] \in Vertices  BY <1>1, ElementOfSeq
  <2>2. order[k] \in Before(order[i])  BY <1>2, <2>1 DEF After, Before
  <2>3. Before(order[i]) \subseteq Earlier(order, i)  BY DEF PeelInv, Sources
  <2>4. PICK j \in 1..(i - 1) : order[j] = order[k]  BY <2>2, <2>3 DEF Earlier
  <2>5. j = k  BY <1>1, <2>4 DEF PeelInv, Once
  <2> QED  BY <1>1, <2>4, <2>5
<1>3. ASSUME NEW k \in DOMAIN order, NEW i \in DOMAIN order, order[i] \in Reach(order[k])
      PROVE  k <= i
  <2> DEFINE S == {order[j] : j \in k..Len(order)}
  <2>1. S \subseteq Vertices /\ order[k] \in S
    <3>1. \A j \in k..Len(order) : j \in DOMAIN order  BY <1>1
    <3>2. k \in k..Len(order)  BY <1>1
    <3> QED  BY <1>1, <3>1, <3>2, ElementOfSeq
  <2>2. Closed(S)
    <3> SUFFICES ASSUME NEW j \in k..Len(order), NEW v \in After(order[j]) PROVE v \in S
      BY DEF Closed
    <3>1. v \in Range(order)  BY DEF After
    <3>2. PICK h \in DOMAIN order : order[h] = v  BY <3>1 DEF Range
    <3>3. j \in DOMAIN order  BY <1>1
    <3>4. j < h  BY <1>2, <3>2, <3>3
    <3>5. h \in k..Len(order)  BY <1>1, <3>4
    <3> QED  BY <3>2, <3>5
  <2>3. order[i] \in S
    <3> HIDE DEF S
    <3> QED  BY <1>3, <2>1, <2>2, ReachIsSmallest
  <2>4. PICK j \in k..Len(order) : order[j] = order[i]  BY <2>3
  <2>5. j = i  BY <1>1, <2>4 DEF PeelInv, Once
  <2> QED  BY <1>1, <2>5
<1>4. PICK x \in Vertices : C = Class(x)  BY DEF Classes
<1>5. PICK k \in DOMAIN order : order[k] = x  BY DEF Range
<1>6. Class(x) = {x}
  <2>1. ASSUME NEW m \in Class(x) PROVE m = x
    <3>1. m \in Reach(x) /\ x \in Reach(m) /\ m \in Range(order)
      BY ReachInVertices DEF Class
    <3>2. PICK i \in DOMAIN order : order[i] = m  BY <3>1 DEF Range
    <3>3. k <= i /\ i <= k  BY <1>3, <1>5, <3>1, <3>2
    <3> QED  BY <1>1, <1>5, <3>2, <3>3
  <2>2. x \in Class(x)  BY ReachesItself DEF Class
  <2> QED  BY <2>1, <2>2
<1>7. Cardinality({x}) = 1  BY FS_Singleton
<1>8. x \notin After(x)
  <2> SUFFICES ASSUME x \in After(x) PROVE FALSE
    OBVIOUS
  <2>1. k < k  BY <1>2, <1>5
  <2> QED  BY <1>1, <2>1
<1> QED  BY <1>4, <1>6, <1>7, <1>8 DEF Cyclic

\* When nothing is ready and a node is left, one that is reached from the fewest has a
\* predecessor that is left and reached from as many: the two are in one class.
LEMMA StuckHasCycle ==
  ASSUME NEW incoming, NEW order \in Seq(Vertices),
         PeelInv(incoming, {}, order), Range(order) # Vertices
  PROVE  \E C \in Classes : Cyclic(C)
<1> DEFINE U == Vertices \ Range(order)
           From(n) == {m \in Vertices : n \in Reach(m)}
           F == {From(n) : n \in U}
<1>1. F \subseteq FiniteSubsetsOf(Vertices)
  <2> SUFFICES ASSUME NEW n \in U PROVE From(n) \in FiniteSubsetsOf(Vertices)
    OBVIOUS
  <2>1. From(n) \in SUBSET Vertices  OBVIOUS
  <2>2. IsFiniteSet(From(n))
    <3> HIDE DEF From
    <3> QED  BY <2>1, VerticesAreNat, FS_Subset
  <2> QED  BY <2>1, <2>2 DEF FiniteSubsetsOf
<1>2. F # {}
  <2>1. Range(order) \subseteq Vertices
    <3>1. DOMAIN order = 1..Len(order)  BY LenProperties
    <3> QED  BY <3>1, ElementOfSeq DEF Range
  <2> QED  BY <2>1
<1>3. PICK T \in F : \A W \in F : W \subseteq T => W = T
  <2> HIDE DEF F
  <2> QED  BY <1>1, <1>2, FamilyHasMinimal
<1>4. PICK n \in U : T = From(n)  BY <1>3
<1>5. PICK p \in Before(n) : p \notin Range(order)
  <2>1. n \notin Sources(Range(order))  BY DEF PeelInv
  <2> QED  BY <2>1 DEF Sources
<1>6. p \in U /\ n \in After(p)  BY <1>5 DEF Before, After
<1>7. From(p) \subseteq From(n)  BY <1>6, ReachIsClosed
<1>8. From(p) = From(n)  BY <1>3, <1>4, <1>6, <1>7
<1>9. p \in Reach(n)
  <2>1. n \in From(n)  BY ReachesItself
  <2> QED  BY <1>8, <2>1
<1>10. n \in Reach(p)  BY <1>6, ReachesItself, ReachIsClosed
<1>11. n \in Class(n) /\ p \in Class(n) /\ Class(n) \in Classes
  BY <1>9, <1>10, ReachesItself DEF Class, Classes
<1>12. CASE p = n  BY <1>6, <1>11, <1>12 DEF Cyclic
<1>13. CASE p # n
  <2>1. Class(n) \in SUBSET Vertices  BY ReachInVertices DEF Class
  <2>2. IsFiniteSet(Class(n)) /\ Cardinality(Class(n)) \in Nat
    BY <2>1, VerticesAreNat, FS_Subset, FS_CardinalityType
  <2>3. Cardinality(Class(n)) # 0  BY <1>11, <2>2, FS_EmptySet
  <2>4. Cardinality(Class(n)) # 1
    <3> SUFFICES ASSUME Cardinality(Class(n)) = 1 PROVE FALSE
      OBVIOUS
    <3>1. \E x : Class(n) = {x}  BY <2>2, FS_Singleton
    <3> QED  BY <1>11, <1>13, <3>1
  <2> QED  BY <1>11, <2>2, <2>3, <2>4 DEF Cyclic
<1> QED  BY <1>12, <1>13

\* What a summary says of the components and of the order.
SummaryFits(components, order) ==
  /\ components = Classes
  /\ {C \in Classes : Cyclic(C)} = {} <=> Len(order) = Cardinality(Vertices)
  /\ order # <<>> =>
       /\ Range(order) = Vertices
       /\ \A k \in DOMAIN order : order[k] = Smallest(Sources(Earlier(order, k)))

LEMMA PeelingEnds ==
  ASSUME NEW incoming, NEW order \in Seq(Vertices), PeelInv(incoming, {}, order)
  PROVE  SummaryFits(Classes, IF Len(order) = Cardinality(Vertices) THEN order ELSE <<>>)
<1>1. Len(order) = Cardinality(Vertices) <=> Range(order) = Vertices
  BY CompleteOrder DEF PeelInv
<1>2. CASE Len(order) = Cardinality(Vertices)
  <2>1. {C \in Classes : Cyclic(C)} = {}  BY <1>1, <1>2, OrderHasNoCycle
  <2>2. \A k \in DOMAIN order : order[k] = Smallest(Sources(Earlier(order, k)))
    BY DEF PeelInv
  <2> QED  BY <1>1, <1>2, <2>1, <2>2 DEF SummaryFits
<1>3. CASE Len(order) # Cardinality(Vertices)
  <2>1. {C \in Classes : Cyclic(C)} # {}  BY <1>1, <1>3, StuckHasCycle
  <2>2. Len(<<>>) # Cardinality(Vertices)
    <3> SUFFICES ASSUME Cardinality(Vertices) = 0 PROVE FALSE
      OBVIOUS
    <3>1. Vertices = {}  BY VerticesAreNat, FS_EmptySet
    <3>2. Range(order) \subseteq Vertices
      <4>1. DOMAIN order = 1..Len(order)  BY LenProperties
      <4> QED  BY <4>1, ElementOfSeq DEF Range
    <3> QED  BY <1>1, <1>3, <3>1, <3>2
  <2> QED  BY <1>3, <2>1, <2>2 DEF SummaryFits
<1> QED  BY <1>2, <1>3

(***************************************************************************)
(* The summary                                                              *)
(***************************************************************************)

Walks ==
  [phase : {"visit", "gather", "peel", "done"}, seen : SUBSET Vertices, stack : Seq(Frames),
   finish : Seq(Vertices), gathering : Seq(Vertices), cursor : SUBSET Vertices,
   component : SUBSET Vertices, components : SUBSET SUBSET Vertices,
   incoming : [Vertices -> Int], ready : SUBSET Vertices, order : Seq(Vertices)]

WalkFits(w) ==
  /\ w.phase = "visit" =>
       /\ VisitInv(w.seen, w.stack, w.finish)
       /\ w.gathering = <<>> /\ w.cursor = {} /\ w.component = {} /\ w.components = {}
       /\ w.order = <<>>
  /\ w.phase = "gather" =>
       /\ GatherInv(w.seen, w.finish, w.gathering, w.cursor, w.component, w.components)
       /\ w.order = <<>>
  /\ w.phase = "peel" => w.components = Classes /\ PeelInv(w.incoming, w.ready, w.order)
  /\ w.phase = "done" => SummaryFits(w.components, w.order)

Fits(w) == w \in Walks /\ WalkFits(w)

LEMMA StartFits == Fits(StartWalk)
<1>1. Range(<<>>) = {} /\ DOMAIN <<>> = {} /\ On(<<>>) = {}  BY DEF Range, On
<1>2. VisitInv({}, <<>>, <<>>)  BY <1>1 DEF VisitInv, StackFits, Once, FinishFits
<1>3. StartWalk \in Walks
  <2>1. <<>> \in Seq(Frames) /\ <<>> \in Seq(Vertices)  BY EmptySeq
  <2> QED  BY <2>1 DEF StartWalk, Walks
<1> QED  BY <1>2, <1>3 DEF Fits, WalkFits, StartWalk

LEMMA EnterFits ==
  ASSUME NEW w, Fits(w), w.phase = "visit", NEW n \in Vertices, n \notin w.seen,
         \A k \in DOMAIN w.stack : n \in Reach(w.stack[k].node),
         NEW moved \in Seq(Frames), Moved(w.stack, moved, n)
  PROVE  Fits(Enter([w EXCEPT !.stack = moved], n))
<1> DEFINE f == [node |-> n, cursor |-> After(n)]
           seen == w.seen \cup {n}
           stack == Append(moved, f)
           next == Enter([w EXCEPT !.stack = moved], n)
<1>1. w \in Walks /\ WalkFits(w)  BY DEF Fits
<1>2. f \in Frames  BY DEF Frames, After
<1>3. /\ w.stack \in Seq(Frames) /\ w.seen \in SUBSET Vertices /\ w.finish \in Seq(Vertices)
      /\ VisitInv(w.seen, w.stack, w.finish)
  BY <1>1 DEF Walks, WalkFits
<1>4. stack \in Seq(Frames) /\ seen \in SUBSET Vertices  BY <1>2, <1>3, AppendProperties
<1>5. VisitInv(seen, stack, w.finish)  BY <1>3, EnterKeeps
<1>6. next = [w EXCEPT !.seen = seen, !.stack = stack]  BY <1>1 DEF Enter, Walks
<1> HIDE DEF f, seen, stack, next
<1>7. next \in Walks  BY <1>1, <1>4, <1>6 DEF Walks
<1>8. /\ next.phase = w.phase
      /\ next.seen = seen
      /\ next.stack = stack
      /\ next.finish = w.finish
      /\ next.gathering = w.gathering /\ next.cursor = w.cursor
      /\ next.component = w.component /\ next.components = w.components
      /\ next.order = w.order
  BY <1>1, <1>6 DEF Walks
<1>9. Fits(next)  BY <1>1, <1>5, <1>7, <1>8 DEF Fits, WalkFits
<1> QED  BY <1>9 DEF next

LEMMA VisitRootFits ==
  ASSUME Fits(walk), VisitRoot
  PROVE  Fits(walk')
<1> DEFINE n == Smallest(Vertices \ walk.seen)
<1>1. walk \in Walks /\ walk.phase = "visit" /\ walk.stack = <<>> /\ walk.seen # Vertices
  BY DEF Fits, VisitRoot, At
<1>2. walk.seen \in SUBSET Vertices /\ walk.stack \in Seq(Frames)  BY <1>1 DEF Walks
<1>3. n \in Vertices \ walk.seen
  <2>1. Vertices \ walk.seen \subseteq Nat /\ Vertices \ walk.seen # {}
    BY <1>1, <1>2, VerticesAreNat
  <2> QED  BY <2>1, SmallestIsLeast
<1>4. walk' = Enter(walk, n)  BY DEF VisitRoot, Become
<1>5. DOMAIN walk.stack = {}  BY <1>1
<1>6. Moved(walk.stack, walk.stack, n)  BY <1>5 DEF Moved
<1>7. [walk EXCEPT !.stack = walk.stack] = walk  BY <1>1 DEF Walks
<1> HIDE DEF n
<1>8. Fits(Enter([walk EXCEPT !.stack = walk.stack], n))
  BY <1>1, <1>2, <1>3, <1>5, <1>6, EnterFits
<1> QED  BY <1>4, <1>7, <1>8

LEMMA VisitChildFits ==
  ASSUME Fits(walk), VisitChild
  PROVE  Fits(walk')
<1> DEFINE top == Len(walk.stack)
           child == Smallest(walk.stack[top].cursor)
           stack == [walk.stack EXCEPT ![top].cursor = @ \ {child}]
           moved == [walk EXCEPT !.stack = stack]
<1>1. /\ walk \in Walks /\ WalkFits(walk) /\ walk.phase = "visit"
      /\ walk.stack # <<>> /\ walk.stack[top].cursor # {}
  BY DEF Fits, VisitChild, At, Last
<1>2. /\ walk.seen \in SUBSET Vertices /\ walk.stack \in Seq(Frames)
      /\ walk.finish \in Seq(Vertices) /\ VisitInv(walk.seen, walk.stack, walk.finish)
  BY <1>1 DEF Walks, WalkFits
<1>3. top \in Nat /\ DOMAIN walk.stack = 1..top /\ top \in DOMAIN walk.stack
  BY <1>1, <1>2, FrontAndLast, LenProperties
<1>4. walk.stack[top] \in Frames  BY <1>2, <1>3, ElementOfSeq
<1>5. child \in walk.stack[top].cursor /\ child \in Vertices
  <2>1. walk.stack[top].cursor \in SUBSET Vertices  BY <1>4 DEF Frames
  <2>2. walk.stack[top].cursor \subseteq Nat  BY <2>1, VerticesAreNat
  <2> QED  BY <1>1, <2>1, <2>2, SmallestIsLeast
<1>6. walk' = IF child \in walk.seen THEN moved ELSE Enter(moved, child)
  <2>1. [walk EXCEPT !.stack[Len(walk.stack)].cursor = @ \ {child}] = moved
    BY <1>1 DEF Walks
  <2> QED  BY <2>1 DEF VisitChild, Become, Last
<1> HIDE DEF child
<1>7. stack \in Seq(Frames) /\ Moved(walk.stack, stack, child)
  BY <1>1, <1>2, CursorMoves
<1> HIDE DEF stack
<1>8. CASE child \in walk.seen
  <2>1. VisitInv(walk.seen, stack, walk.finish)  BY <1>2, <1>7, <1>8, PassKeeps
  <2>2. moved \in Walks  BY <1>1, <1>7 DEF Walks
  <2>3. /\ moved.phase = walk.phase /\ moved.seen = walk.seen
        /\ moved.stack = stack /\ moved.finish = walk.finish
        /\ moved.gathering = walk.gathering /\ moved.cursor = walk.cursor
        /\ moved.component = walk.component /\ moved.components = walk.components
        /\ moved.order = walk.order
    BY <1>1 DEF Walks
  <2> HIDE DEF moved
  <2>4. Fits(moved)  BY <1>1, <2>1, <2>2, <2>3 DEF Fits, WalkFits
  <2> QED  BY <1>6, <1>8, <2>4
<1>9. CASE child \notin walk.seen
  <2>1. ASSUME NEW k \in DOMAIN walk.stack PROVE child \in Reach(walk.stack[k].node)
    <3>1. k \in 1..top  BY <1>3
    <3>2. walk.stack[top].node \in Reach(walk.stack[k].node)
      BY <1>2, <1>3, <3>1 DEF VisitInv, StackFits
    <3>3. child \in After(walk.stack[top].node)
      BY <1>2, <1>3, <1>5 DEF VisitInv, StackFits
    <3> QED  BY <3>2, <3>3, ReachIsClosed
  <2>2. Fits(Enter(moved, child))  BY <1>1, <1>5, <1>7, <1>9, <2>1, EnterFits
  <2> QED  BY <1>6, <1>9, <2>2
<1> QED  BY <1>8, <1>9

LEMMA LeaveFits ==
  ASSUME Fits(walk), Leave
  PROVE  Fits(walk')
<1> DEFINE finish == Append(walk.finish, Last(walk.stack).node)
           stack == Front(walk.stack)
<1>1. /\ walk \in Walks /\ WalkFits(walk) /\ walk.phase = "visit"
      /\ walk.stack # <<>> /\ Last(walk.stack).cursor = {}
  BY DEF Fits, Leave, At
<1>2. /\ walk.seen \in SUBSET Vertices /\ walk.stack \in Seq(Frames)
      /\ walk.finish \in Seq(Vertices) /\ VisitInv(walk.seen, walk.stack, walk.finish)
  BY <1>1 DEF Walks, WalkFits
<1>3. stack \in Seq(Frames) /\ Last(walk.stack) \in Frames  BY <1>1, <1>2, FrontAndLast
<1>4. finish \in Seq(Vertices)
  <2>1. Last(walk.stack).node \in Vertices  BY <1>3 DEF Frames
  <2> QED  BY <1>2, <2>1, AppendProperties
<1>5. VisitInv(walk.seen, stack, finish)  BY <1>1, <1>2, LeaveKeeps
<1>6. walk' = [walk EXCEPT !.finish = finish, !.stack = stack]
  BY <1>1 DEF Leave, Become, Walks
<1> HIDE DEF finish, stack
<1>7. walk' \in Walks  BY <1>1, <1>3, <1>4, <1>6 DEF Walks
<1>8. /\ walk'.phase = walk.phase /\ walk'.seen = walk.seen
      /\ walk'.stack = stack /\ walk'.finish = finish
      /\ walk'.gathering = walk.gathering /\ walk'.cursor = walk.cursor
      /\ walk'.component = walk.component /\ walk'.components = walk.components
      /\ walk'.order = walk.order
  BY <1>1, <1>6 DEF Walks
<1> QED  BY <1>1, <1>5, <1>7, <1>8 DEF Fits, WalkFits

LEMMA StartGatheringFits ==
  ASSUME Fits(walk), StartGathering
  PROVE  Fits(walk')
<1>1. /\ walk \in Walks /\ WalkFits(walk) /\ walk.phase = "visit"
      /\ walk.stack = <<>> /\ walk.seen = Vertices
      /\ walk' = [walk EXCEPT !.phase = "gather", !.seen = {}]
  BY DEF Fits, StartGathering, At, Become
<1>2. walk.finish \in Seq(Vertices) /\ VisitInv(Vertices, <<>>, walk.finish)
  BY <1>1 DEF Walks, WalkFits
<1>3. GatherInv({}, walk.finish, <<>>, {}, {}, {})  BY <1>2, GatheringStarts
<1>4. walk' \in Walks  BY <1>1 DEF Walks
<1>5. /\ walk'.phase = "gather" /\ walk'.seen = {} /\ walk'.finish = walk.finish
      /\ walk'.gathering = walk.gathering /\ walk'.cursor = walk.cursor
      /\ walk'.component = walk.component /\ walk'.components = walk.components
      /\ walk'.order = walk.order
  BY <1>1 DEF Walks
<1> QED  BY <1>1, <1>3, <1>4, <1>5 DEF Fits, WalkFits

\* What is known in the second walk.
LEMMA GatherFacts ==
  ASSUME Fits(walk), walk.phase = "gather"
  PROVE  /\ walk \in Walks
         /\ walk.seen \in SUBSET Vertices /\ walk.finish \in Seq(Vertices)
         /\ walk.gathering \in Seq(Vertices) /\ walk.cursor \in SUBSET Vertices
         /\ walk.component \in SUBSET Vertices /\ walk.components \in SUBSET SUBSET Vertices
         /\ GatherInv(walk.seen, walk.finish, walk.gathering, walk.cursor, walk.component,
                      walk.components)
         /\ walk.order = <<>>
         /\ walk.component = {} => walk.cursor = {}
<1>1. walk \in Walks /\ WalkFits(walk)  BY DEF Fits
<1>2. /\ GatherInv(walk.seen, walk.finish, walk.gathering, walk.cursor, walk.component,
                   walk.components)
      /\ walk.order = <<>>
  BY <1>1 DEF WalkFits
<1>3. walk.component = {} => walk.cursor = {}  BY <1>2 DEF GatherInv
<1> QED  BY <1>1, <1>2, <1>3 DEF Walks

LEMMA NextComponentFits ==
  ASSUME Fits(walk), NextComponent
  PROVE  Fits(walk')
<1> DEFINE n == Last(walk.finish)
           finish == Front(walk.finish)
           seen == walk.seen \cup {n}
           gathering == IF n \in walk.seen THEN <<>> ELSE <<n>>
<1>1. /\ walk.phase = "gather" /\ walk.component = {} /\ walk.gathering = <<>>
      /\ walk.finish # <<>>
      /\ walk' = [walk EXCEPT !.finish = finish, !.seen = walk.seen \cup {n},
                              !.gathering = gathering]
  BY GatherFacts DEF NextComponent, At, Become, Walks
<1>2. n \in Vertices /\ finish \in Seq(Vertices)  BY <1>1, GatherFacts, FrontAndLast
<1>3. GatherInv(seen, finish, gathering, {}, {}, walk.components)
  <2>1. /\ walk.seen \in SUBSET Vertices /\ walk.finish \in Seq(Vertices)
        /\ walk.components \in SUBSET SUBSET Vertices
        /\ GatherInv(walk.seen, walk.finish, <<>>, {}, {}, walk.components)
    BY <1>1, GatherFacts
  <2>2. walk.finish # <<>>  BY <1>1
  <2> HIDE DEF n, gathering
  <2>3. n = Last(walk.finish) /\ gathering = IF n \in walk.seen THEN <<>> ELSE <<n>>
    BY DEF n, gathering
  <2> QED  BY <2>1, <2>2, <2>3, NextComponentKeeps
<1>4. gathering \in Seq(Vertices) /\ seen \in SUBSET Vertices
  <2>1. <<n>> \in Seq(Vertices) /\ <<>> \in Seq(Vertices)  BY <1>2
  <2> QED  BY <1>1, <1>2, <2>1, GatherFacts
<1> HIDE DEF finish, gathering
<1>5. walk' \in Walks  BY <1>1, <1>2, <1>4, GatherFacts DEF Walks
<1>6. /\ walk'.phase = "gather" /\ walk'.seen = seen /\ walk'.finish = finish
      /\ walk'.gathering = gathering /\ walk'.cursor = {}
      /\ walk'.component = {} /\ walk'.components = walk.components
      /\ walk'.order = <<>>
  BY <1>1, GatherFacts DEF Walks
<1> QED  BY <1>3, <1>5, <1>6 DEF Fits, WalkFits

LEMMA GatherFits ==
  ASSUME Fits(walk), Gather
  PROVE  Fits(walk')
<1> DEFINE n == Last(walk.gathering)
           gathering == Front(walk.gathering)
           cursor == Before(n)
           component == walk.component \cup {n}
<1>1. /\ walk.phase = "gather" /\ walk.cursor = {} /\ walk.gathering # <<>>
      /\ walk' = [walk EXCEPT !.gathering = gathering, !.cursor = cursor,
                              !.component = component]
  BY GatherFacts DEF Gather, At, Become, Walks
<1>2. n \in Vertices /\ gathering \in Seq(Vertices)  BY <1>1, GatherFacts, FrontAndLast
<1>3. GatherInv(walk.seen, walk.finish, gathering, cursor, component, walk.components)
  <2>1. /\ walk.seen \in SUBSET Vertices /\ walk.finish \in Seq(Vertices)
        /\ walk.gathering \in Seq(Vertices) /\ walk.component \in SUBSET Vertices
        /\ walk.components \in SUBSET SUBSET Vertices
        /\ GatherInv(walk.seen, walk.finish, walk.gathering, {}, walk.component,
                     walk.components)
    BY <1>1, GatherFacts
  <2>2. walk.gathering # <<>>  BY <1>1
  <2> HIDE DEF n, component
  <2>3. n = Last(walk.gathering) /\ component = walk.component \cup {n}  BY DEF n, component
  <2> QED  BY <2>1, <2>2, <2>3, GatherKeeps
<1>4. cursor \in SUBSET Vertices /\ component \in SUBSET Vertices
  BY <1>1, <1>2, GatherFacts DEF Before
<1> HIDE DEF gathering, cursor, component
<1>5. walk' \in Walks  BY <1>1, <1>2, <1>4, GatherFacts DEF Walks
<1>6. /\ walk'.phase = "gather" /\ walk'.seen = walk.seen /\ walk'.finish = walk.finish
      /\ walk'.gathering = gathering /\ walk'.cursor = cursor
      /\ walk'.component = component /\ walk'.components = walk.components
      /\ walk'.order = <<>>
  BY <1>1, GatherFacts DEF Walks
<1> QED  BY <1>3, <1>5, <1>6 DEF Fits, WalkFits

LEMMA GatherChildFits ==
  ASSUME Fits(walk), GatherChild
  PROVE  Fits(walk')
<1> DEFINE child == Smallest(walk.cursor)
           cursor == walk.cursor \ {child}
           moved == [walk EXCEPT !.cursor = cursor]
           gathering == Append(walk.gathering, child)
           seen == walk.seen \cup {child}
<1>1. walk.phase = "gather" /\ walk.cursor # {}  BY DEF GatherChild, At
<1>2. walk' = IF child \in walk.seen THEN moved
              ELSE [moved EXCEPT !.seen = @ \cup {child}, !.gathering = Append(@, child)]
  BY DEF GatherChild, Become
<1>3. child \in walk.cursor /\ child \in Vertices
  <2>1. walk.cursor \subseteq Vertices  BY <1>1, GatherFacts
  <2>2. walk.cursor \subseteq Nat  BY <2>1, VerticesAreNat
  <2> QED  BY <1>1, <2>1, <2>2, SmallestIsLeast
<1> HIDE DEF child
<1>4. /\ child \in walk.seen =>
           GatherInv(walk.seen, walk.finish, walk.gathering, cursor, walk.component,
                     walk.components)
      /\ child \notin walk.seen =>
           GatherInv(seen, walk.finish, gathering, cursor, walk.component, walk.components)
  BY <1>1, <1>3, GatherFacts, ChildKeeps
<1>5. /\ cursor \in SUBSET Vertices /\ seen \in SUBSET Vertices
      /\ gathering \in Seq(Vertices)
  BY <1>1, <1>3, GatherFacts, AppendProperties
<1>6. CASE child \in walk.seen
  <2>1. walk' = [walk EXCEPT !.cursor = cursor]  BY <1>2, <1>6
  <2> HIDE DEF cursor
  <2>2. walk' \in Walks  BY <1>1, <1>5, <2>1, GatherFacts DEF Walks
  <2>3. /\ walk'.phase = "gather" /\ walk'.seen = walk.seen /\ walk'.finish = walk.finish
        /\ walk'.gathering = walk.gathering /\ walk'.cursor = cursor
        /\ walk'.component = walk.component /\ walk'.components = walk.components
        /\ walk'.order = <<>>
    BY <1>1, <2>1, GatherFacts DEF Walks
  <2> QED  BY <1>4, <1>6, <2>2, <2>3 DEF Fits, WalkFits
<1>7. CASE child \notin walk.seen
  <2>1. walk' = [walk EXCEPT !.cursor = cursor, !.seen = seen, !.gathering = gathering]
    BY <1>1, <1>2, <1>7, GatherFacts DEF Walks
  <2> HIDE DEF cursor, seen, gathering
  <2>2. walk' \in Walks  BY <1>1, <1>5, <2>1, GatherFacts DEF Walks
  <2>3. /\ walk'.phase = "gather" /\ walk'.seen = seen /\ walk'.finish = walk.finish
        /\ walk'.gathering = gathering /\ walk'.cursor = cursor
        /\ walk'.component = walk.component /\ walk'.components = walk.components
        /\ walk'.order = <<>>
    BY <1>1, <2>1, GatherFacts DEF Walks
  <2> QED  BY <1>4, <1>7, <2>2, <2>3 DEF Fits, WalkFits
<1> QED  BY <1>6, <1>7

LEMMA CloseComponentFits ==
  ASSUME Fits(walk), CloseComponent
  PROVE  Fits(walk')
<1> DEFINE components == walk.components \cup {walk.component}
<1>1. /\ walk.phase = "gather" /\ walk.gathering = <<>> /\ walk.cursor = {}
      /\ walk.component # {}
      /\ walk' = [walk EXCEPT !.components = components, !.component = {}]
  BY GatherFacts DEF CloseComponent, At, Become, Walks
<1>2. GatherInv(walk.seen, walk.finish, <<>>, {}, {}, components)
  BY <1>1, GatherFacts, CloseKeeps
<1>3. components \in SUBSET SUBSET Vertices  BY <1>1, GatherFacts
<1> HIDE DEF components
<1>4. walk' \in Walks  BY <1>1, <1>3, GatherFacts DEF Walks
<1>5. /\ walk'.phase = "gather" /\ walk'.seen = walk.seen /\ walk'.finish = walk.finish
      /\ walk'.gathering = <<>> /\ walk'.cursor = {}
      /\ walk'.component = {} /\ walk'.components = components
      /\ walk'.order = <<>>
  BY <1>1, GatherFacts DEF Walks
<1> QED  BY <1>2, <1>4, <1>5 DEF Fits, WalkFits

LEMMA StartPeelingFits ==
  ASSUME Fits(walk), StartPeeling
  PROVE  Fits(walk')
<1> DEFINE incoming == [n \in Vertices |-> Cardinality(Before(n))]
           ready == {n \in Vertices : Before(n) = {}}
<1>1. /\ walk.phase = "gather" /\ walk.component = {} /\ walk.gathering = <<>>
      /\ walk.finish = <<>>
      /\ walk' = [walk EXCEPT !.phase = "peel", !.incoming = incoming, !.ready = ready]
  BY GatherFacts DEF StartPeeling, At, Become, Walks
<1>2. walk.components = Classes
  <2>1. GatherInv(walk.seen, <<>>, <<>>, {}, {}, walk.components)  BY <1>1, GatherFacts
  <2> QED  BY <2>1, GatheringEnds
<1>3. PeelInv(incoming, ready, <<>>)  BY PeelStarts
<1>4. incoming \in [Vertices -> Int] /\ ready \in SUBSET Vertices
  <2>1. \A n \in Vertices : Cardinality(Before(n)) \in Nat
    BY BeforeIsFinite, FS_CardinalityType
  <2> QED  BY <2>1
<1> HIDE DEF incoming, ready
<1>5. walk' \in Walks  BY <1>1, <1>4, GatherFacts DEF Walks
<1>6. /\ walk'.phase = "peel" /\ walk'.components = walk.components
      /\ walk'.incoming = incoming /\ walk'.ready = ready /\ walk'.order = <<>>
  BY <1>1, GatherFacts DEF Walks
<1> QED  BY <1>2, <1>3, <1>5, <1>6 DEF Fits, WalkFits

LEMMA PeelFits ==
  ASSUME Fits(walk), Peel
  PROVE  Fits(walk')
<1> DEFINE n == Smallest(walk.ready)
           left == [m \in Vertices |-> walk.incoming[m] - (IF m \in After(n) THEN 1 ELSE 0)]
           order == Append(walk.order, n)
           ready == (walk.ready \ {n}) \cup {m \in After(n) : left[m] = 0}
<1>1. /\ walk \in Walks /\ WalkFits(walk) /\ walk.phase = "peel" /\ walk.ready # {}
      /\ walk' = [walk EXCEPT !.order = order, !.incoming = left, !.ready = ready]
  BY DEF Fits, Peel, At, Become, Walks
<1>2. /\ walk.order \in Seq(Vertices) /\ walk.components = Classes
      /\ walk.incoming \in [Vertices -> Int] /\ walk.ready \in SUBSET Vertices
      /\ PeelInv(walk.incoming, walk.ready, walk.order)
  BY <1>1 DEF Walks, WalkFits
<1>3. n \in Vertices
  <2>1. walk.ready \subseteq Nat  BY <1>2, VerticesAreNat
  <2> QED  BY <1>1, <1>2, <2>1, SmallestIsLeast
<1>4. PeelInv(left, ready, order)
  <2> HIDE DEF left, n, ready
  <2>1. /\ \A m \in After(n) : left[m] = walk.incoming[m] - 1
        /\ \A m \in Vertices \ After(n) : left[m] = walk.incoming[m]
    <3>1. \A m \in Vertices : walk.incoming[m] \in Int  BY <1>2
    <3> QED  BY <3>1 DEF left, After
  <2>2. \A m : m \in ready <=>
                (m \in walk.ready /\ m # n) \/ (m \in After(n) /\ left[m] = 0)
    BY DEF ready
  <2>3. n = Smallest(walk.ready)  BY DEF n
  <2>4. walk.ready # {}  BY <1>1
  <2>5. walk.order \in Seq(Vertices) /\ PeelInv(walk.incoming, walk.ready, walk.order)
    BY <1>2
  <2> QED  BY <2>1, <2>2, <2>3, <2>4, <2>5, PeelKeeps
<1>5. order \in Seq(Vertices)  BY <1>2, <1>3, AppendProperties
<1>6. left \in [Vertices -> Int] /\ ready \in SUBSET Vertices  BY <1>2 DEF After
<1> HIDE DEF left, order, ready
<1>7. walk' \in Walks  BY <1>1, <1>5, <1>6 DEF Walks
<1>8. /\ walk'.phase = "peel" /\ walk'.components = walk.components
      /\ walk'.incoming = left /\ walk'.ready = ready /\ walk'.order = order
  BY <1>1 DEF Walks
<1> QED  BY <1>2, <1>4, <1>7, <1>8 DEF Fits, WalkFits

LEMMA EndPeelingFits ==
  ASSUME Fits(walk), EndPeeling
  PROVE  Fits(walk')
<1> DEFINE order == IF Len(walk.order) = Cardinality(Vertices) THEN walk.order ELSE <<>>
<1>1. /\ walk \in Walks /\ WalkFits(walk) /\ walk.phase = "peel" /\ walk.ready = {}
      /\ walk' = [walk EXCEPT !.phase = "done", !.order = order]
  BY DEF Fits, EndPeeling, At, Become, Walks
<1>2. /\ walk.order \in Seq(Vertices) /\ walk.components = Classes
      /\ PeelInv(walk.incoming, {}, walk.order)
  BY <1>1 DEF Walks, WalkFits
<1>3. SummaryFits(Classes, order)  BY <1>2, PeelingEnds
<1>4. order \in Seq(Vertices)  BY <1>2, EmptySeq
<1> HIDE DEF order
<1>5. walk' \in Walks  BY <1>1, <1>4 DEF Walks
<1>6. walk'.phase = "done" /\ walk'.components = walk.components /\ walk'.order = order
  BY <1>1 DEF Walks
<1> QED  BY <1>2, <1>3, <1>5, <1>6 DEF Fits, WalkFits

\* The edges stay as they are, and with them all that is said of the graph.
LEMMA FitsFrame ==
  ASSUME UNCHANGED edges
  PROVE  Fits(walk)' <=> Fits(walk')
<1>1. \A n : After(n)' = After(n)  BY DEF After
<1>2. \A n : Before(n)' = Before(n)  BY DEF Before
<1>3. \A n : Reach(n)' = Reach(n)  BY <1>1 DEF Reach, Closed
<1>4. \A n : Class(n)' = Class(n)  BY <1>3 DEF Class
<1>5. Classes' = Classes  BY <1>4 DEF Classes
<1>6. \A s : Sources(s)' = Sources(s)  BY <1>2 DEF Sources
<1>7. \A C : Cyclic(C)' <=> Cyclic(C)  BY <1>1 DEF Cyclic
<1>8. \A f : FinishFits(f)' <=> FinishFits(f)  BY <1>1, <1>3 DEF FinishFits
<1>9. \A e, t : StackFits(e, t)' <=> StackFits(e, t)  BY <1>1, <1>3 DEF StackFits
<1>10. \A e, t, f : VisitInv(e, t, f)' <=> VisitInv(e, t, f)  BY <1>1, <1>8, <1>9 DEF VisitInv
<1>11. \A e, f, g, c, t, s : GatherInv(e, f, g, c, t, s)' <=> GatherInv(e, f, g, c, t, s)
  BY <1>2, <1>3, <1>4, <1>8 DEF GatherInv
<1>12. \A i, r, o : PeelInv(i, r, o)' <=> PeelInv(i, r, o)  BY <1>2, <1>6 DEF PeelInv
<1>13. \A s, o : SummaryFits(s, o)' <=> SummaryFits(s, o)
  BY <1>5, <1>6, <1>7 DEF SummaryFits
<1>14. \A w : WalkFits(w)' <=> WalkFits(w)
  BY <1>5, <1>10, <1>11, <1>12, <1>13 DEF WalkFits
<1> QED  BY <1>14 DEF Fits, Walks, Frames

LEMMA StepFits ==
  ASSUME Fits(walk), [GraphNext]_graphVars
  PROVE  Fits(walk)'
<1>1. CASE VisitRoot  BY <1>1, VisitRootFits, FitsFrame DEF VisitRoot, Become
<1>2. CASE VisitChild  BY <1>2, VisitChildFits, FitsFrame DEF VisitChild, Become
<1>3. CASE Leave  BY <1>3, LeaveFits, FitsFrame DEF Leave, Become
<1>4. CASE StartGathering  BY <1>4, StartGatheringFits, FitsFrame DEF StartGathering, Become
<1>5. CASE NextComponent  BY <1>5, NextComponentFits, FitsFrame DEF NextComponent, Become
<1>6. CASE Gather  BY <1>6, GatherFits, FitsFrame DEF Gather, Become
<1>7. CASE GatherChild  BY <1>7, GatherChildFits, FitsFrame DEF GatherChild, Become
<1>8. CASE CloseComponent  BY <1>8, CloseComponentFits, FitsFrame DEF CloseComponent, Become
<1>9. CASE StartPeeling  BY <1>9, StartPeelingFits, FitsFrame DEF StartPeeling, Become
<1>10. CASE Peel  BY <1>10, PeelFits, FitsFrame DEF Peel, Become
<1>11. CASE EndPeeling  BY <1>11, EndPeelingFits, FitsFrame DEF EndPeeling, Become
<1>12. CASE UNCHANGED graphVars
  <2>1. UNCHANGED edges /\ Fits(walk')  BY <1>12 DEF graphVars
  <2> QED  BY <2>1, FitsFrame
<1> QED
  BY <1>1, <1>2, <1>3, <1>4, <1>5, <1>6, <1>7, <1>8, <1>9, <1>10, <1>11, <1>12 DEF GraphNext

LEMMA FitsIsRight ==
  ASSUME Fits(walk)
  PROVE  GraphIsRight
<1> SUFFICES ASSUME walk.phase = "done" PROVE GraphIsRight
  BY DEF GraphIsRight, At
<1>1. SummaryFits(walk.components, walk.order)  BY DEF Fits, WalkFits
<1>2. Classes = {{m \in Reach(n) : n \in Reach(m)} : n \in Vertices}
  BY DEF Classes, Class
<1>3. walk.components = Classes  BY <1>1 DEF SummaryFits
<1>4. Cycles = {C \in Classes : Cyclic(C)}  BY <1>3 DEF Cycles
<1>5. \A k : /\ Earlier(walk.order, k) = {walk.order[j] : j \in 1..(k - 1)}
            /\ \A done : Sources(done) = {n \in Vertices \ done : Before(n) \subseteq done}
  BY DEF Earlier, Sources
<1>6. walk.order # <<>> =>
        /\ Range(walk.order) = Vertices
        /\ \A k \in DOMAIN walk.order :
             LET done == {walk.order[j] : j \in 1..(k - 1)}
             IN walk.order[k] = Smallest({n \in Vertices \ done : Before(n) \subseteq done})
  BY <1>1 DEF SummaryFits, Earlier, Sources
<1>7. Cycles = {} <=> Len(walk.order) = Cardinality(Vertices)  BY <1>1, <1>4 DEF SummaryFits
<1> QED  BY <1>2, <1>3, <1>6, <1>7 DEF GraphIsRight

\* A summary names the classes of mutual reachability as the components, whatever the graph,
\* and has an order exactly when nothing is cyclic: every edge forward, and the smallest of
\* the nodes that could come next in each place.
THEOREM GraphSummaryIsRight == GraphSpec => []GraphIsRight
<1>1. GraphInit => Fits(walk)  BY StartFits DEF GraphInit
<1>2. Fits(walk) /\ [GraphNext]_graphVars => Fits(walk)'  BY StepFits
<1>3. Fits(walk) => GraphIsRight  BY FitsIsRight
<1> QED  BY <1>1, <1>2, <1>3, PTL DEF GraphSpec

(***************************************************************************)
(* The predicate of a query: the tree the parser makes, whatever is typed.  *)
(***************************************************************************)

\* A rule that looks only at what ranks lower says one thing.
LEMMA RecursionOnRank ==
  ASSUME NEW S, NEW rank \in [S -> Nat], NEW rule \in [[S -> BOOLEAN] -> [S -> BOOLEAN]],
         NEW bound \in Nat, \A x \in S : rank[x] < bound,
         \A F, H \in [S -> BOOLEAN], x \in S :
           (\A y \in S : rank[y] < rank[x] => F[y] = H[y]) => rule[F][x] = rule[H][x]
  PROVE  \E F \in [S -> BOOLEAN] : rule[F] = F
<1> DEFINE Done(n, F)  == \A x \in S : rank[x] < n => rule[F][x] = F[x]
           Bad         == {n \in Nat : \A F \in [S -> BOOLEAN] : ~Done(n, F)}
<1>1. Bad = {}
  <2>1. SUFFICES ASSUME Bad # {}
                 PROVE  FALSE
    OBVIOUS
  <2>2. PICK n \in Bad : \A m \in Bad : n <= m
    BY <2>1, NatHasSmallest, Bad \subseteq Nat
  <2>3. n # 0
    <3>1. [x \in S |-> TRUE] \in [S -> BOOLEAN]
      OBVIOUS
    <3>2. Done(0, [x \in S |-> TRUE])
      OBVIOUS
    <3> QED  BY <3>1, <3>2
  <2>4. n - 1 \in Nat /\ n - 1 \notin Bad
    BY <2>2, <2>3
  <2>5. PICK F \in [S -> BOOLEAN] : Done(n - 1, F)
    BY <2>4
  <2>6. rule[F] \in [S -> BOOLEAN]
    OBVIOUS
  <2>7. ASSUME NEW x \in S, rank[x] < n
        PROVE  rule[rule[F]][x] = rule[F][x]
    <3>1. \A y \in S : rank[y] < rank[x] => rule[F][y] = F[y]
      BY <2>5, <2>7
    <3> QED  BY <3>1, <2>6
  <2>8. Done(n, rule[F])
    BY <2>7
  <2> QED  BY <2>2, <2>6, <2>8
<1>2. PICK F \in [S -> BOOLEAN] : Done(bound, F)
  BY <1>1
<1>3. rule[F] = F
  BY <1>2
<1> QED  BY <1>3

-----------------------------------------------------------------------------
(* What a text means *)

Value(t, row, V, k)      == IF t[k] = "(" THEN V[k] ELSE t[k] \in row
AndsTo(t, row, V, g, m)  == \A k \in Conjunction(t, g, m) : Value(t, row, V, k)
OrsTo(t, row, V, g, m)   == \E e \in Ends(t, g) : e < m /\ AndsTo(t, row, V, g, e)
AnyOf(t, row, V, g)      == \E e \in Ends(t, g) : AndsTo(t, row, V, g, e)
IsMeaning(t, row, V)     == \A g \in Groups(t) : V[g] <=> AnyOf(t, row, V, g)

LEMMA ConjunctionIsInside ==
  ASSUME NEW t, t \in Seq(Tokens), NEW g \in Groups(t), NEW m \in Nat, NEW k \in Conjunction(t, g, m)
  PROVE  k \in DOMAIN t /\ k > g /\ (t[k] = "(" => k \in Groups(t))
BY DEF Conjunction, Operands, In, Groups

\* What every text means, by the distance of a group to the end of the text.
LEMMA MeaningExists ==
  ASSUME NEW t \in Seq(Tokens), NEW row
  PROVE  \E V : IsMeaning(t, row, V) /\ Means(t, row) = V[0]
<1> DEFINE S    == Groups(t)
           rank == [g \in S |-> Len(t) - g]
           body(F) == [g \in S |-> AnyOf(t, row, F, g)]
           rule == [F \in [S -> BOOLEAN] |-> body(F)]
<1>1. S \subseteq 0..Len(t)
  BY DEF Groups
<1>2. rank \in [S -> Nat] /\ \A g \in S : rank[g] < Len(t) + 1
  BY <1>1
<1>3. \A F : body(F) \in [S -> BOOLEAN]
  BY Zenon DEF AnyOf
<1>4. rule \in [[S -> BOOLEAN] -> [S -> BOOLEAN]]
  BY <1>3, Zenon
<1>5. ASSUME NEW F \in [S -> BOOLEAN], NEW H \in [S -> BOOLEAN], NEW g \in S,
             \A y \in S : rank[y] < rank[g] => F[y] = H[y]
      PROVE  rule[F][g] = rule[H][g]
  <2>1. ASSUME NEW e \in Ends(t, g), NEW k \in Conjunction(t, g, e)
        PROVE  Value(t, row, F, k) = Value(t, row, H, k)
    <3>1. e \in Nat
      BY DEF Ends
    <3>2. k \in DOMAIN t /\ k > g /\ (t[k] = "(" => k \in S)
      BY <3>1, ConjunctionIsInside
    <3>3. t[k] = "(" => F[k] = H[k]
      BY <3>2, <1>1, <1>5
    <3> QED  BY <3>3 DEF Value
  <2>2. AnyOf(t, row, F, g) = AnyOf(t, row, H, g)
    BY <2>1, Zenon DEF AnyOf, AndsTo
  <2>3. rule[F] = body(F) /\ rule[H] = body(H)
    BY Zenon
  <2>4. body(F)[g] = AnyOf(t, row, F, g) /\ body(H)[g] = AnyOf(t, row, H, g)
    BY Zenon
  <2> HIDE DEF rule, body
  <2> QED  BY <2>2, <2>3, <2>4
<1>6. PICK F \in [S -> BOOLEAN] : rule[F] = F
  <2> DEFINE bound == Len(t) + 1
  <2>1. bound \in Nat /\ \A g \in S : rank[g] < bound
    BY <1>2
  <2>2. rank \in [S -> Nat]
    BY <1>2
  <2>3. \A F, H \in [S -> BOOLEAN], g \in S :
          (\A y \in S : rank[y] < rank[g] => F[y] = H[y]) => rule[F][g] = rule[H][g]
    BY <1>5
  <2> HIDE DEF S, rank, rule, body, bound
  <2> QED  BY <1>4, <2>1, <2>2, <2>3, RecursionOnRank, ZenonT(30)
<1>7. F = [g \in Groups(t) |-> AnyOf(t, row, F, g)]
  BY <1>6
<1> DEFINE V == CHOOSE H : H = [g \in Groups(t) |-> AnyOf(t, row, H, g)]
<1>8. V = [g \in Groups(t) |-> AnyOf(t, row, V, g)]
  BY <1>7, Zenon
<1>9. Means(t, row) = V[0]
  BY Zenon DEF Means, AnyOf, AndsTo, Value
<1> HIDE DEF V
<1>10. IsMeaning(t, row, V)
  BY <1>8, Zenon DEF IsMeaning
<1> QED  BY <1>9, <1>10

-----------------------------------------------------------------------------
(* Levels and what they say of groups *)

LEMMA CountOneMore ==
  ASSUME NEW S, NEW T, NEW x, IsFiniteSet(S), x \notin S, T = S \/ T = S \cup {x}
  PROVE  /\ IsFiniteSet(T) /\ Cardinality(S) \in Nat
         /\ Cardinality(T) = IF x \in T THEN Cardinality(S) + 1 ELSE Cardinality(S)
BY FS_AddElement, FS_CardinalityType

LEMMA PlacesAreFinite ==
  ASSUME NEW S, NEW k \in Int, S \subseteq 1..k
  PROVE  IsFiniteSet(S) /\ Cardinality(S) \in Nat
<1>1. IsFiniteSet(1..k)
  BY FS_Interval, 1 \in Int
<1> QED  BY <1>1, FS_Subset, FS_CardinalityType

Count(t, x, k) == Cardinality({j \in 1..k : t[j] = x})

LEMMA CountIsNat ==
  ASSUME NEW t, NEW x, NEW k \in Nat
  PROVE  Count(t, x, k) \in Nat
<1> DEFINE S == {j \in 1..k : t[j] = x}
<1>1. S \subseteq 1..k
  OBVIOUS
<1> HIDE DEF S
<1>2. Cardinality(S) \in Nat
  BY <1>1, PlacesAreFinite, k \in Int
<1> QED  BY <1>2 DEF Count, S

LEMMA CountStep ==
  ASSUME NEW t, NEW x, NEW k \in Nat, k > 0
  PROVE  Count(t, x, k) = IF t[k] = x THEN Count(t, x, k - 1) + 1 ELSE Count(t, x, k - 1)
<1> DEFINE S == {j \in 1..(k - 1) : t[j] = x}
           T == {j \in 1..k : t[j] = x}
<1>1. k \notin S /\ (T = S \/ T = S \cup {k}) /\ (k \in T <=> t[k] = x) /\ S \subseteq 1..(k - 1)
  OBVIOUS
<1> HIDE DEF S, T
<1>2. IsFiniteSet(S)
  BY <1>1, PlacesAreFinite, k - 1 \in Int
<1>3. Cardinality(T) = IF k \in T THEN Cardinality(S) + 1 ELSE Cardinality(S)
  BY <1>1, <1>2, CountOneMore
<1>4. Count(t, x, k) = Cardinality(T) /\ Count(t, x, k - 1) = Cardinality(S)
  BY DEF Count, S, T
<1> QED  BY <1>1, <1>3, <1>4

LEMMA LevelCounts ==
  ASSUME NEW t, NEW k
  PROVE  Level(t, k) = Count(t, "(", k) - Count(t, ")", k)
BY DEF Level, Count

LEMMA LevelIsInt ==
  ASSUME NEW t, NEW k \in Nat
  PROVE  Level(t, k) \in Int
BY CountIsNat, LevelCounts

LEMMA LevelAtStart ==
  ASSUME NEW t
  PROVE  Level(t, 0) = 0
<1>1. \A x : {j \in 1..0 : t[j] = x} = {}
  OBVIOUS
<1> QED  BY <1>1, FS_EmptySet DEF Level

LEMMA LevelStep ==
  ASSUME NEW t, NEW k \in Nat, k > 0
  PROVE  Level(t, k) = CASE t[k] = "(" -> Level(t, k - 1) + 1
                         [] t[k] = ")" -> Level(t, k - 1) - 1
                         [] OTHER      -> Level(t, k - 1)
<1>1. \A x : Count(t, x, k - 1) \in Nat
  BY CountIsNat
<1> QED  BY <1>1, CountStep, LevelCounts

LEMMA OpeningLevel ==
  ASSUME NEW t, NEW k \in Nat, k > 0, t[k] = "("
  PROVE  Level(t, k) = Level(t, k - 1) + 1
BY LevelStep

LEMMA ClosingLevel ==
  ASSUME NEW t, NEW k \in Nat, k > 0, t[k] = ")"
  PROVE  Level(t, k) = Level(t, k - 1) - 1
BY LevelStep

LEMMA PlainLevel ==
  ASSUME NEW t, NEW k \in Nat, k > 0, t[k] \notin {"(", ")"}
  PROVE  Level(t, k) = Level(t, k - 1)
BY LevelStep

-----------------------------------------------------------------------------
(* The value of a group, token by token *)

\* Nothing that belongs to the group is between the two places.
LEMMA NothingBetween ==
  ASSUME NEW t, NEW row, NEW V, NEW g \in Nat, NEW m \in Nat, NEW n \in Nat, m <= n,
         t \in Seq(Tokens),
         \A k \in m..(n - 1) : k \notin Operands(t, g) /\ k \notin Ends(t, g)
  PROVE  /\ AndsTo(t, row, V, g, n) <=> AndsTo(t, row, V, g, m)
         /\ OrsTo(t, row, V, g, n) <=> OrsTo(t, row, V, g, m)
<1>1. Operands(t, g) \subseteq Nat /\ Ends(t, g) \subseteq Nat
  BY DEF Operands, Ends
<1>2. Conjunction(t, g, n) = Conjunction(t, g, m)
  BY <1>1 DEF Conjunction
<1> QED  BY <1>1, <1>2 DEF AndsTo, OrsTo

LEMMA NothingAt ==
  ASSUME NEW t, NEW row, NEW V, NEW g \in Nat, NEW m \in Nat, t \in Seq(Tokens),
         m \notin Operands(t, g), m \notin Ends(t, g)
  PROVE  /\ AndsTo(t, row, V, g, m + 1) <=> AndsTo(t, row, V, g, m)
         /\ OrsTo(t, row, V, g, m + 1) <=> OrsTo(t, row, V, g, m)
<1>1. Operands(t, g) \subseteq Nat /\ Ends(t, g) \subseteq Nat
  BY DEF Operands, Ends
<1>2. Conjunction(t, g, m + 1) = Conjunction(t, g, m)
  BY <1>1 DEF Conjunction
<1> QED  BY <1>1, <1>2 DEF AndsTo, OrsTo

LEMMA OperandStep ==
  ASSUME NEW t, NEW row, NEW V, NEW g \in Nat, NEW m \in Operands(t, g),
         t \in Seq(Tokens)
  PROVE  /\ AndsTo(t, row, V, g, m + 1) <=> (AndsTo(t, row, V, g, m) /\ Value(t, row, V, m))
         /\ OrsTo(t, row, V, g, m + 1) <=> OrsTo(t, row, V, g, m)
<1>1. Operands(t, g) \subseteq Nat /\ Ends(t, g) \subseteq Nat
  BY DEF Operands, Ends
<1>2. m \notin Ends(t, g)
  BY QueryAssumption DEF Operands, Ends, Starts
<1>3. Conjunction(t, g, m + 1) = Conjunction(t, g, m) \cup {m}
  BY <1>1, <1>2 DEF Conjunction
<1> QED  BY <1>1, <1>2, <1>3 DEF AndsTo, OrsTo

LEMMA EndStep ==
  ASSUME NEW t, NEW row, NEW V, NEW g \in Nat, NEW m \in Ends(t, g),
         t \in Seq(Tokens)
  PROVE  /\ AndsTo(t, row, V, g, m + 1)
         /\ OrsTo(t, row, V, g, m + 1) <=> (OrsTo(t, row, V, g, m) \/ AndsTo(t, row, V, g, m))
<1>1. Operands(t, g) \subseteq Nat /\ Ends(t, g) \subseteq Nat
  BY DEF Operands, Ends
<1>2. m \notin Operands(t, g)
  BY QueryAssumption DEF Operands, Ends, Starts
<1>3. Conjunction(t, g, m + 1) = {}
  BY <1>1, <1>2 DEF Conjunction
<1> QED  BY <1>1, <1>3 DEF AndsTo, OrsTo

LEMMA GroupStarts ==
  ASSUME NEW t, NEW row, NEW V, NEW g \in Nat, t \in Seq(Tokens)
  PROVE  /\ AndsTo(t, row, V, g, g + 1)
         /\ ~OrsTo(t, row, V, g, g + 1)
<1>1. /\ Operands(t, g) \subseteq Nat /\ Ends(t, g) \subseteq Nat
      /\ \A k \in Operands(t, g) \cup Ends(t, g) : k > g
  BY DEF Operands, Ends, In
<1>2. Conjunction(t, g, g + 1) = {}
  BY <1>1 DEF Conjunction
<1> QED  BY <1>1, <1>2 DEF AndsTo, OrsTo

\* After its last end a group is worth what it was worth up to there.
LEMMA GroupIsWorth ==
  ASSUME NEW t, NEW row, NEW V, NEW g \in Nat, NEW m \in Ends(t, g),
         t \in Seq(Tokens), \A e \in Ends(t, g) : e <= m
  PROVE  AnyOf(t, row, V, g) <=> (OrsTo(t, row, V, g, m) \/ AndsTo(t, row, V, g, m))
<1>1. Ends(t, g) \subseteq Nat
  BY DEF Ends
<1> QED  BY <1>1 DEF AnyOf, OrsTo

-----------------------------------------------------------------------------
(* What the tree is worth *)

Worth(nodes, row, W, k) ==
  \/ nodes[k].op = "is"  /\ nodes[k].comparison \in row
  \/ nodes[k].op = "and" /\ W[nodes[k].left] /\ W[nodes[k].right]
  \/ nodes[k].op = "or"  /\ (W[nodes[k].left] \/ W[nodes[k].right])

IsWorth(nodes, row, W) == \A k \in DOMAIN nodes : W[k] <=> Worth(nodes, row, W, k)

NodeTypes == [op : {"is", "and", "or"}, comparison : Comparisons \cup {"none"},
              left : Nat, right : Nat]

\* The children of a node are in the list before it.
IsTree(nodes) ==
  /\ nodes \in Seq(NodeTypes)
  /\ \A k \in DOMAIN nodes :
       nodes[k].op # "is" => nodes[k].left \in 1..(k - 1) /\ nodes[k].right \in 1..(k - 1)

LEMMA WorthExists ==
  ASSUME NEW nodes, NEW root, NEW row, IsTree(nodes)
  PROVE  \E W : IsWorth(nodes, row, W) /\ Matches(nodes, root, row) = W[root]
<1> DEFINE S       == DOMAIN nodes
           rank    == [k \in S |-> k]
           bound   == Len(nodes) + 1
           body(F) == [k \in S |-> Worth(nodes, row, F, k)]
           rule    == [F \in [S -> BOOLEAN] |-> body(F)]
<1>1. S = 1..Len(nodes) /\ Len(nodes) \in Nat
  BY DEF IsTree
<1>2. rank \in [S -> Nat] /\ bound \in Nat /\ \A k \in S : rank[k] < bound
  BY <1>1
<1>3. \A F : body(F) \in [S -> BOOLEAN]
  BY Zenon DEF Worth
<1>4. rule \in [[S -> BOOLEAN] -> [S -> BOOLEAN]]
  BY <1>3, Zenon
<1>5. \A F, H \in [S -> BOOLEAN], k \in S :
        (\A y \in S : rank[y] < rank[k] => F[y] = H[y]) => rule[F][k] = rule[H][k]
  <2>1. SUFFICES ASSUME NEW F \in [S -> BOOLEAN], NEW H \in [S -> BOOLEAN], NEW k \in S,
                        \A y \in S : rank[y] < rank[k] => F[y] = H[y]
                 PROVE  rule[F][k] = rule[H][k]
    OBVIOUS
  <2>2. nodes[k].op # "is" => /\ F[nodes[k].left] = H[nodes[k].left]
                              /\ F[nodes[k].right] = H[nodes[k].right]
    BY <2>1, <1>1 DEF IsTree
  <2>3. Worth(nodes, row, F, k) = Worth(nodes, row, H, k)
    <3>1. CASE nodes[k].op = "is"
      BY <3>1 DEF Worth
    <3>2. CASE nodes[k].op # "is"
      BY <3>2, <2>2, Zenon DEF Worth
    <3> QED  BY <3>1, <3>2
  <2>4. rule[F] = body(F) /\ rule[H] = body(H)
    BY Zenon
  <2>5. body(F)[k] = Worth(nodes, row, F, k) /\ body(H)[k] = Worth(nodes, row, H, k)
    BY Zenon
  <2> HIDE DEF rule, body
  <2> QED  BY <2>3, <2>4, <2>5
<1>6. PICK F \in [S -> BOOLEAN] : rule[F] = F
  <2> HIDE DEF S, rank, rule, body, bound
  <2> QED  BY <1>2, <1>4, <1>5, RecursionOnRank, ZenonT(30)
<1>7. F = [k \in DOMAIN nodes |-> Worth(nodes, row, F, k)]
  BY <1>6
<1> DEFINE W == CHOOSE H : H = [k \in DOMAIN nodes |-> Worth(nodes, row, H, k)]
<1>8. W = [k \in DOMAIN nodes |-> Worth(nodes, row, W, k)]
  BY <1>7, Zenon
<1>9. Matches(nodes, root, row) = W[root]
  BY Zenon DEF Matches, Worth
<1> HIDE DEF W
<1>10. IsWorth(nodes, row, W)
  BY <1>8, Zenon DEF IsWorth
<1> QED  BY <1>9, <1>10

-----------------------------------------------------------------------------
(* What holds of the parser between two steps *)

CallTypes  == [ors : Nat, ands : Nat]
ParseTypes == [phase : {"primary", "conjunction", "disjunction"}, at : Nat,
               nodes : Seq(NodeTypes), calls : Seq(CallTypes), root : Nat]

Parse(runs, at, nodes, calls, root) ==
  [phase |-> runs, at |-> at, nodes |-> nodes, calls |-> calls, root |-> root]

\* What is held and what was returned are nodes of the list.
IsParse(t, p) ==
  /\ t \in Seq(Tokens) /\ p \in ParseTypes
  /\ p.at \in 1..(Len(t) + 1) /\ p.calls # <<>>
  /\ IsTree(p.nodes) /\ p.root <= Len(p.nodes)
  /\ \A i \in DOMAIN p.calls : p.calls[i].ors <= Len(p.nodes) /\ p.calls[i].ands <= Len(p.nodes)
  /\ p.phase # "primary" => p.root # 0
  /\ p.phase = "disjunction" => p.calls[Len(p.calls)].ands = 0

\* g: where the groups of the open calls begin.
Opened(t, p, g) ==
  /\ g \in Seq(Nat) /\ Len(g) = Len(p.calls) /\ g[1] = 0
  /\ \A i \in 2..Len(g) : g[i - 1] < g[i] /\ g[i] \in DOMAIN t /\ t[g[i]] = "("
  /\ \A i \in 1..Len(g) : /\ g[i] < p.at /\ Level(t, g[i]) = i - 1
                          /\ \A j \in g[i]..(p.at - 1) : Level(t, j) >= i - 1
  /\ Level(t, p.at - 1) = Len(g) - 1

\* What was read is the beginning of a predicate.
Alternates(t, p) ==
  /\ p.at > 1 => Starts(t[1])
  /\ \A k \in 1..(p.at - 2) : Stops(t[k]) <=> ~Starts(t[k + 1])
  /\ p.phase = "primary" <=> (p.at = 1 \/ ~Stops(t[p.at - 1]))
  /\ p.phase = "disjunction" => p.at > Len(t) \/ t[p.at] # "and"

IsShallow(t, p) ==
  \A k \in 1..(p.at - 1) : Level(t, k) <= MaxDepth \/ (p.phase = "primary" /\ k = p.at - 1)

\* Every word that was read is a node, or is an operator whose left operand is held.
Words(t, m)     == {k \in 1..(m - 1) : t[k] \notin {"(", ")"}}
HeldAnds(calls) == {i \in DOMAIN calls : calls[i].ands # 0}
HeldOrs(calls)  == {i \in DOMAIN calls : calls[i].ors # 0}

IsCounted(t, p) ==
  /\ Cardinality(Words(t, p.at)) =
       Len(p.nodes) + Cardinality(HeldAnds(p.calls)) + Cardinality(HeldOrs(p.calls))
  /\ Len(p.nodes) <= MaxNodes

\* What is held is worth what the text before it is.
OrOf(call, W)  == call.ors # 0 /\ W[call.ors]
AndOf(call, W) == call.ands # 0 => W[call.ands]

HoldsSoFar(t, row, V, W, call, g, m) ==
  /\ OrOf(call, W) <=> OrsTo(t, row, V, g, m)
  /\ AndOf(call, W) <=> AndsTo(t, row, V, g, m)

Agrees(t, p, g, row, V, W) ==
  LET n   == Len(g)
      top == p.calls[n]
  IN  /\ \A i \in 1..(n - 1) : HoldsSoFar(t, row, V, W, p.calls[i], g[i], g[i + 1])
      /\ p.phase = "primary" => HoldsSoFar(t, row, V, W, top, g[n], p.at)
      /\ p.phase = "conjunction" =>
           /\ OrOf(top, W) <=> OrsTo(t, row, V, g[n], p.at)
           /\ (AndOf(top, W) /\ W[p.root]) <=> AndsTo(t, row, V, g[n], p.at)
      /\ p.phase = "disjunction" =>
           ((OrOf(top, W) \/ W[p.root])
              <=> (OrsTo(t, row, V, g[n], p.at) \/ AndsTo(t, row, V, g[n], p.at)))

MeansTheSame(t, p, g) ==
  \A row \in SUBSET Comparisons : \A V, W :
    IsMeaning(t, row, V) /\ IsWorth(p.nodes, row, W) => Agrees(t, p, g, row, V, W)

Follows(t, p, g) ==
  /\ IsParse(t, p) /\ Opened(t, p, g) /\ Alternates(t, p) /\ IsShallow(t, p)
  /\ IsCounted(t, p) /\ MeansTheSame(t, p, g)


-----------------------------------------------------------------------------
(* Where the open groups are, as the parser reads on *)

LEMMA ParseFields ==
  ASSUME NEW t, NEW p, IsParse(t, p)
  PROVE  /\ t \in Seq(Tokens) /\ Len(t) \in Nat /\ DOMAIN t = 1..Len(t)
         /\ p.at \in 1..(Len(t) + 1) /\ p.root \in Nat
         /\ p.calls \in Seq(CallTypes) /\ Len(p.calls) \in Nat /\ Len(p.calls) > 0
         /\ DOMAIN p.calls = 1..Len(p.calls)
         /\ p.nodes \in Seq(NodeTypes) /\ Len(p.nodes) \in Nat /\ DOMAIN p.nodes = 1..Len(p.nodes)
         /\ p.phase \in {"primary", "conjunction", "disjunction"}
<1>1. p.calls \in Seq(CallTypes) /\ p.nodes \in Seq(NodeTypes) /\ p.calls # <<>> /\ t \in Seq(Tokens)
  BY DEF IsParse, ParseTypes
<1>2. Len(p.calls) \in Nat /\ Len(p.calls) # 0
  BY <1>1, EmptySeq, LenProperties
<1>3. p.root \in Nat /\ p.phase \in {"primary", "conjunction", "disjunction"} /\ p.at \in 1..(Len(t) + 1)
  BY DEF IsParse, ParseTypes
<1> QED  BY <1>1, <1>2, <1>3, LenProperties

LEMMA OpenedGroups ==
  ASSUME NEW t, NEW p, NEW g, IsParse(t, p), Opened(t, p, g)
  PROVE  /\ Len(g) = Len(p.calls) /\ DOMAIN g = 1..Len(g)
         /\ \A i \in 1..Len(g) : g[i] \in Nat /\ g[i] \in Groups(t)
         /\ In(t, g[Len(g)], p.at)
<1>1. Len(g) = Len(p.calls) /\ g \in Seq(Nat) /\ Len(g) \in 1..Len(g) /\ DOMAIN g = 1..Len(g)
  BY ParseFields DEF Opened
<1>2. \A i \in 1..Len(g) : g[i] \in Nat /\ g[i] \in Groups(t)
  BY <1>1 DEF Opened, Groups
<1>3. In(t, g[Len(g)], p.at)
  BY <1>1 DEF Opened, In
<1> QED  BY <1>1, <1>2, <1>3

LEMMA OpenedStays ==
  ASSUME NEW t, NEW p, NEW q, NEW g, Opened(t, p, g),
         q.at = p.at, Len(q.calls) = Len(p.calls)
  PROVE  Opened(t, q, g)
BY DEF Opened

LEMMA OpenedAt ==
  ASSUME NEW t, NEW p, NEW g, IsParse(t, p), Opened(t, p, g), NEW i \in 1..Len(g)
  PROVE  /\ g[i] \in Nat /\ g[i] < p.at /\ Level(t, g[i]) = i - 1
         /\ \A j \in g[i]..(p.at - 1) : Level(t, j) >= i - 1
BY OpenedGroups DEF Opened

LEMMA OpenedGoesOn ==
  ASSUME NEW t, NEW p, NEW q, NEW g, IsParse(t, p), Opened(t, p, g),
         p.at \in DOMAIN t, t[p.at] \notin {"(", ")"},
         q.at = p.at + 1, Len(q.calls) = Len(p.calls)
  PROVE  Opened(t, q, g)
<1>1. p.at \in Nat /\ p.at > 0 /\ Level(t, p.at) = Level(t, p.at - 1)
  BY ParseFields, PlainLevel
<1>2. Len(g) = Len(p.calls) /\ Len(p.calls) \in Nat /\ g \in Seq(Nat)
  BY ParseFields DEF Opened
<1>3. ASSUME NEW i \in 1..Len(g)
      PROVE  g[i] < q.at /\ \A j \in g[i]..(q.at - 1) : Level(t, j) >= i - 1
  BY <1>1, <1>2, <1>3 DEF Opened
<1> QED  BY <1>1, <1>2, <1>3 DEF Opened

LEMMA OpenedDeeper ==
  ASSUME NEW t, NEW p, NEW q, NEW g, IsParse(t, p), Opened(t, p, g),
         p.at \in DOMAIN t, t[p.at] = "(",
         q.at = p.at + 1, Len(q.calls) = Len(p.calls) + 1
  PROVE  Opened(t, q, Append(g, p.at))
<1>1. p.at \in Nat /\ p.at > 0 /\ Level(t, p.at) = Level(t, p.at - 1) + 1
  BY ParseFields, OpeningLevel
<1>2. /\ Len(g) = Len(p.calls) /\ Len(g) \in Nat /\ Len(g) > 0 /\ g \in Seq(Nat)
      /\ Level(t, p.at - 1) = Len(g) - 1
  BY ParseFields DEF Opened
<1> DEFINE h == Append(g, p.at)
<1>3. /\ h \in Seq(Nat) /\ Len(h) = Len(g) + 1 /\ h[Len(h)] = p.at
      /\ \A i \in 1..Len(g) : h[i] = g[i]
  BY <1>1, <1>2, AppendProperties
<1> HIDE DEF h
<1>4. \A i \in 2..Len(h) : h[i - 1] < h[i] /\ h[i] \in DOMAIN t /\ t[h[i]] = "("
  <2>1. SUFFICES ASSUME NEW i \in 2..Len(h)
                 PROVE  h[i - 1] < h[i] /\ h[i] \in DOMAIN t /\ t[h[i]] = "("
    OBVIOUS
  <2>2. CASE i = Len(h)
    <3>1. i - 1 = Len(g) /\ Len(g) \in 1..Len(g)
      BY <2>2, <1>2, <1>3
    <3>2. h[i - 1] = g[Len(g)] /\ g[Len(g)] < p.at
      BY <3>1, <1>3, OpenedAt
    <3> QED  BY <3>2, <2>2, <1>3
  <2>3. CASE i # Len(h)
    <3>1. i \in 2..Len(g) /\ i \in 1..Len(g) /\ i - 1 \in 1..Len(g)
      BY <2>3, <1>2, <1>3
    <3>2. h[i - 1] = g[i - 1] /\ h[i] = g[i]
      BY <3>1, <1>3
    <3> QED  BY <3>1, <3>2 DEF Opened
  <2> QED  BY <2>2, <2>3
<1>5. ASSUME NEW i \in 1..Len(h)
      PROVE  /\ h[i] < q.at /\ Level(t, h[i]) = i - 1
             /\ \A j \in h[i]..(q.at - 1) : Level(t, j) >= i - 1
  <2>1. CASE i = Len(h)
    <3>1. h[i] = p.at /\ i = Len(g) + 1 /\ Level(t, p.at) = Len(g)
      BY <2>1, <1>1, <1>2, <1>3
    <3>2. \A j \in h[i]..(q.at - 1) : j = p.at
      BY <3>1, <1>1
    <3> QED  BY <3>1, <3>2, <1>1, <1>2
  <2>2. CASE i # Len(h)
    <3>1. i \in 1..Len(g) /\ h[i] = g[i]
      BY <2>2, <1>2, <1>3
    <3>2. /\ g[i] < p.at /\ Level(t, g[i]) = i - 1 /\ g[i] \in Nat
          /\ \A j \in g[i]..(p.at - 1) : Level(t, j) >= i - 1
      BY <3>1, OpenedAt
    <3>3. Level(t, p.at) >= i - 1
      BY <3>1, <1>1, <1>2
    <3>4. \A j \in g[i]..(q.at - 1) : j \in g[i]..(p.at - 1) \/ j = p.at
      BY <3>2, <1>1
    <3> QED  BY <3>1, <3>2, <3>3, <3>4, <1>1
  <2> QED  BY <2>1, <2>2
<1>6. h[1] = 0
  <2>1. 1 \in 1..Len(g)
    BY <1>2
  <2> QED  BY <2>1, <1>3 DEF Opened
<1>7. Level(t, q.at - 1) = Len(h) - 1
  BY <1>1, <1>2, <1>3
<1>8. Opened(t, q, h)
  BY <1>2, <1>3, <1>4, <1>5, <1>6, <1>7, Zenon DEF Opened
<1> QED  BY <1>8 DEF h

LEMMA OpenedLess ==
  ASSUME NEW t, NEW p, NEW q, NEW g, IsParse(t, p), Opened(t, p, g),
         p.at \in DOMAIN t, t[p.at] = ")", Len(g) > 1,
         q.at = p.at + 1, Len(q.calls) = Len(p.calls) - 1
  PROVE  Opened(t, q, Front(g))
<1>1. p.at \in Nat /\ p.at > 0 /\ Level(t, p.at) = Level(t, p.at - 1) - 1
  BY ParseFields, ClosingLevel
<1>2. /\ Len(g) = Len(p.calls) /\ Len(g) \in Nat /\ g # <<>> /\ g \in Seq(Nat)
      /\ Level(t, p.at - 1) = Len(g) - 1
  BY ParseFields, EmptySeq DEF Opened
<1> DEFINE h == Front(g)
<1>3. h \in Seq(Nat) /\ Len(h) = Len(g) - 1 /\ \A i \in 1..(Len(g) - 1) : h[i] = g[i]
  BY <1>2, FrontAndLast
<1> HIDE DEF h
<1>4. \A i \in 1..Len(h) : h[i] = g[i] /\ i \in 1..Len(g)
  BY <1>2, <1>3
<1>5. \A i \in 2..Len(h) : h[i - 1] < h[i] /\ h[i] \in DOMAIN t /\ t[h[i]] = "("
  <2>1. \A i \in 2..Len(h) : h[i - 1] = g[i - 1] /\ h[i] = g[i] /\ i \in 2..Len(g)
    BY <1>2, <1>3
  <2> QED  BY <2>1 DEF Opened
<1>6. ASSUME NEW i \in 1..Len(h)
      PROVE  /\ h[i] < q.at /\ Level(t, h[i]) = i - 1
             /\ \A j \in h[i]..(q.at - 1) : Level(t, j) >= i - 1
  <2>1. i \in 1..Len(g) /\ h[i] = g[i]
    BY <1>4
  <2>2. /\ g[i] < p.at /\ Level(t, g[i]) = i - 1 /\ g[i] \in Nat
        /\ \A j \in g[i]..(p.at - 1) : Level(t, j) >= i - 1
    BY <2>1, OpenedAt
  <2>3. Level(t, p.at) >= i - 1
    BY <1>1, <1>2, <1>3
  <2>4. \A j \in g[i]..(q.at - 1) : j \in g[i]..(p.at - 1) \/ j = p.at
    BY <2>2, <1>1
  <2> QED  BY <2>1, <2>2, <2>3, <2>4, <1>1
<1>7. h[1] = 0
  <2>1. 1 \in 1..(Len(g) - 1)
    BY <1>2
  <2> QED  BY <2>1, <1>3 DEF Opened
<1>8. Level(t, q.at - 1) = Len(h) - 1
  BY <1>1, <1>2, <1>3
<1>9. Opened(t, q, h)
  BY <1>2, <1>3, <1>5, <1>6, <1>7, <1>8, Zenon DEF Opened
<1> QED  BY <1>9 DEF h

-----------------------------------------------------------------------------
(* Operands and connectives, depth and length *)

LEMMA AlternatesStays ==
  ASSUME NEW t, NEW p, NEW q, Alternates(t, p), q.at = p.at,
         q.phase = "primary" <=> p.phase = "primary",
         q.phase = "disjunction" => p.at > Len(t) \/ t[p.at] # "and"
  PROVE  Alternates(t, q)
BY DEF Alternates

LEMMA AlternatesGoesOn ==
  ASSUME NEW t, NEW p, NEW q, IsParse(t, p), Alternates(t, p),
         p.at \in DOMAIN t, q.at = p.at + 1,
         p.phase = "primary" <=> Starts(t[p.at]),
         q.phase = "primary" <=> ~Stops(t[p.at]),
         q.phase # "disjunction"
  PROVE  Alternates(t, q)
<1>1. p.at \in Nat /\ p.at > 0
  BY ParseFields
<1>2. q.at > 1 => Starts(t[1])
  BY <1>1 DEF Alternates
<1>3. \A k \in 1..(q.at - 2) : Stops(t[k]) <=> ~Starts(t[k + 1])
  <2>1. ASSUME NEW k \in 1..(q.at - 2)
        PROVE  Stops(t[k]) <=> ~Starts(t[k + 1])
    <3>1. k \in 1..(p.at - 2) \/ (k = p.at - 1 /\ p.at # 1)
      BY <1>1
    <3> QED  BY <3>1, <1>1 DEF Alternates
  <2> QED  BY <2>1
<1>4. q.phase = "primary" <=> (q.at = 1 \/ ~Stops(t[q.at - 1]))
  BY <1>1
<1> QED  BY <1>2, <1>3, <1>4 DEF Alternates

LEMMA ShallowGoesOn ==
  ASSUME NEW t, NEW p, NEW q, IsParse(t, p), IsShallow(t, p),
         q.at = p.at + 1,
         p.phase = "primary" /\ p.at > 1 => Level(t, p.at - 1) <= MaxDepth,
         q.phase = "primary" \/ Level(t, p.at) <= MaxDepth
  PROVE  IsShallow(t, q)
<1>1. p.at \in Nat /\ p.at > 0
  BY ParseFields
<1> QED  BY <1>1 DEF IsShallow

LEMMA WordsStep ==
  ASSUME NEW t, NEW m \in Nat, m > 0
  PROVE  Cardinality(Words(t, m + 1)) =
           IF t[m] \in {"(", ")"} THEN Cardinality(Words(t, m)) ELSE Cardinality(Words(t, m)) + 1
<1> DEFINE S == Words(t, m)
           T == Words(t, m + 1)
<1>1. /\ S \subseteq 1..(m - 1) /\ m \notin S /\ (T = S \/ T = S \cup {m})
      /\ m \in T <=> t[m] \notin {"(", ")"}
  BY DEF Words
<1> HIDE DEF S, T
<1>2. IsFiniteSet(S)
  BY <1>1, PlacesAreFinite, m - 1 \in Int
<1>3. Cardinality(T) = IF m \in T THEN Cardinality(S) + 1 ELSE Cardinality(S)
  BY <1>1, <1>2, CountOneMore
<1>4. Cardinality(T) = IF t[m] \in {"(", ")"} THEN Cardinality(S) ELSE Cardinality(S) + 1
  BY <1>1, <1>3
<1> QED  BY <1>4 DEF S, T

LEMMA WordsAreCounted ==
  ASSUME NEW t, NEW m \in Nat
  PROVE  IsFiniteSet(Words(t, m)) /\ Cardinality(Words(t, m)) \in Nat
<1>1. Words(t, m) \subseteq 1..(m - 1) /\ m - 1 \in Int
  BY DEF Words
<1> QED  BY <1>1, PlacesAreFinite

LEMMA HeldAreCounted ==
  ASSUME NEW calls, calls \in Seq(CallTypes)
  PROVE  /\ IsFiniteSet(HeldAnds(calls)) /\ Cardinality(HeldAnds(calls)) \in Nat
         /\ IsFiniteSet(HeldOrs(calls)) /\ Cardinality(HeldOrs(calls)) \in Nat
<1>1. HeldAnds(calls) \subseteq 1..Len(calls) /\ HeldOrs(calls) \subseteq 1..Len(calls) /\ Len(calls) \in Int
  BY DEF HeldAnds, HeldOrs
<1> QED  BY <1>1, PlacesAreFinite

-----------------------------------------------------------------------------
(* The steps of the parser *)

LEMMA ParseIsTyped ==
  ASSUME NEW runs \in {"primary", "conjunction", "disjunction"}, NEW at \in Nat,
         NEW nodes \in Seq(NodeTypes), NEW calls \in Seq(CallTypes), NEW root \in Nat
  PROVE  Parse(runs, at, nodes, calls, root) \in ParseTypes
BY DEF Parse, ParseTypes

LEMMA AppendedNode ==
  ASSUME NEW nodes, NEW node, IsTree(nodes), node \in NodeTypes
  PROVE  /\ Append(nodes, node) \in Seq(NodeTypes) /\ Len(nodes) \in Nat
         /\ Len(Append(nodes, node)) = Len(nodes) + 1
         /\ Append(nodes, node)[Len(nodes) + 1] = node
         /\ \A i \in 1..Len(nodes) : Append(nodes, node)[i] = nodes[i]
         /\ DOMAIN nodes = 1..Len(nodes)
<1>1. nodes \in Seq(NodeTypes)
  BY DEF IsTree
<1> QED  BY <1>1, AppendProperties, LenProperties

LEMMA AppendedCall ==
  ASSUME NEW calls \in Seq(CallTypes)
  PROVE  /\ Append(calls, Call) \in Seq(CallTypes)
         /\ Len(Append(calls, Call)) = Len(calls) + 1
         /\ Append(calls, Call)[Len(calls) + 1] = Call
         /\ \A i \in 1..Len(calls) : Append(calls, Call)[i] = calls[i]
         /\ HeldAnds(Append(calls, Call)) = HeldAnds(calls)
         /\ HeldOrs(Append(calls, Call)) = HeldOrs(calls)
<1> DEFINE more == Append(calls, Call)
<1>1. Call \in CallTypes /\ Len(calls) \in Nat /\ DOMAIN calls = 1..Len(calls)
  BY LenProperties DEF Call, CallTypes
<1>2. /\ more \in Seq(CallTypes) /\ Len(more) = Len(calls) + 1 /\ more[Len(calls) + 1] = Call
      /\ \A i \in 1..Len(calls) : more[i] = calls[i]
  BY <1>1, AppendProperties
<1> HIDE DEF more
<1>3. DOMAIN more = 1..(Len(calls) + 1)
  BY <1>2, LenProperties
<1>4. \A i \in DOMAIN more : i \in DOMAIN calls \/ i = Len(calls) + 1
  BY <1>1, <1>3
<1>5. DOMAIN calls \subseteq DOMAIN more
  BY <1>1, <1>3
<1>6. HeldAnds(more) = HeldAnds(calls) /\ HeldOrs(more) = HeldOrs(calls)
  BY <1>1, <1>2, <1>4, <1>5 DEF HeldAnds, HeldOrs, Call
<1> QED  BY <1>2, <1>6 DEF more

LEMMA TreeGrows ==
  ASSUME NEW nodes, NEW node, IsTree(nodes), node \in NodeTypes,
         node.op # "is" => node.left \in 1..Len(nodes) /\ node.right \in 1..Len(nodes)
  PROVE  /\ IsTree(Append(nodes, node)) /\ Len(nodes) \in Nat
         /\ Len(Append(nodes, node)) = Len(nodes) + 1
<1>1. nodes \in Seq(NodeTypes) /\ Len(nodes) \in Nat /\ DOMAIN nodes = 1..Len(nodes)
  BY LenProperties DEF IsTree
<1> DEFINE more == Append(nodes, node)
<1>2. /\ more \in Seq(NodeTypes) /\ Len(more) = Len(nodes) + 1 /\ more[Len(nodes) + 1] = node
      /\ \A k \in 1..Len(nodes) : more[k] = nodes[k]
  BY <1>1, AppendProperties
<1> HIDE DEF more
<1>3. DOMAIN more = 1..(Len(nodes) + 1)
  BY <1>2, LenProperties
<1>4. ASSUME NEW k \in DOMAIN more, more[k].op # "is"
      PROVE  more[k].left \in 1..(k - 1) /\ more[k].right \in 1..(k - 1)
  <2>1. CASE k = Len(nodes) + 1
    BY <2>1, <1>1, <1>2, <1>4
  <2>2. CASE k # Len(nodes) + 1
    <3>1. k \in 1..Len(nodes) /\ more[k] = nodes[k]
      BY <2>2, <1>1, <1>2, <1>3
    <3> QED  BY <3>1, <1>1, <1>4 DEF IsTree
  <2> QED  BY <2>1, <2>2
<1>5. IsTree(more)
  BY <1>2, <1>4 DEF IsTree
<1> QED  BY <1>1, <1>2, <1>5 DEF more

LEMMA WorthOfMore ==
  ASSUME NEW nodes, NEW node, NEW row, NEW W, IsTree(nodes), node \in NodeTypes,
         NEW more, more = Append(nodes, node), IsWorth(more, row, W)
  PROVE  /\ IsWorth(nodes, row, W)
         /\ node.op = "is"  => (W[Len(nodes) + 1] <=> node.comparison \in row)
         /\ node.op = "and" => (W[Len(nodes) + 1] <=> (W[node.left] /\ W[node.right]))
         /\ node.op = "or"  => (W[Len(nodes) + 1] <=> (W[node.left] \/ W[node.right]))
<1>1. nodes \in Seq(NodeTypes) /\ Len(nodes) \in Nat /\ DOMAIN nodes = 1..Len(nodes)
  BY LenProperties DEF IsTree
<1>2. /\ more \in Seq(NodeTypes) /\ Len(more) = Len(nodes) + 1 /\ more[Len(nodes) + 1] = node
      /\ \A k \in 1..Len(nodes) : more[k] = nodes[k]
  BY AppendedNode
<1>3. \A k \in DOMAIN more : W[k] <=> Worth(more, row, W, k)
  BY DEF IsWorth
<1>4. DOMAIN more = 1..(Len(nodes) + 1)
  BY <1>2, LenProperties
<1>5. IsWorth(nodes, row, W)
  <2>1. ASSUME NEW k \in DOMAIN nodes
        PROVE  W[k] <=> Worth(nodes, row, W, k)
    <3>1. k \in DOMAIN more /\ more[k] = nodes[k]
      BY <1>1, <1>2, <1>4
    <3>2. Worth(more, row, W, k) <=> Worth(nodes, row, W, k)
      BY <3>1 DEF Worth
    <3> QED  BY <3>1, <3>2, <1>3
  <2> QED  BY <2>1 DEF IsWorth
<1>6. Len(nodes) + 1 \in DOMAIN more
  BY <1>1, <1>4
<1>7. W[Len(nodes) + 1] <=> Worth(more, row, W, Len(nodes) + 1)
  BY <1>3, <1>6
<1>8. Worth(more, row, W, Len(nodes) + 1) <=>
        (\/ node.op = "is"  /\ node.comparison \in row
         \/ node.op = "and" /\ W[node.left] /\ W[node.right]
         \/ node.op = "or"  /\ (W[node.left] \/ W[node.right]))
  BY <1>2 DEF Worth
<1> QED  BY <1>5, <1>7, <1>8

LEMMA GroupOpens ==
  ASSUME NEW t, NEW p, NEW q, NEW g, Follows(t, p, g), p.phase = "primary",
         Len(p.calls) - 1 <= MaxDepth, p.at \in DOMAIN t, t[p.at] = "(",
         q = Parse("primary", p.at + 1, p.nodes, Append(p.calls, Call), p.root)
  PROVE  Follows(t, q, Append(g, p.at))
<1> DEFINE h == Append(g, p.at)
           n == Len(p.calls)
<1>1. /\ IsParse(t, p) /\ Opened(t, p, g) /\ Alternates(t, p) /\ IsShallow(t, p)
      /\ IsCounted(t, p) /\ MeansTheSame(t, p, g)
  BY DEF Follows
<1>2. /\ t \in Seq(Tokens) /\ Len(t) \in Nat /\ DOMAIN t = 1..Len(t)
      /\ p.at \in 1..Len(t) /\ p.calls \in Seq(CallTypes) /\ n \in Nat /\ n > 0
      /\ DOMAIN p.calls = 1..n
  BY <1>1, ParseFields
<1>3. /\ q \in ParseTypes /\ q.phase = "primary" /\ q.at = p.at + 1 /\ q.nodes = p.nodes
      /\ q.root = p.root /\ q.calls = Append(p.calls, Call)
  <2>1. p \in ParseTypes /\ Append(p.calls, Call) \in Seq(CallTypes) /\ p.at + 1 \in Nat
    BY <1>1, <1>2, AppendedCall DEF IsParse
  <2> QED  BY <2>1 DEF Parse, ParseTypes
<1>4. /\ q.calls \in Seq(CallTypes) /\ Len(q.calls) = n + 1 /\ q.calls[n + 1] = Call
      /\ \A i \in 1..n : q.calls[i] = p.calls[i]
  BY <1>2, <1>3, AppendedCall
<1>5. DOMAIN q.calls = 1..(n + 1) /\ q.calls # <<>>
  BY <1>2, <1>4, LenProperties, EmptySeq
<1>6. IsParse(t, q)
  <2>1. \A i \in DOMAIN q.calls : q.calls[i].ors <= Len(q.nodes) /\ q.calls[i].ands <= Len(q.nodes)
    <3>1. SUFFICES ASSUME NEW i \in 1..(n + 1)
                   PROVE  q.calls[i].ors <= Len(q.nodes) /\ q.calls[i].ands <= Len(q.nodes)
      BY <1>5
    <3>2. CASE i = n + 1
      BY <3>2, <1>1, <1>3, <1>4, ParseFields DEF Call
    <3>3. CASE i # n + 1
      <4>1. i \in DOMAIN p.calls /\ q.calls[i] = p.calls[i]
        BY <3>3, <1>2, <1>4
      <4> QED  BY <4>1, <1>1, <1>3 DEF IsParse
    <3> QED  BY <3>2, <3>3
  <2> QED  BY <2>1, <1>1, <1>2, <1>3, <1>5 DEF IsParse
<1>7. Opened(t, q, h)
  BY <1>1, <1>3, <1>4, OpenedDeeper
<1>8. Alternates(t, q)
  <2>1. Starts(t[p.at]) /\ ~Stops(t[p.at])
    BY QueryAssumption DEF Starts, Stops
  <2> QED  BY <2>1, <1>1, <1>3, AlternatesGoesOn
<1>9. IsShallow(t, q)
  <2>1. Level(t, p.at - 1) <= MaxDepth
    BY <1>1 DEF Opened
  <2> QED  BY <2>1, <1>1, <1>3, ShallowGoesOn
<1>10. IsCounted(t, q)
  <2>1. HeldAnds(q.calls) = HeldAnds(p.calls) /\ HeldOrs(q.calls) = HeldOrs(p.calls)
    BY <1>2, <1>3, AppendedCall
  <2>2. Cardinality(Words(t, q.at)) = Cardinality(Words(t, p.at))
    <3>1. Cardinality(Words(t, p.at + 1)) = Cardinality(Words(t, p.at))
      <4>1. p.at \in Nat /\ p.at > 0 /\ t[p.at] \in {"(", ")"}
        BY <1>2
      <4> QED  BY <4>1, WordsStep
    <3> QED  BY <3>1, <1>3
  <2> QED  BY <2>1, <2>2, <1>1, <1>3 DEF IsCounted
<1>11. MeansTheSame(t, q, h)
  <2>1. SUFFICES ASSUME NEW row \in SUBSET Comparisons, NEW V, NEW W,
                        IsMeaning(t, row, V), IsWorth(q.nodes, row, W)
                 PROVE  Agrees(t, q, h, row, V, W)
    BY Zenon DEF MeansTheSame
  <2>2. Agrees(t, p, g, row, V, W)
    BY <2>1, <1>1, <1>3 DEF MeansTheSame
  <2>3. /\ Len(g) = n /\ Len(h) = n + 1 /\ h[n + 1] = p.at
        /\ \A i \in 1..n : h[i] = g[i]
    <3>1. Len(g) = n /\ g \in Seq(Nat) /\ p.at \in Nat
      BY <1>1, <1>2 DEF Opened
    <3> QED  BY <3>1, AppendProperties
  <2>4. \A i \in 1..(Len(h) - 1) : HoldsSoFar(t, row, V, W, q.calls[i], h[i], h[i + 1])
    <3>1. SUFFICES ASSUME NEW i \in 1..n
                   PROVE  HoldsSoFar(t, row, V, W, p.calls[i], g[i], h[i + 1])
      BY <2>3, <1>2, <1>4
    <3>2. CASE i = n
      BY <3>2, <2>2, <2>3 DEF Agrees
    <3>3. CASE i # n
      <4>1. i \in 1..(Len(g) - 1) /\ h[i + 1] = g[i + 1]
        BY <3>3, <2>3, <1>2
      <4> QED  BY <4>1, <2>2 DEF Agrees
    <3> QED  BY <3>2, <3>3
  <2>5. HoldsSoFar(t, row, V, W, Call, p.at, q.at)
    <3>1. AndsTo(t, row, V, p.at, p.at + 1) /\ ~OrsTo(t, row, V, p.at, p.at + 1)
      BY <1>2, GroupStarts
    <3> QED  BY <3>1, <1>3 DEF HoldsSoFar, OrOf, AndOf, Call
  <2> HIDE DEF h
  <2> QED  BY <2>3, <2>4, <2>5, <1>3, <1>4 DEF Agrees
<1> HIDE DEF h
<1>12. Follows(t, q, h)
  BY <1>6, <1>7, <1>8, <1>9, <1>10, <1>11 DEF Follows
<1> QED  BY <1>12 DEF h

LEMMA HeldAreInTheList ==
  ASSUME NEW t, NEW p, IsParse(t, p), NEW m \in Nat, Len(p.nodes) <= m
  PROVE  /\ p.root <= m
         /\ \A i \in DOMAIN p.calls : p.calls[i].ors <= m /\ p.calls[i].ands <= m
<1>1. /\ p.calls \in Seq(CallTypes) /\ DOMAIN p.calls = 1..Len(p.calls) /\ p.root \in Nat
      /\ Len(p.nodes) \in Nat
  BY ParseFields
<1>2. \A i \in DOMAIN p.calls : p.calls[i].ors \in Nat /\ p.calls[i].ands \in Nat
  <2>1. \A i \in DOMAIN p.calls : p.calls[i] \in CallTypes
    BY <1>1, ElementOfSeq
  <2> QED  BY <2>1 DEF CallTypes
<1>3. /\ p.root <= Len(p.nodes)
      /\ \A i \in DOMAIN p.calls : p.calls[i].ors <= Len(p.nodes) /\ p.calls[i].ands <= Len(p.nodes)
  BY DEF IsParse
<1> QED  BY <1>1, <1>2, <1>3

LEMMA ComparisonTaken ==
  ASSUME NEW t, NEW p, NEW q, NEW g, Follows(t, p, g), p.phase = "primary",
         Len(p.calls) - 1 <= MaxDepth, p.at \in DOMAIN t, t[p.at] \in Comparisons,
         Len(p.nodes) < MaxNodes,
         q = Parse("conjunction", p.at + 1, Append(p.nodes, Leaf(t[p.at])), p.calls,
                   Len(p.nodes) + 1)
  PROVE  Follows(t, q, g)
<1> DEFINE n    == Len(p.calls)
           node == Leaf(t[p.at])
<1>1. /\ IsParse(t, p) /\ Opened(t, p, g) /\ Alternates(t, p) /\ IsShallow(t, p)
      /\ IsCounted(t, p) /\ MeansTheSame(t, p, g)
  BY DEF Follows
<1>2. /\ t \in Seq(Tokens) /\ Len(t) \in Nat /\ DOMAIN t = 1..Len(t)
      /\ p.at \in 1..Len(t) /\ n \in Nat /\ n > 0 /\ Len(p.nodes) \in Nat
      /\ IsTree(p.nodes) /\ p.calls \in Seq(CallTypes)
  BY <1>1, ParseFields DEF IsParse
<1>3. node \in NodeTypes /\ node.op = "is" /\ node.comparison = t[p.at]
  BY DEF Leaf, NodeTypes
<1>4. /\ IsTree(Append(p.nodes, node)) /\ Append(p.nodes, node) \in Seq(NodeTypes)
      /\ Len(Append(p.nodes, node)) = Len(p.nodes) + 1
  BY <1>2, <1>3, TreeGrows, AppendedNode
<1>5. /\ q \in ParseTypes /\ q.phase = "conjunction" /\ q.at = p.at + 1
      /\ q.nodes = Append(p.nodes, node) /\ q.root = Len(p.nodes) + 1 /\ q.calls = p.calls
  <2>1. p \in ParseTypes /\ p.at + 1 \in Nat /\ Len(p.nodes) + 1 \in Nat
    BY <1>1, <1>2 DEF IsParse
  <2> QED  BY <2>1, <1>4 DEF Parse, ParseTypes
<1>6. t[p.at] \notin {"(", ")", "and", "or"} /\ Starts(t[p.at]) /\ Stops(t[p.at])
  BY QueryAssumption DEF Starts, Stops
<1>7. IsParse(t, q)
  <2>1. Len(q.nodes) = Len(p.nodes) + 1 /\ IsTree(q.nodes)
    BY <1>4, <1>5
  <2>2. \A i \in DOMAIN q.calls : q.calls[i].ors <= Len(q.nodes) /\ q.calls[i].ands <= Len(q.nodes)
    <3>1. Len(q.nodes) \in Nat /\ Len(p.nodes) <= Len(q.nodes)
      BY <2>1, <1>2
    <3> QED  BY <3>1, <1>1, <1>5, HeldAreInTheList
  <2>3. q.at \in 1..(Len(t) + 1) /\ q.calls # <<>> /\ q.root <= Len(q.nodes) /\ q.root # 0
    BY <2>1, <1>1, <1>2, <1>5 DEF IsParse
  <2> QED  BY <2>1, <2>2, <2>3, <1>2, <1>5 DEF IsParse
<1>8. Opened(t, q, g)
  BY <1>1, <1>5, <1>6, OpenedGoesOn
<1>9. Alternates(t, q)
  BY <1>1, <1>5, <1>6, AlternatesGoesOn
<1>10. IsShallow(t, q)
  <2>1. Level(t, p.at - 1) <= MaxDepth
    BY <1>1 DEF Opened
  <2>2. Level(t, p.at) = Level(t, p.at - 1)
    BY <1>2, <1>6, PlainLevel
  <2> QED  BY <2>1, <2>2, <1>1, <1>5, ShallowGoesOn
<1>11. IsCounted(t, q)
  <2>1. Cardinality(Words(t, q.at)) = Cardinality(Words(t, p.at)) + 1
    <3>1. p.at \in Nat /\ p.at > 0 /\ q.at = p.at + 1
      BY <1>2, <1>5
    <3> QED  BY <3>1, <1>6, WordsStep
  <2>2. Cardinality(HeldAnds(p.calls)) \in Nat /\ Cardinality(HeldOrs(p.calls)) \in Nat
    BY <1>2, HeldAreCounted
  <2>3. Len(q.nodes) = Len(p.nodes) + 1 /\ Len(q.nodes) <= MaxNodes
    BY <1>2, <1>4, <1>5, QueryAssumption
  <2>4. Cardinality(Words(t, p.at)) =
          Len(p.nodes) + Cardinality(HeldAnds(p.calls)) + Cardinality(HeldOrs(p.calls))
    BY <1>1 DEF IsCounted
  <2>5. Cardinality(Words(t, q.at)) =
          Len(q.nodes) + Cardinality(HeldAnds(q.calls)) + Cardinality(HeldOrs(q.calls))
    BY <2>1, <2>2, <2>3, <2>4, <1>2, <1>5
  <2> QED  BY <2>3, <2>5 DEF IsCounted
<1>12. MeansTheSame(t, q, g)
  <2>1. SUFFICES ASSUME NEW row \in SUBSET Comparisons, NEW V, NEW W,
                        IsMeaning(t, row, V), IsWorth(q.nodes, row, W)
                 PROVE  Agrees(t, q, g, row, V, W)
    BY Zenon DEF MeansTheSame
  <2>2. IsWorth(p.nodes, row, W) /\ (W[q.root] <=> t[p.at] \in row)
    <3> HIDE DEF node
    <3>1. IsWorth(p.nodes, row, W) /\ (W[Len(p.nodes) + 1] <=> node.comparison \in row)
      BY <2>1, <1>2, <1>3, <1>5, WorthOfMore, Zenon
    <3> QED  BY <3>1, <1>3, <1>5
  <2>3. Agrees(t, p, g, row, V, W)
    BY <2>1, <2>2, <1>1 DEF MeansTheSame
  <2>4. Len(g) = n /\ g[n] \in Nat /\ p.at \in Operands(t, g[n])
    BY <1>1, <1>2, <1>6, OpenedGroups DEF Operands
  <2>5. /\ AndsTo(t, row, V, g[n], q.at) <=> (AndsTo(t, row, V, g[n], p.at) /\ t[p.at] \in row)
        /\ OrsTo(t, row, V, g[n], q.at) <=> OrsTo(t, row, V, g[n], p.at)
    BY <2>4, <1>2, <1>5, <1>6, OperandStep DEF Value
  <2> QED  BY <2>2, <2>3, <2>4, <2>5, <1>5 DEF Agrees, HoldsSoFar
<1> QED  BY <1>7, <1>8, <1>9, <1>10, <1>11, <1>12 DEF Follows

\* What changes when the call on top takes or gives back what it holds.
SetAnds(calls, x) == [calls EXCEPT ![Len(calls)].ands = x]

LEMMA AndsChange ==
  ASSUME NEW calls \in Seq(CallTypes), Len(calls) > 0, NEW x \in Nat
  PROVE  /\ SetAnds(calls, x) \in Seq(CallTypes) /\ Len(SetAnds(calls, x)) = Len(calls)
         /\ DOMAIN SetAnds(calls, x) = DOMAIN calls
         /\ SetAnds(calls, x)[Len(calls)].ands = x
         /\ SetAnds(calls, x)[Len(calls)].ors = calls[Len(calls)].ors
         /\ \A i \in 1..Len(calls) : i # Len(calls) => SetAnds(calls, x)[i] = calls[i]
         /\ HeldOrs(SetAnds(calls, x)) = HeldOrs(calls)
         /\ x = 0 => HeldAnds(SetAnds(calls, x)) = HeldAnds(calls) \ {Len(calls)}
         /\ x # 0 => HeldAnds(SetAnds(calls, x)) = HeldAnds(calls) \cup {Len(calls)}
<1> DEFINE n       == Len(calls)
           changed == SetAnds(calls, x)
<1>1. n \in 1..Len(calls) /\ DOMAIN calls = 1..n
  BY LenProperties
<1>2. calls[n] \in CallTypes
  BY <1>1, ElementOfSeq
<1>3. changed[n].ands = x /\ changed[n].ors = calls[n].ors /\ changed[n] \in CallTypes
  BY <1>1, <1>2 DEF CallTypes, SetAnds
<1>4. \A i \in 1..n : i # n => changed[i] = calls[i]
  BY <1>1 DEF SetAnds
<1>5. changed \in Seq(CallTypes) /\ Len(changed) = n /\ DOMAIN changed = DOMAIN calls
  <2>1. changed = [calls EXCEPT ![n] = changed[n]]
    BY <1>1 DEF SetAnds
  <2>2. /\ [calls EXCEPT ![n] = changed[n]] \in Seq(CallTypes)
        /\ Len([calls EXCEPT ![n] = changed[n]]) = Len(calls)
    BY <1>1, <1>3, ExceptSeq
  <2> QED  BY <2>1, <2>2, LenProperties, Zenon
<1>6. HeldOrs(changed) = HeldOrs(calls)
  BY <1>1, <1>3, <1>4, <1>5 DEF HeldOrs
<1> HIDE DEF changed
<1>7. HeldAnds(changed) = (IF x = 0 THEN HeldAnds(calls) \ {n} ELSE HeldAnds(calls) \cup {n})
  BY <1>1, <1>3, <1>4, <1>5 DEF HeldAnds
<1> QED  BY <1>3, <1>4, <1>5, <1>6, <1>7 DEF changed

SetOrs(calls, x) == [calls EXCEPT ![Len(calls)].ors = x]

LEMMA OrsChange ==
  ASSUME NEW calls \in Seq(CallTypes), Len(calls) > 0, NEW x \in Nat
  PROVE  /\ SetOrs(calls, x) \in Seq(CallTypes) /\ Len(SetOrs(calls, x)) = Len(calls)
         /\ DOMAIN SetOrs(calls, x) = DOMAIN calls
         /\ SetOrs(calls, x)[Len(calls)].ors = x
         /\ SetOrs(calls, x)[Len(calls)].ands = calls[Len(calls)].ands
         /\ \A i \in 1..Len(calls) : i # Len(calls) => SetOrs(calls, x)[i] = calls[i]
         /\ HeldAnds(SetOrs(calls, x)) = HeldAnds(calls)
         /\ x = 0 => HeldOrs(SetOrs(calls, x)) = HeldOrs(calls) \ {Len(calls)}
         /\ x # 0 => HeldOrs(SetOrs(calls, x)) = HeldOrs(calls) \cup {Len(calls)}
<1> DEFINE n       == Len(calls)
           changed == SetOrs(calls, x)
<1>1. n \in 1..Len(calls) /\ DOMAIN calls = 1..n
  BY LenProperties
<1>2. calls[n] \in CallTypes
  BY <1>1, ElementOfSeq
<1>3. changed[n].ors = x /\ changed[n].ands = calls[n].ands /\ changed[n] \in CallTypes
  BY <1>1, <1>2 DEF CallTypes, SetOrs
<1>4. \A i \in 1..n : i # n => changed[i] = calls[i]
  BY <1>1 DEF SetOrs
<1>5. changed \in Seq(CallTypes) /\ Len(changed) = n /\ DOMAIN changed = DOMAIN calls
  <2>1. changed = [calls EXCEPT ![n] = changed[n]]
    BY <1>1 DEF SetOrs
  <2>2. /\ [calls EXCEPT ![n] = changed[n]] \in Seq(CallTypes)
        /\ Len([calls EXCEPT ![n] = changed[n]]) = Len(calls)
    BY <1>1, <1>3, ExceptSeq
  <2> QED  BY <2>1, <2>2, LenProperties, Zenon
<1>6. HeldAnds(changed) = HeldAnds(calls)
  BY <1>1, <1>3, <1>4, <1>5 DEF HeldAnds
<1> HIDE DEF changed
<1>7. HeldOrs(changed) = (IF x = 0 THEN HeldOrs(calls) \ {n} ELSE HeldOrs(calls) \cup {n})
  BY <1>1, <1>3, <1>4, <1>5 DEF HeldOrs
<1> QED  BY <1>3, <1>4, <1>5, <1>6, <1>7 DEF changed

LEMMA AndJoined ==
  ASSUME NEW t, NEW p, NEW q, NEW g, Follows(t, p, g), p.phase = "conjunction",
         p.calls[Len(p.calls)].ands # 0, Len(p.nodes) < MaxNodes,
         q = Parse("conjunction", p.at,
                   Append(p.nodes, Branch("and", p.calls[Len(p.calls)].ands, p.root)),
                   SetAnds(p.calls, 0), Len(p.nodes) + 1)
  PROVE  Follows(t, q, g)
<1> DEFINE n    == Len(p.calls)
           node == Branch("and", p.calls[n].ands, p.root)
<1>1. /\ IsParse(t, p) /\ Opened(t, p, g) /\ Alternates(t, p) /\ IsShallow(t, p)
      /\ IsCounted(t, p) /\ MeansTheSame(t, p, g)
  BY DEF Follows
<1>2. /\ t \in Seq(Tokens) /\ n \in Nat /\ n > 0 /\ Len(p.nodes) \in Nat
      /\ IsTree(p.nodes) /\ p.calls \in Seq(CallTypes) /\ DOMAIN p.calls = 1..n /\ n \in 1..n
      /\ p.root \in 1..Len(p.nodes) /\ p.at \in 1..(Len(t) + 1)
  BY <1>1, ParseFields DEF IsParse
<1>3. p.calls[n].ands \in 1..Len(p.nodes) /\ p.calls[n] \in CallTypes
  <2>1. p.calls[n] \in CallTypes
    BY <1>2, ElementOfSeq
  <2>2. p.calls[n].ands <= Len(p.nodes)
    BY <1>1, <1>2 DEF IsParse
  <2> QED  BY <2>1, <2>2, <1>2 DEF CallTypes
<1>4. /\ node \in NodeTypes /\ node.op = "and" /\ node.left = p.calls[n].ands
      /\ node.right = p.root
  BY <1>2, <1>3 DEF Branch, NodeTypes
<1>5. /\ IsTree(Append(p.nodes, node)) /\ Append(p.nodes, node) \in Seq(NodeTypes)
      /\ Len(Append(p.nodes, node)) = Len(p.nodes) + 1
  <2> HIDE DEF node
  <2> QED  BY <1>2, <1>3, <1>4, TreeGrows, AppendedNode
<1>6. /\ q.phase = "conjunction" /\ q.at = p.at /\ q.nodes = Append(p.nodes, node)
      /\ q.root = Len(p.nodes) + 1 /\ q.calls = SetAnds(p.calls, 0)
  BY DEF Parse
<1>7. /\ q.calls \in Seq(CallTypes) /\ Len(q.calls) = n /\ DOMAIN q.calls = DOMAIN p.calls
      /\ q.calls[n].ands = 0 /\ q.calls[n].ors = p.calls[n].ors
      /\ \A i \in 1..n : i # n => q.calls[i] = p.calls[i]
      /\ HeldOrs(q.calls) = HeldOrs(p.calls)
      /\ HeldAnds(q.calls) = HeldAnds(p.calls) \ {n}
  <2>1. q.calls = SetAnds(p.calls, 0)
    BY <1>6
  <2>2. p.calls \in Seq(CallTypes) /\ Len(p.calls) > 0 /\ 0 \in Nat
    BY <1>2
  <2>3. /\ SetAnds(p.calls, 0) \in Seq(CallTypes) /\ Len(SetAnds(p.calls, 0)) = Len(p.calls)
        /\ DOMAIN SetAnds(p.calls, 0) = DOMAIN p.calls
        /\ SetAnds(p.calls, 0)[Len(p.calls)].ands = 0
        /\ SetAnds(p.calls, 0)[Len(p.calls)].ors = p.calls[Len(p.calls)].ors
        /\ \A i \in 1..Len(p.calls) : i # Len(p.calls) => SetAnds(p.calls, 0)[i] = p.calls[i]
        /\ HeldOrs(SetAnds(p.calls, 0)) = HeldOrs(p.calls)
        /\ HeldAnds(SetAnds(p.calls, 0)) = HeldAnds(p.calls) \ {Len(p.calls)}
    BY <2>2, AndsChange
  <2> QED  BY <2>1, <2>3, Zenon
<1>8. q \in ParseTypes
  <2>1. /\ Len(p.nodes) + 1 \in Nat /\ p.at \in Nat
        /\ Append(p.nodes, node) \in Seq(NodeTypes) /\ SetAnds(p.calls, 0) \in Seq(CallTypes)
    <3>1. SetAnds(p.calls, 0) \in Seq(CallTypes)
      BY <1>6, <1>7, Zenon
    <3> QED  BY <3>1, <1>2, <1>5
  <2> QED  BY <2>1, ParseIsTyped
<1>9. Len(q.nodes) = Len(p.nodes) + 1 /\ IsTree(q.nodes) /\ Len(q.nodes) \in Nat
  <2>1. q.nodes = Append(p.nodes, node)
    BY <1>6
  <2>2. Len(q.nodes) = Len(p.nodes) + 1 /\ IsTree(q.nodes)
    BY <2>1, <1>5, Zenon
  <2> QED  BY <2>2, <1>2
<1> HIDE DEF node
<1>10. IsParse(t, q)
  <2>1. \A i \in DOMAIN q.calls : q.calls[i].ors <= Len(q.nodes) /\ q.calls[i].ands <= Len(q.nodes)
    <3>1. \A i \in DOMAIN p.calls : p.calls[i].ors <= Len(q.nodes) /\ p.calls[i].ands <= Len(q.nodes)
      <4>1. Len(q.nodes) \in Nat /\ Len(p.nodes) <= Len(q.nodes)
        BY <1>2, <1>9
      <4> QED  BY <4>1, <1>1, HeldAreInTheList
    <3>2. p.calls[n].ors <= Len(q.nodes) /\ p.calls[n].ands <= Len(q.nodes)
      BY <3>1, <1>2
    <3>3. q.calls[n].ors <= Len(q.nodes) /\ q.calls[n].ands <= Len(q.nodes)
      <4>1. q.calls[n].ands = 0 /\ q.calls[n].ors = p.calls[n].ors
        BY <1>7
      <4> QED  BY <4>1, <3>2, <1>9
    <3> QED  BY <3>1, <3>3, <1>2, <1>7
  <2>2. q.calls # <<>>
    BY <1>2, <1>7, EmptySeq
  <2>3. q.phase = "disjunction" => q.calls[Len(q.calls)].ands = 0
    BY <1>1, <1>6, <1>7 DEF IsParse
  <2>4. q.root <= Len(q.nodes) /\ q.root # 0 /\ q.at \in 1..(Len(t) + 1)
    BY <1>2, <1>6, <1>9
  <2> QED  BY <2>1, <2>2, <2>3, <2>4, <1>2, <1>8, <1>9, Zenon DEF IsParse
<1>11. Opened(t, q, g)
  BY <1>1, <1>6, <1>7, OpenedStays
<1>12. Alternates(t, q)
  BY <1>1, <1>6 DEF Alternates
<1>13. IsShallow(t, q)
  BY <1>1, <1>6 DEF IsShallow
<1>14. IsCounted(t, q)
  <2>1. /\ Cardinality(HeldAnds(p.calls)) \in Nat /\ Cardinality(HeldOrs(p.calls)) \in Nat
        /\ IsFiniteSet(HeldAnds(p.calls))
    BY <1>2, HeldAreCounted
  <2>2. n \in HeldAnds(p.calls)
    BY <1>2 DEF HeldAnds
  <2>3. Cardinality(HeldAnds(q.calls)) = Cardinality(HeldAnds(p.calls)) - 1
    BY <2>1, <2>2, <1>7, FS_RemoveElement
  <2>4. Cardinality(Words(t, p.at)) =
          Len(p.nodes) + Cardinality(HeldAnds(p.calls)) + Cardinality(HeldOrs(p.calls))
    BY <1>1 DEF IsCounted
  <2>5. Cardinality(Words(t, q.at)) =
          Len(q.nodes) + Cardinality(HeldAnds(q.calls)) + Cardinality(HeldOrs(q.calls))
    <3>1. Cardinality(HeldOrs(q.calls)) = Cardinality(HeldOrs(p.calls)) /\ q.at = p.at
      BY <1>6, <1>7
    <3>2. Len(q.nodes) = Len(p.nodes) + 1 /\ Len(p.nodes) \in Nat
      BY <1>2, <1>9
    <3>3. Cardinality(HeldAnds(p.calls)) \in Nat /\ Cardinality(HeldOrs(p.calls)) \in Nat
      BY <2>1
    <3>4. Cardinality(Words(t, q.at)) = Cardinality(Words(t, p.at))
      BY <3>1
    <3>5. /\ Cardinality(HeldAnds(q.calls)) = Cardinality(HeldAnds(p.calls)) - 1
          /\ Cardinality(HeldOrs(q.calls)) = Cardinality(HeldOrs(p.calls))
      BY <3>1, <2>3
    <3> DEFINE ands == Cardinality(HeldAnds(p.calls))
               ors  == Cardinality(HeldOrs(p.calls))
               all  == Len(p.nodes)
    <3>6. all + ands + ors = (all + 1) + Cardinality(HeldAnds(q.calls)) + Cardinality(HeldOrs(q.calls))
      <4>1. ands \in Nat /\ ors \in Nat /\ all \in Nat
        BY <3>2, <3>3
      <4>2. /\ Cardinality(HeldAnds(q.calls)) = ands - 1
            /\ Cardinality(HeldOrs(q.calls)) = ors
        BY <3>5
      <4> HIDE DEF ands, ors, all
      <4> QED  BY <4>1, <4>2
    <3> QED  BY <3>2, <3>4, <3>6, <2>4
  <2>6. Len(q.nodes) <= MaxNodes
    BY <1>2, <1>9, QueryAssumption
  <2> QED  BY <2>5, <2>6 DEF IsCounted
<1>15. MeansTheSame(t, q, g)
  <2>1. SUFFICES ASSUME NEW row \in SUBSET Comparisons, NEW V, NEW W,
                        IsMeaning(t, row, V), IsWorth(q.nodes, row, W)
                 PROVE  Agrees(t, q, g, row, V, W)
    BY Zenon DEF MeansTheSame
  <2>2. IsWorth(p.nodes, row, W)
    BY <2>1, <1>2, <1>4, <1>6, WorthOfMore, Zenon
  <2>3. W[Len(p.nodes) + 1] <=> (W[node.left] /\ W[node.right])
    BY <2>1, <1>2, <1>4, <1>6, WorthOfMore, Zenon
  <2>4. W[q.root] <=> (W[p.calls[n].ands] /\ W[p.root])
    BY <2>3, <1>4, <1>6
  <2>5. Agrees(t, p, g, row, V, W)
    BY <2>1, <2>2, <1>1 DEF MeansTheSame
  <2>6. Len(g) = n
    BY <1>1 DEF Opened
  <2>7. \A i \in 1..(n - 1) : q.calls[i] = p.calls[i]
    BY <1>2, <1>7
  <2>8. \A i \in 1..(n - 1) : HoldsSoFar(t, row, V, W, q.calls[i], g[i], g[i + 1])
    BY <2>5, <2>6, <2>7 DEF Agrees
  <2>9. /\ OrOf(q.calls[n], W) <=> OrsTo(t, row, V, g[n], q.at)
        /\ (AndOf(q.calls[n], W) /\ W[q.root]) <=> AndsTo(t, row, V, g[n], q.at)
    BY <2>4, <2>5, <2>6, <1>6, <1>7 DEF Agrees, OrOf, AndOf
  <2> QED  BY <2>6, <2>8, <2>9, <1>6 DEF Agrees
<1> QED  BY <1>10, <1>11, <1>12, <1>13, <1>14, <1>15 DEF Follows

LEMMA AndTaken ==
  ASSUME NEW t, NEW p, NEW q, NEW g, Follows(t, p, g), p.phase = "conjunction",
         p.calls[Len(p.calls)].ands = 0, p.at \in DOMAIN t, t[p.at] = "and",
         q = Parse("primary", p.at + 1, p.nodes, SetAnds(p.calls, p.root), p.root)
  PROVE  Follows(t, q, g)
<1> DEFINE n == Len(p.calls)
<1>1. /\ IsParse(t, p) /\ Opened(t, p, g) /\ Alternates(t, p) /\ IsShallow(t, p)
      /\ IsCounted(t, p) /\ MeansTheSame(t, p, g)
  BY DEF Follows
<1>2. /\ t \in Seq(Tokens) /\ n \in Nat /\ n > 0 /\ Len(p.nodes) \in Nat
      /\ Len(t) \in Nat /\ DOMAIN t = 1..Len(t)
      /\ IsTree(p.nodes) /\ p.calls \in Seq(CallTypes) /\ DOMAIN p.calls = 1..n /\ n \in 1..n
      /\ p.root \in 1..Len(p.nodes) /\ p.at \in 1..Len(t)
  BY <1>1, ParseFields DEF IsParse
<1>3. /\ q.phase = "primary" /\ q.at = p.at + 1 /\ q.nodes = p.nodes /\ q.root = p.root
      /\ q.calls = SetAnds(p.calls, p.root)
  BY DEF Parse
<1>4. /\ q.calls \in Seq(CallTypes) /\ Len(q.calls) = n /\ DOMAIN q.calls = DOMAIN p.calls
      /\ q.calls[n].ands = p.root /\ q.calls[n].ors = p.calls[n].ors
      /\ \A i \in 1..n : i # n => q.calls[i] = p.calls[i]
      /\ HeldOrs(q.calls) = HeldOrs(p.calls)
      /\ HeldAnds(q.calls) = HeldAnds(p.calls) \cup {n}
  <2>1. p.root \in Nat /\ p.root # 0
    BY <1>2
  <2> QED  BY <2>1, <1>2, <1>3, AndsChange
<1>5. q \in ParseTypes
  <2>1. p.at + 1 \in Nat
    BY <1>2
  <2>2. p.nodes \in Seq(NodeTypes) /\ p.root \in Nat /\ SetAnds(p.calls, p.root) \in Seq(CallTypes)
    BY <1>1, <1>3, <1>4, ParseFields
  <2> QED  BY <2>1, <2>2, ParseIsTyped
<1>6. t[p.at] \notin {"(", ")"} /\ ~Starts(t[p.at]) /\ ~Stops(t[p.at])
  BY QueryAssumption DEF Starts, Stops
<1>7. IsParse(t, q)
  <2>1. \A i \in DOMAIN q.calls : q.calls[i].ors <= Len(q.nodes) /\ q.calls[i].ands <= Len(q.nodes)
    <3>1. \A i \in DOMAIN p.calls : p.calls[i].ors <= Len(q.nodes) /\ p.calls[i].ands <= Len(q.nodes)
      BY <1>1, <1>3 DEF IsParse
    <3>2. q.calls[n].ors <= Len(q.nodes) /\ q.calls[n].ands <= Len(q.nodes)
      BY <3>1, <1>2, <1>3, <1>4
    <3> QED  BY <3>1, <3>2, <1>2, <1>4
  <2>2. q.calls # <<>>
    BY <1>2, <1>4, EmptySeq
  <2> QED  BY <2>1, <2>2, <1>2, <1>3, <1>5 DEF IsParse
<1>8. Opened(t, q, g)
  BY <1>1, <1>3, <1>4, <1>6, OpenedGoesOn
<1>9. Alternates(t, q)
  BY <1>1, <1>3, <1>6, AlternatesGoesOn
<1>10. IsShallow(t, q)
  BY <1>1, <1>3, ShallowGoesOn
<1>11. IsCounted(t, q)
  <2>1. /\ Cardinality(HeldAnds(p.calls)) \in Nat /\ Cardinality(HeldOrs(p.calls)) \in Nat
        /\ IsFiniteSet(HeldAnds(p.calls))
    BY <1>2, HeldAreCounted
  <2>2. n \notin HeldAnds(p.calls)
    BY <1>2 DEF HeldAnds
  <2>3. Cardinality(HeldAnds(q.calls)) = Cardinality(HeldAnds(p.calls)) + 1
    <3>1. Cardinality(HeldAnds(p.calls) \cup {n}) = Cardinality(HeldAnds(p.calls)) + 1
      BY <2>1, <2>2, FS_AddElement
    <3> QED  BY <3>1, <1>4
  <2>4. Cardinality(Words(t, q.at)) = Cardinality(Words(t, p.at)) + 1
    <3>1. p.at \in Nat /\ p.at > 0 /\ q.at = p.at + 1
      BY <1>2, <1>3
    <3> QED  BY <3>1, <1>6, WordsStep
  <2>5. /\ Len(p.nodes) <= MaxNodes
        /\ Cardinality(Words(t, p.at)) =
             Len(p.nodes) + Cardinality(HeldAnds(p.calls)) + Cardinality(HeldOrs(p.calls))
    BY <1>1 DEF IsCounted
  <2>6. Cardinality(Words(t, q.at)) =
          Len(q.nodes) + Cardinality(HeldAnds(q.calls)) + Cardinality(HeldOrs(q.calls))
    <3>1. Cardinality(HeldOrs(q.calls)) = Cardinality(HeldOrs(p.calls))
      BY <1>4
    <3>2. q.nodes = p.nodes /\ Len(p.nodes) \in Nat
      BY <1>2, <1>3
    <3>3. Cardinality(HeldAnds(p.calls)) \in Nat /\ Cardinality(HeldOrs(p.calls)) \in Nat
      BY <2>1
    <3>4. Cardinality(Words(t, p.at)) =
            Len(p.nodes) + Cardinality(HeldAnds(p.calls)) + Cardinality(HeldOrs(p.calls))
      BY <2>5
    <3> QED  BY <3>1, <3>2, <3>3, <3>4, <2>3, <2>4
  <2> QED  BY <2>5, <2>6, <1>3 DEF IsCounted
<1>12. MeansTheSame(t, q, g)
  <2>1. SUFFICES ASSUME NEW row \in SUBSET Comparisons, NEW V, NEW W,
                        IsMeaning(t, row, V), IsWorth(q.nodes, row, W)
                 PROVE  Agrees(t, q, g, row, V, W)
    BY Zenon DEF MeansTheSame
  <2>2. Agrees(t, p, g, row, V, W)
    BY <2>1, <1>1, <1>3 DEF MeansTheSame
  <2>3. Len(g) = n /\ g[n] \in Nat /\ In(t, g[n], p.at)
    BY <1>1, <1>2, OpenedGroups
  <2>4. \A i \in 1..(n - 1) : q.calls[i] = p.calls[i]
    BY <1>2, <1>4
  <2>5. \A i \in 1..(n - 1) : HoldsSoFar(t, row, V, W, q.calls[i], g[i], g[i + 1])
    BY <2>2, <2>3, <2>4 DEF Agrees
  <2>6. /\ AndsTo(t, row, V, g[n], q.at) <=> AndsTo(t, row, V, g[n], p.at)
        /\ OrsTo(t, row, V, g[n], q.at) <=> OrsTo(t, row, V, g[n], p.at)
    <3>1. p.at \notin Operands(t, g[n]) /\ p.at \notin Ends(t, g[n])
      BY <1>2, <1>6 DEF Operands, Ends
    <3>2. p.at \in Nat
      BY <1>2
    <3> QED  BY <3>1, <3>2, <2>3, <1>2, <1>3, NothingAt
  <2>7. HoldsSoFar(t, row, V, W, q.calls[n], g[n], q.at)
    BY <2>2, <2>3, <2>6, <1>2, <1>4 DEF Agrees, HoldsSoFar, OrOf, AndOf
  <2> QED  BY <2>3, <2>5, <2>7, <1>3, <1>4 DEF Agrees
<1> QED  BY <1>7, <1>8, <1>9, <1>10, <1>11, <1>12 DEF Follows

LEMMA AndsEnd ==
  ASSUME NEW t, NEW p, NEW q, NEW g, Follows(t, p, g), p.phase = "conjunction",
         p.calls[Len(p.calls)].ands = 0, p.at \notin DOMAIN t \/ t[p.at] # "and",
         q = Parse("disjunction", p.at, p.nodes, p.calls, p.root)
  PROVE  Follows(t, q, g)
<1>1. /\ IsParse(t, p) /\ Opened(t, p, g) /\ Alternates(t, p) /\ IsShallow(t, p)
      /\ IsCounted(t, p) /\ MeansTheSame(t, p, g)
  BY DEF Follows
<1>2. /\ q.phase = "disjunction" /\ q.at = p.at /\ q.nodes = p.nodes /\ q.root = p.root
      /\ q.calls = p.calls /\ q \in ParseTypes
  BY <1>1 DEF ParseTypes, IsParse, Parse
<1>3. IsParse(t, q)
  BY <1>1, <1>2 DEF IsParse
<1>4. Opened(t, q, g)
  BY <1>1, <1>2, OpenedStays
<1>5. Alternates(t, q)
  <2>1. p.at > Len(t) \/ t[p.at] # "and"
    BY <1>1, ParseFields
  <2> QED  BY <2>1, <1>1, <1>2, AlternatesStays
<1>6. IsShallow(t, q)
  BY <1>1, <1>2 DEF IsShallow
<1>7. IsCounted(t, q)
  BY <1>1, <1>2 DEF IsCounted
<1>8. MeansTheSame(t, q, g)
  <2>1. SUFFICES ASSUME NEW row \in SUBSET Comparisons, NEW V, NEW W,
                        IsMeaning(t, row, V), IsWorth(q.nodes, row, W)
                 PROVE  Agrees(t, q, g, row, V, W)
    BY Zenon DEF MeansTheSame
  <2>2. Agrees(t, p, g, row, V, W)
    BY <2>1, <1>1, <1>2 DEF MeansTheSame
  <2>3. Len(g) = Len(p.calls)
    BY <1>1 DEF Opened
  <2> QED  BY <2>2, <2>3, <1>2 DEF Agrees, AndOf
<1> QED  BY <1>3, <1>4, <1>5, <1>6, <1>7, <1>8 DEF Follows

LEMMA OrJoined ==
  ASSUME NEW t, NEW p, NEW q, NEW g, Follows(t, p, g), p.phase = "disjunction",
         p.calls[Len(p.calls)].ors # 0, Len(p.nodes) < MaxNodes,
         q = Parse("disjunction", p.at,
                   Append(p.nodes, Branch("or", p.calls[Len(p.calls)].ors, p.root)),
                   SetOrs(p.calls, 0), Len(p.nodes) + 1)
  PROVE  Follows(t, q, g)
<1> DEFINE n    == Len(p.calls)
           node == Branch("or", p.calls[n].ors, p.root)
<1>1. /\ IsParse(t, p) /\ Opened(t, p, g) /\ Alternates(t, p) /\ IsShallow(t, p)
      /\ IsCounted(t, p) /\ MeansTheSame(t, p, g)
  BY DEF Follows
<1>2. /\ t \in Seq(Tokens) /\ n \in Nat /\ n > 0 /\ Len(p.nodes) \in Nat
      /\ IsTree(p.nodes) /\ p.calls \in Seq(CallTypes) /\ DOMAIN p.calls = 1..n /\ n \in 1..n
      /\ p.root \in 1..Len(p.nodes) /\ p.at \in 1..(Len(t) + 1)
  BY <1>1, ParseFields DEF IsParse
<1>3. p.calls[n].ors \in 1..Len(p.nodes) /\ p.calls[n] \in CallTypes
  <2>1. p.calls[n] \in CallTypes
    BY <1>2, ElementOfSeq
  <2>2. p.calls[n].ors <= Len(p.nodes)
    BY <1>1, <1>2 DEF IsParse
  <2> QED  BY <2>1, <2>2, <1>2 DEF CallTypes
<1>4. /\ node \in NodeTypes /\ node.op = "or" /\ node.left = p.calls[n].ors
      /\ node.right = p.root
  BY <1>2, <1>3 DEF Branch, NodeTypes
<1>5. /\ IsTree(Append(p.nodes, node)) /\ Append(p.nodes, node) \in Seq(NodeTypes)
      /\ Len(Append(p.nodes, node)) = Len(p.nodes) + 1
  <2> HIDE DEF node
  <2> QED  BY <1>2, <1>3, <1>4, TreeGrows, AppendedNode
<1>6. /\ q.phase = "disjunction" /\ q.at = p.at /\ q.nodes = Append(p.nodes, node)
      /\ q.root = Len(p.nodes) + 1 /\ q.calls = SetOrs(p.calls, 0)
  BY DEF Parse
<1>7. /\ q.calls \in Seq(CallTypes) /\ Len(q.calls) = n /\ DOMAIN q.calls = DOMAIN p.calls
      /\ q.calls[n].ors = 0 /\ q.calls[n].ands = p.calls[n].ands
      /\ \A i \in 1..n : i # n => q.calls[i] = p.calls[i]
      /\ HeldAnds(q.calls) = HeldAnds(p.calls)
      /\ HeldOrs(q.calls) = HeldOrs(p.calls) \ {n}
  <2>1. q.calls = SetOrs(p.calls, 0)
    BY <1>6
  <2>2. p.calls \in Seq(CallTypes) /\ Len(p.calls) > 0 /\ 0 \in Nat
    BY <1>2
  <2>3. /\ SetOrs(p.calls, 0) \in Seq(CallTypes) /\ Len(SetOrs(p.calls, 0)) = Len(p.calls)
        /\ DOMAIN SetOrs(p.calls, 0) = DOMAIN p.calls
        /\ SetOrs(p.calls, 0)[Len(p.calls)].ors = 0
        /\ SetOrs(p.calls, 0)[Len(p.calls)].ands = p.calls[Len(p.calls)].ands
        /\ \A i \in 1..Len(p.calls) : i # Len(p.calls) => SetOrs(p.calls, 0)[i] = p.calls[i]
        /\ HeldAnds(SetOrs(p.calls, 0)) = HeldAnds(p.calls)
        /\ HeldOrs(SetOrs(p.calls, 0)) = HeldOrs(p.calls) \ {Len(p.calls)}
    BY <2>2, OrsChange
  <2> QED  BY <2>1, <2>3, Zenon
<1>8. q \in ParseTypes
  <2>1. /\ Len(p.nodes) + 1 \in Nat /\ p.at \in Nat
        /\ Append(p.nodes, node) \in Seq(NodeTypes) /\ SetOrs(p.calls, 0) \in Seq(CallTypes)
    <3>1. SetOrs(p.calls, 0) \in Seq(CallTypes)
      BY <1>6, <1>7, Zenon
    <3> QED  BY <3>1, <1>2, <1>5
  <2> QED  BY <2>1, ParseIsTyped
<1>9. Len(q.nodes) = Len(p.nodes) + 1 /\ IsTree(q.nodes) /\ Len(q.nodes) \in Nat
  <2>1. q.nodes = Append(p.nodes, node)
    BY <1>6
  <2>2. Len(q.nodes) = Len(p.nodes) + 1 /\ IsTree(q.nodes)
    BY <2>1, <1>5, Zenon
  <2> QED  BY <2>2, <1>2
<1> HIDE DEF node
<1>10. IsParse(t, q)
  <2>1. \A i \in DOMAIN q.calls : q.calls[i].ors <= Len(q.nodes) /\ q.calls[i].ands <= Len(q.nodes)
    <3>1. \A i \in DOMAIN p.calls : p.calls[i].ors <= Len(q.nodes) /\ p.calls[i].ands <= Len(q.nodes)
      <4>1. Len(q.nodes) \in Nat /\ Len(p.nodes) <= Len(q.nodes)
        BY <1>2, <1>9
      <4> QED  BY <4>1, <1>1, HeldAreInTheList
    <3>2. p.calls[n].ors <= Len(q.nodes) /\ p.calls[n].ands <= Len(q.nodes)
      BY <3>1, <1>2
    <3>3. q.calls[n].ors <= Len(q.nodes) /\ q.calls[n].ands <= Len(q.nodes)
      <4>1. q.calls[n].ors = 0 /\ q.calls[n].ands = p.calls[n].ands
        BY <1>7
      <4> QED  BY <4>1, <3>2, <1>9
    <3> QED  BY <3>1, <3>3, <1>2, <1>7
  <2>2. q.calls # <<>>
    BY <1>2, <1>7, EmptySeq
  <2>3. q.phase = "disjunction" => q.calls[Len(q.calls)].ands = 0
    BY <1>1, <1>6, <1>7 DEF IsParse
  <2>4. q.root <= Len(q.nodes) /\ q.root # 0 /\ q.at \in 1..(Len(t) + 1)
    BY <1>2, <1>6, <1>9
  <2> QED  BY <2>1, <2>2, <2>3, <2>4, <1>2, <1>8, <1>9, Zenon DEF IsParse
<1>11. Opened(t, q, g)
  BY <1>1, <1>6, <1>7, OpenedStays
<1>12. Alternates(t, q)
  BY <1>1, <1>6 DEF Alternates
<1>13. IsShallow(t, q)
  BY <1>1, <1>6 DEF IsShallow
<1>14. IsCounted(t, q)
  <2>1. /\ Cardinality(HeldOrs(p.calls)) \in Nat /\ Cardinality(HeldAnds(p.calls)) \in Nat
        /\ IsFiniteSet(HeldOrs(p.calls))
    BY <1>2, HeldAreCounted
  <2>2. n \in HeldOrs(p.calls)
    BY <1>2 DEF HeldOrs
  <2>3. Cardinality(HeldOrs(q.calls)) = Cardinality(HeldOrs(p.calls)) - 1
    BY <2>1, <2>2, <1>7, FS_RemoveElement
  <2>4. Cardinality(Words(t, p.at)) =
          Len(p.nodes) + Cardinality(HeldAnds(p.calls)) + Cardinality(HeldOrs(p.calls))
    BY <1>1 DEF IsCounted
  <2>5. Cardinality(Words(t, q.at)) =
          Len(q.nodes) + Cardinality(HeldAnds(q.calls)) + Cardinality(HeldOrs(q.calls))
    <3>1. Cardinality(HeldAnds(q.calls)) = Cardinality(HeldAnds(p.calls)) /\ q.at = p.at
      BY <1>6, <1>7
    <3>2. Len(q.nodes) = Len(p.nodes) + 1 /\ Len(p.nodes) \in Nat
      BY <1>2, <1>9
    <3>3. Cardinality(HeldOrs(p.calls)) \in Nat /\ Cardinality(HeldAnds(p.calls)) \in Nat
      BY <2>1
    <3>4. Cardinality(Words(t, q.at)) = Cardinality(Words(t, p.at))
      BY <3>1
    <3>5. /\ Cardinality(HeldOrs(q.calls)) = Cardinality(HeldOrs(p.calls)) - 1
          /\ Cardinality(HeldAnds(q.calls)) = Cardinality(HeldAnds(p.calls))
      BY <3>1, <2>3
    <3> DEFINE ands == Cardinality(HeldAnds(p.calls))
               ors  == Cardinality(HeldOrs(p.calls))
               all  == Len(p.nodes)
    <3>6. all + ands + ors = (all + 1) + Cardinality(HeldAnds(q.calls)) + Cardinality(HeldOrs(q.calls))
      <4>1. ands \in Nat /\ ors \in Nat /\ all \in Nat
        BY <3>2, <3>3
      <4>2. /\ Cardinality(HeldOrs(q.calls)) = ors - 1
            /\ Cardinality(HeldAnds(q.calls)) = ands
        BY <3>5
      <4> HIDE DEF ands, ors, all
      <4> QED  BY <4>1, <4>2
    <3> QED  BY <3>2, <3>4, <3>6, <2>4
  <2>6. Len(q.nodes) <= MaxNodes
    BY <1>2, <1>9, QueryAssumption
  <2> QED  BY <2>5, <2>6 DEF IsCounted
<1>15. MeansTheSame(t, q, g)
  <2>1. SUFFICES ASSUME NEW row \in SUBSET Comparisons, NEW V, NEW W,
                        IsMeaning(t, row, V), IsWorth(q.nodes, row, W)
                 PROVE  Agrees(t, q, g, row, V, W)
    BY Zenon DEF MeansTheSame
  <2>2. IsWorth(p.nodes, row, W)
    BY <2>1, <1>2, <1>4, <1>6, WorthOfMore, Zenon
  <2>3. W[Len(p.nodes) + 1] <=> (W[node.left] \/ W[node.right])
    BY <2>1, <1>2, <1>4, <1>6, WorthOfMore, Zenon
  <2>4. W[q.root] <=> (W[p.calls[n].ors] \/ W[p.root])
    BY <2>3, <1>4, <1>6
  <2>5. Agrees(t, p, g, row, V, W)
    BY <2>1, <2>2, <1>1 DEF MeansTheSame
  <2>6. Len(g) = n
    BY <1>1 DEF Opened
  <2>7. \A i \in 1..(n - 1) : q.calls[i] = p.calls[i]
    BY <1>2, <1>7
  <2>8. \A i \in 1..(n - 1) : HoldsSoFar(t, row, V, W, q.calls[i], g[i], g[i + 1])
    BY <2>5, <2>6, <2>7 DEF Agrees
  <2>9. (OrOf(q.calls[n], W) \/ W[q.root])
          <=> (OrsTo(t, row, V, g[n], q.at) \/ AndsTo(t, row, V, g[n], q.at))
    BY <2>4, <2>5, <2>6, <1>6, <1>7 DEF Agrees, OrOf
  <2> QED  BY <2>6, <2>8, <2>9, <1>6 DEF Agrees
<1> QED  BY <1>10, <1>11, <1>12, <1>13, <1>14, <1>15 DEF Follows

LEMMA OrTaken ==
  ASSUME NEW t, NEW p, NEW q, NEW g, Follows(t, p, g), p.phase = "disjunction",
         p.calls[Len(p.calls)].ors = 0, p.at \in DOMAIN t, t[p.at] = "or",
         q = Parse("primary", p.at + 1, p.nodes, SetOrs(p.calls, p.root), p.root)
  PROVE  Follows(t, q, g)
<1> DEFINE n == Len(p.calls)
<1>1. /\ IsParse(t, p) /\ Opened(t, p, g) /\ Alternates(t, p) /\ IsShallow(t, p)
      /\ IsCounted(t, p) /\ MeansTheSame(t, p, g)
  BY DEF Follows
<1>2. /\ t \in Seq(Tokens) /\ n \in Nat /\ n > 0 /\ Len(p.nodes) \in Nat
      /\ Len(t) \in Nat /\ DOMAIN t = 1..Len(t)
      /\ IsTree(p.nodes) /\ p.calls \in Seq(CallTypes) /\ DOMAIN p.calls = 1..n /\ n \in 1..n
      /\ p.root \in 1..Len(p.nodes) /\ p.at \in 1..Len(t)
  BY <1>1, ParseFields DEF IsParse
<1>3. /\ q.phase = "primary" /\ q.at = p.at + 1 /\ q.nodes = p.nodes /\ q.root = p.root
      /\ q.calls = SetOrs(p.calls, p.root)
  BY DEF Parse
<1>4. /\ q.calls \in Seq(CallTypes) /\ Len(q.calls) = n /\ DOMAIN q.calls = DOMAIN p.calls
      /\ q.calls[n].ors = p.root /\ q.calls[n].ands = p.calls[n].ands
      /\ \A i \in 1..n : i # n => q.calls[i] = p.calls[i]
      /\ HeldAnds(q.calls) = HeldAnds(p.calls)
      /\ HeldOrs(q.calls) = HeldOrs(p.calls) \cup {n}
  <2>1. p.root \in Nat /\ p.root # 0
    BY <1>2
  <2> QED  BY <2>1, <1>2, <1>3, OrsChange
<1>5. q \in ParseTypes
  <2>1. p.at + 1 \in Nat
    BY <1>2
  <2>2. p.nodes \in Seq(NodeTypes) /\ p.root \in Nat /\ SetOrs(p.calls, p.root) \in Seq(CallTypes)
    BY <1>1, <1>3, <1>4, ParseFields
  <2> QED  BY <2>1, <2>2, ParseIsTyped
<1>6. t[p.at] \notin {"(", ")"} /\ ~Starts(t[p.at]) /\ ~Stops(t[p.at])
  BY QueryAssumption DEF Starts, Stops
<1>7. IsParse(t, q)
  <2>1. \A i \in DOMAIN q.calls : q.calls[i].ors <= Len(q.nodes) /\ q.calls[i].ands <= Len(q.nodes)
    <3>1. \A i \in DOMAIN p.calls : p.calls[i].ors <= Len(q.nodes) /\ p.calls[i].ands <= Len(q.nodes)
      BY <1>1, <1>3 DEF IsParse
    <3>2. q.calls[n].ors <= Len(q.nodes) /\ q.calls[n].ands <= Len(q.nodes)
      BY <3>1, <1>2, <1>3, <1>4
    <3> QED  BY <3>1, <3>2, <1>2, <1>4
  <2>2. q.calls # <<>>
    BY <1>2, <1>4, EmptySeq
  <2> QED  BY <2>1, <2>2, <1>2, <1>3, <1>5 DEF IsParse
<1>8. Opened(t, q, g)
  BY <1>1, <1>3, <1>4, <1>6, OpenedGoesOn
<1>9. Alternates(t, q)
  BY <1>1, <1>3, <1>6, AlternatesGoesOn
<1>10. IsShallow(t, q)
  BY <1>1, <1>3, ShallowGoesOn
<1>11. IsCounted(t, q)
  <2>1. /\ Cardinality(HeldOrs(p.calls)) \in Nat /\ Cardinality(HeldAnds(p.calls)) \in Nat
        /\ IsFiniteSet(HeldOrs(p.calls))
    BY <1>2, HeldAreCounted
  <2>2. n \notin HeldOrs(p.calls)
    BY <1>2 DEF HeldOrs
  <2>3. Cardinality(HeldOrs(q.calls)) = Cardinality(HeldOrs(p.calls)) + 1
    <3>1. Cardinality(HeldOrs(p.calls) \cup {n}) = Cardinality(HeldOrs(p.calls)) + 1
      BY <2>1, <2>2, FS_AddElement
    <3> QED  BY <3>1, <1>4
  <2>4. Cardinality(Words(t, q.at)) = Cardinality(Words(t, p.at)) + 1
    <3>1. p.at \in Nat /\ p.at > 0 /\ q.at = p.at + 1
      BY <1>2, <1>3
    <3> QED  BY <3>1, <1>6, WordsStep
  <2>5. /\ Len(p.nodes) <= MaxNodes
        /\ Cardinality(Words(t, p.at)) =
             Len(p.nodes) + Cardinality(HeldAnds(p.calls)) + Cardinality(HeldOrs(p.calls))
    BY <1>1 DEF IsCounted
  <2>6. Cardinality(Words(t, q.at)) =
          Len(q.nodes) + Cardinality(HeldAnds(q.calls)) + Cardinality(HeldOrs(q.calls))
    <3>1. Cardinality(HeldAnds(q.calls)) = Cardinality(HeldAnds(p.calls))
      BY <1>4
    <3>2. q.nodes = p.nodes /\ Len(p.nodes) \in Nat
      BY <1>2, <1>3
    <3>3. Cardinality(HeldOrs(p.calls)) \in Nat /\ Cardinality(HeldAnds(p.calls)) \in Nat
      BY <2>1
    <3>4. Cardinality(Words(t, p.at)) =
            Len(p.nodes) + Cardinality(HeldAnds(p.calls)) + Cardinality(HeldOrs(p.calls))
      BY <2>5
    <3> QED  BY <3>1, <3>2, <3>3, <3>4, <2>3, <2>4
  <2> QED  BY <2>5, <2>6, <1>3 DEF IsCounted
<1>12. MeansTheSame(t, q, g)
  <2>1. SUFFICES ASSUME NEW row \in SUBSET Comparisons, NEW V, NEW W,
                        IsMeaning(t, row, V), IsWorth(q.nodes, row, W)
                 PROVE  Agrees(t, q, g, row, V, W)
    BY Zenon DEF MeansTheSame
  <2>2. Agrees(t, p, g, row, V, W)
    BY <2>1, <1>1, <1>3 DEF MeansTheSame
  <2>3. Len(g) = n /\ g[n] \in Nat /\ In(t, g[n], p.at)
    BY <1>1, <1>2, OpenedGroups
  <2>4. \A i \in 1..(n - 1) : q.calls[i] = p.calls[i]
    BY <1>2, <1>4
  <2>5. \A i \in 1..(n - 1) : HoldsSoFar(t, row, V, W, q.calls[i], g[i], g[i + 1])
    BY <2>2, <2>3, <2>4 DEF Agrees
  <2>6. /\ AndsTo(t, row, V, g[n], q.at)
        /\ OrsTo(t, row, V, g[n], q.at)
             <=> (OrsTo(t, row, V, g[n], p.at) \/ AndsTo(t, row, V, g[n], p.at))
    <3>1. p.at \in Ends(t, g[n])
      BY <2>3, <1>2 DEF Ends
    <3> QED  BY <3>1, <2>3, <1>2, <1>3, EndStep
  <2>7. HoldsSoFar(t, row, V, W, q.calls[n], g[n], q.at)
    <3>1. p.calls[n].ands = 0
      BY <1>1 DEF IsParse
    <3> QED  BY <3>1, <2>2, <2>3, <2>6, <1>2, <1>4 DEF Agrees, HoldsSoFar, OrOf, AndOf
  <2> QED  BY <2>3, <2>5, <2>7, <1>3, <1>4 DEF Agrees
<1> QED  BY <1>7, <1>8, <1>9, <1>10, <1>11, <1>12 DEF Follows

\* In front of a parenthesis inside, a group waits for an operand.
LEMMA InnerIsOperand ==
  ASSUME NEW t, NEW p, NEW g, IsParse(t, p), Opened(t, p, g), NEW m \in 1..(Len(g) - 1)
  PROVE  g[m + 1] \in Operands(t, g[m])
<1>1. m \in 1..Len(g) /\ m + 1 \in 1..Len(g) /\ m + 1 \in 2..Len(g) /\ (m + 1) - 1 = m
  BY OpenedGroups
<1>2. g[m] < g[m + 1] /\ g[m + 1] \in DOMAIN t /\ t[g[m + 1]] = "("
  BY <1>1 DEF Opened
<1>3. /\ g[m] \in Nat /\ g[m + 1] \in Nat /\ g[m + 1] < p.at
      /\ Level(t, g[m]) = m - 1 /\ Level(t, g[m + 1]) = m
      /\ \A j \in g[m]..(p.at - 1) : Level(t, j) >= m - 1
  BY <1>1, OpenedAt
<1>4. Level(t, g[m + 1] - 1) = m - 1
  <2>1. g[m + 1] > 0 /\ g[m + 1] - 1 \in Nat
    BY <1>2, <1>3
  <2>2. Level(t, g[m + 1]) = Level(t, g[m + 1] - 1) + 1 /\ Level(t, g[m + 1] - 1) \in Int
    BY <2>1, <1>2, <1>3, OpeningLevel, LevelIsInt
  <2> QED  BY <2>2, <1>3
<1>5. \A j \in g[m]..(g[m + 1] - 1) : Level(t, j) >= m - 1
  BY <1>3, ParseFields
<1>6. In(t, g[m], g[m + 1])
  BY <1>2, <1>3, <1>4, <1>5 DEF In
<1> QED  BY <1>2, <1>6 DEF Operands, Starts

\* Nothing of an outer group is inside the group that is on top.
LEMMA InnerIsApart ==
  ASSUME NEW t, NEW p, NEW g, IsParse(t, p), Opened(t, p, g), Len(g) > 1,
         NEW k \in (g[Len(g)] + 1)..p.at
  PROVE  k \notin Operands(t, g[Len(g) - 1]) /\ k \notin Ends(t, g[Len(g) - 1])
<1> DEFINE n == Len(g)
<1>1. n \in Nat /\ n \in 1..n /\ n - 1 \in 1..n
  BY OpenedGroups, ParseFields
<1>2. g[n] \in Nat /\ p.at \in Nat /\ \A j \in g[n]..(p.at - 1) : Level(t, j) >= n - 1
  BY <1>1, OpenedAt, ParseFields
<1>3. Level(t, g[n - 1]) = n - 2
  BY <1>1, OpenedAt
<1>4. k - 1 \in g[n]..(p.at - 1) /\ k - 1 \in Nat
  BY <1>2
<1>5. Level(t, k - 1) >= n - 1 /\ Level(t, k - 1) \in Int
  BY <1>2, <1>4, LevelIsInt
<1>6. ~In(t, g[n - 1], k)
  <2>1. Level(t, k - 1) # Level(t, g[n - 1])
    BY <1>1, <1>3, <1>5
  <2> QED  BY <2>1 DEF In
<1> QED  BY <1>6 DEF Operands, Ends

\* At its parenthesis a group ends, and it has no end behind it.
LEMMA GroupEnds ==
  ASSUME NEW t, NEW p, NEW g, IsParse(t, p), Opened(t, p, g),
         p.at \in DOMAIN t => t[p.at] = ")"
  PROVE  /\ p.at \in Ends(t, g[Len(g)])
         /\ \A e \in Ends(t, g[Len(g)]) : e <= p.at
<1> DEFINE n == Len(g)
<1>1. /\ n \in Nat /\ n \in 1..n /\ g[n] \in Nat /\ In(t, g[n], p.at)
      /\ p.at \in 1..(Len(t) + 1) /\ Len(t) \in Nat /\ DOMAIN t = 1..Len(t)
  BY OpenedGroups, ParseFields
<1>2. p.at \in Ends(t, g[n])
  BY <1>1 DEF Ends
<1>3. ASSUME NEW e \in Ends(t, g[n]), ~(e <= p.at)
      PROVE  FALSE
  <2>1. e \in 1..(Len(t) + 1) /\ In(t, g[n], e)
    BY DEF Ends
  <2>2. e > p.at /\ p.at \in DOMAIN t /\ p.at > 0
    BY <1>1, <1>3, <2>1
  <2>3. Level(t, p.at) = Level(t, p.at - 1) - 1
    BY <1>1, <2>2, ClosingLevel
  <2>4. Level(t, p.at - 1) = n - 1 /\ Level(t, g[n]) = n - 1
    BY <1>1, OpenedAt DEF Opened
  <2>5. p.at \in g[n]..(e - 1)
    BY <1>1, <2>1, <2>2 DEF In
  <2>6. Level(t, p.at) >= n - 1
    BY <2>1, <2>4, <2>5 DEF In
  <2> QED  BY <1>1, <2>3, <2>4, <2>6
<1> QED  BY <1>2, <1>3

LEMMA GroupCloses ==
  ASSUME NEW t, NEW p, NEW q, NEW g, Follows(t, p, g), p.phase = "disjunction",
         p.calls[Len(p.calls)].ors = 0, Len(p.calls) > 1, p.at \in DOMAIN t, t[p.at] = ")",
         q = Parse("conjunction", p.at + 1, p.nodes, Front(p.calls), p.root)
  PROVE  Follows(t, q, Front(g))
<1> DEFINE n == Len(p.calls)
           h == Front(g)
<1>1. /\ IsParse(t, p) /\ Opened(t, p, g) /\ Alternates(t, p) /\ IsShallow(t, p)
      /\ IsCounted(t, p) /\ MeansTheSame(t, p, g)
  BY DEF Follows
<1>2. /\ t \in Seq(Tokens) /\ n \in Nat /\ n > 1 /\ Len(p.nodes) \in Nat
      /\ Len(t) \in Nat /\ DOMAIN t = 1..Len(t) /\ p.nodes \in Seq(NodeTypes)
      /\ IsTree(p.nodes) /\ p.calls \in Seq(CallTypes) /\ DOMAIN p.calls = 1..n /\ n \in 1..n
      /\ p.root \in 1..Len(p.nodes) /\ p.at \in 1..Len(t) /\ p.calls # <<>>
  BY <1>1, ParseFields DEF IsParse
<1>3. /\ q.phase = "conjunction" /\ q.at = p.at + 1 /\ q.nodes = p.nodes /\ q.root = p.root
      /\ q.calls = Front(p.calls)
  BY DEF Parse
<1>4. /\ q.calls \in Seq(CallTypes) /\ Len(q.calls) = n - 1
      /\ \A i \in 1..(n - 1) : q.calls[i] = p.calls[i]
  <2>1. /\ Front(p.calls) \in Seq(CallTypes) /\ Len(Front(p.calls)) = n - 1
        /\ \A i \in 1..(n - 1) : Front(p.calls)[i] = p.calls[i]
    BY <1>2, FrontAndLast
  <2> QED  BY <2>1, <1>3, Zenon
<1>5. DOMAIN q.calls = 1..(n - 1) /\ q.calls # <<>>
  BY <1>2, <1>4, LenProperties, EmptySeq
<1>6. q \in ParseTypes
  <2>1. p.at + 1 \in Nat /\ p.root \in Nat /\ Front(p.calls) \in Seq(CallTypes)
    BY <1>2, <1>3, <1>4
  <2> QED  BY <2>1, <1>2, ParseIsTyped
<1>7. IsParse(t, q)
  <2>1. \A i \in DOMAIN q.calls : i \in DOMAIN p.calls /\ q.calls[i] = p.calls[i]
    <3>1. \A i \in 1..(n - 1) : i \in 1..n
      BY <1>2
    <3> QED  BY <3>1, <1>2, <1>4, <1>5, Zenon
  <2>2. \A i \in DOMAIN q.calls : q.calls[i].ors <= Len(q.nodes) /\ q.calls[i].ands <= Len(q.nodes)
    BY <2>1, <1>1, <1>3 DEF IsParse
  <2>3. q.root <= Len(q.nodes) /\ q.root # 0 /\ q.at \in 1..(Len(t) + 1)
    BY <1>2, <1>3
  <2> QED  BY <2>2, <2>3, <1>2, <1>3, <1>5, <1>6 DEF IsParse
<1>8. Len(g) = n
  BY <1>1 DEF Opened
<1>9. Opened(t, q, h)
  BY <1>1, <1>2, <1>3, <1>4, <1>8, OpenedLess
<1>10. Alternates(t, q)
  <2>1. ~Starts(t[p.at]) /\ Stops(t[p.at])
    BY QueryAssumption DEF Starts, Stops
  <2> QED  BY <2>1, <1>1, <1>3, AlternatesGoesOn
<1>11. IsShallow(t, q)
  <2>1. Level(t, p.at) = Level(t, p.at - 1) - 1
    BY <1>2, ClosingLevel
  <2>2. Level(t, p.at - 1) <= MaxDepth /\ Level(t, p.at - 1) \in Int
    <3>1. p.at # 1
      BY <1>1 DEF Alternates
    <3>2. p.at - 1 \in 1..(p.at - 1) /\ p.at - 1 \in Nat
      BY <3>1, <1>2
    <3> QED  BY <3>2, <1>1, LevelIsInt DEF IsShallow
  <2>3. Level(t, p.at) <= MaxDepth
    BY <2>1, <2>2, QueryAssumption
  <2> QED  BY <2>3, <1>1, <1>3, ShallowGoesOn
<1>12. IsCounted(t, q)
  <2>1. p.calls[n].ands = 0
    BY <1>1 DEF IsParse
  <2>2. \A i \in DOMAIN p.calls : i = n \/ i \in DOMAIN q.calls
    BY <1>2, <1>5
  <2>3. HeldAnds(q.calls) = HeldAnds(p.calls) /\ HeldOrs(q.calls) = HeldOrs(p.calls)
    <3>1. \A i \in 1..(n - 1) : i \in 1..n
      BY <1>2
    <3>2. \A i \in DOMAIN q.calls : i \in DOMAIN p.calls /\ q.calls[i] = p.calls[i]
      BY <3>1, <1>2, <1>4, <1>5, Zenon
    <3>3. ~(p.calls[n].ands # 0) /\ ~(p.calls[n].ors # 0)
      BY <2>1
    <3> QED  BY <2>2, <3>2, <3>3, Zenon DEF HeldAnds, HeldOrs
  <2>4. Cardinality(Words(t, q.at)) = Cardinality(Words(t, p.at))
    <3>1. p.at \in Nat /\ p.at > 0 /\ q.at = p.at + 1
      BY <1>2, <1>3
    <3> QED  BY <3>1, WordsStep
  <2> QED  BY <2>3, <2>4, <1>1, <1>3 DEF IsCounted
<1>13. MeansTheSame(t, q, h)
  <2>1. SUFFICES ASSUME NEW row \in SUBSET Comparisons, NEW V, NEW W,
                        IsMeaning(t, row, V), IsWorth(q.nodes, row, W)
                 PROVE  Agrees(t, q, h, row, V, W)
    BY Zenon DEF MeansTheSame
  <2>2. Agrees(t, p, g, row, V, W)
    BY <2>1, <1>1, <1>3 DEF MeansTheSame
  <2> DEFINE m     == n - 1
             inner == g[n]
             outer == g[m]
  <2>3. /\ m \in 1..(n - 1) /\ m + 1 = n /\ inner \in Nat /\ outer \in Nat
        /\ inner \in Groups(t) /\ inner < p.at
    BY <1>1, <1>2, <1>8, OpenedGroups, OpenedAt
  <2>4. V[inner] <=> W[p.root]
    <3>1. AnyOf(t, row, V, inner)
            <=> (OrsTo(t, row, V, inner, p.at) \/ AndsTo(t, row, V, inner, p.at))
      <4>1. p.at \in Ends(t, inner) /\ \A e \in Ends(t, inner) : e <= p.at
        BY <1>1, <1>8, GroupEnds
      <4> QED  BY <4>1, <2>3, <1>2, GroupIsWorth
    <3>2. V[inner] <=> AnyOf(t, row, V, inner)
      BY <2>1, <2>3 DEF IsMeaning
    <3>3. W[p.root] <=> (OrsTo(t, row, V, inner, p.at) \/ AndsTo(t, row, V, inner, p.at))
      BY <2>2, <1>8 DEF Agrees, OrOf
    <3> QED  BY <3>1, <3>2, <3>3
  <2>5. HoldsSoFar(t, row, V, W, p.calls[m], outer, inner)
    BY <2>2, <2>3, <1>8 DEF Agrees
  <2>6. /\ AndsTo(t, row, V, outer, inner + 1) <=> (AndsTo(t, row, V, outer, inner) /\ V[inner])
        /\ OrsTo(t, row, V, outer, inner + 1) <=> OrsTo(t, row, V, outer, inner)
    <3>1. inner \in Operands(t, outer)
      BY <1>1, <1>8, <2>3, InnerIsOperand
    <3>2. t[inner] = "("
      <4>1. n \in 2..Len(g)
        BY <1>2, <1>8
      <4> QED  BY <4>1, <1>1 DEF Opened
    <3> HIDE DEF inner, outer
    <3>3. Value(t, row, V, inner) <=> V[inner]
      BY <3>2 DEF Value
    <3> QED  BY <3>1, <3>3, <2>3, <1>2, OperandStep
  <2>7. /\ AndsTo(t, row, V, outer, q.at) <=> AndsTo(t, row, V, outer, inner + 1)
        /\ OrsTo(t, row, V, outer, q.at) <=> OrsTo(t, row, V, outer, inner + 1)
    <3>1. \A k \in (inner + 1)..(q.at - 1) : k \notin Operands(t, outer) /\ k \notin Ends(t, outer)
      <4>1. \A k \in (inner + 1)..p.at : k \notin Operands(t, outer) /\ k \notin Ends(t, outer)
        BY <1>1, <1>2, <1>8, InnerIsApart
      <4> HIDE DEF inner, outer
      <4> QED  BY <4>1, <1>2, <1>3
    <3>2. inner + 1 \in Nat /\ q.at \in Nat /\ inner + 1 <= q.at
      BY <2>3, <1>2, <1>3
    <3> HIDE DEF inner, outer
    <3> QED  BY <3>1, <3>2, <2>3, <1>2, NothingBetween
  <2>8. Len(h) = m /\ \A i \in 1..m : h[i] = g[i]
    <3>1. g \in Seq(Nat) /\ g # <<>>
      BY <1>1, <1>2, <1>8, EmptySeq DEF Opened
    <3>2. Len(Front(g)) = Len(g) - 1 /\ \A i \in 1..(Len(g) - 1) : Front(g)[i] = g[i]
      BY <3>1, FrontAndLast
    <3> QED  BY <3>2, <1>8
  <2>9. \A i \in 1..(m - 1) : HoldsSoFar(t, row, V, W, q.calls[i], h[i], h[i + 1])
    <3>1. ASSUME NEW i \in 1..(m - 1)
          PROVE  HoldsSoFar(t, row, V, W, q.calls[i], h[i], h[i + 1])
      <4>1. i \in 1..m /\ i + 1 \in 1..m /\ i \in 1..(n - 1)
        BY <1>2
      <4>2. HoldsSoFar(t, row, V, W, p.calls[i], g[i], g[i + 1])
        BY <4>1, <2>2, <1>8 DEF Agrees
      <4>3. q.calls[i] = p.calls[i] /\ h[i] = g[i] /\ h[i + 1] = g[i + 1]
        BY <4>1, <2>8, <1>4
      <4> QED  BY <4>2, <4>3
    <3> QED  BY <3>1
  <2>10. q.calls[m] = p.calls[m] /\ h[m] = outer
    BY <2>3, <2>8, <1>4
  <2>11. /\ OrOf(q.calls[m], W) <=> OrsTo(t, row, V, h[m], q.at)
         /\ (AndOf(q.calls[m], W) /\ W[q.root]) <=> AndsTo(t, row, V, h[m], q.at)
    <3> HIDE DEF h, m, inner, outer
    <3> QED  BY <2>4, <2>5, <2>6, <2>7, <2>10, <1>3 DEF HoldsSoFar
  <2> HIDE DEF h, m
  <2> QED  BY <2>8, <2>9, <2>11, <1>3 DEF Agrees
<1> HIDE DEF h
<1>14. Follows(t, q, h)
  BY <1>7, <1>9, <1>10, <1>11, <1>12, <1>13 DEF Follows
<1> QED  BY <1>14 DEF h

-----------------------------------------------------------------------------
(* The outcomes *)

IsAccepted(t) ==
  /\ IsPredicate(t)
  /\ \A k \in DOMAIN t : Level(t, k) <= MaxDepth
  /\ Length(t) <= MaxNodes

LEMMA LengthIsWords ==
  ASSUME NEW t \in Seq(Tokens)
  PROVE  Length(t) = Cardinality(Words(t, Len(t) + 1))
<1>1. Len(t) \in Nat /\ DOMAIN t = 1..Len(t)
  BY LenProperties
<1>2. {k \in DOMAIN t : t[k] \notin {"(", ")"}} = Words(t, Len(t) + 1)
  BY <1>1 DEF Words
<1> QED  BY <1>2 DEF Length

\* A text is at least as long as any beginning of it.
LEMMA WordsGrow ==
  ASSUME NEW t \in Seq(Tokens), NEW m \in 1..(Len(t) + 1)
  PROVE  Cardinality(Words(t, m)) <= Length(t)
<1>1. Len(t) \in Nat /\ Len(t) + 1 \in Nat /\ m \in Nat
  BY LenProperties
<1>2. Words(t, m) \subseteq Words(t, Len(t) + 1)
  BY <1>1 DEF Words
<1>3. IsFiniteSet(Words(t, Len(t) + 1))
  BY <1>1, WordsAreCounted
<1> QED  BY <1>2, <1>3, FS_Subset, LengthIsWords

\* An operand is missing, or is too deep.
LEMMA NoOperandIsRefused ==
  ASSUME NEW t, NEW p, NEW g, Follows(t, p, g), p.phase = "primary",
         \/ Len(p.calls) - 1 > MaxDepth
         \/ \A x \in Comparisons \cup {"("} : ~(p.at <= Len(t) /\ t[p.at] = x)
  PROVE  ~IsAccepted(t)
<1>1. /\ IsParse(t, p) /\ Opened(t, p, g) /\ Alternates(t, p)
      /\ t \in Seq(Tokens) /\ Len(t) \in Nat /\ DOMAIN t = 1..Len(t) /\ p.at \in 1..(Len(t) + 1)
      /\ Len(p.calls) \in Nat
  BY ParseFields DEF Follows
<1>2. ASSUME Len(p.calls) - 1 > MaxDepth
      PROVE  \E k \in DOMAIN t : ~(Level(t, k) <= MaxDepth)
  <2>1. Len(g) = Len(p.calls) /\ Len(g) \in 1..Len(g) /\ Len(g) \in 2..Len(g)
    BY <1>1, <1>2, QueryAssumption DEF Opened
  <2>2. Level(t, p.at - 1) = Len(g) - 1
    BY <1>1 DEF Opened
  <2>3. p.at - 1 \in DOMAIN t
    <3>1. g[Len(g)] < p.at /\ g[Len(g)] \in Nat /\ g[Len(g)] \in DOMAIN t
      BY <2>1, <1>1, OpenedAt DEF Opened
    <3> QED  BY <3>1, <1>1
  <2>4. ~(Level(t, p.at - 1) <= MaxDepth)
    BY <2>1, <2>2, <1>1, <1>2, QueryAssumption
  <2> QED  BY <2>3, <2>4
<1>3. ASSUME \A x \in Comparisons \cup {"("} : ~(p.at <= Len(t) /\ t[p.at] = x)
      PROVE  ~IsPredicate(t)
  <2>1. p.at \in DOMAIN t => ~Starts(t[p.at])
    BY <1>1, <1>3 DEF Starts
  <2>2. CASE p.at = 1
    <3>1. t # <<>> => 1 \in DOMAIN t
      BY <1>1, EmptySeq
    <3> QED  BY <3>1, <2>1, <2>2 DEF IsPredicate
  <2>3. CASE p.at # 1 /\ p.at \in DOMAIN t
    <3>1. ~Stops(t[p.at - 1]) /\ p.at - 1 \in 1..(Len(t) - 1) /\ (p.at - 1) + 1 = p.at
      BY <2>3, <1>1 DEF Alternates
    <3> QED  BY <3>1, <2>1, <2>3 DEF IsPredicate
  <2>4. CASE p.at # 1 /\ p.at \notin DOMAIN t
    <3>1. ~Stops(t[p.at - 1]) /\ p.at - 1 = Len(t)
      BY <2>4, <1>1 DEF Alternates
    <3> QED  BY <3>1 DEF IsPredicate
  <2> QED  BY <2>2, <2>3, <2>4
<1> QED  BY <1>2, <1>3 DEF IsAccepted

\* One node more is one too many.
LEMMA FullListIsRefused ==
  ASSUME NEW t, NEW p, NEW g, Follows(t, p, g), Len(p.nodes) >= MaxNodes,
         \/ p.at \in DOMAIN t /\ t[p.at] \in Comparisons
         \/ p.calls[Len(p.calls)].ands # 0
         \/ p.calls[Len(p.calls)].ors # 0
  PROVE  ~IsAccepted(t)
<1> DEFINE words == Cardinality(Words(t, p.at))
           n     == Len(p.calls)
<1>1. /\ t \in Seq(Tokens) /\ Len(t) \in Nat /\ DOMAIN t = 1..Len(t) /\ p.at \in 1..(Len(t) + 1)
      /\ Len(p.nodes) \in Nat /\ p.calls \in Seq(CallTypes) /\ n \in DOMAIN p.calls
  <2>1. IsParse(t, p)
    BY DEF Follows
  <2> QED  BY <2>1, ParseFields
<1>2. /\ Cardinality(HeldAnds(p.calls)) \in Nat /\ IsFiniteSet(HeldAnds(p.calls))
      /\ Cardinality(HeldOrs(p.calls)) \in Nat /\ IsFiniteSet(HeldOrs(p.calls))
  BY <1>1, HeldAreCounted
<1>3. words = Len(p.nodes) + Cardinality(HeldAnds(p.calls)) + Cardinality(HeldOrs(p.calls))
  BY DEF Follows, IsCounted
<1>4. words \in Nat /\ words >= MaxNodes
  BY <1>1, <1>2, <1>3, QueryAssumption
<1>5. Length(t) \in Nat
  <2>1. Len(t) + 1 \in Nat
    BY <1>1
  <2> QED  BY <2>1, <1>1, LengthIsWords, WordsAreCounted
<1>6. ASSUME p.at \in DOMAIN t, t[p.at] \in Comparisons
      PROVE  Length(t) > MaxNodes
  <2>1. t[p.at] \notin {"(", ")"}
    BY <1>6, QueryAssumption
  <2>2. p.at \in Nat /\ p.at > 0 /\ p.at + 1 \in 1..(Len(t) + 1)
    BY <1>1, <1>6
  <2>3. Cardinality(Words(t, p.at + 1)) = words + 1
    BY <2>1, <2>2, WordsStep
  <2>4. Cardinality(Words(t, p.at + 1)) <= Length(t)
    BY <2>2, <1>1, WordsGrow
  <2> HIDE DEF words
  <2> QED  BY <2>3, <2>4, <1>4, <1>5, QueryAssumption
<1>7. words <= Length(t)
  BY <1>1, WordsGrow
<1>8. ASSUME p.calls[n].ands # 0
      PROVE  Length(t) > MaxNodes
  <2>1. HeldAnds(p.calls) # {}
    BY <1>1, <1>8 DEF HeldAnds
  <2>2. Cardinality(HeldAnds(p.calls)) > 0
    BY <2>1, <1>2, FS_EmptySet
  <2> QED  BY <2>2, <1>1, <1>2, <1>3, <1>5, <1>7, QueryAssumption
<1>9. ASSUME p.calls[n].ors # 0
      PROVE  Length(t) > MaxNodes
  <2>1. HeldOrs(p.calls) # {}
    BY <1>1, <1>9 DEF HeldOrs
  <2>2. Cardinality(HeldOrs(p.calls)) > 0
    BY <2>1, <1>2, FS_EmptySet
  <2> QED  BY <2>2, <1>1, <1>2, <1>3, <1>5, <1>7, QueryAssumption
<1>10. Length(t) > MaxNodes
  BY <1>6, <1>8, <1>9
<1> QED  BY <1>5, <1>10, QueryAssumption DEF IsAccepted

\* Something is left over, or a parenthesis is still open.
LEMMA LeftoverIsRefused ==
  ASSUME NEW t, NEW p, NEW g, Follows(t, p, g), p.phase = "disjunction",
         p.at \notin DOMAIN t \/ t[p.at] # "or",
         IF Len(p.calls) = 1 THEN p.at \in DOMAIN t ELSE p.at \notin DOMAIN t \/ t[p.at] # ")"
  PROVE  ~IsPredicate(t)
<1>1. /\ IsParse(t, p) /\ Opened(t, p, g) /\ Alternates(t, p)
      /\ t \in Seq(Tokens) /\ Len(t) \in Nat /\ DOMAIN t = 1..Len(t) /\ p.at \in 1..(Len(t) + 1)
      /\ Len(p.calls) \in Nat /\ Len(p.calls) > 0
  BY ParseFields DEF Follows
<1>2. p.at # 1 /\ Stops(t[p.at - 1])
  BY <1>1 DEF Alternates
<1>3. Len(g) = Len(p.calls) /\ Level(t, p.at - 1) = Len(g) - 1
  BY <1>1 DEF Opened
<1>4. CASE p.at \in DOMAIN t /\ t[p.at] = ")"
  <2>1. Level(t, p.at) = Level(t, p.at - 1) - 1
    BY <1>1, <1>4, ClosingLevel
  <2>2. Len(p.calls) = 1
    BY <1>4
  <2>3. Level(t, p.at - 1) = 0
    BY <2>2, <1>1, <1>3
  <2>4. ~(Level(t, p.at) >= 0)
    BY <2>1, <2>3
  <2> QED  BY <2>4, <1>4 DEF IsPredicate
<1>5. CASE p.at \in DOMAIN t /\ t[p.at] # ")"
  <2>1. t[p.at] \in Tokens /\ t[p.at] # "and" /\ t[p.at] # "or"
    <3>1. t[p.at] \in Tokens
      BY <1>1, <1>5, ElementOfSeq
    <3> QED  BY <3>1, <1>1, <1>5 DEF Alternates
  <2>2. Starts(t[p.at])
    BY <2>1, <1>5 DEF Tokens, Starts
  <2>3. p.at - 1 \in 1..(Len(t) - 1) /\ (p.at - 1) + 1 = p.at
    BY <1>1, <1>2, <1>5
  <2> QED  BY <2>2, <2>3, <1>2 DEF IsPredicate
<1>6. CASE p.at \notin DOMAIN t
  <2>1. p.at - 1 = Len(t) /\ Len(p.calls) # 1
    BY <1>1, <1>6
  <2>2. Level(t, Len(t)) = Len(p.calls) - 1
    BY <2>1, <1>3
  <2>3. Level(t, Len(t)) # 0
    BY <2>1, <2>2, <1>1
  <2> QED  BY <2>3 DEF IsPredicate
<1> QED  BY <1>4, <1>5, <1>6

LEMMA WholeIsAccepted ==
  ASSUME NEW t, NEW p, NEW g, Follows(t, p, g), p.phase = "disjunction",
         Len(p.calls) = 1, p.calls[1].ors = 0, p.at > Len(t)
  PROVE  IsAccepted(t)
<1>1. /\ IsParse(t, p) /\ Opened(t, p, g) /\ Alternates(t, p) /\ IsShallow(t, p) /\ IsCounted(t, p)
      /\ t \in Seq(Tokens) /\ Len(t) \in Nat /\ DOMAIN t = 1..Len(t) /\ p.at = Len(t) + 1
      /\ p.at - 1 = Len(t) /\ p.at - 2 = Len(t) - 1 /\ DOMAIN p.calls = {1}
      /\ Len(p.nodes) \in Nat
  BY ParseFields DEF Follows
<1>2. Len(t) # 0 /\ t # <<>>
  BY <1>1, EmptySeq DEF Alternates
<1>3. Starts(t[1]) /\ Stops(t[Len(t)])
  BY <1>1, <1>2 DEF Alternates
<1>4. \A k \in 1..(Len(t) - 1) : Stops(t[k]) <=> ~Starts(t[k + 1])
  BY <1>1 DEF Alternates
<1>5. Len(g) = 1 /\ Level(t, Len(t)) = 0
  BY <1>1 DEF Opened
<1>6. \A k \in DOMAIN t : Level(t, k) >= 0
  <2>1. /\ g[1] = 0 /\ 1 \in 1..Len(g)
        /\ \A j \in g[1]..(p.at - 1) : Level(t, j) >= 1 - 1
    BY <1>1, <1>5 DEF Opened
  <2>2. \A k \in DOMAIN t : k \in 0..(p.at - 1)
    BY <1>1
  <2> QED  BY <2>1, <2>2
<1>7. \A k \in DOMAIN t : Level(t, k) <= MaxDepth
  BY <1>1 DEF IsShallow
<1>8. Length(t) <= MaxNodes
  <2>1. HeldAnds(p.calls) = {} /\ HeldOrs(p.calls) = {}
    <3>1. p.calls[1].ands = 0
      BY <1>1 DEF IsParse
    <3> QED  BY <3>1, <1>1 DEF HeldAnds, HeldOrs
  <2>2. Cardinality(HeldAnds(p.calls)) = 0 /\ Cardinality(HeldOrs(p.calls)) = 0
    BY <2>1, FS_EmptySet
  <2>3. Length(t) = Cardinality(Words(t, p.at))
    BY <1>1, LengthIsWords
  <2> QED  BY <2>2, <2>3, <1>1 DEF IsCounted
<1> QED  BY <1>2, <1>3, <1>4, <1>5, <1>6, <1>7, <1>8 DEF IsAccepted, IsPredicate

LEMMA WholeMeansItsText ==
  ASSUME NEW t, NEW p, NEW g, Follows(t, p, g), p.phase = "disjunction",
         Len(p.calls) = 1, p.calls[1].ors = 0, p.at > Len(t), NEW row \in SUBSET Comparisons
  PROVE  Matches(p.nodes, p.root, row) <=> Means(t, row)
<1>1. /\ IsParse(t, p) /\ Opened(t, p, g) /\ MeansTheSame(t, p, g) /\ IsTree(p.nodes)
      /\ t \in Seq(Tokens) /\ p.at \notin DOMAIN t
  BY ParseFields DEF Follows, IsParse
<1>2. PICK V : IsMeaning(t, row, V) /\ Means(t, row) = V[0]
  BY <1>1, MeaningExists
<1>3. PICK W : IsWorth(p.nodes, row, W) /\ Matches(p.nodes, p.root, row) = W[p.root]
  BY <1>1, WorthExists
<1>4. Len(g) = 1 /\ g[1] = 0
  BY <1>1 DEF Opened
<1>5. Agrees(t, p, g, row, V, W)
  BY <1>1, <1>2, <1>3 DEF MeansTheSame
<1>6. W[p.root] <=> (OrsTo(t, row, V, 0, p.at) \/ AndsTo(t, row, V, 0, p.at))
  BY <1>4, <1>5 DEF Agrees, OrOf
<1>7. p.at \in Ends(t, 0) /\ \A e \in Ends(t, 0) : e <= p.at
  <2>1. p.at \in Ends(t, g[Len(g)]) /\ \A e \in Ends(t, g[Len(g)]) : e <= p.at
    BY <1>1, GroupEnds
  <2> QED  BY <2>1, <1>4
<1>8. AnyOf(t, row, V, 0) <=> (OrsTo(t, row, V, 0, p.at) \/ AndsTo(t, row, V, 0, p.at))
  BY <1>1, <1>7, GroupIsWorth
<1>9. V[0] <=> AnyOf(t, row, V, 0)
  BY <1>2 DEF IsMeaning, Groups
<1> QED  BY <1>2, <1>3, <1>6, <1>8, <1>9

-----------------------------------------------------------------------------
(* The parser accepts what it should, and means it *)

\* The outcome is a verdict on the text, and the tree means the text.
IsOutcome(t, p) ==
  /\ p.phase \in {"parsed", "failed"}
  /\ p.phase = "parsed" <=> IsAccepted(t)
  /\ p.phase = "parsed" => \A row \in SUBSET Comparisons :
                             Matches(p.nodes, p.root, row) <=> Means(t, row)

QueryInv ==
  /\ tokens \in Seq(Tokens)
  /\ IsOutcome(tokens, parse) \/ \E g : Follows(tokens, parse, g)

LEMMA OutcomeIsRight == QueryInv => TreesMeanTheirText
<1>1. ASSUME NEW g, Follows(tokens, parse, g)
      PROVE  ~Running("parsed") /\ ~Running("failed")
  BY <1>1, ParseFields DEF Follows, Running
<1>2. ASSUME IsOutcome(tokens, parse)
      PROVE  TreesMeanTheirText
  BY <1>2 DEF IsOutcome, IsAccepted, TreesMeanTheirText, Running
<1>3. ASSUME ~Running("parsed"), ~Running("failed")
      PROVE  TreesMeanTheirText
  BY <1>3 DEF TreesMeanTheirText
<1> QED  BY <1>1, <1>2, <1>3 DEF QueryInv

LEMMA ParserStarts == QueryInit => QueryInv
<1> SUFFICES ASSUME QueryInit
             PROVE  QueryInv
  OBVIOUS
<1> DEFINE t == tokens
           p == StartParse
           g == <<0>>
<1>1. tokens \in Seq(Tokens) /\ parse = StartParse
  BY DEF QueryInit, SeqOf
<1>2. Len(t) \in Nat /\ DOMAIN t = 1..Len(t) /\ 1 \in 1..(Len(t) + 1)
  BY <1>1, LenProperties
<1>3. /\ p.phase = "primary" /\ p.at = 1 /\ p.nodes = <<>> /\ p.calls = <<Call>> /\ p.root = 0
      /\ Len(p.nodes) = 0 /\ DOMAIN p.nodes = {} /\ p.nodes \in Seq(NodeTypes)
      /\ Len(p.calls) = 1 /\ DOMAIN p.calls = {1} /\ p.calls[1] = Call /\ p.calls \in Seq(CallTypes)
      /\ p.calls # <<>>
  <2>1. Call \in CallTypes
    BY DEF Call, CallTypes
  <2> QED  BY <2>1 DEF StartParse
<1>4. IsParse(t, p)
  <2>1. IsTree(p.nodes)
    BY <1>3 DEF IsTree
  <2>2. p \in ParseTypes
    BY <1>3 DEF ParseTypes, StartParse
  <2>3. \A i \in DOMAIN p.calls : p.calls[i].ors <= Len(p.nodes) /\ p.calls[i].ands <= Len(p.nodes)
    BY <1>3 DEF Call
  <2>4. p.root <= Len(p.nodes) /\ p.at \in 1..(Len(t) + 1)
    BY <1>2, <1>3
  <2> HIDE DEF p
  <2> QED  BY <2>1, <2>2, <2>3, <2>4, <1>1, <1>3 DEF IsParse
<1>5. Opened(t, p, g)
  <2>1. g \in Seq(Nat) /\ Len(g) = 1 /\ g[1] = 0
    OBVIOUS
  <2>2. Level(t, 0) = 0
    BY LevelAtStart
  <2> HIDE DEF p, g
  <2> QED  BY <2>1, <2>2, <1>3 DEF Opened
<1>6. Alternates(t, p)
  <2> HIDE DEF p
  <2> QED  BY <1>3 DEF Alternates
<1>7. IsShallow(t, p)
  <2> HIDE DEF p
  <2> QED  BY <1>3 DEF IsShallow
<1>8. IsCounted(t, p)
  <2>1. Words(t, p.at) = {} /\ HeldAnds(p.calls) = {} /\ HeldOrs(p.calls) = {}
    BY <1>3 DEF Words, HeldAnds, HeldOrs, Call
  <2>2. Cardinality({}) = 0
    BY FS_EmptySet
  <2> HIDE DEF p
  <2> QED  BY <2>1, <2>2, <1>3, QueryAssumption DEF IsCounted
<1>9. MeansTheSame(t, p, g)
  <2>1. SUFFICES ASSUME NEW row, NEW V, NEW W
                 PROVE  Agrees(t, p, g, row, V, W)
    BY Zenon DEF MeansTheSame
  <2>2. AndsTo(t, row, V, 0, 0 + 1) /\ ~OrsTo(t, row, V, 0, 0 + 1)
    BY <1>1, GroupStarts
  <2>3. HoldsSoFar(t, row, V, W, Call, 0, 1)
    BY <2>2 DEF HoldsSoFar, OrOf, AndOf, Call
  <2>4. Len(g) = 1 /\ g[1] = 0
    OBVIOUS
  <2> HIDE DEF p, g
  <2> QED  BY <2>3, <2>4, <1>3 DEF Agrees
<1>10. Follows(t, p, g)
  BY <1>4, <1>5, <1>6, <1>7, <1>8, <1>9, Zenon DEF Follows
<1> QED  BY <1>1, <1>10, Zenon DEF QueryInv

LEMMA Refused ==
  ASSUME Fail, tokens \in Seq(Tokens), ~IsAccepted(tokens), parse \in ParseTypes
  PROVE  QueryInv'
<1>1. parse' = [parse EXCEPT !.phase = "failed"] /\ tokens' = tokens
  BY DEF Fail, GoOn
<1>2. parse'.phase = "failed"
  BY <1>1 DEF ParseTypes
<1>3. IsOutcome(tokens, parse')
  BY <1>2 DEF IsOutcome
<1> QED  BY <1>1, <1>3 DEF QueryInv

LEMMA Followed ==
  ASSUME NEW q, NEW g, tokens \in Seq(Tokens), tokens' = tokens, parse' = q, Follows(tokens, q, g)
  PROVE  QueryInv'
BY DEF QueryInv

LEMMA ParserGoesOn == QueryInv /\ [QueryNext]_queryVars => QueryInv'
<1> SUFFICES ASSUME QueryInv, [QueryNext]_queryVars
             PROVE  QueryInv'
  OBVIOUS
<1> DEFINE t == tokens
           p == parse
           n == Len(parse.calls)
<1>1. CASE UNCHANGED queryVars
  BY <1>1 DEF queryVars, QueryInv
<1>2. ASSUME QueryNext
      PROVE  \E g : Follows(t, p, g)
  <2>1. p.phase \in {"primary", "conjunction", "disjunction"}
    BY <1>2 DEF QueryNext, OpenGroup, CompareField, NoPrimary, JoinAnd, TakeAnd, EndAnds, JoinOr, TakeOr,
                CloseGroup, EndParse, Running
  <2> QED  BY <2>1 DEF QueryInv, IsOutcome
<1>3. ASSUME QueryNext
      PROVE  QueryInv'
  <2>1. PICK g : Follows(t, p, g)
    BY <1>2, <1>3
  <2>2. /\ t \in Seq(Tokens) /\ Len(t) \in Nat /\ DOMAIN t = 1..Len(t) /\ p.at \in 1..(Len(t) + 1)
        /\ n \in Nat /\ n > 0 /\ p \in ParseTypes /\ Len(p.nodes) \in Nat /\ n \in 1..n
        /\ p.calls \in Seq(CallTypes) /\ p.nodes \in Seq(NodeTypes) /\ p.root \in Nat
    BY <2>1, ParseFields DEF Follows, IsParse
  <2>3. \A x : Sees(x) <=> (p.at \in DOMAIN t /\ t[p.at] = x)
    BY <2>2 DEF Sees
  <2>4. CASE OpenGroup
    <3>1. parse' = [Skip(p) EXCEPT !.calls = Append(@, Call)] /\ tokens' = tokens
      BY <2>4 DEF OpenGroup, GoOn
    <3>2. p.phase = "primary" /\ n - 1 <= MaxDepth /\ p.at \in DOMAIN t /\ t[p.at] = "("
      BY <2>3, <2>4 DEF OpenGroup, Running, Depth
    <3>3. parse' = Parse("primary", p.at + 1, p.nodes, Append(p.calls, Call), p.root)
      BY <2>2, <3>1, <3>2 DEF Skip, Parse, ParseTypes
    <3>4. Follows(t, parse', Append(g, p.at))
      BY <2>1, <3>2, <3>3, GroupOpens
    <3> QED  BY <2>2, <3>1, <3>4, Followed
  <2>5. CASE CompareField
    <3>1. p.phase = "primary" /\ n - 1 <= MaxDepth /\ p.at \in DOMAIN t /\ t[p.at] \in Comparisons
      BY <2>3, <2>5 DEF CompareField, Running, Depth
    <3>2. CASE Len(p.nodes) >= MaxNodes
      <4>1. Fail
        BY <2>2, <2>5, <3>2 DEF CompareField, AppendNode, Skip, ParseTypes
      <4>2. ~IsAccepted(t)
        BY <2>1, <3>1, <3>2, FullListIsRefused
      <4> QED  BY <2>2, <4>1, <4>2, Refused
    <3>3. CASE ~(Len(p.nodes) >= MaxNodes)
      <4>1. /\ parse' = Parse("conjunction", p.at + 1, Append(p.nodes, Leaf(t[p.at])), p.calls,
                              Len(p.nodes) + 1)
            /\ tokens' = tokens
        BY <2>2, <2>5, <3>1, <3>3 DEF CompareField, AppendNode, GoOn, Skip, Parse, ParseTypes
      <4>2. Len(p.nodes) < MaxNodes
        BY <2>2, <3>3, QueryAssumption
      <4>3. Follows(t, parse', g)
        BY <2>1, <3>1, <4>1, <4>2, ComparisonTaken
      <4> QED  BY <2>2, <4>1, <4>3, Followed
    <3> QED  BY <3>2, <3>3
  <2>6. CASE NoPrimary
    <3>1. /\ p.phase = "primary" /\ Fail
          /\ n - 1 > MaxDepth \/ \A x \in Comparisons \cup {"("} : ~(p.at <= Len(t) /\ t[p.at] = x)
      BY <2>6 DEF NoPrimary, Running, Depth, Sees
    <3>2. ~IsAccepted(t)
      BY <2>1, <3>1, NoOperandIsRefused
    <3> QED  BY <2>2, <3>1, <3>2, Refused
  <2>7. CASE JoinAnd
    <3>1. p.phase = "conjunction" /\ p.calls[n].ands # 0
      BY <2>7 DEF JoinAnd, Running, Top
    <3>2. CASE Len(p.nodes) >= MaxNodes
      <4>1. Fail
        BY <2>2, <2>7, <3>2 DEF JoinAnd, AppendNode, ParseTypes
      <4>2. ~IsAccepted(t)
        BY <2>1, <3>1, <3>2, FullListIsRefused
      <4> QED  BY <2>2, <4>1, <4>2, Refused
    <3>3. CASE ~(Len(p.nodes) >= MaxNodes)
      <4>1. /\ parse' = Parse("conjunction", p.at, Append(p.nodes, Branch("and", p.calls[n].ands, p.root)),
                              SetAnds(p.calls, 0), Len(p.nodes) + 1)
            /\ tokens' = tokens
        BY <2>2, <2>7, <3>1, <3>3 DEF JoinAnd, AppendNode, GoOn, Parse, ParseTypes, Top, SetAnds
      <4>2. Len(p.nodes) < MaxNodes
        BY <2>2, <3>3, QueryAssumption
      <4>3. Follows(t, parse', g)
        BY <2>1, <3>1, <4>1, <4>2, AndJoined
      <4> QED  BY <2>2, <4>1, <4>3, Followed
    <3> QED  BY <3>2, <3>3
  <2>8. CASE TakeAnd
    <3>1. p.phase = "conjunction" /\ p.calls[n].ands = 0 /\ p.at \in DOMAIN t /\ t[p.at] = "and"
      BY <2>3, <2>8 DEF TakeAnd, Running, Top
    <3>2. /\ parse' = Parse("primary", p.at + 1, p.nodes, SetAnds(p.calls, p.root), p.root)
          /\ tokens' = tokens
      BY <2>2, <2>8 DEF TakeAnd, GoOn, Parse, Skip, ParseTypes, SetAnds
    <3>3. Follows(t, parse', g)
      BY <2>1, <3>1, <3>2, AndTaken
    <3> QED  BY <2>2, <3>2, <3>3, Followed
  <2>9. CASE EndAnds
    <3>1. p.phase = "conjunction" /\ p.calls[n].ands = 0 /\ (p.at \notin DOMAIN t \/ t[p.at] # "and")
      BY <2>3, <2>9 DEF EndAnds, Running, Top
    <3>2. /\ parse' = Parse("disjunction", p.at, p.nodes, p.calls, p.root)
          /\ tokens' = tokens
      BY <2>2, <2>9 DEF EndAnds, GoOn, Parse, ParseTypes
    <3>3. Follows(t, parse', g)
      BY <2>1, <3>1, <3>2, AndsEnd
    <3> QED  BY <2>2, <3>2, <3>3, Followed
  <2>10. CASE JoinOr
    <3>1. p.phase = "disjunction" /\ p.calls[n].ors # 0
      BY <2>10 DEF JoinOr, Running, Top
    <3>2. CASE Len(p.nodes) >= MaxNodes
      <4>1. Fail
        BY <2>2, <2>10, <3>2 DEF JoinOr, AppendNode, ParseTypes
      <4>2. ~IsAccepted(t)
        BY <2>1, <3>1, <3>2, FullListIsRefused
      <4> QED  BY <2>2, <4>1, <4>2, Refused
    <3>3. CASE ~(Len(p.nodes) >= MaxNodes)
      <4>1. /\ parse' = Parse("disjunction", p.at, Append(p.nodes, Branch("or", p.calls[n].ors, p.root)),
                              SetOrs(p.calls, 0), Len(p.nodes) + 1)
            /\ tokens' = tokens
        BY <2>2, <2>10, <3>1, <3>3 DEF JoinOr, AppendNode, GoOn, Parse, ParseTypes, Top, SetOrs
      <4>2. Len(p.nodes) < MaxNodes
        BY <2>2, <3>3, QueryAssumption
      <4>3. Follows(t, parse', g)
        BY <2>1, <3>1, <4>1, <4>2, OrJoined
      <4> QED  BY <2>2, <4>1, <4>3, Followed
    <3> QED  BY <3>2, <3>3
  <2>11. CASE TakeOr
    <3>1. p.phase = "disjunction" /\ p.calls[n].ors = 0 /\ p.at \in DOMAIN t /\ t[p.at] = "or"
      BY <2>3, <2>11 DEF TakeOr, Running, Top
    <3>2. /\ parse' = Parse("primary", p.at + 1, p.nodes, SetOrs(p.calls, p.root), p.root)
          /\ tokens' = tokens
      BY <2>2, <2>11 DEF TakeOr, GoOn, Parse, Skip, ParseTypes, SetOrs
    <3>3. Follows(t, parse', g)
      BY <2>1, <3>1, <3>2, OrTaken
    <3> QED  BY <2>2, <3>2, <3>3, Followed
  <2>12. CASE CloseGroup
    <3>1. /\ p.phase = "disjunction" /\ p.calls[n].ors = 0 /\ n > 1
          /\ p.at \in DOMAIN t /\ t[p.at] = ")"
      BY <2>2, <2>3, <2>12 DEF CloseGroup, Running, Top, Depth
    <3>2. /\ parse' = Parse("conjunction", p.at + 1, p.nodes, Front(p.calls), p.root)
          /\ tokens' = tokens
      BY <2>2, <2>12 DEF CloseGroup, GoOn, Parse, Skip, ParseTypes
    <3>3. Follows(t, parse', Front(g))
      BY <2>1, <3>1, <3>2, GroupCloses
    <3> QED  BY <2>2, <3>2, <3>3, Followed
  <2>13. CASE EndParse
    <3>1. /\ p.phase = "disjunction" /\ p.calls[n].ors = 0 /\ (p.at \notin DOMAIN t \/ t[p.at] # "or")
          /\ n = 1 \/ p.at \notin DOMAIN t \/ t[p.at] # ")"
          /\ tokens' = tokens
      BY <2>2, <2>3, <2>13 DEF EndParse, Running, Top, Depth, GoOn
    <3>2. /\ parse'.phase = IF n = 1 /\ p.at > Len(t) THEN "parsed" ELSE "failed"
          /\ parse'.nodes = p.nodes /\ parse'.root = p.root
      BY <2>2, <2>13 DEF EndParse, GoOn, Depth, ParseTypes
    <3>3. CASE n = 1 /\ p.at > Len(t)
      <4>1. IsAccepted(t)
        BY <2>1, <3>1, <3>3, WholeIsAccepted
      <4>2. \A row \in SUBSET Comparisons : Matches(p.nodes, p.root, row) <=> Means(t, row)
        BY <2>1, <3>1, <3>3, WholeMeansItsText
      <4>3. IsOutcome(t, parse')
        BY <3>2, <3>3, <4>1, <4>2 DEF IsOutcome
      <4> QED  BY <2>2, <3>1, <4>3 DEF QueryInv
    <3>4. CASE ~(n = 1 /\ p.at > Len(t))
      <4>1. IF n = 1 THEN p.at \in DOMAIN t ELSE p.at \notin DOMAIN t \/ t[p.at] # ")"
        BY <2>2, <3>1, <3>4
      <4>2. ~IsAccepted(t)
        BY <2>1, <3>1, <4>1, LeftoverIsRefused DEF IsAccepted
      <4>3. IsOutcome(t, parse')
        BY <3>2, <3>4, <4>2 DEF IsOutcome
      <4> QED  BY <2>2, <3>1, <4>3 DEF QueryInv
    <3> QED  BY <3>3, <3>4
  <2> QED  BY <1>3, <2>4, <2>5, <2>6, <2>7, <2>8, <2>9, <2>10, <2>11, <2>12, <2>13 DEF QueryNext
<1> QED  BY <1>1, <1>3

\* Every predicate within the limits is accepted and nothing else is, and the tree that was
\* made is true of the rows that the predicate is true of: of texts of any length, whatever
\* the limits on depth and on nodes are.
THEOREM TreesAreRight == QuerySpec => []TreesMeanTheirText
<1>1. QuerySpec => []QueryInv
  BY ParserStarts, ParserGoesOn, PTL DEF QuerySpec
<1> QED  BY <1>1, OutcomeIsRight, PTL
=============================================================================

--------------------------- MODULE TuCacheProofs ---------------------------
(***************************************************************************)
(* Safety of TuCache for any number of analyses, files, texts and edits.   *)
(***************************************************************************)
EXTENDS TuCache, TLAPS

-----------------------------------------------------------------------------
(* Types *)

LEMMA SightInView ==
  ASSUME NEW v \in View, NEW w \in View, NEW f \in Files
  PROVE  [v EXCEPT ![f] = w[f]] \in View
  BY DEF View

LEMMA NothingInView == Nothing \in View
  BY DEF View, Nothing, Sight

\* Every assignment to fields of a task's locals leaves locals.
LEMMA UnitFields ==
  ASSUME NEW u \in Unit
  PROVE  /\ \A s \in Scopes, t \in SUBSET Files, p \in Places :
              [u EXCEPT !.scope = s, !.todo = t, !.pc = p] \in Unit
         /\ \A v \in View, t \in SUBSET Files, p \in Places :
              [u EXCEPT !.seen = v, !.todo = t, !.pc = p] \in Unit
         /\ \A t \in SUBSET Files, p \in Places : [u EXCEPT !.todo = t, !.pc = p] \in Unit
         /\ \A p \in Places : [u EXCEPT !.pc = p] \in Unit
         /\ \A v \in View, k \in Key \cup {NoView}, c \in BOOLEAN, p \in Places :
              [u EXCEPT !.probed = v, !.ast = k, !.cached = c, !.pc = p] \in Unit
         /\ \A v \in View, p \in Places : [u EXCEPT !.probed = v, !.pc = p] \in Unit
         /\ \A k \in Key \cup {NoView}, p \in Places : [u EXCEPT !.ast = k, !.pc = p] \in Unit
  BY DEF Unit

LEMMA InitTypes == Init => TypeOK
  <1> SUFFICES ASSUME Init PROVE TypeOK
    OBVIOUS
  <1>1. entries = [k \in {} |-> NoView] /\ DOMAIN entries = {}
    BY DEF Init
  <1>2. (CHOOSE s \in Scopes : TRUE) \in Scopes
    BY TuCacheAssumption
  <1>3. unit \in [Analyses -> Unit]
    BY <1>2, NothingInView DEF Init, Unit, Places, Key
  <1>4. QED
    BY <1>1, <1>3, TuCacheAssumption DEF Init, TypeOK

\* An entry is claimed under a key, and filled with one.
LEMMA WithEntryType ==
  ASSUME TypeOK, NEW k \in Key, NEW e \in Entry
  PROVE  /\ DOMAIN WithEntry(k, e) = DOMAIN entries \cup {k}
         /\ DOMAIN WithEntry(k, e) \subseteq Key
         /\ \A j \in DOMAIN WithEntry(k, e) :
              /\ WithEntry(k, e)[j] \in Entry
              /\ WithEntry(k, e)[j] = IF j = k THEN e ELSE entries[j]
  BY DEF WithEntry, TypeOK

\* A step of one task leaves locals of that task and of no other.
LEMMA UnitStep ==
  ASSUME TypeOK, NEW a \in Analyses, NEW u \in Unit, unit' = [unit EXCEPT ![a] = u]
  PROVE  unit' \in [Analyses -> Unit] /\ unit'[a] = u
         /\ \A c \in Analyses : c # a => unit'[c] = unit[c]
  BY DEF TypeOK

LEMMA SeeTypes ==
  ASSUME TypeOK, NEW a \in Analyses, NEW f \in Files, NEW next \in Places, See(a, f, next)
  PROVE  /\ unit'[a] = [unit[a] EXCEPT
                       !.seen = [unit[a].seen EXCEPT ![f] = tree[f]],
                       !.todo = IF unit[a].todo = {f} THEN Files ELSE unit[a].todo \ {f},
                       !.pc   = IF unit[a].todo = {f} THEN next ELSE unit[a].pc]
         /\ unit' \in [Analyses -> Unit]
         /\ UNCHANGED <<files, entries>>
  <1>1. unit[a] \in Unit /\ unit[a].seen \in View /\ unit[a].todo \in SUBSET Files
        /\ unit[a].pc \in Places /\ tree \in View
    BY DEF TypeOK, Unit
  <1> DEFINE v == [unit[a].seen EXCEPT ![f] = tree[f]]
             t == IF unit[a].todo = {f} THEN Files ELSE unit[a].todo \ {f}
             p == IF unit[a].todo = {f} THEN next ELSE unit[a].pc
  <1>2. v \in View
    BY <1>1, SightInView
  <1>3. t \in SUBSET Files /\ p \in Places
    BY <1>1
  <1>4. unit' = [unit EXCEPT ![a] = [unit[a] EXCEPT !.seen = v, !.todo = t, !.pc = p]]
    BY DEF See, TypeOK, Unit
  <1> HIDE DEF v, t, p
  <1>5. [unit[a] EXCEPT !.seen = v, !.todo = t, !.pc = p] \in Unit
    BY <1>1, <1>2, <1>3, UnitFields
  <1>6. unit' \in [Analyses -> Unit] /\ unit'[a] = [unit[a] EXCEPT !.seen = v, !.todo = t, !.pc = p]
    BY <1>4, <1>5, UnitStep
  <1>7. QED
    BY <1>6 DEF See, v, t, p

\* A task behind the first comparison has a key.
KeysAreProbed ==
  \A a \in Analyses :
    unit[a].pc \in {"reprobing", "claiming", "filling"} => unit[a].probed \in View

LEMMA NextTypes == TypeOK /\ KeysAreProbed /\ [Next]_vars => TypeOK'
  <1> SUFFICES ASSUME TypeOK, KeysAreProbed, [Next]_vars PROVE TypeOK'
    OBVIOUS
  <1>1. \A a \in Analyses : unit[a] \in Unit
    BY DEF TypeOK
  <1>2. \A a \in Analyses, u \in Unit : unit' = [unit EXCEPT ![a] = u] => unit' \in [Analyses -> Unit]
    BY UnitStep
  <1>3. unit' \in [Analyses -> Unit] /\ UNCHANGED <<files, entries>> => TypeOK'
    BY DEF TypeOK, files
  <1>4. ASSUME NEW a \in Analyses, Start(a) PROVE TypeOK'
    <2>1. PICK s \in Scopes : unit' = [unit EXCEPT ![a] = [unit[a] EXCEPT !.scope = s, !.todo = Files, !.pc = "probing"]]
      BY <1>4 DEF Start, TypeOK, Unit
    <2>2. [unit[a] EXCEPT !.scope = s, !.todo = Files, !.pc = "probing"] \in Unit
      BY <1>1, UnitFields DEF Places
    <2>3. QED
      BY <1>2, <1>3, <1>4, <2>1, <2>2 DEF Start
  <1>5. ASSUME NEW a \in Analyses, NEW f \in Files, Probe(a, f) \/ Parse(a, f) PROVE TypeOK'
    <2>1. "lookup" \in Places /\ "comparing" \in Places
      BY DEF Places
    <2>2. QED
      BY <1>3, <1>5, <2>1, SeeTypes DEF Probe, Parse
  <1>6. ASSUME NEW a \in Analyses, NEW f \in Files, Reprobe(a, f) PROVE TypeOK'
    <2>1. CASE tree[f] = unit[a].probed[f]
      BY <1>3, <1>6, <2>1, SeeTypes DEF Reprobe, Places
    <2>2. CASE tree[f] # unit[a].probed[f]
      <3>1. [unit[a] EXCEPT !.pc = "threw"] \in Unit
        BY <1>1, UnitFields DEF Places
      <3>2. unit' = [unit EXCEPT ![a] = [unit[a] EXCEPT !.pc = "threw"]] /\ UNCHANGED <<files, entries>>
        BY <1>6, <2>2 DEF Reprobe
      <3>3. QED BY <1>2, <1>3, <3>1, <3>2
    <2>3. QED BY <2>1, <2>2
  <1>7. ASSUME NEW a \in Analyses, ProbeUnusable(a) PROVE TypeOK'
    <2>1. [unit[a] EXCEPT !.todo = Files, !.pc = "parsing"] \in Unit
      BY <1>1, UnitFields DEF Places
    <2>2. unit' = [unit EXCEPT ![a] = [unit[a] EXCEPT !.todo = Files, !.pc = "parsing"]] /\ UNCHANGED <<files, entries>>
      BY <1>7 DEF ProbeUnusable, TypeOK, Unit
    <2>3. QED BY <1>2, <1>3, <2>1, <2>2
  <1>8. ASSUME NEW a \in Analyses, ParseFails(a) \/ ReprobeUnusable(a) \/ Stop(a) PROVE TypeOK'
    <2>1. /\ UNCHANGED <<files, entries>>
          /\ \E p \in Places : unit' = [unit EXCEPT ![a] = [unit[a] EXCEPT !.pc = p]]
      BY <1>8 DEF ParseFails, ReprobeUnusable, Stop, Places
    <2>2. \A p \in Places : [unit[a] EXCEPT !.pc = p] \in Unit
      BY <1>1, UnitFields
    <2>3. QED BY <1>2, <1>3, <2>1, <2>2
  <1>9. ASSUME NEW a \in Analyses, Lookup(a) PROVE TypeOK'
    <2> DEFINE u == unit[a]
               key == SeenBy(a)
    <2>1. u.seen \in View /\ key \in Key
      BY <1>1 DEF SeenBy, Unit, Key
    <2>2. CASE key \in DOMAIN entries /\ entries[key].complete
      <3>1. entries[key].ast \in Key \cup {NoView}
        BY <2>2 DEF TypeOK, Entry
      <3>2. [u EXCEPT !.probed = u.seen, !.ast = entries[key].ast, !.cached = TRUE, !.pc = "done"] \in Unit
        BY <1>1, <2>1, <3>1, UnitFields DEF Places
      <3>3. unit' = [unit EXCEPT ![a] = [u EXCEPT !.probed = u.seen, !.ast = entries[key].ast,
                                           !.cached = TRUE, !.pc = "done"]]
            /\ UNCHANGED <<files, entries>>
        BY <1>9, <2>2 DEF Lookup, TypeOK, Unit
      <3>4. QED BY <1>2, <1>3, <3>2, <3>3
    <2>3. CASE ~(key \in DOMAIN entries /\ entries[key].complete)
      <3>1. [u EXCEPT !.probed = u.seen, !.pc = "parsing"] \in Unit
        BY <1>1, <2>1, UnitFields DEF Places
      <3>2. unit' = [unit EXCEPT ![a] = [u EXCEPT !.probed = u.seen, !.pc = "parsing"]]
            /\ UNCHANGED <<files, entries>>
        BY <1>9, <2>3 DEF Lookup, TypeOK, Unit
      <3>3. QED BY <1>2, <1>3, <3>1, <3>2
    <2>4. QED BY <2>2, <2>3
  <1>10. ASSUME NEW a \in Analyses, CompareDependencies(a) PROVE TypeOK'
    <2>1. SeenBy(a) \in Key
      BY <1>1 DEF SeenBy, Unit, Key
    <2>2. /\ UNCHANGED <<files, entries>>
          /\ \E p \in Places : unit' = [unit EXCEPT ![a] = [unit[a] EXCEPT !.ast = SeenBy(a), !.pc = p]]
      BY <1>10 DEF CompareDependencies, Places, TypeOK, Unit
    <2>3. \A p \in Places : [unit[a] EXCEPT !.ast = SeenBy(a), !.pc = p] \in Unit
      BY <1>1, <2>1, UnitFields
    <2>4. QED BY <1>2, <1>3, <2>2, <2>3
  <1>11. ASSUME NEW f \in Files, Edit(f) PROVE TypeOK'
    <2>1. tree' \in View
      BY <1>11 DEF Edit, TypeOK, View, Sight
    <2>2. edits' \in 0..MaxEdits
      BY <1>11, TuCacheAssumption DEF Edit, TypeOK
    <2>3. QED
      BY <1>11, <2>1, <2>2 DEF Edit, TypeOK
  <1>12. ASSUME NEW k \in DOMAIN entries, Damage(k) PROVE TypeOK'
    <2>1. [complete |-> FALSE, ast |-> NoView] \in Entry
      BY DEF Entry
    <2>2. QED
      BY <1>12, <2>1 DEF Damage, TypeOK, files
  <1>13. ASSUME NEW a \in Analyses, NEW k \in Key, NEW e \in Entry,
                UNCHANGED files, unit' \in [Analyses -> Unit],
                entries' = WithEntry(k, e) \/ UNCHANGED entries
         PROVE  TypeOK'
    BY <1>13, WithEntryType DEF TypeOK, files
  <1>14. ASSUME NEW a \in Analyses, ClaimEntry(a) \/ FillEntry(a) PROVE TypeOK'
    <2>1. /\ [complete |-> FALSE, ast |-> NoView] \in Entry
          /\ [complete |-> TRUE, ast |-> unit[a].ast] \in Entry
          /\ KeyOf(a) \in Key
      BY <1>1, <1>14 DEF Entry, Unit, Key, KeyOf, KeysAreProbed, ClaimEntry, FillEntry, At
    <2>2. \E p \in Places : unit' = [unit EXCEPT ![a] = [unit[a] EXCEPT !.pc = p]]
      BY <1>14 DEF ClaimEntry, FillEntry, Places
    <2>3. \A p \in Places : [unit[a] EXCEPT !.pc = p] \in Unit
      BY <1>1, UnitFields
    <2>4. unit' \in [Analyses -> Unit]
      BY <1>2, <2>2, <2>3
    <2>5. QED
      BY <1>13, <1>14, <2>1, <2>4 DEF ClaimEntry, FillEntry
  <1>15. CASE UNCHANGED vars
    BY <1>15 DEF vars, files, TypeOK
  <1>16. QED
    BY <1>4, <1>5, <1>6, <1>7, <1>8, <1>9, <1>10, <1>11, <1>12, <1>14, <1>15
       DEF Next, Task, KeysAreProbed

-----------------------------------------------------------------------------
(***************************************************************************)
(* The inductive invariant.  Files that are opened are compared by their   *)
(* texts.  A file that is only looked up is compared by the two probes,    *)
(* which say the same of it when the parser, between them, saw the same:   *)
(* it changes once, so it cannot have changed twice.                       *)
(***************************************************************************)

\* Where a probe has been, a looked-up file that has not changed is as it was.
ProbeIsFresh(a) ==
  \A f \in LookedUp \ settled :
    /\ At(a, "probing") /\ f \notin unit[a].todo => unit[a].seen[f] = tree[f]
    /\ At(a, "lookup") => unit[a].seen[f] = tree[f]
    /\ unit[a].pc \in {"parsing", "comparing", "reprobing"} /\ unit[a].probed # NoView
         => unit[a].probed[f] = tree[f]

\* What the parser saw of f is what there is to see, unless f changed and the
\* second probe is going to notice.
Steady(a, f, sight) ==
  /\ f \notin settled => sight = tree[f]
  /\ unit[a].probed[f] = tree[f] => sight = tree[f]

ParseIsSteady(a) ==
  unit[a].probed # NoView => \A f \in LookedUp :
    /\ At(a, "parsing") /\ f \notin unit[a].todo => Steady(a, f, unit[a].seen[f])
    /\ At(a, "comparing") => Steady(a, f, unit[a].seen[f])
    /\ At(a, "reprobing") /\ f \in unit[a].todo => Steady(a, f, unit[a].ast.view[f])
    /\ At(a, "reprobing") /\ f \notin unit[a].todo => unit[a].ast.view[f] = unit[a].probed[f]

\* What is known of a task besides: passes begin with all files, the parser's
\* texts were compared, and a key that is about to be written is that of the AST.
TaskKnows(a) ==
  /\ unit[a].pc \in {"idle", "probing", "lookup"} => unit[a].probed = NoView
  /\ unit[a].pc \in {"lookup", "comparing"} => unit[a].todo = Files
  /\ At(a, "reprobing") =>
       /\ unit[a].ast \in Key /\ unit[a].ast.scope = unit[a].scope
       /\ \A f \in Opened : unit[a].ast.view[f] = unit[a].probed[f]
  /\ unit[a].pc \in {"claiming", "filling"} => unit[a].ast = KeyOf(a)
  /\ unit[a].cached => At(a, "done") /\ unit[a].ast = KeyOf(a)

\* The directory of an entry exists while its writer is at work.
WritersHaveClaimed(a) == At(a, "filling") => KeyOf(a) \in DOMAIN entries

TaskInv(a) == ProbeIsFresh(a) /\ ParseIsSteady(a) /\ TaskKnows(a) /\ WritersHaveClaimed(a)

IInv ==
  /\ TypeOK
  /\ KeysAreProbed
  /\ \A a \in Analyses : TaskInv(a)
  /\ EntriesAreExact
  /\ OneWriterPerEntry

LEMMA InitIInv == Init => IInv
  <1> SUFFICES ASSUME Init PROVE IInv
    OBVIOUS
  <1>1. TypeOK
    BY InitTypes
  <1>2. DOMAIN entries = {} /\ \A a \in Analyses : /\ unit[a].pc = "idle" /\ unit[a].probed = NoView
                                                   /\ unit[a].cached = FALSE
    BY DEF Init
  <1>3. \A a \in Analyses : TaskInv(a)
    BY <1>2 DEF TaskInv, ProbeIsFresh, ParseIsSteady, TaskKnows, WritersHaveClaimed, At
  <1>4. QED
    BY <1>1, <1>2, <1>3 DEF IInv, KeysAreProbed, EntriesAreExact, OneWriterPerEntry, At

\* A step that leaves the sources and the locals of a task alone, and removes
\* no entry, keeps what is known of that task.
LEMMA OtherTask ==
  ASSUME NEW a \in Analyses, TaskInv(a), unit'[a] = unit[a], UNCHANGED files,
         DOMAIN entries \subseteq DOMAIN entries'
  PROVE  TaskInv(a)'
  BY DEF TaskInv, ProbeIsFresh, ParseIsSteady, Steady, TaskKnows, WritersHaveClaimed, At, KeyOf, files

\* So does a step to a place at which nothing is promised.
LEMMA RestingTask ==
  ASSUME TypeOK, NEW a \in Analyses, TaskInv(a), NEW p \in {"done", "threw", "stopped"},
         ~unit[a].cached, unit' = [unit EXCEPT ![a].pc = p]
  PROVE  TaskInv(a)'
  <1>1. unit'[a].pc = p /\ unit'[a].cached = unit[a].cached
    BY DEF TypeOK, Unit
  <1>2. QED
    BY <1>1 DEF TaskInv, ProbeIsFresh, ParseIsSteady, TaskKnows, WritersHaveClaimed, At

\* The fields that a pass over the files leaves.
LEMMA SeeFields ==
  ASSUME TypeOK, NEW a \in Analyses, NEW f \in Files, NEW next \in Places, See(a, f, next)
  PROVE  /\ unit[a].todo = {f} => unit'[a].todo = Files /\ unit'[a].pc = next
         /\ unit[a].todo # {f} => unit'[a].todo = unit[a].todo \ {f} /\ unit'[a].pc = unit[a].pc
         /\ unit'[a].seen[f] = tree[f]
         /\ \A g \in Files \ {f} : unit'[a].seen[g] = unit[a].seen[g]
         /\ unit'[a].probed = unit[a].probed /\ unit'[a].ast = unit[a].ast
         /\ unit'[a].scope = unit[a].scope /\ unit'[a].cached = unit[a].cached
         /\ f \in unit[a].todo
  <1>1. unit[a] \in Unit /\ unit[a].seen \in [Files -> Texts \cup {Absent, There}]
    BY DEF TypeOK, Unit, View
  <1>2. unit'[a] = [unit[a] EXCEPT
                       !.seen = [unit[a].seen EXCEPT ![f] = tree[f]],
                       !.todo = IF unit[a].todo = {f} THEN Files ELSE unit[a].todo \ {f},
                       !.pc   = IF unit[a].todo = {f} THEN next ELSE unit[a].pc]
    BY SeeTypes
  <1> DEFINE v == [unit[a].seen EXCEPT ![f] = tree[f]]
             t == IF unit[a].todo = {f} THEN Files ELSE unit[a].todo \ {f}
             p == IF unit[a].todo = {f} THEN next ELSE unit[a].pc
  <1>3. v[f] = tree[f] /\ \A g \in Files \ {f} : v[g] = unit[a].seen[g]
    BY <1>1
  <1>4. /\ unit[a].todo = {f} => t = Files /\ p = next
        /\ unit[a].todo # {f} => t = unit[a].todo \ {f} /\ p = unit[a].pc
    OBVIOUS
  <1> HIDE DEF v, t, p
  <1>5. unit'[a] = [unit[a] EXCEPT !.seen = v, !.todo = t, !.pc = p]
    BY <1>2 DEF v, t, p
  <1>6. /\ unit'[a].seen = v /\ unit'[a].todo = t /\ unit'[a].pc = p
        /\ unit'[a].probed = unit[a].probed /\ unit'[a].ast = unit[a].ast
        /\ unit'[a].scope = unit[a].scope /\ unit'[a].cached = unit[a].cached
    BY <1>1, <1>5 DEF Unit
  <1>7. QED
    BY <1>3, <1>4, <1>6 DEF See

LEMMA ProbeKeeps ==
  ASSUME IInv, NEW a \in Analyses, NEW f \in Files, Probe(a, f)
  PROVE  TaskInv(a)'
  <1>1. See(a, f, "lookup") /\ At(a, "probing") /\ "lookup" \in Places /\ UNCHANGED <<files, entries>>
    BY DEF Probe, See, Places
  <1>2. TaskInv(a) /\ TypeOK /\ unit[a].probed = NoView /\ ~unit[a].cached
    BY <1>1 DEF IInv, TaskInv, TaskKnows, At
  <1>3. unit'[a].pc \in {"probing", "lookup"} /\ unit'[a].probed = NoView /\ ~unit'[a].cached
    BY <1>1, <1>2, SeeFields DEF At
  <1>4. ProbeIsFresh(a)'
    BY <1>1, <1>2, <1>3, SeeFields DEF TaskInv, ProbeIsFresh, At, files, Files
  <1>5. TaskKnows(a)'
    BY <1>1, <1>2, <1>3, SeeFields DEF TaskKnows, At
  <1>6. QED
    BY <1>3, <1>4, <1>5 DEF TaskInv, ParseIsSteady, WritersHaveClaimed, At

LEMMA ParseKeeps ==
  ASSUME IInv, NEW a \in Analyses, NEW f \in Files, Parse(a, f)
  PROVE  TaskInv(a)'
  <1>1. See(a, f, "comparing") /\ At(a, "parsing") /\ "comparing" \in Places /\ UNCHANGED <<files, entries>>
    BY DEF Parse, See, Places
  <1>2. TaskInv(a) /\ TypeOK /\ ~unit[a].cached
    BY <1>1 DEF IInv, TaskInv, TaskKnows, At
  <1>3. unit'[a].pc \in {"parsing", "comparing"} /\ unit'[a].probed = unit[a].probed /\ ~unit'[a].cached
    BY <1>1, <1>2, SeeFields DEF At
  <1>4. ProbeIsFresh(a)'
    BY <1>1, <1>2, <1>3 DEF TaskInv, ProbeIsFresh, At, files
  <1>5. ParseIsSteady(a)'
    BY <1>1, <1>2, <1>3, SeeFields DEF TaskInv, ProbeIsFresh, ParseIsSteady, Steady, At, files, Files
  <1>6. TaskKnows(a)'
    BY <1>1, <1>2, <1>3, SeeFields DEF TaskKnows, At
  <1>7. QED
    BY <1>3, <1>4, <1>5, <1>6 DEF TaskInv, WritersHaveClaimed, At

LEMMA ReprobeKeeps ==
  ASSUME IInv, NEW a \in Analyses, NEW f \in Files, Reprobe(a, f), tree[f] = unit[a].probed[f]
  PROVE  TaskInv(a)'
  <1>1. See(a, f, "claiming") /\ At(a, "reprobing") /\ "claiming" \in Places /\ UNCHANGED <<files, entries>>
    BY DEF Reprobe, See, Places
  <1>2. TaskInv(a) /\ TypeOK /\ ~unit[a].cached
    BY <1>1 DEF IInv, TaskInv, TaskKnows, At
  <1>3. /\ unit'[a].pc \in {"reprobing", "claiming"} /\ unit'[a].probed = unit[a].probed
        /\ unit'[a].ast = unit[a].ast /\ unit'[a].scope = unit[a].scope /\ ~unit'[a].cached
    BY <1>1, <1>2, SeeFields DEF At
  <1>4. ProbeIsFresh(a)'
    BY <1>1, <1>2, <1>3 DEF TaskInv, ProbeIsFresh, At, files
  <1>5. f \in LookedUp /\ unit[a].probed # NoView => unit[a].ast.view[f] = unit[a].probed[f]
    BY <1>1, <1>2, SeeFields DEF TaskInv, ParseIsSteady, Steady, At
  <1>6. ParseIsSteady(a)'
    BY <1>1, <1>2, <1>3, <1>5, SeeFields DEF TaskInv, ParseIsSteady, Steady, At, files, Files
  <1>7. unit[a].todo = {f} => unit[a].ast = KeyOf(a)
    <2> SUFFICES ASSUME unit[a].todo = {f} PROVE unit[a].ast = KeyOf(a)
      OBVIOUS
    <2>1. unit[a].probed \in View /\ unit[a].ast \in Key /\ unit[a].ast.scope = unit[a].scope
      BY <1>1, <1>2 DEF IInv, KeysAreProbed, TaskInv, TaskKnows, At
    <2>2. \A g \in Files : unit[a].ast.view[g] = unit[a].probed[g]
      BY <1>1, <1>2, <1>5, <2>1, NoViewAssumption DEF TaskInv, ParseIsSteady, TaskKnows, At, Files
    <2>3. unit[a].ast.view = unit[a].probed
      BY <2>1, <2>2 DEF Key, View
    <2>4. QED
      BY <2>1, <2>3 DEF Key, KeyOf
  <1>8. TaskKnows(a)'
    BY <1>1, <1>2, <1>3, <1>7, SeeFields DEF TaskInv, TaskKnows, At, KeyOf
  <1>9. QED
    BY <1>3, <1>4, <1>6, <1>8 DEF TaskInv, WritersHaveClaimed, At

LEMMA LookupKeeps ==
  ASSUME IInv, NEW a \in Analyses, Lookup(a)
  PROVE  TaskInv(a)'
  <1>1. /\ TaskInv(a) /\ TypeOK /\ unit[a].probed = NoView /\ ~unit[a].cached
        /\ unit[a] \in Unit /\ At(a, "lookup") /\ unit[a].todo = Files
        /\ UNCHANGED files /\ EntriesAreExact
    BY DEF IInv, TaskInv, TaskKnows, At, Lookup, TypeOK
  <1>2. /\ unit'[a].probed = unit[a].seen /\ unit'[a].seen = unit[a].seen
        /\ unit'[a].scope = unit[a].scope /\ unit'[a].todo = unit[a].todo
        /\ \/ unit'[a].pc = "done" /\ unit'[a].ast = SeenBy(a)
           \/ unit'[a].pc = "parsing" /\ unit'[a].cached = unit[a].cached
    <2> DEFINE key == SeenBy(a)
    <2>1. CASE key \in DOMAIN entries /\ entries[key].complete
      <3>1. entries[key].ast = key
        BY <1>1, <2>1 DEF EntriesAreExact
      <3>2. unit' = [unit EXCEPT ![a].probed = unit[a].seen, ![a].ast = entries[key].ast,
                                 ![a].cached = TRUE, ![a].pc = "done"]
        BY <2>1 DEF Lookup
      <3> HIDE DEF key
      <3>3. QED
        BY <1>1, <3>1, <3>2 DEF TypeOK, Unit, key
    <2>2. CASE ~(key \in DOMAIN entries /\ entries[key].complete)
      <3>1. unit' = [unit EXCEPT ![a].probed = unit[a].seen, ![a].pc = "parsing"]
        BY <2>2 DEF Lookup
      <3>2. QED
        BY <1>1, <3>1 DEF TypeOK, Unit
    <2>3. QED BY <2>1, <2>2
  <1>3. ProbeIsFresh(a)'
    BY <1>1, <1>2 DEF TaskInv, ProbeIsFresh, At, files
  <1>4. ParseIsSteady(a)'
    BY <1>1, <1>2 DEF ParseIsSteady, At, Files
  <1>5. TaskKnows(a)' /\ WritersHaveClaimed(a)'
    BY <1>1, <1>2 DEF TaskKnows, WritersHaveClaimed, At, SeenBy, KeyOf
  <1>6. QED
    BY <1>3, <1>4, <1>5 DEF TaskInv

LEMMA CompareKeeps ==
  ASSUME IInv, NEW a \in Analyses, CompareDependencies(a)
  PROVE  TaskInv(a)'
  <1>1. /\ TaskInv(a) /\ TypeOK /\ ~unit[a].cached
        /\ unit[a] \in Unit /\ At(a, "comparing") /\ unit[a].todo = Files
        /\ UNCHANGED files
    BY DEF IInv, TaskInv, TaskKnows, At, CompareDependencies, TypeOK
  <1> DEFINE next == IF unit[a].probed = NoView THEN "done"
                     ELSE IF \A f \in Opened : unit[a].seen[f] = unit[a].probed[f]
                          THEN "reprobing" ELSE "threw"
  <1>2. unit' = [unit EXCEPT ![a].ast = SeenBy(a), ![a].pc = next]
    BY DEF CompareDependencies
  <1>3. /\ next \in {"done", "reprobing", "threw"}
        /\ next = "reprobing" => /\ unit[a].probed # NoView
                                 /\ \A f \in Opened : unit[a].seen[f] = unit[a].probed[f]
    OBVIOUS
  <1> HIDE DEF next
  <1>4. /\ unit'[a].pc = next /\ unit'[a].ast = SeenBy(a)
        /\ unit'[a].probed = unit[a].probed /\ unit'[a].todo = unit[a].todo
        /\ unit'[a].scope = unit[a].scope /\ unit'[a].cached = unit[a].cached
    BY <1>1, <1>2 DEF TypeOK, Unit
  <1>5. SeenBy(a) \in Key /\ SeenBy(a).scope = unit[a].scope /\ SeenBy(a).view = unit[a].seen
    BY <1>1 DEF SeenBy, Key, Unit
  <1>6. ProbeIsFresh(a)'
    BY <1>1, <1>3, <1>4 DEF TaskInv, ProbeIsFresh, At, files
  <1>7. ParseIsSteady(a)'
    BY <1>1, <1>3, <1>4, <1>5 DEF TaskInv, ParseIsSteady, Steady, At, files, Files
  <1>8. TaskKnows(a)' /\ WritersHaveClaimed(a)'
    BY <1>1, <1>3, <1>4, <1>5 DEF TaskKnows, WritersHaveClaimed, At
  <1>9. QED
    BY <1>6, <1>7, <1>8 DEF TaskInv

\* An entry is written by the task whose AST it is to hold.
LEMMA ClaimKeeps ==
  ASSUME IInv, NEW a \in Analyses, ClaimEntry(a)
  PROVE  TaskInv(a)'
  <1>1. TaskInv(a) /\ TypeOK /\ ~unit[a].cached /\ At(a, "claiming") /\ unit[a].ast = KeyOf(a)
    BY DEF IInv, TaskInv, TaskKnows, At, ClaimEntry
  <1>2. CASE unit' = [unit EXCEPT ![a].pc = "done"]
    BY <1>1, <1>2, RestingTask
  <1>3. CASE /\ unit' = [unit EXCEPT ![a].pc = "filling"]
             /\ entries' = WithEntry(KeyOf(a), [complete |-> FALSE, ast |-> NoView])
    <2>1. /\ unit'[a].pc = "filling" /\ unit'[a].cached = unit[a].cached
          /\ unit'[a].ast = unit[a].ast /\ unit'[a].probed = unit[a].probed
          /\ unit'[a].scope = unit[a].scope
      BY <1>1, <1>3 DEF TypeOK, Unit
    <2>2. KeyOf(a) \in DOMAIN entries' /\ KeyOf(a)' = KeyOf(a)
      BY <1>3, <2>1 DEF WithEntry, KeyOf
    <2>3. QED
      BY <1>1, <2>1, <2>2 DEF TaskInv, ProbeIsFresh, ParseIsSteady, TaskKnows, WritersHaveClaimed, At
  <1>4. QED
    BY <1>2, <1>3 DEF ClaimEntry

\* An edit of a file that is only looked up is the first one; what the probe
\* and the parser saw of it was the same until then.
LEMMA EditKeeps ==
  ASSUME IInv, NEW a \in Analyses, NEW f \in Files, Edit(f)
  PROVE  TaskInv(a)'
  <1>1. TaskInv(a) /\ TypeOK
    BY DEF IInv
  <1>2. PICK s \in Sight(f) : f \notin settled /\ tree' = [tree EXCEPT ![f] = s]
    BY DEF Edit
  <1>3. /\ tree'[f] = s /\ \A g \in Files \ {f} : tree'[g] = tree[g]
        /\ settled \subseteq settled' /\ (f \in LookedUp => f \in settled')
        /\ \A g \in LookedUp : g \in settled' => g \in settled \/ g = f
        /\ UNCHANGED <<entries, unit>>
    BY <1>1, <1>2 DEF Edit, TypeOK, View
  <1>4. ProbeIsFresh(a)'
    BY <1>1, <1>3 DEF TaskInv, ProbeIsFresh, At, Files
  <1>5. \A g \in LookedUp : \A v : unit[a].probed # NoView /\ Steady(a, g, v)
          /\ (g = f => unit[a].probed[g] = tree[g]) => Steady(a, g, v)'
    BY <1>2, <1>3 DEF Steady, Files
  <1>6. unit[a].probed # NoView /\ unit[a].pc \in {"parsing", "comparing", "reprobing"} /\ f \in LookedUp
          => unit[a].probed[f] = tree[f]
    BY <1>1, <1>2 DEF TaskInv, ProbeIsFresh
  <1>7. ParseIsSteady(a)'
    BY <1>1, <1>3, <1>5, <1>6 DEF TaskInv, ParseIsSteady, At
  <1>8. TaskKnows(a)' /\ WritersHaveClaimed(a)'
    BY <1>1, <1>3 DEF TaskInv, TaskKnows, WritersHaveClaimed, At, KeyOf
  <1>9. QED
    BY <1>4, <1>7, <1>8 DEF TaskInv

LEMMA NextTaskInv ==
  ASSUME IInv, [Next]_vars, NEW c \in Analyses
  PROVE  TaskInv(c)'
  <1> USE DEF IInv
  <1>1. CASE UNCHANGED vars
    BY <1>1, OtherTask DEF vars, files
  <1>2. ASSUME NEW f \in Files, Edit(f) PROVE TaskInv(c)'
    BY <1>2, EditKeeps
  <1>3. ASSUME NEW k \in DOMAIN entries, Damage(k) PROVE TaskInv(c)'
    <2>1. DOMAIN entries' = DOMAIN entries /\ UNCHANGED <<files, unit>>
      BY <1>3 DEF Damage
    <2>2. QED BY <2>1, OtherTask
  <1>4. ASSUME NEW a \in Analyses, Start(a) \/ Task(a) \/ Stop(a) PROVE TaskInv(c)'
    <2>1. DOMAIN entries \subseteq DOMAIN entries'
      BY <1>4 DEF Start, Task, Stop, Probe, Parse, Reprobe, See, ProbeUnusable, Lookup, ParseFails,
         CompareDependencies, ReprobeUnusable, ClaimEntry, FillEntry, WithEntry
    <2>2. UNCHANGED files
      BY <1>4 DEF Start, Task, Stop, Probe, Parse, Reprobe, See, ProbeUnusable, Lookup, ParseFails,
         CompareDependencies, ReprobeUnusable, ClaimEntry, FillEntry
    <2>3. CASE c # a
      <3>1. unit'[c] = unit[c]
        BY <1>4, <2>3 DEF Start, Task, Stop, Probe, Parse, Reprobe, See, ProbeUnusable, Lookup,
           ParseFails, CompareDependencies, ReprobeUnusable, ClaimEntry, FillEntry, TypeOK
      <3>2. QED BY <2>1, <2>2, <3>1, OtherTask
    <2>4. CASE c = a
      <3>1. CASE Start(a)
        <4>1. /\ unit'[a].pc = "probing" /\ unit'[a].todo = Files
              /\ unit'[a].probed = unit[a].probed /\ unit'[a].cached = unit[a].cached
          BY <3>1 DEF Start, TypeOK, Unit
        <4>2. QED
          BY <2>4, <3>1, <4>1 DEF Start, TaskInv, ProbeIsFresh, ParseIsSteady, TaskKnows,
             WritersHaveClaimed, At, Files
      <3>2. CASE ProbeUnusable(a)
        <4>1. /\ unit'[a].pc = "parsing" /\ unit'[a].todo = Files
              /\ unit'[a].probed = unit[a].probed /\ unit'[a].cached = unit[a].cached
          BY <3>2 DEF ProbeUnusable, TypeOK, Unit
        <4>2. QED
          BY <2>4, <3>2, <4>1 DEF ProbeUnusable, TaskInv, ProbeIsFresh, ParseIsSteady, TaskKnows,
             WritersHaveClaimed, At, Files
      <3>3. CASE ParseFails(a) \/ ReprobeUnusable(a) \/ Stop(a) \/ FillEntry(a)
        <4>1. /\ ~unit[a].cached
              /\ \E p \in {"done", "threw", "stopped"} : unit' = [unit EXCEPT ![a].pc = p]
          BY <3>3 DEF ParseFails, ReprobeUnusable, Stop, FillEntry, TaskInv, TaskKnows, At
        <4>2. QED
          BY <2>4, <4>1, RestingTask
      <3>4. ASSUME NEW f \in Files, Reprobe(a, f), tree[f] # unit[a].probed[f] PROVE TaskInv(a)'
        <4>1. ~unit[a].cached /\ unit' = [unit EXCEPT ![a].pc = "threw"]
          BY <3>4 DEF Reprobe, TaskInv, TaskKnows, At
        <4>2. QED BY <4>1, RestingTask
      <3>5. QED
        BY <1>4, <2>4, <3>1, <3>2, <3>3, <3>4, ProbeKeeps, ParseKeeps, ReprobeKeeps, LookupKeeps,
           CompareKeeps, ClaimKeeps DEF Task
    <2>5. QED BY <2>3, <2>4
  <1>5. QED
    BY <1>1, <1>2, <1>3, <1>4 DEF Next

\* The steps after which a task is at a place where it has a key.
LEMMA KeyedSteps ==
  ASSUME TypeOK, [Next]_vars, NEW a \in Analyses,
         unit'[a].pc \in {"reprobing", "claiming", "filling"}
  PROVE  /\ unit'[a].probed = unit[a].probed /\ unit'[a].scope = unit[a].scope
         /\ \/ unit[a].pc \in {"reprobing", "claiming", "filling"}
            \/ CompareDependencies(a) /\ unit[a].probed # NoView
         /\ At(a, "filling")' => At(a, "filling") \/ (ClaimEntry(a) /\ KeyOf(a) \notin DOMAIN entries)
  <1>1. CASE unit'[a] = unit[a]
    BY <1>1 DEF At
  <1>2. ASSUME NEW c \in Analyses, Start(c) \/ Task(c) \/ Stop(c), c # a
        PROVE  unit'[a] = unit[a]
    BY <1>2 DEF Start, Task, Stop, Probe, Parse, Reprobe, See, ProbeUnusable, Lookup,
       ParseFails, CompareDependencies, ReprobeUnusable, ClaimEntry, FillEntry, TypeOK
  <1>3. CASE UNCHANGED unit
    BY <1>1, <1>3
  <1>4. unit[a] \in Unit
    BY DEF TypeOK
  <1>5. CASE Start(a) \/ ProbeUnusable(a) \/ Lookup(a) \/ ParseFails(a) \/ ReprobeUnusable(a)
             \/ FillEntry(a) \/ Stop(a)
    <2>1. CASE Start(a)
      BY <1>4, <2>1 DEF Start, TypeOK, Unit
    <2>2. CASE ProbeUnusable(a)
      BY <1>4, <2>2 DEF ProbeUnusable, TypeOK, Unit
    <2>3. CASE Lookup(a)
      <3>1. unit'[a].pc \in {"done", "parsing"}
        BY <1>4, <2>3 DEF Lookup, TypeOK, Unit
      <3>2. QED BY <3>1
    <2>4. CASE ParseFails(a) \/ ReprobeUnusable(a) \/ FillEntry(a) \/ Stop(a)
      <3>1. unit'[a].pc \in {"done", "threw", "stopped"}
        BY <1>4, <2>4 DEF ParseFails, ReprobeUnusable, FillEntry, Stop, TypeOK, Unit
      <3>2. QED BY <3>1
    <2>5. QED BY <1>5, <2>1, <2>2, <2>3, <2>4
  <1>6. CASE \E f \in Files : Probe(a, f) \/ Parse(a, f)
    BY <1>4, <1>6, SeeFields DEF Probe, Parse, At, Places
  <1>7. CASE \E f \in Files : Reprobe(a, f)
    <2>1. PICK f \in Files : Reprobe(a, f)
      BY <1>7
    <2>2. CASE tree[f] = unit[a].probed[f]
      BY <2>1, <2>2, SeeFields DEF Reprobe, At, Places
    <2>3. CASE tree[f] # unit[a].probed[f]
      BY <1>4, <2>1, <2>3 DEF Reprobe, TypeOK, Unit
    <2>4. QED BY <2>2, <2>3
  <1>8. CASE CompareDependencies(a)
    <2>1. \E p \in {"done", "reprobing", "threw"} :
            /\ unit' = [unit EXCEPT ![a].ast = SeenBy(a), ![a].pc = p]
            /\ p = "reprobing" => unit[a].probed # NoView
      BY <1>8 DEF CompareDependencies
    <2>2. QED
      BY <1>4, <1>8, <2>1 DEF TypeOK, Unit, At
  <1>9. CASE ClaimEntry(a)
    <2>1. /\ unit[a].pc = "claiming"
          /\ \E p \in {"done", "filling"} :
               /\ unit' = [unit EXCEPT ![a].pc = p]
               /\ p = "filling" => KeyOf(a) \notin DOMAIN entries
      BY <1>9 DEF ClaimEntry, At
    <2>2. QED
      BY <1>4, <1>9, <2>1 DEF TypeOK, Unit, At
  <1>10. CASE Start(a) \/ Task(a) \/ Stop(a)
    BY <1>10, <1>5, <1>6, <1>7, <1>8, <1>9 DEF Task
  <1>11. ASSUME NEW f \in Files, Edit(f) PROVE UNCHANGED unit
    BY <1>11 DEF Edit
  <1>12. ASSUME NEW k \in DOMAIN entries, Damage(k) PROVE UNCHANGED unit
    BY <1>12 DEF Damage
  <1>13. CASE UNCHANGED vars
    BY <1>3, <1>13 DEF vars
  <1>14. QED
    BY <1>1, <1>2, <1>3, <1>10, <1>11, <1>12, <1>13 DEF Next

\* The steps that touch the directory of entries.
LEMMA EntrySteps ==
  ASSUME [Next]_vars
  PROVE  \/ UNCHANGED entries
         \/ \E k \in DOMAIN entries : Damage(k)
         \/ \E a \in Analyses : ClaimEntry(a) \/ FillEntry(a)
  <1>1. ASSUME NEW a \in Analyses, Start(a) \/ Stop(a) \/ ProbeUnusable(a) \/ Lookup(a) \/ ParseFails(a)
                                  \/ CompareDependencies(a) \/ ReprobeUnusable(a)
        PROVE  UNCHANGED entries
    BY <1>1 DEF Start, Stop, ProbeUnusable, Lookup, ParseFails, CompareDependencies, ReprobeUnusable
  <1>2. ASSUME NEW a \in Analyses, NEW f \in Files, Probe(a, f) \/ Parse(a, f) \/ Reprobe(a, f)
        PROVE  UNCHANGED entries
    BY <1>2 DEF Probe, Parse, Reprobe, See
  <1>3. ASSUME NEW f \in Files, Edit(f) PROVE UNCHANGED entries
    BY <1>3 DEF Edit
  <1>4. CASE UNCHANGED vars
    BY <1>4 DEF vars
  <1>5. QED
    BY <1>1, <1>2, <1>3, <1>4 DEF Next, Task

LEMMA FilledKeysAreProbed == IInv /\ [Next]_vars => KeysAreProbed'
  <1> SUFFICES ASSUME IInv, [Next]_vars, NEW a \in Analyses,
                      unit'[a].pc \in {"reprobing", "claiming", "filling"}
               PROVE  unit'[a].probed \in View
    BY DEF KeysAreProbed
  <1>1. unit[a].probed \in View \cup {NoView}
    BY DEF IInv, TypeOK, Unit
  <1>2. QED
    BY <1>1, KeyedSteps DEF IInv, KeysAreProbed

\* What is written, and by whom, was said in TaskKnows.
LEMMA NextEntries == IInv /\ [Next]_vars => EntriesAreExact'
  <1> SUFFICES ASSUME IInv, [Next]_vars PROVE EntriesAreExact'
    OBVIOUS
  <1> USE DEF IInv, EntriesAreExact
  <1>1. CASE UNCHANGED entries
    BY <1>1
  <1>2. ASSUME NEW k \in DOMAIN entries, Damage(k) PROVE EntriesAreExact'
    BY <1>2 DEF Damage
  <1>3. ASSUME NEW a \in Analyses, ClaimEntry(a) PROVE EntriesAreExact'
    BY <1>3 DEF ClaimEntry, WithEntry
  <1>4. ASSUME NEW a \in Analyses, FillEntry(a) PROVE EntriesAreExact'
    <2>1. unit[a].ast = KeyOf(a)
      BY <1>4 DEF FillEntry, TaskInv, TaskKnows, At
    <2>2. QED
      BY <1>4, <2>1 DEF FillEntry, WithEntry
  <1>5. QED
    BY <1>1, <1>2, <1>3, <1>4, EntrySteps

\* A second writer would find the directory of the first.
LEMMA NextWriters == IInv /\ [Next]_vars => OneWriterPerEntry'
  <1> SUFFICES ASSUME IInv, [Next]_vars, NEW a \in Analyses, NEW b \in Analyses, a # b,
                      At(a, "filling")', At(b, "filling")'
               PROVE  KeyOf(a)' # KeyOf(b)'
    BY DEF OneWriterPerEntry
  <1>1. TypeOK /\ \A c \in Analyses : At(c, "filling") => KeyOf(c) \in DOMAIN entries
    BY DEF IInv, TaskInv, WritersHaveClaimed
  <1>2. KeyOf(a)' = KeyOf(a) /\ KeyOf(b)' = KeyOf(b)
    BY <1>1, KeyedSteps DEF At, KeyOf
  <1>3. /\ At(a, "filling") \/ (ClaimEntry(a) /\ KeyOf(a) \notin DOMAIN entries)
        /\ At(b, "filling") \/ (ClaimEntry(b) /\ KeyOf(b) \notin DOMAIN entries)
    BY <1>1, KeyedSteps DEF At
  <1>4. ASSUME NEW c \in Analyses, NEW d \in Analyses, c # d, ClaimEntry(c), At(d, "filling")'
        PROVE  At(d, "filling")
    BY <1>1, <1>4 DEF ClaimEntry, TypeOK, At
  <1>5. QED
    BY <1>1, <1>2, <1>3, <1>4 DEF IInv, OneWriterPerEntry

LEMMA NextIInv == IInv /\ [Next]_vars => IInv'
  <1> SUFFICES ASSUME IInv, [Next]_vars PROVE IInv'
    OBVIOUS
  <1>1. TypeOK'
    BY NextTypes DEF IInv
  <1>2. \A a \in Analyses : TaskInv(a)'
    BY NextTaskInv
  <1>3. KeysAreProbed'
    BY FilledKeysAreProbed DEF IInv
  <1>4. EntriesAreExact'
    BY NextEntries DEF IInv
  <1>5. OneWriterPerEntry'
    BY NextWriters DEF IInv
  <1>6. QED
    BY <1>1, <1>2, <1>3, <1>4, <1>5 DEF IInv

-----------------------------------------------------------------------------
(* Theorems *)

\* Type correctness, with all that the other theorems need: the cache of
\* analysed units (analysis_cache.hpp) is used as TaskInv says.
THEOREM CacheInvariant == Spec => []IInv
  BY InitIInv, NextIInv, PTL DEF Spec

\* A complete entry of the cache directory holds the AST of exactly the rules,
\* command and texts its key was made from, although clang_analysis.cpp reads
\* the files three times while they are edited.
THEOREM CacheIsExact == Spec => []EntriesAreExact
  <1>1. IInv => EntriesAreExact
    BY DEF IInv
  <1>2. QED
    BY <1>1, CacheInvariant, PTL

\* A unit served from the cache has the result a full analysis of the probed
\* texts would have.
THEOREM HitsAreExact == Spec => []HitsAreFullResults
  <1>1. IInv => HitsAreFullResults
    BY DEF IInv, TaskInv, TaskKnows, HitsAreFullResults
  <1>2. QED
    BY <1>1, CacheInvariant, PTL

\* create_directory of the key directory makes one analysis the writer.
THEOREM WritersAreAlone == Spec => []OneWriterPerEntry
  <1>1. IInv => OneWriterPerEntry
    BY DEF IInv
  <1>2. QED
    BY <1>1, CacheInvariant, PTL

\* No step overwrites or removes an entry, whoever takes it.
THEOREM EntriesStay == Spec => EntriesAreWrittenOnce
  <1>1. [Next]_vars => [\A k \in DOMAIN entries :
            /\ k \in DOMAIN entries'
            /\ \/ entries'[k] = entries[k]
               \/ entries'[k] = [complete |-> FALSE, ast |-> NoView]
               \/ \E a \in Analyses : At(a, "filling") /\ KeyOf(a) = k]_entries
    <2> SUFFICES ASSUME [Next]_vars, NEW k \in DOMAIN entries
                 PROVE  /\ k \in DOMAIN entries'
                        /\ \/ entries'[k] = entries[k]
                           \/ entries'[k] = [complete |-> FALSE, ast |-> NoView]
                           \/ \E a \in Analyses : At(a, "filling") /\ KeyOf(a) = k
      OBVIOUS
    <2>1. CASE UNCHANGED entries
      BY <2>1
    <2>2. ASSUME NEW j \in DOMAIN entries, entries' = [entries EXCEPT ![j] = [complete |-> FALSE, ast |-> NoView]]
          PROVE  /\ k \in DOMAIN entries'
                 /\ entries'[k] = entries[k] \/ entries'[k] = [complete |-> FALSE, ast |-> NoView]
      BY <2>2
    <2>3. ASSUME NEW a \in Analyses, ClaimEntry(a)
          PROVE  k \in DOMAIN entries' /\ entries'[k] = entries[k]
      BY <2>3 DEF ClaimEntry, WithEntry
    <2>4. ASSUME NEW a \in Analyses, FillEntry(a)
          PROVE  /\ k \in DOMAIN entries'
                 /\ entries'[k] = entries[k] \/ (At(a, "filling") /\ KeyOf(a) = k)
      BY <2>4 DEF FillEntry, WithEntry
    <2>5. QED
      BY <2>1, <2>2, <2>3, <2>4, EntrySteps DEF Damage
  <1>2. QED
    BY <1>1, PTL DEF Spec, EntriesAreWrittenOnce
\* Type correctness of the cache and its users.
THEOREM CacheTypes == Spec => []TypeOK
  <1>1. IInv => TypeOK
    BY DEF IInv
  <1>2. QED
    BY <1>1, CacheInvariant, PTL
\* The two together: whatever misses, writes and hits at the same time, the directory is
\* right.
THEOREM CacheIsSound == Spec => []EntriesAreSound
  <1>1. EntriesAreExact /\ OneWriterPerEntry => EntriesAreSound
    BY DEF EntriesAreSound
  <1>2. QED
    BY <1>1, CacheIsExact, WritersAreAlone, PTL
=============================================================================

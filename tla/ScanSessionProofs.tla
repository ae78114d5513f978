------------------------- MODULE ScanSessionProofs -------------------------
(***************************************************************************)
(* Safety of ScanSession for any number of scans, readers, files and edits.*)
(***************************************************************************)
EXTENDS ScanSession, TLAPS, SequenceTheorems, FiniteSetTheorems

-----------------------------------------------------------------------------
(* Types *)

\* A scan compares with a snapshot that is in the history.
BasesAreSaved == \A s \in Scans : result[s].base \in 0..Len(history)

\* A scan that reaches its last steps knows how it ended.
EndsAreKnown == \A s \in Scans : pc[s] \in {"sealing", "done"} => outcome[s] \in Outcomes

TypeInv == TypeOK /\ BasesAreSaved /\ EndsAreKnown

\* What COMMIT does to the history.
LEMMA HistoryAppend ==
  ASSUME NEW S, NEW h \in Seq(S), NEW x \in S
  PROVE  /\ Append(h, x) \in Seq(S)
         /\ Len(h) \in Nat /\ Len(Append(h, x)) = Len(h) + 1
         /\ DOMAIN h = 1..Len(h) /\ DOMAIN Append(h, x) = 1..(Len(h) + 1)
         /\ \A i \in DOMAIN h : i \in DOMAIN Append(h, x) /\ Append(h, x)[i] = h[i]
         /\ \A i \in DOMAIN Append(h, x) : i \in DOMAIN h \/ i = Len(h) + 1
         /\ Len(h) + 1 \in DOMAIN Append(h, x)
         /\ Append(h, x)[Len(h) + 1] = x
  BY LenProperties, AppendProperties

LEMMA DifferenceType ==
  ASSUME NEW old, NEW new
  PROVE  Difference(old, new) \in Delta
  <1> DEFINE common == Present(old) \cap Present(new)
             same   == {f \in common : Same(old[f], new[f])}
  <1>1. \A S \in SUBSET Files : Cardinality(S) \in Nat
    BY FS_Subset, FS_CardinalityType, ScanSessionAssumption
  <1>2. /\ Present(new) \ common \in SUBSET Files /\ Present(old) \ common \in SUBSET Files
        /\ common \ same \in SUBSET Files /\ same \in SUBSET Files
    BY DEF Present
  <1>3. QED
    BY <1>1, <1>2 DEF Difference, Delta

LEMMA NoResultType == NoResult \in Result
  BY ScanSessionAssumption DEF NoResult, Result, NoFiles, Inventory, FileState, Delta, Status

\* Every assignment to one field of a scan's result leaves a result.
LEMMA ResultFields ==
  ASSUME NEW r \in Result
  PROVE  /\ \A x \in Inventory : [r EXCEPT !.inv = x] \in Result
         /\ \A x \in BOOLEAN : [r EXCEPT !.diags = x] \in Result
         /\ \A x \in Nat : [r EXCEPT !.base = x] \in Result
         /\ \A x \in Delta : [r EXCEPT !.delta = x] \in Result
         /\ \A x \in [Files -> Texts \cup {Absent}], y \in Status :
              [r EXCEPT !.parsed = x, !.status = y] \in Result
         /\ \A x \in Nat : [r EXCEPT !.id = x] \in Result
  BY DEF Result

LEMMA ResultStep ==
  ASSUME result \in [Scans -> Result], NEW s \in Scans,
         NEW r \in Result, result' = [result EXCEPT ![s] = r]
  PROVE  /\ result' \in [Scans -> Result]
         /\ \A q \in Scans : result'[q].base = IF q = s THEN r.base ELSE result[q].base
  OBVIOUS

LEMMA InitTypes == Init => TypeInv
  <1> SUFFICES ASSUME Init PROVE TypeInv
    OBVIOUS
  <1>1. history \in Seq(Snapshot) /\ Len(history) = 0
    BY EmptySeq DEF Init
  <1>2. result \in [Scans -> Result] /\ \A s \in Scans : result[s].base = 0
    BY NoResultType DEF Init, NoResult
  <1>3. tree \in Inventory /\ edits \in 0..MaxEdits
    BY ScanSessionAssumption DEF Init, Inventory, FileState
  <1>4. BasesAreSaved
    BY <1>1, <1>2 DEF BasesAreSaved
  <1>5. everAbsent \subseteq Files /\ writer \in Scans \cup {NoScan}
        /\ pending \in BOOLEAN /\ readers \subseteq Scans \cup Browsers
    BY DEF Init
  <1>6. /\ control \in [Scans -> ControlStates] /\ accepted \in [Scans -> BOOLEAN]
        /\ pc \in [Scans -> Places] /\ todo \in [Scans -> SUBSET Files]
        /\ thrown \in [Scans -> {"none", "cancelled", "error"}]
        /\ outcome \in [Scans -> Outcomes \cup {"none"}]
        /\ ui \in [Scans -> Busy \cup Outcomes \cup {"idle", "destroyed", "crashed"}]
    BY DEF Init, ControlStates, Places, Ended
  <1>7. EndsAreKnown
    BY DEF Init, EndsAreKnown
  <1>8. QED
    BY <1>1, <1>2, <1>3, <1>4, <1>5, <1>6, <1>7 DEF TypeInv, TypeOK

\* Throw changes where the worker is and what it carries.
LEMMA ThrowTypes ==
  ASSUME TypeOK, BasesAreSaved, NEW s \in Scans, NEW e \in {"cancelled", "error"}, Throw(s, e)
  PROVE  /\ pc' \in [Scans -> Places] /\ thrown' \in [Scans -> {"none", "cancelled", "error"}]
         /\ writer' \in Scans \cup {NoScan} /\ pending' \in BOOLEAN
         /\ readers' \subseteq Scans \cup Browsers
         /\ pc' = [pc EXCEPT ![s] = "unwinding"]
         /\ todo' \in [Scans -> SUBSET Files] /\ result' \in [Scans -> Result]
         /\ BasesAreSaved' /\ UNCHANGED <<history, outcome>>
  <1>1. result' \in [Scans -> Result]
        /\ \A q \in Scans : result'[q].base = IF q = s THEN 0 ELSE result[q].base
    <2>1. NoResult.base = 0  BY DEF NoResult
    <2>2. QED BY <2>1, NoResultType, ResultStep DEF Throw, TypeOK
  <1>2. BasesAreSaved'
    <2>1. Len(history) \in Nat BY LenProperties DEF TypeOK
    <2>2. UNCHANGED history BY DEF Throw
    <2>3. QED BY <1>1, <2>1, <2>2 DEF BasesAreSaved
  <1>3. QED
    BY <1>1, <1>2 DEF Throw, Goto, Releases, TypeOK, Places, Ended

LEMMA NextTypes == TypeInv /\ [Next]_vars => TypeInv'
  <1> SUFFICES ASSUME TypeInv, [Next]_vars PROVE TypeInv'
    OBVIOUS
  <1> USE DEF TypeInv
  <1>1. ASSUME NEW s \in Scans, Prepare(s) PROVE TypeInv'
    <2>1. CASE Throw(s, "error")
      BY <1>1, <2>1, ThrowTypes DEF Prepare, TypeOK, EndsAreKnown, source
    <2>2. CASE ~Throw(s, "error")
      BY <1>1, <2>2 DEF Prepare, Goto, TypeOK, BasesAreSaved, EndsAreKnown, source, store, Places, Ended
    <2>3. QED BY <2>1, <2>2
  <1>2. ASSUME NEW s \in Scans, NEW f \in Files, ScanFile(s, f) PROVE TypeInv'
    <2>1. result' \in [Scans -> Result] /\ \A r \in Scans : result'[r].base = result[r].base
      <3> DEFINE inv == [result[s].inv EXCEPT ![f] = tree[f]]
      <3>1. result[s] \in Result /\ inv \in Inventory
        BY DEF TypeOK, Result, Inventory
      <3>2. \/ UNCHANGED result
            \/ result' = [result EXCEPT ![s] = [result[s] EXCEPT !.inv = inv]]
            \/ result' = [result EXCEPT ![s] = [result[s] EXCEPT !.diags = TRUE]]
        BY <1>2 DEF ScanFile
      <3>3. [result[s] EXCEPT !.inv = inv] \in Result /\ [result[s] EXCEPT !.diags = TRUE] \in Result
        BY <3>1, ResultFields
      <3>4. /\ [result[s] EXCEPT !.inv = inv].base = result[s].base
            /\ [result[s] EXCEPT !.diags = TRUE].base = result[s].base
        BY <3>1 DEF Result
      <3> HIDE DEF inv
      <3>5. QED
        BY <3>2, <3>3, <3>4, ResultStep DEF TypeOK
    <2>2. QED
      BY <1>2, <2>1 DEF ScanFile, Goto, TypeOK, BasesAreSaved, EndsAreKnown, source, store, Places, Ended
  <1>3. ASSUME NEW s \in Scans, OpenHistory(s) PROVE TypeInv'
    BY <1>3 DEF OpenHistory, Goto, TypeOK, BasesAreSaved, EndsAreKnown, source, Places, Ended
  <1>4. ASSUME NEW s \in Scans, LoadPrevious(s) PROVE TypeInv'
    <2>1. Len(history) \in Nat BY LenProperties DEF TypeOK
    <2>2. /\ result' \in [Scans -> Result]
          /\ \A r \in Scans : result'[r].base = IF r = s THEN Len(history) ELSE result[r].base
      <3>1. [result[s] EXCEPT !.base = Len(history)] \in Result
        BY <2>1, ResultFields DEF TypeOK
      <3>2. [result[s] EXCEPT !.base = Len(history)].base = Len(history)
        BY DEF TypeOK, Result
      <3>3. QED
        BY <1>4, <3>1, <3>2, ResultStep DEF LoadPrevious, TypeOK
    <2>3. QED
      BY <1>4, <2>1, <2>2 DEF LoadPrevious, Goto, TypeOK, BasesAreSaved, EndsAreKnown, source, Places, Ended
  <1>5. ASSUME NEW s \in Scans, Compare(s) PROVE TypeInv'
    <2>1. result' \in [Scans -> Result] /\ \A r \in Scans : result'[r].base = result[r].base
      <3> DEFINE delta == Difference(Before(result[s].base), result[s].inv)
      <3>1. \/ UNCHANGED result
            \/ result' = [result EXCEPT ![s] = [result[s] EXCEPT !.delta = delta]]
        BY <1>5 DEF Compare
      <3>2. delta \in Delta
        BY DifferenceType
      <3> HIDE DEF delta
      <3>3. [result[s] EXCEPT !.delta = delta] \in Result
        BY <3>2, ResultFields DEF TypeOK
      <3>4. [result[s] EXCEPT !.delta = delta].base = result[s].base
        BY DEF TypeOK, Result
      <3>5. QED
        BY <3>1, <3>3, <3>4, ResultStep DEF TypeOK
    <2>2. QED
      BY <1>5, <2>1 DEF Compare, Goto, TypeOK, BasesAreSaved, EndsAreKnown, source, store, Places, Ended
  <1>6. ASSUME NEW s \in Scans, NEW f \in Files, ParseFile(s, f) PROVE TypeInv'
    <2>1. result' \in [Scans -> Result] /\ \A r \in Scans : result'[r].base = result[r].base
      <3>1. tree[f].text \in Texts \cup {Absent}
        BY DEF TypeOK, Inventory, FileState
      <3>2. PICK read \in Texts \cup {Absent}, st \in Status :
              result' = [result EXCEPT ![s] =
                [result[s] EXCEPT !.parsed = [result[s].parsed EXCEPT ![f] = read], !.status = st]]
        <4>1. PICK st \in {"complete", "partial"} :
                result' = [result EXCEPT
                  ![s].parsed[f] = IF result[s].inv[f].text = Absent THEN Absent ELSE tree[f].text,
                  ![s].status = IF @ = "partial" THEN @ ELSE st]
          BY <1>6 DEF ParseFile
        <4> DEFINE read == IF result[s].inv[f].text = Absent THEN Absent ELSE tree[f].text
                   new  == IF result[s].status = "partial" THEN result[s].status ELSE st
        <4>2. read \in Texts \cup {Absent} /\ new \in Status
          BY <3>1 DEF Status, TypeOK, Result
        <4>3. result' = [result EXCEPT ![s] =
                [result[s] EXCEPT !.parsed = [result[s].parsed EXCEPT ![f] = read], !.status = new]]
          BY <4>1 DEF TypeOK, Result
        <4> HIDE DEF read, new
        <4>4. QED
          BY <4>2, <4>3
      <3> DEFINE parsed == [result[s].parsed EXCEPT ![f] = read]
      <3>3. parsed \in [Files -> Texts \cup {Absent}]
        BY DEF TypeOK, Result
      <3>4. [result[s] EXCEPT !.parsed = parsed, !.status = st] \in Result
        BY <3>3, ResultFields DEF TypeOK
      <3>5. [result[s] EXCEPT !.parsed = parsed, !.status = st].base = result[s].base
        BY DEF TypeOK, Result
      <3> HIDE DEF parsed
      <3>6. result' = [result EXCEPT ![s] = [result[s] EXCEPT !.parsed = parsed, !.status = st]]
        BY <3>2 DEF parsed
      <3>7. QED
        BY <3>4, <3>5, <3>6, ResultStep DEF TypeOK
    <2>2. QED
      BY <1>6, <2>1 DEF ParseFile, Goto, TypeOK, BasesAreSaved, EndsAreKnown, source, store, Places, Ended
  <1>7. ASSUME NEW s \in Scans, StepFails(s) PROVE TypeInv'
    BY <1>7, ThrowTypes DEF StepFails, TypeOK, EndsAreKnown, source
  <1>8. ASSUME NEW s \in Scans, NEW f \in Files, VerifyFile(s, f) PROVE TypeInv'
    <2>1. result' \in [Scans -> Result] /\ \A r \in Scans : result'[r].base = result[r].base
      <3>1. PICK x \in BOOLEAN : result' = [result EXCEPT ![s] = [result[s] EXCEPT !.diags = x]]
        <4>1. PICK readable \in BOOLEAN :
                result' = [result EXCEPT ![s].diags =
                  result[s].diags \/ ~(readable /\ Same(result[s].inv[f], tree[f]))]
          BY <1>8 DEF VerifyFile
        <4> DEFINE x == result[s].diags \/ ~(readable /\ Same(result[s].inv[f], tree[f]))
        <4>2. x \in BOOLEAN
          OBVIOUS
        <4>3. result' = [result EXCEPT ![s] = [result[s] EXCEPT !.diags = x]]
          BY <4>1 DEF TypeOK, Result
        <4> HIDE DEF x
        <4>4. QED
          BY <4>2, <4>3
      <3>2. [result[s] EXCEPT !.diags = x] \in Result
        BY ResultFields DEF TypeOK
      <3>3. [result[s] EXCEPT !.diags = x].base = result[s].base
        BY DEF TypeOK, Result
      <3>4. QED
        BY <3>1, <3>2, <3>3, ResultStep DEF TypeOK
    <2>2. PICK place \in {"verifying", "returned", "saving"} : pc' = [pc EXCEPT ![s] = place]
      BY <1>8 DEF VerifyFile, Goto
    <2>3. pc' \in [Scans -> Places] /\ EndsAreKnown'
      BY <1>8, <2>2 DEF VerifyFile, TypeOK, EndsAreKnown, Places
    <2>4. QED
      BY <1>8, <2>1, <2>3 DEF VerifyFile, TypeOK, BasesAreSaved, EndsAreKnown, source, store
  <1>9. ASSUME NEW s \in Scans, BeginImmediate(s) PROVE TypeInv'
    BY <1>9 DEF BeginImmediate, Goto, TypeOK, BasesAreSaved, EndsAreKnown, source, Places
  <1>10. ASSUME NEW s \in Scans, Insert(s) PROVE TypeInv'
    <2>1. CASE Throw(s, "error")
      BY <1>10, <2>1, ThrowTypes DEF Insert, TypeOK, EndsAreKnown, source
    <2>2. CASE ~Throw(s, "error")
      BY <1>10, <2>2 DEF Insert, Goto, TypeOK, BasesAreSaved, EndsAreKnown, source, store, Places
    <2>3. QED BY <2>1, <2>2
  <1>11. ASSUME NEW s \in Scans, Fence(s) PROVE TypeInv'
    BY <1>11 DEF Fence, Goto, TypeOK, BasesAreSaved, EndsAreKnown, source, store, Places, ControlStates
  <1>12. ASSUME NEW s \in Scans, AwaitReaders(s) PROVE TypeInv'
    BY <1>12 DEF AwaitReaders, TypeOK, BasesAreSaved, EndsAreKnown, source, thread
  <1>13. ASSUME NEW s \in Scans, Commit(s) PROVE TypeInv'
    <2>1. NewSnapshot(s) \in Snapshot
      BY DEF NewSnapshot, Snapshot, TypeOK, Result
    <2>2. /\ history' \in Seq(Snapshot) /\ Len(history) \in Nat
          /\ Len(history') = Len(history) + 1
      BY <1>13, <2>1, HistoryAppend DEF Commit, TypeOK
    <2>3. result' \in [Scans -> Result] /\ \A r \in Scans : result'[r].base = result[r].base
      <3> DEFINE id == Len(history) + 1
      <3>1. id \in Nat
        BY <2>2
      <3>2. result' = [result EXCEPT ![s] = [result[s] EXCEPT !.id = id]]
        BY <1>13 DEF Commit
      <3> HIDE DEF id
      <3>3. [result[s] EXCEPT !.id = id] \in Result
        BY <3>1, ResultFields DEF TypeOK
      <3>4. [result[s] EXCEPT !.id = id].base = result[s].base
        BY DEF TypeOK, Result
      <3>5. QED
        BY <3>3, <3>4, <3>2, ResultStep DEF TypeOK
    <2>4. BasesAreSaved'
      BY <2>2, <2>3 DEF BasesAreSaved
    <2>5. QED
      BY <1>13, <2>2, <2>3, <2>4 DEF Commit, Goto, TypeOK, EndsAreKnown, source, Places
  <1>14. ASSUME NEW s \in Scans, CommitFails(s) PROVE TypeInv'
    BY <1>14, ThrowTypes DEF CommitFails, TypeOK, EndsAreKnown, source
  <1>15. ASSUME NEW s \in Scans, BusyTimeout(s) PROVE TypeInv'
    BY <1>15, ThrowTypes DEF BusyTimeout, TypeOK, EndsAreKnown, source
  <1>16. ASSUME NEW s \in Scans, Abandon(s) PROVE TypeInv'
    BY <1>16, ThrowTypes DEF Abandon, TypeOK, EndsAreKnown, source
  <1>17. ASSUME NEW s \in Scans, Unwind(s) PROVE TypeInv'
    BY <1>17 DEF Unwind, Goto, TypeOK, BasesAreSaved, EndsAreKnown, source, store, Places
  <1>18. ASSUME NEW s \in Scans, Catch(s) PROVE TypeInv'
    BY <1>18 DEF Catch, Goto, TypeOK, BasesAreSaved, EndsAreKnown, source, store, Places, Outcomes
  <1>19. ASSUME NEW s \in Scans, Return(s) PROVE TypeInv'
    BY <1>19 DEF Return, Goto, TypeOK, BasesAreSaved, EndsAreKnown, source, store, Places, Outcomes
  <1>20. ASSUME NEW s \in Scans, Seal(s) PROVE TypeInv'
    BY <1>20 DEF Seal, SealedOutcome, Goto, TypeOK, BasesAreSaved, EndsAreKnown, source, store, Places, Ended,
       Outcomes, ControlStates
  <1>21. ASSUME NEW s \in Scans, Gui(s) PROVE TypeInv'
    <2> USE DEF TypeOK, BasesAreSaved, EndsAreKnown, source, store, thread
    <2>1. CASE Start(s) BY <2>1 DEF Start, Goto, Places, Busy
    <2>2. CASE Cancel(s) BY <2>2 DEF Cancel, Busy, ControlStates
    <2>3. CASE Poll(s)
      <3>1. ui' \in [Scans -> Busy \cup Outcomes \cup {"idle", "destroyed", "crashed"}]
        <4>1. CASE ui' = [ui EXCEPT ![s] = "committing"] BY <4>1 DEF Busy
        <4>2. CASE ui' = [ui EXCEPT ![s] = outcome[s]]
          BY <2>3, <4>2 DEF Poll
        <4>3. QED BY <2>3, <4>1, <4>2 DEF Poll
      <3>2. QED BY <2>3, <3>1 DEF Poll
    <2>4. CASE Destroy(s) BY <2>4 DEF Destroy, ControlStates
    <2>5. QED BY <1>21, <2>1, <2>2, <2>3, <2>4 DEF Gui
  <1>22. ASSUME NEW s \in Scans, Crash(s) PROVE TypeInv'
    BY <1>22 DEF Crash, Releases, Goto, TypeOK, BasesAreSaved, EndsAreKnown, source, Places, Ended
  <1>23. ASSUME NEW f \in Files, Edit(f) PROVE TypeInv'
    <2>1. tree' \in Inventory /\ edits' \in 0..MaxEdits /\ everAbsent' \subseteq Files
      BY <1>23, ScanSessionAssumption DEF Edit, TypeOK, Inventory, FileState
    <2>2. QED
      BY <1>23, <2>1 DEF Edit, TypeOK, BasesAreSaved, EndsAreKnown, store, thread
  <1>24. ASSUME NEW b \in Browsers, Browse(b) PROVE TypeInv'
    BY <1>24 DEF Browse, TypeOK, BasesAreSaved, EndsAreKnown, source, thread
  <1>25. CASE UNCHANGED vars
    BY <1>25 DEF vars, TypeOK, BasesAreSaved, EndsAreKnown, source, store, thread
  <1>26. QED
    BY <1>1, <1>2, <1>3, <1>4, <1>5, <1>6, <1>7, <1>8, <1>9, <1>10, <1>11, <1>12, <1>13, <1>14,
       <1>15, <1>16, <1>17, <1>18, <1>19, <1>20, <1>21, <1>22, <1>23, <1>24, <1>25
       DEF Next, Worker, Import

\* Type correctness of every step, whatever the inputs.
THEOREM ScanTypes == Spec => []TypeInv
  BY InitTypes, NextTypes, PTL DEF Spec

-----------------------------------------------------------------------------
(* The commit fence *)

\* A scan is in COMMIT only past the fence, and a snapshot is there only if the
\* fence was passed; an accepted cancellation shows in the control word.
FenceInv ==
  \A s \in Scans :
    /\ accepted[s] => control[s] \in {"cancel_requested", "finished"}
    /\ pc[s] = "committing" => control[s] = "committing"
    /\ Saved(s) => ~accepted[s] /\ control[s] \in {"committing", "finished"}

\* After COMMIT the scan has a snapshot, and the others have what they had.
LEMMA CommitSaves ==
  ASSUME TypeOK, NEW s \in Scans, Commit(s)
  PROVE  \A r \in Scans : Saved(r)' <=> Saved(r) \/ r = s
  <1>1. NewSnapshot(s) \in Snapshot
    BY DEF NewSnapshot, Snapshot, TypeOK, Result
  <1>2. /\ \A i \in DOMAIN history : i \in DOMAIN history' /\ history'[i] = history[i]
        /\ \A i \in DOMAIN history' : i \in DOMAIN history \/ i = Len(history) + 1
        /\ Len(history) + 1 \in DOMAIN history'
        /\ history'[Len(history) + 1] = NewSnapshot(s)
    BY <1>1, HistoryAppend DEF Commit, TypeOK
  <1>3. NewSnapshot(s).by = s
    BY DEF NewSnapshot
  <1>4. QED
    BY <1>2, <1>3 DEF Saved

\* Only Commit changes the history.
LEMMA HistoryKept ==
  ASSUME [Next]_vars, \A s \in Scans : ~Commit(s)
  PROVE  UNCHANGED history
  <1>1. ASSUME NEW s \in Scans, Import(s) PROVE UNCHANGED history
    BY <1>1 DEF Import, Prepare, ScanFile, OpenHistory, LoadPrevious, Compare, ParseFile,
       StepFails, VerifyFile, BeginImmediate, Insert, Fence, AwaitReaders, CommitFails,
       Throw, store
  <1>2. ASSUME NEW s \in Scans, Worker(s) PROVE UNCHANGED history
    BY <1>1, <1>2 DEF Worker, BusyTimeout, Abandon, Unwind, Catch, Return, Seal, Throw, store
  <1>3. ASSUME NEW s \in Scans, Gui(s) \/ Crash(s) PROVE UNCHANGED history
    BY <1>3 DEF Gui, Start, Cancel, Poll, Destroy, Crash, store
  <1>4. ASSUME NEW f \in Files, Edit(f) PROVE UNCHANGED history
    BY <1>4 DEF Edit, store
  <1>5. ASSUME NEW b \in Browsers, Browse(b) PROVE UNCHANGED history
    BY <1>5 DEF Browse
  <1>6. CASE UNCHANGED vars
    BY <1>6 DEF vars, store
  <1>7. QED
    BY <1>2, <1>3, <1>4, <1>5, <1>6 DEF Next

\* The steps that neither touch a control word nor take a scan into COMMIT.
LEMMA ControlKept ==
  ASSUME TypeOK, [Next]_vars,
         \A s \in Scans : ~Fence(s) /\ ~Commit(s) /\ ~Seal(s) /\ ~Cancel(s) /\ ~Destroy(s)
  PROVE  /\ UNCHANGED <<control, accepted>>
         /\ \A s \in Scans : pc'[s] = "committing" => pc[s] = "committing"
  <1> USE DEF TypeOK, Goto, Throw
  <1>1. ASSUME NEW s \in Scans, Prepare(s) \/ \E f \in Files : ScanFile(s, f)
        PROVE  /\ UNCHANGED <<control, accepted>>
               /\ \A r \in Scans : pc'[r] = "committing" => pc[r] = "committing"
    BY <1>1 DEF Prepare, ScanFile
  <1>2. ASSUME NEW s \in Scans, OpenHistory(s) \/ LoadPrevious(s) \/ Compare(s)
        PROVE  /\ UNCHANGED <<control, accepted>>
               /\ \A r \in Scans : pc'[r] = "committing" => pc[r] = "committing"
    BY <1>2 DEF OpenHistory, LoadPrevious, Compare
  <1>3. ASSUME NEW s \in Scans, StepFails(s) \/ \E f \in Files : ParseFile(s, f) \/ VerifyFile(s, f)
        PROVE  /\ UNCHANGED <<control, accepted>>
               /\ \A r \in Scans : pc'[r] = "committing" => pc[r] = "committing"
    <2>1. CASE StepFails(s) BY <2>1 DEF StepFails
    <2>2. ASSUME NEW f \in Files, ParseFile(s, f) PROVE UNCHANGED <<control, accepted>>
               /\ \A r \in Scans : pc'[r] = "committing" => pc[r] = "committing"
      BY <2>2 DEF ParseFile
    <2>3. ASSUME NEW f \in Files, VerifyFile(s, f) PROVE UNCHANGED <<control, accepted>>
               /\ \A r \in Scans : pc'[r] = "committing" => pc[r] = "committing"
      BY <2>3 DEF VerifyFile
    <2>4. QED BY <1>3, <2>1, <2>2, <2>3
  <1>4. ASSUME NEW s \in Scans, BeginImmediate(s) \/ Insert(s) \/ AwaitReaders(s) \/ CommitFails(s)
        PROVE  /\ UNCHANGED <<control, accepted>>
               /\ \A r \in Scans : pc'[r] = "committing" => pc[r] = "committing"
    BY <1>4 DEF BeginImmediate, Insert, AwaitReaders, CommitFails, thread
  <1>5. ASSUME NEW s \in Scans, BusyTimeout(s) \/ Abandon(s) \/ Unwind(s) \/ Catch(s) \/ Return(s)
        PROVE  /\ UNCHANGED <<control, accepted>>
               /\ \A r \in Scans : pc'[r] = "committing" => pc[r] = "committing"
    BY <1>5 DEF BusyTimeout, Abandon, Unwind, Catch, Return
  <1>6. ASSUME NEW s \in Scans, Start(s) \/ Poll(s) \/ Crash(s)
        PROVE  /\ UNCHANGED <<control, accepted>>
               /\ \A r \in Scans : pc'[r] = "committing" => pc[r] = "committing"
    BY <1>6 DEF Start, Poll, Crash, thread
  <1>7. ASSUME NEW f \in Files, Edit(f) PROVE UNCHANGED <<control, accepted, pc>>
    BY <1>7 DEF Edit, thread
  <1>8. ASSUME NEW b \in Browsers, Browse(b) PROVE UNCHANGED <<control, accepted, pc>>
    BY <1>8 DEF Browse, thread
  <1>9. CASE UNCHANGED vars
    BY <1>9 DEF vars, thread
  <1>10. QED
    BY <1>1, <1>2, <1>3, <1>4, <1>5, <1>6, <1>7, <1>8, <1>9 DEF Next, Worker, Import, Gui

LEMMA NextFence == TypeOK /\ FenceInv /\ [Next]_vars => FenceInv'
  <1> SUFFICES ASSUME TypeOK, FenceInv, [Next]_vars PROVE FenceInv'
    OBVIOUS
  <1> USE DEF TypeOK, FenceInv, Goto
  <1>1. ASSUME NEW s \in Scans, Commit(s) PROVE FenceInv'
    <2>1. /\ pc[s] = "committing" /\ pc' = [pc EXCEPT ![s] = "returned"]
          /\ UNCHANGED <<control, accepted>>
      BY <1>1 DEF Commit
    <2>2. \A r \in Scans : Saved(r)' <=> Saved(r) \/ r = s
      BY <1>1, CommitSaves
    <2>3. QED
      BY <2>1, <2>2
  <1>2. ASSUME \A s \in Scans : ~Commit(s) PROVE FenceInv'
    <2>1. \A s \in Scans : Saved(s)' <=> Saved(s)
      BY <1>2, HistoryKept DEF Saved
    <2>2. ASSUME NEW s \in Scans, Fence(s) PROVE FenceInv'
      BY <2>1, <2>2 DEF Fence, MayCommit
    <2>3. ASSUME NEW s \in Scans, Seal(s) PROVE FenceInv'
      BY <2>1, <2>3 DEF Seal
    <2>4. ASSUME NEW s \in Scans, Cancel(s) \/ Destroy(s) PROVE FenceInv'
      BY <2>1, <2>4 DEF Cancel, Destroy, Cancellable, thread
    <2>5. QED
      BY <1>2, <2>1, <2>2, <2>3, <2>4, ControlKept
  <1>3. QED
    BY <1>1, <1>2

\* scan_control.hpp line 13, "the commit fence linearizes cancel versus
\* COMMIT": a cancellation that was accepted leaves no snapshot, at whatever
\* moment it arrives and whatever the other scans and readers do.
THEOREM CancelIsFinal == Spec => []CancelledLeavesNoSnapshot
  <1>1. Init => FenceInv
    BY DEF Init, FenceInv, Saved
  <1>2. TypeInv => TypeOK
    BY DEF TypeInv
  <1>3. FenceInv => CancelledLeavesNoSnapshot
    BY DEF FenceInv, CancelledLeavesNoSnapshot
  <1>4. QED
    BY <1>1, <1>2, <1>3, NextFence, ScanTypes, PTL DEF Spec

-----------------------------------------------------------------------------
(* What the parser saw *)

Publishing == {"saving", "inserting", "fencing", "committing"}

\* The record of a file is not younger than the file, and a record as old as
\* the file has the file's text.
RecordsAgree ==
  /\ \A f \in Files : tree[f].mtime <= edits
  /\ \A s \in Scans, f \in Files :
       LET record == result[s].inv[f]
       IN  /\ record.mtime <= tree[f].mtime
           /\ record.text # Absent /\ record.mtime = tree[f].mtime => record.text = tree[f].text

\* The parser saw the text of record, unless the file was edited since.
SawUnlessEdited(s, f) ==
  LET record == result[s].inv[f]
  IN  \/ result[s].parsed[f] = record.text
      \/ record.text # Absent /\ record.mtime # tree[f].mtime

ParsedAgrees ==
  \A s \in Analyzing, f \in Files :
    /\ pc[s] = "analyzing" /\ f \notin todo[s] => SawUnlessEdited(s, f)
    /\ pc[s] = "verifying" => SawUnlessEdited(s, f)
    /\ pc[s] = "verifying" /\ f \notin todo[s] /\ ~result[s].diags
         => result[s].parsed[f] = result[s].inv[f].text
    /\ pc[s] \in Publishing => result[s].parsed[f] = result[s].inv[f].text

AnalysisInv == RecordsAgree /\ ParsedAgrees /\ AnalysisDescribesInventory

\* What an exception leaves of a scan.
Thrown(r) == result'[r] = NoResult /\ pc'[r] = "unwinding"

\* Steps that concern neither the tree nor what a scan recorded of it, unless they
\* throw it away.
Unrelated ==
  /\ UNCHANGED <<tree, edits, history>>
  /\ \A r \in Scans : Thrown(r) \/
       /\ result'[r].inv = result[r].inv /\ result'[r].parsed = result[r].parsed
       /\ result'[r].diags = result[r].diags
       /\ pc'[r] \in Publishing => pc[r] \in Publishing
       /\ pc'[r] \in {"analyzing", "verifying"} => pc'[r] = pc[r] /\ todo'[r] = todo[r]

LEMMA UnrelatedKeeps == TypeOK /\ AnalysisInv /\ Unrelated => AnalysisInv'
  <1> SUFFICES ASSUME TypeOK, AnalysisInv, Unrelated PROVE AnalysisInv'
    OBVIOUS
  <1>1. RecordsAgree'
    <2>1. ASSUME NEW s \in Scans, NEW f \in Files, Thrown(s)
          PROVE  result'[s].inv[f].mtime <= tree[f].mtime /\ result'[s].inv[f].text = Absent
      <3>1. result'[s].inv[f] = [text |-> Absent, mtime |-> 0]
        BY <2>1 DEF Thrown, NoResult, NoFiles
      <3>2. tree[f].mtime \in Nat  BY DEF TypeOK, Inventory, FileState
      <3>3. QED BY <3>1, <3>2
    <2>2. QED
      BY <2>1 DEF AnalysisInv, RecordsAgree, Unrelated
  <1>2. \A s \in Scans, f \in Files :
          Thrown(s) \/ (SawUnlessEdited(s, f)' <=> SawUnlessEdited(s, f))
    BY DEF SawUnlessEdited, Unrelated
  <1>3. ParsedAgrees'
    BY <1>2, ScanSessionAssumption DEF AnalysisInv, ParsedAgrees, Unrelated, Thrown, Publishing
  <1>4. AnalysisDescribesInventory'
    BY DEF AnalysisInv, AnalysisDescribesInventory, Unrelated
  <1>5. QED
    BY <1>1, <1>3, <1>4 DEF AnalysisInv

LEMMA NextUnrelated ==
  ASSUME TypeOK, [Next]_vars,
         \A s \in Scans : ~Compare(s) /\ ~Commit(s),
         \A s \in Scans, f \in Files : ~ScanFile(s, f) /\ ~ParseFile(s, f) /\ ~VerifyFile(s, f),
         \A f \in Files : ~Edit(f)
  PROVE  Unrelated
  <1> USE DEF TypeOK, Goto, Throw, Thrown, Unrelated, Publishing, source, store, thread
  <1>1. ASSUME NEW s \in Scans, Prepare(s) \/ OpenHistory(s) \/ StepFails(s) PROVE Unrelated
    BY <1>1 DEF Prepare, OpenHistory, StepFails
  <1>2. ASSUME NEW s \in Scans, LoadPrevious(s) PROVE Unrelated
    BY <1>2 DEF LoadPrevious, Result
  <1>3. ASSUME NEW s \in Scans, BeginImmediate(s) PROVE Unrelated
    BY <1>3 DEF BeginImmediate, Proceeds
  <1>4. ASSUME NEW s \in Scans, Insert(s) PROVE Unrelated
    BY <1>4 DEF Insert, Proceeds
  <1>5. ASSUME NEW s \in Scans, Fence(s) \/ AwaitReaders(s) \/ CommitFails(s) PROVE Unrelated
    BY <1>5 DEF Fence, AwaitReaders, CommitFails
  <1>6. ASSUME NEW s \in Scans, BusyTimeout(s) \/ Abandon(s) \/ Unwind(s) PROVE Unrelated
    BY <1>6 DEF BusyTimeout, Abandon, Unwind
  <1>7. ASSUME NEW s \in Scans, Catch(s) \/ Return(s) \/ Seal(s) PROVE Unrelated
    BY <1>7 DEF Catch, Return, Seal
  <1>8. ASSUME NEW s \in Scans, Gui(s) PROVE Unrelated
    BY <1>8 DEF Gui, Start, Cancel, Poll, Destroy
  <1>9. ASSUME NEW s \in Scans, Crash(s) PROVE Unrelated
    BY <1>9 DEF Crash
  <1>10. ASSUME NEW b \in Browsers, Browse(b) PROVE Unrelated
    BY <1>10 DEF Browse
  <1>11. CASE UNCHANGED vars
    BY <1>11 DEF vars
  <1>12. QED
    BY <1>1, <1>2, <1>3, <1>4, <1>5, <1>6, <1>7, <1>8, <1>9, <1>10, <1>11 DEF Next, Worker, Import

LEMMA NextAnalysis == TypeOK /\ AnalysisInv /\ [Next]_vars => AnalysisInv'
  <1> SUFFICES ASSUME TypeOK, AnalysisInv, [Next]_vars PROVE AnalysisInv'
    OBVIOUS
  <1>1. \A s \in Scans : result[s] \in Result
    BY DEF TypeOK
  <1>2. ASSUME NEW s \in Scans, NEW f \in Files, ScanFile(s, f) PROVE AnalysisInv'
    <2>1. /\ UNCHANGED <<tree, edits, history>>
          /\ pc' = [pc EXCEPT ![s] = IF todo[s] = {f} THEN "opening" ELSE "scanning"]
          /\ todo' = [todo EXCEPT ![s] = @ \ {f}]
      BY <1>2 DEF ScanFile, Goto, source, store
    <2>2. \A r \in Scans, g \in Files : \/ result'[r].inv[g] = result[r].inv[g]
                                       \/ result'[r].inv[g] = tree[g]
      <3>1. \/ UNCHANGED result
            \/ result' = [result EXCEPT ![s] = [result[s] EXCEPT !.inv = [result[s].inv EXCEPT ![f] = tree[f]]]]
            \/ result' = [result EXCEPT ![s] = [result[s] EXCEPT !.diags = TRUE]]
        BY <1>2 DEF ScanFile
      <3>2. /\ \A x : [result[s] EXCEPT !.inv = x].inv = x
            /\ [result[s] EXCEPT !.diags = TRUE].inv = result[s].inv
            /\ result[s].inv \in Inventory
        BY <1>1 DEF Result
      <3>3. \A r \in Scans : r # s => result'[r] = result[r]
        BY <3>1 DEF TypeOK
      <3>4. \/ result'[s].inv = result[s].inv
            \/ result'[s].inv = [result[s].inv EXCEPT ![f] = tree[f]]
        BY <3>1, <3>2 DEF TypeOK
      <3>5. QED
        BY <3>2, <3>3, <3>4 DEF Inventory
    <2>3. \A r \in Scans : r # s => result'[r] = result[r]
      BY <1>2 DEF ScanFile, TypeOK
    <2>4. RecordsAgree'
      <3>1. \A g \in Files : tree[g].mtime <= tree[g].mtime
        BY ScanSessionAssumption DEF TypeOK, Inventory, FileState
      <3>2. QED
        BY <2>1, <2>2, <3>1 DEF AnalysisInv, RecordsAgree
    <2>5. \A r \in Scans, g \in Files : r # s => (SawUnlessEdited(r, g)' <=> SawUnlessEdited(r, g))
      BY <2>1, <2>3 DEF SawUnlessEdited
    <2>6. \A r \in Scans : /\ r # s => pc'[r] = pc[r] /\ todo'[r] = todo[r] /\ result'[r] = result[r]
                           /\ r = s => pc'[r] \in {"opening", "scanning"}
      BY <2>1, <2>3 DEF TypeOK
    <2>7. ParsedAgrees'
      BY <2>5, <2>6, ScanSessionAssumption DEF AnalysisInv, ParsedAgrees, Publishing
    <2>8. QED
      BY <2>1, <2>4, <2>7 DEF AnalysisInv, AnalysisDescribesInventory
  <1>3. ASSUME NEW s \in Scans, Compare(s) PROVE AnalysisInv'
    <2>1. /\ UNCHANGED <<tree, edits, history>>
          /\ \A r \in Scans : /\ result'[r].inv = result[r].inv
                              /\ result'[r].parsed = result[r].parsed
                              /\ result'[r].diags = result[r].diags
                              /\ r # s => pc'[r] = pc[r] /\ todo'[r] = todo[r]
          /\ pc'[s] \in {"returned", "analyzing", "saving"}
          /\ pc'[s] = "analyzing" => todo'[s] = Files
          /\ pc'[s] = "saving" => s \notin Analyzing
      BY <1>1, <1>3 DEF Compare, Goto, source, store, TypeOK, Result
    <2>2. \A r \in Scans, g \in Files : SawUnlessEdited(r, g)' <=> SawUnlessEdited(r, g)
      BY <2>1 DEF SawUnlessEdited
    <2>3. ParsedAgrees'
      BY <2>1, <2>2, ScanSessionAssumption DEF AnalysisInv, ParsedAgrees, Publishing
    <2>4. QED
      BY <2>1, <2>3 DEF AnalysisInv, RecordsAgree, AnalysisDescribesInventory
  <1>4. ASSUME NEW s \in Scans, NEW f \in Files, ParseFile(s, f) PROVE AnalysisInv'
    <2>1. /\ UNCHANGED <<tree, edits, history>>
          /\ pc[s] = "analyzing" /\ f \in todo[s]
          /\ IF todo[s] = {f}
             THEN pc' = [pc EXCEPT ![s] = "verifying"] /\ todo' = [todo EXCEPT ![s] = Files]
             ELSE UNCHANGED pc /\ todo' = [todo EXCEPT ![s] = @ \ {f}]
      BY <1>4 DEF ParseFile, Goto, Proceeds, source, store
    <2>2. /\ \A r \in Scans : result'[r].inv = result[r].inv
          /\ \A r \in Scans : r # s => result'[r] = result[r]
          /\ \A g \in Files : g # f => result'[s].parsed[g] = result[s].parsed[g]
          /\ result'[s].parsed[f] =
               IF result[s].inv[f].text = Absent THEN Absent ELSE tree[f].text
      BY <1>1, <1>4 DEF ParseFile, TypeOK, Result
    <2>3. SawUnlessEdited(s, f)'
      BY <2>1, <2>2 DEF SawUnlessEdited, AnalysisInv, RecordsAgree
    <2>4. \A r \in Scans, g \in Files : r # s \/ g # f => (SawUnlessEdited(r, g)' <=> SawUnlessEdited(r, g))
      BY <2>1, <2>2 DEF SawUnlessEdited
    <2>5. \A r \in Scans : r # s => pc'[r] = pc[r] /\ todo'[r] = todo[r]
      BY <2>1 DEF TypeOK
    <2>6. \A g \in Files : s \in Analyzing /\ (pc'[s] = "verifying" \/ g \notin todo'[s])
                             => SawUnlessEdited(s, g)'
      <3> SUFFICES ASSUME NEW g \in Files, g # f, pc'[s] = "verifying" \/ g \notin todo'[s]
                   PROVE  s \in Analyzing => SawUnlessEdited(s, g)
        BY <2>3, <2>4
      <3>1. g \notin todo[s]
        BY <2>1 DEF TypeOK
      <3>2. QED
        BY <2>1, <3>1 DEF AnalysisInv, ParsedAgrees
    <2>7. pc'[s] \in {"analyzing", "verifying"} /\ (pc'[s] = "verifying" => todo'[s] = Files)
      BY <2>1 DEF TypeOK
    <2>8. ParsedAgrees'
      BY <2>2, <2>4, <2>5, <2>6, <2>7, ScanSessionAssumption DEF AnalysisInv, ParsedAgrees, Publishing
    <2>9. QED
      BY <2>1, <2>2, <2>8 DEF AnalysisInv, RecordsAgree, AnalysisDescribesInventory
  <1>5. ASSUME NEW s \in Scans, NEW f \in Files, VerifyFile(s, f) PROVE AnalysisInv'
    <2>1. PICK readable \in BOOLEAN, place \in {"verifying", "returned", "saving"} :
            LET diags == result[s].diags \/ ~(readable /\ Same(result[s].inv[f], tree[f]))
            IN  /\ result' = [result EXCEPT ![s].diags = diags]
                /\ pc' = [pc EXCEPT ![s] = place]
                /\ place = "verifying" => todo[s] # {f}
                /\ place = "saving" => todo[s] = {f} /\ ~diags
      BY <1>5 DEF VerifyFile, Goto
    <2>2. /\ UNCHANGED <<tree, edits, history>> /\ pc[s] = "verifying" /\ f \in todo[s]
          /\ todo' = [todo EXCEPT ![s] = @ \ {f}]
      BY <1>5 DEF VerifyFile, Proceeds, source, store
    <2>3. /\ \A r \in Scans : result'[r].inv = result[r].inv /\ result'[r].parsed = result[r].parsed
          /\ \A r \in Scans : r # s => result'[r] = result[r] /\ pc'[r] = pc[r] /\ todo'[r] = todo[r]
          /\ ~result'[s].diags => ~result[s].diags /\ Same(result[s].inv[f], tree[f])
          /\ pc'[s] = place /\ todo'[s] = todo[s] \ {f}
          /\ place = "saving" => todo[s] = {f} /\ ~result'[s].diags
      BY <1>1, <2>1, <2>2 DEF TypeOK, Result
    <2>4. \A r \in Scans, g \in Files : SawUnlessEdited(r, g)' <=> SawUnlessEdited(r, g)
      BY <2>2, <2>3 DEF SawUnlessEdited
    <2>5. s \in Analyzing /\ ~result'[s].diags => result[s].parsed[f] = result[s].inv[f].text
      BY <2>2, <2>3 DEF AnalysisInv, ParsedAgrees, SawUnlessEdited, Same
    <2>6. \A g \in Files : s \in Analyzing /\ g \notin todo'[s] /\ ~result'[s].diags
                             => result'[s].parsed[g] = result'[s].inv[g].text
      BY <2>2, <2>3, <2>5 DEF AnalysisInv, ParsedAgrees
    <2>7. ParsedAgrees'
      <3> SUFFICES ASSUME NEW r \in Analyzing, NEW g \in Files
                   PROVE  /\ pc'[r] = "analyzing" /\ g \notin todo'[r] => SawUnlessEdited(r, g)'
                          /\ pc'[r] = "verifying" => SawUnlessEdited(r, g)'
                          /\ pc'[r] = "verifying" /\ g \notin todo'[r] /\ ~result'[r].diags
                               => result'[r].parsed[g] = result'[r].inv[g].text
                          /\ pc'[r] \in Publishing => result'[r].parsed[g] = result'[r].inv[g].text
        BY DEF ParsedAgrees
      <3>1. r \in Scans
        BY ScanSessionAssumption
      <3>2. CASE r # s
        BY <2>3, <2>4, <3>1, <3>2 DEF AnalysisInv, ParsedAgrees
      <3>3. CASE r = s
        BY <2>1, <2>2, <2>3, <2>4, <2>6, <3>3 DEF AnalysisInv, ParsedAgrees, Publishing
      <3>4. QED
        BY <3>2, <3>3
    <2>8. QED
      BY <2>2, <2>3, <2>7 DEF AnalysisInv, RecordsAgree, AnalysisDescribesInventory
  <1>6. ASSUME NEW s \in Scans, Commit(s) PROVE AnalysisInv'
    <2>1. /\ UNCHANGED <<tree, edits, todo>> /\ pc[s] = "committing"
          /\ pc' = [pc EXCEPT ![s] = "returned"]
          /\ history' = Append(history, NewSnapshot(s))
      BY <1>6 DEF Commit, Goto, source
    <2>2. \A r \in Scans : /\ result'[r].inv = result[r].inv /\ result'[r].parsed = result[r].parsed
                           /\ result'[r].diags = result[r].diags
                           /\ r # s => pc'[r] = pc[r]
      BY <1>1, <1>6 DEF Commit, Goto, TypeOK, Result
    <2>3. \A r \in Scans, g \in Files : SawUnlessEdited(r, g)' <=> SawUnlessEdited(r, g)
      BY <2>1, <2>2 DEF SawUnlessEdited
    <2>4. ParsedAgrees'
      BY <2>1, <2>2, <2>3, ScanSessionAssumption DEF AnalysisInv, ParsedAgrees, TypeOK, Publishing
    <2>5. RecordsAgree'
      BY <2>1, <2>2 DEF AnalysisInv, RecordsAgree
    <2>6. NewSnapshot(s) \in Snapshot
      BY DEF NewSnapshot, Snapshot, TypeOK, Result
    <2>7. \A i \in DOMAIN history' : \/ i \in DOMAIN history /\ history'[i] = history[i]
                                     \/ history'[i] = NewSnapshot(s)
      BY <2>1, <2>6, HistoryAppend DEF TypeOK
    <2>8. NewSnapshot(s).analysed => \A f \in Files : NewSnapshot(s).parsed[f] = NewSnapshot(s).inv[f].text
      BY <2>1 DEF NewSnapshot, AnalysisInv, ParsedAgrees, Publishing
    <2>9. AnalysisDescribesInventory'
      BY <2>7, <2>8 DEF AnalysisInv, AnalysisDescribesInventory
    <2>10. QED
      BY <2>4, <2>5, <2>9 DEF AnalysisInv
  <1>7. ASSUME NEW f \in Files, Edit(f) PROVE AnalysisInv'
    <2>1. /\ UNCHANGED <<history, pc, todo, result>> /\ edits' = edits + 1
          /\ \A g \in Files : g # f => tree'[g] = tree[g]
          /\ tree'[f].mtime = edits + 1
      BY <1>7 DEF Edit, store, thread, TypeOK, Inventory
    <2>2. edits \in Nat /\ \A g \in Files : tree[g].mtime \in Nat
      BY ScanSessionAssumption DEF TypeOK, Inventory, FileState
    <2>3. \A s \in Scans, g \in Files : result[s].inv[g].mtime \in Nat
      BY <1>1, ScanSessionAssumption DEF Result, Inventory, FileState
    <2>4. RecordsAgree'
      BY <2>1, <2>2, <2>3 DEF AnalysisInv, RecordsAgree
    <2>5. \A s \in Scans, g \in Files : SawUnlessEdited(s, g) => SawUnlessEdited(s, g)'
      BY <2>1, <2>2, <2>3 DEF AnalysisInv, RecordsAgree, SawUnlessEdited
    <2>6. ParsedAgrees'
      BY <2>1, <2>5, ScanSessionAssumption DEF AnalysisInv, ParsedAgrees
    <2>7. QED
      BY <2>1, <2>4, <2>6 DEF AnalysisInv, AnalysisDescribesInventory
  <1>8. QED
    BY <1>2, <1>3, <1>4, <1>5, <1>6, <1>7, NextUnrelated, UnrelatedKeeps

\* A snapshot with an analysis describes the very texts the parser saw: the
\* second pass over the tree (application.cpp) catches every edit, because an
\* edit leaves a modification time no record has.
THEOREM AnalysisIsOfTheInventory == Spec => []AnalysisDescribesInventory
  <1>1. Init => AnalysisInv
    <2> SUFFICES ASSUME Init PROVE AnalysisInv
      OBVIOUS
    <2>1. \A f \in Files : tree[f].mtime = 0
      BY DEF Init
    <2>2. \A s \in Scans, f \in Files : result[s].inv[f] = [text |-> Absent, mtime |-> 0]
      BY DEF Init, NoResult, NoFiles
    <2>3. RecordsAgree
      BY <2>1, <2>2 DEF Init, RecordsAgree
    <2>4. QED
      BY <2>3, ScanSessionAssumption DEF Init, AnalysisInv, ParsedAgrees, Publishing,
         AnalysisDescribesInventory
  <1>2. TypeInv => TypeOK
    BY DEF TypeInv
  <1>3. AnalysisInv => AnalysisDescribesInventory
    BY DEF AnalysisInv
  <1>4. QED
    BY <1>1, <1>2, <1>3, NextAnalysis, ScanTypes, PTL DEF Spec

-----------------------------------------------------------------------------
(* Locks *)

Writing == {"inserting", "fencing", "committing"}

\* The converse of NoLockOutlivesItsScan: who is past BEGIN IMMEDIATE has the
\* write lock.
LocksInv ==
  /\ NoLockOutlivesItsScan
  /\ \A s \in Scans : pc[s] \in Writing => writer = s

LEMMA NextLocks == TypeOK /\ LocksInv /\ [Next]_vars => LocksInv'
  <1> SUFFICES ASSUME TypeOK, LocksInv, [Next]_vars PROVE LocksInv'
    OBVIOUS
  <1> USE ScanSessionAssumption
      DEF TypeOK, LocksInv, NoLockOutlivesItsScan, Writing, Goto, Proceeds, store, thread
  <1>1. ASSUME NEW s \in Scans, NEW e \in {"cancelled", "error"}, Throw(s, e) PROVE LocksInv'
    BY <1>1 DEF Throw, Releases
  <1>2. ASSUME NEW s \in Scans, Prepare(s) PROVE LocksInv'
    BY <1>1, <1>2 DEF Prepare
  <1>3. ASSUME NEW s \in Scans, NEW f \in Files, ScanFile(s, f) PROVE LocksInv'
    BY <1>3 DEF ScanFile
  <1>4. ASSUME NEW s \in Scans, OpenHistory(s) \/ LoadPrevious(s) PROVE LocksInv'
    BY <1>4 DEF OpenHistory, LoadPrevious
  <1>5. ASSUME NEW s \in Scans, Compare(s) PROVE LocksInv'
    BY <1>5 DEF Compare
  <1>6. ASSUME NEW s \in Scans, NEW f \in Files, ParseFile(s, f) PROVE LocksInv'
    BY <1>6 DEF ParseFile
  <1>7. ASSUME NEW s \in Scans, NEW f \in Files, VerifyFile(s, f) PROVE LocksInv'
    BY <1>7 DEF VerifyFile
  <1>8. ASSUME NEW s \in Scans, StepFails(s) \/ CommitFails(s) \/ BusyTimeout(s) \/ Abandon(s)
        PROVE LocksInv'
    BY <1>1, <1>8 DEF StepFails, CommitFails, BusyTimeout, Abandon
  <1>9. ASSUME NEW s \in Scans, BeginImmediate(s) PROVE LocksInv'
    BY <1>9 DEF BeginImmediate
  <1>10. ASSUME NEW s \in Scans, Insert(s) PROVE LocksInv'
    BY <1>1, <1>10 DEF Insert
  <1>11. ASSUME NEW s \in Scans, Fence(s) \/ AwaitReaders(s) \/ Commit(s) PROVE LocksInv'
    <2>1. CASE Fence(s) BY <2>1 DEF Fence
    <2>2. CASE AwaitReaders(s) BY <2>2 DEF AwaitReaders
    <2>3. CASE Commit(s)
      <3>1. /\ readers' = {} /\ writer' = NoScan /\ pending' = FALSE /\ writer = s
            /\ pc' = [pc EXCEPT ![s] = "returned"]
        BY <2>3 DEF Commit
      <3>2. \A r \in Scans : pc'[r] \notin Writing
        BY <3>1
      <3>3. QED
        BY <3>1, <3>2
    <2>4. QED BY <1>11, <2>1, <2>2, <2>3
  <1>12. ASSUME NEW s \in Scans, Unwind(s) \/ Catch(s) \/ Return(s) \/ Seal(s) PROVE LocksInv'
    BY <1>12 DEF Unwind, Catch, Return, Seal
  <1>13. ASSUME NEW s \in Scans, Gui(s) PROVE LocksInv'
    BY <1>13 DEF Gui, Start, Cancel, Poll, Destroy
  <1>14. ASSUME NEW s \in Scans, Crash(s) PROVE LocksInv'
    BY <1>14 DEF Crash, Releases
  <1>15. ASSUME NEW f \in Files, Edit(f) PROVE LocksInv'
    BY <1>15 DEF Edit
  <1>16. ASSUME NEW b \in Browsers, Browse(b) PROVE LocksInv'
    BY <1>16 DEF Browse
  <1>17. CASE UNCHANGED vars
    BY <1>17 DEF vars
  <1>18. QED
    BY <1>2, <1>3, <1>4, <1>5, <1>6, <1>7, <1>8, <1>9, <1>10, <1>11, <1>12, <1>13, <1>14, <1>15,
       <1>16, <1>17 DEF Next, Worker, Import

\* Every way a scan can end gives its locks back: no later writer waits for a
\* transaction nobody will finish.
THEOREM LocksAreReturned == Spec => []NoLockOutlivesItsScan
  <1>1. Init => LocksInv
    BY ScanSessionAssumption DEF Init, LocksInv, NoLockOutlivesItsScan, Writing
  <1>2. TypeInv => TypeOK
    BY DEF TypeInv
  <1>3. LocksInv => NoLockOutlivesItsScan
    BY DEF LocksInv
  <1>4. QED
    BY <1>1, <1>2, <1>3, NextLocks, ScanTypes, PTL DEF Spec

-----------------------------------------------------------------------------
(* What the window says *)

\* The ID in the result tells whether there is a snapshot, from COMMIT to the
\* delivered outcome.
StoreInv ==
  \A s \in Scans :
    /\ Saved(s) <=> result[s].id # 0
    /\ result[s].id # 0 => pc[s] \in {"returned", "sealing", "done", "crashed"}
    /\ pc[s] \in {"sealing", "done"} =>
         (outcome[s] \in {"completed", "partial"} <=> result[s].id # 0)
    /\ ui[s] \in Outcomes => pc[s] = "done" /\ ui[s] = outcome[s]

\* Steps before the scan knows its end: there is no ID yet, and none is given.
Underway ==
  /\ UNCHANGED <<history, outcome, ui>>
  /\ \A r \in Scans :
       /\ result'[r].id = result[r].id \/ (pc'[r] # pc[r] /\ result'[r].id = 0)
       /\ pc'[r] # pc[r] => /\ pc[r] \notin {"returned", "sealing", "done", "crashed"}
                            /\ pc'[r] \notin {"sealing", "done"}

LEMMA NextUnderway ==
  ASSUME TypeOK, NEW s \in Scans, Import(s) \/ BusyTimeout(s) \/ Abandon(s), ~Commit(s)
  PROVE  Underway
  <1> USE DEF TypeOK, Goto, Proceeds, Throw, Underway, Checkpoints, source, store, thread
  <1>0. NoResult.id = 0  BY DEF NoResult
  <1> USE <1>0
  <1>1. CASE Prepare(s) BY <1>1 DEF Prepare
  <1>2. ASSUME NEW f \in Files, ScanFile(s, f) PROVE Underway
    <2>1. result'[s].id = result[s].id /\ \A r \in Scans : r # s => result'[r] = result[r]
      BY <1>2 DEF ScanFile, Result
    <2>2. QED BY <1>2, <2>1 DEF ScanFile
  <1>3. CASE OpenHistory(s) BY <1>3 DEF OpenHistory
  <1>4. CASE LoadPrevious(s)
    <2>1. result'[s].id = result[s].id /\ \A r \in Scans : r # s => result'[r] = result[r]
      BY <1>4 DEF LoadPrevious, Result
    <2>2. QED BY <1>4, <2>1 DEF LoadPrevious
  <1>5. CASE Compare(s)
    <2>1. result'[s].id = result[s].id /\ \A r \in Scans : r # s => result'[r] = result[r]
      BY <1>5 DEF Compare, Result
    <2>2. QED BY <1>5, <2>1 DEF Compare
  <1>6. ASSUME NEW f \in Files, ParseFile(s, f) PROVE Underway
    <2>1. result'[s].id = result[s].id /\ \A r \in Scans : r # s => result'[r] = result[r]
      BY <1>6 DEF ParseFile, Result
    <2>2. QED BY <1>6, <2>1 DEF ParseFile
  <1>7. CASE StepFails(s) BY <1>7 DEF StepFails
  <1>8. ASSUME NEW f \in Files, VerifyFile(s, f) PROVE Underway
    <2>1. result'[s].id = result[s].id /\ \A r \in Scans : r # s => result'[r] = result[r]
      BY <1>8 DEF VerifyFile, Result
    <2>2. PICK place \in {"verifying", "returned", "saving"} : pc' = [pc EXCEPT ![s] = place]
      BY <1>8 DEF VerifyFile
    <2>3. QED BY <1>8, <2>1, <2>2 DEF VerifyFile
  <1>9. CASE BeginImmediate(s) BY <1>9 DEF BeginImmediate
  <1>10. CASE Insert(s) BY <1>10 DEF Insert
  <1>11. CASE Fence(s) BY <1>11 DEF Fence
  <1>12. CASE AwaitReaders(s) BY <1>12 DEF AwaitReaders
  <1>13. CASE CommitFails(s) BY <1>13 DEF CommitFails
  <1>14. CASE BusyTimeout(s) BY <1>14 DEF BusyTimeout
  <1>15. CASE Abandon(s) BY <1>15 DEF Abandon
  <1>16. QED
    BY <1>1, <1>2, <1>3, <1>4, <1>5, <1>6, <1>7, <1>8, <1>9, <1>10, <1>11, <1>12, <1>13, <1>14,
       <1>15 DEF Import

LEMMA NextStore == TypeInv /\ StoreInv /\ [Next]_vars => StoreInv'
  <1> SUFFICES ASSUME TypeInv, StoreInv, [Next]_vars PROVE StoreInv'
    OBVIOUS
  <1>1. TypeOK /\ EndsAreKnown
    BY DEF TypeInv
  <1> USE DEF StoreInv, TypeOK, Goto, store, thread
  <1>2. ASSUME NEW s \in Scans, Commit(s) PROVE StoreInv'
    <2>1. \A r \in Scans : Saved(r)' <=> Saved(r) \/ r = s
      BY <1>1, <1>2, CommitSaves
    <2>2. /\ result'[s].id = Len(history) + 1
          /\ \A r \in Scans : r # s => result'[r] = result[r]
      BY <1>1, <1>2 DEF Commit, Result
    <2>3. Len(history) + 1 # 0
      BY <1>1, LenProperties
    <2>4. /\ pc[s] = "committing" /\ pc' = [pc EXCEPT ![s] = "returned"]
          /\ UNCHANGED <<outcome, ui>>
      BY <1>2 DEF Commit
    <2>5. QED
      BY <1>1, <2>1, <2>2, <2>3, <2>4
  <1>3. ASSUME \A s \in Scans : ~Commit(s) PROVE StoreInv'
    <2>1. \A s \in Scans : Saved(s)' <=> Saved(s)
      BY <1>3, HistoryKept DEF Saved
    <2>2. ASSUME NEW s \in Scans, Import(s) \/ BusyTimeout(s) \/ Abandon(s) PROVE StoreInv'
      <3>1. Underway
        BY <1>1, <1>3, <2>2, NextUnderway
      <3>2. QED
        BY <1>1, <2>1, <3>1 DEF Underway
    <2>3. ASSUME NEW s \in Scans, Unwind(s) PROVE StoreInv'
      BY <1>1, <2>1, <2>3 DEF Unwind
    <2>4. ASSUME NEW s \in Scans, Catch(s) PROVE StoreInv'
      BY <1>1, <2>1, <2>4 DEF Catch
    <2>5. ASSUME NEW s \in Scans, Return(s) PROVE StoreInv'
      BY <1>1, <2>1, <2>5 DEF Return
    <2>6. ASSUME NEW s \in Scans, Seal(s) PROVE StoreInv'
      BY <1>1, <2>1, <2>6 DEF Seal, SealedOutcome, EndsAreKnown
    <2>7. ASSUME NEW s \in Scans, Start(s) PROVE StoreInv'
      BY <1>1, <2>1, <2>7 DEF Start, Outcomes
    <2>8. ASSUME NEW s \in Scans, Cancel(s) \/ Destroy(s) PROVE StoreInv'
      BY <1>1, <2>1, <2>8 DEF Cancel, Destroy, Outcomes
    <2>9. ASSUME NEW s \in Scans, Poll(s) PROVE StoreInv'
      BY <1>1, <2>1, <2>9 DEF Poll, Outcomes
    <2>10. ASSUME NEW s \in Scans, Crash(s) PROVE StoreInv'
      BY <1>1, <2>1, <2>10 DEF Crash, Ended, Outcomes
    <2>11. ASSUME NEW f \in Files, Edit(f) PROVE StoreInv'
      BY <1>1, <2>1, <2>11 DEF Edit
    <2>12. ASSUME NEW b \in Browsers, Browse(b) PROVE StoreInv'
      BY <1>1, <2>1, <2>12 DEF Browse
    <2>13. CASE UNCHANGED vars
      BY <1>1, <2>1, <2>13 DEF vars
    <2>14. QED
      BY <2>2, <2>3, <2>4, <2>5, <2>6, <2>7, <2>8, <2>9, <2>10, <2>11, <2>12, <2>13
         DEF Next, Worker, Gui
  <1>4. QED
    BY <1>2, <1>3

\* "Nothing was saved" and "the snapshot is saved" (gui/qt/main.cpp, the slot
\* of task.finished) are true when the window says so.
THEOREM WindowTellsTheStore == Spec => []OutcomeTellsTheStore
  <1>1. Init => StoreInv
    BY DEF Init, StoreInv, Saved, NoResult, Outcomes
  <1>2. StoreInv => OutcomeTellsTheStore
    BY DEF StoreInv, OutcomeTellsTheStore, Outcomes
  <1>3. QED
    BY <1>1, <1>2, NextStore, ScanTypes, PTL DEF Spec

\* Type correctness alone.
THEOREM SessionTypes == Spec => []TypeOK
  <1>1. TypeInv => TypeOK
    BY DEF TypeInv
  <1>2. QED
    BY <1>1, ScanTypes, PTL

-----------------------------------------------------------------------------
(* The counts *)

Counted == {"analyzing", "verifying"} \cup Publishing
Scanned == {"opening", "reading", "comparing"} \cup Counted

\* The directory walk of s is past f.
Visited(s, f) == pc[s] \in Scanned \/ (pc[s] = "scanning" /\ f \notin todo[s])

\* The inventory of snapshot b of the saved snapshots h; no files for b = 0.
FilesAt(h, b) == IF b = 0 THEN NoFiles ELSE h[b].inv

\* What scan s has of the tree: files it lacks were absent, unless it has a
\* diagnostic and will not be saved; and its counts are those of its files.
CountsOf(s) ==
  /\ ~result[s].diags =>
       \A f \in Files : Visited(s, f) /\ result[s].inv[f].text = Absent => f \in everAbsent
  /\ pc[s] \in Publishing => ~result[s].diags
  /\ pc[s] \in Counted =>
       result[s].delta = Difference(FilesAt(history, result[s].base), result[s].inv)

CountsInv ==
  /\ \A f \in Files : tree[f].text = Absent => f \in everAbsent
  /\ \A s \in Scans : CountsOf(s)
  /\ CountsAreTrue

\* Every file of the old and of the new inventory is counted once.
LEMMA DifferenceAccounts ==
  ASSUME NEW old, NEW new
  PROVE  /\ Difference(old, new).added + Difference(old, new).changed
              + Difference(old, new).unchanged = Cardinality(Present(new))
         /\ Difference(old, new).removed + Difference(old, new).changed
              + Difference(old, new).unchanged = Cardinality(Present(old))
  <1> DEFINE common == Present(old) \cap Present(new)
             same   == {f \in common : Same(old[f], new[f])}
  <1>1. IsFiniteSet(Present(old)) /\ IsFiniteSet(Present(new)) /\ IsFiniteSet(common)
        /\ IsFiniteSet(same)
    <2>1. /\ Present(old) \in SUBSET Files /\ Present(new) \in SUBSET Files
          /\ common \in SUBSET Files /\ same \in SUBSET Files
      BY DEF Present
    <2>2. \A S \in SUBSET Files : IsFiniteSet(S)
      BY FS_Subset, ScanSessionAssumption
    <2>3. QED
      BY <2>1, <2>2
  <1>2. Difference(old, new) =
          [added |-> Cardinality(Present(new) \ common), changed |-> Cardinality(common \ same),
           unchanged |-> Cardinality(same), removed |-> Cardinality(Present(old) \ common)]
    BY DEF Difference
  <1>3. Present(new) \cap common = common /\ Present(old) \cap common = common
        /\ common \cap same = same
    OBVIOUS
  <1> HIDE DEF common, same
  <1>4. /\ Cardinality(Present(new) \ common) = Cardinality(Present(new)) - Cardinality(common)
        /\ Cardinality(Present(old) \ common) = Cardinality(Present(old)) - Cardinality(common)
        /\ Cardinality(common \ same) = Cardinality(common) - Cardinality(same)
    <2>1. Cardinality(Present(new) \ common) = Cardinality(Present(new)) - Cardinality(common)
      BY <1>1, <1>3, FS_Difference
    <2>2. Cardinality(Present(old) \ common) = Cardinality(Present(old)) - Cardinality(common)
      BY <1>1, <1>3, FS_Difference
    <2>3. Cardinality(common \ same) = Cardinality(common) - Cardinality(same)
      <3>1. Cardinality(common \ same) = Cardinality(common) - Cardinality(common \cap same)
        BY <1>1, FS_Difference
      <3>2. QED
        BY <1>3, <3>1, Zenon
    <2>4. QED
      BY <2>1, <2>2, <2>3
  <1>5. /\ Cardinality(Present(new)) \in Nat /\ Cardinality(Present(old)) \in Nat
        /\ Cardinality(common) \in Nat /\ Cardinality(same) \in Nat
    BY <1>1, FS_CardinalityType
  <1>6. QED
    BY <1>2, <1>4, <1>5

\* Steps that concern neither the tree nor what a scan found in it, unless they throw
\* it away.
Calm ==
  /\ UNCHANGED <<tree, everAbsent, history>>
  /\ \A r \in Scans : Thrown(r) \/
       /\ result'[r].inv = result[r].inv /\ result'[r].diags = result[r].diags
       /\ pc'[r] \in Publishing => pc[r] \in Publishing
       /\ pc'[r] \in Counted =>
            pc[r] \in Counted /\ result'[r].delta = result[r].delta /\ result'[r].base = result[r].base
       /\ pc'[r] \in Scanned => pc[r] \in Scanned
       /\ pc'[r] = "scanning" => (pc[r] = "scanning" /\ todo'[r] = todo[r]) \/ todo'[r] = Files

LEMMA CalmKeeps == CountsInv /\ Calm => CountsInv'
  <1> SUFFICES ASSUME CountsInv, Calm PROVE CountsInv'
    OBVIOUS
  <1>0. ASSUME NEW s \in Scans, Thrown(s) PROVE CountsOf(s)'
    BY <1>0 DEF Thrown, CountsOf, Visited, Scanned, Counted, Publishing
  <1>1. ASSUME NEW s \in Scans, ~Thrown(s) PROVE CountsOf(s)'
    <2>1. ASSUME NEW f \in Files, Visited(s, f)' PROVE Visited(s, f)
      BY <1>1, <2>1 DEF Calm, Visited
    <2>2. ~result'[s].diags =>
            \A f \in Files : Visited(s, f)' /\ result'[s].inv[f].text = Absent => f \in everAbsent'
      BY <1>1, <2>1 DEF Calm, CountsInv, CountsOf
    <2>3. pc'[s] \in Publishing => ~result'[s].diags
      BY <1>1 DEF Calm, CountsInv, CountsOf
    <2>4. ASSUME pc'[s] \in Counted
          PROVE  result'[s].delta = Difference(FilesAt(history', result'[s].base), result'[s].inv)
      <3>1. /\ result'[s].delta = result[s].delta /\ result'[s].base = result[s].base
            /\ result'[s].inv = result[s].inv /\ history' = history
            /\ result[s].delta = Difference(FilesAt(history, result[s].base), result[s].inv)
        BY <1>1, <2>4 DEF Calm, CountsInv, CountsOf
      <3>2. FilesAt(history', result'[s].base) = FilesAt(history, result[s].base)
        BY <3>1
      <3>3. QED
        BY <3>1, <3>2, Zenon
    <2>5. QED
      BY <2>2, <2>3, <2>4 DEF CountsOf
  <1>2. CountsAreTrue'
    BY DEF Calm, CountsInv, CountsAreTrue, UnreadableIsNotRemoved, DeltaAccountsForAllFiles, Before
  <1>3. QED
    BY <1>0, <1>1, <1>2 DEF CountsInv, Calm

LEMMA NextCalm ==
  ASSUME TypeOK, [Next]_vars,
         \A s \in Scans : ~Compare(s) /\ ~Commit(s),
         \A s \in Scans, f \in Files : ~ScanFile(s, f) /\ ~VerifyFile(s, f),
         \A f \in Files : ~Edit(f)
  PROVE  Calm
  <1> USE DEF TypeOK, Goto, Throw, Thrown, Calm, Scanned, Counted, Publishing, source, store, thread
  <1>1. ASSUME NEW s \in Scans, Prepare(s) \/ OpenHistory(s) \/ StepFails(s) PROVE Calm
    BY <1>1 DEF Prepare, OpenHistory, StepFails, Proceeds
  <1>2. ASSUME NEW s \in Scans, LoadPrevious(s) PROVE Calm
    BY <1>2 DEF LoadPrevious, Result, Proceeds
  <1>3. ASSUME NEW s \in Scans, NEW f \in Files, ParseFile(s, f) PROVE Calm
    <2>1. /\ UNCHANGED <<tree, everAbsent, history>> /\ pc[s] = "analyzing"
          /\ \/ pc' = [pc EXCEPT ![s] = "verifying"]
             \/ UNCHANGED pc
          /\ \A r \in Scans : r # s => todo'[r] = todo[r]
      BY <1>3 DEF ParseFile, Proceeds
    <2>2. /\ \A r \in Scans : /\ result'[r].inv = result[r].inv /\ result'[r].diags = result[r].diags
                              /\ result'[r].base = result[r].base
                              /\ result'[r].delta = result[r].delta
      BY <1>3 DEF ParseFile, Result
    <2>3. QED
      BY <2>1, <2>2
  <1>4. ASSUME NEW s \in Scans, BeginImmediate(s) PROVE Calm
    BY <1>4 DEF BeginImmediate, Proceeds
  <1>5. ASSUME NEW s \in Scans, Insert(s) PROVE Calm
    BY <1>5 DEF Insert, Proceeds
  <1>6. ASSUME NEW s \in Scans, Fence(s) \/ AwaitReaders(s) \/ CommitFails(s) PROVE Calm
    BY <1>6 DEF Fence, AwaitReaders, CommitFails
  <1>7. ASSUME NEW s \in Scans, BusyTimeout(s) \/ Abandon(s) \/ Unwind(s) PROVE Calm
    BY <1>7 DEF BusyTimeout, Abandon, Unwind
  <1>8. ASSUME NEW s \in Scans, Catch(s) \/ Return(s) \/ Seal(s) PROVE Calm
    BY <1>8 DEF Catch, Return, Seal
  <1>9. ASSUME NEW s \in Scans, Gui(s) PROVE Calm
    BY <1>9 DEF Gui, Start, Cancel, Poll, Destroy
  <1>10. ASSUME NEW s \in Scans, Crash(s) PROVE Calm
    BY <1>10 DEF Crash
  <1>11. ASSUME NEW b \in Browsers, Browse(b) PROVE Calm
    BY <1>11 DEF Browse
  <1>12. CASE UNCHANGED vars
    BY <1>12 DEF vars
  <1>13. QED
    BY <1>1, <1>2, <1>3, <1>4, <1>5, <1>6, <1>7, <1>8, <1>9, <1>10, <1>11, <1>12 DEF Next, Worker, Import

\* The counts and inventories of the other scans do not depend on the step of s.
LEMMA OthersCounts ==
  ASSUME CountsInv, NEW r \in Scans, UNCHANGED history, everAbsent \subseteq everAbsent',
         result'[r] = result[r], pc'[r] = pc[r], todo'[r] = todo[r]
  PROVE  CountsOf(r)'
  <1>1. FilesAt(history', result'[r].base) = FilesAt(history, result[r].base)
    OBVIOUS
  <1>2. \A f \in Files : Visited(r, f)' <=> Visited(r, f)
    BY DEF Visited
  <1>3. CountsOf(r)
    BY DEF CountsInv
  <1>4. pc'[r] \in Counted =>
          result'[r].delta = Difference(FilesAt(history', result'[r].base), result'[r].inv)
    BY <1>1, <1>3, Zenon DEF CountsOf
  <1>5. QED
    BY <1>2, <1>3, <1>4 DEF CountsOf

LEMMA NextCounts == TypeInv /\ CountsInv /\ [Next]_vars => CountsInv'
  <1> SUFFICES ASSUME TypeInv, CountsInv, [Next]_vars PROVE CountsInv'
    OBVIOUS
  <1>0. TypeOK /\ BasesAreSaved /\ \A s \in Scans : result[s] \in Result
    BY DEF TypeInv, TypeOK
  <1>1. ASSUME NEW s \in Scans, NEW f \in Files, ScanFile(s, f) PROVE CountsInv'
    <2>1. /\ UNCHANGED <<tree, everAbsent, history>> /\ pc[s] = "scanning" /\ f \in todo[s]
          /\ todo'[s] = todo[s] \ {f}
          /\ pc'[s] = (IF todo[s] = {f} THEN "opening" ELSE "scanning")
          /\ \A r \in Scans : r # s => pc'[r] = pc[r] /\ todo'[r] = todo[r] /\ result'[r] = result[r]
      BY <1>0, <1>1 DEF ScanFile, Proceeds, Goto, source, store, TypeOK
    <2>2. \/ result'[s].diags = TRUE
          \/ /\ result'[s].diags = result[s].diags
             /\ result'[s].inv = [result[s].inv EXCEPT ![f] = tree[f]]
      <3>1. CASE result' = [result EXCEPT ![s] = [result[s] EXCEPT !.inv = [result[s].inv EXCEPT ![f] = tree[f]]]]
        BY <1>0, <3>1 DEF Result, TypeOK
      <3>2. CASE result' = [result EXCEPT ![s] = [result[s] EXCEPT !.diags = TRUE]]
        BY <1>0, <3>2 DEF Result, TypeOK
      <3>3. QED
        BY <1>1, <3>1, <3>2 DEF ScanFile
    <2>3. CountsOf(s)'
      <3>1. ASSUME ~result'[s].diags, NEW g \in Files, Visited(s, g)', result'[s].inv[g].text = Absent
            PROVE  g \in everAbsent'
        <4>1. /\ ~result[s].diags
              /\ result'[s].inv = [result[s].inv EXCEPT ![f] = tree[f]]
          BY <2>2, <3>1
        <4>2. CASE g = f
          <5>1. result'[s].inv[f] = tree[f]
            BY <1>0, <4>1 DEF Result, Inventory
          <5>2. QED
            BY <2>1, <3>1, <4>2, <5>1 DEF CountsInv
        <4>3. CASE g # f
          <5>1. result'[s].inv[g] = result[s].inv[g]
            BY <1>0, <4>1, <4>3 DEF Result, Inventory
          <5>2. g \notin todo[s]
            <6>1. CASE todo[s] = {f}
              BY <4>3, <6>1
            <6>2. CASE todo[s] # {f}
              <7>1. pc'[s] = "scanning"
                BY <2>1, <6>2
              <7>2. g \notin todo'[s]
                BY <3>1, <7>1 DEF Visited, Scanned, Counted, Publishing
              <7>3. QED
                BY <2>1, <4>3, <7>2
            <6>3. QED
              BY <6>1, <6>2
          <5>3. QED
            BY <2>1, <3>1, <4>1, <5>1, <5>2 DEF CountsInv, CountsOf, Visited
        <4>4. QED
          BY <4>2, <4>3
      <3>2. pc'[s] \notin Counted /\ pc'[s] \notin Publishing
        BY <2>1 DEF Counted, Publishing
      <3>3. QED
        BY <3>1, <3>2 DEF CountsOf
    <2>4. \A r \in Scans : CountsOf(r)'
      BY <2>1, <2>3, OthersCounts
    <2>5. CountsAreTrue'
      BY <2>1 DEF CountsInv, CountsAreTrue, UnreadableIsNotRemoved, DeltaAccountsForAllFiles, Before
    <2>6. QED
      BY <2>1, <2>4, <2>5 DEF CountsInv
  <1>2. ASSUME NEW s \in Scans, Compare(s) PROVE CountsInv'
    <2>1. /\ UNCHANGED <<tree, everAbsent, history>> /\ pc[s] = "comparing"
          /\ \A r \in Scans : r # s => pc'[r] = pc[r] /\ todo'[r] = todo[r] /\ result'[r] = result[r]
      BY <1>0, <1>2 DEF Compare, Proceeds, Goto, source, store, TypeOK
    <2>2. CASE result[s].diags
      <3>1. pc'[s] = "returned" /\ result'[s] = result[s]
        BY <1>0, <1>2, <2>2 DEF Compare, Goto, TypeOK
      <3>2. CountsOf(s)'
        BY <2>2, <3>1 DEF CountsOf, Counted, Publishing
      <3>3. QED
        <4>1. \A r \in Scans : CountsOf(r)'
          BY <2>1, <3>2, OthersCounts
        <4>2. CountsAreTrue'
          BY <2>1 DEF CountsInv, CountsAreTrue, UnreadableIsNotRemoved, DeltaAccountsForAllFiles, Before
        <4>3. QED
          BY <2>1, <4>1, <4>2 DEF CountsInv
    <2>3. CASE ~result[s].diags
      <3> DEFINE delta == Difference(FilesAt(history, result[s].base), result[s].inv)
      <3>1. /\ pc'[s] \in Counted
            /\ result' = [result EXCEPT ![s] = [result[s] EXCEPT !.delta = delta]]
        BY <1>0, <1>2, <2>3 DEF Compare, Goto, TypeOK, Counted, Publishing, Before, FilesAt
      <3>2. delta \in Delta
        BY DifferenceType
      <3>3. /\ result'[s].delta = delta /\ result'[s].inv = result[s].inv
            /\ result'[s].diags = result[s].diags /\ result'[s].base = result[s].base
        <4> HIDE DEF delta
        <4>1. QED
          BY <1>0, <3>1 DEF Result, TypeOK
      <3>4. FilesAt(history', result'[s].base) = FilesAt(history, result[s].base)
        BY <2>1, <3>3
      <3>5. result'[s].delta = Difference(FilesAt(history', result'[s].base), result'[s].inv)
        BY <3>3, <3>4, Zenon
      <3>6. \A f \in Files : result'[s].inv[f].text = Absent => f \in everAbsent'
        BY <2>1, <2>3, <3>3 DEF CountsInv, CountsOf, Visited, Scanned
      <3>7. CountsOf(s)'
        BY <2>3, <3>3, <3>5, <3>6 DEF CountsOf
      <3>8. \A r \in Scans : CountsOf(r)'
        BY <2>1, <3>7, OthersCounts
      <3>9. CountsAreTrue'
        BY <2>1 DEF CountsInv, CountsAreTrue, UnreadableIsNotRemoved, DeltaAccountsForAllFiles, Before
      <3>10. QED
        BY <2>1, <3>8, <3>9 DEF CountsInv
    <2>4. QED
      BY <2>2, <2>3
  <1>3. ASSUME NEW s \in Scans, NEW f \in Files, VerifyFile(s, f) PROVE CountsInv'
    <2>1. PICK x \in BOOLEAN, place \in {"verifying", "returned", "saving"} :
            /\ result' = [result EXCEPT ![s] = [result[s] EXCEPT !.diags = x]]
            /\ result[s].diags => x
            /\ pc' = [pc EXCEPT ![s] = place]
            /\ place = "saving" => ~x
      <3>1. PICK readable \in BOOLEAN, place \in {"verifying", "returned", "saving"} :
              /\ result' = [result EXCEPT ![s].diags =
                   result[s].diags \/ ~(readable /\ Same(result[s].inv[f], tree[f]))]
              /\ pc' = [pc EXCEPT ![s] = place]
              /\ place = "saving" =>
                   ~(result[s].diags \/ ~(readable /\ Same(result[s].inv[f], tree[f])))
        BY <1>3 DEF VerifyFile, Goto
      <3> DEFINE x == result[s].diags \/ ~(readable /\ Same(result[s].inv[f], tree[f]))
      <3>2. x \in BOOLEAN /\ (result[s].diags => x) /\ (place = "saving" => ~x)
        BY <3>1
      <3>3. result' = [result EXCEPT ![s] = [result[s] EXCEPT !.diags = x]]
        BY <1>0, <3>1 DEF TypeOK, Result
      <3> HIDE DEF x
      <3>4. QED
        BY <3>1, <3>2, <3>3
    <2>2. /\ UNCHANGED <<tree, everAbsent, history>> /\ pc[s] = "verifying"
          /\ \A r \in Scans : r # s => pc'[r] = pc[r] /\ todo'[r] = todo[r] /\ result'[r] = result[r]
      BY <1>0, <1>3, <2>1 DEF VerifyFile, Proceeds, source, store, TypeOK
    <2>3. /\ pc'[s] = place /\ result'[s].diags = x /\ result'[s].inv = result[s].inv
          /\ result'[s].base = result[s].base /\ result'[s].delta = result[s].delta
      BY <1>0, <2>1 DEF TypeOK, Result
    <2>4. FilesAt(history', result'[s].base) = FilesAt(history, result[s].base)
      BY <2>2, <2>3
    <2>5. CountsOf(s) /\ pc[s] \in Counted /\ pc[s] \in Scanned
      BY <2>2 DEF CountsInv, Counted, Scanned
    <2>6. result'[s].delta = Difference(FilesAt(history', result'[s].base), result'[s].inv)
      <3>1. result[s].delta = Difference(FilesAt(history, result[s].base), result[s].inv)
        BY <2>5 DEF CountsOf
      <3>2. QED
        BY <2>3, <2>4, <3>1, Zenon
    <2>7. ~x => \A g \in Files : result'[s].inv[g].text = Absent => g \in everAbsent'
      BY <2>1, <2>2, <2>3, <2>5 DEF CountsOf, Visited
    <2>8. pc'[s] \in Publishing => ~x
      BY <2>1, <2>3 DEF Publishing
    <2>9. CountsOf(s)'
      BY <2>3, <2>6, <2>7, <2>8 DEF CountsOf
    <2>10. \A r \in Scans : CountsOf(r)'
      BY <2>2, <2>9, OthersCounts
    <2>11. CountsAreTrue'
      BY <2>2 DEF CountsInv, CountsAreTrue, UnreadableIsNotRemoved, DeltaAccountsForAllFiles, Before
    <2>12. QED
      BY <2>2, <2>10, <2>11 DEF CountsInv
  <1>4. ASSUME NEW s \in Scans, Commit(s) PROVE CountsInv'
    <2>1. /\ UNCHANGED <<tree, everAbsent>> /\ pc[s] = "committing" /\ pc'[s] = "returned"
          /\ history' = Append(history, NewSnapshot(s))
          /\ todo' = todo
          /\ \A r \in Scans : r # s => pc'[r] = pc[r] /\ result'[r] = result[r]
      BY <1>0, <1>4 DEF Commit, Goto, source, TypeOK
    <2>2. NewSnapshot(s) \in Snapshot /\ history \in Seq(Snapshot)
      BY <1>0 DEF NewSnapshot, Snapshot, TypeOK, Result
    <2>3. /\ Len(history) \in Nat /\ DOMAIN history = 1..Len(history)
          /\ DOMAIN history' = 1..(Len(history) + 1)
          /\ \A i \in 1..Len(history) : history'[i] = history[i]
          /\ history'[Len(history) + 1] = NewSnapshot(s)
      BY <2>1, <2>2, HistoryAppend
    <2>4. \A b \in 0..Len(history) : FilesAt(history', b) = FilesAt(history, b)
      BY <2>3 DEF FilesAt
    <2>5. CountsOf(s) /\ ~result[s].diags /\ result[s].base \in 0..Len(history)
          /\ result[s].delta = Difference(FilesAt(history, result[s].base), result[s].inv)
          /\ \A f \in Files : result[s].inv[f].text = Absent => f \in everAbsent
      BY <1>0, <2>1 DEF CountsInv, CountsOf, BasesAreSaved, Counted, Scanned, Publishing, Visited
    <2>6. \A r \in Scans : CountsOf(r)'
      <3> TAKE r \in Scans
      <3>1. CASE r # s
        <4>1. /\ result'[r] = result[r] /\ pc'[r] = pc[r] /\ todo'[r] = todo[r]
              /\ result[r].base \in 0..Len(history)
          BY <1>0, <2>1, <3>1 DEF BasesAreSaved
        <4>2. FilesAt(history', result'[r].base) = FilesAt(history, result[r].base)
          BY <2>4, <4>1
        <4>3. \A f \in Files : Visited(r, f)' <=> Visited(r, f)
          BY <4>1 DEF Visited
        <4>4. CountsOf(r)
          BY DEF CountsInv
        <4>5. pc'[r] \in Counted =>
                result'[r].delta = Difference(FilesAt(history', result'[r].base), result'[r].inv)
          BY <4>1, <4>2, <4>4, Zenon DEF CountsOf
        <4>6. QED
          BY <2>1, <4>1, <4>3, <4>4, <4>5 DEF CountsOf
      <3>2. CASE r = s
        <4>1. result'[s].diags = result[s].diags /\ result'[s].inv = result[s].inv
          BY <1>0, <1>4 DEF Commit, TypeOK, Result
        <4>2. QED
          BY <2>1, <2>5, <3>2, <4>1 DEF CountsOf, Counted, Publishing
      <3>3. QED
        BY <3>1, <3>2
    <2>7. UnreadableIsNotRemoved'
      <3>1. \A f \in Files : NewSnapshot(s).inv[f].text = Absent => f \in everAbsent
        BY <2>5 DEF NewSnapshot
      <3>2. \A i \in DOMAIN history : Files \ Present(history[i].inv) \subseteq everAbsent
        BY DEF CountsInv, CountsAreTrue, UnreadableIsNotRemoved
      <3>3. Files \ Present(NewSnapshot(s).inv) \subseteq everAbsent
        BY <3>1 DEF Present
      <3>4. \A i \in DOMAIN history' : Files \ Present(history'[i].inv) \subseteq everAbsent'
        BY <2>1, <2>3, <3>2, <3>3
      <3>5. QED
        BY <3>4 DEF UnreadableIsNotRemoved
    <2>8. DeltaAccountsForAllFiles'
      <3>1. ASSUME NEW i \in DOMAIN history'
            PROVE  /\ history'[i].base < i
                   /\ history'[i].delta.added + history'[i].delta.changed
                        + history'[i].delta.unchanged = Cardinality(Present(history'[i].inv))
                   /\ history'[i].delta.removed + history'[i].delta.changed
                        + history'[i].delta.unchanged
                        = Cardinality(Present(FilesAt(history', history'[i].base)))
        <4>1. CASE i = Len(history) + 1
          <5>1. /\ history'[i].base = result[s].base /\ history'[i].inv = result[s].inv
                /\ history'[i].delta = Difference(FilesAt(history, result[s].base), result[s].inv)
            BY <2>3, <2>5, <4>1 DEF NewSnapshot
          <5>2. FilesAt(history', history'[i].base) = FilesAt(history, result[s].base)
            BY <2>4, <2>5, <5>1
          <5>3. history'[i].base < i
            BY <2>3, <2>5, <4>1, <5>1
          <5>4. PICK d : d = Difference(FilesAt(history, result[s].base), result[s].inv)
            OBVIOUS
          <5>5. /\ d.added + d.changed + d.unchanged = Cardinality(Present(result[s].inv))
                /\ d.removed + d.changed + d.unchanged
                     = Cardinality(Present(FilesAt(history, result[s].base)))
            BY <5>4, DifferenceAccounts
          <5>6. QED
            BY <5>1, <5>2, <5>3, <5>4, <5>5
        <4>2. CASE i \in DOMAIN history
          <5>1. history'[i] = history[i]
            BY <2>3, <4>2
          <5>2. /\ history[i].base < i
                /\ history[i].delta.added + history[i].delta.changed
                     + history[i].delta.unchanged = Cardinality(Present(history[i].inv))
                /\ history[i].delta.removed + history[i].delta.changed
                     + history[i].delta.unchanged = Cardinality(Present(FilesAt(history, history[i].base)))
            BY <4>2 DEF CountsInv, CountsAreTrue, DeltaAccountsForAllFiles, Before, FilesAt
          <5>3. history[i].base \in 0..Len(history)
            <6>1. history[i] \in Snapshot
              BY <2>2, <4>2
            <6>2. history[i].base \in Nat /\ i <= Len(history)
              BY <2>3, <4>2, <6>1 DEF Snapshot
            <6>3. QED
              BY <2>3, <4>2, <5>2, <6>2
          <5>4. FilesAt(history', history'[i].base) = FilesAt(history, history[i].base)
            BY <2>4, <5>1, <5>3
          <5>5. QED
            BY <5>1, <5>2, <5>4
        <4>3. QED
          BY <2>3, <4>1, <4>2
      <3>2. QED
        BY <3>1 DEF DeltaAccountsForAllFiles, Before, FilesAt
    <2>9. QED
      BY <2>1, <2>6, <2>7, <2>8 DEF CountsInv, CountsAreTrue
  <1>5. ASSUME NEW f \in Files, Edit(f) PROVE CountsInv'
    <2>1. /\ UNCHANGED <<history, pc, todo, result>> /\ everAbsent \subseteq everAbsent'
          /\ \A g \in Files : tree'[g].text = Absent => g \in everAbsent'
      <3>1. PICK t \in Texts \cup {Absent} :
              /\ tree' = [tree EXCEPT ![f] = [text |-> t, mtime |-> edits + 1]]
              /\ everAbsent' = IF t = Absent THEN everAbsent \cup {f} ELSE everAbsent
        BY <1>5 DEF Edit
      <3>2. \A g \in Files : tree'[g].text = IF g = f THEN t ELSE tree[g].text
        BY <1>0, <3>1 DEF TypeOK, Inventory
      <3>3. UNCHANGED <<history, pc, todo, result>>
        BY <1>5 DEF Edit, store, thread
      <3>4. QED
        BY <3>1, <3>2, <3>3 DEF CountsInv
    <2>2. \A r \in Scans : CountsOf(r)'
      BY <2>1, OthersCounts
    <2>3. CountsAreTrue'
      BY <2>1 DEF CountsInv, CountsAreTrue, UnreadableIsNotRemoved, DeltaAccountsForAllFiles, Before
    <2>4. QED
      BY <2>1, <2>2, <2>3 DEF CountsInv
  <1>6. QED
    BY <1>0, <1>1, <1>2, <1>3, <1>4, <1>5, NextCalm, CalmKeeps

\* What import_project publishes beside a snapshot counts every file of it and of the
\* one before exactly once, and no file is counted as removed that was there and
\* could not be read.
THEOREM CountsAreOfTheFiles == Spec => []CountsAreTrue
  <1>1. Init => CountsInv
    <2> SUFFICES ASSUME Init PROVE CountsInv
      OBVIOUS
    <2>1. DOMAIN history = {}
      BY DEF Init
    <2>2. CountsAreTrue
      BY <2>1 DEF CountsAreTrue, UnreadableIsNotRemoved, DeltaAccountsForAllFiles
    <2>3. \A s \in Scans : pc[s] = "idle"
      BY DEF Init
    <2>4. \A s \in Scans : CountsOf(s)
      BY <2>3 DEF CountsOf, Visited, Scanned, Counted, Publishing
    <2>5. \A f \in Files : tree[f].text = Absent => f \in everAbsent
      BY DEF Init
    <2>6. QED
      BY <2>2, <2>4, <2>5 DEF CountsInv
  <1>2. CountsInv => CountsAreTrue
    BY DEF CountsInv
  <1>3. QED
    BY <1>1, <1>2, NextCounts, ScanTypes, PTL DEF Spec

-----------------------------------------------------------------------------
(* A scan is atomic *)

\* A cancellation is known to the worker, or was, exactly when it was accepted; and a
\* scan that ended knows it in all its variables.
DoomInv ==
  \A s \in Scans :
    /\ pc[s] = "idle" => ui[s] = "idle" /\ ~accepted[s]
    /\ pc[s] = "crashed" => ui[s] = "crashed"
    /\ control[s] = "finished" <=> pc[s] = "done"
    /\ "cancelled" \in {thrown[s], outcome[s]} \/ control[s] = "cancel_requested"
         \/ ui[s] = "cancelling" => accepted[s]
    /\ accepted[s] /\ pc[s] = "done" => outcome[s] = "cancelled"

AtomicInv == TypeInv /\ FenceInv /\ StoreInv /\ DoomInv

\* Steps that neither begin nor end a scan, nor cancel it.
Quiet ==
  /\ UNCHANGED <<history, accepted>>
  /\ \A r \in Scans :
       /\ \/ pc'[r] = pc[r] /\ outcome'[r] = outcome[r]
          \/ pc[r] \notin Ended /\ pc'[r] \notin Ended
       /\ control'[r] = control[r] \/ (control[r] = "running" /\ control'[r] = "committing")
       /\ ui'[r] = ui[r] \/ (ui[r] \in Busy /\ ui'[r] # "cancelling")
       /\ "cancelled" \in {thrown'[r], outcome'[r]} =>
            "cancelled" \in {thrown[r], outcome[r]} \/ control[r] = "cancel_requested"

LEMMA NextQuiet ==
  ASSUME TypeOK, [Next]_vars,
         \A s \in Scans : /\ ~Start(s) /\ ~Cancel(s) /\ ~Destroy(s)
                          /\ ~Commit(s) /\ ~Seal(s) /\ ~Crash(s)
  PROVE  Quiet
  <1> USE DEF TypeOK, Goto, Throw, Proceeds, Quiet, Ended, Cancelled, source, store, thread
  <1>1. ASSUME NEW s \in Scans, Prepare(s) \/ OpenHistory(s) \/ LoadPrevious(s) PROVE Quiet
    BY <1>1 DEF Prepare, OpenHistory, LoadPrevious
  <1>2. ASSUME NEW s \in Scans, NEW f \in Files, ScanFile(s, f) PROVE Quiet
    BY <1>2 DEF ScanFile
  <1>3. ASSUME NEW s \in Scans, Compare(s) PROVE Quiet
    BY <1>3 DEF Compare
  <1>4. ASSUME NEW s \in Scans, NEW f \in Files, ParseFile(s, f) PROVE Quiet
    BY <1>4 DEF ParseFile
  <1>5. ASSUME NEW s \in Scans, NEW f \in Files, VerifyFile(s, f) PROVE Quiet
    <2>1. PICK place \in {"verifying", "returned", "saving"} : pc' = [pc EXCEPT ![s] = place]
      BY <1>5 DEF VerifyFile
    <2>2. QED
      BY <1>5, <2>1 DEF VerifyFile
  <1>6. ASSUME NEW s \in Scans, StepFails(s) \/ CommitFails(s) PROVE Quiet
    BY <1>6 DEF StepFails, CommitFails
  <1>7. ASSUME NEW s \in Scans, BeginImmediate(s) \/ Insert(s) PROVE Quiet
    BY <1>7 DEF BeginImmediate, Insert
  <1>8. ASSUME NEW s \in Scans, Fence(s) \/ AwaitReaders(s) PROVE Quiet
    BY <1>8 DEF Fence, AwaitReaders, MayCommit
  <1>9. ASSUME NEW s \in Scans, BusyTimeout(s) \/ Abandon(s) PROVE Quiet
    BY <1>9 DEF BusyTimeout, Abandon, Checkpoints
  <1>10. ASSUME NEW s \in Scans, Unwind(s) \/ Catch(s) \/ Return(s) PROVE Quiet
    BY <1>10 DEF Unwind, Catch, Return
  <1>11. ASSUME NEW s \in Scans, Poll(s) PROVE Quiet
    BY <1>11 DEF Poll, Outcomes
  <1>12. ASSUME NEW f \in Files, Edit(f) PROVE Quiet
    BY <1>12 DEF Edit
  <1>13. ASSUME NEW b \in Browsers, Browse(b) PROVE Quiet
    BY <1>13 DEF Browse
  <1>14. CASE UNCHANGED vars
    BY <1>14 DEF vars
  <1>15. QED
    BY <1>1, <1>2, <1>3, <1>4, <1>5, <1>6, <1>7, <1>8, <1>9, <1>10, <1>11, <1>12, <1>13, <1>14
       DEF Next, Worker, Import, Gui

LEMMA NextDoom == AtomicInv /\ [Next]_vars => DoomInv'
  <1> SUFFICES ASSUME AtomicInv, [Next]_vars PROVE DoomInv'
    OBVIOUS
  <1>0. TypeOK
    BY DEF AtomicInv, TypeInv
  <1> USE DEF AtomicInv, DoomInv, TypeOK, Goto, Ended, Busy, Cancelled, Cancellable, source,
              store, thread
  <1>1. ASSUME NEW s \in Scans, Start(s) PROVE DoomInv'
    BY <1>0, <1>1 DEF Start
  <1>2. ASSUME NEW s \in Scans, Cancel(s) PROVE DoomInv'
    BY <1>0, <1>2 DEF Cancel
  <1>3. ASSUME NEW s \in Scans, Destroy(s) PROVE DoomInv'
    BY <1>0, <1>3 DEF Destroy
  <1>4. ASSUME NEW s \in Scans, Commit(s) PROVE DoomInv'
    BY <1>0, <1>4 DEF Commit
  <1>5. ASSUME NEW s \in Scans, Seal(s) PROVE DoomInv'
    <2>1. accepted[s] => control[s] = "cancel_requested" /\ result[s].id = 0
      BY <1>0, <1>5 DEF Seal, FenceInv, StoreInv
    <2>2. /\ pc[s] = "sealing" /\ pc' = [pc EXCEPT ![s] = "done"]
          /\ control' = [control EXCEPT ![s] = "finished"]
          /\ outcome' = [outcome EXCEPT ![s] = SealedOutcome(s)]
          /\ UNCHANGED <<accepted, thrown, ui>>
      BY <1>5 DEF Seal
    <2>3. /\ SealedOutcome(s) = "cancelled" => accepted[s]
          /\ accepted[s] => SealedOutcome(s) = "cancelled"
      BY <1>0, <2>1 DEF SealedOutcome
    <2> HIDE DEF AtomicInv
    <2>4. DoomInv
      BY DEF AtomicInv
    <2>5. QED
      BY <1>0, <2>2, <2>3, <2>4
  <1>6. ASSUME NEW s \in Scans, Crash(s) PROVE DoomInv'
    BY <1>0, <1>6 DEF Crash
  <1>7. ASSUME Quiet PROVE DoomInv'
    <2> SUFFICES ASSUME NEW r \in Scans
                 PROVE  /\ pc'[r] = "idle" => ui'[r] = "idle" /\ ~accepted'[r]
                        /\ pc'[r] = "crashed" => ui'[r] = "crashed"
                        /\ control'[r] = "finished" <=> pc'[r] = "done"
                        /\ "cancelled" \in {thrown'[r], outcome'[r]}
                             \/ control'[r] = "cancel_requested" \/ ui'[r] = "cancelling"
                             => accepted'[r]
                        /\ accepted'[r] /\ pc'[r] = "done" => outcome'[r] = "cancelled"
      OBVIOUS
    <2>1. /\ UNCHANGED <<history, accepted>>
          /\ \/ pc'[r] = pc[r] /\ outcome'[r] = outcome[r]
             \/ pc[r] \notin Ended /\ pc'[r] \notin Ended
          /\ control'[r] = control[r] \/ (control[r] = "running" /\ control'[r] = "committing")
          /\ ui'[r] = ui[r] \/ (ui[r] \in Busy /\ ui'[r] # "cancelling")
          /\ "cancelled" \in {thrown'[r], outcome'[r]} =>
               "cancelled" \in {thrown[r], outcome[r]} \/ control[r] = "cancel_requested"
      BY <1>7 DEF Quiet
    <2>2. QED
      BY <1>0, <2>1
  <1>8. QED
    BY <1>0, <1>1, <1>2, <1>3, <1>4, <1>5, <1>6, <1>7, NextQuiet

\* What is known of a scan whenever it is looked at.
THEOREM ScansAreKnown == Spec => []AtomicInv
  <1>1. Init => FenceInv /\ StoreInv /\ DoomInv
    BY DEF Init, FenceInv, StoreInv, DoomInv, Saved, NoResult, Outcomes
  <1>2. TypeInv /\ FenceInv /\ [Next]_vars => FenceInv'
    BY NextFence DEF TypeInv
  <1>3. AtomicInv <=> TypeInv /\ FenceInv /\ StoreInv /\ DoomInv
    BY DEF AtomicInv
  <1>4. QED
    BY <1>1, <1>2, <1>3, NextStore, NextDoom, ScanTypes, PTL DEF Spec

\* Once the window says "cancelling", nothing but "cancelled" is delivered
\* (gui/qt/scan_task.cpp, the timer's slot), unless it is closed or dies before.
THEOREM CancellingIsKept == Spec => CancellingEndsCancelled
  <1>1. AtomicInv /\ [Next]_vars =>
          [\A s \in Scans : ui[s] = "cancelling" /\ ui'[s] # ui[s]
                              => ui'[s] \in {"cancelled", "destroyed", "crashed"}]_ui
    <2> SUFFICES ASSUME AtomicInv, [Next]_vars, NEW s \in Scans,
                        ui[s] = "cancelling", ui'[s] # ui[s]
                 PROVE  ui'[s] \in {"cancelled", "destroyed", "crashed"}
      OBVIOUS
    <2>1. TypeOK /\ accepted[s] /\ control[s] # "committing"
          /\ (pc[s] = "done" => outcome[s] = "cancelled") /\ pc[s] # "idle"
      BY DEF AtomicInv, TypeInv, TypeOK, DoomInv, FenceInv
    <2>2. PICK r \in Scans : Start(r) \/ Cancel(r) \/ Poll(r) \/ Destroy(r) \/ Crash(r)
      <3>1. ASSUME NEW r \in Scans, Import(r) PROVE UNCHANGED ui
        BY <3>1 DEF Import, Prepare, ScanFile, OpenHistory, LoadPrevious, Compare, ParseFile,
           StepFails, VerifyFile, BeginImmediate, Insert, Fence, AwaitReaders, Commit,
           CommitFails
      <3>2. ASSUME NEW r \in Scans, Worker(r) PROVE UNCHANGED ui
        BY <3>1, <3>2 DEF Worker, BusyTimeout, Abandon, Unwind, Catch, Return, Seal
      <3>3. (\E f \in Files : Edit(f)) \/ (\E b \in Browsers : Browse(b)) \/ UNCHANGED vars
              => UNCHANGED ui
        BY DEF Edit, Browse, vars
      <3>4. QED
        BY <3>2, <3>3 DEF Next, Gui
    <2>3. r = s
      BY <2>1, <2>2 DEF TypeOK, Start, Cancel, Poll, Destroy, Crash
    <2>4. QED
      BY <2>1, <2>2, <2>3 DEF TypeOK, Start, Cancel, Poll, Destroy, Crash
  <1>2. QED
    BY <1>1, ScansAreKnown, PTL DEF Spec, CancellingEndsCancelled

\* The variables of AtomicScan.
Log  == [i \in DOMAIN history |-> history[i].by]
Runs == [s \in Scans |-> RunOf(s)]

\* COMMIT appends one scan to the log.
LEMMA CommitLogs ==
  ASSUME TypeOK, NEW s \in Scans, Commit(s)
  PROVE  Log' = Append(Log, s)
  <1>1. NewSnapshot(s) \in Snapshot /\ NewSnapshot(s).by = s
    BY DEF NewSnapshot, Snapshot, TypeOK, Result
  <1>2. /\ history \in Seq(Snapshot) /\ history' = Append(history, NewSnapshot(s))
        /\ history' \in Seq(Snapshot)
    BY <1>1, HistoryAppend DEF Commit, TypeOK
  <1>3. /\ Len(history) \in Nat /\ Len(history') = Len(history) + 1
        /\ DOMAIN history = 1..Len(history) /\ DOMAIN history' = 1..(Len(history) + 1)
        /\ \A i \in 1..Len(history) : history'[i] = history[i]
        /\ history'[Len(history) + 1] = NewSnapshot(s)
    BY <1>1, <1>2, HistoryAppend
  <1>4. ASSUME NEW i \in 1..Len(history) PROVE history[i].by \in Scans
    <2>1. history[i] \in Snapshot
      BY <1>2, ElementOfSeq
    <2>2. QED
      BY <2>1 DEF Snapshot
  <1>5. Log \in Seq(Scans) /\ Len(Log) = Len(history)
    BY <1>3, <1>4 DEF Log
  <1>6. Log' \in Seq(Scans) /\ Len(Log') = Len(history) + 1
    BY <1>1, <1>3, <1>4 DEF Log
  <1>7. /\ Append(Log, s) \in Seq(Scans) /\ Len(Append(Log, s)) = Len(history) + 1
        /\ \A i \in 1..Len(history) : Append(Log, s)[i] = Log[i]
        /\ Append(Log, s)[Len(history) + 1] = s
    BY <1>5, AppendProperties
  <1>8. \A i \in 1..(Len(history) + 1) : Log'[i] = Append(Log, s)[i]
    BY <1>1, <1>3, <1>7 DEF Log
  <1>9. QED
    BY <1>6, <1>7, <1>8, SeqEqual

\* A step that changes the state of one scan.
LEMMA OneRun ==
  ASSUME NEW s \in Scans, NEW to, RunOf(s)' = to, \A r \in Scans \ {s} : RunOf(r)' = RunOf(r)
  PROVE  Runs' = [Runs EXCEPT ![s] = to]
  BY DEF Runs

LEMMA NextIsAtomic == AtomicInv /\ [Next]_vars => [Atomic!Next]_<<Log, Runs>>
  <1> SUFFICES ASSUME AtomicInv, [Next]_vars PROVE [Atomic!Next]_<<Log, Runs>>
    OBVIOUS
  <1>0. TypeOK /\ EndsAreKnown /\ FenceInv /\ StoreInv /\ DoomInv
    BY DEF AtomicInv, TypeInv
  <1>a. ASSUME UNCHANGED history PROVE Log' = Log /\ \A r \in Scans : Saved(r)' <=> Saved(r)
    BY <1>a DEF Log, Saved
  <1>1. ASSUME NEW s \in Scans, Start(s) PROVE [Atomic!Next]_<<Log, Runs>>
    <2>1. /\ UNCHANGED <<history, accepted, outcome, control>>
          /\ pc[s] = "idle" /\ pc' = [pc EXCEPT ![s] = "preparing"]
      BY <1>1 DEF Start, Goto, store, thread
    <2>2. ~Saved(s) /\ ~accepted[s]
      BY <1>0, <2>1 DEF StoreInv, FenceInv, DoomInv
    <2>3. RunOf(s) = "idle" /\ RunOf(s)' = "active"
      BY <1>0, <1>a, <2>1, <2>2 DEF RunOf, TypeOK
    <2>4. \A r \in Scans \ {s} : RunOf(r)' = RunOf(r)
      BY <1>0, <1>a, <2>1 DEF RunOf, TypeOK
    <2>5. Atomic!Begin(s)
      BY <1>a, <2>1, <2>3, <2>4, OneRun DEF Atomic!Begin, Atomic!Become, Log, Runs
    <2>6. QED
      BY <2>5 DEF Atomic!Next
  <1>2. ASSUME NEW s \in Scans, Cancel(s) \/ Destroy(s) PROVE [Atomic!Next]_<<Log, Runs>>
    <2>1. /\ UNCHANGED <<history, outcome, pc>>
          /\ ui[s] \in Busy
          /\ \/ UNCHANGED accepted
             \/ control[s] = "running" /\ accepted' = [accepted EXCEPT ![s] = TRUE]
      BY <1>2 DEF Cancel, Destroy, Cancellable, store, thread
    <2>2. \A r \in Scans \ {s} : RunOf(r)' = RunOf(r)
      BY <1>0, <1>a, <2>1 DEF RunOf, TypeOK
    <2>3. CASE UNCHANGED accepted
      <3>1. \A r \in Scans : RunOf(r)' = RunOf(r)
        BY <1>0, <1>a, <2>1, <2>3 DEF RunOf
      <3>2. QED
        BY <1>a, <2>1, <3>1 DEF Runs
    <2>4. CASE control[s] = "running" /\ accepted' = [accepted EXCEPT ![s] = TRUE]
      <3>1. ~Saved(s) /\ ~accepted[s]
        BY <1>0, <2>4 DEF FenceInv
      <3>2. pc[s] \notin Ended
        BY <1>0, <2>1, <2>4 DEF DoomInv, Ended, Busy
      <3>3. RunOf(s) = "active" /\ RunOf(s)' = "doomed"
        BY <1>0, <1>a, <2>1, <2>4, <3>1, <3>2 DEF RunOf, TypeOK, Ended
      <3>4. Atomic!AcceptCancel(s)
        BY <1>a, <2>1, <2>2, <3>3, OneRun DEF Atomic!AcceptCancel, Atomic!Become, Log, Runs
      <3>5. QED
        BY <3>4 DEF Atomic!Next
    <2>5. QED
      BY <2>1, <2>3, <2>4
  <1>3. ASSUME NEW s \in Scans, Commit(s) PROVE [Atomic!Next]_<<Log, Runs>>
    <2>1. /\ pc[s] = "committing" /\ pc' = [pc EXCEPT ![s] = "returned"]
          /\ UNCHANGED <<accepted, outcome>>
      BY <1>3 DEF Commit, Goto
    <2>2. \A r \in Scans : Saved(r)' <=> Saved(r) \/ r = s
      BY <1>0, <1>3, CommitSaves
    <2>3. ~Saved(s) /\ ~accepted[s]
      BY <1>0, <2>1 DEF FenceInv, StoreInv
    <2>4. RunOf(s) = "active" /\ RunOf(s)' = "committed"
      BY <1>0, <2>1, <2>2, <2>3 DEF RunOf, TypeOK
    <2>5. \A r \in Scans \ {s} : RunOf(r)' = RunOf(r)
      BY <1>0, <2>1, <2>2 DEF RunOf, TypeOK
    <2>6. Atomic!CommitScan(s)
      BY <1>0, <1>3, <2>4, <2>5, OneRun, CommitLogs
         DEF Atomic!CommitScan, Atomic!Become, Log, Runs
    <2>7. QED
      BY <2>6 DEF Atomic!Next
  <1>4. ASSUME NEW s \in Scans, Seal(s) PROVE [Atomic!Next]_<<Log, Runs>>
    <2>1. /\ UNCHANGED <<history, accepted, result>>
          /\ pc[s] = "sealing" /\ pc' = [pc EXCEPT ![s] = "done"]
          /\ outcome' = [outcome EXCEPT ![s] = SealedOutcome(s)]
      BY <1>4 DEF Seal, Goto, store
    <2>2. \A r \in Scans \ {s} : RunOf(r)' = RunOf(r)
      BY <1>0, <1>a, <2>1 DEF RunOf, TypeOK
    <2>3. CASE Saved(s)
      <3>1. \A r \in Scans : RunOf(r)' = RunOf(r)
        BY <1>a, <2>1, <2>2, <2>3 DEF RunOf
      <3>2. QED
        BY <1>a, <2>1, <3>1 DEF Runs
    <2>4. CASE ~Saved(s)
      <3>1. RunOf(s) = (IF accepted[s] THEN "doomed" ELSE "active")
        BY <2>1, <2>4 DEF RunOf
      <3>2. RunOf(s)' = SealedOutcome(s)
        BY <1>0, <1>a, <2>1, <2>4 DEF RunOf, TypeOK
      <3>3. result[s].id = 0 /\ outcome[s] \in {"failed", "cancelled"}
        BY <1>0, <2>1, <2>4 DEF StoreInv, EndsAreKnown, Outcomes
      <3>4. CASE accepted[s]
        <4>1. control[s] = "cancel_requested"
          BY <1>0, <2>1, <3>4 DEF FenceInv, DoomInv
        <4>2. SealedOutcome(s) = "cancelled"
          BY <3>3, <4>1 DEF SealedOutcome, Cancelled
        <4>3. Atomic!ReportCancel(s)
          BY <1>a, <2>1, <2>2, <3>1, <3>2, <3>4, <4>2, OneRun
             DEF Atomic!ReportCancel, Atomic!Become, Log, Runs
        <4>4. QED
          BY <4>3 DEF Atomic!Next
      <3>5. CASE ~accepted[s]
        <4>1. SealedOutcome(s) = "failed"
          BY <1>0, <3>3, <3>5 DEF SealedOutcome, DoomInv, Cancelled
        <4>2. Atomic!Fail(s)
          BY <1>a, <2>1, <2>2, <3>1, <3>2, <3>5, <4>1, OneRun
             DEF Atomic!Fail, Atomic!Become, Log, Runs
        <4>3. QED
          BY <4>2 DEF Atomic!Next
      <3>6. QED
        BY <3>4, <3>5
    <2>5. QED
      BY <2>3, <2>4
  <1>5. ASSUME NEW s \in Scans, Crash(s) PROVE [Atomic!Next]_<<Log, Runs>>
    <2>1. /\ UNCHANGED <<history, accepted, outcome>>
          /\ pc[s] \notin Ended /\ pc' = [pc EXCEPT ![s] = "crashed"]
      BY <1>5 DEF Crash, Goto
    <2>2. \A r \in Scans \ {s} : RunOf(r)' = RunOf(r)
      BY <1>0, <1>a, <2>1 DEF RunOf, TypeOK
    <2>3. CASE Saved(s)
      <3>1. \A r \in Scans : RunOf(r)' = RunOf(r)
        BY <1>a, <2>1, <2>2, <2>3 DEF RunOf
      <3>2. QED
        BY <1>a, <2>1, <3>1 DEF Runs
    <2>4. CASE ~Saved(s)
      <3>1. RunOf(s) \in {"active", "doomed"} /\ RunOf(s)' = "lost"
        BY <1>0, <1>a, <2>1, <2>4 DEF RunOf, TypeOK, Ended
      <3>2. Atomic!Lose(s)
        BY <1>a, <2>1, <2>2, <3>1, OneRun DEF Atomic!Lose, Atomic!Become, Log, Runs
      <3>3. QED
        BY <3>2 DEF Atomic!Next
    <2>5. QED
      BY <2>3, <2>4
  <1>6. ASSUME Quiet PROVE [Atomic!Next]_<<Log, Runs>>
    <2>1. \A r \in Scans : RunOf(r)' = RunOf(r)
      BY <1>0, <1>6, <1>a DEF Quiet, RunOf, Ended
    <2>2. QED
      BY <1>6, <1>a, <2>1 DEF Quiet, Runs
  <1>7. QED
    BY <1>0, <1>1, <1>2, <1>3, <1>4, <1>5, <1>6, NextQuiet

\* The whole of a scan, its locks, waits, exceptions and cancellation, is one atomic
\* append or nothing, and is reported as what it was (core/application.cpp,
\* import_project, with gui/qt/scan_task.cpp).
THEOREM ScanImplementsAtomicScan == Spec => ScanIsAtomic
  <1>1. Init => Atomic!Init
    <2> SUFFICES ASSUME Init PROVE Atomic!Init
      OBVIOUS
    <2>1. history = <<>> /\ \A s \in Scans : ~Saved(s) /\ pc[s] = "idle"
      BY DEF Init, Saved
    <2>2. \A s \in Scans : RunOf(s) = "idle"
      BY <2>1 DEF RunOf
    <2>3. [i \in DOMAIN history |-> history[i].by] = <<>>
      BY <2>1
    <2>4. QED
      BY <2>2, <2>3 DEF Atomic!Init
  <1>2. AtomicInv /\ [Next]_vars =>
          [Atomic!Next]_<<[i \in DOMAIN history |-> history[i].by], [s \in Scans |-> RunOf(s)]>>
    BY NextIsAtomic DEF Log, Runs
  <1>3. QED
    BY <1>1, <1>2, ScansAreKnown, PTL DEF Spec, ScanIsAtomic, Atomic!Spec
=============================================================================

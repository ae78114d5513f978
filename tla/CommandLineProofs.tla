-------------------------- MODULE CommandLineProofs --------------------------
(***************************************************************************)
(* Theorems of CommandLine, for any number of programs, schema versions and *)
(* scans.  The invariant has a part for each connection and the file        *)
(* (ConnectionFits), one for the use a program makes of its connection      *)
(* (UseFits), and one for what its command has saved so far (CommandFits).  *)
(***************************************************************************)
EXTENDS CommandLine, TLAPS

\* Version, scans, builds and profile, of a file or of the pages of a transaction.
SamePages(d, f) ==
  d.version = f.version /\ d.scans = f.scans /\ d.builds = f.builds /\ d.profile = f.profile

\* The pages of a transaction are those of the file, but for what it writes.
ConnectionFits(p, c, f) ==
  /\ c \in Connection
  /\ c.version <= f.version
  /\ c.state # "closed" => f.exists
  /\ c.state \in {"upgrading", "writing"} => f.writer = p
  /\ c.state = "upgrading" =>
       /\ f.version = c.version /\ c.version < Latest
       /\ c.draft.version = f.version + 1 /\ c.draft.profile = f.profile
       /\ c.draft.scans = f.scans /\ c.draft.builds = f.builds
  /\ c.state = "writing" =>
       /\ c.draft.version = f.version /\ c.draft.profile = f.profile
       /\ c.draft.scans >= f.scans /\ c.draft.builds >= f.builds
  /\ c.state \in {"checked", "writing"} => ~c.readOnly
  /\ c.state \in {"open", "checked", "writing"} /\ ~c.readOnly => c.version = Latest
  /\ c.state = "checked" => "foreign" \notin f.profile

FileFits(f) ==
  /\ f.profile # {} => f.version >= ProfilesSince
  /\ f.version > 0 => f.exists

DatabaseInv ==
  /\ DatabaseTypeOK /\ FileFits(file)
  /\ \A p \in Programs : ConnectionFits(p, conn[p], file)

\* What one program may do to the database, the uses it makes of it left aside; a
\* quiet step saves no profile.
QuietStep(p) ==
  \/ \E readOnly \in BOOLEAN : Connect(p, readOnly)
  \/ Constructor(p)
  \/ FindLatest(p) \/ SnapshotRead(p)
  \/ ~conn[p].readOnly /\ CheckProfile(p)
  \/ \E table \in {"scan", "build"} : ~conn[p].readOnly /\ BeginWrite(p, table)
  \/ CommitWrite(p)
  \/ Disconnect(p)
  \/ UNCHANGED dbVars

DatabaseStep(p) == QuietStep(p) \/ \E profile \in SUBSET Programs : WriteProfile(p, profile)

-----------------------------------------------------------------------------
(* The database *)

\* A step of one program leaves the connections of the others as good as they were
\* when it changes nothing under the lock of one, and the version does not go back.
LEMMA OthersStillFit ==
  ASSUME DatabaseInv, NEW p \in Programs, NEW q \in Programs, q # p,
         conn'[q] = conn[q], file' \in File, file'.version >= file.version,
         file.exists => file'.exists,
         file.writer = q => file'.writer = q /\ SamePages(file', file),
         "foreign" \in file'.profile => "foreign" \in file.profile
  PROVE  ConnectionFits(q, conn'[q], file')
<1>1. ConnectionFits(q, conn[q], file)  BY DEF DatabaseInv
<1>2. file.version \in Int /\ file'.version \in Int /\ conn[q].version \in Int
  BY DatabaseAssumption DEF DatabaseInv, DatabaseTypeOK, File, Connection
<1>3. ConnectionFits(q, conn[q], file')
  <2>1. file'.version >= file.version /\ conn[q].version <= file.version  BY <1>1 DEF ConnectionFits
  <2>2. CASE file.writer = q
    <3>1. SamePages(file', file) /\ file'.writer = file.writer  BY <2>2
    <3> QED  BY <1>1, <3>1, Zenon DEF ConnectionFits, SamePages
  <2>3. CASE file.writer # q
    <3>1. conn[q].state \notin {"upgrading", "writing"}  BY <1>1, <2>3 DEF ConnectionFits
    <3> QED  BY <1>1, <1>2, <2>1, <3>1 DEF ConnectionFits
  <2> QED  BY <2>2, <2>3
<1> QED  BY <1>3

\* What a step of p leaves of the file and of its own connection.
MoveFits(p) ==
  /\ file' \in File /\ FileFits(file')
  /\ conn' = [conn EXCEPT ![p] = conn'[p]]
  /\ ConnectionFits(p, conn'[p], file')
  /\ file'.version >= file.version
  /\ file.exists => file'.exists
  /\ \A q \in Programs \ {p} :
       file.writer = q => file'.writer = q /\ SamePages(file', file)
  /\ "foreign" \in file'.profile => "foreign" \in file.profile

LEMMA FileFacts ==
  ASSUME DatabaseInv
  PROVE  /\ file \in File /\ file.version \in 0..Latest /\ file.scans \in 0..MaxScans
         /\ file.builds \in 0..MaxScans /\ file.profile \in Profiles /\ file.saves \in Nat
         /\ FileFits(file) /\ conn \in [Programs -> Connection]
         /\ Latest \in Nat \ {0} /\ MaxScans \in Nat /\ ProfilesSince \in 1..Latest
         /\ Nobody \notin Programs /\ "foreign" \notin Programs
  BY DatabaseAssumption DEF DatabaseInv, DatabaseTypeOK, File

LEMMA ConnectionFacts ==
  ASSUME DatabaseInv, NEW p \in Programs
  PROVE  /\ conn[p] \in Connection /\ ConnectionFits(p, conn[p], file)
         /\ conn[p].version \in 0..Latest /\ conn[p].found \in 0..MaxScans
         /\ conn[p].draft \in Pages
  BY DEF DatabaseInv, DatabaseTypeOK, Connection

\* A step that leaves the file alone.
LEMMA ChangeFits ==
  ASSUME DatabaseInv, NEW p \in Programs, NEW c, Set(p, c), file' = file,
         ConnectionFits(p, c, file)
  PROVE  MoveFits(p)
<1>1. conn \in [Programs -> Connection] /\ file \in File /\ file.version \in 0..Latest
      /\ Latest \in Nat /\ FileFits(file)
  BY FileFacts
<1>2. conn'[p] = c  BY <1>1 DEF Set
<1>3. conn' = [conn EXCEPT ![p] = conn'[p]]  BY <1>2 DEF Set
<1>4. ConnectionFits(p, conn'[p], file')  BY <1>2
<1>5. file'.version >= file.version  BY <1>1
<1> QED  BY <1>1, <1>3, <1>4, <1>5 DEF MoveFits, SamePages

\* What a transaction begins with.
LEMMA CommittedFacts ==
  ASSUME DatabaseInv
  PROVE  Committed \in Pages /\ SamePages(Committed, file)
BY FileFacts DEF Committed, Pages, SamePages

\* A step that takes the lock.
LEMMA LockedFits ==
  ASSUME DatabaseInv, NEW p \in Programs, NEW s \in {"upgrading", "writing"}, NEW d \in Pages,
         Set(p, [conn[p] EXCEPT !.state = s, !.draft = d]), file' = [file EXCEPT !.writer = p],
         file.writer = Nobody, conn[p].state \in {"migrating", "open"},
         d.profile = file.profile,
         s = "upgrading" =>
           /\ file.version = conn[p].version /\ conn[p].version < Latest
           /\ d.version = file.version + 1 /\ d.scans = file.scans /\ d.builds = file.builds,
         s = "writing" =>
           /\ conn[p].state = "open" /\ ~conn[p].readOnly
           /\ d.version = file.version /\ d.scans >= file.scans /\ d.builds >= file.builds
  PROVE  MoveFits(p)
<1> DEFINE c == [conn[p] EXCEPT !.state = s, !.draft = d]
<1>1. conn[p] \in Connection /\ ConnectionFits(p, conn[p], file)  BY ConnectionFacts
<1>2. /\ file \in File /\ file.version \in 0..Latest /\ conn \in [Programs -> Connection]
      /\ Latest \in Nat \ {0} /\ MaxScans \in Nat /\ Nobody \notin Programs /\ FileFits(file)
  BY FileFacts
<1>3. /\ file' \in File /\ SamePages(file', file) /\ file'.writer = p
      /\ file'.exists = file.exists
  BY <1>2 DEF File, SamePages
<1>4. /\ c \in Connection /\ c.state = s /\ c.draft = d
      /\ c.readOnly = conn[p].readOnly /\ c.version = conn[p].version
  BY <1>1 DEF Connection
<1>5. conn' = [conn EXCEPT ![p] = c] /\ conn'[p] = c  BY <1>2 DEF Set
<1> HIDE DEF c
<1>6. ConnectionFits(p, c, file')
  BY <1>1, <1>2, <1>3, <1>4 DEF ConnectionFits, SamePages
<1>7. FileFits(file')  BY <1>2, <1>3 DEF FileFits, SamePages
<1> QED  BY <1>2, <1>3, <1>5, <1>6, <1>7 DEF MoveFits, SamePages

\* What a COMMIT leaves of the file.
LEMMA InstallFacts ==
  ASSUME DatabaseInv, NEW p \in Programs, Install(conn[p].draft)
  PROVE  /\ file' \in File /\ SamePages(file', conn[p].draft) /\ file'.writer = Nobody
         /\ file'.exists = file.exists /\ file'.saves = file.saves
<1>1. conn[p].draft \in Pages /\ file \in File  BY ConnectionFacts, FileFacts
<1> QED  BY <1>1 DEF Install, File, Pages, SamePages

\* A write that is over, and the lock with it.
LEMMA WrittenFits ==
  ASSUME DatabaseInv, NEW p \in Programs, Set(p, [conn[p] EXCEPT !.state = "read"]),
         conn[p].state \in {"checked", "writing"},
         file' \in File, file'.version = file.version, file'.exists = file.exists,
         \/ file.writer = p
         \/ file.writer = Nobody,
         file'.profile = file.profile \/ (file'.profile \in SUBSET Programs
                                            /\ conn[p].state = "checked")
  PROVE  MoveFits(p)
<1> DEFINE c == [conn[p] EXCEPT !.state = "read"]
<1>1. conn[p] \in Connection /\ ConnectionFits(p, conn[p], file)
      /\ conn[p].version \in 0..Latest
  BY ConnectionFacts
<1>2. /\ file \in File /\ file.version \in 0..Latest /\ conn \in [Programs -> Connection]
      /\ Latest \in Nat \ {0} /\ MaxScans \in Nat /\ Nobody \notin Programs
      /\ "foreign" \notin Programs /\ FileFits(file) /\ ProfilesSince \in 1..Latest
  BY FileFacts
<1>3. /\ c \in Connection /\ c.state = "read"
      /\ c.readOnly = conn[p].readOnly /\ c.version = conn[p].version
  BY <1>1 DEF Connection
<1>4. conn' = [conn EXCEPT ![p] = c] /\ conn'[p] = c  BY <1>2 DEF Set
<1> HIDE DEF c
<1>5. ConnectionFits(p, c, file')  BY <1>1, <1>2, <1>3 DEF ConnectionFits
<1>6. file'.version >= file.version  BY <1>2
<1>7. "foreign" \in file'.profile => "foreign" \in file.profile  BY <1>2
<1>8. FileFits(file')
  <2>1. conn[p].state = "checked" => file.version >= ProfilesSince
    BY <1>1, <1>2 DEF ConnectionFits
  <2> QED  BY <1>2, <2>1 DEF FileFits
<1> QED  BY <1>2, <1>4, <1>5, <1>6, <1>7, <1>8 DEF MoveFits

\* Every step is of one of these kinds.
LEMMA MoverFits ==
  ASSUME DatabaseInv, NEW p \in Programs, DatabaseStep(p)
  PROVE  MoveFits(p)
<1>1. /\ conn[p] \in Connection /\ ConnectionFits(p, conn[p], file)
      /\ conn[p].version \in 0..Latest /\ conn[p].found \in 0..MaxScans
      /\ conn[p].draft \in Pages
  BY ConnectionFacts
<1>2. /\ file \in File /\ file.version \in 0..Latest /\ file.scans \in 0..MaxScans
      /\ file.builds \in 0..MaxScans /\ file.profile \in Profiles /\ file.saves \in Nat
      /\ FileFits(file) /\ conn \in [Programs -> Connection]
      /\ Latest \in Nat \ {0} /\ MaxScans \in Nat /\ ProfilesSince \in 1..Latest
      /\ Nobody \notin Programs /\ "foreign" \notin Programs
  BY FileFacts
<1>3. ASSUME NEW readOnly \in BOOLEAN, Connect(p, readOnly)  PROVE MoveFits(p)
  <2> DEFINE c == [NoConnection EXCEPT !.state = "id", !.readOnly = readOnly]
  <2>1. conn' = [conn EXCEPT ![p] = c] /\ conn'[p] = c
    BY <1>2, <1>3 DEF Connect, Set
  <2>2. file' = [file EXCEPT !.exists = TRUE]  BY <1>3 DEF Connect
  <2>3. /\ file' \in File /\ SamePages(file', file) /\ file'.writer = file.writer
        /\ file'.exists
    BY <1>2, <2>2 DEF File, SamePages
  <2>4. NoConnection \in Connection /\ NoConnection.version = 0
    BY <1>2 DEF NoConnection, Connection, Pages, Profiles
  <2>5. c \in Connection /\ c.state = "id" /\ c.version = 0
    BY <2>4 DEF Connection
  <2> HIDE DEF c
  <2>6. ConnectionFits(p, c, file')  BY <1>2, <2>3, <2>5 DEF ConnectionFits, SamePages
  <2>7. FileFits(file')  BY <1>2, <2>3 DEF FileFits, SamePages
  <2> QED  BY <1>2, <2>1, <2>3, <2>6, <2>7 DEF MoveFits, SamePages
<1>4. CASE ReadId(p)
  <2> DEFINE c == [conn[p] EXCEPT !.state = "version", !.id = file.version > 0]
  <2>1. Set(p, c) /\ file' = file  BY <1>4 DEF ReadId
  <2>2. conn[p].state = "id"  BY <1>4 DEF ReadId, InState
  <2>3. PICK b \in BOOLEAN : b = (file.version > 0)
    <3>1. CASE file.version > 0  BY <3>1, Zenon
    <3>2. CASE ~(file.version > 0)
      <4>1. (file.version > 0) = FALSE  BY <1>2, <3>2
      <4> QED  BY <4>1, Zenon
    <3> QED  BY <3>1, <3>2
  <2>4. c = [conn[p] EXCEPT !.state = "version", !.id = b]  BY <2>3, Zenon
  <2>5. /\ c \in Connection /\ c.state = "version"
        /\ c.readOnly = conn[p].readOnly /\ c.version = conn[p].version
        /\ c.draft = conn[p].draft
    BY <1>1, <2>4 DEF Connection
  <2> HIDE DEF c
  <2>6. ConnectionFits(p, c, file)  BY <1>1, <1>2, <2>2, <2>5 DEF ConnectionFits
  <2> QED  BY <2>1, <2>6, ChangeFits
<1>5. CASE ReadVersion(p)
  <2> DEFINE c == [conn[p] EXCEPT !.state = "tables", !.version = file.version]
  <2>1. Set(p, c) /\ file' = file  BY <1>5 DEF ReadVersion
  <2>2. conn[p].state = "version"
    BY <1>1, <1>2, <1>5 DEF ReadVersion, InState
  <2>3. c \in Connection  BY <1>1, <1>2, <2>2 DEF Connection
  <2>4. /\ c.state = "tables" /\ c.version = file.version /\ c.readOnly = conn[p].readOnly
        /\ c.draft = conn[p].draft
    BY <1>1, <2>2 DEF Connection
  <2> HIDE DEF c
  <2>5. ConnectionFits(p, c, file)
    BY <1>1, <1>2, <2>2, <2>3, <2>4 DEF ConnectionFits
  <2> QED  BY <2>1, <2>5, ChangeFits
<1>6. CASE CountTables(p)
  <2> DEFINE c == [conn[p] EXCEPT !.state = "judge", !.empty = file.version = 0]
  <2>1. Set(p, c) /\ file' = file  BY <1>6 DEF CountTables
  <2>2. conn[p].state = "tables"  BY <1>6 DEF CountTables, InState
  <2>3. PICK b \in BOOLEAN : b = (file.version = 0)
    <3>1. CASE file.version = 0  BY <3>1, Zenon
    <3>2. CASE file.version # 0  BY <3>2, Zenon
    <3> QED  BY <3>1, <3>2
  <2>4. c = [conn[p] EXCEPT !.state = "judge", !.empty = b]  BY <2>3, Zenon
  <2>5. /\ c \in Connection /\ c.state = "judge"
        /\ c.readOnly = conn[p].readOnly /\ c.version = conn[p].version
        /\ c.draft = conn[p].draft
    BY <1>1, <2>4 DEF Connection
  <2> HIDE DEF c
  <2>6. ConnectionFits(p, c, file)  BY <1>1, <1>2, <2>2, <2>5 DEF ConnectionFits
  <2> QED  BY <2>1, <2>6, ChangeFits
<1>7. CASE Accept(p)
  <2>1. conn[p].state = "judge" /\ file' = file  BY <1>7 DEF Accept, InState
  <2>2. CASE LooksNew(conn[p]) /\ Goes(p, "migrating")
    <3> DEFINE c == [conn[p] EXCEPT !.state = "migrating"]
    <3>1. Set(p, c)  BY <2>2 DEF Goes
    <3>2. /\ c \in Connection /\ c.state = "migrating"
          /\ c.readOnly = conn[p].readOnly /\ c.version = conn[p].version
          /\ c.draft = conn[p].draft
      BY <1>1 DEF Connection
    <3> HIDE DEF c
    <3>3. ConnectionFits(p, c, file)  BY <1>1, <1>2, <2>1, <3>2 DEF ConnectionFits
    <3> QED  BY <2>1, <3>1, <3>3, ChangeFits
  <2>3. ASSUME NEW s \in {"open", "migrating"}, conn[p].readOnly \/ s = "migrating",
               Set(p, [conn[p] EXCEPT !.version = file.version, !.state = s])
        PROVE  MoveFits(p)
    <3> DEFINE c == [conn[p] EXCEPT !.version = file.version, !.state = s]
    <3>1. Set(p, c)  BY <2>3
    <3>2. /\ c \in Connection /\ c.state = s
          /\ c.readOnly = conn[p].readOnly /\ c.version = file.version
          /\ c.draft = conn[p].draft
      BY <1>1, <1>2 DEF Connection
    <3> HIDE DEF c
    <3>3. ConnectionFits(p, c, file)  BY <1>1, <1>2, <2>1, <2>3, <3>2 DEF ConnectionFits
    <3> QED  BY <2>1, <3>1, <3>3, ChangeFits
  <2>4. CASE conn[p].readOnly /\ Set(p, [conn[p] EXCEPT !.version = file.version, !.state = "open"])
    BY <2>3, <2>4
  <2>5. CASE Set(p, [conn[p] EXCEPT !.version = file.version, !.state = "migrating"])
    BY <2>3, <2>5
  <2>6. CASE Set(p, [conn[p] EXCEPT !.version = file.version,
                       !.state = IF conn[p].readOnly THEN "open" ELSE "migrating"])
    <3>1. CASE conn[p].readOnly
      <4>1. (IF conn[p].readOnly THEN "open" ELSE "migrating") = "open"  BY <3>1
      <4> QED  BY <2>4, <2>6, <3>1, <4>1, Zenon
    <3>2. CASE ~conn[p].readOnly
      <4>1. (IF conn[p].readOnly THEN "open" ELSE "migrating") = "migrating"  BY <3>2
      <4> QED  BY <2>5, <2>6, <4>1, Zenon
    <3> QED  BY <3>1, <3>2
  <2> QED  BY <1>7, <2>2, <2>6, Zenon DEF Accept
<1>8. CASE UpToDate(p)
  <2> DEFINE c == [conn[p] EXCEPT !.state = "open"]
  <2>1. Set(p, c) /\ file' = file  BY <1>8 DEF UpToDate, Goes
  <2>2. conn[p].state = "migrating" /\ conn[p].version = Latest
    BY <1>1, <1>2, <1>8 DEF UpToDate, InState
  <2>3. c \in Connection  BY <1>1, <1>2, <2>2 DEF Connection
  <2>4. /\ c.state = "open" /\ c.readOnly = conn[p].readOnly /\ c.version = conn[p].version
        /\ c.draft = conn[p].draft
    BY <1>1, <2>2 DEF Connection
  <2> HIDE DEF c
  <2>5. ConnectionFits(p, c, file)
    BY <1>1, <1>2, <2>2, <2>3, <2>4 DEF ConnectionFits
  <2> QED  BY <2>1, <2>5, ChangeFits
<1>9. CASE BeginUpgrade(p)
  <2> DEFINE d == [Committed EXCEPT !.version = conn[p].version + 1]
  <2>1. /\ conn[p].state = "migrating" /\ conn[p].version < Latest
        /\ file.writer = Nobody /\ file.version = conn[p].version
        /\ Set(p, [conn[p] EXCEPT !.state = "upgrading", !.draft = d])
        /\ file' = [file EXCEPT !.writer = p]
    BY <1>9 DEF BeginUpgrade, Upgrade, InState
  <2>2. PICK v \in 0..Latest : v = conn[p].version + 1  BY <1>1, <1>2, <2>1
  <2>3. d = [Committed EXCEPT !.version = v]  BY <2>2, Zenon
  <2>4. /\ d \in Pages /\ d.version = file.version + 1 /\ d.scans = file.scans
        /\ d.builds = file.builds /\ d.profile = file.profile
    BY <2>1, <2>2, <2>3, CommittedFacts DEF Pages, SamePages
  <2> HIDE DEF d
  <2> QED  BY <2>1, <2>4, LockedFits
<1>10. CASE CommitUpgrade(p)
  <2> DEFINE s == IF conn[p].version = 0 THEN "judge" ELSE "migrating"
             c == [conn[p] EXCEPT !.version = conn[p].version + 1, !.id = TRUE, !.state = s]
  <2>1. /\ conn[p].state = "upgrading" /\ Set(p, c) /\ Install(conn[p].draft)
    BY <1>10 DEF CommitUpgrade, InState
  <2>2. /\ file.version = conn[p].version /\ file.version < Latest /\ file.writer = p
        /\ file.exists
        /\ conn[p].draft.version = file.version + 1 /\ conn[p].draft.profile = file.profile
    BY <1>1, <2>1 DEF ConnectionFits
  <2>3. s \in {"judge", "migrating"}  OBVIOUS
  <2> HIDE DEF s
  <2>4. PICK v \in 0..Latest : v = file.version + 1  BY <1>2, <2>2
  <2>5. c = [conn[p] EXCEPT !.version = v, !.id = TRUE, !.state = s]  BY <2>2, <2>4, Zenon
  <2>6. c \in Connection /\ c.state = s /\ c.version = file.version + 1
    BY <1>1, <2>3, <2>4, <2>5 DEF Connection
  <2>7. /\ file' \in File /\ file'.version = file.version + 1 /\ file'.profile = file.profile
        /\ file'.exists
    BY <2>1, <2>2, InstallFacts DEF SamePages
  <2>8. conn' = [conn EXCEPT ![p] = c] /\ conn'[p] = c  BY <1>2, <2>1 DEF Set
  <2> HIDE DEF c
  <2>9. ConnectionFits(p, c, file')
    BY <1>2, <2>3, <2>6, <2>7 DEF ConnectionFits
  <2>10. FileFits(file')  BY <1>2, <2>7 DEF FileFits
  <2> QED  BY <1>2, <2>2, <2>7, <2>8, <2>9, <2>10 DEF MoveFits
<1>11. CASE FindLatest(p)
  <2> DEFINE s == IF file.scans = 0 THEN "read" ELSE "reading"
             c == [conn[p] EXCEPT !.found = file.scans, !.state = s]
  <2>1. Set(p, c) /\ file' = file /\ conn[p].state = "open"  BY <1>11 DEF FindLatest, InState
  <2>2. s \in {"read", "reading"}  OBVIOUS
  <2> HIDE DEF s
  <2>3. /\ c \in Connection /\ c.state = s
        /\ c.readOnly = conn[p].readOnly /\ c.version = conn[p].version
    BY <1>1, <1>2, <2>2 DEF Connection
  <2> HIDE DEF c
  <2>4. ConnectionFits(p, c, file)  BY <1>1, <1>2, <2>1, <2>2, <2>3 DEF ConnectionFits
  <2> QED  BY <2>1, <2>4, ChangeFits
<1>12. CASE SnapshotRead(p)
  <2> DEFINE c == [conn[p] EXCEPT !.state = "read"]
  <2>1. Set(p, c) /\ file' = file  BY <1>12 DEF SnapshotRead, Goes
  <2>2. conn[p].state = "reading"  BY <1>12 DEF SnapshotRead, InState
  <2>3. c \in Connection  BY <1>1, <1>2, <2>2 DEF Connection
  <2>4. c.state = "read" /\ c.readOnly = conn[p].readOnly /\ c.version = conn[p].version
    BY <1>1, <2>2 DEF Connection
  <2> HIDE DEF c
  <2>5. ConnectionFits(p, c, file)
    BY <1>1, <1>2, <2>2, <2>3, <2>4 DEF ConnectionFits
  <2> QED  BY <2>1, <2>5, ChangeFits
<1>13. CASE ~conn[p].readOnly /\ CheckProfile(p)
  <2> DEFINE c == [conn[p] EXCEPT !.state = "checked"]
  <2>1. Set(p, c) /\ file' = file  BY <1>13 DEF CheckProfile, Goes
  <2>2. /\ conn[p].state = "open" /\ ~conn[p].readOnly /\ conn[p].version = Latest
        /\ "foreign" \notin file.profile
    BY <1>1, <1>2, <1>13 DEF CheckProfile, InState, Decodes, Configuration, ConnectionFits
  <2>3. c \in Connection  BY <1>1, <1>2, <2>2 DEF Connection
  <2>4. /\ c.state = "checked" /\ c.readOnly = conn[p].readOnly /\ c.version = conn[p].version
        /\ c.draft = conn[p].draft
    BY <1>1, <2>2 DEF Connection
  <2> HIDE DEF c
  <2>5. ConnectionFits(p, c, file)
    BY <1>1, <1>2, <2>2, <2>3, <2>4 DEF ConnectionFits
  <2> QED  BY <2>1, <2>5, ChangeFits
<1>14. ASSUME NEW profile \in SUBSET Programs, WriteProfile(p, profile)  PROVE MoveFits(p)
  <2>1. /\ conn[p].state = "checked" /\ Set(p, [conn[p] EXCEPT !.state = "read"])
        /\ file' = [file EXCEPT !.profile = profile, !.saves = file.saves + 1]
        /\ file.writer = Nobody
    BY <1>14 DEF WriteProfile, InState, Goes
  <2>2. PICK n \in Nat : n = file.saves + 1  BY <1>2
  <2>3. file' = [file EXCEPT !.profile = profile, !.saves = n]  BY <2>1, <2>2, Zenon
  <2>4. /\ file' \in File /\ file'.version = file.version /\ file'.exists = file.exists
        /\ file'.profile = profile
    BY <1>2, <2>3 DEF File, Profiles
  <2> QED  BY <2>1, <2>4, WrittenFits
<1>15. ASSUME NEW table \in {"scan", "build"}, ~conn[p].readOnly, BeginWrite(p, table)
       PROVE  MoveFits(p)
  <2>1. conn[p].state = "open" /\ file.writer = Nobody /\ file' = [file EXCEPT !.writer = p]
    BY <1>15 DEF BeginWrite, InState
  <2>2. ASSUME NEW d \in Pages, d.version = file.version, d.profile = file.profile,
               d.scans >= file.scans, d.builds >= file.builds,
               Set(p, [conn[p] EXCEPT !.state = "writing", !.draft = d])
        PROVE  MoveFits(p)
    BY <1>15, <2>1, <2>2, LockedFits
  <2>3. Committed \in Pages /\ SamePages(Committed, file)  BY CommittedFacts
  <2>4. CASE /\ file.scans < MaxScans
             /\ Set(p, [conn[p] EXCEPT !.state = "writing",
                                       !.draft = [Committed EXCEPT !.scans = @ + 1]])
    <3>1. PICK n \in 0..MaxScans : n = Committed.scans + 1  BY <1>2, <2>3, <2>4 DEF SamePages
    <3> DEFINE d == [Committed EXCEPT !.scans = n]
    <3>2. Set(p, [conn[p] EXCEPT !.state = "writing", !.draft = d])  BY <2>4, <3>1, Zenon
    <3>3. /\ d \in Pages /\ d.version = file.version /\ d.profile = file.profile
          /\ d.scans >= file.scans /\ d.builds >= file.builds
      BY <1>2, <2>3, <3>1 DEF Pages, SamePages
    <3> QED  BY <2>2, <3>2, <3>3
  <2>5. CASE /\ file.builds < MaxScans
             /\ Set(p, [conn[p] EXCEPT !.state = "writing",
                                       !.draft = [Committed EXCEPT !.builds = @ + 1]])
    <3>1. PICK n \in 0..MaxScans : n = Committed.builds + 1  BY <1>2, <2>3, <2>5 DEF SamePages
    <3> DEFINE d == [Committed EXCEPT !.builds = n]
    <3>2. Set(p, [conn[p] EXCEPT !.state = "writing", !.draft = d])  BY <2>5, <3>1, Zenon
    <3>3. /\ d \in Pages /\ d.version = file.version /\ d.profile = file.profile
          /\ d.scans >= file.scans /\ d.builds >= file.builds
      BY <1>2, <2>3, <3>1 DEF Pages, SamePages
    <3> QED  BY <2>2, <3>2, <3>3
  <2> QED  BY <1>15, <2>4, <2>5 DEF BeginWrite
<1>16. CASE CommitWrite(p)
  <2>1. /\ conn[p].state = "writing" /\ Set(p, [conn[p] EXCEPT !.state = "read"])
        /\ Install(conn[p].draft)
    BY <1>16 DEF CommitWrite, InState, Goes
  <2>2. /\ file.writer = p
        /\ conn[p].draft.version = file.version /\ conn[p].draft.profile = file.profile
    BY <1>1, <2>1 DEF ConnectionFits
  <2>3. /\ file' \in File /\ file'.version = file.version /\ file'.exists = file.exists
        /\ file'.profile = file.profile
    BY <2>1, <2>2, InstallFacts DEF SamePages
  <2> QED  BY <2>1, <2>2, <2>3, WrittenFits
<1>17. CASE Disconnect(p)
  <2>1. conn' = [conn EXCEPT ![p] = NoConnection] /\ conn'[p] = NoConnection
    BY <1>2, <1>17 DEF Disconnect, Set
  <2>2. PICK w \in Programs \cup {Nobody} :
          w = (IF file.writer = p THEN Nobody ELSE file.writer)
    BY <1>2 DEF File
  <2>3. file' = [file EXCEPT !.writer = w]  BY <1>17, <2>2 DEF Disconnect, Released
  <2>4. /\ file' \in File /\ SamePages(file', file) /\ file'.exists = file.exists
        /\ file'.writer = w
    BY <1>2, <2>3 DEF File, SamePages
  <2>5. ConnectionFits(p, NoConnection, file')
    <3>1. NoConnection \in Connection /\ NoConnection.state = "closed"
          /\ NoConnection.version = 0
      BY <1>2 DEF NoConnection, Connection, Pages, Profiles
    <3> QED  BY <1>2, <2>4, <3>1 DEF ConnectionFits, SamePages
  <2>6. FileFits(file')  BY <1>2, <2>4 DEF FileFits, SamePages
  <2> QED  BY <1>2, <2>1, <2>2, <2>4, <2>5, <2>6 DEF MoveFits, SamePages
<1>18. CASE UNCHANGED dbVars
  <2>1. file' = file /\ conn' = conn  BY <1>18 DEF dbVars
  <2>2. conn' = [conn EXCEPT ![p] = conn'[p]]  BY <1>2, <2>1
  <2>3. ConnectionFits(p, conn'[p], file')  BY <1>1, <2>1
  <2>4. file'.version >= file.version  BY <1>2, <2>1
  <2> QED  BY <1>2, <2>1, <2>2, <2>3, <2>4 DEF MoveFits, SamePages
<1> QED
  BY <1>3, <1>4, <1>5, <1>6, <1>7, <1>8, <1>9, <1>10, <1>11, <1>12, <1>13, <1>14, <1>15, <1>16,
     <1>17, <1>18 DEF DatabaseStep, QuietStep, Constructor

LEMMA DatabaseStepKeeps ==
  ASSUME DatabaseInv, NEW p \in Programs, DatabaseStep(p)
  PROVE  DatabaseInv'
<1>1. MoveFits(p)  BY MoverFits
<1>2. conn' \in [Programs -> Connection]
  BY <1>1 DEF MoveFits, DatabaseInv, DatabaseTypeOK, ConnectionFits
<1>3. ASSUME NEW q \in Programs  PROVE ConnectionFits(q, conn'[q], file')
  <2>1. CASE q = p  BY <1>1, <2>1 DEF MoveFits
  <2>2. CASE q # p
    <3>1. conn'[q] = conn[q]  BY <1>1, <2>2 DEF MoveFits, DatabaseInv, DatabaseTypeOK
    <3> QED  BY <1>1, <2>2, <3>1, OthersStillFit DEF MoveFits
  <2> QED  BY <2>1, <2>2
<1> QED  BY <1>1, <1>2, <1>3 DEF MoveFits, DatabaseInv, DatabaseTypeOK

-----------------------------------------------------------------------------
(* Programs and their commands *)

\* A connection is held only in a use of the database, and opened as that use needs.
UseFits(p) ==
  ~InState(p, "closed") =>
    /\ run[p].exit = "running" /\ run[p].at <= Len(Plan[run[p].command])
    /\ Use(p) \in IF conn[p].readOnly THEN {"load", "read"} ELSE {"import", "record", "save"}

Savers == {"config", "suppress", "prepare", "window"}

\* What a command r has saved when its connection is c.
CommandFits(r, c) ==
  /\ "profile" \in r.wrote =>
       /\ r.command \in Savers
       /\ r.exit = "running" =>
            r.at >= Len(Plan[r.command]) /\ (r.at = Len(Plan[r.command]) => c.state = "read")
  /\ "build" \in r.wrote => r.command \in {"build", "prepare"}
  /\ "scan" \in r.wrote => r.command \in {"scan", "prepare"}
  /\ r.exit = "running" /\ r.at <= Len(Plan[r.command]) /\ c.state = "read" /\ ~c.readOnly =>
       /\ Plan[r.command][r.at] = "import" => "scan" \in r.wrote
       /\ Plan[r.command][r.at] = "record" => "build" \in r.wrote
       /\ Plan[r.command][r.at] = "save" => "profile" \in r.wrote
  /\ r.exit = "running" /\ r.at > Len(Plan[r.command]) =>
       /\ r.command \in Savers => "profile" \in r.wrote
       /\ r.command = "scan" => "scan" \in r.wrote
       /\ r.command # "build"
  /\ r.exit = "running" /\ r.command = "prepare" /\ r.at >= 8 =>
       "build" \in r.wrote /\ r.outcome = "passed"

TellsTheTruth(r) ==
  /\ r.exit = "0" =>
       /\ r.command \in {"config", "suppress", "prepare", "window"} => "profile" \in r.wrote
       /\ r.command \in {"build", "prepare"} => "build" \in r.wrote /\ r.outcome = "passed"
       /\ r.command = "scan" => "scan" \in r.wrote
  /\ r.exit = "130" => IF r.command = "scan" THEN r.wrote = {} ELSE r.outcome = "cancelled"
  /\ r.exit \in {"1", "2", "130"} => "profile" \notin r.wrote

CliInv ==
  /\ DatabaseInv
  /\ run \in [Programs -> Run]
  /\ \A p \in Programs :
       UseFits(p) /\ CommandFits(run[p], conn[p]) /\ TellsTheTruth(run[p])

\* Where in the commands their uses stand.
LEMMA PlanFacts ==
  ASSUME NEW c \in Commands
  PROVE  /\ Commands =
              {"show", "config", "suppress", "scan", "build", "prepare", "query", "window"}
         /\ Len(Plan[c]) \in 1..8
         /\ c = "prepare" => Len(Plan[c]) = 8
         /\ c \in {"scan", "build"} => Len(Plan[c]) = 4
         /\ c \in Savers => Plan[c][Len(Plan[c])] = "save"
         /\ \A i \in 1..Len(Plan[c]) :
              /\ Plan[c][i] = "save" => c \in Savers /\ i = Len(Plan[c])
              /\ Plan[c][i] = "import" =>
                   c \in {"scan", "prepare"} /\ i = 4
              /\ Plan[c][i] = "record" =>
                   c \in {"build", "prepare"} /\ i = (IF c = "build" THEN 4 ELSE 7)
              /\ Plan[c][i] \in {"load", "read", "listen"} =>
                   /\ i < Len(Plan[c]) \/ c \in {"show", "query"}
                   /\ c = "prepare" => i <= 6
<1>1. Commands = {"show", "config", "suppress", "scan", "build", "prepare", "query", "window"}
  BY DEF Commands, Plan
<1>2. CASE c = "show"  BY <1>1, <1>2 DEF Plan, Savers
<1>3. CASE c = "config"  BY <1>1, <1>3 DEF Plan, Savers
<1>4. CASE c = "suppress"  BY <1>1, <1>4 DEF Plan, Savers
<1>5. CASE c = "scan"  BY <1>1, <1>5 DEF Plan, Savers
<1>6. CASE c = "build"  BY <1>1, <1>6 DEF Plan, Savers
<1>7. CASE c = "prepare"  BY <1>1, <1>7 DEF Plan, Savers
<1>8. CASE c = "query"  BY <1>1, <1>8 DEF Plan, Savers
<1>9. CASE c = "window"  BY <1>1, <1>9 DEF Plan, Savers
<1> QED  BY <1>1, <1>2, <1>3, <1>4, <1>5, <1>6, <1>7, <1>8, <1>9

\* Going on to the next use saves nothing and keeps the type.
LEMMA AdvanceFits ==
  ASSUME NEW r \in Run, NEW found \in BOOLEAN, r.exit = "running", r.at <= Len(Plan[r.command]),
         NEW c \in Connection, NEW d \in Connection, d.state = "closed",
         CommandFits(r, c), TellsTheTruth(r),
         \/ Plan[r.command][r.at] \in {"load", "read", "listen"}
         \/ Plan[r.command][r.at] = "import" /\ (r.command = "scan" => "scan" \in r.wrote)
         \/ /\ Plan[r.command][r.at] = "record" /\ r.command = "prepare"
            /\ "build" \in r.wrote /\ r.outcome = "passed"
         \/ Plan[r.command][r.at] = "save" /\ "profile" \in r.wrote
  PROVE  /\ Advance(r, found) \in Run
         /\ CommandFits(Advance(r, found), d)
         /\ TellsTheTruth(Advance(r, found))
<1> DEFINE n == r.at + (IF r.command = "prepare" /\ r.at = 2 /\ found THEN 3 ELSE 1)
           s == [r EXCEPT !.at = n]
           last == Len(Plan[r.command])
           use == Plan[r.command][r.at]
<1>1. Advance(r, found) = s  BY DEF Advance
<1>2. r.command \in Commands /\ r.at \in 1..9  BY DEF Run
<1>3. /\ Commands = {"show", "config", "suppress", "scan", "build", "prepare", "query", "window"}
      /\ last \in 1..8
      /\ r.command = "prepare" => last = 8
      /\ r.command \in {"scan", "build"} => last = 4
  BY <1>2, PlanFacts
<1>4. r.at \in 1..last  BY <1>2, <1>3
<1>5. /\ use = "save" => r.command \in Savers /\ r.at = last
      /\ use = "import" => r.command \in {"scan", "prepare"} /\ r.at = 4
      /\ use = "record" =>
           r.command \in {"build", "prepare"} /\ r.at = (IF r.command = "build" THEN 4 ELSE 7)
      /\ use \in {"load", "read", "listen"} =>
           /\ r.at < last \/ r.command \in {"show", "query"}
           /\ r.command = "prepare" => r.at <= 6
  BY <1>2, <1>4, PlanFacts
<1>6. n = r.at + 1 \/ (r.command = "prepare" /\ r.at = 2 /\ n = r.at + 3)
  OBVIOUS
<1>7. n \in 1..9 /\ n > r.at
  <2>1. r.at \in 1..8  BY <1>3, <1>4
  <2> HIDE DEF n, last
  <2> QED  BY <1>6, <2>1
<1>8. s \in Run /\ s.at = n /\ s.command = r.command /\ s.wrote = r.wrote /\ s.exit = "running"
      /\ s.outcome = r.outcome
  <2> HIDE DEF n
  <2> QED  BY <1>7 DEF Run
<1>9. \/ use \in {"load", "read", "listen"}
      \/ use = "import" /\ (r.command = "scan" => "scan" \in r.wrote)
      \/ use = "record" /\ r.command = "prepare" /\ "build" \in r.wrote /\ r.outcome = "passed"
      \/ use = "save" /\ "profile" \in r.wrote
  OBVIOUS
<1>10. /\ "profile" \in r.wrote => r.at >= last /\ r.command \in Savers
       /\ "build" \in r.wrote => r.command \in {"build", "prepare"}
       /\ "scan" \in r.wrote => r.command \in {"scan", "prepare"}
       /\ r.command = "prepare" /\ r.at >= 8 => "build" \in r.wrote /\ r.outcome = "passed"
  BY DEF CommandFits
<1>11. /\ last = Len(Plan[s.command])
       /\ "profile" \in s.wrote => s.at > last /\ s.command \in Savers
       /\ s.at > last =>
            /\ s.command \in Savers => "profile" \in s.wrote
            /\ s.command = "scan" => "scan" \in s.wrote
            /\ s.command # "build"
       /\ s.command = "prepare" /\ s.at >= 8 => "build" \in s.wrote /\ s.outcome = "passed"
  <2>1. last = Len(Plan[s.command])  BY <1>8
  <2> HIDE DEF n, s, last, use
  <2>2. "profile" \in s.wrote => s.at > last /\ s.command \in Savers
    BY <1>3, <1>4, <1>7, <1>8, <1>10
  <2>3. s.at > last =>
          /\ s.command \in Savers => "profile" \in s.wrote
          /\ s.command = "scan" => "scan" \in s.wrote
          /\ s.command # "build"
    BY <1>3, <1>4, <1>5, <1>6, <1>8, <1>9 DEF Savers
  <2>4. s.command = "prepare" /\ s.at >= 8 => "build" \in s.wrote /\ s.outcome = "passed"
    BY <1>3, <1>4, <1>5, <1>6, <1>8, <1>9, <1>10
  <2> QED  BY <2>1, <2>2, <2>3, <2>4
<1>12. CommandFits(s, d)
  <2> HIDE DEF n, s, use
  <2>1. s.at \in 1..9  BY <1>7, <1>8
  <2>2. Len(Plan[s.command]) \in 1..8  BY <1>3, <1>11
  <2> HIDE DEF last
  <2> QED  BY <1>8, <1>10, <1>11, <2>1, <2>2 DEF CommandFits
<1>13. TellsTheTruth(s)  BY <1>8 DEF TellsTheTruth
<1> QED  BY <1>1, <1>8, <1>12, <1>13

-----------------------------------------------------------------------------
(* A step of a program, by what becomes of its command *)

\* What a step of p leaves of its command and of the use it makes of the database.
StepFits(p) ==
  /\ DatabaseStep(p)
  /\ run' = [run EXCEPT ![p] = run'[p]]
  /\ run'[p] \in Run
  /\ UseFits(p)'
  /\ CommandFits(run'[p], conn'[p])
  /\ TellsTheTruth(run'[p])

\* What is known of the use that is being made.
LEMMA UseFacts ==
  ASSUME CliInv, NEW p \in Programs, run[p].exit = "running", run[p].at <= Len(Plan[run[p].command])
  PROVE  /\ run[p] \in Run /\ run[p].command \in Commands
         /\ Len(Plan[run[p].command]) \in 1..8 /\ run[p].at \in 1..Len(Plan[run[p].command])
         /\ CommandFits(run[p], conn[p]) /\ TellsTheTruth(run[p]) /\ UseFits(p)
         /\ Use(p) = "save" => run[p].command \in Savers
         /\ Use(p) = "import" => run[p].command \in {"scan", "prepare"}
         /\ Use(p) = "record" => run[p].command \in {"build", "prepare"}
         /\ "profile" \in run[p].wrote => Use(p) = "save" /\ conn[p].state = "read"
         /\ Use(p) = "record" =>
              (run[p].command = "prepare" => run[p].at = 7)
<1>1. run[p] \in Run /\ run[p].command \in Commands /\ run[p].at \in 1..9
  BY DEF CliInv, Run
<1>2. Len(Plan[run[p].command]) \in 1..8  BY <1>1, PlanFacts
<1>3. run[p].at \in 1..Len(Plan[run[p].command])  BY <1>1, <1>2
<1>4. CommandFits(run[p], conn[p]) /\ TellsTheTruth(run[p]) /\ UseFits(p)  BY DEF CliInv
<1>5. /\ Use(p) = "save" => run[p].command \in Savers
      /\ Use(p) = "import" => run[p].command \in {"scan", "prepare"}
      /\ Use(p) = "record" => run[p].command \in {"build", "prepare"}
      /\ Use(p) = "record" => (run[p].command = "prepare" => run[p].at = 7)
  BY <1>1, <1>3, PlanFacts DEF Use
<1>6. ASSUME "profile" \in run[p].wrote  PROVE Use(p) = "save" /\ conn[p].state = "read"
  <2>1. run[p].command \in Savers /\ run[p].at >= Len(Plan[run[p].command])
        /\ (run[p].at = Len(Plan[run[p].command]) => conn[p].state = "read")
    BY <1>4, <1>6 DEF CommandFits
  <2>2. run[p].at = Len(Plan[run[p].command])  BY <1>2, <1>3, <2>1
  <2> QED  BY <1>1, <2>1, <2>2, PlanFacts DEF Use
<1> QED  BY <1>1, <1>2, <1>3, <1>4, <1>5, <1>6

\* The connection moves on within the use.
LEMMA WithinUse ==
  ASSUME CliInv, NEW p \in Programs, DatabaseStep(p), run' = run,
         run[p].exit = "running", run[p].at <= Len(Plan[run[p].command]),
         conn[p].state # "read",
         Use(p) \in IF conn'[p].readOnly THEN {"load", "read"} ELSE {"import", "record", "save"},
         conn'[p].state = "read" => conn'[p].readOnly
  PROVE  StepFits(p)
<1>1. /\ run[p] \in Run /\ CommandFits(run[p], conn[p]) /\ TellsTheTruth(run[p])
      /\ "profile" \notin run[p].wrote
  BY UseFacts
<1>2. run' = [run EXCEPT ![p] = run'[p]]  BY DEF CliInv
<1>3. UseFits(p)'  BY DEF UseFits, InState, Use
<1>4. CommandFits(run'[p], conn'[p])
  BY <1>1 DEF CommandFits
<1> QED  BY <1>1, <1>2, <1>3, <1>4 DEF StepFits

\* The commands r and s are at the same place and have saved the same.
SamePlace(r, s) ==
  r.command = s.command /\ r.at = s.at /\ r.wrote = s.wrote /\ r.exit = s.exit
  /\ r.outcome = s.outcome

LEMMA RunStays ==
  ASSUME CliInv, NEW p \in Programs, UNCHANGED run
  PROVE  run[p] \in Run /\ SamePlace(run[p], run[p]) /\ Update(p, run[p])
BY DEF CliInv, SamePlace, Update

LEMMA RunHere ==
  ASSUME CliInv, NEW p \in Programs
  PROVE  run[p] \in Run /\ SamePlace(run[p], run[p])
BY DEF CliInv, SamePlace

LEMMA ConnectUse ==
  ASSUME CliInv, NEW p \in Programs, NEW readOnly \in BOOLEAN, Connect(p, readOnly),
         NEW r \in Run, SamePlace(r, run[p]), Update(p, r),
         run[p].exit = "running", run[p].at <= Len(Plan[run[p].command]),
         Use(p) \in IF readOnly THEN {"load", "read"} ELSE {"import", "record", "save"}
  PROVE  StepFits(p)
<1>1. conn[p].state = "closed"  BY DEF Connect, InState
<1>2. conn'[p] = [NoConnection EXCEPT !.state = "id", !.readOnly = readOnly]
  BY DEF Connect, Set, CliInv, DatabaseInv, DatabaseTypeOK
<1>3. conn'[p].state = "id" /\ conn'[p].readOnly = readOnly
  <2>1. NoConnection \in Connection
    BY DatabaseAssumption DEF NoConnection, Connection, Pages, Profiles
  <2> QED  BY <1>2, <2>1 DEF Connection
<1>4. DatabaseStep(p)  BY DEF DatabaseStep, QuietStep
<1>5. run' = [run EXCEPT ![p] = r] /\ run'[p] = r  BY DEF Update, CliInv
<1>6. CommandFits(run[p], conn[p]) /\ TellsTheTruth(run[p]) /\ "profile" \notin run[p].wrote
  BY <1>1, UseFacts
<1>7. UseFits(p)'  BY <1>3, <1>5 DEF UseFits, InState, Use, SamePlace
<1>8. CommandFits(r, conn'[p])  BY <1>3, <1>6 DEF CommandFits, SamePlace
<1>9. TellsTheTruth(r)  BY <1>6 DEF TellsTheTruth, SamePlace
<1> QED  BY <1>4, <1>5, <1>7, <1>8, <1>9 DEF StepFits

\* What the use is for has been written.
LEMMA WriteUse ==
  ASSUME CliInv, NEW p \in Programs, DatabaseStep(p), NEW thing \in {"profile", "scan", "build"},
         conn'[p].state = "read", conn'[p].readOnly = conn[p].readOnly, ~InState(p, "closed"),
         Update(p, [run[p] EXCEPT !.wrote = @ \cup {thing}]),
         Doing(p, CASE thing = "profile" -> "save" [] thing = "scan" -> "import"
                    [] thing = "build" -> "record")
  PROVE  StepFits(p)
<1> DEFINE r == [run[p] EXCEPT !.wrote = run[p].wrote \cup {thing}]
<1>1. run[p].exit = "running" /\ run[p].at <= Len(Plan[run[p].command])  BY DEF Doing
<1>2. /\ Use(p) = "save" \/ thing # "profile"
      /\ Use(p) = "import" \/ thing # "scan"
      /\ Use(p) = "record" \/ thing # "build"
      /\ Use(p) \in {"save", "import", "record"}
  <2>1. CASE thing = "profile"  BY <2>1 DEF Doing
  <2>2. CASE thing = "scan"  BY <2>2 DEF Doing
  <2>3. CASE thing = "build"  BY <2>3 DEF Doing
  <2> QED  BY <2>1, <2>2, <2>3
<1>3. /\ run[p] \in Run /\ CommandFits(run[p], conn[p]) /\ TellsTheTruth(run[p]) /\ UseFits(p)
      /\ run[p].command \in Commands
      /\ Len(Plan[run[p].command]) \in 1..8 /\ run[p].at \in 1..Len(Plan[run[p].command])
      /\ Use(p) = "save" => run[p].command \in Savers
      /\ Use(p) = "import" => run[p].command \in {"scan", "prepare"}
      /\ Use(p) = "record" => run[p].command \in {"build", "prepare"}
  BY <1>1, UseFacts
<1>4. Use(p) = "save" => run[p].at = Len(Plan[run[p].command])
  BY <1>3, PlanFacts DEF Use
<1>5. run' = [run EXCEPT ![p] = r] /\ run'[p] = r  BY DEF Update, CliInv
<1>6. /\ r \in Run /\ r.command = run[p].command /\ r.at = run[p].at /\ r.exit = "running"
      /\ r.outcome = run[p].outcome /\ r.wrote = run[p].wrote \cup {thing}
  <2>1. run[p].wrote \cup {thing} \in SUBSET {"profile", "scan", "build"}  BY <1>3 DEF Run
  <2> QED  BY <1>1, <1>3, <2>1 DEF Run
<1> HIDE DEF r
<1>7. UseFits(p)'
  BY <1>1, <1>3, <1>5, <1>6 DEF UseFits, InState, Use
<1>8. CommandFits(r, conn'[p])
  <2>1. Plan[r.command][r.at] = Use(p)  BY <1>6 DEF Use
  <2>2. /\ "profile" \in r.wrote =>
             r.command \in Savers /\ r.at >= Len(Plan[r.command])
        /\ "build" \in r.wrote => r.command \in {"build", "prepare"}
        /\ "scan" \in r.wrote => r.command \in {"scan", "prepare"}
    BY <1>1, <1>2, <1>3, <1>4, <1>6 DEF CommandFits
  <2>3. /\ Use(p) = "import" => "scan" \in r.wrote
        /\ Use(p) = "record" => "build" \in r.wrote
        /\ Use(p) = "save" => "profile" \in r.wrote
    BY <1>2, <1>6
  <2>4. r.command = "prepare" /\ r.at >= 8 => "build" \in r.wrote /\ r.outcome = "passed"
    BY <1>1, <1>3, <1>6 DEF CommandFits
  <2>5. ~(r.at > Len(Plan[r.command]))  BY <1>3, <1>6
  <2> QED  BY <2>1, <2>2, <2>3, <2>4, <2>5 DEF CommandFits
<1>9. TellsTheTruth(r)  BY <1>6 DEF TellsTheTruth
<1> QED  BY <1>5, <1>6, <1>7, <1>8, <1>9 DEF StepFits

\* The connection is closed, or was never opened, and the program goes on.
LEMMA LeaveUse ==
  ASSUME CliInv, NEW p \in Programs, DatabaseStep(p), InState(p, "closed")',
         NEW r \in Run, SamePlace(r, run[p]), NEW found \in BOOLEAN, Update(p, Advance(r, found)),
         run[p].exit = "running", run[p].at <= Len(Plan[run[p].command]),
         \/ Use(p) \in {"load", "read", "listen"}
         \/ Use(p) = "import" /\ (run[p].command = "scan" => "scan" \in run[p].wrote)
         \/ Use(p) = "record" /\ run[p].command = "prepare" /\ "build" \in run[p].wrote
            /\ run[p].outcome = "passed"
         \/ Use(p) = "save" /\ "profile" \in run[p].wrote
  PROVE  StepFits(p)
<1>1. run' = [run EXCEPT ![p] = Advance(r, found)] /\ run'[p] = Advance(r, found)
  BY DEF Update, CliInv
<1>2. CommandFits(run[p], conn[p]) /\ TellsTheTruth(run[p])  BY UseFacts
<1>3. conn[p] \in Connection  BY DEF CliInv, DatabaseInv, DatabaseTypeOK
<1>4. conn'[p] \in Connection
  <2>1. DatabaseInv'  BY DatabaseStepKeeps DEF CliInv
  <2> QED  BY <2>1 DEF DatabaseInv, DatabaseTypeOK
<1>5. conn'[p].state = "closed"  BY DEF InState
<1>6. /\ CommandFits(r, conn[p]) /\ TellsTheTruth(r)
      /\ r.exit = "running" /\ r.at <= Len(Plan[r.command]) /\ Plan[r.command][r.at] = Use(p)
  BY <1>2 DEF CommandFits, TellsTheTruth, SamePlace, Use
<1>7. /\ Advance(r, found) \in Run
      /\ CommandFits(Advance(r, found), conn'[p])
      /\ TellsTheTruth(Advance(r, found))
  BY <1>3, <1>4, <1>5, <1>6, AdvanceFits DEF SamePlace
<1>8. UseFits(p)'  BY <1>5 DEF UseFits, InState
<1> QED  BY <1>1, <1>7, <1>8 DEF StepFits

\* The program ends.
LEMMA EndUse ==
  ASSUME CliInv, NEW p \in Programs, DatabaseStep(p), InState(p, "closed")',
         NEW code \in {"0", "1", "2", "130", "killed"}, Update(p, Exited(run[p], code)),
         run[p].exit = "running",
         code = "0" =>
           /\ run[p].command \in Savers => "profile" \in run[p].wrote
           /\ run[p].command \in {"build", "prepare"} =>
                "build" \in run[p].wrote /\ run[p].outcome = "passed"
           /\ run[p].command = "scan" => "scan" \in run[p].wrote,
         code = "130" => IF run[p].command = "scan" THEN run[p].wrote = {}
                                                    ELSE run[p].outcome = "cancelled",
         code \in {"1", "2", "130"} => "profile" \notin run[p].wrote
  PROVE  StepFits(p)
<1> DEFINE r == Exited(run[p], code)
<1>1. run' = [run EXCEPT ![p] = r] /\ run'[p] = r  BY DEF Update, CliInv
<1>2. run[p] \in Run /\ CommandFits(run[p], conn[p])  BY DEF CliInv
<1>3. /\ r \in Run /\ r.exit = code /\ r.command = run[p].command /\ r.wrote = run[p].wrote
      /\ r.outcome = run[p].outcome
  <2>1. PICK n \in 1..9 : n = 1  OBVIOUS
  <2>2. r = [run[p] EXCEPT !.exit = code, !.at = n, !.scope = "off", !.flag = FALSE,
                           !.cancel = FALSE]
    BY <2>1, Zenon DEF Exited
  <2> QED  BY <1>2, <2>2 DEF Run
<1> HIDE DEF r
<1>4. CommandFits(r, conn'[p])  BY <1>2, <1>3 DEF CommandFits
<1>5. TellsTheTruth(r)  BY <1>3 DEF TellsTheTruth, Savers
<1>6. UseFits(p)'  BY DEF UseFits
<1> QED  BY <1>1, <1>3, <1>4, <1>5, <1>6 DEF StepFits

\* Nothing happens to the database, the place in the command, and what was saved.
LEMMA NoUse ==
  ASSUME CliInv, NEW p \in Programs, UNCHANGED dbVars, NEW r \in Run, Update(p, r),
         run[p].exit = "running",
         r.command = run[p].command, r.at = run[p].at, r.wrote = run[p].wrote, r.exit = "running",
         r.outcome = run[p].outcome \/ (run[p].at <= Len(Plan[run[p].command]) /\ Use(p) = "record")
  PROVE  StepFits(p)
<1>1. run' = [run EXCEPT ![p] = r] /\ run'[p] = r  BY DEF Update, CliInv
<1>2. conn' = conn  BY DEF dbVars
<1>3. CommandFits(run[p], conn[p]) /\ TellsTheTruth(run[p]) /\ UseFits(p)  BY DEF CliInv
<1>4. DatabaseStep(p)  BY DEF DatabaseStep, QuietStep
<1>5. UseFits(p)'  BY <1>1, <1>2, <1>3 DEF UseFits, InState, Use
<1>6. r.command = "prepare" /\ r.at >= 8 => "build" \in r.wrote /\ r.outcome = "passed"
  <2>1. CASE r.outcome = run[p].outcome  BY <1>3, <2>1 DEF CommandFits
  <2>2. CASE run[p].at <= Len(Plan[run[p].command]) /\ Use(p) = "record"
    <3>1. run[p].command = "prepare" => run[p].at = 7  BY <2>2, UseFacts
    <3> QED  BY <3>1
  <2> QED  BY <2>1, <2>2
<1>7. CommandFits(r, conn'[p])  BY <1>2, <1>3, <1>6 DEF CommandFits
<1>8. TellsTheTruth(r)  BY DEF TellsTheTruth
<1> QED  BY <1>1, <1>4, <1>5, <1>7, <1>8 DEF StepFits

-----------------------------------------------------------------------------
(* What the actions do to the connection, as far as a use depends on it *)

LEMMA OpenFor ==
  ASSUME CliInv, NEW p \in Programs, NEW u \in {"load", "read", "import", "record", "save"},
         Doing(p, u), ~InState(p, "closed")
  PROVE  conn[p].readOnly <=> u \in {"load", "read"}
<1>1. UseFits(p) /\ conn[p].readOnly \in BOOLEAN
  BY DEF CliInv, DatabaseInv, DatabaseTypeOK, Connection
<1>2. Use(p) = u  BY DEF Doing
<1> QED  BY <1>1, <1>2 DEF UseFits

LEMMA DisconnectCloses ==
  ASSUME CliInv, NEW p \in Programs, Disconnect(p)
  PROVE  InState(p, "closed")' /\ DatabaseStep(p)
<1>1. conn'[p] = NoConnection
  BY DEF Disconnect, Set, CliInv, DatabaseInv, DatabaseTypeOK
<1> QED  BY <1>1 DEF InState, NoConnection, DatabaseStep, QuietStep

LEMMA StaysClosed ==
  ASSUME NEW p \in Programs, UNCHANGED dbVars, ~Holds(p)
  PROVE  InState(p, "closed")' /\ DatabaseStep(p)
BY DEF dbVars, Holds, InState, DatabaseStep, QuietStep

LEMMA GoesFacts ==
  ASSUME CliInv, NEW p \in Programs,
         NEW s \in {"open", "migrating", "upgrading", "read", "checked", "writing"}, Goes(p, s)
  PROVE  conn'[p].state = s /\ conn'[p].readOnly = conn[p].readOnly
<1>1. conn[p] \in Connection /\ conn \in [Programs -> Connection]
  BY DEF CliInv, DatabaseInv, DatabaseTypeOK
<1>2. conn'[p] = [conn[p] EXCEPT !.state = s]  BY <1>1 DEF Goes, Set
<1> QED  BY <1>1, <1>2 DEF Connection

LEMMA ConstructorFacts ==
  ASSUME CliInv, NEW p \in Programs, Constructor(p)
  PROVE  /\ conn[p].state \in {"id", "version", "tables", "judge", "migrating", "upgrading"}
         /\ conn'[p].state \notin {"closed", "read"}
         /\ conn'[p].readOnly = conn[p].readOnly
<1>1. conn[p] \in Connection /\ conn \in [Programs -> Connection]
  BY DEF CliInv, DatabaseInv, DatabaseTypeOK
<1>2. CASE ReadId(p)
  <2>1. conn'[p] = [conn[p] EXCEPT !.state = "version", !.id = file.version > 0]
    BY <1>1, <1>2 DEF ReadId, Set
  <2> QED  BY <1>1, <1>2, <2>1 DEF Connection, ReadId, InState
<1>3. CASE ReadVersion(p)
  <2>1. conn'[p] = [conn[p] EXCEPT !.state = "tables", !.version = file.version]
    BY <1>1, <1>3 DEF ReadVersion, Set
  <2> QED  BY <1>1, <1>3, <2>1 DEF Connection, ReadVersion, InState
<1>4. CASE CountTables(p)
  <2>1. conn'[p] = [conn[p] EXCEPT !.state = "judge", !.empty = file.version = 0]
    BY <1>1, <1>4 DEF CountTables, Set
  <2> QED  BY <1>1, <1>4, <2>1 DEF Connection, CountTables, InState
<1>5. CASE Accept(p)
  <2>1. conn[p].state = "judge"  BY <1>5 DEF Accept, InState
  <2>2. CASE Goes(p, "migrating")  BY <2>1, <2>2, GoesFacts
  <2>3. CASE Set(p, [conn[p] EXCEPT !.version = file.version,
                       !.state = IF conn[p].readOnly THEN "open" ELSE "migrating"])
    <3> DEFINE t == IF conn[p].readOnly THEN "open" ELSE "migrating"
    <3>1. t \in {"open", "migrating"}  OBVIOUS
    <3> HIDE DEF t
    <3>2. conn'[p] = [conn[p] EXCEPT !.version = file.version, !.state = t]
      BY <1>1, <2>3 DEF Set, t
    <3>3. conn'[p].state = t /\ conn'[p].readOnly = conn[p].readOnly
      BY <1>1, <3>2 DEF Connection
    <3> QED  BY <2>1, <3>1, <3>3
  <2> QED  BY <1>5, <2>2, <2>3, Zenon DEF Accept
<1>6. CASE BeginUpgrade(p)
  <2> DEFINE d == [Committed EXCEPT !.version = conn[p].version + 1]
  <2>1. conn'[p] = [conn[p] EXCEPT !.state = "upgrading", !.draft = d]
    BY <1>1, <1>6 DEF BeginUpgrade, Upgrade, Set
  <2> HIDE DEF d
  <2> QED  BY <1>1, <1>6, <2>1 DEF BeginUpgrade, Connection, InState
<1>7. CASE CommitUpgrade(p)
  <2> DEFINE t == IF conn[p].version = 0 THEN "judge" ELSE "migrating"
  <2>1. t \in {"judge", "migrating"}  OBVIOUS
  <2> HIDE DEF t
  <2>2. conn'[p] = [conn[p] EXCEPT !.version = conn[p].version + 1, !.id = TRUE, !.state = t]
    BY <1>1, <1>7 DEF CommitUpgrade, Set, t
  <2>3. conn'[p].state = t /\ conn'[p].readOnly = conn[p].readOnly
    BY <1>1, <2>2 DEF Connection
  <2> QED  BY <1>7, <2>1, <2>3 DEF CommitUpgrade, InState
<1>8. CASE UpToDate(p)  BY <1>8, GoesFacts DEF UpToDate, InState
<1> QED  BY <1>2, <1>3, <1>4, <1>5, <1>6, <1>7, <1>8 DEF Constructor

LEMMA ReadingFacts ==
  ASSUME CliInv, NEW p \in Programs, FindLatest(p) \/ SnapshotRead(p)
  PROVE  conn[p].state \in {"open", "reading"} /\ conn'[p].readOnly = conn[p].readOnly
<1>1. conn[p] \in Connection /\ conn \in [Programs -> Connection]
  BY DEF CliInv, DatabaseInv, DatabaseTypeOK
<1>2. CASE FindLatest(p)
  <2> DEFINE t == IF file.scans = 0 THEN "read" ELSE "reading"
  <2>1. conn'[p] = [conn[p] EXCEPT !.found = file.scans, !.state = t]
    BY <1>1, <1>2 DEF FindLatest, Set
  <2> HIDE DEF t
  <2> QED  BY <1>1, <1>2, <2>1 DEF FindLatest, Connection, InState
<1>3. CASE SnapshotRead(p)  BY <1>3, GoesFacts DEF SnapshotRead, InState
<1> QED  BY <1>2, <1>3

\* BEGIN IMMEDIATE of a save.
LEMMA BeginWriteFacts ==
  ASSUME CliInv, NEW p \in Programs, NEW table \in {"scan", "build"}, BeginWrite(p, table)
  PROVE  /\ conn[p].state = "open" /\ conn'[p].state = "writing"
         /\ conn'[p].readOnly = conn[p].readOnly
<1>1. conn[p] \in Connection /\ conn \in [Programs -> Connection]
  BY DEF CliInv, DatabaseInv, DatabaseTypeOK
<1>2. ASSUME NEW d, Set(p, [conn[p] EXCEPT !.state = "writing", !.draft = d])
      PROVE  conn'[p].state = "writing" /\ conn'[p].readOnly = conn[p].readOnly
  <2>1. conn'[p] = [conn[p] EXCEPT !.state = "writing", !.draft = d]  BY <1>1, <1>2 DEF Set
  <2> QED  BY <1>1, <2>1 DEF Connection
<1>3. conn'[p].state = "writing" /\ conn'[p].readOnly = conn[p].readOnly
  BY <1>2 DEF BeginWrite
<1> QED  BY <1>3 DEF BeginWrite, InState

-----------------------------------------------------------------------------
(* The actions *)

LEMMA ReadyFacts ==
  ASSUME NEW p \in Programs, NEW u, Doing(p, u)
  PROVE  run[p].exit = "running" /\ run[p].at <= Len(Plan[run[p].command]) /\ Use(p) = u
BY DEF Doing

LEMMA LoadFits ==
  ASSUME CliInv, NEW p \in Programs, Load(p)
  PROVE  StepFits(p)
<1>1. Doing(p, "load")  BY DEF Load
<1>2. run[p].exit = "running" /\ run[p].at <= Len(Plan[run[p].command]) /\ Use(p) = "load"
  BY <1>1, ReadyFacts
<1>3. run[p] \in Run  BY DEF CliInv
<1>4. ASSUME NEW r \in Run, SamePlace(r, run[p]), Update(p, Advance(r, FALSE)),
             (~Holds(p) /\ UNCHANGED dbVars) \/ Disconnect(p)
      PROVE  StepFits(p)
  <2>1. InState(p, "closed")' /\ DatabaseStep(p)  BY <1>4, StaysClosed, DisconnectCloses
  <2> QED  BY <1>2, <1>4, <2>1, LeaveUse
<1>5. CASE /\ ~Holds(p) /\ UNCHANGED dbVars
           /\ Update(p, Advance([run[p] EXCEPT !.loaded = {}, !.seen = file.saves], FALSE))
  <2> DEFINE r == [run[p] EXCEPT !.loaded = {}, !.seen = file.saves]
  <2>1. r \in Run /\ SamePlace(r, run[p])
    BY <1>3, FileFacts DEF CliInv, Run, SamePlace
  <2> QED  BY <1>4, <1>5, <2>1
<1>6. CASE Connect(p, TRUE) /\ Update(p, [run[p] EXCEPT !.seen = file.saves])
  <2> DEFINE r == [run[p] EXCEPT !.seen = file.saves]
  <2>1. r \in Run /\ SamePlace(r, run[p])
    BY <1>3, FileFacts DEF CliInv, Run, SamePlace
  <2> QED  BY <1>2, <1>6, <2>1, ConnectUse
<1>7. CASE /\ Decodes(p) /\ Disconnect(p)
           /\ Update(p, Advance([run[p] EXCEPT !.loaded = Configuration(p)], FALSE))
  <2> DEFINE r == [run[p] EXCEPT !.loaded = Configuration(p)]
  <2>1. Configuration(p) \in SUBSET Programs
    BY <1>7, FileFacts DEF CliInv, Decodes, Configuration, Profiles
  <2>2. r \in Run /\ SamePlace(r, run[p])
    BY <1>3, <2>1 DEF Run, SamePlace
  <2> QED  BY <1>4, <1>7, <2>2
<1> QED  BY <1>5, <1>6, <1>7 DEF Load

LEMMA ReadFits ==
  ASSUME CliInv, NEW p \in Programs, Read(p)
  PROVE  StepFits(p)
<1>1. Doing(p, "read")  BY DEF Read
<1>2. run[p].exit = "running" /\ run[p].at <= Len(Plan[run[p].command]) /\ Use(p) = "read"
  BY <1>1, ReadyFacts
<1>3. CASE ~Holds(p) /\ Update(p, Advance(run[p], FALSE)) /\ UNCHANGED dbVars
  <2>1. InState(p, "closed")' /\ DatabaseStep(p)  BY <1>3, StaysClosed
  <2> QED  BY <1>2, <1>3, <2>1, RunHere, LeaveUse
<1>4. CASE Connect(p, TRUE) /\ UNCHANGED run  BY <1>2, <1>4, RunStays, ConnectUse
<1>5. CASE (FindLatest(p) \/ SnapshotRead(p)) /\ UNCHANGED run
  <2>1. conn[p].state \in {"open", "reading"} /\ conn'[p].readOnly = conn[p].readOnly
    BY <1>5, ReadingFacts
  <2>2. conn[p].readOnly  BY <1>1, <2>1, OpenFor DEF InState
  <2>3. DatabaseStep(p)  BY <1>5 DEF DatabaseStep, QuietStep
  <2> QED  BY <1>2, <1>5, <2>1, <2>2, <2>3, WithinUse
<1>6. CASE Update(p, Advance(run[p], conn[p].found > 0)) /\ Disconnect(p)
  <2>1. InState(p, "closed")' /\ DatabaseStep(p)  BY <1>6, DisconnectCloses
  <2>2. (conn[p].found > 0) \in BOOLEAN
    <3>1. conn[p].found \in 0..MaxScans  BY ConnectionFacts DEF CliInv
    <3>2. MaxScans \in Nat  BY DatabaseAssumption
    <3> QED  BY <3>1, <3>2
  <2> QED  BY <1>2, <1>6, <2>1, <2>2, RunHere, LeaveUse
<1> QED  BY <1>3, <1>4, <1>5, <1>6 DEF Read

\* A use that is over has left behind what it is for.
LEMMA UseIsDone ==
  ASSUME CliInv, NEW p \in Programs, NEW u \in {"import", "record", "save"}, Doing(p, u),
         InState(p, "read")
  PROVE  /\ u = "import" => "scan" \in run[p].wrote
         /\ u = "record" => "build" \in run[p].wrote
         /\ u = "save" => "profile" \in run[p].wrote
<1>1. ~conn[p].readOnly  BY OpenFor DEF InState
<1>2. CommandFits(run[p], conn[p])  BY DEF CliInv
<1> QED  BY <1>1, <1>2 DEF CommandFits, Doing, Use, InState

LEMMA ImportFits ==
  ASSUME CliInv, NEW p \in Programs, Import(p)
  PROVE  StepFits(p)
<1>1. Doing(p, "import")  BY DEF Import
<1>2. run[p].exit = "running" /\ run[p].at <= Len(Plan[run[p].command]) /\ Use(p) = "import"
  BY <1>1, ReadyFacts
<1>3. CASE ~Holds(p) /\ run[p].command = "scan" /\ Exit(p, "2") /\ UNCHANGED dbVars
  <2>1. InState(p, "closed")' /\ DatabaseStep(p)  BY <1>3, StaysClosed
  <2>2. "profile" \notin run[p].wrote  BY <1>2, UseFacts
  <2> QED  BY <1>2, <1>3, <2>1, <2>2, EndUse DEF Exit
<1>4. CASE ~Holds(p) /\ run[p].command # "scan" /\ Update(p, Advance(run[p], FALSE))
           /\ UNCHANGED dbVars
  <2>1. InState(p, "closed")' /\ DatabaseStep(p)  BY <1>4, StaysClosed
  <2> QED  BY <1>2, <1>4, <2>1, RunHere, LeaveUse
<1>5. CASE Connect(p, FALSE) /\ UNCHANGED run  BY <1>2, <1>5, RunStays, ConnectUse
<1>6. CASE BeginWrite(p, "scan") /\ UNCHANGED run
  <2>1. /\ conn[p].state = "open" /\ conn'[p].state = "writing"
        /\ conn'[p].readOnly = conn[p].readOnly
    BY <1>6, BeginWriteFacts
  <2>2. ~conn[p].readOnly  BY <1>1, <2>1, OpenFor DEF InState
  <2>4. DatabaseStep(p)  BY <1>6, <2>2 DEF DatabaseStep, QuietStep
  <2> QED  BY <1>2, <1>6, <2>1, <2>2, <2>4, WithinUse
<1>7. CASE CommitWrite(p) /\ Update(p, [run[p] EXCEPT !.wrote = @ \cup {"scan"}])
  <2>1. conn'[p].state = "read" /\ conn'[p].readOnly = conn[p].readOnly /\ ~InState(p, "closed")
    BY <1>7, GoesFacts DEF CommitWrite, InState
  <2>2. DatabaseStep(p)  BY <1>7 DEF DatabaseStep, QuietStep
  <2> QED  BY <1>1, <1>7, <2>1, <2>2, WriteUse
<1>8. CASE InState(p, "read") /\ Update(p, Advance(run[p], FALSE)) /\ Disconnect(p)
  <2>1. InState(p, "closed")' /\ DatabaseStep(p)  BY <1>8, DisconnectCloses
  <2>2. "scan" \in run[p].wrote  BY <1>1, <1>8, UseIsDone
  <2> QED  BY <1>2, <1>8, <2>1, <2>2, RunHere, LeaveUse
<1> QED  BY <1>3, <1>4, <1>5, <1>6, <1>7, <1>8 DEF Import

LEMMA RecordFits ==
  ASSUME CliInv, NEW p \in Programs, Record(p)
  PROVE  StepFits(p)
<1>1. Doing(p, "record")  BY DEF Record
<1>2. run[p].exit = "running" /\ run[p].at <= Len(Plan[run[p].command]) /\ Use(p) = "record"
  BY <1>1, ReadyFacts
<1>3. ASSUME NEW o \in {"passed", "failed", "cancelled"},
             Update(p, [run[p] EXCEPT !.outcome = o]), UNCHANGED dbVars
      PROVE  StepFits(p)
  <2>1. run[p] \in Run  BY DEF CliInv
  <2>2. PICK r \in Run : r = [run[p] EXCEPT !.outcome = o]  BY <2>1 DEF Run
  <2>3. /\ r.command = run[p].command /\ r.at = run[p].at /\ r.wrote = run[p].wrote
        /\ r.exit = run[p].exit
    BY <2>1, <2>2 DEF Run
  <2>4. Update(p, r)  BY <1>3, <2>2
  <2> QED  BY <1>2, <1>3, <2>3, <2>4, NoUse
<1>4. CASE Connect(p, FALSE) /\ UNCHANGED run  BY <1>2, <1>4, RunStays, ConnectUse
<1>5. CASE BeginWrite(p, "build") /\ UNCHANGED run
  <2>1. /\ conn[p].state = "open" /\ conn'[p].state = "writing"
        /\ conn'[p].readOnly = conn[p].readOnly
    BY <1>5, BeginWriteFacts
  <2>2. ~conn[p].readOnly  BY <1>1, <2>1, OpenFor DEF InState
  <2>4. DatabaseStep(p)  BY <1>5, <2>2 DEF DatabaseStep, QuietStep
  <2> QED  BY <1>2, <1>5, <2>1, <2>2, <2>4, WithinUse
<1>6. CASE CommitWrite(p) /\ Update(p, [run[p] EXCEPT !.wrote = @ \cup {"build"}])
  <2>1. conn'[p].state = "read" /\ conn'[p].readOnly = conn[p].readOnly /\ ~InState(p, "closed")
    BY <1>6, GoesFacts DEF CommitWrite, InState
  <2>2. DatabaseStep(p)  BY <1>6 DEF DatabaseStep, QuietStep
  <2> QED  BY <1>1, <1>6, <2>1, <2>2, WriteUse
<1>7. CASE InState(p, "read") /\ Update(p, Recorded(p)) /\ Disconnect(p)
  <2>1. InState(p, "closed")' /\ DatabaseStep(p)  BY <1>7, DisconnectCloses
  <2>2. "build" \in run[p].wrote  BY <1>1, <1>7, UseIsDone
  <2>3. /\ "profile" \notin run[p].wrote /\ run[p].command \in {"build", "prepare"}
    BY <1>2, UseFacts
  <2>4. CASE run[p].outcome = "passed" /\ run[p].command = "prepare"
    <3>1. Recorded(p) = Advance(run[p], FALSE)  BY <2>4 DEF Recorded
    <3> QED  BY <1>2, <1>7, <2>1, <2>2, <2>4, <3>1, RunHere, LeaveUse
  <2>5. CASE run[p].outcome = "passed" /\ run[p].command = "build"
    <3>1. Recorded(p) = Exited(run[p], "0")  BY <2>5 DEF Recorded
    <3> QED  BY <1>2, <1>7, <2>1, <2>2, <2>5, <3>1, EndUse DEF Savers
  <2>6. CASE run[p].outcome = "cancelled"
    <3>1. Recorded(p) = Exited(run[p], "130")  BY <2>6 DEF Recorded
    <3> QED  BY <1>2, <1>7, <2>1, <2>3, <2>6, <3>1, EndUse
  <2>7. CASE run[p].outcome \notin {"passed", "cancelled"}
    <3>1. Recorded(p) = Exited(run[p], "2")  BY <2>7 DEF Recorded
    <3> QED  BY <1>2, <1>7, <2>1, <2>3, <3>1, EndUse
  <2> QED  BY <2>3, <2>4, <2>5, <2>6, <2>7
<1> QED  BY <1>3, <1>4, <1>5, <1>6, <1>7 DEF Record

LEMMA SaveFits ==
  ASSUME CliInv, NEW p \in Programs, Save(p)
  PROVE  StepFits(p)
<1>1. Doing(p, "save")  BY DEF Save
<1>2. run[p].exit = "running" /\ run[p].at <= Len(Plan[run[p].command]) /\ Use(p) = "save"
  BY <1>1, ReadyFacts
<1>3. CASE Connect(p, FALSE) /\ UNCHANGED run  BY <1>2, <1>3, RunStays, ConnectUse
<1>4. CASE CheckProfile(p) /\ UNCHANGED run
  <2>1. conn[p].state = "open"  BY <1>4 DEF CheckProfile, InState
  <2>2. ~conn[p].readOnly  BY <1>1, <2>1, OpenFor DEF InState
  <2>3. conn'[p].state = "checked" /\ conn'[p].readOnly = conn[p].readOnly
    BY <1>4, GoesFacts DEF CheckProfile
  <2>4. DatabaseStep(p)  BY <1>4, <2>2 DEF DatabaseStep, QuietStep
  <2> QED  BY <1>2, <1>4, <2>1, <2>2, <2>3, <2>4, WithinUse
<1>5. CASE WriteProfile(p, run[p].loaded \cup {p}) /\ Update(p, [run[p] EXCEPT !.wrote = @ \cup {"profile"}])
  <2>1. conn'[p].state = "read" /\ conn'[p].readOnly = conn[p].readOnly /\ ~InState(p, "closed")
    BY <1>5, GoesFacts DEF WriteProfile, InState
  <2>2. run[p].loaded \cup {p} \in SUBSET Programs  BY RunHere DEF Run
  <2>3. DatabaseStep(p)  BY <1>5, <2>2 DEF DatabaseStep
  <2> QED  BY <1>1, <1>5, <2>1, <2>3, WriteUse
<1>6. CASE InState(p, "read") /\ Update(p, Advance(run[p], FALSE)) /\ Disconnect(p)
  <2>1. InState(p, "closed")' /\ DatabaseStep(p)  BY <1>6, DisconnectCloses
  <2>2. "profile" \in run[p].wrote  BY <1>1, <1>6, UseIsDone
  <2> QED  BY <1>2, <1>6, <2>1, <2>2, RunHere, LeaveUse
<1> QED  BY <1>3, <1>4, <1>5, <1>6 DEF Save

LEMMA ConstructFits ==
  ASSUME CliInv, NEW p \in Programs, Construct(p)
  PROVE  StepFits(p)
<1>1. Constructor(p) /\ run' = run  BY DEF Construct
<1>2. /\ conn[p].state \in {"id", "version", "tables", "judge", "migrating", "upgrading"}
      /\ conn'[p].state \notin {"closed", "read"}
      /\ conn'[p].readOnly = conn[p].readOnly
  BY <1>1, ConstructorFacts
<1>3. UseFits(p)  BY DEF CliInv
<1>4. /\ run[p].exit = "running" /\ run[p].at <= Len(Plan[run[p].command])
      /\ Use(p) \in IF conn[p].readOnly THEN {"load", "read"} ELSE {"import", "record", "save"}
  BY <1>2, <1>3 DEF UseFits, InState
<1>5. DatabaseStep(p)  BY <1>1 DEF DatabaseStep, QuietStep
<1> QED  BY <1>1, <1>2, <1>4, <1>5, WithinUse

LEMMA ListenFits ==
  ASSUME CliInv, NEW p \in Programs, Listen(p)
  PROVE  StepFits(p)
<1>1. run[p].exit = "running" /\ run[p].at <= Len(Plan[run[p].command]) /\ Use(p) = "listen"
  BY DEF Listen, Doing
<1>2. UNCHANGED dbVars  BY DEF Listen
<1>3. ~Holds(p)
  <2>1. UseFits(p)  BY DEF CliInv
  <2> QED  BY <1>1, <2>1 DEF UseFits, Holds
<1>4. run[p] \in Run  BY DEF CliInv
<1>5. CASE Update(p, [run[p] EXCEPT !.scope = "handler"])
  <2>1. PICK r \in Run : r = [run[p] EXCEPT !.scope = "handler"]  BY <1>4 DEF Run
  <2>2. /\ r.command = run[p].command /\ r.at = run[p].at /\ r.wrote = run[p].wrote
        /\ r.exit = run[p].exit /\ r.outcome = run[p].outcome
    BY <1>4, <2>1 DEF Run
  <2>3. Update(p, r)  BY <1>5, <2>1
  <2> QED  BY <1>1, <1>2, <2>2, <2>3, NoUse
<1>6. CASE Update(p, Advance([run[p] EXCEPT !.scope = "listening", !.flag = FALSE], FALSE))
  <2>1. PICK r \in Run : r = [run[p] EXCEPT !.scope = "listening", !.flag = FALSE]
    BY <1>4 DEF Run
  <2>2. /\ r.command = run[p].command /\ r.at = run[p].at /\ r.wrote = run[p].wrote
        /\ r.exit = run[p].exit /\ r.outcome = run[p].outcome
    BY <1>4, <2>1 DEF Run
  <2>3. /\ CommandFits(run[p], conn[p]) /\ TellsTheTruth(run[p]) /\ UseFits(p)
        /\ conn[p] \in Connection
    BY DEF CliInv, DatabaseInv, DatabaseTypeOK
  <2>4. CommandFits(r, conn[p]) /\ TellsTheTruth(r)
    BY <2>2, <2>3 DEF CommandFits, TellsTheTruth
  <2>5. conn[p].state = "closed" /\ conn' = conn  BY <1>2, <1>3 DEF Holds, InState, dbVars
  <2>6. /\ Advance(r, FALSE) \in Run /\ CommandFits(Advance(r, FALSE), conn[p])
        /\ TellsTheTruth(Advance(r, FALSE))
    BY <1>1, <2>2, <2>3, <2>4, <2>5, AdvanceFits DEF Use
  <2>7. Update(p, Advance(r, FALSE))  BY <1>6, <2>1
  <2>8. run' = [run EXCEPT ![p] = Advance(r, FALSE)] /\ run'[p] = Advance(r, FALSE)
    BY <2>7 DEF Update, CliInv
  <2>9. InState(p, "closed")' /\ DatabaseStep(p)  BY <1>2, <1>3, StaysClosed
  <2>10. UseFits(p)'  BY <2>9 DEF UseFits
  <2> QED  BY <2>5, <2>6, <2>8, <2>9, <2>10 DEF StepFits
<1> QED  BY <1>5, <1>6 DEF Listen

LEMMA ReturnFits ==
  ASSUME CliInv, NEW p \in Programs, Return(p)
  PROVE  StepFits(p)
<1>1. run[p].exit = "running" /\ run[p].at > Len(Plan[run[p].command]) /\ UNCHANGED dbVars
  BY DEF Return
<1>2. PICK code \in {"0", "2"} :
        Exit(p, code) /\ (code = "2" => run[p].command \in {"scan", "query"})
  BY DEF Return
<1>3. CommandFits(run[p], conn[p]) /\ UseFits(p) /\ run[p] \in Run  BY DEF CliInv
<1>4. run[p].command \in Commands /\ run[p].at \in 1..9  BY <1>3 DEF Run
<1>5. Len(Plan[run[p].command]) \in 1..8
      /\ (run[p].command = "prepare" => Len(Plan[run[p].command]) = 8)
  BY <1>4, PlanFacts
<1>6. ~Holds(p)
  <2>1. ~(run[p].at <= Len(Plan[run[p].command]))  BY <1>1, <1>4, <1>5
  <2> QED  BY <1>3, <2>1 DEF UseFits, Holds
<1>7. InState(p, "closed")' /\ DatabaseStep(p)  BY <1>1, <1>6, StaysClosed
<1>8. code = "2" => "profile" \notin run[p].wrote
  BY <1>2, <1>3 DEF CommandFits, Savers
<1>9. /\ run[p].command \in Savers => "profile" \in run[p].wrote
      /\ run[p].command = "scan" => "scan" \in run[p].wrote
      /\ run[p].command # "build"
      /\ run[p].command = "prepare" => "build" \in run[p].wrote /\ run[p].outcome = "passed"
  <2>1. ASSUME run[p].command = "prepare"  PROVE run[p].at >= 8
    <3>1. Len(Plan[run[p].command]) = 8  BY <1>5, <2>1
    <3>2. run[p].at > 8  BY <1>1, <3>1
    <3> QED  BY <1>4, <3>2
  <2> QED  BY <1>1, <1>3, <2>1 DEF CommandFits
<1> QED  BY <1>1, <1>2, <1>7, <1>8, <1>9, EndUse DEF Exit

LEMMA SignalFits ==
  ASSUME CliInv, NEW p \in Programs, Interrupt(p) \/ Monitor(p)
  PROVE  StepFits(p)
<1>1. run[p] \in Run  BY DEF CliInv
<1>2. run[p].exit = "running" /\ UNCHANGED dbVars  BY DEF Interrupt, Monitor
<1>3. PICK r \in Run : /\ r = [run[p] EXCEPT !.flag = TRUE] \/ r = [run[p] EXCEPT !.cancel = TRUE]
                       /\ Update(p, r)
  <2>1. CASE Interrupt(p)
    <3>1. [run[p] EXCEPT !.flag = TRUE] \in Run  BY <1>1 DEF Run
    <3> QED  BY <2>1, <3>1 DEF Interrupt
  <2>2. CASE Monitor(p)
    <3>1. [run[p] EXCEPT !.cancel = TRUE] \in Run  BY <1>1 DEF Run
    <3> QED  BY <2>2, <3>1 DEF Monitor
  <2> QED  BY <2>1, <2>2
<1>4. /\ r.command = run[p].command /\ r.at = run[p].at /\ r.wrote = run[p].wrote
      /\ r.exit = run[p].exit /\ r.outcome = run[p].outcome
  BY <1>1, <1>3 DEF Run
<1> QED  BY <1>2, <1>3, <1>4, NoUse

LEMMA EndFits ==
  ASSUME CliInv, NEW p \in Programs, Cancelled(p) \/ Fail(p) \/ Kill(p)
  PROVE  StepFits(p)
<1>1. CommandFits(run[p], conn[p]) /\ run[p] \in Run  BY DEF CliInv
<1>2. Disconnect(p)  BY DEF Cancelled, Fail, Kill
<1>3. InState(p, "closed")' /\ DatabaseStep(p)  BY <1>2, DisconnectCloses
<1>4. CASE Cancelled(p)
  <2>1. /\ run[p].exit = "running" /\ run[p].command = "scan" /\ "scan" \notin run[p].wrote
        /\ Exit(p, "130")
    BY <1>4 DEF Cancelled, Doing
  <2>2. "profile" \notin run[p].wrote /\ "build" \notin run[p].wrote
    BY <1>1, <2>1 DEF CommandFits, Savers
  <2>3. run[p].wrote = {}  BY <1>1, <2>1, <2>2 DEF Run
  <2> QED  BY <1>3, <2>1, <2>3, EndUse DEF Exit
<1>5. CASE Fail(p)
  <2>1. /\ run[p].exit = "running" /\ run[p].at <= Len(Plan[run[p].command])
        /\ Use(p) # "listen" /\ ~(InState(p, "read") /\ ~conn[p].readOnly)
        /\ Exit(p, "1")
    BY <1>5 DEF Fail
  <2>2. "profile" \notin run[p].wrote
    <3>1. SUFFICES ASSUME "profile" \in run[p].wrote  PROVE FALSE  OBVIOUS
    <3>2. Use(p) = "save" /\ conn[p].state = "read"  BY <2>1, <3>1, UseFacts
    <3>3. ~conn[p].readOnly
      <4>1. Doing(p, "save")  BY <2>1, <3>2 DEF Doing
      <4> QED  BY <3>2, <4>1, OpenFor DEF InState
    <3> QED  BY <2>1, <3>2, <3>3 DEF InState
  <2> QED  BY <1>3, <2>1, <2>2, EndUse DEF Exit
<1>6. CASE Kill(p)
  <2>1. run[p].exit = "running" /\ Exit(p, "killed")  BY <1>6 DEF Kill
  <2> QED  BY <1>3, <2>1, EndUse DEF Exit
<1> QED  BY <1>4, <1>5, <1>6

-----------------------------------------------------------------------------
(* The invariant *)

LEMMA CliInitFits == CliInit => CliInv
<1> SUFFICES ASSUME CliInit PROVE CliInv  OBVIOUS
<1>1. PICK v \in 0..Latest, n \in 0..MaxScans, saved \in {{}, {"foreign"}} :
        /\ file = [exists |-> v > 0, version |-> v, scans |-> n, builds |-> 0,
                   profile |-> saved, writer |-> Nobody, saves |-> 0]
        /\ v < ProfilesSince => saved = {}
  BY DEF CliInit, DatabaseInit
<1>2. Latest \in Nat \ {0} /\ MaxScans \in Nat /\ CommandLineAssumption /\ Nobody \notin Programs
  BY DatabaseAssumption, CommandLineAssumption
<1>3. conn = [p \in Programs |-> NoConnection]  BY DEF CliInit, DatabaseInit
<1>4. PICK c \in [Programs -> Commands] :
        run = [p \in Programs |->
                 [command |-> c[p], at |-> 1, scope |-> "off", flag |-> FALSE,
                  cancel |-> FALSE, loaded |-> {}, seen |-> 0, outcome |-> "none",
                  wrote |-> {}, exit |-> "running"]]
  BY DEF CliInit
<1>5. file \in File
  <2>1. (v > 0) \in BOOLEAN  BY <1>2
  <2> QED  BY <1>1, <1>2, <2>1 DEF File, Profiles
<1>6. NoConnection \in Connection /\ NoConnection.state = "closed" /\ NoConnection.version = 0
  BY <1>2 DEF NoConnection, Connection, Pages, Profiles
<1>7. ASSUME NEW p \in Programs
      PROVE  ConnectionFits(p, conn[p], file)
  <2>1. file.version \in 0..Latest  BY <1>5 DEF File
  <2> QED  BY <1>2, <1>3, <1>6, <2>1 DEF ConnectionFits
<1>8. ASSUME NEW p \in Programs
      PROVE  /\ run[p] \in Run /\ run[p].wrote = {} /\ run[p].at = 1 /\ run[p].exit = "running"
             /\ run[p].command \in Commands
  <2>1. run[p] = [command |-> c[p], at |-> 1, scope |-> "off", flag |-> FALSE,
                  cancel |-> FALSE, loaded |-> {}, seen |-> 0, outcome |-> "none",
                  wrote |-> {}, exit |-> "running"]
    BY <1>4
  <2>2. c[p] \in Commands  BY <1>4
  <2> QED  BY <2>1, <2>2 DEF Run
<1>9. ASSUME NEW p \in Programs
      PROVE  UseFits(p) /\ CommandFits(run[p], conn[p]) /\ TellsTheTruth(run[p])
  <2>1. conn[p] = NoConnection  BY <1>3
  <2>2. UseFits(p)  BY <1>6, <2>1 DEF UseFits, InState
  <2>3. Len(Plan[run[p].command]) \in 1..8
    <3>1. run[p].command \in Commands  BY <1>8
    <3> QED  BY <3>1, PlanFacts
  <2>4. CommandFits(run[p], conn[p])
    <3>1. run[p].wrote = {} /\ conn[p].state = "closed"  BY <1>6, <1>8, <2>1
    <3>2. run[p].at = 1  BY <1>8
    <3>3. PICK last \in 1..8 : last = Len(Plan[run[p].command])  BY <2>3
    <3>4. ~(run[p].at > last) /\ ~(run[p].at >= 8)  BY <3>2
    <3> QED  BY <3>1, <3>3, <3>4 DEF CommandFits
  <2>5. TellsTheTruth(run[p])  BY <1>8 DEF TellsTheTruth
  <2> QED  BY <2>2, <2>4, <2>5
<1>10. run \in [Programs -> Run]  BY <1>4, <1>8
<1>11. conn \in [Programs -> Connection]  BY <1>3, <1>6
<1>12. FileFits(file)
  <2>1. file.profile = saved /\ file.version = v /\ file.exists = (v > 0)  BY <1>1
  <2>2. ~(v < ProfilesSince) => v >= ProfilesSince  BY <1>2, DatabaseAssumption
  <2> QED  BY <1>1, <2>1, <2>2, Zenon DEF FileFits
<1> QED  BY <1>5, <1>7, <1>9, <1>10, <1>11, <1>12 DEF CliInv, DatabaseInv, DatabaseTypeOK

\* A step of one program fits it.
LEMMA ProgramFits ==
  ASSUME CliInv, NEW p \in Programs,
         Works(p) \/ Interrupt(p) \/ Monitor(p) \/ Cancelled(p) \/ Fail(p) \/ Kill(p)
  PROVE  StepFits(p)
BY LoadFits, ReadFits, ImportFits, RecordFits, SaveFits, ConstructFits, ListenFits, ReturnFits,
   SignalFits, EndFits DEF Works

\* The other programs are where they were.
LEMMA StepKeepsInv ==
  ASSUME CliInv, NEW p \in Programs, StepFits(p)
  PROVE  CliInv'
<1>1. DatabaseInv /\ DatabaseStep(p)  BY DEF CliInv, StepFits
<1>2. DatabaseInv'  BY <1>1, DatabaseStepKeeps
<1>3. conn' = [conn EXCEPT ![p] = conn'[p]]  BY <1>1, MoverFits DEF MoveFits
<1>4. run' = [run EXCEPT ![p] = run'[p]] /\ run'[p] \in Run  BY DEF StepFits
<1>5. run' \in [Programs -> Run]  BY <1>4 DEF CliInv
<1>6. ASSUME NEW q \in Programs
      PROVE  UseFits(q)' /\ CommandFits(run'[q], conn'[q]) /\ TellsTheTruth(run'[q])
  <2>1. CASE q = p  BY <2>1 DEF StepFits
  <2>2. CASE q # p
    <3>1. run'[q] = run[q] /\ conn'[q] = conn[q]
      BY <1>3, <1>4, <2>2 DEF CliInv, DatabaseInv, DatabaseTypeOK
    <3>2. UseFits(q) /\ CommandFits(run[q], conn[q]) /\ TellsTheTruth(run[q])  BY DEF CliInv
    <3>3. UseFits(q)'  BY <3>1, <3>2 DEF UseFits, InState, Use
    <3> QED  BY <3>1, <3>2, <3>3
  <2> QED  BY <2>1, <2>2
<1> QED  BY <1>2, <1>5, <1>6 DEF CliInv

LEMMA CliInvIsInductive == CliInv /\ [CliNext]_cliVars => CliInv'
<1> SUFFICES ASSUME CliInv, [CliNext]_cliVars PROVE CliInv'  OBVIOUS
<1>1. CASE CliNext
  <2>1. PICK p \in Programs :
          Works(p) \/ Interrupt(p) \/ Monitor(p) \/ Cancelled(p) \/ Fail(p) \/ Kill(p)
    BY <1>1 DEF CliNext
  <2> QED  BY <2>1, ProgramFits, StepKeepsInv
<1>2. CASE UNCHANGED cliVars
  BY <1>2 DEF cliVars, CliInv, DatabaseInv, DatabaseTypeOK, UseFits, InState, Use
<1> QED  BY <1>1, <1>2

LEMMA CliInvHolds == CliSpec => []CliInv
BY CliInitFits, CliInvIsInductive, PTL DEF CliSpec

-----------------------------------------------------------------------------
(* The theorems *)

\* Type correctness of the file, the connections and the commands.
THEOREM CommandTypes == CliSpec => []CliTypeOK
<1>1. CliInv => CliTypeOK  BY DEF CliInv, DatabaseInv, CliTypeOK
<1> QED  BY <1>1, CliInvHolds, PTL

\* Whoever upgrades the file of sqlite_database.cpp, and whichever version its other
\* users read, none writes into a schema it does not know.
THEOREM SchemaFits == CliSpec => []SchemaFitsItsUsers
<1>1. ASSUME CliInv  PROVE SchemaFitsItsUsers
  <2>1. ASSUME NEW p \in Programs
        PROVE  /\ conn[p].version <= file.version
               /\ conn[p].state \in {"open", "checked", "writing"} /\ ~conn[p].readOnly =>
                    conn[p].version = Latest /\ file.version = Latest
    <3>1. ConnectionFits(p, conn[p], file)  BY <1>1 DEF CliInv, DatabaseInv
    <3>2. file.version \in 0..Latest /\ Latest \in Nat \ {0}  BY <1>1, FileFacts DEF CliInv
    <3>3. conn[p].version <= file.version  BY <3>1 DEF ConnectionFits
    <3>4. ASSUME conn[p].state \in {"open", "checked", "writing"}, ~conn[p].readOnly
          PROVE  conn[p].version = Latest /\ file.version = Latest
      <4>1. conn[p].version = Latest  BY <3>1, <3>4 DEF ConnectionFits
      <4> QED  BY <3>2, <3>3, <4>1
    <3> QED  BY <3>3, <3>4
  <2> QED  BY <2>1 DEF SchemaFitsItsUsers
<1> QED  BY <1>1, CliInvHolds, PTL

\* The exit codes of main and what the command saved agree.
THEOREM ExitCodesAreTrue == CliSpec => []ExitCodeTellsTheTruth
<1>1. CliInv => ExitCodeTellsTheTruth
  BY DEF CliInv, TellsTheTruth, ExitCodeTellsTheTruth
<1> QED  BY <1>1, CliInvHolds, PTL

-----------------------------------------------------------------------------
(* What is saved *)

\* A step that saves no profile leaves everything that is saved.
LEMMA QuietStepKeeps ==
  ASSUME DatabaseInv, NEW p \in Programs, QuietStep(p)
  PROVE  /\ file'.version \in {file.version, file.version + 1}
         /\ file'.scans >= file.scans /\ file'.builds >= file.builds
         /\ file'.profile = file.profile /\ file'.saves = file.saves
         /\ file'.version # file.version =>
              [file' EXCEPT !.version = file.version, !.writer = file.writer] = file
<1> DEFINE Kept == /\ file'.version \in {file.version, file.version + 1}
                   /\ file'.scans >= file.scans /\ file'.builds >= file.builds
                   /\ file'.profile = file.profile /\ file'.saves = file.saves
                   /\ file'.version # file.version =>
                        [file' EXCEPT !.version = file.version, !.writer = file.writer] = file
<1>1. /\ file \in File /\ file.version \in Int /\ file.scans \in Int /\ file.builds \in Int
  BY FileFacts
<1>2. conn[p].draft \in Pages /\ ConnectionFits(p, conn[p], file)  BY ConnectionFacts
<1>3. ASSUME NEW w, file' = [file EXCEPT !.writer = w]  PROVE Kept
  <2>1. /\ file'.version = file.version /\ file'.scans = file.scans
        /\ file'.builds = file.builds /\ file'.profile = file.profile
        /\ file'.saves = file.saves
    BY <1>1, <1>3 DEF File
  <2> QED  BY <1>1, <2>1
<1>4. ASSUME file' = file  PROVE Kept  BY <1>1, <1>4
<1>5. ASSUME NEW readOnly \in BOOLEAN, Connect(p, readOnly)  PROVE Kept
  <2>1. file' = [file EXCEPT !.exists = TRUE]  BY <1>5 DEF Connect
  <2>2. /\ file'.version = file.version /\ file'.scans = file.scans
        /\ file'.builds = file.builds /\ file'.profile = file.profile
        /\ file'.saves = file.saves
    BY <1>1, <2>1 DEF File
  <2> QED  BY <1>1, <2>2
<1>6. CASE BeginUpgrade(p)  BY <1>3, <1>6 DEF BeginUpgrade, Upgrade
<1>7. CASE CommitUpgrade(p)
  <2>1. Install(conn[p].draft) /\ conn[p].state = "upgrading"
    BY <1>7 DEF CommitUpgrade, InState
  <2>2. /\ conn[p].draft.version = file.version + 1 /\ conn[p].draft.profile = file.profile
        /\ conn[p].draft.scans = file.scans /\ conn[p].draft.builds = file.builds
    BY <1>2, <2>1 DEF ConnectionFits
  <2>3. /\ file'.version = file.version + 1 /\ file'.scans = file.scans
        /\ file'.builds = file.builds /\ file'.profile = file.profile
        /\ file'.saves = file.saves
    BY <2>1, <2>2, InstallFacts DEF SamePages
  <2>4. [file' EXCEPT !.version = file.version, !.writer = file.writer] = file
    BY <1>1, <2>1, <2>2 DEF Install, File
  <2> QED  BY <1>1, <2>3, <2>4
<1>8. ASSUME NEW table \in {"scan", "build"}, BeginWrite(p, table)  PROVE Kept
  BY <1>3, <1>8 DEF BeginWrite
<1>9. CASE CommitWrite(p)
  <2>1. Install(conn[p].draft) /\ conn[p].state = "writing"
    BY <1>9 DEF CommitWrite, InState
  <2>2. /\ conn[p].draft.version = file.version /\ conn[p].draft.profile = file.profile
        /\ conn[p].draft.scans >= file.scans /\ conn[p].draft.builds >= file.builds
    BY <1>2, <2>1 DEF ConnectionFits
  <2>3. /\ file'.version = file.version /\ file'.scans >= file.scans
        /\ file'.builds >= file.builds /\ file'.profile = file.profile
        /\ file'.saves = file.saves
    BY <2>1, <2>2, InstallFacts DEF SamePages
  <2> QED  BY <1>1, <2>3
<1>10. CASE Disconnect(p)
  <2>1. file' = [file EXCEPT !.writer = IF file.writer = p THEN Nobody ELSE file.writer]
    BY <1>10 DEF Disconnect, Released
  <2> QED  BY <1>3, <2>1
<1>11. CASE \/ ReadId(p) \/ ReadVersion(p) \/ CountTables(p) \/ Accept(p) \/ UpToDate(p)
            \/ FindLatest(p) \/ SnapshotRead(p) \/ CheckProfile(p) \/ UNCHANGED dbVars
  <2>1. file' = file
    BY <1>11 DEF ReadId, ReadVersion, CountTables, Accept, UpToDate, FindLatest,
                 SnapshotRead, CheckProfile, dbVars
  <2> QED  BY <1>4, <2>1
<1> QED  BY <1>5, <1>6, <1>7, <1>8, <1>9, <1>10, <1>11 DEF QuietStep, Constructor

\* A connection that opens knows the version of the moment.
LEMMA OpenFacts ==
  ASSUME DatabaseInv, NEW p \in Programs, QuietStep(p), conn'[p].state = "open"
  PROVE  conn'[p] = conn[p] \/ conn'[p].version = file.version
<1>1. conn[p] \in Connection /\ ConnectionFits(p, conn[p], file)  BY ConnectionFacts
<1>2. conn \in [Programs -> Connection] /\ file.version \in 0..Latest /\ Latest \in Nat \ {0}
  BY FileFacts
<1>3. ASSUME NEW c, Set(p, c)  PROVE conn'[p] = c  BY <1>2, <1>3 DEF Set
<1>4. ASSUME NEW s \in {"migrating", "read", "checked"}, Goes(p, s)  PROVE FALSE
  BY <1>1, <1>3, <1>4 DEF Goes, Connection
<1>5. ASSUME NEW readOnly \in BOOLEAN, Connect(p, readOnly)  PROVE FALSE
  <2>1. NoConnection \in Connection
    BY DatabaseAssumption DEF NoConnection, Connection, Pages, Profiles
  <2>2. conn'[p] = [NoConnection EXCEPT !.state = "id", !.readOnly = readOnly]
    BY <1>3, <1>5 DEF Connect
  <2> QED  BY <2>1, <2>2 DEF Connection
<1>6. CASE ReadId(p)
  <2>1. conn'[p] = [conn[p] EXCEPT !.state = "version", !.id = file.version > 0]
    BY <1>3, <1>6 DEF ReadId
  <2> QED  BY <1>1, <2>1 DEF Connection
<1>7. CASE ReadVersion(p)
  <2>1. conn'[p] = [conn[p] EXCEPT !.state = "tables", !.version = file.version]
    BY <1>3, <1>7 DEF ReadVersion
  <2> QED  BY <1>1, <2>1 DEF Connection
<1>8. CASE CountTables(p)
  <2>1. conn'[p] = [conn[p] EXCEPT !.state = "judge", !.empty = file.version = 0]
    BY <1>3, <1>8 DEF CountTables
  <2> QED  BY <1>1, <2>1 DEF Connection
<1>9. CASE Accept(p)
  <2> DEFINE t == IF conn[p].readOnly THEN "open" ELSE "migrating"
  <2>1. Set(p, [conn[p] EXCEPT !.version = file.version, !.state = t])
    BY <1>4, <1>9 DEF Accept
  <2>2. conn'[p] = [conn[p] EXCEPT !.version = file.version, !.state = t]  BY <1>3, <2>1
  <2> HIDE DEF t
  <2> QED  BY <1>1, <2>2 DEF Connection
<1>10. CASE BeginUpgrade(p)
  <2> DEFINE d == [Committed EXCEPT !.version = conn[p].version + 1]
  <2>1. conn'[p] = [conn[p] EXCEPT !.state = "upgrading", !.draft = d]
    BY <1>3, <1>10 DEF BeginUpgrade, Upgrade
  <2> HIDE DEF d
  <2> QED  BY <1>1, <2>1 DEF Connection
<1>11. CASE CommitUpgrade(p)
  <2> DEFINE t == IF conn[p].version = 0 THEN "judge" ELSE "migrating"
  <2>1. conn'[p] = [conn[p] EXCEPT !.version = conn[p].version + 1, !.id = TRUE, !.state = t]
    BY <1>3, <1>11 DEF CommitUpgrade
  <2>2. t # "open"  OBVIOUS
  <2> HIDE DEF t
  <2> QED  BY <1>1, <2>1, <2>2 DEF Connection
<1>12. CASE UpToDate(p)
  <2>1. conn'[p] = [conn[p] EXCEPT !.state = "open"] /\ conn[p].version = Latest
    BY <1>3, <1>12 DEF UpToDate, Goes
  <2>2. conn'[p].version = Latest  BY <1>1, <2>1 DEF Connection
  <2> QED  BY <1>1, <1>2, <2>1, <2>2 DEF ConnectionFits
<1>13. CASE FindLatest(p)
  <2> DEFINE t == IF file.scans = 0 THEN "read" ELSE "reading"
  <2>1. conn'[p] = [conn[p] EXCEPT !.found = file.scans, !.state = t]
    BY <1>3, <1>13 DEF FindLatest
  <2>2. t # "open"  OBVIOUS
  <2> HIDE DEF t
  <2> QED  BY <1>1, <2>1, <2>2 DEF Connection
<1>14. CASE SnapshotRead(p)  BY <1>4, <1>14 DEF SnapshotRead
<1>15. CASE CheckProfile(p)  BY <1>4, <1>15 DEF CheckProfile
<1>16. ASSUME NEW table, BeginWrite(p, table)  PROVE FALSE
  <2>1. ASSUME NEW d, Set(p, [conn[p] EXCEPT !.state = "writing", !.draft = d])  PROVE FALSE
    <3>1. conn'[p] = [conn[p] EXCEPT !.state = "writing", !.draft = d]  BY <1>3, <2>1
    <3> QED  BY <1>1, <3>1 DEF Connection
  <2> QED  BY <1>16, <2>1 DEF BeginWrite
<1>17. CASE CommitWrite(p)  BY <1>4, <1>17 DEF CommitWrite
<1>18. CASE Disconnect(p)
  <2>1. conn'[p] = NoConnection  BY <1>3, <1>18 DEF Disconnect
  <2> QED  BY <2>1 DEF NoConnection
<1>19. CASE UNCHANGED dbVars  BY <1>19 DEF dbVars
<1> QED
  BY <1>5, <1>6, <1>7, <1>8, <1>9, <1>10, <1>11, <1>12, <1>13, <1>14, <1>15, <1>16, <1>17,
     <1>18, <1>19 DEF QuietStep, Constructor

\* A profile that cannot be decoded stays, whichever step is taken.
LEMMA StepLosesNothing ==
  ASSUME DatabaseInv, NEW p \in Programs, DatabaseStep(p)
  PROVE  /\ file'.version \in {file.version, file.version + 1}
         /\ file'.scans >= file.scans /\ file'.builds >= file.builds
         /\ file'.saves = file.saves => file'.profile = file.profile
         /\ file'.version # file.version =>
              [file' EXCEPT !.version = file.version, !.writer = file.writer] = file
         /\ "foreign" \in file.profile => file'.profile = file.profile
<1>1. CASE QuietStep(p)  BY <1>1, QuietStepKeeps
<1>2. ASSUME NEW profile \in SUBSET Programs, WriteProfile(p, profile)
      PROVE  /\ "foreign" \notin file.profile
             /\ file'.version = file.version /\ file'.scans = file.scans
             /\ file'.builds = file.builds /\ file'.saves = file.saves + 1
  <2>1. file' = [file EXCEPT !.profile = profile, !.saves = file.saves + 1] /\ conn[p].state = "checked"
    BY <1>2 DEF WriteProfile, InState
  <2>2. file \in File  BY FileFacts
  <2>3. "foreign" \notin file.profile  BY <2>1, ConnectionFacts DEF ConnectionFits
  <2> QED  BY <2>1, <2>2, <2>3 DEF File
<1>3. file.scans \in Int /\ file.builds \in Int /\ file.saves \in Nat  BY FileFacts
<1> QED  BY <1>1, <1>2, <1>3 DEF DatabaseStep

\* The versions only grow, one at a time, and what was committed before an upgrade or
\* another save is in the pages of its transaction, since the lock kept them as they
\* were; a profile that this build cannot decode is found before it is replaced.
THEOREM SavedIsKept == CliSpec => NothingSavedIsLost
<1> DEFINE Kept    == /\ file'.version \in {file.version, file.version + 1}
                      /\ file'.scans >= file.scans /\ file'.builds >= file.builds
                      /\ file'.saves = file.saves => file'.profile = file.profile
                      /\ file'.version # file.version =>
                           [file' EXCEPT !.version = file.version, !.writer = file.writer] = file
           Foreign == "foreign" \in file.profile => file'.profile = file.profile
<1>1. CliInv /\ [CliNext]_cliVars => [Kept]_dbVars /\ [Foreign]_dbVars
  <2> SUFFICES ASSUME CliInv, [CliNext]_cliVars  PROVE [Kept]_dbVars /\ [Foreign]_dbVars
    OBVIOUS
  <2>1. CASE CliNext
    <3>1. PICK p \in Programs :
            Works(p) \/ Interrupt(p) \/ Monitor(p) \/ Cancelled(p) \/ Fail(p) \/ Kill(p)
      BY <2>1 DEF CliNext
    <3>2. DatabaseInv /\ DatabaseStep(p)  BY <3>1, ProgramFits DEF StepFits, CliInv
    <3> QED  BY <3>2, StepLosesNothing
  <2>2. CASE UNCHANGED cliVars  BY <2>2 DEF cliVars, dbVars
  <2> QED  BY <2>1, <2>2
<1>2. CliSpec => [][Kept]_dbVars /\ [][Foreign]_dbVars
  BY <1>1, CliInvHolds, PTL DEF CliSpec
<1> QED  BY <1>2 DEF NothingSavedIsLost, TransactionsKeepWhatIsSaved, ForeignProfileStays

-----------------------------------------------------------------------------
(* What a save of the profile may drop *)

Loading(r) == r.at = 1 /\ r.command # "window"

\* As long as no profile is saved, a command has loaded the one that is there, or is
\* about to, through a connection that knows of it.
SeenFits(r, c, f) ==
  /\ r.seen <= f.saves
  /\ r.command \in Savers /\ r.exit = "running" /\ r.seen = f.saves =>
       IF Loading(r) THEN c.state = "open" => f.profile = {} \/ c.version >= ProfilesSince
                     ELSE f.profile = r.loaded \/ "foreign" \in f.profile

ProfileInv == CliInv /\ \A p \in Programs : SeenFits(run[p], conn[p], file)

\* The command has not loaded anything in this step.
MovesOn(p) ==
  /\ run'[p].command = run[p].command /\ run'[p].loaded = run[p].loaded
  /\ run'[p].seen = run[p].seen
  /\ run'[p].exit = "running" =>
       /\ run[p].exit = "running"
       /\ run[p].command \in Savers => (Loading(run'[p]) <=> Loading(run[p]))

LEMMA SeenTypes ==
  ASSUME CliInv, NEW p \in Programs
  PROVE  /\ run[p].seen \in Nat /\ file.saves \in Nat /\ file.version \in 0..Latest
         /\ ProfilesSince \in 1..Latest /\ Latest \in Nat /\ run[p].at \in 1..9
         /\ run[p].command \in Commands
BY FileFacts DEF CliInv, Run

LEMMA QuietFits ==
  ASSUME ProfileInv, NEW p \in Programs, QuietStep(p), MovesOn(p)
  PROVE  SeenFits(run'[p], conn'[p], file')
<1>1. CliInv /\ DatabaseInv /\ SeenFits(run[p], conn[p], file)  BY DEF ProfileInv, CliInv
<1>2. file'.profile = file.profile /\ file'.saves = file.saves  BY <1>1, QuietStepKeeps
<1>3. conn'[p].state = "open" => conn'[p] = conn[p] \/ conn'[p].version = file.version
  BY <1>1, OpenFacts
<1>4. file.profile # {} => file.version >= ProfilesSince  BY <1>1, FileFacts DEF FileFits
<1> QED  BY <1>1, <1>2, <1>3, <1>4 DEF SeenFits, MovesOn

LEMMA AdvanceFacts ==
  ASSUME NEW r \in Run, NEW found
  PROVE  /\ Advance(r, found).command = r.command /\ Advance(r, found).loaded = r.loaded
         /\ Advance(r, found).seen = r.seen /\ Advance(r, found).exit = r.exit
         /\ Advance(r, found).at > r.at /\ Advance(r, found).at \in Nat
<1> DEFINE n == r.at + (IF r.command = "prepare" /\ r.at = 2 /\ found THEN 3 ELSE 1)
<1>1. r.at \in 1..9  BY DEF Run
<1>2. n > r.at /\ n \in Nat  BY <1>1
<1>3. Advance(r, found) = [r EXCEPT !.at = n]  BY DEF Advance
<1> HIDE DEF n
<1> QED  BY <1>2, <1>3 DEF Run

LEMMA AdvanceByOne ==
  ASSUME NEW r \in Run
  PROVE  /\ Advance(r, FALSE).command = r.command /\ Advance(r, FALSE).loaded = r.loaded
         /\ Advance(r, FALSE).seen = r.seen
         /\ Advance(r, FALSE).at > r.at /\ Advance(r, FALSE).at \in Nat
<1>1. r.at \in 1..9  BY DEF Run
<1> DEFINE n == r.at + 1
<1>2. n > r.at /\ n \in Nat  BY <1>1
<1>3. Advance(r, FALSE) = [r EXCEPT !.at = n]  BY DEF Advance
<1> HIDE DEF n
<1> QED  BY <1>2, <1>3 DEF Run

LEMMA ExitedFacts ==
  ASSUME NEW r \in Run, NEW code
  PROVE  /\ Exited(r, code).command = r.command /\ Exited(r, code).loaded = r.loaded
         /\ Exited(r, code).seen = r.seen /\ Exited(r, code).exit = code
BY DEF Exited, Run

\* Only the first use of a command loads.
LEMMA LoadingFacts ==
  ASSUME CliInv, NEW p \in Programs, run[p].at <= Len(Plan[run[p].command]),
         run[p].command \in Savers
  PROVE  Loading(run[p]) <=> Use(p) = "load"
<1>1. run[p].at \in 1..9  BY SeenTypes
<1>2. CASE run[p].command = "config"  BY <1>1, <1>2 DEF Plan, Loading, Use
<1>3. CASE run[p].command = "suppress"  BY <1>1, <1>3 DEF Plan, Loading, Use
<1>4. CASE run[p].command = "prepare"  BY <1>1, <1>4 DEF Plan, Loading, Use
<1>5. CASE run[p].command = "window"  BY <1>1, <1>5 DEF Plan, Loading, Use
<1> QED  BY <1>2, <1>3, <1>4, <1>5 DEF Savers

\* What most steps do to a command: nothing, or its next use, or its end.
LEMMA CommandMoves ==
  ASSUME CliInv, NEW p \in Programs, run[p].exit = "running",
         \/ UNCHANGED run
         \/ /\ run[p].at <= Len(Plan[run[p].command]) /\ Use(p) # "load"
            /\ \E found : Update(p, Advance(run[p], found))
         \/ \E code \in {"0", "1", "2", "130", "killed"} : Exit(p, code)
  PROVE  MovesOn(p)
<1>1. run[p] \in Run /\ run \in [Programs -> Run]  BY DEF CliInv
<1>2. CASE UNCHANGED run  BY <1>2 DEF MovesOn
<1>3. ASSUME NEW found, Update(p, Advance(run[p], found)),
             run[p].at <= Len(Plan[run[p].command]), Use(p) # "load"
      PROVE  MovesOn(p)
  <2>1. run'[p] = Advance(run[p], found)  BY <1>1, <1>3 DEF Update
  <2>2. /\ run'[p].command = run[p].command /\ run'[p].loaded = run[p].loaded
        /\ run'[p].seen = run[p].seen /\ run'[p].at > run[p].at
    BY <1>1, <2>1, AdvanceFacts
  <2>3. run[p].command \in Savers => (Loading(run'[p]) <=> Loading(run[p]))
    BY <1>3, <2>2, LoadingFacts, SeenTypes DEF Loading
  <2> QED  BY <2>2, <2>3 DEF MovesOn
<1>4. ASSUME NEW code \in {"0", "1", "2", "130", "killed"}, Exit(p, code)  PROVE MovesOn(p)
  <2>1. run'[p] = Exited(run[p], code)  BY <1>1, <1>4 DEF Exit, Update
  <2> QED  BY <1>1, <2>1, ExitedFacts DEF MovesOn
<1> QED  BY <1>2, <1>3, <1>4

\* The same of the steps that change one field of a command.
LEMMA FieldMoves ==
  ASSUME CliInv, NEW p \in Programs, run[p].exit = "running", NEW x,
         \/ Update(p, [run[p] EXCEPT !.wrote = x])
         \/ Update(p, [run[p] EXCEPT !.outcome = x])
         \/ Update(p, [run[p] EXCEPT !.flag = x])
         \/ Update(p, [run[p] EXCEPT !.cancel = x])
         \/ Update(p, [run[p] EXCEPT !.scope = x])
  PROVE  MovesOn(p)
BY DEF CliInv, Run, Update, MovesOn, Loading

LEMMA LoadSeen ==
  ASSUME ProfileInv, NEW p \in Programs, Load(p)
  PROVE  QuietStep(p) /\ SeenFits(run'[p], conn'[p], file')
<1>1. /\ CliInv /\ DatabaseInv /\ SeenFits(run[p], conn[p], file)
      /\ run[p] \in Run /\ run \in [Programs -> Run]
  BY DEF ProfileInv, CliInv
<1>2. run[p].exit = "running" /\ run[p].at <= Len(Plan[run[p].command]) /\ Use(p) = "load"
  BY DEF Load, Doing
<1>3. /\ file.saves \in Nat /\ ProfilesSince \in 1..Latest /\ Latest \in Nat
      /\ run[p].at \in 1..9 /\ file.version \in 0..Latest /\ FileFits(file)
  BY <1>1, SeenTypes, FileFacts
<1>4. run[p].command \in Savers => Loading(run[p])  BY <1>1, <1>2, LoadingFacts
<1>5. ASSUME NEW r \in Run, r.at = run[p].at, Update(p, Advance(r, FALSE))
      PROVE  /\ run'[p].command = r.command /\ run'[p].loaded = r.loaded
             /\ run'[p].seen = r.seen /\ run'[p].at > 1
  <2>1. run'[p] = Advance(r, FALSE)  BY <1>1, <1>5 DEF Update
  <2>2. /\ run'[p].command = r.command /\ run'[p].loaded = r.loaded
        /\ run'[p].seen = r.seen /\ run'[p].at > r.at /\ run'[p].at \in Nat
    <3> DEFINE a == Advance(r, FALSE)
    <3> HIDE DEF a
    <3>1. /\ a.command = r.command /\ a.loaded = r.loaded
          /\ a.seen = r.seen /\ a.at > r.at /\ a.at \in Nat
      BY <1>5, AdvanceByOne DEF a
    <3> QED  BY <2>1, <3>1 DEF a
  <2> QED  BY <1>3, <1>5, <2>2
<1>6. CASE /\ ~file.exists /\ UNCHANGED dbVars
           /\ Update(p, Advance([run[p] EXCEPT !.loaded = {}, !.seen = file.saves], FALSE))
  <2> DEFINE r == [run[p] EXCEPT !.loaded = {}, !.seen = file.saves]
  <2>1. /\ r \in Run /\ r.at = run[p].at /\ r.loaded = {} /\ r.seen = file.saves
        /\ r.command = run[p].command
    BY <1>1, <1>3 DEF Run
  <2> HIDE DEF r
  <2>2. /\ run'[p].loaded = {} /\ run'[p].seen = file.saves /\ run'[p].at > 1
        /\ run'[p].command = run[p].command
    BY <1>5, <1>6, <2>1 DEF r
  <2>3. file.profile = {}  BY <1>3, <1>6 DEF FileFits
  <2>4. file' = file /\ QuietStep(p)  BY <1>6 DEF dbVars, QuietStep
  <2>5. run[p].command \in Savers => ~Loading(run'[p])  BY <1>4, <2>2 DEF Loading
  <2> QED  BY <1>3, <2>2, <2>3, <2>4, <2>5 DEF SeenFits
<1>7. CASE Connect(p, TRUE) /\ Update(p, [run[p] EXCEPT !.seen = file.saves])
  <2>1. QuietStep(p)  BY <1>7 DEF QuietStep
  <2>2. run'[p] = [run[p] EXCEPT !.seen = file.saves]  BY <1>1, <1>7 DEF Update
  <2>3. run'[p].seen = file.saves /\ run'[p].at = run[p].at /\ run'[p].command = run[p].command
    BY <1>1, <2>2 DEF Run
  <2>4. conn'[p].state # "open"
    <3>1. NoConnection \in Connection /\ conn \in [Programs -> Connection]
      BY <1>1, DatabaseAssumption, FileFacts DEF NoConnection, Connection, Pages, Profiles
    <3>2. conn'[p] = [NoConnection EXCEPT !.state = "id", !.readOnly = TRUE]
      BY <1>7, <3>1 DEF Connect, Set
    <3> QED  BY <3>1, <3>2 DEF Connection
  <2>5. file'.saves = file.saves  BY <1>1, <2>1, QuietStepKeeps
  <2> QED  BY <1>3, <1>4, <2>1, <2>3, <2>4, <2>5 DEF SeenFits, Loading
<1>8. CASE /\ InState(p, "open") /\ Decodes(p) /\ Disconnect(p)
           /\ Update(p, Advance([run[p] EXCEPT !.loaded = Configuration(p)], FALSE))
  <2> DEFINE r == [run[p] EXCEPT !.loaded = Configuration(p)]
  <2>1. Configuration(p) \in SUBSET Programs
    BY <1>1, <1>8, FileFacts DEF Decodes, Configuration, Profiles
  <2>2. /\ r \in Run /\ r.at = run[p].at /\ r.loaded = Configuration(p)
        /\ r.seen = run[p].seen /\ r.command = run[p].command
    BY <1>1, <2>1 DEF Run
  <2> HIDE DEF r
  <2>3. /\ run'[p].loaded = Configuration(p) /\ run'[p].seen = run[p].seen
        /\ run'[p].at > 1 /\ run'[p].command = run[p].command
    BY <1>5, <1>8, <2>2 DEF r
  <2>4. QuietStep(p)  BY <1>8 DEF QuietStep
  <2>5. file'.saves = file.saves /\ file'.profile = file.profile
    BY <1>1, <2>4, QuietStepKeeps
  <2>6. run[p].command \in Savers /\ run[p].seen = file.saves =>
          file.profile = {} \/ conn[p].version >= ProfilesSince
    BY <1>1, <1>2, <1>4, <1>8 DEF SeenFits, InState
  <2>7. run[p].command \in Savers /\ run[p].seen = file.saves =>
          Configuration(p) = file.profile
    <3>1. conn[p].version \in 0..Latest  BY <1>1, ConnectionFacts
    <3> QED  BY <1>3, <2>6, <3>1 DEF Configuration
  <2>8. run[p].command \in Savers => ~Loading(run'[p])  BY <2>3 DEF Loading
  <2> QED  BY <1>1, <2>3, <2>4, <2>5, <2>7, <2>8 DEF SeenFits
<1> QED  BY <1>6, <1>7, <1>8 DEF Load

\* A save of the profile: what was loaded, with the change.
Writes(p) == Doing(p, "save") /\ WriteProfile(p, run[p].loaded \cup {p})

LEMMA SaveSeen ==
  ASSUME ProfileInv, NEW p \in Programs, Save(p)
  PROVE  \/ QuietStep(p)
         \/ /\ Writes(p) /\ file'.saves = file.saves + 1
            /\ SeenFits(run'[p], conn'[p], file')
<1>1. /\ CliInv /\ DatabaseInv /\ run[p] \in Run /\ run \in [Programs -> Run]
      /\ SeenFits(run[p], conn[p], file)
  BY DEF ProfileInv, CliInv
<1>2. CASE Connect(p, FALSE) \/ Disconnect(p)  BY <1>2 DEF QuietStep
<1>3. CASE CheckProfile(p)
  <2>1. ~conn[p].readOnly  BY <1>1, <1>3, OpenFor DEF Save, CheckProfile, InState
  <2> QED  BY <1>3, <2>1 DEF QuietStep
<1>4. CASE /\ WriteProfile(p, run[p].loaded \cup {p})
           /\ Update(p, [run[p] EXCEPT !.wrote = @ \cup {"profile"}])
  <2>1. Writes(p)  BY <1>4 DEF Writes, Save
  <2>2. file'.saves = file.saves + 1  BY <1>1, <1>4, FileFacts DEF WriteProfile, File
  <2>3. run'[p] = [run[p] EXCEPT !.wrote = @ \cup {"profile"}]  BY <1>1, <1>4 DEF Update
  <2>4. run'[p].seen = run[p].seen  BY <1>1, <2>3 DEF Run
  <2>5. run[p].seen \in Nat /\ file.saves \in Nat  BY <1>1, SeenTypes
  <2>6. SeenFits(run'[p], conn'[p], file')  BY <1>1, <2>2, <2>4, <2>5 DEF SeenFits
  <2> QED  BY <2>1, <2>2, <2>6
<1> QED  BY <1>2, <1>3, <1>4 DEF Save

\* All that a step of a program does to the profile.
LEMMA ProfileSteps ==
  ASSUME ProfileInv, NEW p \in Programs,
         Works(p) \/ Interrupt(p) \/ Monitor(p) \/ Cancelled(p) \/ Fail(p) \/ Kill(p)
  PROVE  /\ QuietStep(p) \/ (Writes(p) /\ file'.saves = file.saves + 1)
         /\ SeenFits(run'[p], conn'[p], file')
<1>1. CliInv  BY DEF ProfileInv
<1>2. CASE Load(p)  BY <1>2, LoadSeen
<1>3. CASE Read(p)
  <2>1. QuietStep(p)  BY <1>3 DEF Read, QuietStep
  <2>2. MovesOn(p)  BY <1>1, <1>3, CommandMoves DEF Read, Doing
  <2> QED  BY <2>1, <2>2, QuietFits
<1>4. CASE Import(p)
  <2>1. QuietStep(p)
    <3>1. CASE BeginWrite(p, "scan")
      <4>1. ~conn[p].readOnly  BY <1>1, <1>4, <3>1, OpenFor DEF Import, BeginWrite, InState
      <4> QED  BY <3>1, <4>1 DEF QuietStep
    <3> QED  BY <1>4, <3>1 DEF Import, QuietStep
  <2>2. MovesOn(p)
    <3>1. CASE Update(p, [run[p] EXCEPT !.wrote = @ \cup {"scan"}])
      BY <1>1, <1>4, <3>1, FieldMoves DEF Import, Doing
    <3> QED  BY <1>1, <1>4, <3>1, CommandMoves DEF Import, Doing
  <2> QED  BY <2>1, <2>2, QuietFits
<1>5. CASE Record(p)
  <2>1. QuietStep(p)
    <3>1. CASE BeginWrite(p, "build")
      <4>1. ~conn[p].readOnly  BY <1>1, <1>5, <3>1, OpenFor DEF Record, BeginWrite, InState
      <4> QED  BY <3>1, <4>1 DEF QuietStep
    <3> QED  BY <1>5, <3>1 DEF Record, QuietStep
  <2>2. MovesOn(p)
    <3>1. ASSUME NEW x, Update(p, [run[p] EXCEPT !.outcome = x])  PROVE MovesOn(p)
      BY <1>1, <1>5, <3>1, FieldMoves DEF Record, Doing
    <3>2. CASE Update(p, [run[p] EXCEPT !.wrote = @ \cup {"build"}])
      BY <1>1, <1>5, <3>2, FieldMoves DEF Record, Doing
    <3>3. CASE Update(p, Recorded(p))
      <4>1. \/ Recorded(p) = Advance(run[p], FALSE)
            \/ \E code \in {"0", "2", "130"} : Recorded(p) = Exited(run[p], code)
        BY DEF Recorded
      <4>2. \/ Update(p, Advance(run[p], FALSE))
            \/ \E code \in {"0", "2", "130"} : Exit(p, code)
        BY <3>3, <4>1 DEF Exit
      <4> QED  BY <1>1, <1>5, <4>2, CommandMoves DEF Record, Doing
    <3>4. CASE UNCHANGED run  BY <1>1, <1>5, <3>4, CommandMoves DEF Record, Doing
    <3> QED  BY <1>5, <3>1, <3>2, <3>3, <3>4 DEF Record
  <2> QED  BY <2>1, <2>2, QuietFits
<1>6. CASE Save(p)
  <2>1. \/ QuietStep(p)
        \/ /\ Writes(p) /\ file'.saves = file.saves + 1
           /\ SeenFits(run'[p], conn'[p], file')
    BY <1>6, SaveSeen
  <2>2. CASE QuietStep(p)
    <3>1. MovesOn(p)
      <4>1. CASE Update(p, [run[p] EXCEPT !.wrote = @ \cup {"profile"}])
        BY <1>1, <1>6, <4>1, FieldMoves DEF Save, Doing
      <4> QED  BY <1>1, <1>6, <4>1, CommandMoves DEF Save, Doing
    <3> QED  BY <2>2, <3>1, QuietFits
  <2> QED  BY <2>1, <2>2
<1>7. CASE Construct(p)
  <2>1. QuietStep(p) /\ MovesOn(p)  BY <1>1, <1>7, CommandMoves DEF Construct, QuietStep
  <2> QED  BY <2>1, QuietFits
<1>8. CASE Listen(p)
  <2>1. QuietStep(p)  BY <1>8 DEF Listen, QuietStep
  <2>2. run[p].exit = "running" /\ run[p].at <= Len(Plan[run[p].command]) /\ Use(p) = "listen"
    BY <1>8 DEF Listen, Doing
  <2>3. MovesOn(p)
    <3>1. CASE Update(p, [run[p] EXCEPT !.scope = "handler"])  BY <1>1, <2>2, <3>1, FieldMoves
    <3>2. CASE Update(p, Advance([run[p] EXCEPT !.scope = "listening", !.flag = FALSE], FALSE))
      <4> DEFINE r == [run[p] EXCEPT !.scope = "listening", !.flag = FALSE]
      <4>1. /\ r \in Run /\ r.at = run[p].at /\ r.command = run[p].command
            /\ r.loaded = run[p].loaded /\ r.seen = run[p].seen
        <5>1. PICK q \in Run : q = run[p]  BY <1>1, RunHere
        <5>2. [q EXCEPT !.scope = "listening", !.flag = FALSE] \in Run  BY DEF Run
        <5>3. r = [q EXCEPT !.scope = "listening", !.flag = FALSE]  BY <5>1
        <5>4. r.at = q.at /\ r.command = q.command /\ r.loaded = q.loaded /\ r.seen = q.seen
          BY <5>3 DEF Run
        <5> QED  BY <5>1, <5>2, <5>3, <5>4
      <4>2. run'[p] = Advance(r, FALSE)  BY <1>1, <3>2 DEF CliInv, Update
      <4> HIDE DEF r
      <4> DEFINE a == Advance(r, FALSE)
      <4> HIDE DEF a
      <4>6. /\ a.command = r.command /\ a.loaded = r.loaded
            /\ a.seen = r.seen /\ a.at > r.at /\ a.at \in Nat
        BY <4>1, AdvanceByOne DEF a
      <4>3. /\ run'[p].command = run[p].command /\ run'[p].loaded = run[p].loaded
            /\ run'[p].seen = run[p].seen /\ run'[p].at > run[p].at /\ run'[p].at \in Nat
        BY <4>1, <4>2, <4>6 DEF a
      <4>4. run[p].command \in Savers => ~Loading(run[p])  BY <1>1, <2>2, LoadingFacts
      <4>5. run[p].at \in 1..9  BY <1>1, SeenTypes
      <4> QED  BY <2>2, <4>3, <4>4, <4>5 DEF MovesOn, Loading
    <3> QED  BY <1>8, <3>1, <3>2 DEF Listen
  <2> QED  BY <2>1, <2>3, QuietFits
<1>9. CASE Return(p)
  <2>1. QuietStep(p)  BY <1>9 DEF Return, QuietStep
  <2>2. MovesOn(p)  BY <1>1, <1>9, CommandMoves DEF Return
  <2> QED  BY <2>1, <2>2, QuietFits
<1>10. CASE Interrupt(p) \/ Monitor(p)
  <2>1. QuietStep(p) /\ MovesOn(p)
    BY <1>1, <1>10, FieldMoves DEF Interrupt, Monitor, QuietStep
  <2> QED  BY <2>1, QuietFits
<1>11. CASE Cancelled(p) \/ Fail(p) \/ Kill(p)
  <2>1. QuietStep(p)  BY <1>11 DEF Cancelled, Fail, Kill, QuietStep
  <2>2. MovesOn(p)  BY <1>1, <1>11, CommandMoves DEF Cancelled, Fail, Kill, Doing
  <2> QED  BY <2>1, <2>2, QuietFits
<1> QED  BY <1>2, <1>3, <1>4, <1>5, <1>6, <1>7, <1>8, <1>9, <1>10, <1>11 DEF Works

LEMMA ProfileInit == CliInit => ProfileInv
<1> SUFFICES ASSUME CliInit PROVE ProfileInv  OBVIOUS
<1>1. CliInv  BY CliInitFits
<1>2. file.saves = 0 /\ (file.profile = {} \/ "foreign" \in file.profile)
  BY DEF CliInit, DatabaseInit
<1>3. ASSUME NEW p \in Programs  PROVE SeenFits(run[p], conn[p], file)
  <2>1. run[p].seen = 0 /\ run[p].loaded = {} /\ conn[p].state = "closed"
    BY DEF CliInit, DatabaseInit, NoConnection
  <2> QED  BY <1>2, <2>1 DEF SeenFits
<1> QED  BY <1>1, <1>3 DEF ProfileInv

LEMMA ProfileStep ==
  ASSUME ProfileInv, NEW p \in Programs,
         Works(p) \/ Interrupt(p) \/ Monitor(p) \/ Cancelled(p) \/ Fail(p) \/ Kill(p)
  PROVE  ProfileInv'
<1>1. CliInv /\ DatabaseInv /\ StepFits(p)  BY ProgramFits DEF ProfileInv, CliInv
<1>2. CliInv'  BY <1>1, StepKeepsInv
<1>3. /\ QuietStep(p) \/ (Writes(p) /\ file'.saves = file.saves + 1)
      /\ SeenFits(run'[p], conn'[p], file')
  BY ProfileSteps
<1>4. \/ file'.saves = file.saves /\ file'.profile = file.profile
      \/ file'.saves = file.saves + 1
  BY <1>1, <1>3, QuietStepKeeps
<1>5. ASSUME NEW q \in Programs, q # p  PROVE SeenFits(run'[q], conn'[q], file')
  <2>1. run'[q] = run[q] /\ conn'[q] = conn[q]
    BY <1>1, <1>5, MoverFits DEF StepFits, MoveFits, CliInv, DatabaseInv, DatabaseTypeOK
  <2>2. run[q].seen \in Nat /\ file.saves \in Nat  BY <1>1, SeenTypes
  <2>3. SeenFits(run[q], conn[q], file)  BY DEF ProfileInv
  <2> QED  BY <1>4, <2>1, <2>2, <2>3 DEF SeenFits
<1> QED  BY <1>2, <1>3, <1>5 DEF ProfileInv

LEMMA ProfileInvHolds == CliSpec => []ProfileInv
<1>1. ProfileInv /\ [CliNext]_cliVars => ProfileInv'
  <2> SUFFICES ASSUME ProfileInv, [CliNext]_cliVars PROVE ProfileInv'  OBVIOUS
  <2>1. CASE CliNext  BY <2>1, ProfileStep DEF CliNext
  <2>2. CASE UNCHANGED cliVars
    <3>1. CliInv'  BY <2>2, CliInvIsInductive DEF ProfileInv
    <3> QED  BY <2>2, <3>1 DEF ProfileInv, cliVars
  <2> QED  BY <2>1, <2>2
<1> QED  BY <1>1, ProfileInit, PTL DEF CliSpec

\* save_project_config replaces a whole profile with the one its command loaded, and
\* its change; what that drops was saved after the command had begun to load.
THEOREM OverlappingSavesOnly == CliSpec => OnlyOverlappingSavesAreLost
<1> DEFINE Kept == \A p \in Programs :
                     file'.saves # file.saves /\ run'[p] # run[p] /\ run[p].seen = file.saves =>
                       file'.profile = file.profile \cup {p}
<1>1. ProfileInv /\ [CliNext]_cliVars => [Kept]_cliVars
  <2> SUFFICES ASSUME ProfileInv, CliNext  PROVE Kept  OBVIOUS
  <2>1. PICK p \in Programs :
          Works(p) \/ Interrupt(p) \/ Monitor(p) \/ Cancelled(p) \/ Fail(p) \/ Kill(p)
    BY DEF CliNext
  <2>2. CliInv /\ DatabaseInv /\ StepFits(p)  BY <2>1, ProgramFits DEF ProfileInv, CliInv
  <2>3. QuietStep(p) \/ Writes(p)  BY <2>1, ProfileSteps
  <2>4. SUFFICES ASSUME NEW q \in Programs, file'.saves # file.saves, run'[q] # run[q],
                        run[q].seen = file.saves
                 PROVE  file'.profile = file.profile \cup {q}
    OBVIOUS
  <2>5. q = p  BY <2>2, <2>4 DEF StepFits, CliInv
  <2>6. Writes(p)  BY <2>2, <2>3, <2>4, QuietStepKeeps
  <2>7. /\ run[p].exit = "running" /\ run[p].at <= Len(Plan[run[p].command])
        /\ Use(p) = "save" /\ conn[p].state = "checked"
    BY <2>6 DEF Writes, Doing, WriteProfile, InState
  <2>8. run[p].command \in Savers /\ ~Loading(run[p])  BY <2>2, <2>7, UseFacts, LoadingFacts
  <2>9. "foreign" \notin file.profile  BY <2>2, <2>7, ConnectionFacts DEF ConnectionFits
  <2>10. file.profile = run[p].loaded
    BY <2>4, <2>5, <2>7, <2>8, <2>9 DEF ProfileInv, SeenFits
  <2>11. file'.profile = run[p].loaded \cup {p}
    BY <2>2, <2>6, FileFacts DEF Writes, WriteProfile, File
  <2> QED  BY <2>5, <2>10, <2>11
<1>2. CliSpec => [][Kept]_cliVars  BY <1>1, ProfileInvHolds, PTL DEF CliSpec
<1> QED  BY <1>2 DEF OnlyOverlappingSavesAreLost
=============================================================================

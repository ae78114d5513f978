---------------------------- MODULE DatabaseFile ----------------------------
(***************************************************************************)
(* The SQLite file and the connections to it                                *)
(* (core/database/sqlite_database.cpp).  Every program has at most one      *)
(* connection at a time.  Opening one reads the marks of the file in three  *)
(* statements of their own, creates the schema in an empty file, and        *)
(* upgrades an old one, a transaction per version; the version read last is *)
(* what the connection goes by from then on.                                *)
(***************************************************************************)
EXTENDS Integers

CONSTANTS
  Programs,       (* processes, each with its own connection               *)
  Nobody,         (* no program                                            *)
  Latest,         (* the schema version this build writes                  *)
  ProfilesSince,  (* the first version with a table of configurations      *)
  MaxScans        (* bound on the scans saved in the file                  *)

ASSUME DatabaseAssumption ==
  /\ Nobody \notin Programs /\ "foreign" \notin Programs
  /\ Latest \in Nat \ {0} /\ ProfilesSince \in 1..Latest /\ MaxScans \in Nat

VARIABLES
  file,    (* the committed contents, and who holds the write lock         *)
  conn     (* program -> its connection                                    *)

dbVars == <<file, conn>>

\* The profile is the changes to the defaults that it holds, each named after the
\* program that made it; "foreign" is one that this build cannot decode.
Profiles == SUBSET (Programs \cup {"foreign"})

\* Version 0 is an empty file.
Pages == [version : 0..Latest, scans : 0..MaxScans, builds : 0..MaxScans, profile : Profiles]

\* saves is history, for the properties: how often a profile was saved.
File == [exists  : BOOLEAN,
         version : 0..Latest,
         scans   : 0..MaxScans,
         builds  : 0..MaxScans,
         profile : Profiles,
         writer  : Programs \cup {Nobody},
         saves   : Nat]

Connection ==
  [state    : {"closed", "id", "version", "tables", "judge", "migrating",
               "upgrading", "open", "reading", "read", "checked", "writing"},
   readOnly : BOOLEAN,
   id       : BOOLEAN,          \* the application id was there
   version  : 0..Latest,        \* user_version, as last read
   empty    : BOOLEAN,          \* there were no tables
   found    : 0..MaxScans,
   draft    : Pages]            \* what the transaction has made of the pages

NoConnection == [state |-> "closed", readOnly |-> TRUE, id |-> FALSE, version |-> 0,
                 empty |-> TRUE, found |-> 0,
                 draft |-> [version |-> 0, scans |-> 0, builds |-> 0, profile |-> {}]]

InState(p, s) == conn[p].state = s
Set(p, r)     == conn' = [conn EXCEPT ![p] = r]
Goes(p, s)    == Set(p, [conn[p] EXCEPT !.state = s])

\* What a transaction finds when it begins, and what its COMMIT leaves.
Committed     == [version |-> file.version, scans |-> file.scans, builds |-> file.builds,
                  profile |-> file.profile]
Install(d)    == file' = [file EXCEPT !.version = d.version, !.scans = d.scans,
                                      !.builds = d.builds, !.profile = d.profile,
                                      !.writer = Nobody]

\* Nothing is written to the file while a SELECT of another connection is unfinished.
Unread(p) == \A q \in Programs \ {p} : ~InState(q, "reading")

\* A program that closes its connection, or dies, rolls back what it did not commit.
Released(p) == [file EXCEPT !.writer = IF @ = p THEN Nobody ELSE @]

Disconnect(p) == file' = Released(p) /\ Set(p, NoConnection)

-----------------------------------------------------------------------------
(* The constructor *)

\* Opening for writing creates the file.
Connect(p, readOnly) ==
  /\ InState(p, "closed")
  /\ readOnly => file.exists
  /\ Set(p, [NoConnection EXCEPT !.state = "id", !.readOnly = readOnly])
  /\ file' = [file EXCEPT !.exists = TRUE]

ReadId(p) ==
  /\ InState(p, "id")
  /\ Set(p, [conn[p] EXCEPT !.state = "version", !.id = file.version > 0])
  /\ UNCHANGED file

ReadVersion(p) ==
  /\ InState(p, "version")
  /\ Set(p, [conn[p] EXCEPT !.state = "tables", !.version = file.version])
  /\ UNCHANGED file

CountTables(p) ==
  /\ InState(p, "tables")
  /\ Set(p, [conn[p] EXCEPT !.state = "judge", !.empty = file.version = 0])
  /\ UNCHANGED file

LooksNew(c)  == ~c.id /\ c.version = 0 /\ c.empty /\ ~c.readOnly
LooksOurs(c) == c.id /\ c.version \in 1..Latest

\* Anything that neither looks new nor ours is refused.
Refused(p) == InState(p, "judge") /\ ~LooksNew(conn[p]) /\ ~LooksOurs(conn[p])

\* user_version is read again; a new file has yet to be created.
Accept(p) ==
  /\ InState(p, "judge")
  /\ \/ LooksNew(conn[p]) /\ Goes(p, "migrating")
     \/ /\ LooksOurs(conn[p])
        /\ Set(p, [conn[p] EXCEPT !.version = file.version,
                     !.state = IF conn[p].readOnly THEN "open" ELSE "migrating"])
  /\ UNCHANGED file

\* BEGIN IMMEDIATE, and the statements with the next user_version, a literal.
Upgrade(p) ==
  /\ file' = [file EXCEPT !.writer = p]
  /\ Set(p, [conn[p] EXCEPT !.state = "upgrading",
                            !.draft = [Committed EXCEPT !.version = conn[p].version + 1]])

\* Mutant: an upgrade that finds its tables in place is taken as done.
BeginUpgrade_Lenient(p) ==
  /\ InState(p, "migrating") /\ conn[p].version < Latest
  /\ file.writer = Nobody
  /\ IF file.version = conn[p].version THEN Upgrade(p) ELSE Goes(p, "open") /\ UNCHANGED file

\* Mutant: the statements say IF NOT EXISTS.
BeginUpgrade_IfNotExists(p) ==
  /\ InState(p, "migrating") /\ conn[p].version < Latest
  /\ file.writer = Nobody
  /\ Upgrade(p)

\* The statements fail when another program has already created the same tables or
\* columns.
BeginUpgrade(p) ==
  /\ InState(p, "migrating") /\ conn[p].version < Latest
  /\ file.writer = Nobody /\ file.version = conn[p].version
  /\ Upgrade(p)

UpgradeClashes(p) ==
  InState(p, "migrating") /\ conn[p].version < Latest /\ file.version # conn[p].version

\* COMMIT; the version of a new file is then read again.
CommitUpgrade(p) ==
  /\ InState(p, "upgrading") /\ Unread(p)
  /\ Set(p, [conn[p] EXCEPT !.version = @ + 1, !.id = TRUE,
                            !.state = IF conn[p].version = 0 THEN "judge" ELSE "migrating"])
  /\ Install(conn[p].draft)

UpToDate(p) ==
  /\ InState(p, "migrating") /\ conn[p].version = Latest
  /\ Goes(p, "open")
  /\ UNCHANGED file

Constructor(p) ==
  \/ ReadId(p) \/ ReadVersion(p) \/ CountTables(p) \/ Accept(p)
  \/ BeginUpgrade(p) \/ CommitUpgrade(p) \/ UpToDate(p)

-----------------------------------------------------------------------------
(* What an open connection is used for *)

\* load_snapshot: the newest scan, or none.  The SELECT that finds it stays unfinished,
\* and keeps the file as it is, ...
FindLatest(p) ==
  /\ InState(p, "open")
  /\ Set(p, [conn[p] EXCEPT !.found = file.scans,
                            !.state = IF file.scans = 0 THEN "read" ELSE "reading"])
  /\ UNCHANGED file

\* ... until the others have returned all its rows.
SnapshotRead(p) ==
  /\ InState(p, "reading")
  /\ Goes(p, "read")
  /\ UNCHANGED file

\* Mutant: an off-by-one in the version that has profiles.
Configuration_OffByOne(p) ==
  IF conn[p].version <= ProfilesSince THEN {} ELSE file.profile

\* configuration: an old file has none; what cannot be decoded is an error.
Configuration(p) ==
  IF conn[p].version < ProfilesSince THEN {} ELSE file.profile

Decodes(p) == "foreign" \notin Configuration(p)

\* save_configuration: a profile that cannot be decoded is not replaced, ...
CheckProfile(p) ==
  /\ InState(p, "open") /\ Decodes(p)
  /\ Goes(p, "checked")
  /\ UNCHANGED file

\* ... any other is, whole, by a statement of its own.
WriteProfile(p, profile) ==
  /\ InState(p, "checked") /\ file.writer = Nobody /\ Unread(p)
  /\ file' = [file EXCEPT !.profile = profile, !.saves = @ + 1]
  /\ Goes(p, "read")

\* save and save_build: one transaction; a build is of a saved scan.
BeginWrite(p, table) ==
  /\ InState(p, "open") /\ file.writer = Nobody
  /\ file' = [file EXCEPT !.writer = p]
  /\ \/ /\ table = "scan" /\ file.scans < MaxScans
        /\ Set(p, [conn[p] EXCEPT !.state = "writing",
                                  !.draft = [Committed EXCEPT !.scans = @ + 1]])
     \/ /\ table = "build" /\ file.scans > 0 /\ file.builds < MaxScans
        /\ Set(p, [conn[p] EXCEPT !.state = "writing",
                                  !.draft = [Committed EXCEPT !.builds = @ + 1]])

CommitWrite(p) ==
  /\ InState(p, "writing") /\ Unread(p)
  /\ Install(conn[p].draft)
  /\ Goes(p, "read")

-----------------------------------------------------------------------------
DatabaseInit ==
  /\ \E v \in 0..Latest, n \in 0..MaxScans :
       /\ v = 0 => n = 0
       /\ \E saved \in IF v < ProfilesSince THEN {{}} ELSE {{}, {"foreign"}} :
            file = [exists |-> v > 0, version |-> v, scans |-> n, builds |-> 0,
                    profile |-> saved, writer |-> Nobody, saves |-> 0]
  /\ conn = [p \in Programs |-> NoConnection]

-----------------------------------------------------------------------------
(* Properties *)

DatabaseTypeOK == file \in File /\ conn \in [Programs -> Connection]

\* A connection that writes works on the newest schema and knows it, and no
\* connection asks for tables or columns that the file does not have.
SchemaFitsItsUsers ==
  \A p \in Programs :
    /\ conn[p].version <= file.version
    /\ conn[p].state \in {"open", "checked", "writing"} /\ ~conn[p].readOnly =>
         conn[p].version = Latest /\ file.version = Latest

\* The schema goes from version to version and never back, and a transaction takes
\* along all that was saved before it, whoever upgrades, saves and dies at which moment:
\* COMMIT puts back pages that were read at BEGIN.
TransactionsKeepWhatIsSaved ==
  [][/\ file'.version \in {file.version, file.version + 1}
     /\ file'.scans >= file.scans /\ file'.builds >= file.builds
     /\ file'.saves = file.saves => file'.profile = file.profile
     /\ file'.version # file.version =>
          [file' EXCEPT !.version = file.version, !.writer = file.writer] = file]_dbVars

\* docs/project-configuration.md: a profile of an unknown version, or a damaged one,
\* is an error and is not overwritten.
ForeignProfileStays ==
  []["foreign" \in file.profile => file'.profile = file.profile]_dbVars

\* Nothing that is saved is lost, whoever opens the database with whatever version.
NothingSavedIsLost == TransactionsKeepWhatIsSaved /\ ForeignProfileStays
=============================================================================

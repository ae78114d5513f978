------------------------------ MODULE TuCache ------------------------------
(***************************************************************************)
(* The cache of analysed translation units (core/parser/analysis_cache.hpp *)
(* and the task of one unit in core/parser/clang_analysis.cpp): analyses   *)
(* of several scans or processes share one directory of entries while the  *)
(* sources and headers they read are edited.                               *)
(*                                                                         *)
(* What Clang makes of a unit is a function of what it reads, so an AST is *)
(* what it was made from: a scope and a view.  A view holds the text of    *)
(* the files that are opened, and of a file that is only looked up by      *)
(* __has_include whether it exists.  The scope is the analyser, the rules, *)
(* the file list and the command.  A key is the fingerprint of both;       *)
(* SHA-256 is taken to be injective.                                       *)
(***************************************************************************)
EXTENDS Naturals, FiniteSets

CONSTANTS
  Analyses,   (* analyses of the unit that may run                        *)
  Scopes,     (* rule choices and commands they may run with              *)
  Opened,     (* files whose text the preprocessor and the parser read    *)
  LookedUp,   (* files that are only tested for existence                 *)
  Texts,      (* what an opened file may contain                          *)
  Absent,     (* there is no file                                         *)
  There,      (* there is a file, looked up and not read                  *)
  NoView,     (* no key, no AST                                           *)
  MaxEdits    (* bound on the edits                                       *)

ASSUME TuCacheAssumption ==
  /\ Scopes # {}
  /\ Opened \cap LookedUp = {}
  /\ Opened # {}
  /\ Absent \notin Texts /\ There \notin Texts /\ There # Absent
  /\ MaxEdits \in Nat

Files == Opened \cup LookedUp
Sight(f) == IF f \in Opened THEN Texts \cup {Absent} ELSE {There, Absent}
View  == {v \in [Files -> Texts \cup {Absent, There}] : \A f \in Files : v[f] \in Sight(f)}
Key   == [scope : Scopes, view : View]

ASSUME NoViewAssumption == NoView \notin View

VARIABLES
  tree,     (* what there is to see: file -> its text or existence        *)
  edits,    (* how many edits there were                                  *)
  settled,  (* looked-up files that have changed                          *)
  entries,  (* the entry directories: a partial function on keys          *)
  unit      (* analysis -> the locals of its task                         *)

files  == <<tree, edits, settled>>
vars   == <<files, entries, unit>>

\* An entry whose text is not complete, or was damaged, has no AST to offer.
Entry == [complete : BOOLEAN, ast : Key \cup {NoView}]

Places == {"idle", "probing", "lookup", "parsing", "comparing", "reprobing",
           "claiming", "filling", "done", "threw", "stopped"}

Unit == [pc     : Places,
         scope  : Scopes,
         todo   : SUBSET Files,
         seen   : View,               \* what the pass under way has read
         probed : View \cup {NoView}, \* the first probe; NoView: not reusable
         ast    : Key \cup {NoView},  \* the result
         cached : BOOLEAN]

Nothing == [f \in Files |-> Absent]

At(a, place) == unit[a].pc = place
KeyOf(a) == [scope |-> unit[a].scope, view |-> unit[a].probed]
SeenBy(a) == [scope |-> unit[a].scope, view |-> unit[a].seen]

-----------------------------------------------------------------------------
(* The environment *)

\* Opened files may be edited and edited back.  A file that is only looked up
\* appears or disappears and stays so: changing it back between two readings is
\* what docs/performance-and-interaction.md excludes.
Edit(f) ==
  /\ edits < MaxEdits
  /\ \E s \in Sight(f) :
       /\ f \notin settled
       /\ tree' = [tree EXCEPT ![f] = s]
  /\ settled' = settled \cup ({f} \cap LookedUp)
  /\ edits' = edits + 1
  /\ UNCHANGED <<entries, unit>>

\* A disk error in a stored entry: its hash no longer matches.
Damage(k) ==
  /\ entries[k].complete
  /\ entries' = [entries EXCEPT ![k] = [complete |-> FALSE, ast |-> NoView]]
  /\ UNCHANGED <<files, unit>>

-----------------------------------------------------------------------------
(* The task of one translation unit *)

Start(a) ==
  /\ At(a, "idle")
  /\ \E s \in Scopes :
       unit' = [unit EXCEPT ![a].scope = s, ![a].todo = Files, ![a].pc = "probing"]
  /\ UNCHANGED <<files, entries>>

\* The pass reads or looks up one file, at a moment of its own.
See(a, f, next) ==
  /\ f \in unit[a].todo
  /\ unit' = [unit EXCEPT ![a].seen[f] = tree[f],
                          ![a].todo = IF @ = {f} THEN Files ELSE @ \ {f},
                          ![a].pc = IF unit[a].todo = {f} THEN next ELSE @]
  /\ UNCHANGED <<files, entries>>

Probe(a, f) == At(a, "probing") /\ See(a, f, "lookup")

\* Time macros, embedded resources, a preprocessor error: no key, and the unit
\* is parsed without the cache.
ProbeUnusable(a) ==
  /\ At(a, "probing")
  /\ unit' = [unit EXCEPT ![a].todo = Files, ![a].pc = "parsing"]
  /\ UNCHANGED <<files, entries>>

\* Mutant: an entry is used without comparing its hash.
Lookup_Trusts(a) ==
  /\ At(a, "lookup")
  /\ LET key == SeenBy(a) IN
       IF key \in DOMAIN entries
       THEN unit' = [unit EXCEPT ![a].probed = unit[a].seen, ![a].ast = entries[key].ast,
                                 ![a].cached = TRUE, ![a].pc = "done"]
       ELSE unit' = [unit EXCEPT ![a].probed = unit[a].seen, ![a].pc = "parsing"]
  /\ UNCHANGED <<files, entries>>

\* Mutant: an entry that cannot be used is removed.
Lookup_Removes(a) ==
  /\ At(a, "lookup")
  /\ LET key == SeenBy(a) IN
       IF key \in DOMAIN entries /\ entries[key].complete
       THEN /\ unit' = [unit EXCEPT ![a].probed = unit[a].seen, ![a].ast = entries[key].ast,
                                    ![a].cached = TRUE, ![a].pc = "done"]
            /\ UNCHANGED entries
       ELSE /\ unit' = [unit EXCEPT ![a].probed = unit[a].seen, ![a].pc = "parsing"]
            /\ entries' = [k \in DOMAIN entries \ {key} |-> entries[k]]
  /\ UNCHANGED files

\* A hit, or a miss.  An entry that cannot be used is a miss too; that it is
\* counted (cache_error) is left out.
Lookup(a) ==
  /\ At(a, "lookup")
  /\ LET key == SeenBy(a) IN
       IF key \in DOMAIN entries /\ entries[key].complete
       THEN unit' = [unit EXCEPT ![a].probed = unit[a].seen, ![a].ast = entries[key].ast,
                                 ![a].cached = TRUE, ![a].pc = "done"]
       ELSE unit' = [unit EXCEPT ![a].probed = unit[a].seen, ![a].pc = "parsing"]
  /\ UNCHANGED <<files, entries>>

Parse(a, f) == At(a, "parsing") /\ See(a, f, "comparing")

\* Clang reports errors: the unit has no AST and nothing is cached.
ParseFails(a) ==
  /\ At(a, "parsing")
  /\ unit' = [unit EXCEPT ![a].pc = "done"]
  /\ UNCHANGED <<files, entries>>

\* Mutant: what the parser read is not compared with the probe.
CompareDependencies_Skips(a) ==
  /\ At(a, "comparing")
  /\ unit' = [unit EXCEPT ![a].ast = SeenBy(a),
                ![a].pc = IF unit[a].probed = NoView THEN "done" ELSE "reprobing"]
  /\ UNCHANGED <<files, entries>>

\* The texts the parser read must be those of the probe; files that were only
\* looked up are not among them.
CompareDependencies(a) ==
  /\ At(a, "comparing")
  /\ unit' = [unit EXCEPT ![a].ast = SeenBy(a),
                ![a].pc = IF unit[a].probed = NoView THEN "done"
                          ELSE IF \A f \in Opened : unit[a].seen[f] = unit[a].probed[f]
                               THEN "reprobing" ELSE "threw"]
  /\ UNCHANGED <<files, entries>>

Reprobe(a, f) ==
  /\ At(a, "reprobing")
  /\ f \in unit[a].todo
  /\ IF tree[f] = unit[a].probed[f]
     THEN See(a, f, "claiming")
     ELSE /\ unit' = [unit EXCEPT ![a].pc = "threw"]
          /\ UNCHANGED <<files, entries>>

ReprobeUnusable(a) ==
  /\ At(a, "reprobing")
  /\ unit' = [unit EXCEPT ![a].pc = "threw"]
  /\ UNCHANGED <<files, entries>>

WithEntry(k, entry) ==
  [j \in DOMAIN entries \cup {k} |-> IF j = k THEN entry ELSE entries[j]]

\* create_directory(key) decides who writes the entry; an entry that exists,
\* complete or not, is left as it is.  A payload may be too large, or creating
\* the directory may fail.
ClaimEntry(a) ==
  /\ At(a, "claiming")
  /\ \/ /\ KeyOf(a) \notin DOMAIN entries
        /\ unit' = [unit EXCEPT ![a].pc = "filling"]
        /\ entries' = WithEntry(KeyOf(a), [complete |-> FALSE, ast |-> NoView])
     \/ /\ unit' = [unit EXCEPT ![a].pc = "done"]
        /\ UNCHANGED entries
  /\ UNCHANGED files

\* The hash and the payload are written, or writing stops half way.
FillEntry(a) ==
  /\ At(a, "filling")
  /\ \/ entries' = WithEntry(KeyOf(a), [complete |-> TRUE, ast |-> unit[a].ast])
     \/ UNCHANGED entries
  /\ unit' = [unit EXCEPT ![a].pc = "done"]
  /\ UNCHANGED files

\* The process dies, or the scan is cancelled.
Stop(a) ==
  /\ unit[a].pc \notin {"idle", "done", "threw", "stopped"}
  /\ unit' = [unit EXCEPT ![a].pc = "stopped"]
  /\ UNCHANGED <<files, entries>>

-----------------------------------------------------------------------------
(* The specification *)

Init ==
  /\ tree \in View
  /\ edits = 0
  /\ settled = {}
  /\ entries = [k \in {} |-> NoView]
  /\ unit = [a \in Analyses |->
       [pc |-> "idle", scope |-> CHOOSE s \in Scopes : TRUE, todo |-> {},
        seen |-> Nothing, probed |-> NoView, ast |-> NoView,
        cached |-> FALSE]]

Task(a) ==
  \/ \E f \in Files : Probe(a, f) \/ Parse(a, f) \/ Reprobe(a, f)
  \/ ProbeUnusable(a)
  \/ Lookup(a)
  \/ ParseFails(a)
  \/ CompareDependencies(a)
  \/ ReprobeUnusable(a)
  \/ ClaimEntry(a)
  \/ FillEntry(a)

Next ==
  \/ \E a \in Analyses : Start(a) \/ Task(a) \/ Stop(a)
  \/ \E f \in Files : Edit(f)
  \/ \E k \in DOMAIN entries : Damage(k)

Spec == Init /\ [][Next]_vars

-----------------------------------------------------------------------------
(* Properties *)

\* Every variable holds a value of its type.
TypeOK ==
  /\ tree \in View
  /\ edits \in 0..MaxEdits
  /\ settled \subseteq LookedUp
  /\ DOMAIN entries \subseteq Key
  /\ \A k \in DOMAIN entries : entries[k] \in Entry
  /\ unit \in [Analyses -> Unit]

\* A complete entry holds the AST of exactly the scope and texts of its key,
\* although the probe, the parser and the second probe each read the files at
\* moments of their own and files are edited, and edited back, in between.
EntriesAreExact ==
  \A k \in DOMAIN entries : entries[k].complete => entries[k].ast = k

\* A result taken from the cache is the one a full analysis of what was just
\* probed would give under these rules: never a partial, damaged or foreign entry.
HitsAreFullResults ==
  \A a \in Analyses : unit[a].cached => unit[a].ast = KeyOf(a)

\* An entry has one writer, ever: two analyses that miss on the same key at the
\* same time do not write into each other's file.
OneWriterPerEntry ==
  \A a, b \in Analyses : a # b /\ At(a, "filling") /\ At(b, "filling") => KeyOf(a) # KeyOf(b)

\* However many analyses miss, write and hit at the same time, what is in the directory
\* is right.
EntriesAreSound == EntriesAreExact /\ OneWriterPerEntry

\* Entries are never overwritten: one that is complete stays as it is, or is
\* damaged by the disk, and one that was left incomplete stays incomplete
\* unless its own writer is still at work.
EntriesAreWrittenOnce ==
  [][\A k \in DOMAIN entries :
       /\ k \in DOMAIN entries'
       /\ \/ entries'[k] = entries[k]
          \/ entries'[k] = [complete |-> FALSE, ast |-> NoView]
          \/ \E a \in Analyses : At(a, "filling") /\ KeyOf(a) = k]_entries
=============================================================================

----------------------------- MODULE RulePolicy -----------------------------
(***************************************************************************)
(* What the project's profile makes of the issues an analysis found         *)
(* (core/analyzer/rules.cpp): a suppression names one place, is bound to    *)
(* the text its file had when the user looked, and moves the issues of that *)
(* place to a list of their own.                                            *)
(***************************************************************************)
EXTENDS FiniteSets

SamePlace(s, i) == s.file = i.file /\ s.line = i.line

\* Mutant: whatever the file says now.
Covers_AnyText(texts, s, i) == SamePlace(s, i) /\ s.file \in DOMAIN texts

\* texts: file of the inventory -> its contents, for which the hash stands.
Covers(texts, s, i) ==
  SamePlace(s, i) /\ s.file \in DOMAIN texts /\ texts[s.file] = s.hash

Suppressed(texts, issues, suppressions) ==
  {i \in issues : \E s \in suppressions : Covers(texts, s, i)}

\* Why a suppression was not applied, for each that was not.
Diagnostics(texts, issues, suppressions, ruleOff) ==
  {[of |-> s,
    why |-> IF s.file \notin DOMAIN texts THEN "missing"
            ELSE IF texts[s.file] # s.hash THEN "changed"
            ELSE IF ruleOff THEN "disabled" ELSE "no match"] :
     s \in {x \in suppressions : ~\E i \in issues : Covers(texts, x, i)}}

\* suppress_issue: an active issue of the last snapshot, with the hash recorded there.
Suppression(snapshot, i) ==
  [file |-> i.file, line |-> i.line, hash |-> snapshot.texts[i.file]]

\* The command line puts the new entry in the place of an older one.
WithSuppression(suppressions, s) ==
  {x \in suppressions : ~SamePlace(x, s)} \cup {s}
=============================================================================

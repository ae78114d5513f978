--------------------------- MODULE MCScanSession ---------------------------
(* Instances of ScanSession for TLC. *)
EXTENDS ScanSession, TLC

CONSTANTS s1, s2, f1, f2, a, b, cli

OneScan   == {s1}
TwoScans  == {s1, s2}
OneFile   == {f1}
TwoFiles  == {f1, f2}
TwoTexts  == {a, b}
OneText   == {a}
OneCli    == {cli}
Nobody    == {}

\* The texts are alike to the invariants.
TextSymmetry == Permutations(TwoTexts)
=============================================================================

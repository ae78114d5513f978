---------------------------- MODULE MCBuildRun ----------------------------
(* Instances of BuildRun for TLC. *)
EXTENDS BuildRun

CONSTANTS b1, f1, f2, x, y

OneBuild  == {b1}
OneFile   == {f1}
TwoFiles  == {f1, f2}
OneText   == {x}
TwoTexts  == {x, y}
=============================================================================

----------------------------- MODULE MCTuCache -----------------------------
(* Instances of TuCache for TLC. *)
EXTENDS TuCache

CONSTANTS a1, a2, full, strict, source, header, optional, x, y

TwoAnalyses == {a1, a2}
OneScope    == {full}
TwoScopes   == {full, strict}
OneOpened   == {source}
TwoOpened   == {source, header}
OneLookedUp == {optional}
OneText     == {x}
TwoTexts    == {x, y}
=============================================================================

---------------------------- MODULE MCCommandLine ----------------------------
(* Instances of CommandLine for TLC. *)
EXTENDS CommandLine

CONSTANTS p, q

TwoPrograms == {p, q}

\* Any command while another process scans or saves settings.
AnyBesideScanOrConfig ==
  [x \in {p, q} |-> IF x = p THEN Commands ELSE {"scan", "config"}]
=============================================================================

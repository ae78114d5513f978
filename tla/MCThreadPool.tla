---------------------------- MODULE MCThreadPool ----------------------------
(* Instances of ThreadPool for TLC. *)
EXTENDS ThreadPool

CONSTANTS w1, w2, p1, p2, t1, t2, t3, t4

TwoWorkers   == {w1, w2}
TwoProducers == {p1, p2}
FourTasks    == {t1, t2, t3, t4}

=============================================================================

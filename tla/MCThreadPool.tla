---------------------------- MODULE MCThreadPool ----------------------------
(* Instances of ThreadPool for TLC. *)
EXTENDS ThreadPool

CONSTANTS c1, c2, d1, d2, t1, t2, t3

TwoClients == {c1, c2}
TwoDestroyers == {d1, d2}
ThreeTasks == {t1, t2, t3}
=============================================================================

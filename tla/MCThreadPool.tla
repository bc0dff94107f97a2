----------------------------- MODULE MCThreadPool -----------------------------
(* Small instances of ThreadPool. *)
EXTENDS ThreadPool

CONSTANTS c1, c2, w1, w2, j1, j2, j3, j4

TwoClients == {c1, c2}
TwoWorkers == {w1, w2}
FourJobs == {j1, j2, j3, j4}
Everybody == {c1, c2, w1, w2}
=============================================================================

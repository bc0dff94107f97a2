--------------------------- MODULE MCModelLifecycle ---------------------------
(* Small instances of ModelLifecycle. *)
EXTENDS ModelLifecycle

CONSTANTS t1, t2, t3
OneThread == {t1}
TwoThreads == {t1, t2}
ThreeThreads == {t1, t2, t3}
=============================================================================

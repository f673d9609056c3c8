---------------------------- MODULE MCLazyModel ----------------------------
(* Three threads: one loads, one waits for the lock, one checks.            *)
EXTENDS LazyModel

CONSTANTS t1, t2, t3

ThreeThreads == {t1, t2, t3}

=============================================================================

---------------------------- MODULE MCJobQueue ----------------------------
(* Model values for the run of JobQueue.                                    *)
EXTENDS JobQueue

CONSTANTS m1, t1, t2

OneMeme == {m1}
TwoThreads == {t1, t2}

=============================================================================

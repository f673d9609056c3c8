---------------------------- MODULE MCMemeIndex ----------------------------
(* Model values for the runs of MemeIndex.  One meme is enough for what     *)
(* relates the four places a meme lives in; memes meet in the queue only,   *)
(* which the runs of JobQueue cover.                                        *)
EXTENDS MemeIndex, TLC

CONSTANTS m1, t1, t2

OneMeme == {m1}
OneThread == {t1}
TwoThreads == {t1, t2}
Symmetry == Permutations(TwoThreads)

=============================================================================

--------------------------- MODULE MCFaceClusters ---------------------------
(* Two people with two faces each: one meme shows both, two show one.       *)
EXTENDS FaceClusters, TLC

CONSTANTS m1, m2, m3, f1, f2, f3, f4, p, q, t1, t2

ThreeMemes == {m1, m2, m3}
FourFaces == {f1, f2, f3, f4}
TwoPeople == {p, q}
OneThread == {t1}
TwoThreads == {t1, t2}
Where == f1 :> m1 @@ f2 :> m2 @@ f3 :> m1 @@ f4 :> m3
Who == f1 :> p @@ f2 :> p @@ f3 :> q @@ f4 :> q
Symmetry == Permutations(TwoThreads)

=============================================================================

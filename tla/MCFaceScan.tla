----------------------------- MODULE MCFaceScan -----------------------------
(* Three memes, one of them with two faces.                                 *)
EXTENDS FaceScan, TLC

CONSTANTS m1, m2, m3, f1, f2

ThreeMemes == {m1, m2, m3}
TwoFaces == {f1, f2}
Shows == m1 :> {f1, f2} @@ m2 :> {f1} @@ m3 :> {f2}

=============================================================================

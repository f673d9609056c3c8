-------------------------- MODULE MCFetchStickers --------------------------
(* Two packs that share a sticker.                                          *)
EXTENDS FetchStickers, TLC

CONSTANTS p1, p2, s1, s2, s3

TwoPacks == {p1, p2}
ThreeStickers == {s1, s2, s3}
Contents == p1 :> {s1, s2} @@ p2 :> {s2, s3}

=============================================================================

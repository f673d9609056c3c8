---------------------------- MODULE MCRankFusion ----------------------------
(* Three memes, three sources (description, caption, keyword) with up to    *)
(* two hits each, and rows that differ in each of the boosts and in the     *)
(* filter.                                                                  *)
EXTENDS RankFusion

CONSTANTS m1, m2, m3

ThreeMemes == {m1, m2, m3}
Weights == <<3000, 600, 1200>>
ScaleOfTwo == (RRF_K + 1) * (RRF_K + 2)
Plain == [verified |-> FALSE, rating |-> 0, matches |-> TRUE]
SomeRows ==
    {None, Plain, [Plain EXCEPT !.matches = FALSE], [Plain EXCEPT !.verified = TRUE],
     [Plain EXCEPT !.rating = 5]}

=============================================================================

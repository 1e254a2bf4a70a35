------------------------------- MODULE MCQoi --------------------------------
(* Pixels at both sides of each of the codec's decisions.                    *)
EXTENDS Qoi, SequencesExt

Palette == {
  <<0, 0, 0, 255>>,       \* what both sides start from; hash 53
  <<0, 0, 0, 0>>,         \* what the tables hold at first; hash 0
  <<254, 255, 1, 255>>,   \* DIFF from the first, around zero
  <<2, 255, 1, 255>>,     \* one too far for DIFF
  <<253, 255, 1, 255>>,   \* likewise, below
  <<24, 31, 38, 255>>,    \* LUMA from the first
  <<0, 32, 0, 255>>,      \* one too far for LUMA
  <<100, 228, 100, 255>>, \* a difference of differences that wraps around
  <<0, 0, 64, 255>>,      \* hash 53 too
  <<9, 8, 7, 1>> }        \* another alpha

Row(px) == [w |-> Len(px), h |-> 1, px |-> px]
Column(px) == [w |-> 1, h |-> Len(px), px |-> px]
Repeat(px, n) == [k \in 1..n |-> px]

ShortPictures == {Row(s) : s \in UNION {[1..n -> Palette] : n \in 1..3}}
                   \cup {Column(s) : s \in [1..2 -> Palette]}

(* Runs about as long as one chunk can say, and two, at the beginning and    *)
(* after another pixel, to the end of the picture and not.                   *)
LongRuns ==
  {Row(a \o Repeat(px, n) \o b) :
     a \in {<<>>, <<<<0, 0, 64, 255>>>>}, b \in {<<>>, <<<<0, 0, 0, 0>>, <<0, 0, 0, 255>>>>},
     px \in {<<0, 0, 0, 255>>, <<24, 31, 38, 255>>}, n \in {61, 62, 63, 124, 125}}

(* Pixels that meet in one slot of the table, again and again.               *)
Collisions == {Row(s) : s \in [1..5 -> {<<0, 0, 0, 255>>, <<0, 0, 64, 255>>}]}

MCPictures == ShortPictures \cup LongRuns \cup Collisions
MCLost(n) == {0, 8, 9, 10, 12, 13}
=============================================================================

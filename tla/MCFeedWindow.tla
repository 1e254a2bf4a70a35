---------------------------- MODULE MCFeedWindow ----------------------------
(* Two posts: the first has a caption of four lines, the second of one.    *)
EXTENDS FeedWindow

MCCaptions ==
  << <<"latin", "break", "hangul", "break", "latin", "break", "latin">>, <<"hangul">> >>

MCFrame(fw, fh) == [width |-> fw, height |-> fh, iconic |-> FALSE]

(* One size that shows a part of the feed and one that shows all of it.    *)
MCFrames == {MCFrame(120, 338), MCFrame(120, 700)}
(* Between the two there is a height that shows all of the feed when the  *)
(* bar takes its part of the width, and not when it does not.              *)
MCFrameBetween == {MCFrame(120, 498)}

MCWidths == {0, 1, 104, 120}

MCClickYs == {10, 100, 225, 330}
MCDrags == {40, 1000}
MCWheelDeltas == {-600, 60, 600}
=============================================================================

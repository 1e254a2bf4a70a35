---------------------------- MODULE MCPalWindow ----------------------------
(* PalWindow with a feed of two states: a click in the upper half of the   *)
(* content makes it long, in the lower half short again.  Its height grows *)
(* with the width, as square photos make it.                               *)
EXTENDS PalWindow

MCUsers == {"short", "long"}

MCContentHeight(cw, u) == (IF u = "long" THEN 400 ELSE 160) + cw

MCClick(y, s, cw, u) == IF y + s < 120 THEN "long" ELSE IF y + s > 200 THEN "short" ELSE u

MCFrame(fw, fh) == [width |-> fw, height |-> fh, iconic |-> FALSE]

(* A window lower than its chrome, one that shows a part of either feed at *)
(* two widths, and one that shows all of it, where the bar goes.  Sizes    *)
(* are multiples of the scroll steps, which keeps the offsets few.         *)
MCFrames == {MCFrame(120, 50), MCFrame(120, 238), MCFrame(160, 238), MCFrame(120, 700)}

MCClickYs == {10, 100, 180}
MCDrags == {40, 1000}
MCWheelDeltas == {-600, 60, 600}
=============================================================================

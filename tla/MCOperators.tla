----------------------------- MODULE MCOperators -----------------------------
(* The functions that take a value and return one: captions, drawing, text. *)
EXTENDS MCCaption, MCRaster, MCDrawing, MCText

Init == Start
Next == CaptionNext \/ RasterNext \/ DrawingNext \/ TextNext
Spec == Init /\ [][Next]_trialVars
=============================================================================

------------------------------ MODULE MCDrawing ------------------------------
(* What is drawn of small texts and on small cards, and what is measured:  *)
(* each function of the drawing side is tried on every input of a set.     *)
EXTENDS Trial, FeedPost, Font, Raster

CONSTANTS
  FontBytes, MaxText, FitWidths,
  CardWidths

(* A text ends at its NUL.  The narrowest card has room for its icons.      *)
ASSUME MCDrawingAssumption ==
  /\ FontBytes \subseteq 1 .. 255 /\ MaxText \in Nat /\ FitWidths \subseteq Int
  /\ \A width \in CardWidths : width \in Nat /\ width >= 80

MCCodepoints == <<44032>>            \* one syllable: bytes EA B0 80
MCFontBytes == {10, 65, 128, 176, 234, 240}
MCFitWidths == {-1, 0, 5, 11, 18, 25, 30}
MCCardWidths == {80, 121, 160}

-----------------------------------------------------------------------------
Texts == UNION {[1 .. n -> FontBytes] : n \in 0 .. MaxText}

DrawText == \E t \in Texts, s \in {0, 2} :
  Try("text", [text |-> t, scale |-> s],
      [drawn |-> Draw(t, 3, 4, s), width |-> TextWidth(t, s)])

FitText == \E t \in {t \in Texts : Len(t) < MaxText}, maxw \in FitWidths :
  LET fit == FitWidth(t, maxw)
      cut == SubSeq(t, 1, fit.len)
  IN Try("fit", [text |-> t, maxw |-> maxw],
         [fit |-> fit, cut |-> Draw(cut, 0, 0, 1),
          rest |-> Draw(SubSeq(t, fit.len + 1, Len(t)), 0, 0, 1),
          whole |-> Draw(t, 0, 0, 1)])

-----------------------------------------------------------------------------
CardCaptions == {<< >>, <<"latin">>, <<"hangul", "break", "latin", "break", "other", "break", "latin">>}
                  \cup {[i \in 1 .. n |-> "hangul"] : n \in {7, 30}}
DrawCard == \E width \in CardWidths, c \in CardCaptions, comments, expanded \in BOOLEAN :
  Try("card", [text |-> c, width |-> width, comments |-> comments],
      DrawPost(6, PostGap, CardWidth(width), c, comments, expanded))

DrawDemo == \E width \in CardWidths, c, d \in CardCaptions :
  Try("demo", <<c, d>>, [height |-> DemoHeight(width, <<c, d>>),
                         drawn |-> DemoDrawn(width, <<c, d>>)])

DrawBars == \E width \in CardWidths, height \in {58, 59, 338} :
  Try("bars", [width |-> width, height |-> height], Chrome(width, height))

CountLikes == \E n \in {-3, 0, 9, 10, 1234, 2147483647} :
  Try("likes", n, FormatLikes(n, 24))

DrawingNext ==
  /\ AtStart
  /\ \/ DrawText \/ FitText \/ DrawCard \/ DrawDemo \/ DrawBars \/ CountLikes

DrawingSpec == Start /\ [][DrawingNext \/ Again]_trialVars

-----------------------------------------------------------------------------
OneLine(t) == \A i \in DOMAIN t : t[i] # Newline

(* Drawing and measuring are two walks over a text's bytes.  The pen ends  *)
(* where the width says, and the walk at the end of the text, however it   *)
(* was cut.                                                                *)
TextAsMeasured ==
  subject = "text" =>
    LET s == Greater(input.scale, 1)
    IN /\ result.drawn.end = Len(input.text) + 1
       /\ OneLine(input.text) =>
            result.drawn.x = 3 + result.width + (IF input.text = << >> THEN 0 ELSE s)

Moved(boxes, dx) == [i \in DOMAIN boxes |-> [boxes[i] EXCEPT !.x = @ + dx]]

(* A text cut where it was measured to fit is as wide as was said, and the *)
(* two parts draw the glyphs that the whole draws.                         *)
CutAsMeasured ==
  subject = "fit" =>
    LET fit == result.fit
    IN /\ result.cut.x = fit.width + (IF fit.len = 0 THEN 0 ELSE 1)
       /\ input.maxw >= 0 => fit.width <= input.maxw \/ fit.width \in {FontW, HangulW}
       /\ OneLine(input.text) =>
            result.whole.boxes = result.cut.boxes \o Moved(result.rest.boxes, result.cut.x)

Inside(b, card) ==
  /\ card.x <= b.x /\ b.x + b.w <= card.x + card.w
  /\ card.y <= b.y /\ b.y + b.h <= card.y + card.h

(* Above: every box of one ends before every box of the other begins.      *)
Above(upper, lower) == \A b \in upper, c \in lower : b.y + b.h <= c.y

(* A card is as high as what is drawn on it: header, photo, icons and rows *)
(* of text follow one another and do not overlap, under the last row the   *)
(* card has its padding left, and the next card begins after a gap.        *)
CardAsMeasured ==
  subject = "card" =>
    LET rows == {result.rows[i] : i \in DOMAIN result.rows}
    IN /\ \A b \in result.header \cup {result.well, result.photo} \cup result.icons :
            Inside(b, result.card)
       /\ Above(result.header, {result.well}) /\ Inside(result.photo, result.well)
       /\ Above({result.well}, result.icons) /\ Above(result.icons, rows)
       /\ \A i \in 1 .. Len(result.rows) - 1 : Above({result.rows[i]}, {result.rows[i + 1]})
       /\ LET last == result.rows[Len(result.rows)]
          IN last.y + last.h + 1 + PostPad = result.card.y + result.card.h
       /\ result.next = result.card.y + result.card.h + PostGap

(* The bars keep to their rows; only the line under the app bar lies on    *)
(* the first row of the viewport.                                          *)
BarsAsMeasured ==
  subject = "bars" =>
    /\ \A b \in result.app : b.x >= 0 /\ b.x + b.w <= input.width /\ b.y + b.h <= BarH + 1
    /\ \A b \in result.nav :
         b.x >= 0 /\ b.x + b.w <= input.width
           /\ b.y >= input.height - NavH /\ b.y + b.h <= input.height

(* Likes are shown with every digit; there are none below zero. *)
LikesWhole ==
  subject = "likes" =>
    LET digits == Len(result) - Len(LikesSuffix)
        value[k \in 0 .. digits] == IF k = 0 THEN 0 ELSE (value[k - 1] * 10) + ValueOf(result[k])
    IN /\ value[digits] = Greater(input, 0)
       /\ SubSeq(result, digits + 1, Len(result)) = LikesSuffix

(* What is measured is what is drawn: the feed scrolls, wraps and is       *)
(* clicked by measures, and none of them is taken from the drawing.        *)
DrawnAsMeasured ==
  /\ TextAsMeasured /\ CutAsMeasured /\ CardAsMeasured /\ BarsAsMeasured /\ LikesWhole
  /\ subject = "demo" => result.height = result.drawn
=============================================================================

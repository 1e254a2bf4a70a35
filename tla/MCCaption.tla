------------------------------ MODULE MCCaption ------------------------------
(* ui/feed.c wrap_caption and caption_block: a caption, which grows by a    *)
(* glyph at a time so that all of them are reached, is wrapped to a width   *)
(* and drawn collapsed and expanded.                                        *)
EXTENDS Trial, Caption

CONSTANTS CaptionGlyphs, CaptionWidths, MaxGlyphs

ASSUME MCCaptionAssumption ==
  CaptionGlyphs \subseteq DOMAIN Adv /\ CaptionWidths \subseteq Int /\ MaxGlyphs \in Nat

(* A negative width (a minimised window), none, and up to a whole caption. *)
MCCaptionWidths == {-3, 0, 5, 11, 19, 30, 60}

Shown(c, width) ==
  [lines |-> WrapCaption(c, width),
   drawn |-> [expanded \in BOOLEAN |-> DrawnLines(c, width, expanded)]]

OpenCaption == \E width \in CaptionWidths :
  Try("caption", [text |-> << >>, width |-> width], Shown(<< >>, width))

GrowCaption ==
  /\ subject = "caption" /\ Len(input.text) < MaxGlyphs
  /\ \E g \in CaptionGlyphs :
       LET c == Append(input.text, g)
       IN input' = [input EXCEPT !.text = c] /\ result' = Shown(c, input.width)
  /\ UNCHANGED subject

CaptionNext == OpenCaption \/ GrowCaption \/ Again
CaptionSpec == Start /\ [][CaptionNext]_trialVars

-----------------------------------------------------------------------------
LineEnd(l) == l.off + l.len
Capped(lines) == Len(lines) = LinesHardCap

(* Wrapping loses no text and shows none twice: the lines are consecutive, *)
(* what lies between two of them is one forced break, and unless the hard  *)
(* cap cut it off nothing but a final break follows the last.              *)
Covers(lines, text) ==
  /\ Len(lines) > 0 => lines[1].off = 1
  /\ \A i \in 1 .. Len(lines) - 1 :
       \/ lines[i + 1].off = LineEnd(lines[i])
       \/ /\ lines[i + 1].off = LineEnd(lines[i]) + 1
          /\ text[LineEnd(lines[i])] = Break
  /\ \A i \in 1 .. Len(lines) :
       \A k \in lines[i].off .. LineEnd(lines[i]) - 1 : text[k] # Break
  /\ ~Capped(lines) /\ Len(text) > 0 =>
       LET end == LineEnd(lines[Len(lines)])
       IN end > Len(text) \/ (end = Len(text) /\ text[end] = Break)

WrapKeepsText == subject = "caption" => Covers(result.lines, input.text)

(* Every line fits the card, or is one glyph that no card could fit, and   *)
(* no line breaks early: the next glyph would not have fitted.  So does    *)
(* the last line of a collapsed caption together with its "... more".      *)
Fills(l, text, width) ==
  LET p == l.off
      q == LineEnd(l)
  IN /\ RunWidth(text, p, q) <= width \/ q = p + 1
     /\ q <= Len(text) /\ text[q] # Break => RunWidth(text, p, q + 1) > width

LeavesRoom(d, text, width) ==
  d.more /\ d.len > 1 => RunWidth(text, d.off, LineEnd(d)) + MoreWidth <= width

WrapIsGreedy ==
  subject = "caption" =>
    /\ input.width >= 0 => \A i \in DOMAIN result.lines : Fills(result.lines[i], input.text, input.width)
    /\ \A i \in DOMAIN result.drawn[FALSE] : LeavesRoom(result.drawn[FALSE][i], input.text, input.width)

(* "More" is shown exactly when expanding the card adds lines, and a card  *)
(* without it hides nothing: collapsed and expanded draw the same glyphs.  *)
GlyphsOf(d) == UNION {d[i].off .. LineEnd(d[i]) - 1 : i \in DOMAIN d}

HidesMore(shut, open) ==
  LET more == \E i \in DOMAIN shut : shut[i].more
  IN /\ GlyphsOf(shut) \subseteq GlyphsOf(open)
     /\ ~more => GlyphsOf(shut) = GlyphsOf(open)
     /\ more <=> Len(open) > Len(shut)

MoreMeansMore == subject = "caption" => HidesMore(result.drawn[FALSE], result.drawn[TRUE])
=============================================================================

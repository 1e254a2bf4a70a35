------------------------------ MODULE Caption ------------------------------
(***************************************************************************)
(* core/font.c measure and the caption part of ui/feed.c: how a caption is *)
(* wrapped, collapsed and measured.                                        *)
(*                                                                         *)
(* A caption is a sequence of glyphs, abstracted to what the layout sees   *)
(* of them: a printable ASCII character, a Hangul syllable of the table,   *)
(* any other code point (an emoji; four bytes, drawn as a blank) or a      *)
(* forced break.  Offsets are counted in glyphs; measure never splits one. *)
(* The empty sequence is both NULL and "".                                 *)
(***************************************************************************)
EXTENDS Integers, Sequences

CONSTANTS
  LinesCollapsed,  \* CAPTION_LINES_COLLAPSED
  LinesHardCap,    \* CAPTION_LINES_HARD_CAP
  MoreWidth,       \* font_text_width(MORE_LABEL, 1)
  LineBufCap       \* LINE_BUF_CAP, bytes of the buffer a line is drawn from

ASSUME CaptionAssumption ==
  /\ LinesCollapsed \in Nat \ {0} /\ LinesHardCap \in Nat \ {0}
  /\ LinesCollapsed <= LinesHardCap
  /\ MoreWidth \in Nat /\ LineBufCap \in Nat \ {0}

Break == "break"
Adv == [latin |-> 6, hangul |-> 19, other |-> 6, break |-> 0]
Bytes == [latin |-> 1, hangul |-> 3, other |-> 4, break |-> 1]

FontLine == 8
FontWideLine == 19

(* Width of glyphs 1..k of c, each with its trailing 1px gap. *)
Advance(c) == LET sum[k \in 0 .. Len(c)] == IF k = 0 THEN 0 ELSE sum[k - 1] + Adv[c[k]]
              IN sum

Least(S) == CHOOSE x \in S : \A y \in S : x <= y

(* Mutant: the gap after the last glyph counts. *)
FitEndWithGap(c, p, maxw) ==
  LET adv == Advance(c)
      stops(q) == \/ q > Len(c)
                  \/ c[q] = Break
                  \/ maxw >= 0 /\ q > p /\ adv[q] - adv[p - 1] > maxw
  IN Least({q \in p .. Len(c) + 1 : stops(q)})

(* measure: the position of the first glyph from p on that is left out.  A *)
(* break stops the walk, and so does the glyph that would overflow maxw,   *)
(* unless it is the first; a negative maxw is no bound at all.             *)
FitEnd(c, p, maxw) ==
  LET adv == Advance(c)
      stops(q) == \/ q > Len(c)
                  \/ c[q] = Break
                  \/ maxw >= 0 /\ q > p /\ adv[q] - adv[p - 1] - 1 > maxw
  IN Least({q \in p .. Len(c) + 1 : stops(q)})

(* Rendered width of glyphs p .. q-1: the last gap is dropped. *)
RunWidth(c, p, q) == IF q = p THEN 0 ELSE Advance(c)[q - 1] - Advance(c)[p - 1] - 1

(* Mutant: a line that ends for want of room swallows a glyph too. *)
WrapCaptionSwallows(c, maxw) ==
  LET rest[p \in 1 .. Len(c) + 2] ==
        IF p > Len(c) THEN << >>
        ELSE LET q == FitEnd(c, p, maxw)
             IN <<[off |-> p, len |-> q - p]>> \o rest[q + 1]
      lines == rest[1]
  IN IF Len(lines) > LinesHardCap THEN SubSeq(lines, 1, LinesHardCap) ELSE lines

(* wrap_caption: the lines [off, len] from glyph p on, then the cap.       *)
WrapCaption(c, maxw) ==
  LET rest[p \in 1 .. Len(c) + 1] ==
        IF p > Len(c) THEN << >>
        ELSE LET q == FitEnd(c, p, maxw)
                 next == IF q <= Len(c) /\ c[q] = Break THEN q + 1 ELSE q
             IN <<[off |-> p, len |-> q - p]>> \o rest[next]
      lines == rest[1]
  IN IF Len(lines) > LinesHardCap THEN SubSeq(lines, 1, LinesHardCap) ELSE lines

(* Mutant: off by one. *)
TruncatedAtCap(total, expanded) == ~expanded /\ total >= LinesCollapsed

Truncated(total, expanded) == ~expanded /\ total > LinesCollapsed

VisibleLines(total, expanded) == IF Truncated(total, expanded) THEN LinesCollapsed ELSE total

(* draw_line: glyphs of the run p .. p+len-1 that its buffer takes whole.  *)
Copied(c, p, len) ==
  LET size[k \in 0 .. len] == IF k = 0 THEN 0 ELSE size[k - 1] + Bytes[c[p + k - 1]]
  IN CHOOSE k \in 0 .. len :
       size[k] < LineBufCap /\ (k < len => size[k + 1] >= LineBufCap)

(* caption_block with a surface: what each visible line draws.  The last   *)
(* line of a truncated caption gives way to the suffix.                    *)
DrawnLines(c, cw, expanded) ==
  LET lines == WrapCaption(c, cw)
      visible == VisibleLines(Len(lines), expanded)
      budget == IF cw - MoreWidth < 0 THEN 0 ELSE cw - MoreWidth
  IN [i \in 1 .. visible |->
        IF Truncated(Len(lines), expanded) /\ i = visible
        THEN LET fit == FitEnd(c, lines[i].off, budget) - lines[i].off
             IN [off |-> lines[i].off, len |-> Copied(c, lines[i].off, fit), more |-> TRUE]
        ELSE [off |-> lines[i].off, len |-> Copied(c, lines[i].off, lines[i].len),
              more |-> FALSE]]

(* caption_block without one: likes, user, the visible lines of the        *)
(* caption, comments line.                                                 *)
CaptionBlockHeight(visible, comments) ==
  FontLine + 1 + FontWideLine + FontWideLine * visible + (IF comments THEN FontLine ELSE 0)
=============================================================================

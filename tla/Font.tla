-------------------------------- MODULE Font --------------------------------
(***************************************************************************)
(* core/font.c on the bytes of a text: what font_draw_scaled draws and     *)
(* where, and what measure says of it.  Each finds the glyphs for itself.  *)
(* A text is a sequence of bytes without a NUL.                            *)
(***************************************************************************)
EXTENDS Integers, Sequences

CONSTANT Codepoints   \* HANGUL_CODEPOINTS, ascending

ASSUME FontAssumption ==
  /\ Codepoints \in Seq(Nat)
  /\ \A i, j \in DOMAIN Codepoints : i < j => Codepoints[i] < Codepoints[j]

FontW == 5
FontH == 7
FontAdv == 6
LineHeight == 8           \* FONT_LINE
HangulW == 18
HangulH == 18
HangulAdv == HangulW + 1
Newline == 10

(* The byte at p.  The one after the last is the NUL; what comes after it  *)
(* is not the text's, and looks like the middle of a character.            *)
Byte(t, p) == IF p <= Len(t) THEN t[p] ELSE IF p = Len(t) + 1 THEN 0 ELSE 128

(* hangul_lookup: whether the binary search finds cp. *)
HangulLookup(cp) ==
  LET n == Len(Codepoints)
      found[lo \in 0 .. n, hi \in -1 .. n - 1] ==
        LET mid == (lo + hi) \div 2
            v == Codepoints[mid + 1]
        IN CASE lo > hi -> FALSE
             [] lo <= hi /\ v = cp -> TRUE
             [] lo <= hi /\ v < cp -> found[mid + 1, hi]
             [] OTHER -> found[lo, mid - 1]
  IN found[0, n - 1]

Utf8SeqLen(c) ==
  CASE c \in 192 .. 223 -> 2
    [] c \in 224 .. 239 -> 3
    [] c \in 240 .. 247 -> 4
    [] OTHER -> 1

Utf8SeqValid(t, p, n) == \A i \in 1 .. n - 1 : Byte(t, p + i) \in 128 .. 191

SeqLen(t, p) ==
  LET n == Utf8SeqLen(Byte(t, p))
  IN IF n > 1 /\ ~Utf8SeqValid(t, p, n) THEN 1 ELSE n

Printable(c) == c \in 32 .. 126

IsHangul(t, p) ==
  /\ SeqLen(t, p) = 3
  /\ HangulLookup((Byte(t, p) % 16) * 4096 + (Byte(t, p + 1) % 64) * 64 + (Byte(t, p + 2) % 64))

-----------------------------------------------------------------------------
(* font_draw_scaled: the glyphs drawn, each a rectangle of the cells its   *)
(* pixels are in, where the pen ends up, and the first byte not looked at. *)
Draw(t, x0, y0, scale) ==
  LET s == IF scale < 1 THEN 1 ELSE scale
      Box(x, y, w, h) == [x |-> x, y |-> y, w |-> w * s, h |-> h * s]
      from[at \in (1 .. Len(t) + 3) \X Int \X Int] ==
        LET p == at[1]
            x == at[2]
            y == at[3]
            c == Byte(t, p)
            then(d, q, nx, ny) == LET r == from[<<q, nx, ny>>] IN [r EXCEPT !.boxes = d \o @]
        IN CASE p > Len(t) -> [boxes |-> << >>, x |-> x, y |-> y, end |-> p]
             [] p <= Len(t) /\ c = Newline -> then(<< >>, p + 1, x0, y + LineHeight * s)
             [] p <= Len(t) /\ Printable(c) ->
                  then(<<Box(x, y, FontW, FontH)>>, p + 1, x + FontAdv * s, y)
             [] p <= Len(t) /\ ~Printable(c) /\ IsHangul(t, p) ->
                  then(<<Box(x, y, HangulW, HangulH)>>, p + 3, x + HangulAdv * s, y)
             [] OTHER -> then(<< >>, p + SeqLen(t, p), x + FontAdv * s, y)
  IN from[<<1, x0, y0>>]

(* measure: the width of what fits maxw, and its length in bytes. *)
Measure(t, maxw) ==
  LET Adv(p) == IF ~Printable(Byte(t, p)) /\ IsHangul(t, p) THEN HangulAdv ELSE FontAdv
      Size(p) == IF Printable(Byte(t, p)) THEN 1 ELSE SeqLen(t, p)
      from[at \in (1 .. Len(t) + 3) \X Nat] ==
        LET p == at[1]
            width == at[2]
        IN IF \/ p > Len(t) \/ Byte(t, p) = Newline
              \/ maxw >= 0 /\ p > 1 /\ width + Adv(p) - 1 > maxw
           THEN [width |-> IF p = 1 THEN 0 ELSE width - 1, len |-> p - 1]
           ELSE from[<<p + Size(p), width + Adv(p)>>]
  IN from[<<1, 0>>]

TextWidth(t, scale) == Measure(t, -1).width * (IF scale < 1 THEN 1 ELSE scale)
FitWidth(t, maxw) == Measure(t, maxw)
=============================================================================

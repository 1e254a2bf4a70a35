----------------------------- MODULE JsonString -----------------------------
(***************************************************************************)
(* core/json.c parse_string_raw, parse_number and json_int: how a string   *)
(* is measured, then decoded into a buffer of the size it was measured at, *)
(* and how a number is taken and read.                                     *)
(*                                                                         *)
(* The text of a string is a sequence of pieces: a byte that stands for    *)
(* itself, a short escape that stands for a byte, and \uXXXX; "bad" is an  *)
(* escape, or a digit of one, that is none.                                *)
(***************************************************************************)
EXTENDS Digits

Raw(b) == [kind |-> "raw", v |-> b]
Short(b) == [kind |-> "short", v |-> b]
Unicode(cp) == [kind |-> "unicode", v |-> cp]
BadEscape == [kind |-> "bad", v |-> 0]

Spelt(piece) == [raw |-> 1, short |-> 2, unicode |-> 6, bad |-> 2][piece.kind]

(* The first scan: the raw bytes up to the closing quote. *)
RawSpan(pieces) ==
  LET sum[k \in 0 .. Len(pieces)] == IF k = 0 THEN 0 ELSE sum[k - 1] + Spelt(pieces[k])
  IN sum[Len(pieces)]

IsHigh(cp) == cp \in 55296 .. 56319   \* D800 .. DBFF
IsLow(cp) == cp \in 56320 .. 57343    \* DC00 .. DFFF

Astral(hi, lo) == 65536 + ((hi - 55296) * 1024) + (lo - 56320)

EncodeUtf8(cp) ==
  LET bits(n) == 128 + ((cp \div n) % 64)
  IN CASE cp < 128 -> <<cp>>
       [] cp \in 128 .. 2047 -> <<192 + (cp \div 64), bits(1)>>
       [] cp \in 2048 .. 65535 -> <<224 + (cp \div 4096), bits(64), bits(1)>>
       [] OTHER -> <<240 + (cp \div 262144), bits(4096), bits(64), bits(1)>>

(* The escape at piece i: its code point, and how many pieces it takes.  A *)
(* high surrogate takes the \u that follows with it, whatever that one is. *)
Escape(pieces, i) ==
  LET paired == /\ IsHigh(pieces[i].v)
                /\ i < Len(pieces)
                /\ pieces[i + 1].kind = "unicode"
  IN IF paired THEN [cp |-> Astral(pieces[i].v, pieces[i + 1].v), takes |-> 2]
     ELSE [cp |-> pieces[i].v, takes |-> 1]

(* The second: the bytes before the NUL, or not ok. *)
Decode(pieces) ==
  LET from[i \in 1 .. Len(pieces) + 1] ==
        IF i > Len(pieces) THEN [ok |-> TRUE, out |-> << >>]
        ELSE LET here == Escape(pieces, i)
                 then(bytes, n) == LET r == from[i + n] IN [r EXCEPT !.out = bytes \o @]
             IN CASE pieces[i].kind \in {"raw", "short"} -> then(<<pieces[i].v>>, 1)
                  [] pieces[i].kind = "unicode" -> then(EncodeUtf8(here.cp), here.takes)
                  [] OTHER -> [ok |-> FALSE, out |-> << >>]
  IN from[1]

NoString == [ok |-> FALSE, out |-> << >>, room |-> 0]

ParseStringRaw(pieces, closed, malloc) ==
  IF ~closed \/ ~malloc THEN NoString
  ELSE LET r == Decode(pieces)
       IN IF r.ok THEN [ok |-> TRUE, out |-> r.out, room |-> RawSpan(pieces) + 1] ELSE NoString

-----------------------------------------------------------------------------
(* The first position from p on that holds no digit. *)
AfterDigits(t, p) ==
  LET from[q \in p .. Len(t) + 1] == IF q <= Len(t) /\ t[q] \in Digit THEN from[q + 1] ELSE q
  IN from[p]

(* Past t[p], if that is one of `them`. *)
Past(t, p, them) == IF p <= Len(t) /\ t[p] \in them THEN p + 1 ELSE p

(* parse_number: where the number at the start of t ends. *)
NumberEnd(t) ==
  LET whole == AfterDigits(t, Past(t, 1, {"-"}))
      point == Past(t, whole, {"."})
      fraction == IF point > whole THEN AfterDigits(t, point) ELSE whole
      e == Past(t, fraction, {"e", "E"})
  IN IF e > fraction THEN AfterDigits(t, Past(t, e, {"+", "-"})) ELSE fraction

(* Its characters; none where the code returns NULL. *)
ParseNumber(t) ==
  LET s == SubSeq(t, 1, NumberEnd(t) - 1) IN IF s = <<"-">> THEN << >> ELSE s

(* json_int of a number node. *)
JsonInt(s) ==
  LET start == Past(s, 1, {"-"})
      value[q \in start - 1 .. AfterDigits(s, start) - 1] ==
        IF q < start THEN 0 ELSE (value[q - 1] * 10) + ValueOf(s[q])
      n == value[AfterDigits(s, start) - 1]
  IN IF start > 1 THEN -n ELSE n
=============================================================================

------------------------------ MODULE Formatter ------------------------------
(***************************************************************************)
(* net/mbedtls_platform_nt4.c: the clock, the calendar and the formatter   *)
(* that take the place of a C library's.                                   *)
(*                                                                         *)
(* A format is a sequence of characters and of conversions: whether the    *)
(* width is padded with zeros, the width, the letters between it and the   *)
(* conversion, and the conversion.  An int and a long have the same size   *)
(* on this target.                                                         *)
(***************************************************************************)
EXTENDS Digits

Conv(zero, width, size, conv) == [zero |-> zero, width |-> width, size |-> size, conv |-> conv]
Plain(conv) == Conv(FALSE, 0, << >>, conv)
FormatEnds == ""   \* the conversion of a % that ends the format
NullString == <<"NULL">>   \* the argument that is no string: a letter is one character

(* emit: what fits is stored, what does not is counted. *)
Emit(o, s, cap) ==
  LET room == IF cap > o.pos THEN cap - o.pos ELSE 0
      fits == IF Len(s) < room THEN Len(s) ELSE room
  IN [o EXCEPT !.pos = @ + Len(s), !.buf = @ \o SubSeq(s, 1, fits)]

(* The digits of %X. *)
Upper(s) ==
  LET letters == <<"A", "B", "C", "D", "E", "F">>
  IN [i \in DOMAIN s |-> IF s[i] \in Digit THEN s[i] ELSE letters[ValueOf(s[i]) - 9]]

(* emit_uint: what it hands to emit, character by character. *)
Unsigned(v, base, upper, width, zero) ==
  LET s == IF upper THEN Upper(Numeral(v, base)) ELSE Numeral(v, base)
      pad == IF zero THEN "0" ELSE " "
  IN IF width <= Len(s) THEN s ELSE [i \in 1 .. width - Len(s) |-> pad] \o s

(* %d: the sign goes before the padding. *)
Signed(v, width, zero) ==
  IF v < 0 THEN <<"-">> \o Unsigned(-v, 10, FALSE, width, zero) ELSE Unsigned(v, 10, FALSE, width, zero)

(* The letters that are taken for a size, "l" before "z" and each once.    *)
SizeTaken(size) ==
  LET l == IF size # << >> /\ Head(size) = "l" THEN 1 ELSE 0
      z == IF l < Len(size) /\ size[l + 1] = "z" THEN 1 ELSE 0
  IN l + z

(* What one conversion writes of the argument that is next.  A letter that *)
(* is left of the size is an unknown conversion, and what follows it is    *)
(* text.                                                                   *)
Convert(c, arg) ==
  LET left == SubSeq(c.size, SizeTaken(c.size) + 1, Len(c.size))
  IN CASE left # << >> -> <<"%">> \o left \o <<c.conv>>
       [] left = << >> /\ c.conv \in {"%", FormatEnds} -> <<"%">>
       [] left = << >> /\ c.conv = "c" -> <<arg>>
       [] left = << >> /\ c.conv = "s" -> IF arg = NullString THEN <<"(", "n", "u", "l", "l", ")">> ELSE arg
       [] left = << >> /\ c.conv \in {"d", "i"} -> Signed(arg, c.width, c.zero)
       [] left = << >> /\ c.conv = "u" -> Unsigned(arg, 10, FALSE, c.width, c.zero)
       [] left = << >> /\ c.conv \in {"x", "X"} -> Unsigned(arg, 16, c.conv = "X", c.width, c.zero)
       [] OTHER -> <<"%", c.conv>>

Consumes(c) == SizeTaken(c.size) = Len(c.size) /\ c.conv \in {"c", "s", "d", "i", "u", "x", "X"}

(* mbedtls_nt4_vsnprintf into n bytes: the bytes before the NUL, and the   *)
(* length the whole text would have had.                                   *)
Vsnprintf(n, format, args) ==
  LET cap == IF n > 0 THEN n - 1 ELSE 0
      after[k \in 0 .. Len(format)] ==
        IF k = 0 THEN [buf |-> << >>, pos |-> 0, next |-> 1]
        ELSE LET o == after[k - 1]
                 c == format[k]
             IN IF "conv" \notin DOMAIN c THEN Emit(o, <<c.char>>, cap)
                ELSE IF Consumes(c)
                THEN [Emit(o, Convert(c, args[o.next]), cap) EXCEPT !.next = @ + 1]
                ELSE Emit(o, Convert(c, "none"), cap)
      o == after[Len(format)]
  IN [buf |-> o.buf, ret |-> o.pos, nul |-> n > 0]

-----------------------------------------------------------------------------
(* What GetSystemTimeAsFileTime says, as the day since 1970 and the        *)
(* millisecond of the day: 64 bits of ticks are not counted one by one.    *)
Clock(day, ms) == [day |-> day, ms |-> ms]

(* time: whole seconds. *)
Time(clock) == (clock.day * 86400) + (clock.ms \div 1000)

(* Division and remainder of C, which truncate. *)
Quot(a, b) == IF a >= 0 THEN a \div b ELSE -((-a) \div b)
Rem(a, b) == a - (b * Quot(a, b))

YearOfEra(doe) == (doe - (doe \div 1460) + (doe \div 36524) - (doe \div 146096)) \div 365

(* mbedtls_platform_gmtime_r of the time that is q days and r seconds from *)
(* 1970, as / and % of C split it: before 1970 neither is positive.        *)
Gmtime(q, r) ==
  LET secs == IF r < 0 THEN r + 86400 ELSE r
      days == IF r < 0 THEN q - 1 ELSE q
      z == days + 719468
      era == Quot(IF z >= 0 THEN z ELSE z - 146096, 146097)
      doe == z - (era * 146097)
      yoe == YearOfEra(doe)
      doy == doe - ((365 * yoe) + (yoe \div 4) - (yoe \div 100))
      mp == ((5 * doy) + 2) \div 153
      mon == IF mp < 10 THEN mp + 3 ELSE mp - 9
  IN [sec |-> secs % 60, min |-> (secs \div 60) % 60, hour |-> secs \div 3600,
      mday |-> doy - (((153 * mp) + 2) \div 5) + 1,
      mon |-> mon - 1,
      year |-> yoe + (era * 400) + (IF mon <= 2 THEN 1 ELSE 0) - 1900,
      wday |-> Rem(Rem(days, 7) + 7 + 4, 7)]
=============================================================================

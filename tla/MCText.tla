------------------------------- MODULE MCText -------------------------------
(* The text side of the program, each function on every input of a set:    *)
(* JSON strings and numbers, formatting and the calendar, the headers, the *)
(* body and the request made of them, and the C library it stands on.      *)
EXTENDS Trial, JsonString, IgPrivate, RequestText, Crt, TLC

CONSTANTS MaxPieces, MaxNumber, MaxString, LastYear

MCTemplate ==
  [key \in {BodyFields[i].key : i \in DOMAIN BodyFields} |->
     CASE key = "battery_level" -> 100
       [] key \in {"is_charging", "is_dark_mode"} -> 1
       [] key = "feed_view_info" -> << >>
       [] OTHER -> <<key>>]

MCHeader(word, case, value) == [name |-> [word |-> word, case |-> case], value |-> value]
MCStaticHeaders ==
  <<MCHeader("x-ig-app-id", "Title", "id"), MCHeader("accept-encoding", "lower", "gzip")>>

-----------------------------------------------------------------------------
(* JSON: code points on both sides of every boundary, and surrogates; a    *)
(* control character, which RFC 8259 wants escaped.                        *)
CodePoints == {0, 65, 127, 128, 2047, 2048, 44032, 55296, 55357, 56319, 56320, 56832, 57343, 65535}
StringPieces == {Raw(97), Raw(10), Short(10), BadEscape} \cup {Unicode(cp) : cp \in CodePoints}

ReadString == \E n \in 0 .. MaxPieces : \E pieces \in [1 .. n -> StringPieces], closed, malloc \in BOOLEAN :
  Try("string", [pieces |-> pieces, closed |-> closed, malloc |-> malloc],
      ParseStringRaw(pieces, closed, malloc))

NumberTexts == UNION {[1 .. n -> {"0", "7", "-", ".", "e", "+", ","}] : n \in 0 .. MaxNumber - 1}
ReadNumber == \E first \in {"0", "7", "-"}, rest \in NumberTexts :
  LET t == <<first>> \o rest
      s == ParseNumber(t)
  IN Try("number", t, [s |-> s, int |-> IF s = << >> THEN 0 ELSE JsonInt(s)])

(* Formats of the program and what C99 makes of them. *)
Example(format, args, text) == [format |-> format, args |-> args, text |-> text]
Examples ==
  <<Example(Lu, <<0>>, <<"0">>), Example(Lu, <<2147483647>>, <<"2", "1", "4", "7", "4", "8", "3", "6", "4", "7">>),
   Example(LuDot03Lu, <<1700000000, 7>>, <<"1", "7", "0", "0", "0", "0", "0", "0", "0", "0", ".", "0", "0", "7">>),
   Example(LuDot03Lu, <<9, 1000>>, <<"9", ".", "1", "0", "0", "0">>),
   Example(Ufs, <<<<"i", "d">>>>, <<"U", "F", "S", "-", "i", "d", "-", "1">>),
   Example(<<Plain("d")>>, <<-70>>, <<"-", "7", "0">>),
   Example(<<Conv(FALSE, 4, <<"z">>, "u")>>, <<10>>, <<" ", " ", "1", "0">>),
   Example(<<Conv(TRUE, 2, << >>, "x"), Conv(TRUE, 2, << >>, "x")>>, <<11, 255>>, <<"0", "b", "f", "f">>),
   Example(<<Conv(FALSE, 4, << >>, "X")>>, <<2748>>, <<" ", "A", "B", "C">>),
   Example(<<Plain("s")>>, <<NullString>>, <<"(", "n", "u", "l", "l", ")">>),
   Example(<<Plain("s"), Plain("%"), Plain("c")>>, <<<<"a", "b">>, "c">>, <<"a", "b", "%", "c">>),
   Example(<<[char |-> "a"], Plain(FormatEnds)>>, << >>, <<"a", "%">>)>>

Format == \E i \in DOMAIN Examples, n \in 0 .. 16 :
  Try("print", [text |-> Examples[i].text, n |-> n],
      Vsnprintf(n, Examples[i].format, Examples[i].args))

(* The calendar goes from 1896 on, a month at a time.                      *)
Leap(y) == y % 4 = 0 /\ (y % 100 # 0 \/ y % 400 = 0)
MonthDays(y, m) ==
  <<31, IF Leap(y) THEN 29 ELSE 28, 31, 30, 31, 30, 31, 31, 30, 31, 30, 31>>[m]

(* A time by its day since 1970 and second of the day, as C splits it.     *)
OnDay(day, sec) == IF day < 0 /\ sec > 0 THEN Gmtime(day + 1, sec - 86400) ELSE Gmtime(day, sec)

Seconds == {0, 45296, 86399}
Month(y, m, first) ==
  [d \in 1 .. MonthDays(y, m), sec \in Seconds |-> OnDay(first + d - 1, sec)]

OpenCalendar == Try("month", [y |-> 1896, m |-> 1, first |-> -27028], Month(1896, 1, -27028))
TurnPage ==
  /\ subject = "month" /\ input.y <= LastYear
  /\ LET y == IF input.m = 12 THEN input.y + 1 ELSE input.y
         m == IF input.m = 12 THEN 1 ELSE input.m + 1
         first == input.first + MonthDays(input.y, input.m)
     IN input' = [y |-> y, m |-> m, first |-> first] /\ result' = Month(y, m, first)
  /\ UNCHANGED subject

-----------------------------------------------------------------------------
(* A day of this century for the headers; of 1970, whose milliseconds fit  *)
(* 32 bits, for the body.                                                  *)
Randoms == [bytes : {[i \in 1 .. 16 |-> b] : b \in {0, 90, 255}},
            drawn : {[i \in 1 .. 6 |-> v] : v \in {0, 4, 999, 86399999, 2147483647}}]

MakeHeaders == \E outCap \in 0 .. 10, scratchCap \in {0, 223, 224, FreshScratch}, random \in Randoms,
                  ms \in {0, 7999} :
  Try("headers", [outCap |-> outCap, scratchCap |-> scratchCap],
      BuildHeaders(outCap, scratchCap, Clock(20000, ms), random))

MakeBody == \E cap \in {1, 100, 150, 199, 200, 201, 202, 4096}, sound \in 0 .. 1, malloc \in BOOLEAN :
  Try("body", [cap |-> cap, clock |-> Clock(24, 77), sound |-> sound, malloc |-> malloc],
      BuildTimelineBody(cap, Clock(24, 77), sound, malloc))

Words == {<<>>, <<"a">>, <<"a", "b", "c", "d", "e", "f", "g">>}
HeaderLists == {<<>>} \cup {<<[name |-> n, value |-> v]>> : n, v \in Words}
                 \cup {<<[name |-> n, value |-> <<"v">>], [name |-> <<"n">>, value |-> v]>> : n, v \in Words}
Body == [i \in 1 .. 100 |-> "x"]
MakeRequest == \E method, host, path \in Words, headers \in HeaderLists,
                  bodyLen \in {-1, 0, 1, 9, 10, 100}, malloc \in BOOLEAN :
  Try("request", [bodyLen |-> bodyLen, malloc |-> malloc],
      HttpBuildRequest(method, host, path, headers, Body, bodyLen, malloc))

TakeUrl == \E scheme \in {"https", "http", "ftp"}, n \in 0 .. 4, cap \in 1 .. 4 :
  \E rest \in [1 .. n -> {"h", "/"}] :
    Try("url", [scheme |-> scheme, rest |-> rest, cap |-> cap], SplitUrl(scheme, rest, cap))

(* The C library on six bytes of memory and on short strings. *)
Memory == [a \in 0 .. 6 |-> <<3, 200, 3, 4, 200, 6, 7>>[a + 1]]
UseMemory == \E d, s \in 0 .. 4, n \in 0 .. 3 :
  Try("memory", [d |-> d, s |-> s, n |-> n],
      [move |-> Memmove(Memory, d, s, n), copy |-> Memcpy(Memory, d, s, n),
       set |-> Memset(Memory, d, 256 + s, n), cmp |-> Memcmp(Memory, d, s, n)])

CStrings == UNION {[1 .. n -> {1, 2, 200}] : n \in 0 .. MaxString}
UseStrings == \E a, b \in CStrings, n \in 0 .. 2 :
  Try("strings", [a |-> a, b |-> b, n |-> n],
      [cmp |-> Strcmp(a, b), ncmp |-> Strncmp(a, b, n),
       chr |-> Strchr(a, IF b = << >> THEN 0 ELSE b[1]), str |-> Strstr(a, b)])

TextNext ==
  \/ TurnPage
  \/ /\ AtStart
     /\ \/ ReadString \/ ReadNumber \/ Format \/ OpenCalendar \/ MakeHeaders \/ MakeBody
        \/ MakeRequest \/ TakeUrl \/ UseMemory \/ UseStrings

-----------------------------------------------------------------------------
AtMost(a, b) == IF a < b THEN a ELSE b

(* No text is longer than the buffer it is put into, which was measured or *)
(* guessed by other code than that which fills it: a decoded JSON string,  *)
(* what the formatter writes, the generated headers, which share a buffer  *)
(* and neither overlap nor come out cut, a request, the host of a URL.     *)
TextFits ==
  /\ subject = "string" /\ result.ok => Len(result.out) + 1 <= result.room
  /\ subject = "print" => Len(result.buf) + 1 <= input.n \/ (input.n = 0 /\ result.buf = << >>)
  /\ subject = "headers" =>
       LET fresh == {i \in DOMAIN result : "at" \in DOMAIN result[i]}
       IN /\ Len(result) <= input.outCap
          /\ \A i \in fresh : /\ result[i].at + result[i].cap <= input.scratchCap
                              /\ result[i].value.ret < result[i].cap
          /\ \A i, j \in fresh : i < j => result[i].at + result[i].cap <= result[j].at
  /\ subject = "request" /\ result.ok => Length(result.text) <= result.room
  /\ subject = "url" /\ result.ok => Len(result.host) + 1 <= input.cap

-----------------------------------------------------------------------------
(* The characters UTF-8 bytes are, up to the first byte at which there is  *)
(* none: -1 stands for that.  RFC 3629 has none that is spelt longer than  *)
(* it need be, none above 10FFFF, and no surrogate.                        *)
Characters(bytes) ==
  LET n(c) == CASE c < 128 -> 1 [] c \in 194 .. 223 -> 2 [] c \in 224 .. 239 -> 3
                [] c \in 240 .. 244 -> 4 [] OTHER -> 0
      low(c) == c % <<128, 32, 16, 8>>[n(c)]
      char(p) == LET bits[k \in 0 .. n(bytes[p]) - 1] ==
                       IF k = 0 THEN low(bytes[p]) ELSE (bits[k - 1] * 64) + (bytes[p + k] % 64)
                 IN bits[n(bytes[p]) - 1]
      whole(p) == /\ n(bytes[p]) > 0 /\ p + n(bytes[p]) - 1 <= Len(bytes)
                  /\ \A k \in 1 .. n(bytes[p]) - 1 : bytes[p + k] \in 128 .. 191
                  /\ char(p) \in <<0, 128, 2048, 65536>>[n(bytes[p])] .. 1114111
                  /\ char(p) \notin 55296 .. 57343
      from[p \in 1 .. Len(bytes) + 4] ==
        IF p > Len(bytes) THEN << >>
        ELSE IF ~whole(p) THEN <<-1>> ELSE <<char(p)>> \o from[p + n(bytes[p])]
  IN from[1]

(* Two escapes that are one character, and a surrogate that is half of     *)
(* none.                                                                   *)
IsUnicode(pieces, i) == i \in DOMAIN pieces /\ pieces[i].kind = "unicode"
IsPair(pieces, i) ==
  /\ IsUnicode(pieces, i) /\ IsHigh(pieces[i].v)
  /\ IsUnicode(pieces, i + 1) /\ IsLow(pieces[i + 1].v)
IsLone(pieces, i) ==
  /\ IsUnicode(pieces, i) /\ pieces[i].v \in 55296 .. 57343
  /\ ~IsPair(pieces, i) /\ ~IsPair(pieces, i - 1)

(* The characters the pieces of a string spell, up to a lone surrogate.    *)
PlaneOf == (55296 :> 65536) @@ (55357 :> 128000) @@ (56319 :> 1113088)
Spells(pieces) ==
  LET from[i \in 1 .. Len(pieces) + 1] ==
        IF i > Len(pieces) \/ IsLone(pieces, i) THEN << >>
        ELSE IF IsPair(pieces, i)
        THEN <<PlaneOf[pieces[i].v] + pieces[i + 1].v - 56320>> \o from[i + 2]
        ELSE <<pieces[i].v>> \o from[i + 1]
  IN from[1]

(* A string is read if it has an end, no escape that is none and memory,   *)
(* and not otherwise.  What is read is UTF-8 for the characters it spells. *)
(* That is what json.h says; of a string with a lone surrogate, which is   *)
(* no character, the code keeps it for the characters before that one: the *)
(* surrogate is encoded as if it were one, or joined with the escape that  *)
(* comes after it.                                                         *)
StringIsRight ==
  subject = "string" =>
    /\ result.ok <=> /\ input.closed /\ input.malloc
                     /\ \A i \in DOMAIN input.pieces : input.pieces[i].kind # "bad"
    /\ result.ok => LET read == Characters(result.out)
                        spelt == Spells(input.pieces)
                    IN IF \E i \in DOMAIN input.pieces : IsLone(input.pieces, i)
                       THEN Len(read) >= Len(spelt) /\ SubSeq(read, 1, Len(spelt)) = spelt
                       ELSE read = spelt

(* The numbers of RFC 8259: a sign, digits that begin with 0 only if they  *)
(* are 0, a point with digits, an exponent with digits.                    *)
Digits(s) == s # << >> /\ \A i \in DOMAIN s : s[i] \in Digit
Unsign(s, signs) == IF s # << >> /\ Head(s) \in signs THEN Tail(s) ELSE s
IsNumber(s) ==
  \E i \in 1 .. Len(s) : \E j \in i .. Len(s) :
    LET whole == Unsign(SubSeq(s, 1, i), {"-"})
        fraction == SubSeq(s, i + 1, j)
        exponent == SubSeq(s, j + 1, Len(s))
    IN /\ Digits(whole) /\ (Head(whole) = "0" => Len(whole) = 1)
       /\ fraction = << >> \/ (Head(fraction) = "." /\ Digits(Tail(fraction)))
       /\ exponent = << >> \/ (Head(exponent) \in {"e", "E"} /\ Digits(Unsign(Tail(exponent), {"+", "-"})))

(* Every number is taken, whole: the token that is next begins where it    *)
(* ends.  The code also takes some that are none (-. and 01 and 1e), where *)
(* json.h has a syntax error; of those too it takes no more than belongs   *)
(* to a number.  The value is that of the digits before the point.         *)
NumberIsRight ==
  subject = "number" =>
    LET Starts(n) == SubSeq(input, 1, n)
        numbers == {n \in DOMAIN input : IsNumber(Starts(n))}
        ends == {n \in numbers : n = Len(input) \/ input[n + 1] = ","}
        taken == Len(result.s)
        whole == SelectSeq(SubSeq(result.s, 1, AfterDigits(result.s, Past(result.s, 1, {"-"})) - 1),
                           LAMBDA c : c \in Digit)
        numeral == Numeral(IF result.int < 0 THEN -result.int ELSE result.int, 10)
    IN /\ result.s = Starts(taken)
       /\ \A n \in numbers : n <= taken
       /\ \A n \in ends : n = taken
       /\ \A k \in DOMAIN result.s : result.s[k] # ","
       /\ \A i \in 1 .. Len(whole) - Len(numeral) : whole[i] = "0"
       /\ whole # << >> => SubSeq(whole, Len(whole) - Len(numeral) + 1, Len(whole)) = numeral
       /\ result.int # 0 => (result.int < 0 <=> input[1] = "-")

(* snprintf: as much of the text as there is room for, and the length of   *)
(* all of it.                                                              *)
PrintIsRight ==
  subject = "print" =>
    /\ result.ret = Len(input.text)
    /\ result.buf = SubSeq(input.text, 1, AtMost(Len(input.text), IF input.n = 0 THEN 0 ELSE input.n - 1))

(* Every day and second is the date the Gregorian calendar gives it, and   *)
(* the days of the week follow one another.                                *)
DateIsRight ==
  subject = "month" =>
    \A d \in 1 .. MonthDays(input.y, input.m), sec \in Seconds :
      result[d, sec] = [sec |-> sec % 60, min |-> (sec % 3600) \div 60, hour |-> sec \div 3600,
                        mday |-> d, mon |-> input.m - 1, year |-> input.y - 1900,
                        wday |-> (input.first + d - 1 + 27028 + 3) % 7]

(* The request carries the session's headers, asks for an answer that is   *)
(* not compressed, and has the seven fresh values if there is room for all *)
(* of them, else none; the id is a version 4 UUID.                         *)
HeadersAreRight ==
  subject = "headers" =>
    LET n == AtMost(Len(StaticHeaders), input.outCap)
        room == input.outCap >= Len(StaticHeaders) + FreshHeaders /\ input.scratchCap >= 224
    IN /\ Len(result) = IF room THEN n + FreshHeaders ELSE n
       /\ \A i \in 1 .. n : /\ result[i].name = StaticHeaders[i].name
                            /\ result[i].value = IF i = 2 THEN "identity" ELSE StaticHeaders[i].value
       /\ room =>
            LET id == result[n + 1].value.buf
            IN /\ Len(id) = 42 /\ id[19] = "4" /\ id[24] \in {"8", "9", "a", "b"}
               /\ {i \in DOMAIN id : id[i] = "-"} = {4, 13, 18, 23, 28, 41}
               /\ ValueOf(result[n + 7].value.buf[1]) \in 1 .. 5

(* All of a body: an object, and every field of it. *)
IsWholeBody(text) ==
  LET keys == {text[i] : i \in DOMAIN text} \cap DOMAIN Template
  IN /\ Head(text) = "{" /\ text[Len(text)] = "}"
     /\ \A i \in DOMAIN BodyFields : BodyFields[i].key \in keys

(* The body is all of it if it fits and there is memory, else none: no     *)
(* field is lost for want of room.                                         *)
BodyIsRight ==
  subject = "body" =>
    LET all == BuildTimelineBody(4096, input.clock, input.sound, TRUE).text
    IN /\ result.ok <=> input.malloc /\ Len(all) < input.cap
       /\ result.ok => result.text = all /\ IsWholeBody(result.text)

(* There is a request if there is memory.  A blank line comes before the   *)
(* body, and the length of the body before the blank line.                 *)
RequestIsRight ==
  subject = "request" =>
    /\ result.ok <=> input.malloc
    /\ result.ok =>
         LET n == IF input.bodyLen < 0 THEN 0 ELSE input.bodyLen
             head == SubSeq(result.text, 1, Len(result.text) - n)
             length == IF n = 0 THEN << >> ELSE <<"ContentLength">> \o Numeral(n, 10)
             end == length \o <<"CrLf", "CrLf">>
         IN /\ SubSeq(result.text, Len(head) + 1, Len(result.text)) = SubSeq(Body, 1, n)
            /\ SubSeq(head, Len(head) - Len(end) + 1, Len(head)) = end
            /\ n = 0 => \A i \in DOMAIN head : head[i] # "ContentLength"

(* A URL of either scheme is taken if it has a host and that fits, and is  *)
(* taken apart where the host ends.                                        *)
UrlIsRight ==
  subject = "url" =>
    LET hosts == {n \in 0 .. Len(input.rest) : \A i \in 1 .. n : input.rest[i] # "/"}
        host == CHOOSE n \in hosts : \A k \in hosts : k <= n
        path == SubSeq(input.rest, host + 1, Len(input.rest))
    IN /\ result.ok <=> input.scheme \in {"https", "http"} /\ host > 0 /\ host < input.cap
       /\ result.ok => /\ result.host = SubSeq(input.rest, 1, host)
                       /\ result.path = IF path = << >> THEN <<"/">> ELSE path

(* The functions of the C library do what C says of them. *)
MemoryIsRight ==
  subject = "memory" =>
    LET to == input.d .. input.d + input.n - 1
        from == input.s .. input.s + input.n - 1
        moved == [a \in DOMAIN Memory |-> IF a \in to THEN Memory[a - input.d + input.s] ELSE Memory[a]]
        differ == {k \in 0 .. input.n - 1 : Memory[input.d + k] # Memory[input.s + k]}
    IN /\ result.move = moved
       /\ to \cap from = {} => result.copy = moved
       /\ result.set = [a \in DOMAIN Memory |-> IF a \in to THEN input.s ELSE Memory[a]]
       /\ IF differ = {} THEN result.cmp = 0
          ELSE \E k \in differ : /\ \A j \in differ : k <= j
                                /\ result.cmp = Memory[input.d + k] - Memory[input.s + k]

Precedes(a, b) ==
  \E k \in 0 .. Len(a) : /\ k < Len(b) /\ SubSeq(a, 1, k) = SubSeq(b, 1, k)
                         /\ k = Len(a) \/ a[k + 1] < b[k + 1]
StringsAreRight ==
  subject = "strings" =>
    LET a == input.a
        b == input.b
        cut(s) == SubSeq(s, 1, AtMost(Len(s), input.n))
        at == {k \in 1 .. Len(a) - Len(b) + 1 : SubSeq(a, k, k + Len(b) - 1) = b}
        holds == {k \in DOMAIN a : b # << >> /\ a[k] = b[1]}
        first(S) == IF S = {} THEN 0 ELSE CHOOSE k \in S : \A j \in S : k <= j
    IN /\ (result.cmp < 0 <=> Precedes(a, b)) /\ (result.cmp > 0 <=> Precedes(b, a))
       /\ (result.ncmp < 0 <=> Precedes(cut(a), cut(b))) /\ (result.ncmp > 0 <=> Precedes(cut(b), cut(a)))
       /\ result.chr = IF b = << >> THEN Len(a) + 1 ELSE first(holds)
       /\ result.str = first(at)

(* The program's own text functions do what those they stand for would do. *)
TextIsRight ==
  /\ StringIsRight /\ NumberIsRight /\ PrintIsRight /\ DateIsRight
  /\ HeadersAreRight /\ BodyIsRight /\ RequestIsRight /\ UrlIsRight
  /\ MemoryIsRight /\ StringsAreRight

(* ig_private.h says that the body has "freshly computed" fields: the      *)
(* three times in it are the milliseconds of now.                          *)
TimesAreFresh ==
  subject = "body" /\ result.ok =>
    LET now == Numeral(NowMs(input.clock), 10)
    IN \A i \in DOMAIN result.text :
         result.text[i] \in {BodyFields[k].key : k \in {k \in DOMAIN BodyFields : BodyFields[k].kind = "time"}}
           => SubSeq(result.text, i + 4, i + 3 + Len(now)) = now
=============================================================================

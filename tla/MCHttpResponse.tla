--------------------------- MODULE MCHttpResponse ---------------------------
(* Answers of an honest peer in every framing, cut anywhere.               *)
EXTENDS HttpResponse

CONSTANTS Letters, MaxBody, MaxNoise

MCHex == [zero |-> 0, one |-> 1, two |-> 2, three |-> 3, eight |-> 8]
MCBytes == DOMAIN MCHex \cup {"cr", "lf", "semi", "text"}

Bodies == UNION {[1 .. n -> Letters] : n \in 0 .. MaxBody}
Digit(n) == CHOOSE c \in DOMAIN MCHex : MCHex[c] = n
Eol == <<"cr", "lf">>

(* A chunk with the bytes s, with an extension or without: sizes of one    *)
(* and two digits.                                                         *)
SizeOf(s) == (IF Len(s) < 16 THEN << >> ELSE <<Digit(Len(s) \div 16)>>) \o <<Digit(Len(s) % 16)>>
SizesOf(s) == (IF Len(s) < 16 THEN <<0>> ELSE <<0, Len(s) \div 16>>) \o <<Len(s)>>
SizeLine(s, ext) == SizeOf(s) \o ext \o Eol

(* One more chunk to an encoding e.                                        *)
More(e, s, ext) ==
  [body   |-> e.body \o SizeLine(s, ext) \o s \o Eol,
   sent   |-> e.sent \o s,
   chunks |-> Append(e.chunks,
                [at |-> Len(e.body) + 1, sizes |-> SizesOf(s),
                 data |-> Len(e.body) + Len(SizeLine(s, ext)) + 1,
                 size |-> Len(s), from |-> Len(e.sent)])]

(* Every way to send a body in one chunk or in two.                        *)
Extensions == {<< >>, <<"semi", "one">>}
Encodings(s) ==
  LET none == [body |-> << >>, sent |-> << >>, chunks |-> << >>]
      last(e) == More(e, << >>, << >>)
      whole(x) == IF s = << >> THEN last(none) ELSE last(More(none, s, x))
      split(x, n) == last(More(More(none, SubSeq(s, 1, n), x), SubSeq(s, n + 1, Len(s)), << >>))
  IN {whole(x) : x \in Extensions}
     \cup {split(x, n) : x \in Extensions, n \in 1 .. IF Len(s) < 4 THEN Len(s) - 1 ELSE 0}

Status == [space |-> TRUE, status |-> 200]
Line(name, value) == [colon |-> TRUE, name |-> name, value |-> value]
Junk == [colon |-> FALSE]
Te == Line("te", "chunked")

(* Long bodies: two digits of size, and every byte of them like framing.   *)
LongBody(n) == [k \in 1 .. n |-> IF k % 2 = 0 THEN "lf" ELSE "one"]

Answer(head, e) == [head |-> head, body |-> e.body, sent |-> e.sent, chunks |-> e.chunks]
SentChunked ==
  UNION {{Answer(<<Status, Te>>, e) : e \in Encodings(s)} : s \in Bodies \cup {LongBody(17)}}
  \cup {Answer(<<Status, Line("cl", 1), Junk, Te>>, e) : e \in Encodings(<<"one", "one">>)}
  \cup {Answer(<<Status, Te, Line("te", "gzip")>>, e) : e \in Encodings(<<"lf">>)}

(* Bodies with their length, with more after it, and up to the end.        *)
SentPlain ==
  UNION {{[head |-> <<Status, Line("x", "y"), Line("cl", Len(s))>>, body |-> s, sent |-> s],
          [head |-> <<Status, Line("te", "gzip"), Line("cl", Len(s))>>, body |-> s \o <<"one">>, sent |-> s],
          [head |-> <<Status>>, body |-> s, sent |-> s]} : s \in Bodies}
  \cup {[head |-> <<[space |-> FALSE]>>, body |-> << >>, sent |-> << >>],
        [head |-> <<Status, Line("cl", -1)>>, body |-> <<"one">>, sent |-> << >>]}

(* Bytes that were never meant as chunks: sizes that overflow a long, ends *)
(* of lines too many and none.                                             *)
Noise == {[head |-> <<Status, Te>>, body |-> s, sent |-> Unknown] :
            s \in UNION {[1 .. n -> {"eight", "zero", "cr", "lf"}] : n \in 0 .. MaxNoise}}

MCMessages == SentChunked \cup SentPlain \cup Noise
=============================================================================

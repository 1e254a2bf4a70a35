------------------------- MODULE HttpResponseProofs -------------------------
(* What the response parser guarantees for every answer, cut anywhere, and *)
(* every width of a long: of its memory, and of the body it finds.         *)
EXTENDS HttpResponse, SequenceTheorems, TLAPS

Steps == {"head", "size", "line", "chunk", "crlf", "done"}

DecodeTypes ==
  /\ data \in Seq(Bytes) /\ out \in Seq(Bytes)
  /\ pos \in Nat /\ clen \in Int /\ step \in Steps

(* What is decoded is behind p, p no further than the end. *)
Behind == pos \in 1 .. Len(data) + 1 /\ Len(out) < pos

DInv == DecodeTypes /\ Behind

(* The blocks in use at each point of the parse. *)
HeaderBlock == {b \in {"headers"} : headers # << >>}

Blocks ==
  /\ pc \in {"copy", "status", "headers", "frame", "dechunk", "parsed", "failed", "freed"}
  /\ pc \in {"copy", "status"} => headers = << >>
  /\ pc \in {"copy", "failed", "freed"} => heap = {}
  /\ pc = "status" => heap = {"raw"}
  /\ pc \in {"headers", "frame"} => heap = {"raw"} \cup HeaderBlock
  /\ pc = "dechunk" => Chunked /\ heap = {"raw", "decoded"} \cup HeaderBlock
  /\ pc = "parsed" =>
       heap = {"raw"} \cup HeaderBlock \cup {b \in {"decoded"} : Chunked}

(* The body is framed once the whole head has arrived. *)
Place ==
  /\ msg \in Messages /\ len \in 0 .. Size(msg)
  /\ pc = "frame" => len >= HeadSize(msg)

-----------------------------------------------------------------------------
(* A long that wraps is a number still.                                    *)
LEMMA WrappedIsInt == ASSUME NEW n \in Int PROVE Long(n) \in Int
BY DechunkAssumption DEF Long

(* Each turn of the loop stays behind p and moves p no further than the    *)
(* end, because a chunk is cut to what is left.                            *)
LEMMA DecodeKeeps == ASSUME DInv, Decode PROVE DInv'
<1>. USE DEF DInv, DecodeTypes, Behind, Steps
<1>1. CASE NextChunk
  BY <1>1 DEF NextChunk
<1>2. CASE SizeDigit
  <2>1. pos \in DOMAIN data /\ Rem = Len(data) + 1 - pos
    BY <1>2 DEF SizeDigit, Rem
  <2>. DEFINE digit == Hex[data[pos]]
  <2>2. digit \in Int
    BY <1>2, DechunkAssumption DEF SizeDigit
  <2>3. clen' = Long(clen * 16 + digit)
    BY <1>2 DEF SizeDigit
  <2>. HIDE DEF digit
  <2>4. clen * 16 + digit \in Int
    BY <2>2
  <2>5. clen' \in Int
    BY <2>3, <2>4, WrappedIsInt
  <2>. QED BY <1>2, <2>1, <2>5 DEF SizeDigit
<1>3. CASE SizeEnds
  BY <1>3 DEF SizeEnds
<1>4. CASE SkipLine
  BY <1>4 DEF SkipLine, Rem
<1>5. CASE CopyChunk
  <2>1. CASE clen <= 0
    BY <1>5, <2>1 DEF CopyChunk
  <2>2. CASE ~(clen <= 0)
    <3>. DEFINE piece == [k \in 1 .. Chunk |-> Byte(pos + k - 1)]
    <3>1. Chunk \in Nat /\ pos + Chunk <= Len(data) + 1
      BY <2>2 DEF Chunk, Rem
    <3>2. \A k \in 1 .. Chunk : Byte(pos + k - 1) \in Bytes
      BY <3>1 DEF Byte
    <3>3. piece \in Seq(Bytes) /\ Len(piece) = Chunk
      BY <3>1, <3>2, IsASeq
    <3>4. out \o piece \in Seq(Bytes) /\ Len(out \o piece) = Len(out) + Chunk
      BY <3>3, ConcatProperties
    <3>5. out' = out \o piece /\ pos' = pos + Chunk /\ step' = "crlf" /\ UNCHANGED <<data, clen>>
      BY <1>5, <2>2 DEF CopyChunk
    <3>. HIDE DEF piece
    <3>. QED BY <3>1, <3>4, <3>5
  <2>. QED BY <2>1, <2>2
<1>6. CASE SkipCrLf
  BY <1>6 DEF SkipCrLf, Rem
<1>. QED BY <1>1, <1>2, <1>3, <1>4, <1>5, <1>6 DEF Decode

(* What is behind p is within both buffers.                                *)
LEMMA BehindIsSafe == ASSUME DInv PROVE StaysInBuffers
BY DechunkAssumption DEF DInv, DecodeTypes, Behind, StaysInBuffers

(* Parsing begins with nothing decoded, and touches the decoder only to    *)
(* begin it on what arrived of the body and to step it.                    *)
LEMMA InitDecode == Init => DInv
BY EmptySeq DEF Init, DInv, DecodeTypes, Behind, Steps

(* A decoder that is begun anew is where it should be.                     *)
LEMMA BeginKeeps ==
  ASSUME NEW d \in Seq(Bytes), Begin(d) PROVE DInv'
BY EmptySeq DEF Begin, DInv, DecodeTypes, Behind, Steps

(* An answer is its head, a blank line and its body; what came is part of it. *)
LEMMA Sizes ==
  ASSUME Place
  PROVE  /\ HeadSize(msg) \in Nat /\ Size(msg) \in Nat /\ len \in Nat
         /\ Size(msg) - HeadSize(msg) = Len(msg.body) /\ len <= Size(msg)
<1>. DEFINE head == Len(msg.head)
            bytes == Len(msg.body)
<1>1. head \in Nat /\ bytes \in Nat
  BY MessagesAssumption, LenProperties DEF Place
<1>2. HeadSize(msg) = head + 1 /\ Size(msg) = head + 1 + bytes
  BY DEF HeadSize, Size
<1>3. len \in 0 .. Size(msg)
  BY DEF Place
<1>. HIDE DEF head, bytes
<1>4. HeadSize(msg) \in Nat /\ Size(msg) \in Nat /\ Size(msg) - HeadSize(msg) = bytes
  BY <1>1, <1>2
<1>. QED BY <1>3, <1>4 DEF bytes

(* What arrived of the body is bytes of the answer.                        *)
LEMMA ArrivedIsBytes ==
  ASSUME Place, pc = "frame" PROVE Arrived(Remaining) \in Seq(Bytes)
<1>1. msg.body \in Seq(Bytes)
  BY MessagesAssumption DEF Place
<1>2. len >= HeadSize(msg)
  BY DEF Place
<1>3. Remaining \in 0 .. Len(msg.body)
  BY <1>2, Sizes DEF Remaining
<1>. QED BY <1>1, <1>3, SubSeqProperties DEF Arrived

(* The body is framed behind a blank line that arrived.                    *)
LEMMA PlaceKept == ASSUME Place, [Next]_vars PROVE Place'
<1>1. UNCHANGED <<msg, len>>
  BY DEF Next, vars, dvars, parsed, Parse, CopyRaw, StatusLine, HeaderLine, NoRoomForHeader,
     FrameChunked, Frame, Dechunking, Free, Terminated, Fail
<1>2. pc' = "frame" => pc = "frame" \/ (HeaderLine /\ ~(at > len) /\ at = HeadSize(msg))
  BY DEF Next, vars, dvars, parsed, Parse, CopyRaw, StatusLine, HeaderLine, NoRoomForHeader,
     FrameChunked, Frame, Dechunking, Free, Terminated, Fail
<1>3. ~(at > len) /\ at = HeadSize(msg) => len >= HeadSize(msg)
  BY Sizes
<1>. QED BY <1>1, <1>2, <1>3 DEF Place

(* So no step of the parse leads the decoder astray.                       *)
LEMMA StepKeeps == ASSUME DInv, Place, [Next]_vars PROVE DInv'
<1>1. CASE UNCHANGED dvars
  BY <1>1 DEF dvars, DInv, DecodeTypes, Behind
<1>2. CASE Decode
  BY <1>2, DecodeKeeps
<1>3. CASE pc = "frame" /\ Begin(Arrived(Remaining))
  BY <1>3, ArrivedIsBytes, BeginKeeps
<1>. QED
  BY <1>1, <1>2, <1>3 DEF Next, vars, dvars, Parse, CopyRaw, StatusLine, HeaderLine,
     NoRoomForHeader, FrameChunked, Frame, Dechunking, Free, Terminated, Fail

(* No answer makes the decoder write past its buffer or read past its      *)
(* input, however long the chunks it announces.                            *)
THEOREM ResponseBuffers == Spec => []StaysInBuffers
<1>1. Init => DInv /\ Place
  BY InitDecode DEF Init, Place
<1>2. DInv /\ Place /\ [Next]_vars => (DInv /\ Place)'
  BY StepKeeps, PlaceKept
<1>3. DInv => StaysInBuffers
  BY BehindIsSafe
<1>. QED BY <1>1, <1>2, <1>3, PTL DEF Spec

-----------------------------------------------------------------------------
(* At first nothing is allocated.                                          *)
LEMMA BlocksInit == Init => Blocks
BY EmptySeq DEF Init, Blocks

(* The headers change only while they are read, so whether the answer is   *)
(* chunked is settled with them.                                           *)
LEMMA ChunkedKept == ASSUME UNCHANGED headers PROVE Chunked' <=> Chunked
BY DEF Chunked, Has, Header, Named

(* Each step leaves in use what the next one counts on, each failure nothing. *)
LEMMA BlocksKept == ASSUME Blocks, [Next]_vars PROVE Blocks'
<1>1. CASE UNCHANGED vars
  BY <1>1, ChunkedKept DEF vars, Blocks, HeaderBlock
<1>2. CASE CopyRaw
  BY <1>2, ChunkedKept DEF CopyRaw, Blocks, HeaderBlock
<1>3. CASE StatusLine
  BY <1>3, ChunkedKept DEF StatusLine, Blocks, HeaderBlock, Fail, Freed, Release
<1>4. CASE HeaderLine
  <2>1. CASE at > len
    BY <1>4, <2>1 DEF HeaderLine, Blocks, HeaderBlock, Fail, Freed, Release
  <2>2. CASE ~(at > len) /\ at = HeadSize(msg)
    BY <1>4, <2>2 DEF HeaderLine, Blocks, HeaderBlock
  <2>3. CASE ~(at > len) /\ at # HeadSize(msg)
    <3>. DEFINE line == msg.head[at]
    <3>1. Append(headers, line) # << >>
      BY AppendProperties DEF Blocks
    <3>. QED BY <1>4, <2>3, <3>1 DEF HeaderLine, Blocks, HeaderBlock
  <2>. QED BY <2>1, <2>2, <2>3
<1>5. CASE NoRoomForHeader
  BY <1>5 DEF NoRoomForHeader, Blocks, HeaderBlock, Fail, Freed, Release
<1>6. CASE FrameChunked
  BY <1>6, ChunkedKept DEF FrameChunked, parsed, Blocks, HeaderBlock, Fail, Freed, Release
<1>7. CASE Frame
  BY <1>7, ChunkedKept DEF Frame, parsed, Blocks, HeaderBlock
<1>8. CASE Dechunking
  BY <1>8, ChunkedKept DEF Dechunking, parsed, Blocks, HeaderBlock
<1>9. CASE Free
  BY <1>9 DEF Free, Blocks, HeaderBlock, Freed, Release
<1>10. CASE Terminated
  BY <1>10, ChunkedKept DEF Terminated, vars, Blocks, HeaderBlock
<1>. QED
  BY <1>1, <1>2, <1>3, <1>4, <1>5, <1>6, <1>7, <1>8, <1>9, <1>10 DEF Next, Parse

(* A parsed answer holds what its fields point at; an error path, whichever *)
(* allocation failed, leaves nothing, nor does http_response_free.          *)
THEOREM ResponseHolds == Spec => []HoldsWhatItShows
<1>1. Blocks => HoldsWhatItShows
  BY DEF Blocks, HeaderBlock, HoldsWhatItShows
<1>. QED BY <1>1, BlocksInit, BlocksKept, PTL DEF Spec

-----------------------------------------------------------------------------
(* A size that fits into a long is not changed.                            *)
LEMMA LongFits ==
  ASSUME NEW n \in Nat, n < LongRange \div 2
  PROVE  Long(n) = n
<1>1. PICK l \in Nat : l = LongRange /\ l > 0
  BY DechunkAssumption
<1>2. PICK h \in Int : h = l \div 2
  BY <1>1
<1>3. h <= l /\ n < h /\ n < l
  BY <1>1, <1>2
<1>4. n % l = n
  BY <1>1, <1>3
<1>5. QED
  BY <1>1, <1>2, <1>3, <1>4 DEF Long

-----------------------------------------------------------------------------
(* Decoding what an honest peer sent                                       *)

(* o is the beginning of s. *)
Begins(o, s) == Len(o) <= Len(s) /\ \A k \in 1 .. Len(o) : o[k] = s[k]

(* The data ended before the body did and the decoder has come to its end: *)
(* from there on it only finds the way out.                                 *)
Cut(b, s) == pos = Len(data) + 1 /\ Len(data) < Len(b) /\ Begins(out, s)

(* The decoder is at or in chunk c, and has decoded what comes before it.  *)
AtChunk(s, c) ==
  /\ step # "done" /\ Begins(out, s)
  /\ step # "crlf" => Len(out) = c.from
  /\ step = "head" => pos = c.at
  /\ step = "size" => \E k \in 1 .. Len(c.sizes) : pos = c.at + k - 1 /\ clen = c.sizes[k]
  /\ step = "line" => pos \in SizeEnd(c) .. c.data - 1 /\ clen = c.size
  /\ step = "chunk" => pos = c.data /\ clen = c.size
  /\ step = "crlf" => pos \in DataEnd(c) .. DataEnd(c) + 2 /\ Len(out) = c.from + c.size

(* The decoder is cut short, at one of the chunks, or done with all.       *)
Following(b, s, cs) ==
  \/ Cut(b, s)
  \/ \E j \in 1 .. Len(cs) : AtChunk(s, cs[j]) /\ (step = "crlf" => j < Len(cs))
  \/ step = "done" /\ Begins(out, s) /\ Len(out) = Len(s)

(* What the decoder is to rely on of a chunk, in numbers. *)
IsPlaced(b, s, c) ==
  /\ c.at \in Nat \ {0} /\ Len(c.sizes) \in Nat /\ Len(c.sizes) > 1
  /\ c.data \in Nat /\ c.size \in Nat /\ c.from \in Nat /\ c.from <= Len(s)
  /\ SizeEnd(c) \in Nat /\ SizeEnd(c) = c.at + Len(c.sizes) - 1
  /\ SizeEnd(c) < c.data /\ c.data <= Len(b) + 1

(* Each chunk of an encoding is one, and is placed in it.                  *)
LEMMA ChunkPlaced ==
  ASSUME NEW b \in Seq(Bytes), NEW s \in Seq(Bytes), NEW cs, Encodes(b, s, cs),
         NEW j \in 1 .. Len(cs)
  PROVE  IsChunk(b, cs[j]) /\ IsPlaced(b, s, cs[j])
<1>1. IsChunk(b, cs[j]) /\ cs[j].from \in 0 .. Len(s)
  BY DEF Encodes
<1>2. PICK c : c = cs[j]
  OBVIOUS
<1>3. /\ c.at \in Nat \ {0} /\ c.sizes \in Seq(Nat) /\ c.data \in Nat /\ c.size \in Nat
      /\ Len(c.sizes) > 1 /\ SizeEnd(c) < c.data /\ c.data <= Len(b) + 1
  BY <1>1, <1>2 DEF IsChunk
<1>4. Len(c.sizes) \in Nat /\ Len(s) \in Nat
  BY <1>3, LenProperties
<1>5. IsPlaced(b, s, c)
  <2>1. PICK l \in Nat, a \in Nat \ {0} : l = Len(c.sizes) /\ a = c.at
    BY <1>3, <1>4
  <2>2. PICK q : q = SizeEnd(c)
    OBVIOUS
  <2>3. q = a + l - 1
    BY <2>1, <2>2 DEF SizeEnd
  <2>4. l > 1
    BY <1>3, <2>1
  <2>5. q \in Nat
    BY <2>1, <2>3, <2>4
  <2>6. c.from \in Nat /\ c.from <= Len(s)
    BY <1>1, <1>2, <1>4
  <2>7. QED
    BY <1>3, <2>1, <2>2, <2>3, <2>4, <2>5, <2>6 DEF IsPlaced
<1>6. QED
  BY <1>1, <1>2, <1>5

(* The decoder has nothing left: no step reads or writes anything.         *)
LEMMA CutStays ==
  ASSUME DInv, NEW b, NEW s, Cut(b, s), Decode
  PROVE  Cut(b, s)'
<1>1. /\ pos = Len(data) + 1 /\ Len(data) < Len(b) /\ Begins(out, s)
      /\ Len(data) \in Nat /\ pos \in Nat /\ clen \in Int /\ out \in Seq(Bytes)
  BY LenProperties DEF DInv, DecodeTypes, Cut
<1>2. Rem = 0
  BY <1>1 DEF Rem
<1>3. data' = data /\ pos' = pos /\ out' = out
  <2>1. CASE NextChunk
    BY <2>1 DEF NextChunk
  <2>2. CASE SizeDigit
    BY <1>2, <2>2 DEF SizeDigit
  <2>3. CASE SizeEnds
    BY <2>3 DEF SizeEnds
  <2>4. CASE SkipLine
    BY <1>2, <2>4 DEF SkipLine
  <2>5. CASE CopyChunk
    <3>1. CASE clen <= 0
      BY <2>5, <3>1 DEF CopyChunk
    <3>2. CASE ~(clen <= 0)
      <4>1. Chunk = 0
        BY <1>1, <1>2, <3>2 DEF Chunk
      <4>2. out' = out \o [k \in 1 .. 0 |-> Byte(pos + k - 1)] /\ pos' = pos + 0 /\ data' = data
        BY <2>5, <3>2, <4>1 DEF CopyChunk
      <4>3. [k \in 1 .. 0 |-> Byte(pos + k - 1)] = << >>
        OBVIOUS
      <4>4. QED
        BY <1>1, <4>2, <4>3, ConcatEmptySeq
    <3>3. QED
      BY <3>1, <3>2
  <2>6. CASE SkipCrLf
    BY <1>2, <2>6 DEF SkipCrLf
  <2>7. QED
    BY <2>1, <2>2, <2>3, <2>4, <2>5, <2>6 DEF Decode
<1>4. QED
  BY <1>1, <1>3 DEF Cut

(* The size of a chunk, a digit at a time.                                 *)
LEMMA HeadFollows ==
  ASSUME DInv, NEW b \in Seq(Bytes), NEW s \in Seq(Bytes), NEW c,
         IsChunk(b, c), IsPlaced(b, s, c), Begins(data, b),
         AtChunk(s, c), NextChunk
  PROVE  Cut(b, s)' \/ (AtChunk(s, c)' /\ step' # "crlf")
<1>1. /\ step = "head" /\ pos = c.at /\ Len(out) = c.from /\ Begins(out, s)
      /\ UNCHANGED <<data, pos, out>> /\ clen' = 0 /\ step' = IF Rem > 0 THEN "size" ELSE "done"
  BY DEF NextChunk, AtChunk
<1>2. /\ Len(data) \in Nat /\ Len(b) \in Nat
      /\ pos <= Len(data) + 1 /\ Len(data) <= Len(b) /\ pos \in Nat
  BY LenProperties DEF DInv, DecodeTypes, Behind, Begins
<1>3. CASE Rem > 0
  <2>1. c.sizes[1] = 0 /\ c.at + 1 - 1 = c.at /\ 1 \in 1 .. Len(c.sizes)
    <3>1. c.sizes[1] = 0
      BY DEF IsChunk
    <3>2. PICK l \in Nat, a \in Nat : l = Len(c.sizes) /\ a = c.at /\ l > 1
      BY DEF IsPlaced
    <3>3. QED
      BY <3>1, <3>2
  <2>2. step' = "size" /\ \E k \in 1 .. Len(c.sizes) : pos' = c.at + k - 1 /\ clen' = c.sizes[k]
    BY <1>1, <1>3, <2>1
  <2>3. QED
    BY <1>1, <2>2 DEF AtChunk
<1>4. CASE ~(Rem > 0)
  <2>1. pos = Len(data) + 1
    BY <1>2, <1>4 DEF Rem
  <2>2. Len(data) < Len(b)
    <3>1. PICK a \in Nat, l \in Nat, d \in Nat, e \in Nat :
            a = c.at /\ l = Len(c.sizes) /\ d = c.data /\ e = Len(b)
      BY <1>2 DEF IsPlaced
    <3>2. l > 1 /\ a + l - 1 < d /\ d <= e + 1
      BY <3>1 DEF IsPlaced
    <3>3. PICK n \in Nat : n = Len(data)
      BY <1>2
    <3>4. a = n + 1
      BY <1>1, <2>1, <3>1, <3>3
    <3>5. n < e
      BY <3>2, <3>4
    <3>6. QED
      BY <3>1, <3>3, <3>5
  <2>3. QED
    BY <1>1, <1>4, <2>1, <2>2 DEF Cut
<1>5. QED
  BY <1>3, <1>4

(* A digit takes the size to the next value of the chunk; it does not      *)
(* wrap.                                                                   *)
LEMMA DigitFollows ==
  ASSUME DInv, NEW b \in Seq(Bytes), NEW s \in Seq(Bytes), NEW c,
         IsChunk(b, c), IsPlaced(b, s, c), Begins(data, b),
         AtChunk(s, c), SizeDigit
  PROVE  AtChunk(s, c)' /\ step' # "crlf"
<1>1. /\ step = "size" /\ step' = step /\ Len(out) = c.from /\ Begins(out, s)
      /\ UNCHANGED <<data, out>> /\ clen' = Long(clen * 16 + Hex[data[pos]]) /\ pos' = pos + 1
      /\ Rem > 0 /\ data[pos] \in DOMAIN Hex
  BY DEF SizeDigit, AtChunk
<1>2. PICK k \in 1 .. Len(c.sizes) : pos = c.at + k - 1 /\ clen = c.sizes[k]
  BY <1>1 DEF AtChunk
<1>3. pos \in 1 .. Len(data) /\ data[pos] = b[pos]
  <2>1. pos \in 1 .. Len(data)
    BY <1>1 DEF Rem, DInv, DecodeTypes, Behind
  <2>2. QED
    BY <2>1 DEF Begins
<1>4. k # Len(c.sizes)
  <2>1. k = Len(c.sizes) => pos = SizeEnd(c)
    BY <1>2 DEF SizeEnd
  <2>2. b[SizeEnd(c)] \notin DOMAIN Hex
    BY DEF IsChunk
  <2>3. QED
    BY <1>1, <1>3, <2>1, <2>2
<1>5. k \in 1 .. Len(c.sizes) - 1 /\ k + 1 \in 1 .. Len(c.sizes)
  BY <1>4 DEF IsPlaced
<1>6. c.sizes[k + 1] = c.sizes[k] * 16 + Hex[b[c.at + k - 1]] /\ c.sizes[k + 1] < LongRange \div 2
  BY <1>5 DEF IsChunk
<1>7. c.sizes[k + 1] \in Nat
  <2>1. c.sizes \in Seq(Nat)
    BY DEF IsChunk
  <2>2. QED
    BY <1>5, <2>1, ElementOfSeq
<1>8. clen' = c.sizes[k + 1]
  <2>1. clen' = Long(c.sizes[k + 1])
    BY <1>1, <1>2, <1>3, <1>6, Zenon
  <2>2. QED
    BY <1>6, <1>7, <2>1, LongFits
<1>9. pos' = c.at + (k + 1) - 1
  BY <1>1, <1>2, <1>5 DEF IsPlaced
<1>10. \E i \in 1 .. Len(c.sizes) : pos' = c.at + i - 1 /\ clen' = c.sizes[i]
  BY <1>5, <1>8, <1>9
<1>11. QED
  BY <1>1, <1>10 DEF AtChunk

(* The digits end where those of the chunk do, or where the data was cut.  *)
LEMMA SizeEndFollows ==
  ASSUME DInv, NEW b \in Seq(Bytes), NEW s \in Seq(Bytes), NEW c,
         IsChunk(b, c), IsPlaced(b, s, c), Begins(data, b),
         AtChunk(s, c), SizeEnds
  PROVE  Cut(b, s)' \/ (AtChunk(s, c)' /\ step' # "crlf")
<1>1. /\ step = "size" /\ step' = "line" /\ Len(out) = c.from /\ Begins(out, s)
      /\ UNCHANGED <<data, out, pos, clen>> /\ ~(Rem > 0 /\ data[pos] \in DOMAIN Hex)
  BY DEF SizeEnds, AtChunk
<1>2. PICK k \in 1 .. Len(c.sizes) : pos = c.at + k - 1 /\ clen = c.sizes[k]
  BY <1>1 DEF AtChunk
<1>3. /\ Len(data) \in Nat /\ Len(b) \in Nat
      /\ pos <= Len(data) + 1 /\ Len(data) <= Len(b) /\ pos \in Nat /\ pos >= 1
  BY LenProperties DEF DInv, DecodeTypes, Behind, Begins
<1>4. PICK a \in Nat, l \in Nat, d \in Nat, e \in Nat :
        a = c.at /\ l = Len(c.sizes) /\ d = c.data /\ e = Len(b)
  BY <1>3 DEF IsPlaced
<1>5. /\ l > 1 /\ a + l - 1 < d /\ d <= e + 1
      /\ SizeEnd(c) = a + l - 1 /\ pos = a + k - 1 /\ k \in 1 .. l
  BY <1>2, <1>4 DEF IsPlaced
<1>6. CASE Rem > 0
  <2>1. pos \in 1 .. Len(data) /\ data[pos] = b[pos]
    <3>1. pos \in 1 .. Len(data)
      BY <1>3, <1>6 DEF Rem
    <3>2. QED
      BY <3>1 DEF Begins
  <2>2. k = l
    <3>1. ASSUME k # l PROVE FALSE
      <4>1. k \in 1 .. l - 1
        BY <1>5, <3>1
      <4>2. b[c.at + k - 1] \in DOMAIN Hex
        BY <1>4, <4>1 DEF IsChunk
      <4>3. QED
        BY <1>1, <1>2, <1>6, <2>1, <4>2
    <3>2. QED
      BY <3>1
  <2>3. clen = c.size
    BY <1>2, <1>4, <2>2 DEF IsChunk
  <2>4. pos \in SizeEnd(c) .. c.data - 1
    BY <1>4, <1>5, <2>2
  <2>5. QED
    BY <1>1, <2>3, <2>4 DEF AtChunk
<1>7. CASE ~(Rem > 0)
  <2>1. pos = Len(data) + 1
    BY <1>3, <1>7 DEF Rem
  <2>2. Len(data) < Len(b)
    BY <1>3, <1>4, <1>5, <2>1
  <2>3. QED
    BY <1>1, <2>1, <2>2 DEF Cut
<1>8. QED
  BY <1>6, <1>7

(* The rest of the size line is passed over up to its line feed.           *)
LEMMA LineFollows ==
  ASSUME DInv, NEW b \in Seq(Bytes), NEW s \in Seq(Bytes), NEW c,
         IsChunk(b, c), IsPlaced(b, s, c), Begins(data, b),
         AtChunk(s, c), SkipLine
  PROVE  Cut(b, s)' \/ (AtChunk(s, c)' /\ step' # "crlf")
<1>1. /\ step = "line" /\ Len(out) = c.from /\ Begins(out, s) /\ clen = c.size
      /\ UNCHANGED <<data, out, clen>> /\ pos \in SizeEnd(c) .. c.data - 1
      /\ pos' = IF Rem > 0 THEN pos + 1 ELSE pos
      /\ step' = IF Rem > 0 /\ data[pos] # "lf" THEN "line" ELSE "chunk"
  BY DEF SkipLine, AtChunk
<1>2. /\ Len(data) \in Nat /\ Len(b) \in Nat
      /\ pos <= Len(data) + 1 /\ Len(data) <= Len(b) /\ pos \in Nat /\ pos >= 1
  BY LenProperties DEF DInv, DecodeTypes, Behind, Begins
<1>3. PICK q \in Nat, d \in Nat : q = SizeEnd(c) /\ d = c.data /\ q < d /\ d <= Len(b) + 1
  BY DEF IsPlaced
<1>4. CASE Rem > 0
  <2>1. pos \in 1 .. Len(data) /\ data[pos] = b[pos]
    <3>1. pos \in 1 .. Len(data)
      BY <1>2, <1>4 DEF Rem
    <3>2. QED
      BY <3>1 DEF Begins
  <2>2. b[d - 1] = "lf" /\ \A k \in q .. d - 2 : b[k] # "lf"
    BY <1>3 DEF IsChunk
  <2>3. CASE b[pos] = "lf"
    <3>1. pos = d - 1
      BY <1>1, <1>2, <1>3, <2>2, <2>3
    <3>2. step' = "chunk" /\ pos' = c.data
      BY <1>1, <1>2, <1>3, <1>4, <2>1, <2>3, <3>1
    <3>3. QED
      BY <1>1, <3>2 DEF AtChunk
  <2>4. CASE b[pos] # "lf"
    <3>1. pos # d - 1
      BY <2>2, <2>4
    <3>2. step' = "line" /\ pos' = pos + 1
      BY <1>1, <1>4, <2>1, <2>4
    <3>3. pos' \in SizeEnd(c) .. c.data - 1
      BY <1>1, <1>2, <1>3, <3>1, <3>2
    <3>4. QED
      BY <1>1, <3>2, <3>3 DEF AtChunk
  <2>5. QED
    BY <2>3, <2>4
<1>5. CASE ~(Rem > 0)
  <2>1. pos = Len(data) + 1 /\ pos' = pos
    BY <1>1, <1>2, <1>5 DEF Rem
  <2>2. Len(data) < Len(b)
    BY <1>1, <1>2, <1>3, <2>1
  <2>3. QED
    BY <1>1, <2>1, <2>2 DEF Cut
<1>6. QED
  BY <1>4, <1>5

(* What comes behind chunk j of several, in numbers and bytes.             *)
IsJoined(b, s, c, d) ==
  /\ c.size > 0 /\ DataEnd(c) = c.data + c.size /\ DataEnd(c) < Len(b)
  /\ b[DataEnd(c)] = "cr" /\ b[DataEnd(c) + 1] = "lf"
  /\ \A k \in 1 .. c.size : b[c.data + k - 1] = s[c.from + k]
  /\ d.at = DataEnd(c) + 2 /\ d.from = c.from + c.size
  /\ b[d.at] \in DOMAIN Hex

(* A chunk that is not the last has data, a line end and a chunk behind    *)
(* it.                                                                     *)
LEMMA ChunkJoined ==
  ASSUME NEW b \in Seq(Bytes), NEW s \in Seq(Bytes), NEW cs, Encodes(b, s, cs),
         NEW j \in 1 .. Len(cs), j < Len(cs)
  PROVE  /\ j + 1 \in 1 .. Len(cs) /\ IsPlaced(b, s, cs[j + 1])
         /\ IsJoined(b, s, cs[j], cs[j + 1])
<1>1. PICK n \in Nat : n = Len(cs)
  BY DEF Encodes
<1>2. j \in 1 .. n - 1 /\ j + 1 \in 1 .. n
  BY <1>1
<1>3. IsChunk(b, cs[j + 1]) /\ IsPlaced(b, s, cs[j + 1])
  BY <1>1, <1>2, ChunkPlaced
<1>4. b[cs[j + 1].at] \in DOMAIN Hex
  <2>1. PICK d : d = cs[j + 1]
    OBVIOUS
  <2>2. \A k \in 1 .. Len(d.sizes) - 1 : b[d.at + k - 1] \in DOMAIN Hex
    BY <1>3, <2>1 DEF IsChunk
  <2>3. PICK a \in Nat, l \in Nat : a = d.at /\ l = Len(d.sizes) /\ l > 1
    BY <1>3, <2>1 DEF IsPlaced
  <2>4. 1 \in 1 .. Len(d.sizes) - 1 /\ d.at + 1 - 1 = d.at
    BY <2>3
  <2>5. b[d.at + 1 - 1] \in DOMAIN Hex
    BY <2>2, <2>4
  <2>6. QED
    BY <2>1, <2>5, <2>4
<1>5. /\ cs[j].size > 0 /\ DataEnd(cs[j]) < Len(b)
      /\ b[DataEnd(cs[j])] = "cr" /\ b[DataEnd(cs[j]) + 1] = "lf"
      /\ \A k \in 1 .. cs[j].size : b[cs[j].data + k - 1] = s[cs[j].from + k]
      /\ cs[j + 1].at = DataEnd(cs[j]) + 2
      /\ cs[j + 1].from = cs[j].from + cs[j].size
  BY <1>1, <1>2 DEF Encodes
<1>6. DataEnd(cs[j]) = cs[j].data + cs[j].size
  BY DEF DataEnd
<1>7. QED
  BY <1>1, <1>2, <1>3, <1>4, <1>5, <1>6 DEF IsJoined

(* p is what s goes on with behind o.                                      *)
GoesOnIn(s, o, p) ==
  /\ Len(o) + Len(p) <= Len(s)
  /\ \A k \in 1 .. Len(p) : p[k] = s[Len(o) + k]

(* A piece behind the beginning of s is a longer beginning.                *)
LEMMA LongerBegins ==
  ASSUME NEW o \in Seq(Bytes), NEW s \in Seq(Bytes), NEW p \in Seq(Bytes),
         Begins(o, s), GoesOnIn(s, o, p)
  PROVE  Begins(o \o p, s) /\ Len(o \o p) = Len(o) + Len(p)
<1>1. PICK m \in Nat, n \in Nat : m = Len(o) /\ n = Len(p)
  BY LenProperties
<1>2. /\ Len(o \o p) = m + n
      /\ \A k \in 1 .. m + n : (o \o p)[k] = IF k <= m THEN o[k] ELSE p[k - m]
  BY <1>1, ConcatProperties
<1>3. ASSUME NEW k \in 1 .. m + n PROVE (o \o p)[k] = s[k]
  <2>1. CASE k <= m
    BY <1>1, <1>2, <2>1 DEF Begins
  <2>2. CASE ~(k <= m)
    <3>1. k - m \in 1 .. n /\ m + (k - m) = k
      BY <2>2
    <3>2. p[k - m] = s[m + (k - m)]
      BY <1>1, <3>1 DEF GoesOnIn
    <3>3. QED
      BY <1>2, <2>2, <3>1, <3>2
  <2>3. QED
    BY <2>1, <2>2
<1>4. m + n <= Len(s)
  BY <1>1 DEF GoesOnIn
<1>5. QED
  BY <1>1, <1>2, <1>3, <1>4 DEF Begins

(* The data of a chunk, or what there is of it.                            *)
LEMMA CopyFollows ==
  ASSUME DInv, NEW b \in Seq(Bytes), NEW s \in Seq(Bytes), NEW c, NEW d,
         IsPlaced(b, s, c), IsPlaced(b, s, d), IsJoined(b, s, c, d), Begins(data, b),
         AtChunk(s, c), CopyChunk
  PROVE  Cut(b, s)' \/ AtChunk(s, c)'
<1>1. /\ step = "chunk" /\ Len(out) = c.from /\ Begins(out, s)
      /\ clen = c.size /\ pos = c.data /\ data' = data
  BY DEF CopyChunk, AtChunk
<1>2. c.size > 0 /\ DataEnd(c) = c.data + c.size /\ DataEnd(c) < Len(b) /\ d.from = c.from + c.size
  BY DEF IsJoined
<1>3. PICK f \in Nat, z \in Nat, a \in Nat, n \in Nat, m \in Nat, w \in Nat :
        /\ f = c.from /\ z = c.size /\ a = c.data /\ n = Len(data) /\ m = Len(b) /\ w = Len(s)
  BY LenProperties DEF IsPlaced, DInv, DecodeTypes
<1>4. /\ f + z <= w /\ z > 0 /\ a + z < m /\ n <= m /\ pos = a /\ clen = z /\ Len(out) = f
      /\ a >= 1 /\ a <= n + 1 /\ DataEnd(c) = a + z
  <2>1. d.from <= Len(s)
    BY DEF IsPlaced
  <2>2. pos \in 1 .. n + 1
    BY <1>3 DEF DInv, Behind
  <2>3. n <= m
    BY <1>3 DEF Begins
  <2>4. QED
    BY <1>1, <1>2, <1>3, <2>1, <2>2, <2>3
<1>5. PICK h \in Nat : /\ h = Chunk /\ a + h <= n + 1
                      /\ (h = z \/ (h < z /\ a + h = n + 1))
  <2>1. Rem = n + 1 - a
    BY <1>3, <1>4 DEF Rem
  <2>2. Chunk = IF z > n + 1 - a THEN n + 1 - a ELSE z
    BY <1>4, <2>1 DEF Chunk
  <2>3. CASE z > n + 1 - a
    BY <1>4, <2>2, <2>3
  <2>4. CASE ~(z > n + 1 - a)
    BY <1>4, <2>2, <2>4
  <2>5. QED
    BY <2>3, <2>4
<1>. DEFINE piece == [k \in 1 .. Chunk |-> Byte(pos + k - 1)]
<1>6. out' = out \o piece /\ pos' = pos + Chunk /\ step' = "crlf"
  <2>1. ~(clen <= 0)
    BY <1>4
  <2>2. QED
    BY <2>1 DEF CopyChunk
<1>7. ASSUME NEW k \in 1 .. h PROVE Byte(pos + k - 1) = s[f + k] /\ Byte(pos + k - 1) \in Bytes
  <2>1. a + k - 1 \in 1 .. n
    BY <1>4, <1>5
  <2>2. Byte(pos + k - 1) = data[a + k - 1] /\ data[a + k - 1] \in Bytes
    BY <1>3, <1>4, <2>1 DEF Byte, DInv, DecodeTypes
  <2>3. data[a + k - 1] = b[a + k - 1]
    BY <1>3, <2>1 DEF Begins
  <2>4. k \in 1 .. z
    BY <1>5
  <2>5. b[a + k - 1] = s[f + k]
    BY <1>3, <2>4 DEF IsJoined
  <2>6. QED
    BY <2>2, <2>3, <2>5
<1>8. piece \in Seq(Bytes) /\ Len(piece) = h /\ \A k \in 1 .. h : piece[k] = s[f + k]
  <2>1. \A k \in 1 .. h : piece[k] = s[f + k] /\ piece[k] \in Bytes
    BY <1>5, <1>7
  <2>2. piece = [k \in 1 .. h |-> Byte(pos + k - 1)]
    BY <1>5
  <2>3. piece \in [1 .. h -> Bytes]
    BY <1>7, <2>2
  <2>. HIDE DEF piece
  <2>4. QED
    BY <2>1, <2>3, SeqDef, LenProperties
<1>9. out \in Seq(Bytes) /\ f + h <= w
  BY <1>4, <1>5 DEF DInv, DecodeTypes
<1>. HIDE DEF piece
<1>10. Begins(out \o piece, s) /\ Len(out \o piece) = f + h
  <2>1. GoesOnIn(s, out, piece)
    BY <1>3, <1>4, <1>8, <1>9 DEF GoesOnIn
  <2>2. Begins(out \o piece, s) /\ Len(out \o piece) = Len(out) + Len(piece)
    BY <1>1, <1>8, <1>9, <2>1, LongerBegins
  <2>3. QED
    BY <1>4, <1>8, <2>2
<1>11. CASE h = z
  <2>1. pos' = DataEnd(c) /\ Len(out') = c.from + c.size /\ Begins(out', s)
    BY <1>3, <1>4, <1>5, <1>6, <1>10, <1>11
  <2>2. pos' \in DataEnd(c) .. DataEnd(c) + 2
    <3>1. PICK e \in Nat : e = DataEnd(c)
      BY <1>4
    <3>2. e \in e .. e + 2
      OBVIOUS
    <3>3. QED
      BY <2>1, <3>1, <3>2
  <2>3. QED
    BY <1>6, <2>1, <2>2 DEF AtChunk
<1>12. CASE h < z /\ a + h = n + 1
  <2>1. n < m
    BY <1>4, <1>12
  <2>2. pos' = n + 1
    BY <1>4, <1>5, <1>6, <1>12
  <2>3. Len(data') = n
    BY <1>1, <1>3
  <2>4. QED
    BY <1>3, <1>6, <1>10, <2>1, <2>2, <2>3 DEF Cut
<1>13. QED
  BY <1>5, <1>11, <1>12

(* The last chunk, which is empty.                                         *)
LEMMA LastFollows ==
  ASSUME NEW s, NEW c, c.size = 0, c.from = Len(s), AtChunk(s, c), CopyChunk
  PROVE  step' = "done" /\ Begins(out, s)' /\ Len(out') = Len(s)
<1>1. /\ step = "chunk" /\ Len(out) = c.from /\ Begins(out, s) /\ clen = 0
  BY DEF CopyChunk, AtChunk
<1>2. step' = "done" /\ out' = out
  BY <1>1 DEF CopyChunk
<1>3. QED
  BY <1>1, <1>2

(* The line end behind the data.                                           *)
LEMMA LineEndFollows ==
  ASSUME DInv, NEW b \in Seq(Bytes), NEW s \in Seq(Bytes), NEW c, NEW d,
         IsPlaced(b, s, c), IsPlaced(b, s, d), IsJoined(b, s, c, d), Begins(data, b),
         AtChunk(s, c), SkipCrLf
  PROVE  Cut(b, s)' \/ AtChunk(s, c)' \/ (AtChunk(s, d)' /\ step' = "head")
<1>1. /\ step = "crlf" /\ Begins(out, s) /\ Len(out) = c.from + c.size
      /\ UNCHANGED <<data, out, clen>>
      /\ pos \in DataEnd(c) .. DataEnd(c) + 2
  BY DEF SkipCrLf, AtChunk
<1>2. /\ DataEnd(c) = c.data + c.size /\ d.from = c.from + c.size /\ d.at = DataEnd(c) + 2
      /\ b[DataEnd(c)] = "cr" /\ b[DataEnd(c) + 1] = "lf" /\ b[d.at] \in DOMAIN Hex
  BY DEF IsJoined
<1>3. PICK e \in Nat, n \in Nat, m \in Nat, g \in Nat :
        e = DataEnd(c) /\ n = Len(data) /\ m = Len(b) /\ g = pos
  <2>1. DataEnd(c) \in Nat
    <3>1. PICK a \in Nat, z \in Nat : a = c.data /\ z = c.size
      BY DEF IsPlaced
    <3>2. QED
      BY <1>2, <3>1
  <2>2. QED
    BY <2>1, LenProperties DEF DInv, DecodeTypes
<1>4. n <= m /\ g <= n + 1 /\ g >= 1 /\ g \in e .. e + 2 /\ e + 2 <= m
  <2>1. n <= m
    BY <1>3 DEF Begins
  <2>2. g \in 1 .. n + 1
    BY <1>3 DEF DInv, Behind
  <2>3. e + 2 <= m
    <3>1. PICK l \in Nat, q \in Nat : l = Len(d.sizes) /\ l > 1 /\ q = d.data
      BY DEF IsPlaced
    <3>2. d.at + l - 1 < q /\ q <= m + 1 /\ d.at = e + 2
      BY <1>2, <1>3, <3>1 DEF IsPlaced
    <3>3. (e + 2) + l - 1 < q /\ q <= m + 1 /\ l > 1
      BY <3>1, <3>2
    <3>4. QED
      BY <3>3
  <2>4. QED
    BY <1>1, <1>3, <2>1, <2>2, <2>3
<1>5. CASE Rem > 0
  <2>1. pos \in 1 .. Len(data) /\ data[pos] = b[g]
    <3>1. pos \in 1 .. Len(data)
      BY <1>3, <1>4, <1>5 DEF Rem
    <3>2. QED
      BY <1>3, <3>1 DEF Begins
  <2>2. b[e] = "cr" /\ b[e + 1] = "lf" /\ b[e + 2] \notin {"cr", "lf"}
    BY <1>2, <1>3, DechunkAssumption
  <2>3. CASE g = e + 2
    <3>1. step' = "head" /\ pos' = pos
      BY <1>5, <2>1, <2>2, <2>3 DEF SkipCrLf
    <3>2. pos' = d.at /\ Len(out') = d.from /\ Begins(out', s)
      BY <1>1, <1>2, <1>3, <2>3, <3>1
    <3>3. QED
      BY <3>1, <3>2 DEF AtChunk
  <2>4. CASE g # e + 2
    <3>1. g = e \/ g = e + 1
      BY <1>4, <2>4
    <3>2. data[pos] \in {"cr", "lf"}
      BY <2>1, <2>2, <3>1
    <3>3. pos' = pos + 1 /\ step' = "crlf"
      BY <1>1, <1>5, <3>2 DEF SkipCrLf
    <3>4. pos' \in DataEnd(c) .. DataEnd(c) + 2
      BY <1>3, <3>1, <3>3
    <3>5. QED
      BY <1>1, <3>3, <3>4 DEF AtChunk
  <2>5. QED
    BY <2>3, <2>4
<1>6. CASE ~(Rem > 0)
  <2>1. pos = n + 1 /\ pos' = pos
    BY <1>3, <1>4, <1>6 DEF Rem, SkipCrLf
  <2>2. n < m
    BY <1>3, <1>4, <2>1
  <2>3. QED
    BY <1>1, <1>3, <2>1, <2>2 DEF Cut
<1>7. QED
  BY <1>5, <1>6

(* A decoder that follows what was sent goes on to.                        *)
LEMMA DecodeFollows ==
  ASSUME DInv, NEW b \in Seq(Bytes), NEW s \in Seq(Bytes), NEW cs,
         Encodes(b, s, cs), Begins(data, b), Following(b, s, cs), step # "done", Decode
  PROVE  Following(b, s, cs)'
<1>1. CASE Cut(b, s)
  BY <1>1, CutStays DEF Following
<1>2. CASE \E j \in 1 .. Len(cs) : AtChunk(s, cs[j]) /\ (step = "crlf" => j < Len(cs))
  <2>1. PICK j \in 1 .. Len(cs) : AtChunk(s, cs[j]) /\ (step = "crlf" => j < Len(cs))
    BY <1>2
  <2>2. IsChunk(b, cs[j]) /\ IsPlaced(b, s, cs[j])
    BY ChunkPlaced
  <2>3. Cut(b, s)' => Following(b, s, cs)'
    BY DEF Following
  <2>4. AtChunk(s, cs[j])' /\ step' # "crlf" => Following(b, s, cs)'
    BY DEF Following
  <2>5. CASE NextChunk
    BY <2>1, <2>2, <2>3, <2>4, <2>5, HeadFollows, Zenon
  <2>6. CASE SizeDigit
    BY <2>1, <2>2, <2>3, <2>4, <2>6, DigitFollows, Zenon
  <2>7. CASE SizeEnds
    BY <2>1, <2>2, <2>3, <2>4, <2>7, SizeEndFollows, Zenon
  <2>8. CASE SkipLine
    BY <2>1, <2>2, <2>3, <2>4, <2>8, LineFollows, Zenon
  <2>9. CASE CopyChunk
    <3>1. CASE j < Len(cs)
      <4>1. IsPlaced(b, s, cs[j + 1]) /\ IsJoined(b, s, cs[j], cs[j + 1])
        BY <3>1, ChunkJoined
      <4>2. Cut(b, s)' \/ AtChunk(s, cs[j])'
        BY <2>1, <2>2, <2>9, <4>1, CopyFollows, Zenon
      <4>3. QED
        BY <2>3, <3>1, <4>2 DEF Following
    <3>2. CASE ~(j < Len(cs))
      <4>1. j = Len(cs)
        BY <3>2 DEF Encodes
      <4>2. cs[j].size = 0 /\ cs[j].from = Len(s)
        BY <4>1 DEF Encodes
      <4>3. step' = "done" /\ Begins(out, s)' /\ Len(out') = Len(s)
        BY <2>1, <2>9, <4>2, LastFollows, Zenon
      <4>4. QED
        BY <4>3 DEF Following
    <3>3. QED
      BY <3>1, <3>2
  <2>10. CASE SkipCrLf
    <3>1. j < Len(cs)
      BY <2>1, <2>10 DEF SkipCrLf
    <3>2. j + 1 \in 1 .. Len(cs) /\ IsPlaced(b, s, cs[j + 1]) /\ IsJoined(b, s, cs[j], cs[j + 1])
      BY <3>1, ChunkJoined
    <3>3. Cut(b, s)' \/ AtChunk(s, cs[j])' \/ (AtChunk(s, cs[j + 1])' /\ step' = "head")
      BY <2>1, <2>2, <2>10, <3>2, LineEndFollows, Zenon
    <3>4. AtChunk(s, cs[j])' => Following(b, s, cs)'
      BY <3>1 DEF Following
    <3>5. AtChunk(s, cs[j + 1])' /\ step' = "head" => Following(b, s, cs)'
      BY <3>2 DEF Following
    <3>6. QED
      BY <2>3, <3>3, <3>4, <3>5
  <2>11. QED
    BY <2>5, <2>6, <2>7, <2>8, <2>9, <2>10 DEF Decode
<1>3. QED
  BY <1>1, <1>2 DEF Following

-----------------------------------------------------------------------------
(* Line k of the head is a header of this name.                            *)
IsNamed(k, name) == msg.head[k].colon /\ msg.head[k].name = name

(* Neither the headers nor the first n lines have the name.                *)
NoneMet(name, n) ==
  /\ \A i \in 1 .. Len(headers) : headers[i].name # name
  /\ \A k \in 2 .. n : ~IsNamed(k, name)

(* Header i and line k are the first of the name.                          *)
FirstMet(name, i, k) ==
  /\ headers[i] = msg.head[k] /\ IsNamed(k, name)
  /\ \A j \in 1 .. i - 1 : headers[j].name # name
  /\ \A j \in 2 .. k - 1 : ~IsNamed(j, name)

(* What http_header finds of a name is what the first n lines say first.   *)
Met(name, n) ==
  \/ NoneMet(name, n)
  \/ \E i \in 1 .. Len(headers) : \E k \in 2 .. n : FirstMet(name, i, k)

(* The lines of the head.                                                  *)
Lines == {msg.head[k] : k \in Nat}

(* One more line is met: it is passed over, or goes behind the headers.    *)
LEMMA PassedOver ==
  ASSUME NEW name, NEW n \in Nat, n >= 1, Met(name, n), UNCHANGED <<msg, headers>>,
         ~msg.head[n + 1].colon
  PROVE  Met(name, n + 1)'
<1>1. ~IsNamed(n + 1, name)
  BY DEF IsNamed
<1>2. \A k : IsNamed(k, name)' <=> IsNamed(k, name)
  BY DEF IsNamed
<1>3. NoneMet(name, n) => NoneMet(name, n + 1)'
  <2>1. \A k \in 2 .. n + 1 : k \in 2 .. n \/ k = n + 1
    OBVIOUS
  <2>2. QED
    BY <1>1, <1>2, <2>1 DEF NoneMet
<1>4. ASSUME NEW i \in 1 .. Len(headers), NEW k \in 2 .. n, FirstMet(name, i, k)
      PROVE  Met(name, n + 1)'
  <2>1. FirstMet(name, i, k)'
    BY <1>2, <1>4 DEF FirstMet
  <2>2. k \in 2 .. n + 1 /\ i \in 1 .. Len(headers')
    OBVIOUS
  <2>3. QED
    BY <2>1, <2>2 DEF Met
<1>5. QED
  BY <1>3, <1>4 DEF Met

(* A header of the name goes behind those that were there.                 *)
LEMMA Appended ==
  ASSUME NEW name, NEW n \in Nat, n >= 1, Met(name, n), headers \in Seq(Lines),
         UNCHANGED msg, msg.head[n + 1].colon, headers' = Append(headers, msg.head[n + 1])
  PROVE  Met(name, n + 1)'
<1>1. msg.head[n + 1] \in Lines
  BY DEF Lines
<1>2. PICK m \in Nat : m = Len(headers)
  BY LenProperties
<1>3. /\ Len(headers') = m + 1 /\ headers'[m + 1] = msg.head[n + 1]
      /\ \A i \in 1 .. m : headers'[i] = headers[i]
  BY <1>1, <1>2, AppendProperties
<1>4. \A k : IsNamed(k, name)' <=> IsNamed(k, name)
  BY DEF IsNamed
<1>5. CASE NoneMet(name, n)
  <2>0. /\ \A i \in 1 .. m : headers'[i].name # name
        /\ \A k \in 2 .. n : ~IsNamed(k, name)'
    BY <1>2, <1>3, <1>4, <1>5 DEF NoneMet
  <2>1. CASE msg.head[n + 1].name = name
    <3>1. IsNamed(n + 1, name)'
      BY <1>4, <2>1 DEF IsNamed
    <3>2. (m + 1) - 1 = m /\ (n + 1) - 1 = n
      OBVIOUS
    <3>3. FirstMet(name, m + 1, n + 1)'
      BY <1>3, <2>0, <3>1, <3>2 DEF FirstMet
    <3>4. m + 1 \in 1 .. Len(headers') /\ n + 1 \in 2 .. n + 1
      BY <1>3
    <3>5. QED
      BY <3>3, <3>4 DEF Met
  <2>2. CASE msg.head[n + 1].name # name
    <3>1. ~IsNamed(n + 1, name)'
      BY <1>4, <2>2 DEF IsNamed
    <3>2. \A k \in 2 .. n + 1 : k \in 2 .. n \/ k = n + 1
      OBVIOUS
    <3>3. \A i \in 1 .. m + 1 : i \in 1 .. m \/ i = m + 1
      OBVIOUS
    <3>4. NoneMet(name, n + 1)'
      BY <1>3, <2>0, <2>2, <3>1, <3>2, <3>3 DEF NoneMet
    <3>5. QED
      BY <3>4 DEF Met
  <2>3. QED
    BY <2>1, <2>2
<1>6. ASSUME NEW i \in 1 .. Len(headers), NEW k \in 2 .. n, FirstMet(name, i, k)
      PROVE  Met(name, n + 1)'
  <2>1. i \in 1 .. m /\ \A j \in 1 .. i - 1 : j \in 1 .. m
    BY <1>2
  <2>2. headers'[i] = headers[i] /\ \A j \in 1 .. i - 1 : headers'[j] = headers[j]
    BY <1>3, <2>1
  <2>3. FirstMet(name, i, k)'
    BY <1>4, <1>6, <2>2 DEF FirstMet
  <2>4. k \in 2 .. n + 1 /\ i \in 1 .. Len(headers')
    BY <1>3, <2>1
  <2>5. QED
    BY <2>3, <2>4 DEF Met
<1>7. QED
  BY <1>5, <1>6 DEF Met

(* So the header that is found is the one that counts.                     *)
LEMMA FoundIsFirst ==
  ASSUME NEW name, Len(msg.head) \in Nat, headers \in Seq(Lines), Met(name, Len(msg.head))
  PROVE  \/ ~Has(name) /\ FirstNamed(msg.head, name) = {}
         \/ \E k : FirstNamed(msg.head, name) = {k} /\ Has(name) /\ Header(name) = msg.head[k].value
<1>1. PICK m \in Nat : m = Len(headers) /\ DOMAIN headers = 1 .. m
  BY LenProperties
<1>2. PICK n \in Nat : n = Len(msg.head)
  OBVIOUS
<1>3. FirstNamed(msg.head, name) =
        {k \in 2 .. n : IsNamed(k, name) /\ \A j \in 2 .. k - 1 : ~IsNamed(j, name)}
  BY <1>2 DEF FirstNamed, IsNamed
<1>4. CASE NoneMet(name, n)
  <2>1. FirstNamed(msg.head, name) = {}
    BY <1>3, <1>4 DEF NoneMet
  <2>2. Named(name) = {}
    BY <1>1, <1>4 DEF NoneMet, Named
  <2>3. QED
    BY <2>1, <2>2 DEF Has
<1>5. ASSUME NEW i \in 1 .. m, NEW k \in 2 .. n, FirstMet(name, i, k)
      PROVE  FirstNamed(msg.head, name) = {k} /\ Has(name) /\ Header(name) = msg.head[k].value
  <2>1. FirstNamed(msg.head, name) = {k}
    <3>1. k \in FirstNamed(msg.head, name)
      BY <1>3, <1>5 DEF FirstMet
    <3>2. ASSUME NEW j \in FirstNamed(msg.head, name), j # k PROVE FALSE
      <4>1. j \in 2 .. n /\ IsNamed(j, name) /\ \A l \in 2 .. j - 1 : ~IsNamed(l, name)
        BY <1>3
      <4>2. j \in 2 .. k - 1 \/ k \in 2 .. j - 1
        BY <3>2, <4>1
      <4>3. QED
        BY <1>5, <4>1, <4>2 DEF FirstMet
    <3>3. QED
      BY <3>1, <3>2
  <2>2. Named(name) = {i}
    <3>0. headers[i].name = name /\ \A j \in 1 .. i - 1 : headers[j].name # name
      BY <1>5 DEF FirstMet, IsNamed
    <3>1. i \in Named(name)
      BY <1>1, <3>0 DEF Named
    <3>2. ASSUME NEW j \in Named(name), j # i PROVE FALSE
      <4>1. j \in 1 .. m /\ headers[j].name = name /\ \A l \in 1 .. j - 1 : headers[l].name # name
        BY <1>1 DEF Named
      <4>2. j \in 1 .. i - 1 \/ i \in 1 .. j - 1
        BY <3>2, <4>1
      <4>3. QED
        BY <3>0, <4>1, <4>2
    <3>3. QED
      BY <3>1, <3>2
  <2>3. (CHOOSE x \in Named(name) : TRUE) = i
    BY <2>2
  <2>4. Header(name) = headers[i].value /\ headers[i] = msg.head[k]
    BY <1>5, <2>3 DEF Header, FirstMet
  <2>5. Has(name)
    BY <2>2 DEF Has
  <2>6. QED
    BY <2>1, <2>4, <2>5
<1>6. QED
  BY <1>1, <1>2, <1>4, <1>5 DEF Met

-----------------------------------------------------------------------------
(* The headers are what was read of the head.                              *)
HeadersAre(n) == headers \in Seq(Lines) /\ Met("te", n) /\ Met("cl", n)

(* The lines behind p are met, and at the end of the head all are.         *)
HeadRead ==
  /\ pc = "headers" => at \in 2 .. HeadSize(msg) /\ HeadersAre(at - 1)
  /\ pc = "frame" => HeadersAre(Len(msg.head))

(* The decoder works on what arrived of an honest peer's chunks and        *)
(* follows them.                                                           *)
Decodes ==
  /\ len >= HeadSize(msg)
  /\ Encodes(msg.body, msg.sent, msg.chunks)
  /\ data = Arrived(Remaining)
  /\ Following(msg.body, msg.sent, msg.chunks)

(* The decoder is on its way, or the body is right.                        *)
Framed ==
  /\ pc = "dechunk" /\ msg.sent # Unknown => Decodes
  /\ BodyIsSent

(* At first nothing was read.                                              *)
LEMMA HeadReadInit == Init => HeadRead /\ Framed
BY DEF Init, HeadRead, Framed, BodyIsSent

(* Nothing is met in a head of which only the status line was read.        *)
LEMMA NothingMet == ASSUME NEW name, headers = << >> PROVE Met(name, 1)
<1>1. 1 .. Len(headers) = {} /\ 2 .. 1 = {}
  OBVIOUS
<1>2. QED
  BY <1>1 DEF Met, NoneMet

(* What was met stays met.                                                 *)
LEMMA MetKept ==
  ASSUME NEW name, NEW n, Met(name, n), UNCHANGED <<msg, headers>> PROVE Met(name, n)'
BY DEF Met, NoneMet, FirstMet, IsNamed

(* Each line that is read goes to the headers or is passed over; the blank *)
(* line ends the head with all of them met.                                *)
LEMMA HeadReadKept == ASSUME Place, Blocks, HeadRead, [Next]_vars PROVE HeadRead'
<1>1. PICK h \in Nat : h = Len(msg.head) /\ h >= 1 /\ HeadSize(msg) = h + 1
  BY MessagesAssumption DEF Place, HeadSize
<1>2. CASE pc' \in {"headers", "frame"} /\ UNCHANGED <<msg, pc, at, headers>>
  <2>1. ASSUME NEW n, HeadersAre(n) PROVE HeadersAre(n)'
    BY <1>2, <2>1, MetKept DEF HeadersAre, Lines
  <2>2. QED
    BY <1>2, <2>1 DEF HeadRead, HeadSize
<1>3. CASE pc' \notin {"headers", "frame"}
  BY <1>3 DEF HeadRead
<1>4. CASE StatusLine /\ pc' = "headers"
  <2>1. headers = << >> /\ UNCHANGED <<msg, headers>> /\ at' = 2
    BY <1>4 DEF StatusLine, Blocks, Fail
  <2>2. Met("te", 1)' /\ Met("cl", 1)'
    BY <2>1, NothingMet, MetKept
  <2>3. headers' \in Seq(Lines') /\ at' - 1 = 1
    BY <2>1, EmptySeq
  <2>4. at' \in 2 .. HeadSize(msg)'
    BY <1>1, <2>1 DEF HeadSize
  <2>5. QED
    BY <1>4, <2>2, <2>3, <2>4 DEF HeadRead, HeadersAre
<1>5. CASE HeaderLine /\ ~(at > len)
  <2>1. at \in 2 .. h + 1 /\ at' = at + 1 /\ msg' = msg /\ HeadersAre(at - 1)
    BY <1>1, <1>5 DEF HeaderLine, HeadRead
  <2>2. CASE at = HeadSize(msg)
    <3>1. pc' = "frame" /\ headers' = headers /\ at - 1 = h
      BY <1>1, <1>5, <2>2 DEF HeaderLine
    <3>2. HeadersAre(h)'
      BY <2>1, <3>1, MetKept DEF HeadersAre, Lines
    <3>3. QED
      BY <1>1, <2>1, <3>1, <3>2 DEF HeadRead
  <2>3. CASE at # HeadSize(msg)
    <3>1. pc' = "headers" /\ at \in 2 .. h
      BY <1>1, <1>5, <2>1, <2>3 DEF HeaderLine
    <3>2. PICK n \in Nat : n = at - 1 /\ n >= 1 /\ at = n + 1
      BY <3>1
    <3>3. headers \in Seq(Lines) /\ Met("te", n) /\ Met("cl", n)
      BY <2>1, <3>2 DEF HeadersAre
    <3>4. headers' \in Seq(Lines') /\ Met("te", n + 1)' /\ Met("cl", n + 1)'
      <4>1. CASE msg.head[at].colon
        <5>1. headers' = Append(headers, msg.head[n + 1]) /\ msg.head[n + 1].colon
          BY <1>5, <2>3, <3>2, <4>1 DEF HeaderLine
        <5>2. Met("te", n + 1)' /\ Met("cl", n + 1)'
          BY <2>1, <3>2, <3>3, <5>1, Appended
        <5>3. msg.head[n + 1] \in Lines /\ Lines' = Lines
          BY <2>1 DEF Lines
        <5>4. QED
          BY <3>3, <5>1, <5>2, <5>3, AppendProperties
      <4>2. CASE ~msg.head[at].colon
        <5>1. headers' = headers /\ ~msg.head[n + 1].colon
          BY <1>5, <2>3, <3>2, <4>2 DEF HeaderLine
        <5>2. Met("te", n + 1)' /\ Met("cl", n + 1)'
          BY <2>1, <3>2, <3>3, <5>1, PassedOver
        <5>3. Lines' = Lines
          BY <2>1 DEF Lines
        <5>4. QED
          BY <3>3, <5>1, <5>2, <5>3
      <4>3. QED
        BY <4>1, <4>2
    <3>5. at' - 1 = n + 1 /\ at' \in 2 .. h + 1 /\ HeadSize(msg)' = h + 1
      BY <1>1, <2>1, <3>1, <3>2 DEF HeadSize
    <3>6. QED
      BY <3>1, <3>4, <3>5 DEF HeadRead, HeadersAre
  <2>4. QED
    BY <2>2, <2>3
<1>6. QED
  BY <1>2, <1>3, <1>4, <1>5 DEF Next, vars, parsed, dvars, Parse, CopyRaw, StatusLine,
     HeaderLine, NoRoomForHeader, FrameChunked, Frame, Dechunking, Free, Terminated, Fail

-----------------------------------------------------------------------------
(* The beginning of what arrived.                                          *)
LEMMA ArrivedBegins ==
  ASSUME Place, len >= HeadSize(msg), NEW n \in 0 .. Remaining
  PROVE  /\ Remaining \in 0 .. Len(msg.body) /\ (len = Size(msg) <=> Remaining = Len(msg.body))
         /\ Arrived(n) \in Seq(Bytes) /\ Len(Arrived(n)) = n /\ Begins(Arrived(n), msg.body)
<1>1. msg.body \in Seq(Bytes)
  BY MessagesAssumption DEF Place
<1>2. PICK m \in Nat : m = Len(msg.body)
  BY <1>1, LenProperties
<1>3. Remaining \in 0 .. m /\ (len = Size(msg) <=> Remaining = m)
  BY <1>2, Sizes DEF Remaining
<1>4. n \in 0 .. m /\ n \in Nat /\ n - 1 + 1 = n
  BY <1>3
<1>5. \A i \in 1 .. n : msg.body[i] \in Bytes
  BY <1>1, <1>2, <1>4, ElementOfSeq
<1>6. /\ Arrived(n) \in Seq(Bytes) /\ Len(Arrived(n)) = n
      /\ \A i \in 1 .. n : Arrived(n)[i] = msg.body[i]
  BY <1>4, <1>5, SubSeqProperties DEF Arrived
<1>7. QED
  BY <1>2, <1>3, <1>4, <1>6 DEF Begins

(* A body that begins what was sent, and is all of it when all arrived.    *)
LEMMA BeginsIsSent ==
  ASSUME NEW o \in Seq(Bytes), NEW s \in Seq(Bytes), Begins(o, s)
  PROVE  /\ Len(o) <= Len(s) /\ o = SubSeq(s, 1, Len(o))
         /\ Len(o) = Len(s) => o = s
<1>1. PICK n \in Nat, m \in Nat : n = Len(o) /\ m = Len(s) /\ n <= m
  BY LenProperties DEF Begins
<1>2. \A i \in 1 .. n : s[i] \in Bytes /\ o[i] = s[i]
  BY <1>1, ElementOfSeq DEF Begins
<1>3. /\ SubSeq(s, 1, n) \in Seq(Bytes) /\ Len(SubSeq(s, 1, n)) = n
      /\ \A i \in 1 .. n : SubSeq(s, 1, n)[i] = s[i]
  BY <1>1, <1>2, SubSeqProperties
<1>4. o = SubSeq(s, 1, n)
  BY <1>1, <1>2, <1>3, SeqEqual
<1>5. n = m => o = s
  BY <1>1, <1>2, SeqEqual
<1>6. QED
  BY <1>1, <1>4, <1>5

(* The decoder begins at the first chunk.                                  *)
LEMMA StartFollows ==
  ASSUME NEW b \in Seq(Bytes), NEW s \in Seq(Bytes), NEW cs, Encodes(b, s, cs), NEW d, Begin(d)
  PROVE  Following(b, s, cs)'
<1>1. 1 \in 1 .. Len(cs) /\ cs[1].at = 1 /\ cs[1].from = 0
  BY DEF Encodes
<1>2. Len(<< >>) = 0 /\ Len(s) \in Nat
  BY LenProperties
<1>3. AtChunk(s, cs[1])' /\ step' # "crlf"
  BY <1>1, <1>2 DEF Begin, AtChunk, Begins
<1>4. QED
  BY <1>1, <1>3 DEF Following

(* A decoder that is done has what was sent, or was cut short.             *)
LEMMA DoneIsSent ==
  ASSUME NEW b, NEW s, NEW cs, Following(b, s, cs), step = "done"
  PROVE  Begins(out, s) /\ (Len(data) < Len(b) \/ Len(out) = Len(s))
BY DEF Following, Cut, AtChunk

(* The framing the parser finds is the one the peer used.                  *)
LEMMA FramingFound ==
  ASSUME Place, HeadRead, pc = "frame", msg.sent # Unknown
  PROVE  /\ msg.sent \in Seq(Bytes) /\ msg.body \in Seq(Bytes)
         /\ Chunked => Encodes(msg.body, msg.sent, msg.chunks)
         /\ ~Chunked /\ ~Has("cl") => msg.sent = msg.body
         /\ ~Chunked /\ Has("cl") =>
              /\ Header("cl") \in Int /\ Header("cl") <= Len(msg.body)
              /\ msg.sent = SubSeq(msg.body, 1, Header("cl"))
<1>1. /\ Len(msg.head) \in Nat /\ msg.body \in Seq(Bytes)
      /\ msg.sent \in Seq(Bytes) /\ Honest(msg)
  BY MessagesAssumption DEF Place
<1>2. headers \in Seq(Lines) /\ Met("te", Len(msg.head)) /\ Met("cl", Len(msg.head))
  BY DEF HeadRead, HeadersAre
<1>. DEFINE te == {k \in FirstNamed(msg.head, "te") : msg.head[k].value = "chunked"}
            cl == FirstNamed(msg.head, "cl")
<1>3. /\ te # {} => Encodes(msg.body, msg.sent, msg.chunks)
      /\ te = {} /\ cl = {} => msg.sent = msg.body
      /\ te = {} /\ cl # {} =>
           \A k \in cl : /\ msg.head[k].value \in Int /\ msg.head[k].value <= Len(msg.body)
                         /\ msg.sent = SubSeq(msg.body, 1, msg.head[k].value)
  BY <1>1 DEF Honest
<1>4. Chunked <=> te # {}
  <2>1. CASE ~Has("te") /\ FirstNamed(msg.head, "te") = {}
    BY <2>1 DEF Chunked
  <2>2. CASE \E k : /\ FirstNamed(msg.head, "te") = {k} /\ Has("te")
                    /\ Header("te") = msg.head[k].value
    BY <2>2 DEF Chunked
  <2>3. QED
    BY <1>1, <1>2, <2>1, <2>2, FoundIsFirst
<1>5. \/ ~Has("cl") /\ cl = {}
      \/ \E k : cl = {k} /\ Has("cl") /\ Header("cl") = msg.head[k].value
  BY <1>1, <1>2, FoundIsFirst
<1>. HIDE DEF te, cl
<1>6. CASE ~Has("cl") /\ cl = {}
  BY <1>1, <1>3, <1>4, <1>6
<1>7. CASE \E k : cl = {k} /\ Has("cl") /\ Header("cl") = msg.head[k].value
  <2>1. PICK k : cl = {k} /\ Has("cl") /\ Header("cl") = msg.head[k].value
    BY <1>7
  <2>2. k \in cl /\ cl # {}
    BY <2>1
  <2>3. te = {} => /\ msg.head[k].value \in Int /\ msg.head[k].value <= Len(msg.body)
                   /\ msg.sent = SubSeq(msg.body, 1, msg.head[k].value)
    BY <1>3, <2>2
  <2>4. QED
    BY <1>1, <1>3, <1>4, <2>1, <2>3
<1>8. QED
  BY <1>5, <1>6, <1>7

(* A body that is not chunked is cut to what was sent and what arrived.    *)
LEMMA PlainIsSent ==
  ASSUME Place, HeadRead, msg.sent # Unknown, Frame
  PROVE  BodyIsSent'
<1>1. /\ pc = "frame" /\ ~Chunked /\ UNCHANGED <<msg, len>>
      /\ body' = Arrived(IF Has("cl") THEN Length(Header("cl")) ELSE Remaining)
  BY DEF Frame, parsed
<1>2. len >= HeadSize(msg)
  BY <1>1 DEF Place
<1>3. PICK m \in Nat, r \in Int : m = Len(msg.body) /\ r = Remaining
  BY <1>1, FramingFound, LenProperties, Sizes DEF Remaining
<1>4. r \in 0 .. m /\ (len = Size(msg) <=> r = m)
  <2>1. 0 \in 0 .. Remaining
    BY <1>2, Sizes DEF Remaining
  <2>2. QED
    BY <1>2, <1>3, <2>1, ArrivedBegins
<1>5. ASSUME NEW n \in 0 .. r
      PROVE  /\ Arrived(n) \in Seq(Bytes) /\ Len(Arrived(n)) = n
             /\ \A i \in 1 .. n : Arrived(n)[i] = msg.body[i]
  BY <1>2, <1>3, <1>5, ArrivedBegins DEF Begins
<1>6. ASSUME NEW n \in 0 .. r, body' = Arrived(n), Begins(Arrived(n), msg.sent),
             r = m => n = Len(msg.sent)
      PROVE  BodyIsSent'
  <2>1. Arrived(n) \in Seq(Bytes) /\ msg.sent \in Seq(Bytes) /\ Len(Arrived(n)) = n
    BY <1>1, <1>5, FramingFound
  <2>2. /\ n <= Len(msg.sent) /\ Arrived(n) = SubSeq(msg.sent, 1, n)
        /\ n = Len(msg.sent) => Arrived(n) = msg.sent
    BY <1>6, <2>1, BeginsIsSent
  <2>3. len = Size(msg) => body' = msg.sent
    BY <1>4, <1>6, <2>2
  <2>4. Len(body') <= Len(msg.sent) /\ body' = SubSeq(msg.sent, 1, Len(body'))
    BY <1>6, <2>1, <2>2
  <2>5. Size(msg)' = Size(msg)
    BY <1>1 DEF Size, HeadSize
  <2>6. QED
    BY <1>1, <2>3, <2>4, <2>5 DEF BodyIsSent
<1>7. CASE ~Has("cl")
  <2>1. msg.sent = msg.body /\ body' = Arrived(r)
    BY <1>1, <1>3, <1>7, FramingFound
  <2>2. r \in 0 .. r
    BY <1>4
  <2>3. Begins(Arrived(r), msg.sent) /\ (r = m => r = Len(msg.sent))
    BY <1>3, <1>4, <1>5, <2>1, <2>2 DEF Begins
  <2>4. QED
    BY <1>6, <2>1, <2>2, <2>3
<1>8. CASE Has("cl")
  <2>1. PICK v \in Int : /\ v = Header("cl") /\ v <= m
                         /\ msg.sent = SubSeq(msg.body, 1, v)
    BY <1>1, <1>3, <1>8, FramingFound
  <2>2. PICK n \in 0 .. r : n = Length(v) /\ n = IF v < 0 THEN 0 ELSE IF v > r THEN r ELSE v
    BY <1>3, <1>4 DEF Length
  <2>3. body' = Arrived(n)
    BY <1>1, <1>8, <2>1, <2>2
  <2>4. /\ Len(msg.sent) = IF v < 1 THEN 0 ELSE v
        /\ \A i \in 1 .. v : msg.sent[i] = msg.body[i]
    <3>1. \A i \in 1 .. v : msg.body[i] \in Bytes
      BY <1>1, <1>3, <2>1, FramingFound, ElementOfSeq
    <3>2. /\ Len(msg.sent) = IF 1 <= v THEN v - 1 + 1 ELSE 0
          /\ \A i \in 1 .. v - 1 + 1 : msg.sent[i] = msg.body[1 + i - 1]
      BY <2>1, <3>1, SubSeqProperties
    <3>3. v - 1 + 1 = v /\ \A i \in 1 .. v : 1 + i - 1 = i
      OBVIOUS
    <3>4. QED
      BY <3>2, <3>3
  <2>5. n <= Len(msg.sent) /\ \A i \in 1 .. n : i \in 1 .. v
    BY <1>4, <2>2, <2>4
  <2>6. Begins(Arrived(n), msg.sent)
    BY <1>5, <2>4, <2>5 DEF Begins
  <2>7. r = m => n = Len(msg.sent)
    BY <2>1, <2>2, <2>4
  <2>8. QED
    BY <1>6, <2>3, <2>6, <2>7
<1>9. QED
  BY <1>7, <1>8

(* The decoder follows the chunks to the end, and a plain body is cut      *)
(* right.                                                                  *)
LEMMA FramedKept ==
  ASSUME DInv, Place, HeadRead, Framed, [Next]_vars PROVE Framed'
<1>1. CASE UNCHANGED vars
  <2>1. Decodes => Decodes'
    BY <1>1 DEF vars, Decodes, Following, Cut, AtChunk, Remaining, Arrived, HeadSize
  <2>2. QED
    BY <1>1, <2>1 DEF vars, Framed, BodyIsSent, Size, HeadSize
<1>2. CASE pc' \notin {"dechunk", "parsed"}
  BY <1>2 DEF Framed, BodyIsSent
<1>3. CASE FrameChunked /\ pc' = "dechunk"
  <2>1. /\ pc = "frame" /\ Chunked /\ Begin(Arrived(Remaining)) /\ UNCHANGED <<msg, len>>
    BY <1>3 DEF FrameChunked, parsed, Fail
  <2>2. ASSUME msg.sent # Unknown PROVE Decodes'
    <3>1. /\ Encodes(msg.body, msg.sent, msg.chunks)
          /\ msg.sent \in Seq(Bytes) /\ msg.body \in Seq(Bytes)
      BY <2>1, <2>2, FramingFound
    <3>2. Following(msg.body, msg.sent, msg.chunks)'
      BY <2>1, <3>1, StartFollows
    <3>3. data' = Arrived(Remaining)'
      BY <2>1 DEF Begin, Arrived, Remaining, HeadSize
    <3>4. len' >= HeadSize(msg)'
      BY <2>1 DEF Place, HeadSize
    <3>5. QED
      BY <2>1, <3>1, <3>2, <3>3, <3>4 DEF Decodes
  <2>3. QED
    BY <1>3, <2>1, <2>2 DEF Framed, BodyIsSent
<1>4. CASE Frame
  <2>1. pc' = "parsed" /\ UNCHANGED msg
    BY <1>4 DEF Frame, parsed
  <2>2. CASE msg.sent # Unknown
    BY <1>4, <2>1, <2>2, PlainIsSent DEF Framed
  <2>3. CASE msg.sent = Unknown
    BY <2>1, <2>3 DEF Framed, BodyIsSent
  <2>4. QED
    BY <2>2, <2>3
<1>5. CASE Dechunking
  <2>1. pc = "dechunk" /\ UNCHANGED <<msg, len>>
    BY <1>5 DEF Dechunking, parsed
  <2>2. CASE msg.sent = Unknown
    BY <1>5, <2>1, <2>2 DEF Framed, BodyIsSent
  <2>3. CASE msg.sent # Unknown
    <3>1. Decodes
      BY <2>1, <2>3 DEF Framed
    <3>2. msg.sent \in Seq(Bytes) /\ msg.body \in Seq(Bytes)
      BY <2>3, MessagesAssumption DEF Place
    <3>3. /\ data = Arrived(Remaining) /\ Remaining \in 0 .. Len(msg.body) /\ Len(data) = Remaining
          /\ len = Size(msg) <=> Remaining = Len(msg.body)
          /\ Begins(data, msg.body)
      <4>1. Remaining \in 0 .. Remaining
        BY <3>1, Sizes DEF Decodes, Remaining
      <4>2. QED
        BY <3>1, <4>1, ArrivedBegins DEF Decodes
    <3>4. CASE step = "done"
      <4>1. pc' = "parsed" /\ body' = out
        BY <1>5, <3>4 DEF Dechunking
      <4>2. Begins(out, msg.sent) /\ (Len(data) < Len(msg.body) \/ Len(out) = Len(msg.sent))
        BY <3>1, <3>4, DoneIsSent DEF Decodes
      <4>3. out \in Seq(Bytes)
        BY DEF DInv, DecodeTypes
      <4>4. /\ Len(out) <= Len(msg.sent) /\ out = SubSeq(msg.sent, 1, Len(out))
            /\ Len(out) = Len(msg.sent) => out = msg.sent
        BY <3>2, <4>2, <4>3, BeginsIsSent
      <4>5. len = Size(msg) => out = msg.sent
        BY <3>3, <4>2, <4>4
      <4>6. Size(msg)' = Size(msg)
        BY <2>1 DEF Size, HeadSize
      <4>7. QED
        BY <2>1, <4>1, <4>4, <4>5, <4>6 DEF Framed, BodyIsSent
    <3>5. CASE step # "done"
      <4>1. Decode /\ pc' = "dechunk"
        BY <1>5, <2>1, <3>5 DEF Dechunking
      <4>2. Following(msg.body, msg.sent, msg.chunks)'
        <5>0. PICK cs : cs = msg.chunks
          OBVIOUS
        <5>1. PICK b \in Seq(Bytes), s \in Seq(Bytes) :
                b = msg.body /\ s = msg.sent /\ cs = msg.chunks
          BY <3>2, <5>0
        <5>2. Encodes(b, s, cs) /\ Begins(data, b) /\ Following(b, s, cs)
          BY <3>1, <3>3, <5>1 DEF Decodes
        <5>3. Following(b, s, cs)'
          BY <3>5, <4>1, <5>2, DecodeFollows
        <5>4. msg'.body = b /\ msg'.sent = s /\ msg'.chunks = cs
          BY <2>1, <5>1
        <5>5. QED
          BY <5>3, <5>4
      <4>3. data' = data
        BY <4>1 DEF Decode, NextChunk, SizeDigit, SizeEnds, SkipLine, CopyChunk, SkipCrLf
      <4>4. Decodes'
        BY <2>1, <3>1, <4>2, <4>3 DEF Decodes, Arrived, Remaining, HeadSize
      <4>5. QED
        BY <4>1, <4>4 DEF Framed, BodyIsSent
    <3>6. QED
      BY <3>4, <3>5
  <2>4. QED
    BY <2>2, <2>3
<1>6. QED
  BY <1>1, <1>2, <1>3, <1>4, <1>5 DEF Next, vars, Parse, CopyRaw, StatusLine, HeaderLine,
     NoRoomForHeader, FrameChunked, Free, Terminated, Fail

(* An honest answer, however it is framed and wherever it is cut, gives    *)
(* the body that was sent, or the beginning of it when it was cut.         *)
THEOREM ResponseBody == Spec => []BodyIsSent
<1>. DEFINE Inv == DInv /\ Place /\ Blocks /\ HeadRead /\ Framed
<1>1. Init => Inv
  BY InitDecode, BlocksInit, HeadReadInit DEF Init, Place
<1>2. Inv /\ [Next]_vars => Inv'
  BY StepKeeps, PlaceKept, BlocksKept, HeadReadKept, FramedKept
<1>3. Inv => BodyIsSent
  BY DEF Framed
<1>. QED BY <1>1, <1>2, <1>3, PTL DEF Spec
=============================================================================

----------------------------- MODULE QoiProofs ------------------------------
(* The buffers of the codec and the way of a picture through it, for all     *)
(* pictures and however a stream is cut.                                     *)
EXTENDS Qoi, SequenceTheorems, TLAPS

Bytes == 0..255
Pixels == Bytes \X Bytes \X Bytes \X Bytes
Tables == [0..63 -> Pixels]
Encoders == [px : Pixels, run : Nat, index : Tables]

Types ==
  /\ pc \in {"encode", "open", "decode", "done"}
  /\ pic \in Pictures
  /\ i \in 0..Len(pic.px)
  /\ enc \in Encoders
  /\ out \in Seq(Int)
  /\ cap = Capacity(pic.w, pic.h) /\ len \in Int
  /\ DOMAIN dec = {"px", "run", "index", "pos"}

Pending == IF enc.run > 0 THEN 1 ELSE 0

(* Header and five bytes for each pixel taken are enough for what is        *)
(* written and a run that is pending: the run's byte is paid by its pixels. *)
Room ==
  /\ pc = "encode" => Len(out) + Pending <= 14 + 5 * i
  /\ pc # "encode" => Len(out) + Pending <= cap

(* The decoder starts behind the header and stays in its data. *)
Reading ==
  /\ pc \in {"encode", "open"} => dec.pos = 14
  /\ pc = "decode" => dec.pos <= len

Inv == Types /\ Room /\ Reading

-----------------------------------------------------------------------------
(* A picture is a sequence of pixels, and what is allocated for it counts    *)
(* five bytes for each, the header and the end marker.                       *)
LEMMA PictureIsPixels ==
  ASSUME NEW p \in Pictures
  PROVE  p.w \in Int /\ p.h \in Int /\ p.px \in Seq(Pixels) /\ Len(p.px) \in Nat /\ Capacity(p.w, p.h) = 5 * Len(p.px) + 22
<1>1. /\ p.w \in 1..MaxSide /\ p.h \in 1..MaxSide
      /\ p.px \in Seq(Pixels) /\ Len(p.px) = p.w * p.h
  BY PicturesAssumption DEF Pixels, Bytes
<1>2. p.w \in Int /\ p.h \in Int
  BY <1>1
<1>3. Len(p.px) \in Nat
  BY <1>1, LenProperties
<1>4. Capacity(p.w, p.h) = (p.w * p.h) * 5 + 22
  BY <1>2 DEF Capacity
<1>. QED BY <1>1, <1>2, <1>3, <1>4

(* Two byte strings, one after the other.                                    *)
LEMMA Joined ==
  ASSUME NEW s \in Seq(Int), NEW t \in Seq(Int)
  PROVE  /\ s \o t \in Seq(Int)
         /\ Len(s \o t) = Len(s) + Len(t) /\ Len(s) \in Nat /\ Len(t) \in Nat
BY ConcatProperties, LenProperties

(* The longest chunk without its first byte, as the prover wants it.         *)
LEMMA FourInts ==
  ASSUME NEW a \in Int, NEW b \in Int, NEW c \in Int, NEW d \in Int
  PROVE  <<a, b, c, d>> \in Seq(Int) /\ Len(<<a, b, c, d>>) = 4 /\ Len(<<a, b, c, d>>) <= 4
OBVIOUS

(* A run takes one byte, no run none.                                        *)
LEMMA RunChunkIsShort ==
  ASSUME NEW run \in Nat
  PROVE  RunChunk(run) \in Seq(Int) /\ Len(RunChunk(run)) = IF run > 0 THEN 1 ELSE 0
BY DEF RunChunk, RUN

(* A pixel is four bytes, and has a slot in the table. *)
LEMMA PixelIsBytes ==
  ASSUME NEW px \in Pixels
  PROVE  /\ px[1] \in Int /\ px[2] \in Int /\ px[3] \in Int /\ px[4] \in Int
         /\ px = <<px[1], px[2], px[3], px[4]>>
BY DEF Pixels, Bytes

(* The hash of a pixel is a slot of the table.                               *)
LEMMA HashIsSlot == ASSUME NEW px \in Pixels PROVE Hash(px) \in 0..63
<1>1. PICK a \in Int, b \in Int, c \in Int, d \in Int : px = <<a, b, c, d>>
  BY PixelIsBytes
<1>2. Hash(px) = (a * 3 + b * 5 + c * 7 + d * 11) % 64
  BY <1>1 DEF Hash
<1>. QED BY <1>2

(* A signed char is an integer.                                              *)
LEMMA SCharIsInt == ASSUME NEW v \in Int PROVE SChar(v) \in Int
BY DEF SChar

(* No chunk that a colour takes is longer than four bytes. *)
LEMMA DeltaChunkIsShort ==
  ASSUME NEW px \in Pixels, NEW prev \in Pixels
  PROVE  DeltaChunk(px, prev) \in Seq(Int) /\ Len(DeltaChunk(px, prev)) <= 4
<1>. DEFINE vr == SChar(px[1] - prev[1])
            vg == SChar(px[2] - prev[2])
            vb == SChar(px[3] - prev[3])
            vgr == SChar(vr - vg)
            vgb == SChar(vb - vg)
<1>1. px[1] \in Int /\ px[2] \in Int /\ px[3] \in Int
      /\ prev[1] \in Int /\ prev[2] \in Int /\ prev[3] \in Int
  BY PixelIsBytes
<1>2. vr \in Int /\ vg \in Int /\ vb \in Int
  BY <1>1, SCharIsInt
<1>. HIDE DEF vr, vg, vb
<1>3. vgr \in Int /\ vgb \in Int
  BY <1>2, SCharIsInt
<1>. HIDE DEF vgr, vgb
<1>4. DeltaChunk(px, prev) \in
        {<<DIFF + (vr + 2) * 16 + (vg + 2) * 4 + (vb + 2)>>,
         <<LUMA + (vg + 32), (vgr + 8) * 16 + (vgb + 8)>>,
         <<RGB, px[1], px[2], px[3]>>}
  BY Zenon DEF DeltaChunk, vr, vg, vb, vgr, vgb
<1>. DEFINE diff == DIFF + (vr + 2) * 16 + (vg + 2) * 4 + (vb + 2)
            luma == LUMA + (vg + 32)
            pair == (vgr + 8) * 16 + (vgb + 8)
<1>5. diff \in Int /\ luma \in Int /\ pair \in Int /\ RGB \in Int
  BY <1>2, <1>3 DEF DIFF, LUMA, RGB
<1>. HIDE DEF diff, luma, pair
<1>6. DeltaChunk(px, prev) \in {<<diff>>, <<luma, pair>>, <<RGB, px[1], px[2], px[3]>>}
  BY <1>4 DEF diff, luma, pair
<1>7. /\ <<diff>> \in Seq(Int) /\ Len(<<diff>>) <= 4
      /\ <<luma, pair>> \in Seq(Int) /\ Len(<<luma, pair>>) <= 4
  BY <1>5
<1>8. <<RGB, px[1], px[2], px[3]>> \in Seq(Int) /\ Len(<<RGB, px[1], px[2], px[3]>>) <= 4
  BY <1>1, <1>5, FourInts
<1>. QED BY <1>6, <1>7, <1>8, Zenon

(* No chunk is longer than five bytes, whatever the table holds.             *)
LEMMA PixelChunkIsShort ==
  ASSUME NEW px \in Pixels, NEW prev \in Pixels, NEW index \in Tables
  PROVE  PixelChunk(px, prev, index) \in Seq(Int) /\ Len(PixelChunk(px, prev, index)) <= 5
<1>1. Hash(px) \in Int
  BY HashIsSlot
<1>2. CASE index[Hash(px)] = px
  BY <1>1, <1>2 DEF PixelChunk, INDEX
<1>3. CASE index[Hash(px)] # px /\ px[4] = prev[4]
  BY <1>3, DeltaChunkIsShort DEF PixelChunk
<1>4. CASE index[Hash(px)] # px /\ px[4] # prev[4]
  <2>1. px \in Seq(Int) /\ Len(px) = 4
    <3>1. PICK a \in Int, b \in Int, c \in Int, d \in Int : px = <<a, b, c, d>>
      BY PixelIsBytes
    <3>. QED BY <3>1, FourInts
  <2>2. <<RGBA>> \in Seq(Int) /\ Len(<<RGBA>>) = 1
    BY DEF RGBA
  <2>3. PixelChunk(px, prev, index) = <<RGBA>> \o px
    BY <1>4 DEF PixelChunk
  <2>4. /\ PixelChunk(px, prev, index) \in Seq(Int)
        /\ Len(PixelChunk(px, prev, index)) = Len(<<RGBA>>) + Len(px)
    BY <2>1, <2>2, <2>3, Joined, Zenon
  <2>. QED BY <2>1, <2>2, <2>4
<1>. QED BY <1>2, <1>3, <1>4

(* The header is fourteen bytes.                                             *)
LEMMA HeaderIsShort ==
  ASSUME NEW w \in Int, NEW h \in Int
  PROVE  Header(w, h) \in Seq(Int) /\ Len(Header(w, h)) = 14
<1>1. \A v \in Int : Put32(v) \in Seq(Int) /\ Len(Put32(v)) = 4
  BY DEF Put32
<1>2. Magic \in Seq(Int) /\ Len(Magic) = 4
  BY DEF Magic
<1>3. <<4, 0>> \in Seq(Int) /\ Len(<<4, 0>>) = 2
  OBVIOUS
<1>. HIDE DEF Magic
<1>4. Len(Magic \o Put32(w)) = Len(Magic) + Len(Put32(w)) /\ Magic \o Put32(w) \in Seq(Int)
  BY <1>1, <1>2, Joined, Zenon
<1>5. /\ Len(Magic \o Put32(w) \o Put32(h)) = Len(Magic \o Put32(w)) + Len(Put32(h))
      /\ Magic \o Put32(w) \o Put32(h) \in Seq(Int)
  BY <1>1, <1>4, Joined, Zenon
<1>6. /\ Len(Header(w, h)) = Len(Magic \o Put32(w) \o Put32(h)) + Len(<<4, 0>>)
      /\ Header(w, h) \in Seq(Int)
  BY <1>3, <1>5, Joined, Zenon DEF Header
<1>. QED BY <1>1, <1>2, <1>3, <1>4, <1>5, <1>6

-----------------------------------------------------------------------------
(* What the decoder makes of a chunk                                         *)

(* A difference that wrapped around adds up to the byte it was taken from.   *)
LEMMA CharBack ==
  ASSUME NEW x \in Bytes, NEW y \in Bytes
  PROVE  UChar(y + SChar(x - y)) = x
BY DEF UChar, SChar, Bytes

(* So does a difference of differences. *)
LEMMA LumaBack ==
  ASSUME NEW x \in Bytes, NEW y \in Bytes, NEW g \in -32 .. 31
  PROVE  UChar(y + g + SChar(SChar(x - y) - g)) = x
BY DEF UChar, SChar, Bytes

(* The digits of a DIFF chunk, and that it is none of the others.            *)
IsDiff(op, r, g, b) ==
  /\ op \in Int /\ ~(op < DIFF) /\ op \in DIFF .. LUMA - 1
  /\ op \notin LUMA .. RUN - 1 /\ op \notin RUN .. RGB - 1 /\ op # RGB /\ op # RGBA
  /\ ((op % 64) \div 16) - 2 = r /\ (((op % 64) \div 4) % 4) - 2 = g /\ ((op % 64) % 4) - 2 = b
  /\ (op % 64) \div 16 \in Int /\ ((op % 64) \div 4) % 4 \in Int /\ (op % 64) % 4 \in Int

(* The differences of a DIFF chunk are its digits.                         *)
LEMMA DiffDigits ==
  ASSUME NEW r \in -2 .. 1, NEW g \in -2 .. 1, NEW b \in -2 .. 1
  PROVE  IsDiff(DIFF + (r + 2) * 16 + (g + 2) * 4 + (b + 2), r, g, b)
BY DEF IsDiff, DIFF, LUMA, RUN, RGB, RGBA

(* Those of a LUMA chunk. *)
IsLuma(op, b2, g, r, b) ==
  /\ op \in Int /\ ~(op < DIFF) /\ op \notin DIFF .. LUMA - 1
  /\ op \in LUMA .. RUN - 1 /\ op \notin RUN .. RGB - 1 /\ op # RGB /\ op # RGBA
  /\ (op % 64) - 32 = g /\ (b2 \div 16) - 8 = r /\ (b2 % 16) - 8 = b
  /\ b2 \div 16 \in Int /\ b2 % 16 \in Int

(* Those of a LUMA chunk are the digits of its two bytes.                  *)
LEMMA LumaDigits ==
  ASSUME NEW g \in -32 .. 31, NEW r \in -8 .. 7, NEW b \in -8 .. 7
  PROVE  IsLuma(LUMA + (g + 32), (r + 8) * 16 + (b + 8), g, r, b)
BY DEF IsLuma, DIFF, LUMA, RUN, RGB, RGBA

-----------------------------------------------------------------------------
(* Stream b holds the bytes c from behind position q on.                     *)
Holds(b, q, c) == \A j \in 1 .. Len(c) : b[q + j] = c[j]

(* A decoder that stands before c, with p as its next pixel. *)
Means(b, d, c, p) ==
  /\ ChunkPixel(b, d) = p
  /\ b[d.pos + 1] \notin RUN .. RGB - 1
  /\ 1 + Operands(b[d.pos + 1]) = Len(c)

(* An index chunk. *)
LEMMA IndexMeans ==
  ASSUME NEW p, NEW b, NEW d, NEW s \in 0 .. 63, d.index[s] = p,
         Holds(b, d.pos, <<s>>)
  PROVE  Means(b, d, <<s>>, p)
<1>1. b[d.pos + 1] = s
  BY DEF Holds
<1>2. s % 64 = s
  OBVIOUS
<1>3. ChunkPixel(b, d) = p
  BY <1>1, <1>2 DEF ChunkPixel, DIFF, LUMA, RUN, RGB, RGBA
<1>4. QED
  BY <1>1, <1>3 DEF Means, Operands, DIFF, LUMA, RUN, RGB, RGBA

(* A pixel is its four bytes. *)
LEMMA PixelBytes ==
  ASSUME NEW p \in Pixels
  PROVE  /\ p[1] \in Bytes /\ p[2] \in Bytes /\ p[3] \in Bytes /\ p[4] \in Bytes
         /\ p = <<p[1], p[2], p[3], p[4]>>
BY DEF Pixels

(* A DIFF chunk. *)
LEMMA DiffMeans ==
  ASSUME NEW p \in Pixels, NEW b, NEW d, d.px \in Pixels, p[4] = d.px[4],
         NEW r \in -2 .. 1, NEW g \in -2 .. 1, NEW l \in -2 .. 1,
         r = SChar(p[1] - d.px[1]), g = SChar(p[2] - d.px[2]), l = SChar(p[3] - d.px[3]),
         NEW op, IsDiff(op, r, g, l),
         Holds(b, d.pos, <<op>>)
  PROVE  Means(b, d, <<op>>, p)
<1> DEFINE arg == op % 64
<1>1. b[d.pos + 1] = op /\ Len(<<op>>) = 1
  BY DEF Holds
<1>2. /\ op \in Int /\ ~(op < DIFF) /\ op \in DIFF .. LUMA - 1
      /\ op \notin LUMA .. RUN - 1 /\ op \notin RUN .. RGB - 1 /\ op # RGB /\ op # RGBA
      /\ (arg \div 16) - 2 = r /\ ((arg \div 4) % 4) - 2 = g /\ (arg % 4) - 2 = l
      /\ arg \div 16 \in Int /\ (arg \div 4) % 4 \in Int /\ arg % 4 \in Int
  BY Zenon DEF IsDiff
<1>3. /\ UChar(d.px[1] + r) = p[1] /\ UChar(d.px[2] + g) = p[2] /\ UChar(d.px[3] + l) = p[3]
  BY PixelBytes, CharBack
<1>4. d.px[1] \in Int /\ d.px[2] \in Int /\ d.px[3] \in Int
  BY PixelIsBytes
<1>5. ChunkPixel(b, d) =
        <<UChar(d.px[1] + (arg \div 16) - 2), UChar(d.px[2] + ((arg \div 4) % 4) - 2),
          UChar(d.px[3] + (arg % 4) - 2), d.px[4]>>
  BY <1>1, <1>2, Zenon DEF ChunkPixel
<1> DEFINE x == arg \div 16
           y == (arg \div 4) % 4
           z == arg % 4
<1>6. x \in Int /\ y \in Int /\ z \in Int /\ x - 2 = r /\ y - 2 = g /\ z - 2 = l
  BY <1>2, Zenon
<1> HIDE DEF x, y, z
<1>7. d.px[1] + x - 2 = d.px[1] + r /\ d.px[2] + y - 2 = d.px[2] + g /\ d.px[3] + z - 2 = d.px[3] + l
  BY <1>4, <1>6
<1>8. ChunkPixel(b, d) = <<UChar(d.px[1] + x - 2), UChar(d.px[2] + y - 2), UChar(d.px[3] + z - 2), d.px[4]>>
  BY <1>5, Zenon DEF x, y, z
<1>9. ChunkPixel(b, d) = p
  BY <1>3, <1>7, <1>8, PixelBytes
<1>10. QED
  BY <1>1, <1>2, <1>9 DEF Means, Operands

(* A LUMA chunk. *)
LEMMA LumaMeans ==
  ASSUME NEW p \in Pixels, NEW b, NEW d, d.px \in Pixels, p[4] = d.px[4], d.pos \in Nat,
         NEW g \in -32 .. 31, NEW r \in -8 .. 7, NEW l \in -8 .. 7,
         g = SChar(p[2] - d.px[2]),
         r = SChar(SChar(p[1] - d.px[1]) - g), l = SChar(SChar(p[3] - d.px[3]) - g),
         NEW op, NEW b2, IsLuma(op, b2, g, r, l),
         Holds(b, d.pos, <<op, b2>>)
  PROVE  Means(b, d, <<op, b2>>, p)
<1> DEFINE vg == (op % 64) - 32
<1>1. b[d.pos + 1] = op /\ b[d.pos + 2] = b2 /\ Len(<<op, b2>>) = 2
  BY DEF Holds
<1>2. /\ op \in Int /\ ~(op < DIFF) /\ op \notin DIFF .. LUMA - 1
      /\ op \in LUMA .. RUN - 1 /\ op \notin RUN .. RGB - 1 /\ op # RGB /\ op # RGBA
      /\ vg = g /\ (b2 \div 16) - 8 = r /\ (b2 % 16) - 8 = l
      /\ b2 \div 16 \in Int /\ b2 % 16 \in Int
  BY Zenon DEF IsLuma
<1>3. /\ UChar(d.px[1] + g + r) = p[1] /\ UChar(d.px[2] + g) = p[2]
      /\ UChar(d.px[3] + g + l) = p[3]
  BY PixelBytes, CharBack, LumaBack
<1>4. d.px[1] \in Int /\ d.px[3] \in Int
  BY PixelIsBytes
<1>5. ChunkPixel(b, d) =
        <<UChar(d.px[1] + vg + (b2 \div 16) - 8), UChar(d.px[2] + vg),
          UChar(d.px[3] + vg + (b2 % 16) - 8), d.px[4]>>
  BY <1>1, <1>2, Zenon DEF ChunkPixel
<1> DEFINE x == b2 \div 16
           z == b2 % 16
<1>6. x \in Int /\ z \in Int /\ x - 8 = r /\ z - 8 = l /\ vg = g
  BY <1>2, Zenon
<1> HIDE DEF x, z, vg
<1>7. d.px[1] + g + x - 8 = d.px[1] + g + r /\ d.px[3] + g + z - 8 = d.px[3] + g + l
  BY <1>4, <1>6
<1>8. ChunkPixel(b, d) = <<UChar(d.px[1] + g + x - 8), UChar(d.px[2] + g), UChar(d.px[3] + g + z - 8), d.px[4]>>
  BY <1>5, <1>6, Zenon DEF x, z
<1>9. ChunkPixel(b, d) = p
  BY <1>3, <1>7, <1>8, PixelBytes
<1>10. QED
  BY <1>1, <1>2, <1>9 DEF Means, Operands

(* The first bytes that write out a colour are none of the others'.          *)
LEMMA RgbIsApart ==
  /\ RGB # RGBA /\ ~(RGB < DIFF) /\ ~(RGBA < DIFF)
  /\ \A op \in {RGB, RGBA} :
       op \notin DIFF .. LUMA - 1 /\ op \notin LUMA .. RUN - 1 /\ op \notin RUN .. RGB - 1
BY DEF DIFF, LUMA, RUN, RGB, RGBA

(* A colour, written out. *)
LEMMA RgbMeans ==
  ASSUME NEW p \in Pixels, NEW b, NEW d, p[4] = d.px[4], d.pos \in Nat,
         Holds(b, d.pos, <<RGB, p[1], p[2], p[3]>>)
  PROVE  Means(b, d, <<RGB, p[1], p[2], p[3]>>, p)
<1>1. /\ b[d.pos + 1] = RGB /\ b[d.pos + 2] = p[1] /\ b[d.pos + 3] = p[2]
      /\ b[d.pos + 4] = p[3] /\ Len(<<RGB, p[1], p[2], p[3]>>) = 4
  BY DEF Holds
<1>2. ChunkPixel(b, d) = <<p[1], p[2], p[3], p[4]>>
  BY <1>1, RgbIsApart DEF ChunkPixel
<1>3. ChunkPixel(b, d) = p
  BY <1>2, PixelBytes
<1>4. QED
  BY <1>1, <1>3, RgbIsApart DEF Means, Operands

(* The places of five bytes, one by one.                                     *)
LEMMA Holds5 ==
  ASSUME NEW b, NEW q, NEW c, Holds(b, q, c), Len(c) = 5
  PROVE  /\ b[q + 1] = c[1] /\ b[q + 2] = c[2] /\ b[q + 3] = c[3]
         /\ b[q + 4] = c[4] /\ b[q + 5] = c[5]
<1>1. \A j \in 1 .. 5 : b[q + j] = c[j]
  BY DEF Holds
<1>2. 1 \in 1 .. 5 /\ 2 \in 1 .. 5 /\ 3 \in 1 .. 5 /\ 4 \in 1 .. 5 /\ 5 \in 1 .. 5
  OBVIOUS
<1>3. QED
  BY <1>1, <1>2, Zenon

(* A colour with its alpha takes five. *)
LEMMA RgbaBytes ==
  ASSUME NEW p \in Pixels, NEW c, c = <<RGBA>> \o p
  PROVE  Len(c) = 5 /\ c[1] = RGBA /\ c[2] = p[1] /\ c[3] = p[2] /\ c[4] = p[3] /\ c[5] = p[4]
<1>1. p \in Seq(Int) /\ Len(p) = 4 /\ <<RGBA>> \in Seq(Int) /\ Len(<<RGBA>>) = 1
  <2>1. PICK x \in Int, y \in Int, z \in Int, a \in Int : p = <<x, y, z, a>>
    BY PixelIsBytes
  <2>2. QED
    BY <2>1, FourInts DEF RGBA
<1>2. Len(c) = Len(<<RGBA>>) + Len(p)
  BY <1>1, ConcatProperties
<1>3. \A k \in 1 .. 5 : c[k] = IF k <= 1 THEN <<RGBA>>[k] ELSE p[k - 1]
  BY <1>1, <1>2, ConcatProperties
<1>4. QED
  BY <1>1, <1>2, <1>3

(* And means it. *)
LEMMA RgbaMeans ==
  ASSUME NEW p \in Pixels, NEW b, NEW d, d.pos \in Nat, NEW c, Holds(b, d.pos, c),
         Len(c) = 5, c[1] = RGBA, c[2] = p[1], c[3] = p[2], c[4] = p[3], c[5] = p[4]
  PROVE  Means(b, d, c, p)
<1>1. /\ b[d.pos + 1] = RGBA /\ b[d.pos + 2] = p[1] /\ b[d.pos + 3] = p[2]
      /\ b[d.pos + 4] = p[3] /\ b[d.pos + 5] = p[4]
  BY Holds5, Zenon
<1>2. ChunkPixel(b, d) = p
  BY <1>1, PixelBytes, RgbIsApart DEF ChunkPixel
<1>3. QED
  BY <1>1, <1>2, RgbIsApart DEF Means, Operands

(* Whatever chunk the encoder chooses, a decoder that has the same pixel     *)
(* before it, and in its table what the encoder's has of p, makes p of it.   *)
LEMMA ChunkMeans ==
  ASSUME NEW p \in Pixels, NEW ei \in Tables, NEW b, NEW d, d.px \in Pixels, d.pos \in Nat,
         ei[Hash(p)] = p => d.index[Hash(p)] = p,
         NEW c, c = PixelChunk(p, d.px, ei), Holds(b, d.pos, c)
  PROVE  Means(b, d, c, p)
<1>1. CASE ei[Hash(p)] = p
  <2>1. Hash(p) \in 0 .. 63 /\ d.index[Hash(p)] = p
    BY <1>1, HashIsSlot
  <2>2. c = <<Hash(p)>>
    BY <1>1, <2>1 DEF PixelChunk, INDEX
  <2>3. QED
    BY <2>1, <2>2, IndexMeans
<1>2. CASE ei[Hash(p)] # p /\ p[4] = d.px[4]
  <2> DEFINE vr == SChar(p[1] - d.px[1])
             vg == SChar(p[2] - d.px[2])
             vb == SChar(p[3] - d.px[3])
             vgr == SChar(vr - vg)
             vgb == SChar(vb - vg)
             diff == DIFF + (vr + 2) * 16 + (vg + 2) * 4 + (vb + 2)
             luma == LUMA + (vg + 32)
             pair == (vgr + 8) * 16 + (vgb + 8)
  <2>1. c = IF {vr, vg, vb} \subseteq -2 .. 1 THEN <<diff>>
            ELSE IF vg \in -32 .. 31 /\ {vgr, vgb} \subseteq -8 .. 7 THEN <<luma, pair>>
            ELSE <<RGB, p[1], p[2], p[3]>>
    BY <1>2, Zenon DEF PixelChunk, DeltaChunk
  <2>2. CASE {vr, vg, vb} \subseteq -2 .. 1
    <3>1. c = <<diff>> /\ vr \in -2 .. 1 /\ vg \in -2 .. 1 /\ vb \in -2 .. 1
      BY <2>1, <2>2, Zenon
    <3> HIDE DEF vr, vg, vb
    <3>2. IsDiff(diff, vr, vg, vb)
      BY <3>1, DiffDigits
    <3> HIDE DEF diff
    <3>3. QED
      BY <1>2, <3>1, <3>2, DiffMeans DEF vr, vg, vb
  <2>3. CASE ~({vr, vg, vb} \subseteq -2 .. 1) /\ vg \in -32 .. 31 /\ {vgr, vgb} \subseteq -8 .. 7
    <3>1. c = <<luma, pair>> /\ vg \in -32 .. 31 /\ vgr \in -8 .. 7 /\ vgb \in -8 .. 7
      BY <2>1, <2>3, Zenon
    <3> HIDE DEF vgr, vgb, vg
    <3>2. IsLuma(luma, pair, vg, vgr, vgb)
      BY <3>1, LumaDigits
    <3> HIDE DEF luma, pair
    <3>3. QED
      BY <1>2, <3>1, <3>2, LumaMeans DEF vg, vgr, vgb
  <2>4. CASE ~({vr, vg, vb} \subseteq -2 .. 1) /\ ~(vg \in -32 .. 31 /\ {vgr, vgb} \subseteq -8 .. 7)
    <3>1. c = <<RGB, p[1], p[2], p[3]>>
      BY <2>1, <2>4, Zenon
    <3>2. QED
      BY <1>2, <3>1, RgbMeans
  <2>5. QED
    BY <2>2, <2>3, <2>4
<1>3. CASE ei[Hash(p)] # p /\ p[4] # d.px[4]
  <2>1. c = <<RGBA>> \o p
    BY <1>3 DEF PixelChunk
  <2>2. QED
    BY <2>1, RgbaBytes, RgbaMeans
<1>4. QED
  BY <1>1, <1>2, <1>3

-----------------------------------------------------------------------------
(* The decoder along the stream                                              *)

Decoders == [px : Pixels, run : Nat, index : Tables, pos : Nat]
Fresh == [px |-> Start, run |-> 0, index |-> [h \in 0..63 |-> Blank], pos |-> 14]

(* One pixel further in stream b, as DecodeRun and DecodeChunk do it.        *)
Decodes(b, d, e) ==
  IF d.run > 0 THEN e = [d EXCEPT !.run = @ - 1]
  ELSE /\ d.pos < Len(b) /\ d.pos + 1 + Operands(b[d.pos + 1]) <= Len(b)
       /\ e = AfterChunk(b, d)

(* D[k] is the decoder after k pixels, and these are the first m of px.      *)
Trace(b, px, m, D) ==
  /\ D \in [0..m -> Decoders] /\ D[0] = Fresh
  /\ \A k \in 1..m : Decodes(b, D[k - 1], D[k]) /\ D[k].px = px[k]

(* How far a chunk reaches.                                                  *)
LEMMA OperandsOf ==
  /\ \A op : Operands(op) \in Nat
  /\ \A op : op = RGB => Operands(op) = 3
  /\ \A op : op = RGBA => Operands(op) = 4
  /\ \A op \in LUMA..RUN - 1 : Operands(op) = 1 /\ op # RGB /\ op # RGBA
BY DEF Operands, LUMA, RUN, RGB, RGBA

(* The pixel of a chunk depends on its bytes only.                           *)
LEMMA SamePixel ==
  ASSUME NEW b, NEW c, NEW d, c[d.pos + 1] = b[d.pos + 1],
         b[d.pos + 1] \in LUMA..RUN - 1 => c[d.pos + 2] = b[d.pos + 2],
         b[d.pos + 1] = RGB => /\ c[d.pos + 2] = b[d.pos + 2] /\ c[d.pos + 3] = b[d.pos + 3]
                               /\ c[d.pos + 4] = b[d.pos + 4],
         b[d.pos + 1] = RGBA => /\ c[d.pos + 2] = b[d.pos + 2] /\ c[d.pos + 3] = b[d.pos + 3]
                                /\ c[d.pos + 4] = b[d.pos + 4] /\ c[d.pos + 5] = b[d.pos + 5]
  PROVE  ChunkPixel(c, d) = ChunkPixel(b, d)
<1>1. CASE b[d.pos + 1] = RGB
  BY <1>1, RgbIsApart, Zenon DEF ChunkPixel
<1>2. CASE b[d.pos + 1] = RGBA
  BY <1>2, RgbIsApart, Zenon DEF ChunkPixel
<1>3. CASE b[d.pos + 1] \in LUMA..RUN - 1
  <2>1. b[d.pos + 1] # RGB /\ b[d.pos + 1] # RGBA
    BY <1>3, OperandsOf
  <2>2. QED
    BY <1>3, <2>1, SMT DEF ChunkPixel
<1>4. CASE b[d.pos + 1] # RGB /\ b[d.pos + 1] # RGBA /\ b[d.pos + 1] \notin LUMA..RUN - 1
  BY <1>4, SMT DEF ChunkPixel
<1>5. QED
  BY <1>1, <1>2, <1>3, <1>4, Zenon

(* More bytes at the end do not change what the ones before them mean.       *)
LEMMA DecodesMore ==
  ASSUME NEW b \in Seq(Int), NEW c \in Seq(Int), NEW d \in Decoders, NEW e, Decodes(b, d, e)
  PROVE  Decodes(b \o c, d, e)
<1> DEFINE b2 == b \o c
<1>1. d.run \in Nat /\ d.pos \in Nat
  BY DEF Decoders
<1>2. CASE d.run > 0
  BY <1>2 DEF Decodes
<1>3. CASE ~(d.run > 0)
  <2>1. /\ Len(b) \in Nat /\ Len(b2) \in Nat /\ Len(b) <= Len(b2)
        /\ \A k \in 1..Len(b) : b2[k] = b[k]
    <3>1. /\ Len(b) \in Nat /\ Len(c) \in Nat /\ Len(b2) = Len(b) + Len(c)
          /\ \A k \in 1..Len(b) + Len(c) : b2[k] = IF k <= Len(b) THEN b[k] ELSE c[k - Len(b)]
      BY ConcatProperties, LenProperties
    <3> HIDE DEF b2
    <3>2. QED
      BY <3>1
  <2> HIDE DEF b2
  <2>2. d.pos < Len(b) /\ d.pos + 1 + Operands(b[d.pos + 1]) <= Len(b) /\ e = AfterChunk(b, d)
    BY <1>3 DEF Decodes
  <2>3. PICK n \in Nat : n = Operands(b[d.pos + 1])
    BY OperandsOf
  <2>4. PICK q \in Nat : q = d.pos
    BY <1>1
  <2>5. q < Len(b) /\ q + 1 + n <= Len(b)
    BY <2>2, <2>3, <2>4
  <2>6. b2[q + 1] = b[q + 1]
    BY <2>1, <2>5
  <2>7. n >= 1 => b2[q + 2] = b[q + 2]
    BY <2>1, <2>5
  <2>8. n >= 3 => b2[q + 3] = b[q + 3] /\ b2[q + 4] = b[q + 4]
    BY <2>1, <2>5
  <2>9. n >= 4 => b2[q + 5] = b[q + 5]
    BY <2>1, <2>5
  <2>10. /\ b[q + 1] \in LUMA..RUN - 1 => n >= 1
         /\ b[q + 1] = RGB => n >= 1 /\ n >= 3
         /\ b[q + 1] = RGBA => n >= 1 /\ n >= 3 /\ n >= 4
    <3>1. n = Operands(b[q + 1])
      BY <2>3, <2>4
    <3>2. QED
      BY <3>1, OperandsOf
  <2>11. ChunkPixel(b2, d) = ChunkPixel(b, d)
    BY <2>4, <2>6, <2>7, <2>8, <2>9, <2>10, SamePixel, Zenon
  <2>12. AfterChunk(b2, d) = AfterChunk(b, d)
    BY <2>4, <2>6, <2>11, Zenon DEF AfterChunk
  <2>13. d.pos < Len(b2) /\ d.pos + 1 + Operands(b2[d.pos + 1]) <= Len(b2)
    <3>1. q < Len(b2) /\ q + 1 + n <= Len(b2)
      BY <2>1, <2>5
    <3>2. QED
      BY <2>3, <2>4, <2>6, <3>1
  <2>14. QED
    BY <1>3, <2>2, <2>12, <2>13 DEF Decodes, b2
<1>4. QED
  BY <1>2, <1>3

(* The decoder gets to e with the first m pixels.                            *)
Reaches(b, px, m, e) == \E D : Trace(b, px, m, D) /\ D[m] = e

(* The decoder goes on behind d for n pixels, which follow the first m.      *)
GoesOn(b, px, m, d, n, E) ==
  /\ E \in [1..n -> Decoders] /\ Decodes(b, d, E[1])
  /\ \A k \in 2..n : Decodes(b, E[k - 1], E[k])
  /\ \A k \in 1..n : E[k].px = px[m + k]

(* A decoding goes on for n more pixels in a stream that goes on.            *)
LEMMA TraceGoesOn ==
  ASSUME NEW b \in Seq(Int), NEW c \in Seq(Int), NEW px, NEW m \in Nat, NEW n \in Nat, n > 0,
         NEW D, Trace(b, px, m, D), NEW E, GoesOn(b \o c, px, m, D[m], n, E)
  PROVE  Reaches(b \o c, px, m + n, E[n])
<1> DEFINE F == [k \in 0..m + n |-> IF k <= m THEN D[k] ELSE E[k - m]]
           b2 == b \o c
<1>0. /\ E \in [1..n -> Decoders] /\ Decodes(b2, D[m], E[1])
      /\ \A k \in 2..n : Decodes(b2, E[k - 1], E[k])
      /\ \A k \in 1..n : E[k].px = px[m + k]
  BY DEF GoesOn
<1>1. D \in [0..m -> Decoders] /\ D[0] = Fresh
  BY DEF Trace
<1>2. F \in [0..m + n -> Decoders] /\ F[0] = Fresh /\ F[m + n] = E[n]
  BY <1>0, <1>1
<1>3. ASSUME NEW k \in 1..m + n PROVE Decodes(b2, F[k - 1], F[k]) /\ F[k].px = px[k]
  <2>1. CASE k <= m
    <3>1. k \in 1..m /\ k - 1 \in 0..m /\ F[k] = D[k] /\ F[k - 1] = D[k - 1]
      BY <1>3, <2>1
    <3>2. Decodes(b, D[k - 1], D[k]) /\ D[k].px = px[k] /\ D[k - 1] \in Decoders
      BY <1>1, <3>1 DEF Trace
    <3>3. Decodes(b2, D[k - 1], D[k])
      BY <3>2, DecodesMore
    <3> HIDE DEF F, b2
    <3>4. QED
      BY <3>1, <3>2, <3>3
  <2>2. CASE k = m + 1
    <3>1. F[k] = E[1] /\ F[k - 1] = D[m] /\ 1 \in 1..n
      BY <1>3, <2>2
    <3> HIDE DEF F
    <3>2. QED
      BY <1>0, <2>2, <3>1
  <2>3. CASE k > m + 1
    <3>1. k - m \in 2..n /\ k - m \in 1..n /\ F[k] = E[k - m] /\ F[k - 1] = E[k - m - 1] /\ m + (k - m) = k
      BY <1>3, <2>3
    <3> HIDE DEF F
    <3>2. PICK j \in 2..n : j = k - m
      BY <3>1
    <3>3. QED
      BY <1>0, <3>1, <3>2
  <2>4. QED
    BY <1>3, <2>1, <2>2, <2>3
<1> HIDE DEF F, b2
<1>4. Trace(b2, px, m + n, F)
  BY <1>2, <1>3 DEF Trace
<1>5. QED
  BY <1>2, <1>4 DEF b2, Reaches

-----------------------------------------------------------------------------
(* What the encoder has written, as the decoder will read it                 *)

(* The tables of the two agree, but for the slot of the first pixel before   *)
(* the picture: a run of it fills that slot at the decoder only.             *)
FirstSlot == 53
Agree(ei, di) == \A h \in 0..63 : ei[h] = di[h] \/ (h = FirstSlot /\ ei[h] = Blank)
Entered(ei, p) == ei[Hash(p)] = p \/ (Hash(p) = FirstSlot /\ ei[FirstSlot] = Blank)

(* Stream b says the first m of px, the last of which is p.                  *)
Written(b, px, m, p, ei) ==
  \E D : /\ Trace(b, px, m, D)
         /\ D[m].run = 0 /\ D[m].pos = Len(b) /\ D[m].px = p
         /\ Agree(ei, D[m].index)

(* The slots of the pixels that a table is filled with.                      *)
LEMMA FirstSlots == Hash(Start) = FirstSlot /\ Hash(Blank) # FirstSlot /\ FirstSlot \in 0..63
BY DEF Hash, Start, Blank, FirstSlot

(* Agreement after a run, and after a pixel that both enter.                 *)
LEMMA AgreeRun ==
  ASSUME NEW ei \in Tables, NEW di \in Tables, NEW p \in Pixels, Agree(ei, di), Entered(ei, p)
  PROVE  Agree(ei, [di EXCEPT ![Hash(p)] = p]) /\ [di EXCEPT ![Hash(p)] = p] \in Tables
<1>1. Hash(p) \in 0..63
  BY HashIsSlot
<1>2. QED
  BY <1>1 DEF Agree, Entered, Tables

(* Both enter a pixel that is written out.                                 *)
LEMMA AgreePixel ==
  ASSUME NEW ei \in Tables, NEW di \in Tables, NEW p \in Pixels, Agree(ei, di)
  PROVE  /\ Agree([ei EXCEPT ![Hash(p)] = p], [di EXCEPT ![Hash(p)] = p])
         /\ [di EXCEPT ![Hash(p)] = p] \in Tables /\ [ei EXCEPT ![Hash(p)] = p] \in Tables
         /\ Entered([ei EXCEPT ![Hash(p)] = p], p)
<1>1. Hash(p) \in 0..63
  BY HashIsSlot
<1>2. QED
  BY <1>1 DEF Agree, Entered, Tables

(* A pixel that the encoder finds in its table is in the decoder's: the slot *)
(* where they may differ holds no pixel of that slot.                        *)
LEMMA AgreeMeans ==
  ASSUME NEW ei, NEW di, NEW p \in Pixels, Agree(ei, di), ei[Hash(p)] = p
  PROVE  di[Hash(p)] = p
<1>1. Hash(p) \in 0..63
  BY HashIsSlot
<1>2. QED
  BY <1>1, FirstSlots DEF Agree

(* The byte of a run.                                                        *)
RunByte(op, r) ==
  /\ op \in RUN..RGB - 1 /\ op % 64 = r - 1 /\ op # RGB /\ op # RGBA /\ ~(op < DIFF)
  /\ op \notin DIFF..LUMA - 1 /\ op \notin LUMA..RUN - 1 /\ Operands(op) = 0

(* A run of up to 62 pixels is one byte that says nothing else.            *)
LEMMA RunBytes ==
  ASSUME NEW r \in 1..62
  PROVE  RunByte(RUN + r - 1, r) /\ RunChunk(r) = <<RUN + r - 1>> /\ RUN + r - 1 \in Int
BY DEF RunByte, RunChunk, Operands, DIFF, LUMA, RUN, RGB, RGBA

(* The decoder, k pixels into a run of r.                                    *)
InRun(d, r, k) ==
  [px |-> d.px, run |-> r - k, index |-> [d.index EXCEPT ![Hash(d.px)] = d.px], pos |-> d.pos + 1]

(* The byte of a run starts it.                                            *)
LEMMA RunStarts ==
  ASSUME NEW b, NEW d, NEW r, RunByte(b[d.pos + 1], r), d.pos \in Nat, d.run = 0, d.pos + 1 <= Len(b)
  PROVE  Decodes(b, d, InRun(d, r, 1))
<1>1. ChunkPixel(b, d) = d.px
  BY Zenon DEF RunByte, ChunkPixel
<1>2. Operands(b[d.pos + 1]) = 0 /\ b[d.pos + 1] \in RUN..RGB - 1 /\ b[d.pos + 1] % 64 = r - 1
  BY Zenon DEF RunByte
<1>3. d.pos < Len(b) /\ d.pos + 1 + 0 <= Len(b) /\ d.pos + 1 + 0 = d.pos + 1 /\ ~(d.run > 0)
  <2>1. PICK q \in Nat : q = d.pos
    OBVIOUS
  <2>2. d.run = 0
    OBVIOUS
  <2>3. QED
    BY <2>1, <2>2
<1>4. AfterChunk(b, d) = InRun(d, r, 1)
  BY <1>1, <1>2, <1>3 DEF AfterChunk, InRun
<1>5. QED
  BY <1>2, <1>3, <1>4, Zenon DEF Decodes

(* Each pixel of it counts it down.                                        *)
LEMMA RunGoesOn ==
  ASSUME NEW b, NEW d, NEW r \in Int, NEW k \in Int, k <= r
  PROVE  Decodes(b, InRun(d, r, k - 1), InRun(d, r, k))
<1>1. r - (k - 1) > 0 /\ r - (k - 1) - 1 = r - k
  OBVIOUS
<1>2. InRun(d, r, k - 1).run > 0
  BY <1>1 DEF InRun
<1>3. InRun(d, r, k) = [InRun(d, r, k - 1) EXCEPT !.run = @ - 1]
  BY <1>1 DEF InRun
<1>4. QED
  BY <1>2, <1>3, Zenon DEF Decodes

(* A run is read as it was counted.                                          *)
LEMMA RunWritten ==
  ASSUME NEW b \in Seq(Int), NEW px, NEW m \in Nat, NEW p \in Pixels, NEW ei \in Tables,
         NEW r \in 1..62, Written(b, px, m, p, ei), Entered(ei, p),
         \A k \in 1..r : px[m + k] = p
  PROVE  Written(b \o RunChunk(r), px, m + r, p, ei)
<1>1. PICK D : /\ Trace(b, px, m, D)
               /\ D[m].run = 0 /\ D[m].pos = Len(b) /\ D[m].px = p
               /\ Agree(ei, D[m].index)
  BY Zenon DEF Written
<1>2. PICK d \in Decoders : d = D[m]
  BY <1>1 DEF Trace
<1>3. d.run = 0 /\ d.pos = Len(b) /\ d.px = p /\ Agree(ei, d.index) /\ d.index \in Tables /\ d.pos \in Nat
  BY <1>1, <1>2 DEF Decoders
<1> DEFINE c == RunChunk(r)
           b2 == b \o c
           di == [d.index EXCEPT ![Hash(p)] = p]
           E == [k \in 1..r |-> InRun(d, r, k)]
<1>4. c = <<RUN + r - 1>> /\ RunByte(RUN + r - 1, r) /\ RUN + r - 1 \in Int
  BY RunBytes
<1>5. c \in Seq(Int) /\ Len(c) = 1 /\ c[1] = RUN + r - 1
  BY <1>4
<1> HIDE DEF c
<1>6. Len(b2) = Len(b) + 1 /\ b2[Len(b) + 1] = c[1] /\ Len(b) \in Nat
  <2>1. /\ Len(b) \in Nat /\ Len(b2) = Len(b) + Len(c)
        /\ \A k \in 1..Len(b) + Len(c) : b2[k] = IF k <= Len(b) THEN b[k] ELSE c[k - Len(b)]
    BY <1>5, ConcatProperties, LenProperties
  <2> HIDE DEF b2
  <2>2. PICK l \in Nat : l = Len(b)
    BY <2>1
  <2>3. b2[l + 1] = c[l + 1 - l] /\ l + 1 - l = 1
    BY <1>5, <2>1, <2>2
  <2>4. QED
    BY <1>5, <2>1, <2>2, <2>3
<1> HIDE DEF b2
<1>7. Agree(ei, di) /\ di \in Tables
  BY <1>3, AgreeRun
<1> HIDE DEF di
<1>8. ASSUME NEW k \in 1..r
      PROVE  /\ E[k] = InRun(d, r, k) /\ E[k] \in Decoders /\ E[k].px = p /\ E[k].run = r - k
             /\ E[k].index = di /\ E[k].pos = Len(b) + 1
  <2>1. r - k \in Nat /\ d.pos + 1 \in Nat /\ d.pos + 1 = Len(b) + 1
    <3>1. r - k \in Nat
      BY <1>8
    <3>2. QED
      BY <1>3, <1>6, <3>1
  <2>2. InRun(d, r, k) = [px |-> p, run |-> r - k, index |-> di, pos |-> Len(b) + 1]
    BY <1>3 DEF InRun, di
  <2>3. QED
    BY <1>7, <2>1, <2>2 DEF Decoders
<1>9. E \in [1..r -> Decoders]
  BY <1>8
<1>10. 1 \in 1..r /\ r \in 1..r /\ r - r = 0 /\ r \in Nat /\ r > 0
  OBVIOUS
<1>11. Decodes(b2, D[m], E[1])
  <2>1. RunByte(b2[d.pos + 1], r) /\ d.pos + 1 <= Len(b2)
    BY <1>3, <1>4, <1>5, <1>6
  <2>2. Decodes(b2, d, InRun(d, r, 1))
    BY <1>3, <2>1, RunStarts
  <2>3. QED
    BY <1>2, <1>8, <1>10, <2>2, Zenon
<1>12. ASSUME NEW k \in 2..r PROVE Decodes(b2, E[k - 1], E[k])
  <2>1. k \in 1..r /\ k - 1 \in 1..r /\ k \in Int /\ r \in Int /\ k <= r
    BY <1>12
  <2>2. Decodes(b2, InRun(d, r, k - 1), InRun(d, r, k))
    BY <2>1, RunGoesOn
  <2>3. QED
    BY <1>8, <2>1, <2>2
<1>13. \A k \in 1..r : E[k].px = px[m + k]
  BY <1>8
<1> HIDE DEF E
<1>14. GoesOn(b2, px, m, D[m], r, E)
  BY <1>9, <1>11, <1>12, <1>13, Zenon DEF GoesOn
<1>15. PICK F : Trace(b2, px, m + r, F) /\ F[m + r] = E[r]
  <2>1. Trace(b, px, m, D) /\ GoesOn(b \o c, px, m, D[m], r, E) /\ c \in Seq(Int) /\ r \in Nat /\ r > 0
    BY <1>1, <1>5, <1>10, <1>14 DEF b2
  <2>2. Reaches(b \o c, px, m + r, E[r])
    BY <2>1, TraceGoesOn
  <2>3. QED
    BY <2>2, Zenon DEF Reaches, b2
<1>16. QED
  BY <1>6, <1>7, <1>8, <1>10, <1>15 DEF Written, b2, c

(* What is appended stands behind what was there.                            *)
LEMMA AppendedHolds ==
  ASSUME NEW b \in Seq(Int), NEW c \in Seq(Int)
  PROVE  Holds(b \o c, Len(b), c)
<1>1. /\ Len(b) \in Nat /\ Len(c) \in Nat
      /\ \A k \in 1..Len(b) + Len(c) : (b \o c)[k] = IF k <= Len(b) THEN b[k] ELSE c[k - Len(b)]
  BY ConcatProperties, LenProperties
<1> DEFINE b2 == b \o c
<1> HIDE DEF b2
<1>2. PICK l \in Nat, n \in Nat : l = Len(b) /\ n = Len(c)
  BY <1>1
<1>3. ASSUME NEW j \in 1..n PROVE b2[l + j] = c[j]
  <2>1. l + j \in 1..l + n /\ ~(l + j <= l) /\ l + j - l = j
    BY <1>3
  <2>2. \A k \in 1..l + n : b2[k] = IF k <= l THEN b[k] ELSE c[k - l]
    BY <1>1, <1>2 DEF b2
  <2>3. QED
    BY <2>1, <2>2
<1>4. QED
  BY <1>2, <1>3 DEF Holds, b2

(* A chunk that means q takes the decoder past it with q.                    *)
After(d, q, n) == [px |-> q, run |-> 0, index |-> [d.index EXCEPT ![Hash(q)] = q], pos |-> d.pos + n]

(* A decoder before a chunk that means q takes it whole.                   *)
LEMMA MeansDecodes ==
  ASSUME NEW b, NEW d, NEW q, NEW c, Means(b, d, c, q), d.run = 0,
         d.pos \in Nat, NEW n \in Nat, n = Len(c), Len(b) = d.pos + n
  PROVE  Decodes(b, d, After(d, q, n))
<1>1. ChunkPixel(b, d) = q /\ b[d.pos + 1] \notin RUN..RGB - 1 /\ 1 + Operands(b[d.pos + 1]) = n
  BY Zenon DEF Means
<1>2. PICK o \in Nat : o = Operands(b[d.pos + 1])
  BY OperandsOf
<1>3. PICK s \in Nat : s = d.pos
  OBVIOUS
<1>4. s + 1 + o = s + n /\ s < s + n /\ s + 1 + o <= s + n
  BY <1>1, <1>2
<1>5. AfterChunk(b, d) = After(d, q, n)
  <2>1. d.pos + 1 + Operands(b[d.pos + 1]) = d.pos + n
    BY <1>2, <1>3, <1>4
  <2>2. QED
    BY <1>1, <2>1, Zenon DEF AfterChunk, After
<1>6. d.pos < Len(b) /\ d.pos + 1 + Operands(b[d.pos + 1]) <= Len(b) /\ ~(d.run > 0)
  <2>1. d.run = 0 /\ Len(b) = s + n
    BY <1>3
  <2>2. QED
    BY <1>2, <1>3, <1>4, <2>1
<1>7. QED
  BY <1>5, <1>6, Zenon DEF Decodes

(* The chunk that the encoder chooses is read as the pixel it was chosen for.*)
LEMMA PixelWritten ==
  ASSUME NEW b \in Seq(Int), NEW px, NEW m \in Nat, NEW p \in Pixels, NEW ei \in Tables,
         Written(b, px, m, p, ei), NEW q \in Pixels, q = px[m + 1]
  PROVE  Written(b \o PixelChunk(q, p, ei), px, m + 1, q, [ei EXCEPT ![Hash(q)] = q])
<1>1. PICK D : /\ Trace(b, px, m, D)
               /\ D[m].run = 0 /\ D[m].pos = Len(b) /\ D[m].px = p
               /\ Agree(ei, D[m].index)
  BY Zenon DEF Written
<1>2. PICK d \in Decoders : d = D[m]
  BY <1>1 DEF Trace
<1>3. d.run = 0 /\ d.pos = Len(b) /\ d.px = p /\ Agree(ei, d.index) /\ d.index \in Tables /\ d.pos \in Nat
  BY <1>1, <1>2 DEF Decoders
<1> DEFINE c == PixelChunk(q, p, ei)
           b2 == b \o c
           di == [d.index EXCEPT ![Hash(q)] = q]
           e == After(d, q, Len(c))
           E == [k \in 1..1 |-> e]
<1>4. c \in Seq(Int) /\ Len(c) \in Nat
  BY PixelChunkIsShort, LenProperties
<1>5. Means(b2, d, c, q)
  <2>1. Holds(b2, d.pos, c)
    BY <1>3, <1>4, AppendedHolds
  <2>2. ei[Hash(q)] = q => d.index[Hash(q)] = q
    BY <1>3, AgreeMeans
  <2>3. c = PixelChunk(q, d.px, ei) /\ d.px \in Pixels
    BY <1>3
  <2> HIDE DEF c, b2
  <2>4. QED
    BY <1>3, <2>1, <2>2, <2>3, ChunkMeans
<1> HIDE DEF c
<1>6. Len(b2) = Len(b) + Len(c) /\ Len(b) \in Nat
  BY <1>4, Joined
<1> HIDE DEF b2
<1>7. Decodes(b2, d, e)
  <2>1. PICK n \in Nat : n = Len(c)
    BY <1>4
  <2>2. Len(b2) = d.pos + n
    BY <1>3, <1>6, <2>1
  <2>3. Decodes(b2, d, After(d, q, n))
    BY <1>3, <1>5, <2>1, <2>2, MeansDecodes
  <2>4. QED
    BY <2>1, <2>3
<1>8. Agree([ei EXCEPT ![Hash(q)] = q], di) /\ di \in Tables
  BY <1>3, AgreePixel
<1> HIDE DEF di
<1>9. e \in Decoders /\ e.px = q /\ e.run = 0 /\ e.index = di /\ e.pos = Len(b2)
  <2>1. e = [px |-> q, run |-> 0, index |-> di, pos |-> d.pos + Len(c)]
    BY DEF After, di
  <2>2. d.pos + Len(c) = Len(b2) /\ d.pos + Len(c) \in Nat
    BY <1>3, <1>4, <1>6
  <2> HIDE DEF e
  <2>3. QED
    BY <1>8, <2>1, <2>2 DEF Decoders
<1> HIDE DEF e
<1>10. GoesOn(b2, px, m, D[m], 1, E)
  <2>1. E \in [1..1 -> Decoders] /\ E[1] = e
    BY <1>9
  <2>2. \A k \in 2..1 : Decodes(b2, E[k - 1], E[k])
    OBVIOUS
  <2>3. \A k \in 1..1 : E[k].px = px[m + k]
    <3>1. \A k \in 1..1 : k = 1
      OBVIOUS
    <3>2. E[1].px = px[m + 1]
      BY <1>9, <2>1
    <3> HIDE DEF E
    <3>3. QED
      BY <3>1, <3>2
  <2>4. QED
    BY <1>2, <1>7, <2>1, <2>2, <2>3 DEF GoesOn
<1>11. E[1] = e
  OBVIOUS
<1> HIDE DEF E
<1>12. PICK F : Trace(b2, px, m + 1, F) /\ F[m + 1] = E[1]
  <2>1. Trace(b, px, m, D) /\ GoesOn(b \o c, px, m, D[m], 1, E) /\ 1 \in Nat /\ 1 > 0
    BY <1>1, <1>10 DEF b2
  <2>2. Reaches(b \o c, px, m + 1, E[1])
    BY <1>4, <2>1, TraceGoesOn
  <2>3. QED
    BY <2>2, Zenon DEF Reaches, b2
<1>13. F[m + 1].run = 0 /\ F[m + 1].pos = Len(b2) /\ F[m + 1].px = q /\ Agree([ei EXCEPT ![Hash(q)] = q], F[m + 1].index)
  BY <1>8, <1>9, <1>11, <1>12
<1>14. QED
  BY <1>12, <1>13, Zenon DEF Written, b2, c

-----------------------------------------------------------------------------
(* The header                                                                *)

(* The side of a picture, digit by digit.                                    *)
LEMMA SideDigits ==
  ASSUME NEW w \in 1..MaxSide
  PROVE  /\ Put32(w)[1] = 0 /\ Put32(w)[2] = 0
         /\ Put32(w)[3] \in Nat /\ Put32(w)[4] \in Nat /\ Put32(w)[3] * 256 + Put32(w)[4] = w
<1>1. w \in Nat /\ w <= 20000
  BY SMT DEF MaxSide
<1>2. w \div 16777216 = 0 /\ w \div 65536 = 0 /\ 0 % 256 = 0
  BY <1>1, SMT
<1>3. PICK x \in Nat : x = w \div 256 /\ x \in 0..255 /\ x % 256 = x
  BY <1>1, SMT
<1>4. x * 256 <= w /\ w < x * 256 + 256
  BY <1>1, <1>3, SMT
<1>5. PICK r \in 0..255 : w = x * 256 + r
  BY <1>1, <1>4, SMT
<1>6. w % 256 = r
  BY <1>5, SMT
<1>7. Put32(w) = <<(w \div 16777216) % 256, (w \div 65536) % 256, (w \div 256) % 256, w % 256>>
  BY SMT DEF Put32
<1>8. Put32(w) = <<0, 0, x, r>>
  BY <1>2, <1>3, <1>6, <1>7, SMT
<1>9. QED
  BY <1>5, <1>8

(* It is read back from where it was written.                                *)
LEMMA SideBack ==
  ASSUME NEW w \in 1..MaxSide, NEW b, NEW p \in Nat, Holds(b, p, Put32(w))
  PROVE  Get32(b, p + 1) = w
<1>1. Len(Put32(w)) = 4
  BY SMT DEF Put32
<1>2. /\ b[p + 1] = Put32(w)[1] /\ b[p + 2] = Put32(w)[2]
      /\ b[p + 3] = Put32(w)[3] /\ b[p + 4] = Put32(w)[4]
  BY <1>1 DEF Holds
<1>3. p + 1 + 1 = p + 2 /\ p + 1 + 2 = p + 3 /\ p + 1 + 3 = p + 4
  OBVIOUS
<1>4. PICK x \in Nat, r \in Nat :
        b[p + 1] = 0 /\ b[p + 1 + 1] = 0 /\ b[p + 1 + 2] = x /\ b[p + 1 + 3] = r /\ x * 256 + r = w
  BY <1>2, <1>3, SideDigits
<1>5. Get32(b, p + 1) = 0 * 16777216 + 0 * 65536 + x * 256 + r
  BY <1>4, SMT DEF Get32
<1>6. QED
  BY <1>4, <1>5, SMT

(* What is appended leaves what was there.                                   *)
LEMMA AppendedKeeps ==
  ASSUME NEW b \in Seq(Int), NEW c \in Seq(Int)
  PROVE  /\ \A k \in 1..Len(b) : (b \o c)[k] = b[k]
         /\ \A p \in Nat : p > 0 /\ p + 3 <= Len(b) => Get32(b \o c, p) = Get32(b, p)
<1>1. /\ Len(b) \in Nat /\ Len(c) \in Nat
      /\ \A k \in 1..Len(b) + Len(c) : (b \o c)[k] = IF k <= Len(b) THEN b[k] ELSE c[k - Len(b)]
  BY ConcatProperties, LenProperties
<1> DEFINE b2 == b \o c
<1> HIDE DEF b2
<1>2. \A k \in 1..Len(b) : b2[k] = b[k]
  BY <1>1 DEF b2
<1>3. ASSUME NEW p \in Nat, p > 0, p + 3 <= Len(b) PROVE Get32(b2, p) = Get32(b, p)
  <2>1. b2[p] = b[p] /\ b2[p + 1] = b[p + 1] /\ b2[p + 2] = b[p + 2] /\ b2[p + 3] = b[p + 3]
    BY <1>1, <1>2, <1>3
  <2>2. QED
    BY <2>1, SMT DEF Get32
<1>4. QED
  BY <1>2, <1>3 DEF b2

(* What the decoder reads of the header is what the encoder wrote.           *)
LEMMA HeaderBack ==
  ASSUME NEW w \in 1..MaxSide, NEW h \in 1..MaxSide
  PROVE  Get32(Header(w, h), 5) = w /\ Get32(Header(w, h), 9) = h
<1>1. w \in Int /\ h \in Int
  OBVIOUS
<1>2. \A v \in Int : Put32(v) \in Seq(Int) /\ Len(Put32(v)) = 4
  BY SMT DEF Put32
<1>3. Magic \in Seq(Int) /\ Len(Magic) = 4 /\ <<4, 0>> \in Seq(Int)
  BY DEF Magic
<1> DEFINE A == Magic \o Put32(w)
           B == A \o Put32(h)
<1> HIDE DEF Magic
<1>4. A \in Seq(Int) /\ Len(A) = 8 /\ Holds(A, 4, Put32(w))
  <2>1. A \in Seq(Int) /\ Len(A) = Len(Magic) + Len(Put32(w)) /\ Holds(A, Len(Magic), Put32(w))
    BY <1>1, <1>2, <1>3, Joined, AppendedHolds, Zenon
  <2>2. QED
    BY <1>1, <1>2, <1>3, <2>1
<1>5. Get32(A, 5) = w
  <2>1. 4 + 1 = 5
    OBVIOUS
  <2>2. Get32(A, 4 + 1) = w
    BY <1>4, SideBack
  <2>3. QED
    BY <2>1, <2>2
<1> HIDE DEF A
<1>6. B \in Seq(Int) /\ Len(B) = 12 /\ Holds(B, 8, Put32(h)) /\ Get32(B, 5) = w
  <2>1. /\ B \in Seq(Int) /\ Len(B) = Len(A) + Len(Put32(h)) /\ Holds(B, Len(A), Put32(h))
        /\ \A p \in Nat : p > 0 /\ p + 3 <= Len(A) => Get32(B, p) = Get32(A, p)
    BY <1>1, <1>2, <1>4, Joined, AppendedHolds, AppendedKeeps, Zenon
  <2>2. QED
    <3>1. Len(Put32(h)) = 4 /\ 5 + 3 <= Len(A) /\ 5 \in Nat /\ 5 > 0
      BY <1>1, <1>2, <1>4
    <3>2. Get32(B, 5) = Get32(A, 5)
      BY <2>1, <3>1
    <3>3. QED
      BY <1>4, <1>5, <2>1, <3>1, <3>2
<1>7. Get32(B, 9) = h
  <2>1. 8 + 1 = 9
    OBVIOUS
  <2>2. Get32(B, 8 + 1) = h
    BY <1>6, SideBack
  <2>3. QED
    BY <2>1, <2>2
<1> HIDE DEF B
<1>8. \A p \in Nat : p > 0 /\ p + 3 <= Len(B) => Get32(B \o <<4, 0>>, p) = Get32(B, p)
  BY <1>3, <1>6, AppendedKeeps, Zenon
<1>9. Header(w, h) = B \o <<4, 0>>
  BY Zenon DEF Header, A, B
<1>10. QED
  BY <1>6, <1>7, <1>8, <1>9

(* It holds at the start.                                                     *)
LEMMA InitInv == Init => Inv
<1>. SUFFICES ASSUME Init PROVE Inv
  OBVIOUS
<1>1. pic \in Pictures /\ pic.w \in Int /\ pic.h \in Int
  BY PictureIsPixels DEF Init
<1>2. out \in Seq(Int) /\ Len(out) = 14
  BY <1>1, HeaderIsShort DEF Init
<1>3. enc \in Encoders /\ enc.run = 0
  <2>1. Start \in Pixels /\ Blank \in Pixels
    BY DEF Start, Blank, Pixels, Bytes
  <2>2. [h \in 0..63 |-> Blank] \in Tables
    BY <2>1 DEF Tables
  <2>. QED BY <2>1, <2>2 DEF Init, Encoders
<1>4. i \in 0..Len(pic.px)
  BY <1>1, PictureIsPixels DEF Init
<1>. QED BY <1>1, <1>2, <1>3, <1>4 DEF Init, Inv, Types, Room, Reading, Pending

(* A pixel of a run writes one byte at most, and then no run is pending.     *)
LEMMA SameKeeps == ASSUME Inv, EncodeSame PROVE Inv'
<1>. USE DEF Inv, Types
<1>1. i' = i + 1 /\ i' \in 0..Len(pic.px)
  BY PictureIsPixels DEF EncodeSame
<1>. DEFINE run == enc.run + 1
            flush == run = 62 \/ i + 1 = Len(pic.px)
<1>2. run \in Nat /\ run > 0 /\ enc.run \in Nat
  BY DEF Encoders
<1>3. enc' = [enc EXCEPT !.run = IF flush THEN 0 ELSE run]
      /\ out' = IF flush THEN out \o RunChunk(run) ELSE out
  BY DEF EncodeSame
<1>. HIDE DEF flush, run
<1>4. enc' \in Encoders /\ enc'.run = IF flush THEN 0 ELSE run
  BY <1>2, <1>3 DEF Encoders
<1>5. out' \in Seq(Int) /\ Len(out) \in Nat /\ Len(out') = IF flush THEN Len(out) + 1 ELSE Len(out)
  <2>1. RunChunk(run) \in Seq(Int) /\ Len(RunChunk(run)) = 1
    BY <1>2, RunChunkIsShort
  <2>2. /\ out \o RunChunk(run) \in Seq(Int) /\ Len(out) \in Nat
        /\ Len(out \o RunChunk(run)) = Len(out) + Len(RunChunk(run))
    BY <2>1, Joined, Zenon
  <2>. QED BY <1>3, <2>1, <2>2
<1>6. Room'
  <2>1. pc = "encode" /\ pc' = "encode" /\ Len(out) + Pending <= 14 + 5 * i /\ i \in Int
    BY DEF EncodeSame, Room
  <2>2. Pending \in Nat /\ Pending' = IF flush THEN 0 ELSE 1
    BY <1>2, <1>4 DEF Pending
  <2>3. Len(out') + Pending' <= Len(out) + 1
    BY <1>5, <2>2
  <2>. QED BY <1>1, <1>5, <2>1, <2>2, <2>3 DEF Room
<1>. QED BY <1>1, <1>4, <1>5, <1>6 DEF EncodeSame, Reading

(* Another pixel writes the pending run and a chunk of its own.              *)
LEMMA OtherKeeps == ASSUME Inv, EncodeOther PROVE Inv'
<1>. USE DEF Inv, Types
<1>1. i' = i + 1 /\ i' \in 0..Len(pic.px) /\ i + 1 \in 1..Len(pic.px)
  BY PictureIsPixels DEF EncodeOther
<1>. DEFINE px == pic.px[i + 1]
            chunk == PixelChunk(px, enc.px, enc.index)
<1>2. px \in Pixels /\ Hash(px) \in 0..63
  <2>1. px \in Pixels
    BY <1>1, PictureIsPixels, ElementOfSeq
  <2>. QED BY <2>1, HashIsSlot
<1>3. enc' = [px |-> px, run |-> 0, index |-> [enc.index EXCEPT ![Hash(px)] = px]]
      /\ out' = (out \o RunChunk(enc.run)) \o chunk
  BY DEF EncodeOther
<1>4. chunk \in Seq(Int) /\ Len(chunk) <= 5 /\ Len(chunk) \in Nat
  <2>1. enc.px \in Pixels /\ enc.index \in Tables
    BY DEF Encoders
  <2>2. chunk \in Seq(Int) /\ Len(chunk) <= 5
    BY <1>2, <2>1, PixelChunkIsShort
  <2>. QED BY <2>2, LenProperties
<1>. HIDE DEF px, chunk
<1>5. enc' \in Encoders /\ enc'.run = 0
  <2>1. [enc.index EXCEPT ![Hash(px)] = px] \in Tables
    BY <1>2 DEF Tables, Encoders
  <2>. QED BY <1>2, <1>3, <2>1 DEF Encoders
<1>6. out' \in Seq(Int) /\ Len(out') = Len(out) + Pending + Len(chunk) /\ Len(out) \in Nat
  <2>1. RunChunk(enc.run) \in Seq(Int) /\ Len(RunChunk(enc.run)) = Pending
    BY RunChunkIsShort DEF Encoders, Pending
  <2>2. /\ out \o RunChunk(enc.run) \in Seq(Int) /\ Len(out) \in Nat
        /\ Len(out \o RunChunk(enc.run)) = Len(out) + Len(RunChunk(enc.run))
    BY <2>1, Joined, Zenon
  <2>3. out' \in Seq(Int) /\ Len(out') = Len(out \o RunChunk(enc.run)) + Len(chunk)
    BY <1>3, <1>4, <2>2, Joined, Zenon
  <2>. QED BY <2>1, <2>2, <2>3
<1>7. Room'
  BY <1>1, <1>4, <1>5, <1>6 DEF EncodeOther, Room, Pending
<1>. QED BY <1>1, <1>5, <1>6, <1>7 DEF EncodeOther, Reading

(* The end marker has its eight bytes left.                                  *)
LEMMA EndKeeps == ASSUME Inv, EncodeEnd PROVE Inv'
<1>. USE DEF Inv, Types
<1>1. EndMarker \in Seq(Int) /\ Len(EndMarker) = 8
  BY DEF EndMarker
<1>2. out' \in Seq(Int) /\ Len(out') = Len(out) + 8 /\ Len(out) \in Nat
  BY <1>1, Joined, LenProperties DEF EncodeEnd
<1>3. cap = 5 * Len(pic.px) + 22 /\ Len(pic.px) \in Nat
  BY PictureIsPixels
<1>4. Room'
  BY <1>2, <1>3 DEF EncodeEnd, Room, Pending
<1>. QED BY <1>2, <1>4 DEF EncodeEnd, Reading

(* The decoder writes nothing of the encoder's; each of its steps that goes *)
(* on has looked whether what it takes is there.                            *)
LEMMA DecoderKeeps ==
  ASSUME Inv,
         DecodeOpen \/ DecodeRun \/ DecodeChunk \/ DecodeBroken \/ DecodeFill \/ DecodeEnd
  PROVE  Inv'
<1>. DEFINE Encoded == <<pic, i, enc, out, cap, len>>
<1>1. UNCHANGED Encoded /\ pc # "encode" /\ pc' \in {"decode", "done"} /\ DOMAIN dec' = DOMAIN dec
  BY DEF DecodeOpen, Refuse, DecodeRun, DecodeChunk, DecodeBroken, DecodeFill, DecodeEnd,
         Inv, Types, Starve, Show, AfterChunk
<1>2. Types' /\ Room'
  BY <1>1 DEF Inv, Types, Room, Pending
<1>3. Reading'
  <2>. USE DEF Inv, Types, Reading, Starve, Show, Refuse
  <2>1. CASE DecodeOpen
    <3>1. dec.pos = 14 /\ dec' = dec /\ len' = len /\ (pc' = "decode" \/ pc' = "done")
      BY <2>1 DEF DecodeOpen
    <3>2. pc' = "decode" => ~(len < 14 + 8)
      BY <2>1 DEF DecodeOpen
    <3>. QED BY <3>1, <3>2
  <2>2. CASE DecodeRun
    BY <2>2 DEF DecodeRun
  <2>3. CASE DecodeChunk
    BY <2>3 DEF DecodeChunk, AfterChunk
  <2>4. CASE DecodeBroken \/ DecodeFill \/ DecodeEnd
    BY <2>4 DEF DecodeBroken, DecodeFill, DecodeEnd
  <2>. QED BY <2>1, <2>2, <2>3, <2>4
<1>. QED BY <1>2, <1>3 DEF Inv

(* The invariant is inductive.                                               *)
LEMMA NextInv == Inv /\ [Next]_vars => Inv'
<1>. SUFFICES ASSUME Inv, [Next]_vars PROVE Inv'
  OBVIOUS
<1>1. CASE EncodeSame
  BY <1>1, SameKeeps
<1>2. CASE EncodeOther
  BY <1>2, OtherKeeps
<1>3. CASE EncodeEnd
  BY <1>3, EndKeeps
<1>4. CASE DecodeOpen \/ DecodeRun \/ DecodeChunk \/ DecodeBroken \/ DecodeFill \/ DecodeEnd
  BY <1>4, DecoderKeeps
<1>5. CASE UNCHANGED vars
  BY <1>5 DEF vars, Inv, Types, Room, Reading, Pending
<1>. QED BY <1>1, <1>2, <1>3, <1>4, <1>5 DEF Next, Finished

(* What the invariant says of the buffers.                                   *)
LEMMA InvFits == Inv => StreamFits
<1>. SUFFICES ASSUME Inv PROVE StreamFits
  OBVIOUS
<1>1. cap = 5 * Len(pic.px) + 22 /\ Len(pic.px) \in Nat
  BY PictureIsPixels DEF Inv, Types
<1>2. Len(out) \in Nat /\ Len(EndMarker) = 8
  BY LenProperties DEF Inv, Types, EndMarker
<1>3. i \in 0..Len(pic.px) /\ Pending \in Nat /\ Pending = IF enc.run > 0 THEN 1 ELSE 0
  BY DEF Inv, Types, Pending
<1>4. CASE pc = "encode"
  BY <1>1, <1>2, <1>3, <1>4 DEF Inv, Room, StreamFits
<1>5. CASE pc # "encode"
  BY <1>1, <1>2, <1>3, <1>5 DEF Inv, Room, Reading, StreamFits
<1>. QED BY <1>4, <1>5

(* For every picture the stream stays in the encoder's allocation, with a   *)
(* run that is pending and the end marker to come, and the decoder stays in *)
(* what it was given of it (StreamFits of img/qoi.c).                       *)
THEOREM EncoderFits == Spec => []StreamFits
<1>. QED BY InitInv, NextInv, InvFits, PTL DEF Spec

-----------------------------------------------------------------------------
(* The invariant of the whole way                                            *)

(* What is written tells the pixels taken but for those of the pending run,  *)
(* which ends the picture nowhere: the last pixel is written out.            *)
Taken ==
  pc = "encode" =>
    /\ enc.run \in 0..61 /\ enc.run <= i
    /\ i = Len(pic.px) => enc.run = 0
    /\ \A k \in 1..enc.run : pic.px[i - enc.run + k] = enc.px
    /\ Entered(enc.index, enc.px)
    /\ Written(out, pic.px, i - enc.run, enc.px, enc.index)

(* The header of stream b gives the sides of picture p.                      *)
Says(b, p) == Len(b) >= 14 /\ Get32(b, 5) = p.w /\ Get32(b, 9) = p.h
Headed == Says(out, pic)

Idle == pc \in {"encode", "open"} => dec = Fresh /\ drawn = 0 /\ short = 0

(* The finished stream tells the picture, and the decoder is where reading   *)
(* it brings one, until its data ends.                                       *)
Told ==
  pc # "encode" =>
    /\ len <= Len(out)
    /\ \E D : Trace(out, pic.px, Len(pic.px), D) /\ (short = 0 => dec = D[drawn])

Surface == pc = "decode" => shown = [k \in 1..Len(pic.px) |-> shown[k]]

Drawn ==
  /\ drawn \in 0..Len(pic.px) /\ short \in 0..drawn + 1
  /\ short # 0 => len < Len(out)
  /\ \A k \in 1..drawn : (short = 0 \/ k < short) => shown[k] = pic.px[k]
  /\ pc # "done" => result = "none"
  /\ result = "ok" /\ short = 0 => drawn = Len(pic.px)

Kept == Taken /\ Headed /\ Idle /\ Told /\ Surface /\ Drawn

(* The header alone tells the first no pixels.                               *)
LEMMA InitKept == Init /\ Inv => Kept
<1> SUFFICES ASSUME Init, Inv PROVE Kept
  OBVIOUS
<1>1. pic \in Pictures /\ pic.w \in 1..MaxSide /\ pic.h \in 1..MaxSide /\ Len(pic.px) \in Nat
      /\ pic.w \in Int /\ pic.h \in Int
  <2>1. pic \in Pictures
    BY DEF Init
  <2>2. QED
    BY <2>1, PictureIsPixels, PicturesAssumption
<1>2. out = Header(pic.w, pic.h) /\ pc = "encode" /\ i = 0
      /\ enc = [px |-> Start, run |-> 0, index |-> [h \in 0..63 |-> Blank]]
      /\ dec = Fresh /\ drawn = 0 /\ short = 0 /\ result = "none"
  BY DEF Init, Fresh
<1>3. out \in Seq(Int) /\ Len(out) = 14
  BY <1>1, <1>2, HeaderIsShort
<1>4. Headed
  <2>1. Get32(Header(pic.w, pic.h), 5) = pic.w /\ Get32(Header(pic.w, pic.h), 9) = pic.h
    BY <1>1, HeaderBack
  <2>2. QED
    BY <1>2, <1>3, <2>1 DEF Headed, Says
<1> DEFINE t == [h \in 0..63 |-> Blank]
           D == [k \in 0..0 |-> Fresh]
<1>5. t \in Tables /\ Start \in Pixels /\ t[FirstSlot] = Blank
  <2>1. Start \in Pixels /\ Blank \in Pixels
    BY DEF Start, Blank, Pixels, Bytes
  <2>2. QED
    BY <2>1, FirstSlots DEF Tables
<1>6. Fresh \in Decoders /\ Fresh.run = 0 /\ Fresh.pos = 14 /\ Fresh.px = Start /\ Fresh.index = t
  BY <1>5 DEF Fresh, Decoders
<1> HIDE DEF t
<1>7. Trace(out, pic.px, 0, D) /\ D[0] = Fresh
  <2>1. D \in [0..0 -> Decoders] /\ D[0] = Fresh
    BY <1>6
  <2>2. \A k \in 1..0 : FALSE
    OBVIOUS
  <2> HIDE DEF D
  <2>3. QED
    BY <2>1, <2>2 DEF Trace
<1> HIDE DEF D
<1>8. Agree(t, t) /\ Entered(t, Start)
  BY <1>5, FirstSlots DEF Agree, Entered
<1>9. Written(out, pic.px, 0, Start, t)
  BY <1>3, <1>6, <1>7, <1>8 DEF Written
<1>10. enc.run = 0 /\ enc.px = Start /\ enc.index = t /\ i - enc.run = 0
  BY <1>2 DEF t
<1>11. Taken
  <2>1. \A k \in 1..0 : FALSE
    OBVIOUS
  <2>2. QED
    BY <1>2, <1>8, <1>9, <1>10, <2>1 DEF Taken
<1>12. Idle /\ Told /\ Surface
  BY <1>2 DEF Idle, Told, Surface
<1>13. Drawn
  BY <1>1, <1>2 DEF Drawn
<1>14. QED
  BY <1>4, <1>11, <1>12, <1>13 DEF Kept

(* The header stays in front of what is appended.                            *)
LEMMA SaysMore ==
  ASSUME NEW b \in Seq(Int), NEW c \in Seq(Int), NEW p, Says(b, p)
  PROVE  Says(b \o c, p)
<1>1. Len(b \o c) = Len(b) + Len(c) /\ Len(b) \in Nat /\ Len(c) \in Nat
  BY Joined
<1>2. Get32(b \o c, 5) = Get32(b, 5) /\ Get32(b \o c, 9) = Get32(b, 9)
  <2>1. 5 + 3 <= Len(b) /\ 9 + 3 <= Len(b) /\ 5 \in Nat /\ 9 \in Nat /\ 5 > 0 /\ 9 > 0
    BY <1>1 DEF Says
  <2>2. QED
    BY <2>1, AppendedKeeps, Zenon
<1>3. QED
  BY <1>1, <1>2 DEF Says

(* The encoder leaves the decoder alone.                                     *)
LEMMA EncoderIdles ==
  ASSUME Kept, pc = "encode", pc' = "encode", UNCHANGED <<pic, len, dec, shown, drawn, short, result>>
  PROVE  Idle' /\ Told' /\ Surface' /\ Drawn'
<1>1. drawn = 0 /\ short = 0 /\ result = "none" /\ Len(pic.px) = Len(pic.px)
  BY DEF Kept, Idle, Drawn
<1>2. Drawn'
  BY <1>1 DEF Kept, Drawn
<1>3. QED
  BY <1>2 DEF Kept, Idle, Told, Surface

(* A pixel of a run is pending, or the run is written.                       *)
LEMMA SameKept == ASSUME Inv, Kept, EncodeSame PROVE Kept'
<1>1. /\ pc = "encode" /\ pc' = "encode" /\ i' = i + 1 /\ i < Len(pic.px) /\ pic.px[i + 1] = enc.px
      /\ UNCHANGED <<pic, len, dec, shown, drawn, short, result>>
  BY DEF EncodeSame
<1>2. enc.px \in Pixels /\ enc.index \in Tables /\ out \in Seq(Int) /\ i \in Nat /\ Len(pic.px) \in Nat
  BY PictureIsPixels DEF Inv, Types, Encoders
<1>3. /\ enc.run \in 0..61 /\ enc.run <= i
      /\ \A k \in 1..enc.run : pic.px[i - enc.run + k] = enc.px
      /\ Entered(enc.index, enc.px)
      /\ Written(out, pic.px, i - enc.run, enc.px, enc.index)
  BY <1>1 DEF Kept, Taken
<1> DEFINE run == enc.run + 1
           flush == run = 62 \/ i + 1 = Len(pic.px)
<1>4. /\ out' = IF flush THEN out \o RunChunk(run) ELSE out
      /\ enc' = [enc EXCEPT !.run = IF flush THEN 0 ELSE run]
  BY DEF EncodeSame
<1>5. PICK e \in 0..61, j \in Nat, m \in Nat : e = enc.run /\ j = i /\ m = j - e
  <2>1. PICK e \in 0..61, j \in Nat : e = enc.run /\ j = i
    BY <1>2, <1>3
  <2>2. e <= j
    BY <1>3, <2>1
  <2>3. j - e \in Nat
    BY <2>2
  <2>4. QED
    BY <2>1, <2>3
<1>6. run \in 1..62 /\ m + run = i + 1 /\ (~flush => run \in 0..61 /\ i + 1 # Len(pic.px))
  <2>1. e + 1 \in 1..62 /\ m + (e + 1) = j + 1 /\ (e + 1 # 62 => e + 1 \in 0..61)
    BY <1>5
  <2>2. QED
    BY <1>5, <2>1
<1>7. ASSUME NEW k \in 1..run PROVE pic.px[m + k] = enc.px
  <2>1. k \in 1..e \/ m + k = j + 1
    BY <1>5, <1>7
  <2>2. i - enc.run = m
    BY <1>5
  <2>3. QED
    BY <1>1, <1>3, <1>5, <2>1, <2>2
<1> HIDE DEF flush, run
<1>8. enc'.px = enc.px /\ enc'.index = enc.index /\ enc'.run = IF flush THEN 0 ELSE run
  BY <1>4 DEF Inv, Types, Encoders
<1>9. CASE flush
  <2>1. Written(out \o RunChunk(run), pic.px, m + run, enc.px, enc.index)
    BY <1>2, <1>3, <1>5, <1>6, <1>7, RunWritten
  <2>2. out' = out \o RunChunk(run) /\ enc'.run = 0 /\ i' - enc'.run = m + run
    BY <1>1, <1>2, <1>4, <1>6, <1>8, <1>9
  <2>3. Headed'
    <3>1. RunChunk(run) \in Seq(Int)
      BY <1>6, RunChunkIsShort
    <3>2. Says(out \o RunChunk(run), pic)
      BY <1>2, <3>1, SaysMore DEF Kept, Headed
    <3>3. QED
      BY <1>1, <2>2, <3>2 DEF Headed
  <2>4. Taken'
    <3>1. \A k \in 1..enc'.run : FALSE
      BY <2>2
    <3>2. enc'.run \in 0..61 /\ enc'.run <= i'
      BY <1>1, <1>2, <2>2
    <3>3. Written(out', pic'.px, i' - enc'.run, enc'.px, enc'.index) /\ Entered(enc'.index, enc'.px)
      BY <1>1, <1>3, <1>8, <2>1, <2>2
    <3>4. QED
      BY <2>2, <3>1, <3>2, <3>3 DEF Taken
  <2>5. QED
    BY <1>1, <2>3, <2>4, EncoderIdles DEF Kept
<1>10. CASE ~flush
  <2>1. out' = out /\ enc'.run = run /\ i' - enc'.run = m /\ run \in 0..61 /\ run <= i' /\ i' # Len(pic.px)
    <3>1. out' = out /\ enc'.run = run
      BY <1>4, <1>8, <1>10
    <3>2. PICK r \in 0..61 : r = run
      BY <1>6, <1>10
    <3>3. j + 1 - r = m /\ r <= j + 1
      BY <1>5, <1>6, <3>2
    <3>4. i' = j + 1 /\ enc'.run = r
      BY <1>1, <1>5, <3>1, <3>2
    <3>5. i' - enc'.run = m /\ r <= i'
      BY <3>3, <3>4
    <3>6. i' # Len(pic.px)
      BY <1>1, <1>6, <1>10
    <3>7. QED
      BY <3>1, <3>2, <3>5, <3>6, Zenon
  <2>2. Headed'
    BY <1>1, <2>1 DEF Kept, Headed
  <2>3. Taken'
    <3>1. Written(out', pic'.px, i' - enc'.run, enc'.px, enc'.index) /\ Entered(enc'.index, enc'.px)
      BY <1>1, <1>3, <1>5, <1>8, <2>1
    <3>2. \A k \in 1..enc'.run : pic'.px[i' - enc'.run + k] = enc'.px
      BY <1>1, <1>7, <1>8, <2>1
    <3>3. QED
      BY <1>1, <2>1, <3>1, <3>2 DEF Taken
  <2>4. QED
    BY <1>1, <2>2, <2>3, EncoderIdles DEF Kept
<1>11. QED
  BY <1>9, <1>10

(* Another pixel: the run before it is written, and its chunk.               *)
LEMMA OtherKept == ASSUME Inv, Kept, EncodeOther PROVE Kept'
<1> DEFINE q == pic.px[i + 1]
           c == PixelChunk(q, enc.px, enc.index)
           b == out \o RunChunk(enc.run)
<1>1. /\ pc = "encode" /\ pc' = "encode" /\ i' = i + 1 /\ i < Len(pic.px)
      /\ UNCHANGED <<pic, len, dec, shown, drawn, short, result>>
      /\ out' = b \o c
      /\ enc' = [px |-> q, run |-> 0, index |-> [enc.index EXCEPT ![Hash(q)] = q]]
  BY DEF EncodeOther
<1>2. /\ enc.px \in Pixels /\ enc.index \in Tables /\ enc.run \in Nat /\ out \in Seq(Int) /\ i \in Nat
      /\ Len(pic.px) \in Nat /\ pic.px \in Seq(Pixels)
  BY PictureIsPixels DEF Inv, Types, Encoders
<1>3. /\ enc.run \in 0..61 /\ enc.run <= i
      /\ \A k \in 1..enc.run : pic.px[i - enc.run + k] = enc.px
      /\ Entered(enc.index, enc.px)
      /\ Written(out, pic.px, i - enc.run, enc.px, enc.index)
  BY <1>1 DEF Kept, Taken
<1>4. q \in Pixels
  <2>1. i + 1 \in 1..Len(pic.px)
    BY <1>1, <1>2
  <2>2. QED
    BY <1>2, <2>1, ElementOfSeq
<1>5. RunChunk(enc.run) \in Seq(Int)
  BY <1>2, RunChunkIsShort
<1>6. b \in Seq(Int) /\ Written(b, pic.px, i, enc.px, enc.index)
  <2>1. CASE enc.run = 0
    <3>1. b = out
      <4>1. RunChunk(enc.run) = <<>>
        BY <2>1 DEF RunChunk
      <4>2. QED
        BY <1>2, <4>1, ConcatEmptySeq
    <3>2. i - enc.run = i
      BY <1>2, <2>1
    <3> HIDE DEF b
    <3>3. QED
      BY <1>2, <1>3, <3>1, <3>2
  <2>2. CASE enc.run # 0
    <3>1. PICK m \in Nat : m = i - enc.run
      BY <1>2, <1>3
    <3>2. PICK r \in 1..62 : r = enc.run
      BY <1>3, <2>2
    <3>3. m + r = i
      BY <1>2, <3>1, <3>2
    <3>4. Written(out \o RunChunk(r), pic.px, m + r, enc.px, enc.index)
      <4>1. \A k \in 1..r : pic.px[m + k] = enc.px
        BY <1>3, <3>1, <3>2
      <4>2. QED
        BY <1>2, <1>3, <3>1, <4>1, RunWritten
    <3>5. QED
      BY <1>2, <1>5, <3>2, <3>3, <3>4, Joined
  <2>3. QED
    BY <2>1, <2>2
<1> HIDE DEF b
<1>7. Written(b \o c, pic.px, i + 1, q, [enc.index EXCEPT ![Hash(q)] = q])
  BY <1>2, <1>4, <1>6, PixelWritten
<1>8. c \in Seq(Int)
  BY <1>2, <1>4, PixelChunkIsShort
<1>9. Entered([enc.index EXCEPT ![Hash(q)] = q], q)
  <2>1. Agree(enc.index, enc.index)
    BY DEF Agree
  <2>2. QED
    BY <1>2, <1>4, <2>1, AgreePixel
<1> HIDE DEF c, q
<1>10. Taken'
  <2>1. enc'.run = 0 /\ enc'.px = q /\ enc'.index = [enc.index EXCEPT ![Hash(q)] = q] /\ i' - enc'.run = i + 1
    BY <1>1, <1>2
  <2>2. Written(out', pic'.px, i' - enc'.run, enc'.px, enc'.index) /\ Entered(enc'.index, enc'.px)
    BY <1>1, <1>7, <1>9, <2>1
  <2>3. (\A k \in 1..enc'.run : FALSE) /\ enc'.run \in 0..61 /\ enc'.run <= i'
    BY <1>1, <1>2, <2>1
  <2>4. QED
    BY <2>1, <2>2, <2>3 DEF Taken
<1>11. Headed'
  <2>1. Says(b, pic)
    BY <1>2, <1>5, SaysMore DEF Kept, Headed, b
  <2>2. Says(b \o c, pic)
    BY <1>6, <1>8, <2>1, SaysMore
  <2>3. QED
    BY <1>1, <2>2 DEF Headed
<1>12. QED
  BY <1>1, <1>10, <1>11, EncoderIdles DEF Kept

(* A finished stream with the end marker behind it.                          *)
LEMMA TraceMore ==
  ASSUME NEW b \in Seq(Int), NEW c \in Seq(Int), NEW px, NEW m \in Nat, NEW D, Trace(b, px, m, D)
  PROVE  Trace(b \o c, px, m, D)
<1>1. ASSUME NEW k \in 1..m PROVE Decodes(b \o c, D[k - 1], D[k])
  <2>1. k - 1 \in 0..m
    OBVIOUS
  <2>2. Decodes(b, D[k - 1], D[k]) /\ D[k - 1] \in Decoders
    BY <2>1 DEF Trace
  <2>3. QED
    BY <2>2, DecodesMore
<1>2. QED
  BY <1>1 DEF Trace

(* The end marker leaves what the stream tells.                            *)
LEMMA EndKept == ASSUME Inv, Kept, EncodeEnd PROVE Kept'
<1>1. /\ pc = "encode" /\ pc' = "open" /\ i = Len(pic.px) /\ out' = out \o EndMarker
      /\ UNCHANGED <<pic, i, enc, cap, dec, shown, drawn, short, result>>
  BY DEF EncodeEnd
<1>2. PICK lost \in 0..Len(out) + 8 : len' = Len(out) + 8 - lost
  BY DEF EncodeEnd
<1>3. out \in Seq(Int) /\ EndMarker \in Seq(Int) /\ Len(EndMarker) = 8 /\ Len(pic.px) \in Nat
  BY PictureIsPixels DEF Inv, Types, EndMarker
<1>4. Len(out') = Len(out) + 8 /\ Len(out) \in Nat
  BY <1>1, <1>3, Joined
<1>5. len' <= Len(out')
  BY <1>2, <1>4
<1>6. enc.run = 0 /\ Written(out, pic.px, i - enc.run, enc.px, enc.index) /\ i - enc.run = Len(pic.px)
  BY <1>1, <1>3 DEF Kept, Taken
<1>7. PICK D : Trace(out, pic.px, Len(pic.px), D)
  BY <1>6 DEF Written
<1> HIDE DEF EndMarker
<1>8. Trace(out', pic'.px, Len(pic'.px), D) /\ D[0] = Fresh
  <2>1. Trace(out \o EndMarker, pic.px, Len(pic.px), D)
    BY <1>3, <1>7, TraceMore
  <2>2. QED
    BY <1>1, <1>7, <2>1 DEF Trace
<1>9. drawn = 0 /\ short = 0 /\ dec = Fresh /\ result = "none"
  BY <1>1 DEF Kept, Idle, Drawn
<1>10. Told'
  <2>1. dec' = D[drawn']
    BY <1>1, <1>8, <1>9
  <2>2. QED
    BY <1>5, <1>8, <2>1 DEF Told
<1>11. Headed'
  <2>1. Says(out \o EndMarker, pic)
    BY <1>3, SaysMore DEF Kept, Headed
  <2>2. QED
    BY <1>1, <2>1 DEF Headed
<1>12. Drawn'
  BY <1>1, <1>3, <1>9 DEF Kept, Drawn
<1>13. Taken' /\ Idle' /\ Surface'
  BY <1>1, <1>9 DEF Taken, Idle, Surface
<1>14. QED
  BY <1>10, <1>11, <1>12, <1>13 DEF Kept

-----------------------------------------------------------------------------
(* The decoder                                                               *)

(* A surface of n pixels is n long.                                          *)
LEMMA SurfaceLen ==
  ASSUME NEW f, NEW n \in Nat, f = [k \in 1..n |-> f[k]]
  PROVE  Len(f) = n
<1> DEFINE S == {f[k] : k \in 1..n}
<1>1. f \in [1..n -> S] /\ DOMAIN f = 1..n
  OBVIOUS
<1> HIDE DEF S
<1>2. f \in Seq(S)
  BY <1>1, SeqDef
<1>3. QED
  BY <1>1, <1>2, LenProperties

(* What no step of the decoder touches.                                      *)
LEMMA DecoderFrame ==
  ASSUME Kept, pc # "encode", pc' \in {"decode", "done"}, UNCHANGED <<pic, i, enc, out, cap, len>>
  PROVE  Taken' /\ Headed' /\ Idle'
BY DEF Kept, Taken, Headed, Idle

(* A surface of the picture's size is allocated, or none.                  *)
LEMMA OpenKept == ASSUME Inv, Kept, DecodeOpen PROVE Kept'
<1>1. /\ pc = "open" /\ pc' \in {"decode", "done"}
      /\ UNCHANGED <<pic, i, enc, out, cap, len, dec, drawn, short>>
  BY DEF DecodeOpen, Refuse
<1>2. drawn = 0 /\ short = 0 /\ dec = Fresh /\ result = "none"
  BY <1>1 DEF Kept, Idle, Drawn
<1>3. pic.w \in Int /\ pic.h \in Int /\ Len(pic.px) \in Nat /\ Len(pic.px) = pic.w * pic.h
  BY PictureIsPixels, PicturesAssumption DEF Inv, Types
<1>4. Surface' /\ (pc' = "done" => result' = "error") /\ (pc' # "done" => result' = "none")
  <2>1. CASE Refuse
    BY <2>1 DEF Refuse, Surface
  <2>2. CASE ~Refuse
    <3>1. pc' = "decode" /\ result' = result /\ shown' = [k \in 1..Get32(out, 5) * Get32(out, 9) |-> Blank]
      BY <2>2, Zenon DEF DecodeOpen
    <3>2. Get32(out, 5) * Get32(out, 9) = Len(pic.px)
      BY <1>3 DEF Kept, Headed, Says
    <3>3. shown' = [k \in 1..Len(pic'.px) |-> Blank]
      BY <1>1, <3>1, <3>2
    <3>4. QED
      BY <1>2, <3>1, <3>3 DEF Surface
  <2>3. QED
    BY <2>1, <2>2
<1>5. Told'
  BY <1>1 DEF Kept, Told
<1>6. Drawn'
  BY <1>1, <1>2, <1>3, <1>4 DEF Drawn
<1>7. QED
  BY <1>1, <1>4, <1>5, <1>6, DecoderFrame DEF Kept

(* One more pixel, the one that reading the stream brings, or any other      *)
(* behind the place where the data ended.                                    *)
LEMMA ShowKeeps ==
  ASSUME Inv, Kept, pc = "decode", pc' = "decode", UNCHANGED <<pic, i, enc, out, cap, len, result>>,
         drawn < Len(shown), NEW c, Show(c), short' \in {short, drawn + 1}, short # 0 => short' = short,
         short' # 0 => len < Len(out), short' = 0 => c = pic.px[drawn + 1]
  PROVE  Surface' /\ Drawn' /\ drawn + 1 \in 1..Len(pic.px)
<1>1. Len(pic.px) \in Nat /\ shown = [k \in 1..Len(pic.px) |-> shown[k]]
  BY PictureIsPixels DEF Inv, Types, Kept, Surface
<1>2. Len(shown) = Len(pic.px)
  BY <1>1, SurfaceLen
<1>3. shown' = [shown EXCEPT ![drawn + 1] = c] /\ drawn' = drawn + 1
  BY DEF Show
<1>4. /\ drawn \in 0..Len(pic.px) /\ short \in 0..drawn + 1
      /\ \A k \in 1..drawn : (short = 0 \/ k < short) => shown[k] = pic.px[k]
      /\ result = "none"
  BY DEF Kept, Drawn
<1>5. PICK n \in Nat, d \in Nat, s \in Nat : n = Len(pic.px) /\ d = drawn /\ s = short
  BY <1>1, <1>4
<1>6. d < n /\ s \in 0..d + 1 /\ d + 1 \in 1..n /\ d + 1 \in 0..n
  BY <1>2, <1>4, <1>5
<1>7. Surface'
  BY <1>1, <1>3 DEF Surface
<1>8. PICK s2 \in Nat : s2 = short' /\ s2 \in 0..d + 2 /\ (s # 0 => s2 = s) /\ (s2 = s \/ s2 = d + 1)
  BY <1>5, <1>6
<1>9. ASSUME NEW k \in 1..d + 1, s2 = 0 \/ k < s2 PROVE shown'[k] = pic.px[k]
  <2>1. CASE k = d + 1
    <3>1. s2 = 0
      BY <1>6, <1>8, <1>9, <2>1
    <3>2. c = pic.px[d + 1]
      BY <1>5, <1>8, <3>1
    <3>3. shown'[d + 1] = c
      BY <1>1, <1>3, <1>5, <1>6
    <3>4. QED
      BY <2>1, <3>2, <3>3
  <2>2. CASE k # d + 1
    <3>1. k \in 1..d /\ (s = 0 \/ k < s)
      BY <1>6, <1>8, <1>9, <2>2
    <3>2. shown'[k] = shown[k]
      BY <1>1, <1>3, <1>5, <1>6, <2>2, <3>1
    <3>3. QED
      BY <1>4, <1>5, <3>1, <3>2
  <2>3. QED
    BY <2>1, <2>2
<1>10. Drawn'
  <2>1. drawn' \in 0..Len(pic'.px) /\ short' \in 0..drawn' + 1
    BY <1>3, <1>5, <1>6, <1>8
  <2>2. \A k \in 1..drawn' : (short' = 0 \/ k < short') => shown'[k] = pic'.px[k]
    BY <1>3, <1>5, <1>8, <1>9
  <2>3. result' = "none" /\ (short' # 0 => len' < Len(out'))
    BY <1>4
  <2>4. QED
    BY <2>1, <2>2, <2>3 DEF Drawn
<1>11. QED
  BY <1>5, <1>6, <1>7, <1>10

(* Where reading the stream goes from here.                                  *)
LEMMA NextPixel ==
  ASSUME Inv, Kept, pc = "decode", drawn < Len(pic.px), short = 0,
         NEW D, Trace(out, pic.px, Len(pic.px), D), dec = D[drawn]
  PROVE  /\ Decodes(out, dec, D[drawn + 1]) /\ D[drawn + 1].px = pic.px[drawn + 1]
         /\ dec \in Decoders /\ D[drawn + 1] \in Decoders
<1>1. Len(pic.px) \in Nat /\ drawn \in 0..Len(pic.px)
  BY PictureIsPixels DEF Inv, Types, Kept, Drawn
<1>2. drawn + 1 \in 1..Len(pic.px) /\ drawn + 1 - 1 = drawn /\ drawn + 1 \in 0..Len(pic.px)
  BY <1>1
<1>3. QED
  BY <1>1, <1>2 DEF Trace

(* A step that shows the pixel it decodes.                                   *)
LEMMA StepKept ==
  ASSUME Inv, Kept, pc = "decode", pc' = "decode",
         UNCHANGED <<pic, i, enc, out, cap, len, short, result>>,
         drawn < Len(shown), NEW c, Show(c),
         \A e : Decodes(out, dec, e) => dec' = e /\ c = e.px
  PROVE  Kept'
<1>1. Len(pic.px) \in Nat /\ shown = [k \in 1..Len(pic.px) |-> shown[k]]
  BY PictureIsPixels DEF Inv, Types, Kept, Surface
<1>2. drawn < Len(pic.px)
  BY <1>1, SurfaceLen
<1>3. PICK D : Trace(out, pic.px, Len(pic.px), D) /\ (short = 0 => dec = D[drawn])
  BY DEF Kept, Told
<1>4. short = 0 => dec' = D[drawn + 1] /\ c = pic.px[drawn + 1]
  BY <1>2, <1>3, NextPixel
<1>5. Surface' /\ Drawn'
  <2>1. short # 0 => len < Len(out)
    BY DEF Kept, Drawn
  <2>2. QED
    BY <1>4, <2>1, ShowKeeps
<1>6. Told'
  <2>1. drawn' = drawn + 1
    BY DEF Show
  <2>2. short' = 0 => dec' = D[drawn']
    BY <1>4, <2>1
  <2>3. len' <= Len(out')
    BY DEF Kept, Told
  <2>4. QED
    BY <1>3, <2>2, <2>3 DEF Told
<1>7. QED
  BY <1>5, <1>6, DecoderFrame DEF Kept

(* A pixel of a run.                                                       *)
LEMMA RunKept == ASSUME Inv, Kept, DecodeRun PROVE Kept'
<1>1. /\ pc = "decode" /\ pc' = "decode" /\ UNCHANGED <<pic, i, enc, out, cap, len, short, result>>
      /\ drawn < Len(shown) /\ dec.run > 0 /\ dec' = [dec EXCEPT !.run = @ - 1] /\ Show(dec.px)
  BY DEF DecodeRun
<1>2. ASSUME NEW e, Decodes(out, dec, e) PROVE dec' = e /\ dec.px = e.px
  <2>1. dec' = e
    BY <1>1, <1>2 DEF Decodes
  <2>2. dec'.px = dec.px
    BY <1>1 DEF Inv, Types
  <2>3. QED
    BY <2>1, <2>2
<1>3. QED
  BY <1>1, <1>2, StepKept

(* A chunk and its pixel.                                                  *)
LEMMA ChunkKept == ASSUME Inv, Kept, DecodeChunk PROVE Kept'
<1>1. /\ pc = "decode" /\ pc' = "decode" /\ UNCHANGED <<pic, i, enc, out, cap, len, short, result>>
      /\ drawn < Len(shown) /\ dec.run = 0 /\ dec' = AfterChunk(out, dec) /\ Show(dec'.px)
  BY DEF DecodeChunk
<1>2. ASSUME NEW e, Decodes(out, dec, e) PROVE dec' = e /\ dec'.px = e.px
  <2>1. ~(dec.run > 0)
    BY <1>1
  <2>2. QED
    BY <1>1, <1>2, <2>1 DEF Decodes
<1>3. PICK c : c = dec'.px
  OBVIOUS
<1>4. QED
  BY <1>1, <1>2, <1>3, StepKept

(* Where the data ends before the picture does, the stream went on.          *)
LEMMA CutIsShort ==
  ASSUME Inv, Kept, pc = "decode", drawn < Len(shown), dec.run = 0,
         dec.pos >= len \/ dec.pos + 1 + Operands(out[dec.pos + 1]) > len
  PROVE  len < Len(out)
<1>1. CASE short # 0
  BY <1>1 DEF Kept, Drawn
<1>2. CASE short = 0
  <2>1. Len(pic.px) \in Nat /\ shown = [k \in 1..Len(pic.px) |-> shown[k]]
    BY PictureIsPixels DEF Inv, Types, Kept, Surface
  <2>2. drawn < Len(pic.px)
    BY <2>1, SurfaceLen
  <2>3. PICK D : Trace(out, pic.px, Len(pic.px), D) /\ dec = D[drawn]
    BY <1>2 DEF Kept, Told
  <2>4. Decodes(out, dec, D[drawn + 1]) /\ dec \in Decoders
    BY <1>2, <2>2, <2>3, NextPixel
  <2>5. dec.pos < Len(out) /\ dec.pos + 1 + Operands(out[dec.pos + 1]) <= Len(out)
    BY <2>4 DEF Decodes
  <2>6. PICK n \in Nat, q \in Nat, l \in Int, o \in Nat :
          n = Operands(out[dec.pos + 1]) /\ q = dec.pos /\ l = len /\ o = Len(out)
    BY <2>4, OperandsOf, LenProperties DEF Inv, Types, Decoders
  <2>7. q < o /\ q + 1 + n <= o /\ (q >= l \/ q + 1 + n > l)
    BY <2>5, <2>6
  <2>8. QED
    BY <2>6, <2>7
<1>3. QED
  BY <1>1, <1>2

(* A pixel behind the end of the data.                                     *)
LEMMA FillKept == ASSUME Inv, Kept, DecodeFill PROVE Kept'
<1>1. /\ pc = "decode" /\ pc' = "decode" /\ UNCHANGED <<pic, i, enc, out, cap, len, dec, result>>
      /\ drawn < Len(shown) /\ dec.run = 0 /\ dec.pos >= len /\ Show(dec.px)
      /\ short' = IF short = 0 THEN drawn + 1 ELSE short
  BY DEF DecodeFill, Starve
<1>2. len < Len(out)
  BY <1>1, CutIsShort
<1>3. drawn \in Nat /\ short \in Int
  BY DEF Kept, Drawn
<1>4. short' # 0 /\ short' \in {short, drawn + 1} /\ (short # 0 => short' = short)
  BY <1>1, <1>3
<1>5. Surface' /\ Drawn'
  BY <1>1, <1>2, <1>4, ShowKeeps
<1>6. Told'
  BY <1>1, <1>4 DEF Kept, Told
<1>7. QED
  BY <1>1, <1>5, <1>6, DecoderFrame DEF Kept

(* A chunk that is cut ends the loop.                                      *)
LEMMA BrokenKept == ASSUME Inv, Kept, DecodeBroken PROVE Kept'
<1>1. /\ pc = "decode" /\ pc' = "done" /\ UNCHANGED <<pic, i, enc, out, cap, len, dec, shown, drawn>>
      /\ drawn < Len(shown) /\ dec.run = 0 /\ dec.pos + 1 + Operands(out[dec.pos + 1]) > len
      /\ short' = IF short = 0 THEN drawn + 1 ELSE short
  BY DEF DecodeBroken, Starve
<1>2. len < Len(out)
  BY <1>1, CutIsShort
<1>3. /\ drawn \in 0..Len(pic.px) /\ short \in 0..drawn + 1 /\ drawn \in Nat
      /\ \A k \in 1..drawn : (short = 0 \/ k < short) => shown[k] = pic.px[k]
  BY DEF Kept, Drawn
<1>4. short' # 0 /\ short' \in 0..drawn + 1 /\ (short # 0 => short' = short)
  BY <1>1, <1>3
<1>5. Drawn'
  <2>1. \A k \in 1..drawn : (short' = 0 \/ k < short') => shown[k] = pic.px[k]
    BY <1>3, <1>4
  <2>2. QED
    BY <1>1, <1>2, <1>3, <1>4, <2>1 DEF Drawn
<1>6. Told' /\ Surface'
  BY <1>1, <1>4 DEF Kept, Told, Surface
<1>7. QED
  BY <1>1, <1>5, <1>6, DecoderFrame DEF Kept

(* The whole picture is drawn.                                             *)
LEMMA DoneKept == ASSUME Inv, Kept, DecodeEnd PROVE Kept'
<1>1. /\ pc = "decode" /\ pc' = "done" /\ drawn = Len(shown)
      /\ UNCHANGED <<pic, i, enc, out, cap, len, dec, shown, drawn, short>>
  BY DEF DecodeEnd
<1>2. Len(pic.px) \in Nat /\ shown = [k \in 1..Len(pic.px) |-> shown[k]]
  BY <1>1, PictureIsPixels DEF Inv, Types, Kept, Surface
<1>3. drawn = Len(pic.px)
  BY <1>1, <1>2, SurfaceLen
<1>4. Drawn'
  BY <1>1, <1>3 DEF Kept, Drawn
<1>5. Told' /\ Surface'
  BY <1>1 DEF Kept, Told, Surface
<1>6. QED
  BY <1>1, <1>4, <1>5, DecoderFrame DEF Kept

(* Every step keeps the invariant.                                         *)
LEMMA NextKept == Inv /\ Kept /\ [Next]_vars => Kept'
<1> SUFFICES ASSUME Inv, Kept, [Next]_vars PROVE Kept'
  OBVIOUS
<1>1. CASE UNCHANGED vars
  BY <1>1 DEF vars, Kept, Taken, Headed, Idle, Told, Surface, Drawn
<1>2. CASE EncodeSame \/ EncodeOther \/ EncodeEnd \/ DecodeOpen
  BY <1>2, SameKept, OtherKept, EndKept, OpenKept
<1>3. CASE DecodeRun \/ DecodeChunk \/ DecodeBroken \/ DecodeFill \/ DecodeEnd
  BY <1>3, RunKept, ChunkKept, BrokenKept, FillKept, DoneKept
<1>4. QED
  BY <1>1, <1>2, <1>3 DEF Next, Finished

(* What the invariant says of the picture shown.                           *)
LEMMA KeptSurvives == Inv /\ Kept => PictureSurvives
<1> SUFFICES ASSUME Inv, Kept PROVE PictureSurvives
  OBVIOUS
<1>1. ASSUME result = "ok", len = Len(out) PROVE drawn = Len(pic.px) /\ short = 0
  <2>1. Len(out) \in Nat
    BY LenProperties DEF Inv, Types
  <2>2. short = 0
    BY <1>1, <2>1 DEF Kept, Drawn
  <2>3. QED
    BY <1>1, <2>2 DEF Kept, Drawn
<1>2. QED
  BY <1>1 DEF Kept, Drawn, PictureSurvives

(* For every set of pictures, and however a stream is cut: what qoi_decode   *)
(* shows is what qoi_encode was given, pixel by pixel, as far as the data    *)
(* goes, and of a whole stream it shows all (PictureSurvives of img/qoi.c).  *)
THEOREM PicturesSurvive == Spec => []PictureSurvives
<1>1. Init => Inv /\ Kept
  BY InitInv, InitKept
<1>2. Inv /\ Kept /\ [Next]_vars => (Inv /\ Kept)'
  BY NextInv, NextKept
<1>3. Inv /\ Kept => PictureSurvives
  BY KeptSurvives
<1>4. QED
  BY <1>1, <1>2, <1>3, PTL DEF Spec
=============================================================================

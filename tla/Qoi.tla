-------------------------------- MODULE Qoi ---------------------------------
(* img/qoi.c: a picture is written by qoi_encode (tools/mkqoi.c), the file   *)
(* is perhaps cut short on its way to the disc, and qoi_decode reads it      *)
(* (load_mock_photos of ui/main.c).                                          *)
(*                                                                           *)
(* A pixel is <<r, g, b, a>>, each a byte; a stream is a sequence of bytes.  *)
(* Both loops take one pixel per step.  The rows of a surface are one        *)
(* sequence: apart from the header the codec looks only at the last pixel.   *)
EXTENDS Integers, Sequences

MaxSide == 20000    \* the longest side of a picture that is decoded

CONSTANTS
  Pictures,     \* the pictures that are coded: records [w, h, px]
  Lost(_)       \* Lost(n): how many bytes a stream of n bytes may lose
ASSUME PicturesAssumption ==
  \A p \in Pictures :
    /\ p.w \in 1..MaxSide /\ p.h \in 1..MaxSide
    /\ p.px \in Seq((0..255) \X (0..255) \X (0..255) \X (0..255))
    /\ Len(p.px) = p.w * p.h

VARIABLES
  pc,           \* "encode", "open", "decode", "done"
  pic,          \* the picture: what the decoder is to show
  i,            \* encoder: pixels taken
  enc,          \* encoder: previous pixel, run, index
  out,          \* encoder: bytes written
  cap,          \* encoder: size of the allocation
  len,          \* decoder: length of the data it is given
  dec,          \* decoder: current pixel, run, index, position
  shown,        \* decoder: pixels of the surface; <<>> before it is allocated
  drawn,        \* decoder: pixels written
  short,        \* history: the data ended before the picture did, at this pixel
  result        \* what qoi_decode returns
vars == <<pc, pic, i, enc, out, cap, len, dec, shown, drawn, short, result>>

INDEX == 0
DIFF == 64
LUMA == 128
RUN == 192
RGB == 254
RGBA == 255

Start == <<0, 0, 0, 255>>
Blank == <<0, 0, 0, 0>>
Hash(px) == (px[1] * 3 + px[2] * 5 + px[3] * 7 + px[4] * 11) % 64

UChar(v) == v % 256
SChar(v) == ((v + 128) % 256) - 128

Put32(v) == <<(v \div 16777216) % 256, (v \div 65536) % 256, (v \div 256) % 256, v % 256>>
Get32(b, p) == b[p] * 16777216 + b[p + 1] * 65536 + b[p + 2] * 256 + b[p + 3]

Magic == <<113, 111, 105, 102>>
Header(w, h) == Magic \o Put32(w) \o Put32(h) \o <<4, 0>>
EndMarker == <<0, 0, 0, 0, 0, 0, 0, 1>>

(* What qoi_encode allocates: no pixel takes more than five bytes. *)
MutantCapacity(w, h) == w * h * 4 + 14 + 8   \* RGBA takes its first byte too
Capacity(w, h) == w * h * 5 + 14 + 8

RunChunk(run) == IF run > 0 THEN <<RUN + run - 1>> ELSE <<>>

(* Mutant: DIFF goes one too far, into the bits of its neighbour. *)
MutantDeltaChunk(px, prev) ==
  LET vr == SChar(px[1] - prev[1])
      vg == SChar(px[2] - prev[2])
      vb == SChar(px[3] - prev[3])
  IN IF {vr, vg, vb} \subseteq -2..2
     THEN <<DIFF + (vr + 2) * 16 + (vg + 2) * 4 + (vb + 2)>>
     ELSE <<RGB, px[1], px[2], px[3]>>

(* The differences are taken in signed chars, which wrap around, and so is   *)
(* the difference of differences of LUMA.                                    *)
DeltaChunk(px, prev) ==
  LET vr == SChar(px[1] - prev[1])
      vg == SChar(px[2] - prev[2])
      vb == SChar(px[3] - prev[3])
      vgr == SChar(vr - vg)
      vgb == SChar(vb - vg)
  IN IF {vr, vg, vb} \subseteq -2..1
     THEN <<DIFF + (vr + 2) * 16 + (vg + 2) * 4 + (vb + 2)>>
     ELSE IF vg \in -32..31 /\ {vgr, vgb} \subseteq -8..7
     THEN <<LUMA + (vg + 32), (vgr + 8) * 16 + (vgb + 8)>>
     ELSE <<RGB, px[1], px[2], px[3]>>

PixelChunk(px, prev, index) ==
  IF index[Hash(px)] = px THEN <<INDEX + Hash(px)>>
  ELSE IF px[4] = prev[4] THEN DeltaChunk(px, prev)
  ELSE <<RGBA>> \o px

Init ==
  /\ pc = "encode"
  /\ pic \in Pictures
  /\ i = 0
  /\ enc = [px |-> Start, run |-> 0, index |-> [h \in 0..63 |-> Blank]]
  /\ cap = Capacity(pic.w, pic.h)
  /\ out = Header(pic.w, pic.h)
  /\ len = 0
  /\ dec = [px |-> Start, run |-> 0, index |-> [h \in 0..63 |-> Blank], pos |-> 14]
  /\ shown = <<>> /\ drawn = 0 /\ short = 0
  /\ result = "none"

-----------------------------------------------------------------------------
(* The encoder *)

(* The pixel before goes on; the run is written when it is as long as a      *)
(* chunk can say and at the end of the picture.                              *)
EncodeSame ==
  /\ pc = "encode" /\ i < Len(pic.px)
  /\ pic.px[i + 1] = enc.px
  /\ LET run == enc.run + 1
         flush == run = 62 \/ i + 1 = Len(pic.px)
     IN /\ out' = IF flush THEN out \o RunChunk(run) ELSE out
        /\ enc' = [enc EXCEPT !.run = IF flush THEN 0 ELSE run]
  /\ i' = i + 1
  /\ UNCHANGED <<pc, pic, cap, len, dec, shown, drawn, short, result>>

EncodeOther ==
  /\ pc = "encode" /\ i < Len(pic.px)
  /\ LET px == pic.px[i + 1]
     IN /\ px # enc.px
        /\ out' = out \o RunChunk(enc.run) \o PixelChunk(px, enc.px, enc.index)
        /\ enc' = [px |-> px, run |-> 0, index |-> [enc.index EXCEPT ![Hash(px)] = px]]
  /\ i' = i + 1
  /\ UNCHANGED <<pc, pic, cap, len, dec, shown, drawn, short, result>>

(* The end marker is written; the file that is read later may have lost its  *)
(* end.                                                                      *)
EncodeEnd ==
  /\ pc = "encode" /\ i = Len(pic.px)
  /\ out' = out \o EndMarker
  /\ pc' = "open"
  /\ \E lost \in Lost(Len(out) + 8) \cap 0..Len(out) + 8 : len' = Len(out) + 8 - lost
  /\ UNCHANGED <<pic, i, enc, cap, dec, shown, drawn, short, result>>

-----------------------------------------------------------------------------
(* The decoder *)

Refuse == pc' = "done" /\ result' = "error" /\ UNCHANGED shown

(* The header; the surface may fail to be allocated and comes zeroed.        *)
DecodeOpen ==
  /\ pc = "open"
  /\ IF len < 14 + 8 \/ SubSeq(out, 1, 4) # Magic THEN Refuse
     ELSE LET w == Get32(out, 5)
              h == Get32(out, 9)
          IN IF w \notin 1..MaxSide \/ h \notin 1..MaxSide THEN Refuse
             ELSE \/ Refuse
                  \/ /\ pc' = "decode" /\ UNCHANGED result
                     /\ shown' = [k \in 1..w * h |-> Blank]
  /\ UNCHANGED <<pic, i, enc, out, cap, len, dec, drawn, short>>

(* How many bytes follow the first byte of a chunk.                          *)
Operands(op) ==
  IF op = RGB THEN 3 ELSE IF op = RGBA THEN 4 ELSE IF op \in LUMA..RUN - 1 THEN 1 ELSE 0

(* The pixel that the chunk of stream b at d.pos stands for.                 *)
ChunkPixel(b, d) ==
  LET op == b[d.pos + 1]
      arg == op % 64
      b2 == b[d.pos + 2]
      px == d.px
  IN CASE op = RGB -> <<b2, b[d.pos + 3], b[d.pos + 4], px[4]>>
       [] op = RGBA -> <<b2, b[d.pos + 3], b[d.pos + 4], b[d.pos + 5]>>
       [] op < DIFF -> d.index[arg]
       [] op \in DIFF..LUMA - 1 ->
            <<UChar(px[1] + (arg \div 16) - 2), UChar(px[2] + ((arg \div 4) % 4) - 2),
              UChar(px[3] + (arg % 4) - 2), px[4]>>
       [] op \in LUMA..RUN - 1 ->
            LET vg == arg - 32
            IN <<UChar(px[1] + vg + (b2 \div 16) - 8), UChar(px[2] + vg),
                 UChar(px[3] + vg + (b2 % 16) - 8), px[4]>>
       [] OTHER -> px

Show(px) == shown' = [shown EXCEPT ![drawn + 1] = px] /\ drawn' = drawn + 1

(* Some data is missing from here on.                                        *)
Starve == short' = IF short = 0 THEN drawn + 1 ELSE short

DecodeRun ==
  /\ pc = "decode" /\ drawn < Len(shown) /\ dec.run > 0
  /\ dec' = [dec EXCEPT !.run = @ - 1]
  /\ Show(dec.px)
  /\ UNCHANGED <<pc, pic, i, enc, out, cap, len, short, result>>

(* The state after the chunk at d.pos: every chunk stores its pixel, that of *)
(* a run too, which the encoder does not.                                    *)
AfterChunk(b, d) ==
  LET op == b[d.pos + 1]
      px == ChunkPixel(b, d)
  IN [px |-> px,
      run |-> IF op \in RUN..RGB - 1 THEN op % 64 ELSE 0,
      index |-> [d.index EXCEPT ![Hash(px)] = px],
      pos |-> d.pos + 1 + Operands(op)]

DecodeChunk ==
  /\ pc = "decode" /\ drawn < Len(shown) /\ dec.run = 0
  /\ dec.pos < len /\ dec.pos + 1 + Operands(out[dec.pos + 1]) <= len
  /\ dec' = AfterChunk(out, dec)
  /\ Show(dec'.px)
  /\ UNCHANGED <<pc, pic, i, enc, out, cap, len, short, result>>

(* A chunk that is cut ends the loop: the rest stays blank.                  *)
DecodeBroken ==
  /\ pc = "decode" /\ drawn < Len(shown) /\ dec.run = 0
  /\ dec.pos < len /\ dec.pos + 1 + Operands(out[dec.pos + 1]) > len
  /\ Starve
  /\ pc' = "done" /\ result' = "ok"
  /\ UNCHANGED <<pic, i, enc, out, cap, len, dec, shown, drawn>>

(* Nothing left: the last pixel fills the rest.                              *)
DecodeFill ==
  /\ pc = "decode" /\ drawn < Len(shown) /\ dec.run = 0
  /\ dec.pos >= len
  /\ Starve
  /\ Show(dec.px)
  /\ UNCHANGED <<pc, pic, i, enc, out, cap, len, dec, result>>

DecodeEnd ==
  /\ pc = "decode" /\ drawn = Len(shown)
  /\ pc' = "done" /\ result' = "ok"
  /\ UNCHANGED <<pic, i, enc, out, cap, len, dec, shown, drawn, short>>

Finished == pc = "done" /\ UNCHANGED vars

Next ==
  \/ EncodeSame \/ EncodeOther \/ EncodeEnd
  \/ DecodeOpen \/ DecodeRun \/ DecodeChunk \/ DecodeBroken \/ DecodeFill \/ DecodeEnd
  \/ Finished

Spec == Init /\ [][Next]_vars

-----------------------------------------------------------------------------
(* Properties *)

(* What qoi_decode shows is what qoi_encode was given, pixel by pixel, up to *)
(* the place where the data ends; a whole stream shows the whole picture.    *)
(* The two keep a table of pixels each, which they fill at different times.  *)
PictureSurvives ==
  /\ \A k \in 1..drawn : (short = 0 \/ k < short) => shown[k] = pic.px[k]
  /\ (result = "ok" /\ len = Len(out)) => drawn = Len(pic.px) /\ short = 0

(* The encoder's allocation of five bytes a pixel, header and end marker is  *)
(* enough for what it writes, a pending run and the end marker included, and *)
(* the decoder has never read past the data it was given.                    *)
StreamFits ==
  /\ Len(out) + (IF enc.run > 0 THEN 1 ELSE 0)
       + (IF pc = "encode" THEN Len(EndMarker) ELSE 0) <= cap
  /\ pc = "decode" => dec.pos <= len
=============================================================================

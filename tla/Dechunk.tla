------------------------------ MODULE Dechunk -------------------------------
(***************************************************************************)
(* core/http.c dechunk: decodes what has arrived of a chunked body, byte   *)
(* by byte of its framing and a chunk of its data at a time.  A byte is a  *)
(* name: "cr", "lf", a hex digit (Hex gives its value) or anything else.   *)
(* `out` has room for as many bytes as `data` has.                         *)
(***************************************************************************)
EXTENDS Integers, Sequences

CONSTANTS
  Bytes,      \* what a body is made of
  Hex,        \* the value of each hex digit, as a function of its byte
  LongRange   \* how many values a long has: 2^32 on this target

VARIABLES
  data, pos,  \* the bytes given, and p as an index into them
  step,       \* where in the loop
  clen,       \* the size of this chunk
  out         \* the bytes decoded

dvars == <<data, pos, step, clen, out>>

ASSUME DechunkAssumption ==
  /\ "beyond" \notin Bytes
  /\ "cr" \notin DOMAIN Hex /\ "lf" \notin DOMAIN Hex
  /\ LongRange \in Nat \ {0} /\ LongRange % 2 = 0
  /\ \A c \in DOMAIN Hex : Hex[c] \in 0 .. 15

Rem == Len(data) + 1 - pos

(* What a read past the end of the data would find. *)
Byte(k) == IF k \in DOMAIN data THEN data[k] ELSE "beyond"

(* A size too large for a long wraps around: the Makefile builds the       *)
(* client without optimisation.  (An optimiser may take clen, a sum of     *)
(* digits, for non-negative, and its <= 0 below for = 0.)                  *)
Long(n) == LET m == n % LongRange
           IN IF m < LongRange \div 2 THEN m ELSE m - LongRange

(* Mutant: a chunk is as long as it says. *)
ChunkTrusted == clen

(* What there is of this chunk. *)
Chunk == IF clen > Rem THEN Rem ELSE clen

-----------------------------------------------------------------------------
(* Decoding of d begins, at its first byte. *)
Begin(d) == data' = d /\ pos' = 1 /\ step' = "head" /\ clen' = 0 /\ out' = << >>

NextChunk == /\ step = "head"
             /\ step' = IF Rem > 0 THEN "size" ELSE "done"
             /\ clen' = 0
             /\ UNCHANGED <<data, pos, out>>

SizeDigit == /\ step = "size" /\ Rem > 0 /\ data[pos] \in DOMAIN Hex
             /\ clen' = Long(clen * 16 + Hex[data[pos]])
             /\ pos' = pos + 1
             /\ UNCHANGED <<data, step, out>>

SizeEnds == /\ step = "size" /\ ~(Rem > 0 /\ data[pos] \in DOMAIN Hex)
            /\ step' = "line"
            /\ UNCHANGED <<data, pos, clen, out>>

(* Mutant: what follows the size is skipped to the CR only. *)
SkipLineToCr == /\ step = "line"
                /\ pos' = IF Rem > 0 THEN pos + 1 ELSE pos
                /\ step' = IF Rem > 0 /\ data[pos] # "cr" THEN "line" ELSE "chunk"
                /\ UNCHANGED <<data, clen, out>>

(* An extension and the CR are skipped, and the LF. *)
SkipLine == /\ step = "line"
            /\ pos' = IF Rem > 0 THEN pos + 1 ELSE pos
            /\ step' = IF Rem > 0 /\ data[pos] # "lf" THEN "line" ELSE "chunk"
            /\ UNCHANGED <<data, clen, out>>

CopyChunk == /\ step = "chunk"
             /\ IF clen <= 0
                THEN step' = "done" /\ UNCHANGED <<pos, out>>
                ELSE /\ out' = out \o [k \in 1 .. Chunk |-> Byte(pos + k - 1)]
                     /\ pos' = pos + Chunk
                     /\ step' = "crlf"
             /\ UNCHANGED <<data, clen>>

(* Mutant: a line end is looked at and not passed. *)
SkipCrLfStays == /\ step = "crlf"
                 /\ IF Rem > 0 /\ data[pos] \in {"cr", "lf"}
                    THEN UNCHANGED <<pos, step>>
                    ELSE step' = "head" /\ UNCHANGED pos
                 /\ UNCHANGED <<data, clen, out>>

SkipCrLf == /\ step = "crlf"
            /\ IF Rem > 0 /\ data[pos] \in {"cr", "lf"}
               THEN pos' = pos + 1 /\ UNCHANGED step
               ELSE step' = "head" /\ UNCHANGED pos
            /\ UNCHANGED <<data, clen, out>>

Decode == NextChunk \/ SizeDigit \/ SizeEnds \/ SkipLine \/ CopyChunk \/ SkipCrLf

-----------------------------------------------------------------------------
(* Properties *)

(* The output never outgrows its buffer, of one byte more than the input,  *)
(* and nothing past the end of the input is read, whatever the sizes say   *)
(* and however they overflow.                                              *)
StaysInBuffers ==
  /\ pos \in 1 .. Len(data) + 1
  /\ Len(out) < pos
  /\ \A k \in DOMAIN out : out[k] # "beyond"
=============================================================================

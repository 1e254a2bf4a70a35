---------------------------- MODULE HttpResponse ----------------------------
(***************************************************************************)
(* core/http.c http_parse_response on what arrived of an answer: a copy of *)
(* the bytes, the status line, the headers into an array that grows by one *)
(* at a time, the body by its framing; and http_response_free, which every *)
(* error path ends with.  A line of the head and the blank line after it   *)
(* are one unit each, a byte of the body is one.                           *)
(***************************************************************************)
EXTENDS Dechunk

(***************************************************************************)
(* What an honest peer sends.                                              *)
(***************************************************************************)

(* The size line and the place of a chunk c of body b: its first digit is  *)
(* at c.at, c.sizes are the values of its digits, one more at a time, and  *)
(* its data begins at c.data, behind the first line feed.  It holds c.size *)
(* bytes of what is sent, from behind the first c.from.                    *)
SizeEnd(c) == c.at + Len(c.sizes) - 1
IsChunk(b, c) ==
  /\ c.at \in Nat \ {0} /\ c.sizes \in Seq(Nat) /\ c.data \in Nat /\ c.size \in Nat
  /\ Len(c.sizes) > 1 /\ c.sizes[1] = 0 /\ c.sizes[Len(c.sizes)] = c.size
  /\ \A k \in 1 .. Len(c.sizes) - 1 :
       /\ b[c.at + k - 1] \in DOMAIN Hex
       /\ c.sizes[k + 1] = c.sizes[k] * 16 + Hex[b[c.at + k - 1]]
       /\ c.sizes[k + 1] < LongRange \div 2
  /\ SizeEnd(c) < c.data /\ c.data <= Len(b) + 1
  /\ b[SizeEnd(c)] \notin DOMAIN Hex
  /\ b[c.data - 1] = "lf" /\ \A k \in SizeEnd(c) .. c.data - 2 : b[k] # "lf"

(* Chunks cs of body b hold s, one behind the other, the last one empty;   *)
(* what follows it does not matter.                                        *)
DataEnd(c) == c.data + c.size
Encodes(b, s, cs) ==
  /\ Len(cs) \in Nat \ {0} /\ cs[1].at = 1 /\ cs[1].from = 0
  /\ \A j \in 1 .. Len(cs) : IsChunk(b, cs[j]) /\ cs[j].from \in 0 .. Len(s)
  /\ \A j \in 1 .. Len(cs) - 1 :
       /\ cs[j].size > 0 /\ DataEnd(cs[j]) < Len(b)
       /\ b[DataEnd(cs[j])] = "cr" /\ b[DataEnd(cs[j]) + 1] = "lf"
       /\ \A k \in 1 .. cs[j].size : b[cs[j].data + k - 1] = s[cs[j].from + k]
       /\ cs[j + 1].at = DataEnd(cs[j]) + 2
       /\ cs[j + 1].from = cs[j].from + cs[j].size
  /\ cs[Len(cs)].size = 0 /\ cs[Len(cs)].from = Len(s)

(* The first line of the head that is a header of this name.               *)
FirstNamed(head, name) ==
  {k \in 2 .. Len(head) :
     /\ head[k].colon /\ head[k].name = name
     /\ \A j \in 2 .. k - 1 : ~(head[j].colon /\ head[j].name = name)}

Unknown == <<"unknown">>

(* The body is s by the framing that the head says.                        *)
Honest(m) ==
  LET te == {k \in FirstNamed(m.head, "te") : m.head[k].value = "chunked"}
      cl == FirstNamed(m.head, "cl")
  IN IF te # {} THEN Encodes(m.body, m.sent, m.chunks)
     ELSE IF cl = {} THEN m.sent = m.body
     ELSE \A k \in cl :
            /\ m.head[k].value \in Int /\ m.head[k].value <= Len(m.body)
            /\ m.sent = SubSeq(m.body, 1, m.head[k].value)

CONSTANT Messages   \* [head |-> lines, body |-> bytes, sent |-> what they encode,
                    \*  chunks |-> how, if they are chunks]

ASSUME MessagesAssumption ==
  \A m \in Messages :
    /\ Len(m.head) \in Nat \ {0} /\ m.body \in Seq(Bytes)
    /\ m.sent # Unknown => m.sent \in Seq(Bytes) /\ Honest(m)

VARIABLES
  msg, len,    \* the answer, and how many units of it arrived
  pc,
  at,          \* the line of the head p points at
  headers,     \* out->headers
  status, body,
  heap         \* of the blocks "raw", "headers" and "decoded": those in use

vars == <<msg, len, pc, at, headers, status, body, heap, data, pos, step, clen, out>>
parsed == <<msg, len, at, headers, status>>

(* The head ends in a blank line; the body is the units that follow it.    *)
HeadSize(m) == Len(m.head) + 1
Size(m) == HeadSize(m) + Len(m.body)
Remaining == len - HeadSize(msg)
Arrived(n) == SubSeq(msg.body, 1, n)

(* http_header finds the first header of a name. *)
Named(name) ==
  {k \in DOMAIN headers : /\ headers[k].name = name
                          /\ \A j \in 1 .. k - 1 : headers[j].name # name}
Has(name) == Named(name) # {}
Header(name) == headers[CHOOSE k \in Named(name) : TRUE].value
Chunked == Has("te") /\ Header("te") = "chunked"

(* A length below zero is none, a length beyond what arrived is that.      *)
Length(n) == IF n < 0 THEN 0 ELSE IF n > Remaining THEN Remaining ELSE n

(* Mutant: the headers are not freed. *)
FreedButHeaders == heap \ {"raw", "decoded"}
Freed == heap \ {"raw", "headers", "decoded"}

Release == heap' = Freed /\ headers' = << >> /\ body' = << >>

(* http_response_free and -1. *)
Fail == pc' = "failed" /\ Release /\ UNCHANGED <<msg, len, at, status, dvars>>

-----------------------------------------------------------------------------
Init ==
  /\ msg \in Messages /\ len \in 0 .. Size(msg)
  /\ pc = "copy" /\ at = 1 /\ headers = << >> /\ status = 0 /\ body = << >>
  /\ heap = {}
  /\ data = << >> /\ pos = 1 /\ step = "done" /\ clen = 0 /\ out = << >>

(* Less than 12 bytes are no answer; they are no whole line either.        *)
CopyRaw ==
  /\ pc = "copy"
  /\ \/ /\ pc' = "status" /\ heap' = {"raw"}
     \/ pc' = "failed" /\ UNCHANGED heap
  /\ UNCHANGED <<msg, len, at, headers, status, body, dvars>>

StatusLine ==
  /\ pc = "status"
  /\ IF len > 0 /\ msg.head[1].space
     THEN /\ status' = msg.head[1].status
          /\ at' = 2
          /\ pc' = "headers"
          /\ UNCHANGED <<msg, len, headers, body, heap, dvars>>
     ELSE Fail

(* A line that has not arrived whole fails the parse; one without a colon  *)
(* is passed over; the blank line ends the head.                           *)
HeaderLine ==
  /\ pc = "headers"
  /\ IF at > len THEN Fail
     ELSE /\ at' = at + 1
          /\ UNCHANGED <<msg, len, status, body, dvars>>
          /\ IF at = HeadSize(msg) THEN pc' = "frame" /\ UNCHANGED <<headers, heap>>
             ELSE /\ UNCHANGED pc
                  /\ IF msg.head[at].colon
                     THEN headers' = Append(headers, msg.head[at]) /\ heap' = heap \cup {"headers"}
                     ELSE UNCHANGED <<headers, heap>>

(* The array cannot grow. *)
NoRoomForHeader ==
  /\ pc = "headers" /\ at <= len /\ at < HeadSize(msg) /\ msg.head[at].colon
  /\ Fail

FrameChunked ==
  /\ pc = "frame" /\ Chunked
  /\ \/ /\ pc' = "dechunk"
        /\ heap' = heap \cup {"decoded"}
        /\ Begin(Arrived(Remaining))
        /\ UNCHANGED <<parsed, body>>
     \/ Fail

Frame ==
  /\ pc = "frame" /\ ~Chunked
  /\ body' = Arrived(IF Has("cl") THEN Length(Header("cl")) ELSE Remaining)
  /\ pc' = "parsed"
  /\ UNCHANGED <<parsed, heap, dvars>>

Dechunking ==
  /\ pc = "dechunk"
  /\ IF step = "done"
     THEN pc' = "parsed" /\ body' = out /\ UNCHANGED dvars
     ELSE Decode /\ UNCHANGED <<pc, body>>
  /\ UNCHANGED <<parsed, heap>>

(* The caller has done with the answer. *)
Free ==
  /\ pc = "parsed"
  /\ pc' = "freed" /\ Release
  /\ UNCHANGED <<msg, len, at, status, dvars>>

Parse == CopyRaw \/ StatusLine \/ HeaderLine \/ NoRoomForHeader \/ FrameChunked \/ Frame
         \/ Dechunking

Terminated == pc \in {"failed", "freed"} /\ UNCHANGED vars

Next == Parse \/ Free \/ Terminated

Spec == Init /\ [][Next]_vars
FairSpec == Spec /\ WF_vars(Parse)

-----------------------------------------------------------------------------
(* Properties *)

(* An answer that was parsed holds the copy its strings point into, its    *)
(* headers if it has any and its decoded body if it was chunked; one that  *)
(* failed or was freed holds nothing.                                      *)
HoldsWhatItShows ==
  /\ pc \in {"frame", "parsed"} =>
       heap = {"raw"} \cup {b \in {"headers"} : headers # << >>}
                      \cup {b \in {"decoded"} : pc = "parsed" /\ Chunked}
  /\ pc \in {"failed", "freed"} => heap = {}

(* The body is what the peer sent, or, of an answer that was cut short,    *)
(* the beginning of it.                                                    *)
BodyIsSent ==
  pc = "parsed" /\ msg.sent # Unknown =>
    /\ Len(body) <= Len(msg.sent) /\ body = SubSeq(msg.sent, 1, Len(body))
    /\ len = Size(msg) => body = msg.sent

(* Every answer is parsed or refused. *)
Returns == <>(pc \in {"parsed", "failed"})
=============================================================================

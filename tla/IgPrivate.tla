----------------------------- MODULE IgPrivate -----------------------------
(***************************************************************************)
(* net/ig_private.c: the headers and the body of a timeline request, from  *)
(* the session's template and from the clock and random numbers.           *)
(***************************************************************************)
EXTENDS Formatter

CONSTANTS
  StaticHeaders,   \* IG_STATIC_HEADERS
  Template         \* IG_BODY_*: the text, or the number, for a key of the body

FreshHeaders == 7
FreshScratch == 256    \* IG_FRESH_SCRATCH_BYTES

(* ig_rand_range, for the number that was drawn. *)
RandRange(v, lo, hi) == lo + (v % (hi - lo + 1))

(* ig_uuid4 of sixteen random bytes: thirty-two digits and four dashes.    *)
Uuid4(random) ==
  LET b == [random EXCEPT ![7] = (@ % 16) + 64, ![9] = (@ % 64) + 128]
      text[i \in 0 .. 16] ==
        IF i = 0 THEN << >>
        ELSE text[i - 1] \o (IF i \in {5, 7, 9, 11} THEN <<"-">> ELSE << >>)
               \o <<DigitOf(b[i] \div 16), DigitOf(b[i] % 16)>>
  IN text[16]

(* ig_now_ms, and what the headers print of it.  32 bits hold the first   *)
(* for the first weeks of 1970 only, and the seconds until 2038.           *)
NowMs(clock) == (clock.day * 86400000) + clock.ms
NowSeconds(clock) == Time(clock)
NowThousandths(clock) == clock.ms % 1000

(* ci_eq: a name is a word and how it is capitalised. *)
CiEq(a, b) == a.word = b.word
AcceptEncoding == [word |-> "accept-encoding", case |-> "Title"]

-----------------------------------------------------------------------------
Lu == <<Conv(FALSE, 0, <<"l">>, "u")>>
LuDot03Lu == Lu \o <<[char |-> "."], Conv(TRUE, 3, <<"l">>, "u")>>
Ufs == <<[char |-> "U"], [char |-> "F"], [char |-> "S"], [char |-> "-"], Plain("s"),
         [char |-> "-"], [char |-> "1"]>>

Slice(name, cap, format, args) == [name |-> name, cap |-> cap, format |-> format, args |-> args]

(* The seven values, in the order their slices are cut from the scratch    *)
(* buffer.  `random` are the bytes of the id and the numbers drawn.        *)
Slices(clock, random) ==
  LET draw(i, lo, hi) == RandRange(random.drawn[i], lo, hi)
  IN <<Slice("X-Pigeon-Session-Id", 64, Ufs, <<Uuid4(random.bytes)>>),
       Slice("X-Pigeon-Rawclienttime", 32, LuDot03Lu, <<NowSeconds(clock), NowThousandths(clock)>>),
       Slice("X-IG-Bandwidth-Speed-KBPS", 16, LuDot03Lu, <<draw(1, 2500, 3000), draw(2, 0, 999)>>),
       Slice("X-IG-Bandwidth-TotalBytes-B", 16, Lu, <<draw(3, 5000000, 90000000)>>),
       Slice("X-IG-Bandwidth-TotalTime-MS", 16, Lu, <<draw(4, 2000, 9000)>>),
       Slice("X-IG-SALT-IDS", 16, Lu, <<draw(5, 1061162222, 1061262222)>>),
       Slice("X-CM-Latency", 8, Lu, <<draw(6, 1, 5)>>)>>

(* Where slice i begins. *)
SliceAt(slices, i) ==
  LET at[k \in 1 .. i] == IF k = 1 THEN 0 ELSE at[k - 1] + slices[k - 1].cap
  IN at[i]

(* ig_build_headers: names and values, a value that was generated being    *)
(* the slice of the scratch buffer it is in and what formatting it gave.   *)
BuildHeaders(outCap, scratchCap, clock, random) ==
  LET n == IF Len(StaticHeaders) < outCap THEN Len(StaticHeaders) ELSE outCap
      static == [i \in 1 .. n |->
                   [name |-> StaticHeaders[i].name,
                    value |-> IF CiEq(StaticHeaders[i].name, AcceptEncoding)
                              THEN "identity" ELSE StaticHeaders[i].value]]
      slices == Slices(clock, random)
      fresh == [i \in 1 .. FreshHeaders |->
                  [name |-> slices[i].name, at |-> SliceAt(slices, i), cap |-> slices[i].cap,
                   value |-> Vsnprintf(slices[i].cap, slices[i].format, slices[i].args)]]
  IN IF scratchCap < FreshHeaders * 32 \/ outCap < n + FreshHeaders THEN static
     ELSE static \o fresh

-----------------------------------------------------------------------------
(* The fields of the body, in order.  A key counts for one character.      *)
Text(key) == [key |-> key, kind |-> "text"]
Number(key) == [key |-> key, kind |-> "number"]
TimeOf(key) == [key |-> key, kind |-> "time"]

BodyFields ==
  <<TimeOf("app_start_time"), Text("has_camera_permission"), Text("feed_view_info"),
    TimeOf("client_recorded_request_time_ms"), Text("client_seen_store_media_list"),
    Text("client_view_state_media_list"), Text("device_timezone_name"),
    Text("feed_reshare_info"), Text("phone_id"), Text("reason"), Number("battery_level"),
    Text("timezone_offset"), Text("device_id"), Text("include_attribution_ui_data"),
    Text("push_disabled"), Text("request_id"), TimeOf("request_build_time"), Text("_uuid"),
    Number("is_charging"), Number("is_dark_mode"),
    [key |-> "will_sound_on", kind |-> "sound"], Text("session_id"),
    Text("session_level_signals"), Text("bloks_versioning_id"),
    [key |-> "is_pull_to_refresh", kind |-> "last"]>>

(* The time of the three fields that have one. *)
TimeText(clock) == Vsnprintf(24, <<Conv(FALSE, 0, <<"l", "l">>, "u")>>, <<NowMs(clock)>>).buf

(* What is appended for a field, a piece for each call of append. *)
Pieces(field, clock, sound) ==
  LET quoted == <<"\"", field.key, "\"", ":">>
      value == Template[field.key]
      number(cap, v) == Vsnprintf(cap, <<Plain("d")>>, <<v>>).buf
  IN CASE field.kind = "time" -> <<quoted \o <<"\"">>, TimeText(clock), <<"\"", ",">>>>
       [] field.kind = "text" -> <<quoted \o <<"\"">> \o value \o <<"\"", ",">>>>
       [] field.kind = "number" -> <<quoted, number(16, value), <<",">>>>
       [] field.kind = "sound" -> <<quoted, number(4, sound), <<",">>>>
       [] OTHER -> <<quoted \o <<"\"">>, value, <<"\"">>>>

(* Mutant: what does not fit is not counted. *)
AppendForgets(b, cap, s) ==
  IF b.pos + Len(s) < cap THEN [pos |-> b.pos + Len(s), text |-> b.text \o s] ELSE b

(* append *)
AppendText(b, cap, s) ==
  [pos |-> b.pos + Len(s), text |-> IF b.pos + Len(s) < cap THEN b.text \o s ELSE b.text]

(* The calls of append for one field. *)
AppendPieces(b, cap, pieces) ==
  LET after[k \in 0 .. Len(pieces)] == IF k = 0 THEN b ELSE AppendText(after[k - 1], cap, pieces[k])
  IN after[Len(pieces)]

(* ig_build_timeline_body with a buffer of cap bytes.                      *)
BuildTimelineBody(cap, clock, sound, malloc) ==
  LET pieces == [f \in {BodyFields[k] : k \in DOMAIN BodyFields} |-> Pieces(f, clock, sound)]
      after[k \in 0 .. Len(BodyFields)] ==
        IF k = 0 THEN AppendText([pos |-> 0, text |-> << >>], cap, <<"{">>)
        ELSE AppendPieces(after[k - 1], cap, pieces[BodyFields[k]])
      b == AppendText(after[Len(BodyFields)], cap, <<"}">>)
  IN IF b.pos >= cap \/ ~malloc THEN [ok |-> FALSE] ELSE [ok |-> TRUE, text |-> b.text]
=============================================================================

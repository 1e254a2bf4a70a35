----------------------------- MODULE BootProofs -----------------------------
(* What a request and the boot that makes all of them guarantee.  First the  *)
(* request: for every set of answers, every length of the request and every  *)
(* initial size of the buffer.  Then the boot, for every number of slots,    *)
(* posts and demo photos: each of its steps is a step of the request or      *)
(* leaves it alone, so that what holds of a call holds of all of them here.  *)
EXTENDS Boot, TLAPS

-----------------------------------------------------------------------------
(* The request *)

(* What the call holds is a function of the step it is at, but for the     *)
(* buffer and the body, which may not have been had.                       *)
Connection == Contexts \cup {"sock"}

Holdings ==
  /\ pc = "idle" => held \subseteq {"result"}
  /\ pc \in {"resolve", "socket"} => held = {}
  /\ pc = "connect" => held = {"sock"}
  /\ pc \in SetupSteps \cup {"build", "alloc"} => held = Connection
  /\ pc = "write" => held = Connection \cup {"req"}
  /\ pc \in {"read", "parse"} => held = Connection \cup {"buf"}
  /\ pc = "close_notify" => held \in {Connection, Connection \cup {"buf"}}
  /\ pc = "copy" => held = Connection \cup {"buf", "resp"}
  /\ pc = "free_buf" => held \ {"buf", "result"} = Connection
  /\ pc = "cleanup" => held \ {"result"} = Connection

(* Steps before the answer, and those at which something has been read.    *)
Early == {"resolve", "socket", "connect", "build", "write", "alloc"} \cup SetupSteps
Buffered == {"read", "parse", "copy"}

(* No timeout ends a step but the last before the goodbye. *)
Patience ==
  /\ pc \in Early \cup {"read"} => waits = 0
  /\ pc = "close_notify" => waits <= 1
  /\ waits <= 2

(* What is in the buffer came from the peer and fits. *)
Filling ==
  /\ pc \in Early => total = 0
  /\ total <= WireSize(msg)
  /\ pc \in Buffered \/ (pc = "close_notify" /\ "buf" \in held) => total <= cap /\ cap > 0

(* A parsed answer is this one, with its status line and header block.     *)
Answered ==
  /\ pc = "copy" => Parses(msg, total) /\ out_status = msg.status
  /\ "result" \in held =>
       msg.ok /\ out_status = msg.status /\ result \in 0 .. msg.size

IInv == TypeOK /\ Holdings /\ Patience /\ Filling /\ Answered

-----------------------------------------------------------------------------
(* Every answer has a status, a size and an end. *)
LEMMA MessageTypes ==
  ASSUME NEW m \in Messages
  PROVE  /\ m.ok \in BOOLEAN /\ m.status \in Nat /\ m.status # 0 /\ m.size \in Nat
         /\ WireSize(m) \in Nat
         /\ WireSize(m) >= HeaderSize + m.size
         /\ m.framing = "close" => WireSize(m) = HeaderSize + m.size
BY RequestAssumption DEF WireSize, HeaderSize

(* The parser finds the body or a beginning of it. *)
LEMMA ParsedIsPrefix ==
  ASSUME NEW m \in Messages, NEW k \in Nat, k <= WireSize(m), Parses(m, k)
  PROVE  Parsed(m, k) \in 0 .. m.size
<1>1. m.size \in Nat /\ (m.framing = "close" => WireSize(m) = HeaderSize + m.size)
  BY MessageTypes
<1>2. k - HeaderSize \in Nat
  BY DEF Parses, HeaderSize
<1>3. CASE m.framing = "close"
  BY <1>1, <1>2, <1>3 DEF Parsed, HeaderSize
<1>4. CASE m.framing # "close"
  BY <1>1, <1>2, <1>4 DEF Parsed, HeaderSize
<1>5. QED
  BY <1>3, <1>4

(* A request that has not begun holds nothing.                             *)
LEMMA InitInv == Init => IInv
<1>1. ASSUME Init PROVE IInv
  <2>1. msg \in Messages /\ WireSize(msg) \in Nat
    BY <1>1, MessageTypes DEF Init
  <2>2. TypeOK
    BY <1>1, RequestAssumption DEF Init, TypeOK, Steps, Resources, NoBody
  <2>3. QED
    BY <1>1, <2>1, <2>2 DEF Init, IInv, Holdings, Patience, Filling, Answered, Early, Buffered, SetupSteps
<1>2. QED
  BY <1>1

-----------------------------------------------------------------------------
(* Every step keeps the invariant. *)
LEMMA NextInv == IInv /\ [Next]_vars => IInv'
<1> SUFFICES ASSUME IInv, [Next]_vars PROVE IInv'
  OBVIOUS
<1> USE DEF IInv, TypeOK, Holdings, Patience, Filling, Answered
<1> USE DEF Steps, SetupSteps, Early, Buffered, Resources, Contexts, Connection, NoBody
<1>0. /\ WireSize(msg) \in Nat
      /\ RequestSize \in Nat \ {0} /\ InitialCap \in Nat \ {0}
  BY MessageTypes, RequestAssumption
<1>1. CASE Call
  <2>1. msg' \in Messages /\ WireSize(msg') \in Nat
    BY <1>1, MessageTypes DEF Call
  <2>2. QED
    BY <1>0, <1>1, <2>1 DEF Call
<1>2. CASE ResolveHost
  BY <1>0, <1>2 DEF ResolveHost
<1>3. CASE OpenSocket
  BY <1>0, <1>3 DEF OpenSocket
<1>4. CASE Connect
  BY <1>0, <1>4 DEF Connect, FailsNow, TimesOut
<1>5. CASE Setup
  BY <1>0, <1>5 DEF Setup, AfterSetup, FailsNow, TimesOut
<1>6. CASE BuildRequest
  BY <1>0, <1>6 DEF BuildRequest
<1>7. CASE Write
  BY <1>0, <1>7 DEF Write, FailsNow, TimesOut
<1>8. CASE AllocBuffer
  BY <1>0, <1>8 DEF AllocBuffer
<1>9. CASE GrowBuffer
  BY <1>0, <1>9 DEF GrowBuffer
<1>10. CASE ReadSome
  BY <1>0, <1>10 DEF ReadSome
<1>11. CASE ReadEnds
  BY <1>0, <1>11 DEF ReadEnds, FailsNow, TimesOut
<1>12. CASE CloseNotify
  BY <1>0, <1>12 DEF CloseNotify, FailsNow, TimesOut
<1>13. CASE ParseResponse
  BY <1>0, <1>13, MessageTypes DEF ParseResponse, Parses
<1>14. CASE CopyBody
  <2>1. pc = "copy" /\ Parsed(msg, total) \in 0 .. msg.size /\ msg.size \in Nat
    BY <1>14, ParsedIsPrefix, MessageTypes DEF CopyBody
  <2>2. QED
    BY <1>0, <1>14, <2>1 DEF CopyBody, Parses
<1>15. CASE FreeBuffer
  BY <1>0, <1>15 DEF FreeBuffer
<1>16. CASE Cleanup
  BY <1>0, <1>16 DEF Cleanup
<1>17. CASE FreeResult
  BY <1>0, <1>17 DEF FreeResult
<1>18. CASE UNCHANGED vars
  BY <1>0, <1>18 DEF vars
<1>19. QED
  BY <1>1, <1>2, <1>3, <1>4, <1>5, <1>6, <1>7, <1>8, <1>9, <1>10, <1>11, <1>12, <1>13,
     <1>14, <1>15, <1>16, <1>17, <1>18 DEF Next, Step

(* So the invariant holds throughout.                                      *)
LEMMA Invariant == Spec => []IInv
BY InitInv, NextInv, PTL DEF Spec

(* Every variable of a call has its type, always. *)
THEOREM RequestTypes == Spec => []TypeOK
<1>1. IInv => TypeOK
  BY DEF IInv
<1>2. QED
  BY Invariant, <1>1, PTL

(* Whichever step fails, and for whatever peer, a finished call has        *)
(* released its socket, its TLS contexts and its memory.                   *)
THEOREM RequestReleases == Spec => []NothingLeaks
<1>1. IInv => NothingLeaks
  BY DEF IInv, Holdings, NothingLeaks
<1>2. QED
  BY Invariant, <1>1, PTL

(* No step runs on what was released or never acquired.                    *)
THEOREM RequestHolds == Spec => []HeldWhenUsed
<1>1. ASSUME IInv PROVE HeldWhenUsed
  <2>1. pc \notin {"idle", "resolve", "socket"} => "sock" \in held
    BY <1>1 DEF IInv, TypeOK, Holdings, Connection, Contexts, Steps, SetupSteps
  <2>2. pc \notin {"idle", "resolve", "socket", "connect"} => Contexts \subseteq held
    BY <1>1 DEF IInv, TypeOK, Holdings, Connection, Contexts, Steps, SetupSteps
  <2>3. QED
    BY <1>1, <2>1, <2>2 DEF IInv, Holdings, HeldWhenUsed
<1>2. QED
  BY Invariant, <1>1, PTL

(* However often the buffer doubles or fails to, it is never overrun and   *)
(* never asked for zero bytes.                                             *)
THEOREM RequestBuffer == Spec => []BufferBounds
<1>1. IInv => BufferBounds
  BY DEF IInv, Filling, Buffered, BufferBounds
<1>2. QED
  BY Invariant, <1>1, PTL

(* A body is the answer's or the beginning of it, under its own status.    *)
THEOREM RequestBody == Spec => []BodyIsPrefix
<1>1. IInv => BodyIsPrefix
  BY DEF IInv, Answered, BodyIsPrefix
<1>2. QED
  BY Invariant, <1>1, PTL

(* A call never waits out more than two timeouts.                          *)
THEOREM RequestPatience == Spec => []FewTimeouts
<1>1. IInv => FewTimeouts
  BY DEF IInv, Patience, FewTimeouts
<1>2. QED
  BY Invariant, <1>1, PTL

-----------------------------------------------------------------------------
(* The initial states map to initial states. *)
LEMMA FetchInit == Init => Abstract!Init
BY DEF Init, Abstract!Init, Abstract!Nothing

(* Every step of a call is one of Fetch or cannot be seen from outside.    *)
LEMMA FetchNext == IInv /\ [Next]_vars => [Abstract!Next]_(Abstract!vars)
<1> SUFFICES ASSUME IInv, [Next]_vars PROVE [Abstract!Next]_(Abstract!vars)
  OBVIOUS
<1>1. ASSUME UNCHANGED msg, pc # "idle", pc' # "idle" PROVE UNCHANGED Abstract!vars
  BY <1>1 DEF Abstract!vars
<1>2. CASE Call
  <2>1. Abstract!Ask
    BY <1>2 DEF Call, Abstract!Ask, Abstract!Nothing
  <2>2. QED
    BY <2>1 DEF Abstract!Next
<1>3. ASSUME pc # "idle", pc' = "idle", UNCHANGED msg, "result" \notin held'
      PROVE  Abstract!Next
  <2>1. Abstract!GiveUp
    BY <1>3 DEF Abstract!GiveUp
  <2>2. QED
    BY <2>1 DEF Abstract!Next
<1>4. CASE ResolveHost
  BY <1>1, <1>3, <1>4 DEF ResolveHost, IInv, Holdings
<1>5. CASE OpenSocket
  BY <1>1, <1>3, <1>5 DEF OpenSocket, IInv, Holdings
<1>6. CASE Connect
  BY <1>1, <1>3, <1>6 DEF Connect, IInv, Holdings
<1>7. CASE Setup
  BY <1>1, <1>7 DEF Setup, AfterSetup, SetupSteps
<1>8. CASE BuildRequest \/ Write \/ AllocBuffer \/ GrowBuffer \/ ReadSome \/ ReadEnds
           \/ CloseNotify \/ ParseResponse \/ CopyBody \/ FreeBuffer
  BY <1>1, <1>8 DEF BuildRequest, Write, AllocBuffer, GrowBuffer, ReadSome, ReadEnds,
                    CloseNotify, ParseResponse, CopyBody, FreeBuffer
<1>9. CASE Cleanup
  <2>1. CASE "result" \in held
    <3>1. "result" \in held' /\ msg.ok /\ out_status = msg.status /\ result \in 0 .. msg.size
      BY <1>9, <2>1 DEF Cleanup, Contexts, IInv, Answered
    <3>2. Abstract!Deliver
      BY <1>9, <3>1 DEF Cleanup, Abstract!Deliver
    <3>3. QED
      BY <3>2 DEF Abstract!Next
  <2>2. CASE "result" \notin held
    BY <1>3, <1>9, <2>2 DEF Cleanup
  <2>3. QED
    BY <2>1, <2>2
<1>10. CASE FreeResult
  <2>1. result \in Nat
    BY <1>10 DEF FreeResult, IInv, Answered, TypeOK, NoBody
  <2>2. [status |-> out_status, size |-> result].size # [status |-> 0, size |-> -1].size
    BY <2>1
  <2>3. Abstract!Release
    BY <1>10, <2>2 DEF FreeResult, Abstract!Release, Abstract!Nothing
  <2>4. QED
    BY <2>3 DEF Abstract!Next
<1>11. CASE UNCHANGED vars
  BY <1>11 DEF vars, Abstract!vars
<1>12. QED
  BY <1>2, <1>4, <1>5, <1>6, <1>7, <1>8, <1>9, <1>10, <1>11 DEF Next, Step

(* https_request implements Fetch: seen from its callers, its fifteen      *)
(* steps and their failures are a request that fails or delivers at once.  *)
THEOREM RequestImplementsFetch == Spec => ImplementsFetchSafely
BY Invariant, FetchInit, FetchNext, PTL DEF Spec, ImplementsFetchSafely, Abstract!SafeSpec

-----------------------------------------------------------------------------
(* The boot *)

Waits == {"timeline_wait", "photo_wait"}
Before == {"net_init", "headers", "timeline", "timeline_wait", "parse_feed"}
Answering == {"parse_feed", "free_resp", "decode", "repack", "photo_done"}
Decoding == {"decode", "repack", "photo_done"}
Loop == {"post", "photo_wait"} \cup Decoding
Demo == {"mock", "mock_size", "mock_read", "mock_decode"}
BootSteps == Before \cup Loop \cup Demo \cup {"free_resp", "count", "window"}

BootTypes ==
  /\ bpc \in BootSteps
  /\ i \in Nat
  /\ n \in 0 .. MaxRealPosts
  /\ feed \in 0 .. MaxItems \cup {NoFeed}
  /\ have_real \in BOOLEAN
  /\ slow \in Nat

(* One request at a time, whose answer is held until the boot is through   *)
(* with it.                                                                *)
Exchange ==
  /\ bpc \notin Waits => pc = "idle"
  /\ bpc \in Answering => "result" \in held
  /\ bpc \notin Waits \cup Answering => held = {}

(* What was a good answer when it was looked at still is one. *)
Good == bpc \in {"parse_feed", "decode", "repack"} => out_status = 200

(* The boot's own blocks are those of the step it is at. *)
Blocks ==
  /\ bpc \in {"net_init", "headers", "parse_feed", "mock"} => own = {}
  /\ bpc \in {"timeline", "timeline_wait"} => own = {"body"}
  /\ bpc = "free_resp" => own = (IF feed = NoFeed THEN {} ELSE {"feed"})
  /\ bpc \in {"count", "post", "photo_wait", "decode", "photo_done"} => own = {"feed"}
  /\ bpc = "repack" => own = {"feed", "stb"}
  /\ bpc = "mock_size" => own = {"file"}
  /\ bpc = "mock_read" => own = {"file", "bytes"}
  /\ bpc = "mock_decode" => own = {"bytes"}
  /\ bpc = "window" => own = (IF have_real THEN {"feed"} ELSE {})

(* The feed is counted once, after which the loop runs below its count.    *)
Slots ==
  /\ bpc \in Before => feed = NoFeed
  /\ bpc = "count" => feed # NoFeed
  /\ bpc \in Loop => n \in 1 .. MaxRealPosts /\ i <= n
  /\ bpc \in Loop \ {"post"} => i < n
  /\ have_real <=> bpc = "window" /\ n # 0
  /\ bpc \notin Loop \cup {"window"} => n = 0

(* Behind the loop's index every decoded surface has its pointer. *)
Photos ==
  /\ bpc \notin Loop \cup {"window"} => surfaces = {}
  /\ bpc = "window" /\ ~have_real => surfaces = {}
  /\ bpc # "photo_done" => photo = surfaces
  /\ photo \subseteq surfaces /\ surfaces \subseteq photo \cup {i}
  /\ bpc \in Loop => photo \subseteq 0 .. i - 1
  /\ photo \subseteq 0 .. n - 1

(* Two timeouts for each request that has returned. *)
Delay ==
  /\ bpc \in {"net_init", "headers", "timeline", "timeline_wait"} => slow = 0
  /\ bpc \in {"parse_feed", "free_resp", "count"} \cup Demo => slow <= 2
  /\ bpc \in {"post", "photo_wait"} => slow <= 2 * (1 + i)
  /\ bpc \in Decoding => slow <= 2 * (2 + i)
  /\ slow <= 2 * (1 + MaxRealPosts)

BootInv == BootTypes /\ Exchange /\ Good /\ Blocks /\ Slots /\ Photos /\ Delay

-----------------------------------------------------------------------------
(* The boot runs https_request and nothing beside it touches a call.       *)
LEMMA BootStepIsRequestStep == BootNext => [Next]_vars
BY DEF BootNext, BootStep, RequestStep, Shown, NetInit, BuildBody, AskTimeline, TimelineReturns,
       ParseFeed, FreeResp, CountPosts, NextPost, PhotoReturns, LoadJpeg, RepackJpeg, PhotoDone,
       OpenMock, SizeMock, ReadMock, DecodeMock, Next, allVars, httpVars

(* Every boot is a sequence of calls of https_request. *)
LEMMA BootCallsRequests == BootSpec => Spec
<1>1. BootInit => Init
  BY DEF BootInit
<1>2. [BootNext]_allVars => [Next]_vars
  BY BootStepIsRequestStep DEF allVars, httpVars
<1>3. QED
  BY <1>1, <1>2, PTL DEF BootSpec, Spec

(* The window comes up with nothing fetched. *)
LEMMA BootInitInv == BootInit => BootInv
<1> SUFFICES ASSUME BootInit PROVE BootInv
  OBVIOUS
<1> USE BootAssumption DEF BootInit, Init, BootSteps, Before, Loop, Decoding, Demo, Waits, Answering
<1>1. BootTypes
  <2>1. bpc \in BootSteps
    OBVIOUS
  <2>2. i \in Nat /\ n \in 0 .. MaxRealPosts /\ slow \in Nat
    OBVIOUS
  <2>3. have_real \in BOOLEAN
    OBVIOUS
  <2>4. feed \in 0 .. MaxItems \cup {NoFeed}
    BY DEF NoFeed
  <2>5. QED
    BY <2>1, <2>2, <2>3, <2>4 DEF BootTypes
<1>3. Exchange
  BY DEF Exchange
<1>4. Good
  BY DEF Good
<1>5. Blocks
  BY DEF Blocks
<1>2. Slots /\ Photos /\ Delay
  BY DEF Slots, Photos, Delay
<1>6. QED
  BY <1>1, <1>2, <1>3, <1>4, <1>5 DEF BootInv

-----------------------------------------------------------------------------
(* A step of the request happens while the boot waits for it. *)
LEMMA RequestStepKeeps == ASSUME BootInv, IInv, RequestStep PROVE BootInv'
<1>1. pc # "idle"
  BY DEF RequestStep, Step, ResolveHost, OpenSocket, Connect, Setup, SetupSteps, BuildRequest,
         Write, AllocBuffer, GrowBuffer, ReadSome, ReadEnds, CloseNotify, ParseResponse,
         CopyBody, FreeBuffer, Cleanup
<1>2. bpc \in Waits /\ UNCHANGED bootVars
  BY <1>1 DEF RequestStep, BootInv, Exchange
<1>3. QED
  BY <1>2 DEF bootVars, BootInv, BootTypes, Exchange, Good, Blocks, Slots, Photos, Delay,
              Waits, Answering, Loop, Decoding, Before, Demo

(* Each step of the boot keeps its invariant; what is known of the request *)
(* is needed where an answer is taken over.                                *)
LEMMA BootStepKeeps == ASSUME BootInv, IInv, BootStep PROVE BootInv'
<1> USE BootAssumption
    DEF BootInv, BootTypes, Exchange, Good, Blocks, Slots, Photos, Delay, NoFeed,
        BootSteps, Before, Loop, Decoding, Demo, Waits, Answering, ToDemo, httpVars, vars
<1>1. CASE NetInit
  BY <1>1 DEF NetInit
<1>2. CASE BuildBody
  BY <1>2 DEF BuildBody
<1>3. CASE AskTimeline
  BY <1>3 DEF AskTimeline, Call
<1>4. CASE TimelineReturns
  <2>1. waits <= 2 /\ waits \in Nat /\ held \subseteq {"result"}
    BY <1>4 DEF TimelineReturns, IInv, TypeOK, Patience, Holdings
  <2>2. QED
    BY <1>4, <2>1 DEF TimelineReturns
<1>5. CASE ParseFeed
  BY <1>5 DEF ParseFeed
<1>6. CASE FreeResp
  <2>1. held' = {} /\ pc' = "idle"
    BY <1>6 DEF FreeResp, FreeResult, IInv, Holdings
  <2>2. QED
    BY <1>6, <2>1 DEF FreeResp, FreeResult
<1>7. CASE CountPosts
  BY <1>7 DEF CountPosts
<1>8. CASE NextPost
  <2>1. CASE i = n
    BY <1>8, <2>1 DEF NextPost
  <2>2. CASE i # n /\ bpc' = "photo_wait" /\ UNCHANGED i
    <3>1. BootTypes' /\ Exchange' /\ Good' /\ Blocks' /\ Slots'
      BY <1>8, <2>2 DEF NextPost
    <3>2. Photos' /\ Delay'
      BY <1>8, <2>2 DEF NextPost
    <3>3. QED
      BY <3>1, <3>2
  <2>3. CASE i # n /\ bpc' = "post" /\ i' = i + 1 /\ UNCHANGED vars
    <3>1. BootTypes' /\ Exchange' /\ Good' /\ Blocks' /\ Slots'
      BY <1>8, <2>3 DEF NextPost
    <3>2. Photos' /\ Delay'
      BY <1>8, <2>3 DEF NextPost
    <3>3. QED
      BY <3>1, <3>2
  <2>4. QED
    BY <1>8, <2>1, <2>2, <2>3 DEF NextPost
<1>9. CASE PhotoReturns
  <2>1. waits <= 2 /\ waits \in Nat /\ held \subseteq {"result"}
    BY <1>9 DEF PhotoReturns, IInv, TypeOK, Patience, Holdings
  <2>2. QED
    BY <1>9, <2>1 DEF PhotoReturns
<1>10. CASE LoadJpeg
  BY <1>10 DEF LoadJpeg
<1>11. CASE RepackJpeg
  BY <1>11 DEF RepackJpeg
<1>12. CASE PhotoDone
  <2>1. held' = {} /\ pc' = "idle"
    BY <1>12 DEF PhotoDone, FreeResult, IInv, Holdings
  <2>2. QED
    <3>1. BootTypes' /\ Exchange' /\ Good' /\ Blocks' /\ Slots' /\ Delay'
      BY <1>12, <2>1 DEF PhotoDone, FreeResult
    <3>2. photo' = surfaces /\ UNCHANGED <<surfaces, n>> /\ i' = i + 1 /\ bpc' = "post"
      <4>1. CASE i \in surfaces
        BY <1>12, <4>1 DEF PhotoDone
      <4>2. CASE i \notin surfaces
        <5>1. surfaces = photo
          BY <4>2
        <5>2. QED
          BY <1>12, <4>2, <5>1 DEF PhotoDone
      <4>3. QED
        BY <4>1, <4>2
    <3>3. Photos'
      BY <1>12, <3>2 DEF PhotoDone
    <3>4. QED
      BY <3>1, <3>3
<1>13. CASE OpenMock
  BY <1>13 DEF OpenMock, NextMock
<1>14. CASE SizeMock
  BY <1>14 DEF SizeMock, NextMock
<1>15. CASE ReadMock
  BY <1>15 DEF ReadMock, NextMock
<1>16. CASE DecodeMock
  BY <1>16 DEF DecodeMock, NextMock
<1>17. QED
  BY <1>1, <1>2, <1>3, <1>4, <1>5, <1>6, <1>7, <1>8, <1>9, <1>10, <1>11, <1>12, <1>13, <1>14,
     <1>15, <1>16 DEF BootStep

(* Every step of the boot keeps its invariant. *)
LEMMA BootNextInv == BootInv /\ IInv /\ [BootNext]_allVars => BootInv'
<1>1. ASSUME BootInv, UNCHANGED allVars PROVE BootInv'
  BY <1>1 DEF allVars, bootVars, httpVars, vars, BootInv, BootTypes, Exchange, Good, Blocks,
              Slots, Photos, Delay
<1>2. QED
  BY <1>1, BootStepKeeps, RequestStepKeeps DEF BootNext, Shown

(* The invariant of the request and that of the boot hold together. *)
LEMMA BootInvariant == BootSpec => [](BootInv /\ IInv)
<1>1. BootSpec => []IInv
  BY BootCallsRequests, Invariant, PTL
<1>2. QED
  BY <1>1, BootInitInv, BootNextInv, PTL DEF BootSpec

-----------------------------------------------------------------------------
(* Whatever failed on the way, the window opens with nothing held but the  *)
(* feed it shows.                                                          *)
THEOREM BootReleases == BootSpec => []BootReleasesAll
<1>1. BootInv => BootReleasesAll
  BY DEF BootInv, Exchange, Blocks, Waits, Answering, Decoding, BootReleasesAll
<1>2. QED
  BY BootInvariant, <1>1, PTL

(* A pointer to a photo is set only where there are pixels behind it, and  *)
(* only for a post that is shown.                                          *)
THEOREM BootPhotos == BootSpec => []PhotosDecoded
<1>1. BootInv => PhotosDecoded
  BY DEF BootInv, Photos, PhotosDecoded
<1>2. QED
  BY BootInvariant, <1>1, PTL

(* What is decoded or parsed is the body of a good answer to this request. *)
THEOREM BootBodies == BootSpec => []OnlyGoodBodies
<1>1. BootInv /\ IInv => OnlyGoodBodies
  BY DEF BootInv, Exchange, Good, IInv, Answered, Waits, Answering, Decoding, OnlyGoodBodies
<1>2. QED
  BY BootInvariant, <1>1, PTL

(* The window is at most two timeouts away for the feed and each photo.    *)
THEOREM BootDelay == BootSpec => []BootDelayBounded
<1>1. BootInv => BootDelayBounded
  BY DEF BootInv, Delay, BootDelayBounded
<1>2. QED
  BY BootInvariant, <1>1, PTL

(* What holds of one call of https_request holds of every call the boot    *)
(* makes, from the first to the last photo.                                *)
THEOREM BootRequests ==
  BootSpec => [](TypeOK /\ NothingLeaks /\ HeldWhenUsed /\ BufferBounds /\ BodyIsPrefix /\ FewTimeouts)
BY BootCallsRequests, RequestTypes, RequestReleases, RequestHolds, RequestBuffer, RequestBody,
   RequestPatience, PTL

(* To the boot each call is one request that fails or delivers.            *)
THEOREM BootImplementsFetch == BootSpec => ImplementsFetchSafely
BY BootCallsRequests, RequestImplementsFetch, PTL

-----------------------------------------------------------------------------
(* The initial states map to initial states.                               *)
LEMMA StartsStarting == BootInit => Abstract2!Init
BY DEF BootInit, Abstract2!Init

(* Two steps open a window; no other can be seen.                          *)
LEMMA WindowNext == BootInv /\ [BootNext]_allVars => [Abstract2!Next]_(Abstract2!vars)
<1> SUFFICES ASSUME BootInv, [BootNext]_allVars PROVE [Abstract2!Next]_(Abstract2!vars)
  OBVIOUS
<1>1. ASSUME bpc # "window", bpc' # "window" PROVE UNCHANGED Abstract2!vars
  BY <1>1 DEF Abstract2!vars
<1>2. ASSUME UNCHANGED <<bpc, have_real, n>> PROVE UNCHANGED Abstract2!vars
  BY <1>2 DEF Abstract2!vars
<1>3. CASE NextPost /\ i = n
  <2>1. bpc # "window" /\ bpc' = "window" /\ have_real' /\ n' = n /\ n \in 1 .. MaxRealPosts
    BY <1>3 DEF NextPost, BootInv, Slots, Loop
  <2>2. Abstract2!ShowReal
    BY <2>1 DEF Abstract2!ShowReal
  <2>3. QED
    BY <2>2 DEF Abstract2!Next
<1>4. CASE NextPost /\ i # n
  BY <1>1, <1>4 DEF NextPost
<1>5. CASE OpenMock /\ bpc' = "window"
  <2>1. bpc = "mock" /\ have_real' = have_real /\ ~have_real
    BY <1>5 DEF OpenMock, BootInv, BootTypes, Slots
  <2>2. Abstract2!ShowDemo
    BY <1>5, <2>1 DEF Abstract2!ShowDemo
  <2>3. QED
    BY <2>2 DEF Abstract2!Next
<1>6. CASE OpenMock /\ bpc' # "window"
  BY <1>1, <1>6 DEF OpenMock
<1>7. CASE \/ NetInit \/ BuildBody \/ AskTimeline \/ TimelineReturns \/ ParseFeed \/ FreeResp
           \/ CountPosts
  BY <1>1, <1>7 DEF NetInit, BuildBody, AskTimeline, TimelineReturns, ParseFeed, FreeResp,
                    CountPosts, ToDemo
<1>8. CASE \/ PhotoReturns \/ LoadJpeg \/ RepackJpeg \/ PhotoDone
           \/ SizeMock \/ ReadMock \/ DecodeMock
  BY <1>1, <1>8 DEF PhotoReturns, LoadJpeg, RepackJpeg, PhotoDone, SizeMock, ReadMock, DecodeMock,
                    NextMock
<1>9. CASE RequestStep \/ UNCHANGED allVars
  BY <1>2, <1>9 DEF RequestStep, allVars, bootVars
<1>10. QED
  BY <1>3, <1>4, <1>5, <1>6, <1>7, <1>8, <1>9 DEF BootNext, BootStep, Shown

(* The boot implements BootAbstract: all its requests, allocations and     *)
(* failures are one start, which opens one window, the real feed with one  *)
(* to MaxRealPosts posts or the demo feed, and never changes it again.     *)
THEOREM BootImplementsStart == BootSpec => ImplementsBootSafely
BY BootInvariant, StartsStarting, WindowNext, PTL DEF BootSpec, ImplementsBootSafely, Abstract2!SafeSpec
=============================================================================

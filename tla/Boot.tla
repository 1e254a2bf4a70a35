-------------------------------- MODULE Boot --------------------------------
(***************************************************************************)
(* ui/main.c and net/ig_client.c: from WinMain to the window.  The boot    *)
(* fetches the home feed and then one photo per post, each by a call of    *)
(* https_request; whatever fails, it ends in a window with the real feed   *)
(* or with the built-in demo feed.                                         *)
(*                                                                         *)
(* What a request carries is abstracted to what boot tells apart: whether  *)
(* the body is whole (a cut JSON text does not parse) and its status.      *)
(* Whether a whole body is a feed, how many posts it has, and whether a    *)
(* photo decodes is the server's choice.                                   *)
(***************************************************************************)
EXTENDS HttpsRequest

CONSTANTS
  MaxRealPosts,                       \* MAX_REAL_POSTS
  MaxItems,                           \* posts a parsed feed may have
  MockPhotos                          \* indexes of the demo photos on the CD

VARIABLES
  bpc,       \* the next step of the boot
  i,         \* the loop's index: post or demo photo
  n,         \* posts to show; 0 until a feed has been parsed
  feed,      \* NoFeed, or feed->count
  own,       \* heap blocks the boot itself holds
  surfaces,  \* real posts whose Surface has pixels
  photo,     \* real posts whose photo pointer is set
  mock,      \* demo photos decoded
  have_real,
  slow       \* timeouts waited out since the start

bootVars == <<bpc, i, n, feed, own, surfaces, photo, mock, have_real, slow>>
httpVars == vars
allVars == <<bootVars, httpVars>>

ASSUME BootAssumption ==
  /\ MaxRealPosts \in Nat \ {0} /\ MaxItems \in Nat
  /\ MockPhotos = 0 .. Cardinality(MockPhotos) - 1

NoFeed == -1

BootInit ==
  /\ Init
  /\ bpc = "net_init"
  /\ i = 0 /\ n = 0 /\ feed = NoFeed /\ own = {}
  /\ surfaces = {} /\ photo = {} /\ mock = {}
  /\ have_real = FALSE /\ slow = 0

(* Control passes to the demo feed. *)
ToDemo == bpc' = "mock" /\ i' = 0

-----------------------------------------------------------------------------
(* WinMain, ig_fetch_timeline *)

NetInit ==
  /\ bpc = "net_init"
  /\ \/ bpc' = "headers" /\ UNCHANGED i
     \/ ToDemo
  /\ UNCHANGED <<n, feed, own, surfaces, photo, mock, have_real, slow, httpVars>>

(* ig_build_headers cannot fail; ig_build_timeline_body can. *)
BuildBody ==
  /\ bpc = "headers"
  /\ \/ bpc' = "timeline" /\ own' = own \cup {"body"} /\ UNCHANGED i
     \/ ToDemo /\ UNCHANGED own
  /\ UNCHANGED <<n, feed, surfaces, photo, mock, have_real, slow, httpVars>>

AskTimeline ==
  /\ bpc = "timeline" /\ Call
  /\ bpc' = "timeline_wait"
  /\ UNCHANGED <<i, n, feed, own, surfaces, photo, mock, have_real, slow>>

(* Mutant: the request's text is freed only if there was an answer. *)
TimelineReturnsLeaking ==
  /\ bpc = "timeline_wait" /\ pc = "idle"
  /\ slow' = slow + waits
  /\ IF "result" \notin held THEN ToDemo /\ UNCHANGED own
     ELSE /\ bpc' = IF out_status = 200 THEN "parse_feed" ELSE "free_resp"
          /\ own' = own \ {"body"}
          /\ UNCHANGED i
  /\ UNCHANGED <<n, feed, surfaces, photo, mock, have_real, httpVars>>

(* Mutant: the status is not looked at. *)
TimelineReturnsAnyStatus ==
  /\ bpc = "timeline_wait" /\ pc = "idle"
  /\ own' = own \ {"body"}
  /\ slow' = slow + waits
  /\ IF "result" \notin held THEN ToDemo ELSE bpc' = "parse_feed" /\ UNCHANGED i
  /\ UNCHANGED <<n, feed, surfaces, photo, mock, have_real, httpVars>>

TimelineReturns ==
  /\ bpc = "timeline_wait" /\ pc = "idle"
  /\ own' = own \ {"body"}
  /\ slow' = slow + waits
  /\ IF "result" \notin held THEN ToDemo
     ELSE /\ bpc' = IF out_status = 200 THEN "parse_feed" ELSE "free_resp"
          /\ UNCHANGED i
  /\ UNCHANGED <<n, feed, surfaces, photo, mock, have_real, httpVars>>

(* A text cut short lacks its closing brace. *)
ParseFeed ==
  /\ bpc = "parse_feed"
  /\ bpc' = "free_resp"
  /\ \/ /\ result = msg.size
        /\ \E c \in 0 .. MaxItems : feed' = c
        /\ own' = own \cup {"feed"}
     \/ UNCHANGED <<feed, own>>
  /\ UNCHANGED <<i, n, surfaces, photo, mock, have_real, slow, httpVars>>

FreeResp ==
  /\ bpc = "free_resp" /\ FreeResult
  /\ IF feed = NoFeed THEN ToDemo ELSE bpc' = "count" /\ UNCHANGED i
  /\ UNCHANGED <<n, feed, own, surfaces, photo, mock, have_real, slow>>

-----------------------------------------------------------------------------
(* load_real_feed, fetch_photo *)

CountPosts ==
  /\ bpc = "count"
  /\ IF feed = 0
     THEN ToDemo /\ own' = own \ {"feed"} /\ UNCHANGED n
     ELSE /\ bpc' = "post" /\ i' = 0
          /\ n' = IF feed > MaxRealPosts THEN MaxRealPosts ELSE feed
          /\ UNCHANGED own
  /\ UNCHANGED <<feed, surfaces, photo, mock, have_real, slow, httpVars>>

(* A post without an image, or with a URL https_split_url cannot split,    *)
(* asks for nothing.                                                       *)
NextPost ==
  /\ bpc = "post"
  /\ IF i = n
     THEN /\ bpc' = "window" /\ have_real' = TRUE
          /\ UNCHANGED <<i, httpVars>>
     ELSE /\ \/ bpc' = "photo_wait" /\ Call /\ UNCHANGED i
             \/ bpc' = "post" /\ i' = i + 1 /\ UNCHANGED httpVars
          /\ UNCHANGED have_real
  /\ UNCHANGED <<n, feed, own, surfaces, photo, mock, slow>>

(* Mutant: what failed at once is tried again. *)
PhotoReturnsRetrying ==
  /\ bpc = "photo_wait" /\ pc = "idle"
  /\ slow' = slow + waits
  /\ IF "result" \notin held
     THEN bpc' = "post" /\ i' = IF waits = 0 THEN i ELSE i + 1
     ELSE bpc' = (IF out_status = 200 THEN "decode" ELSE "photo_done") /\ UNCHANGED i
  /\ UNCHANGED <<n, feed, own, surfaces, photo, mock, have_real, httpVars>>

(* Mutant: what timed out is tried again. *)
PhotoReturnsPatient ==
  /\ bpc = "photo_wait" /\ pc = "idle"
  /\ slow' = slow + waits
  /\ IF "result" \notin held
     THEN bpc' = "post" /\ i' = IF waits > 0 THEN i ELSE i + 1
     ELSE bpc' = (IF out_status = 200 THEN "decode" ELSE "photo_done") /\ UNCHANGED i
  /\ UNCHANGED <<n, feed, own, surfaces, photo, mock, have_real, httpVars>>

PhotoReturns ==
  /\ bpc = "photo_wait" /\ pc = "idle"
  /\ slow' = slow + waits
  /\ IF "result" \notin held
     THEN bpc' = "post" /\ i' = i + 1
     ELSE /\ bpc' = IF out_status = 200 THEN "decode" ELSE "photo_done"
          /\ UNCHANGED i
  /\ UNCHANGED <<n, feed, own, surfaces, photo, mock, have_real, httpVars>>

(* jpeg_decode.  stb_image's pixels, then a surface for them; the pixels   *)
(* are freed whether there is one or not.                                  *)
LoadJpeg ==
  /\ bpc = "decode"
  /\ \/ bpc' = "photo_done" /\ UNCHANGED own
     \/ bpc' = "repack" /\ own' = own \cup {"stb"}
  /\ UNCHANGED <<i, n, feed, surfaces, photo, mock, have_real, slow, httpVars>>

RepackJpeg ==
  /\ bpc = "repack"
  /\ bpc' = "photo_done"
  /\ surfaces' \in {surfaces, surfaces \cup {i}}
  /\ own' = own \ {"stb"}
  /\ UNCHANGED <<i, n, feed, photo, mock, have_real, slow, httpVars>>

(* Mutant: the pointer is set whether the photo decoded or not. *)
PhotoDoneAlways ==
  /\ bpc = "photo_done" /\ FreeResult
  /\ photo' = photo \cup {i}
  /\ bpc' = "post" /\ i' = i + 1
  /\ UNCHANGED <<n, feed, own, surfaces, mock, have_real, slow>>

(* free(body), and the pointer is set if fetch_photo returned 0. *)
PhotoDone ==
  /\ bpc = "photo_done" /\ FreeResult
  /\ photo' = IF i \in surfaces THEN photo \cup {i} ELSE photo
  /\ bpc' = "post" /\ i' = i + 1
  /\ UNCHANGED <<n, feed, own, surfaces, mock, have_real, slow>>

(* load_mock_photos: a photo that cannot be read or does not decode is     *)
(* left out, and the next is tried.                                        *)
NextMock == bpc' = "mock" /\ i' = i + 1

OpenMock ==
  /\ bpc = "mock"
  /\ \/ i \in MockPhotos /\ NextMock /\ UNCHANGED own
     \/ i \in MockPhotos /\ bpc' = "mock_size" /\ own' = own \cup {"file"} /\ UNCHANGED i
     \/ i \notin MockPhotos /\ bpc' = "window" /\ UNCHANGED <<i, own>>
  /\ UNCHANGED <<n, feed, surfaces, photo, mock, have_real, slow, httpVars>>

(* An empty file, and one there is no memory for. *)
SizeMock ==
  /\ bpc = "mock_size"
  /\ \/ NextMock /\ own' = own \ {"file"}
     \/ bpc' = "mock_read" /\ own' = own \cup {"bytes"} /\ UNCHANGED i
  /\ UNCHANGED <<n, feed, surfaces, photo, mock, have_real, slow, httpVars>>

(* The file is closed before it is known whether all of it was read. *)
ReadMock ==
  /\ bpc = "mock_read"
  /\ \/ NextMock /\ own' = own \ {"file", "bytes"}
     \/ bpc' = "mock_decode" /\ own' = own \ {"file"} /\ UNCHANGED i
  /\ UNCHANGED <<n, feed, surfaces, photo, mock, have_real, slow, httpVars>>

DecodeMock ==
  /\ bpc = "mock_decode"
  /\ NextMock
  /\ mock' \in {mock, mock \cup {i}}
  /\ own' = own \ {"bytes"}
  /\ UNCHANGED <<n, feed, surfaces, photo, have_real, slow, httpVars>>

(* pal_run_window takes over; see PalWindow. *)
Shown == bpc = "window" /\ UNCHANGED allVars

RequestStep == Step /\ UNCHANGED bootVars

BootStep ==
  \/ NetInit \/ BuildBody \/ AskTimeline \/ TimelineReturns \/ ParseFeed \/ FreeResp
  \/ CountPosts \/ NextPost \/ PhotoReturns \/ LoadJpeg \/ RepackJpeg \/ PhotoDone
  \/ OpenMock \/ SizeMock \/ ReadMock \/ DecodeMock

BootNext == BootStep \/ RequestStep \/ Shown

(* One thread, which does not stop: see Fairness of HttpsRequest. *)
BootSpec == BootInit /\ [][BootNext]_allVars /\ WF_allVars(BootStep \/ RequestStep)

-----------------------------------------------------------------------------
(* Properties *)

(* When the window opens every socket, TLS context, request, answer and    *)
(* body is released, and the parsed feed is still there exactly if the     *)
(* window shows it: the posts borrow its strings.                          *)
BootReleasesAll ==
  bpc = "window" => held = {} /\ own = (IF have_real THEN {"feed"} ELSE {})

(* A photo pointer is set only for a post that is shown and whose surface  *)
(* has pixels; no decoded surface is forgotten.                            *)
PhotosDecoded ==
  /\ photo \subseteq surfaces \cap 0 .. n - 1
  /\ bpc = "window" => photo = surfaces

(* The decoder and the JSON parser see the body of this very request, and  *)
(* only if its answer was 200.                                             *)
OnlyGoodBodies ==
  bpc \in {"decode", "parse_feed"} =>
    pc = "idle" /\ "result" \in held /\ out_status = 200 /\ msg.status = 200

(* The boot freezes for a bounded number of timeouts: two per request.     *)
BootDelayBounded == slow <= 2 * (1 + MaxRealPosts)

(* What a user sees of all this: a start that ends in one of two windows.  *)
Abstract2 == INSTANCE BootAbstract WITH
  stage <- IF bpc # "window" THEN "starting" ELSE IF have_real THEN "real" ELSE "demo",
  posts <- IF bpc = "window" /\ have_real THEN n ELSE 0

ImplementsBoot == Abstract2!Spec

(* The safety part of it: the last step chooses the window, and nothing    *)
(* before or after it can be told from outside.                            *)
ImplementsBootSafely == Abstract2!SafeSpec
=============================================================================

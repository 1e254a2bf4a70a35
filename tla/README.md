# A verification development for instagram-on-nt40

These modules model the native Instagram client for Windows NT 4.0 in this
repository: how it starts, how it talks to the server and reads its answers,
how it lays out and draws the feed and how its window answers to messages. TLC
checks every module on small instances; TLAPS proves the main results for all
values of the constants.

    tlc -workers 2 -config MCPalWindow.cfg MCPalWindow    # one run
    tlapm PalWindowProofs.tla                             # one proof module

## 1. The program

One process, one thread. `ui/main.c` runs a boot that blocks until it is done,
then hands over to the message loop of `pal/pal_win32.c`, which calls back into
`ui/feed.c`.

| part | state it keeps | operations | talks to |
|---|---|---|---|
| `ui/main.c`, `net/ig_client.c` -- boot | `g_real_posts`, `g_real_photos`, `g_real_feed`, `g_mock_imgs` | `WinMain`, `ig_fetch_timeline`, `load_real_feed`, `fetch_photo`, `load_mock_photos` | calls `https_request`, the JSON mapping and the decoders; passes callbacks to pal |
| `net/https_get.c` | none between calls; in a call a socket, five TLS contexts, request, buffer, response | `https_request`, `https_split_url` | mbedTLS over `pal/net_win32.c`; `core/http.c` |
| `pal/net_win32.c` | none (Winsock) | `pal_net_init`, `pal_tcp_connect`, `send_all`, `recv`, `close` | Winsock 1.1 |
| `core/http.c` | a response owns its copy, headers and decoded body | `http_build_request`, `http_parse_response`, `dechunk`, `http_response_free` | heap |
| `core/json.c`, `core/model*.c` | a DOM; a feed that owns its strings | `json_parse`, `json_free`, `feed_from_private_json`, `private_feed_free` | heap |
| `pal/pal_win32.c` -- window | `PalWindow`: back buffer, `w`, `h`, `scroll_y`; Windows' scroll bar and update region | the handlers of `wndproc` | calls `render`, `content_height`, `click` of the UI |
| `ui/feed.c` | `expanded` of each post | `ui_feed_content_height_real`, `ui_feed_render_real`, `ui_feed_click_real` and the demo feed's | `core/raster`, `core/font` |
| `core/font.c` | none | `font_draw_scaled`, `measure` | `core/raster` |
| `core/raster.c` | a surface | fill, blend, blit, downscale | heap |
| `img/qoi.c`, `img/jpeg.c` | none | encode, decode | heap |
| `net/ig_private.c`, `net/mbedtls_platform_nt4.c`, `pal/nt4_crt.c`, `pal/pal_common_win32.c` | a few statics | request building, platform glue, C runtime, log and files | Win32 |
| `net/*test_main.c`, `net/ig_feed_main.c` -- bring-up programs | Winsock, a socket, TLS contexts, heap blocks | one chain of calls each | the same libraries; not part of the client |
| tools, tests | | | not part of the client |

What is hard here. There are no threads, but there is reentrancy: setting the
scroll bar changes the client area, and Windows calls the window procedure from
inside that call. One position is kept in four places (the window's, Windows'
bar, the feed's own clamp, the glass). Three pieces of code walk the cards of
the feed, each for itself. The network code is a chain of fallible steps with
one `goto cleanup`, in which every step can fail, block or time out, and the
boot waits for it before there is a window. Much is decided at a boundary: a
full buffer, an empty feed, a viewport of no height, a line that just fits.

What makes each part correct:

* window: the offset is always one that the content has; Windows' bar and the
  glass follow it; a due repaint happens;
* feed: what is drawn, measured and clicked agree;
* captions: no text lost, repeated or cut unannounced;
* request: nothing leaks on any path, no use after release, no overrun, the body
  is of this answer, the call returns;
* answers: parsing stays in its buffers, ends, and yields what was sent or its
  beginning; a sequence of JSON tokens is accepted exactly when it is JSON of the
  depth allowed (how a token may be spelt is taken more loosely than `json.h` says,
  see "Disagreements"); each heap block has one owner, whichever allocation fails;
  the feed is the timeline, but for strings there was no memory for;
* drawing: no call draws outside its surface; what is drawn is as high and wide as
  what was measured;
* text: a buffer is large enough for what other code writes into it, and the
  program's own formatter, calendar and C library do what those they replace do;
* pictures: a QOI stream decodes to what was encoded, cut or whole;
* boot: it ends in a window with something in it; what the window borrows is
  alive; no photo pointer without pixels.

## 2. Modules

| module | models | kind |
|---|---|---|
| `PalWindow` | `pal/pal_win32.c`: `wndproc` and its helpers | state machine, constants for the UI's callbacks |
| `PalWindowProofs` | theorems on `PalWindow` | TLAPS |
| `Caption` | `measure` of `core/font.c`, `wrap_caption` and `caption_block` of `ui/feed.c` | operators |
| `FeedLayout` | card positions, content height, hit test, viewport clamp of `ui/feed.c` | operators, extends `Caption` |
| `FeedPost` | what a card, a demo card and the two bars draw | operators, extends `FeedLayout` |
| `FeedWindow` | the real feed in its window: `FeedLayout` and an instance of `PalWindow` | composition |
| `FeedWindowProofs` | theorems on `FeedWindow`, over an instance of `PalWindowProofs`, on captions (`MCCaption`), on drawing (`MCRaster`) and on what is measured of it (`MCDrawing`) | TLAPS |
| `Raster`, `Panels` | `core/raster.c`; the panels and gradients of `ui/feed.c` | operators on a memory of pixels |
| `Font` | `core/font.c`: the walk over UTF-8 when drawing and when measuring | operators |
| `HttpsRequest` | `https_request` with `pal_tcp_connect` | state machine |
| `Fetch` | what a caller of `https_request` relies on | abstract specification |
| `HttpResponse` | `http_parse_response`, `http_header`, `http_response_free` of `core/http.c` | state machine |
| `Dechunk` | `dechunk` of `core/http.c`, which `HttpResponse` runs | state machine |
| `HttpResponseProofs` | theorems on both | TLAPS |
| `RequestText` | `http_build_request`, `https_split_url` | operators |
| `JsonTree` | the values and accessors of `core/json.c` | operators |
| `JsonParser` | `json_parse`, `json_free` | state machine |
| `JsonParserProofs` | theorems on `JsonParser`, and on the properties of `MCJsonParser` | TLAPS |
| `JsonString` | `parse_string_raw`, `parse_number`, `json_int` | operators |
| `FeedModel` | `core/model_private.c` and `core/model.c` on the trees of `JsonTree` | state machine |
| `FeedModelProofs` | theorems on `FeedModel`, and on the properties of `MCFeedModel` | TLAPS |
| `Boot` | `ui/main.c`, `net/ig_client.c`, `img/jpeg.c`, `pal_read_file` over `HttpsRequest` | composition |
| `BootAbstract` | what the user sees of the start | abstract specification |
| `BootProofs` | theorems on `HttpsRequest`, and on `Boot` over those | TLAPS |
| `Qoi` | `img/qoi.c`: encoder, a stream that may be cut, decoder | state machine |
| `QoiProofs` | theorems on `Qoi` | TLAPS |
| `BringUp` | the four bring-up programs of `net/` | state machine over tables of calls |
| `BringUpProofs` | theorems on `BringUp` | TLAPS |
| `Formatter`, `Digits` | `net/mbedtls_platform_nt4.c`: `snprintf`, `time`, `gmtime` | operators |
| `IgPrivate` | `net/ig_private.c`: headers, body, ids and times of a request | operators |
| `Crt` | the memory and string functions of `pal/nt4_crt.c` | operators |
| `Trial` | a specification for what is an operator: try an input, remember the result | state machine |
| `MCCaption`, `MCRaster`, `MCDrawing` | trials of captions, of drawing and of measuring, with their properties | model checking and TLAPS |
| `MCText`, `MCOperators` | the other trials, and all of them together | model checking |
| other `MC*` | values for the constants of the runs | model checking |

Definitions that a comment calls a mutant are plausible bugs of the code; they
are used by nothing. Putting one in place of the definition after it breaks the
property it is listed with in `PROJECT.json`.

### PalWindow

One action per message. `phase`, `w`, `h`, `pixels`, `scroll_y` and `user` are
the fields of `PalWindow` in C; `frame`, `bar`, `sb`, `dirty` and `screen` are
what Windows keeps: the size of the window, whether the bar is visible, its
`SCROLLINFO`, the update region, and what the glass was last drawn from.
`screen` is a history variable in the sense that no handler reads it.

`sizing` is the reentrancy. `SetScrollInfo` without `SIF_DISABLENOSCROLL` hides
the bar when a page holds the whole range; that widens the client area, and
Windows sends `WM_SIZE` before the call returns. All that the interrupted handler
still does is `InvalidateRect`, which the nested handler does too, so the nested
`WM_SIZE` is modelled as a step that comes before any other message.
These rules of Windows (`ThumbLimit`, `BarNeeded`, `ClientW`, `ClientH`, no
input and no painting while minimised) are the external part of the module.

`CreateBackbuffer` may fail: the old buffer is gone, the size stays. The user's
data is behind the operators `ContentHeight` and `Click`, of which only what
`pal.h` says is assumed. Without a click callback `Click` returns its argument;
the early returns of `max_scroll` and `sync_scrollbar` for a NULL `content_height`
are left out, as the client never passes one. `Renderings` says whether `render`
may fail to draw the content for want of memory, which the window does not learn:
`screen.content` has what became of it. In the run of the window alone it never
fails; in `FeedWindow`, where it matters, it may at every paint.

### Caption, FeedLayout and FeedPost

A caption is a sequence of glyphs of four kinds (ASCII, Hangul of the table,
anything else, forced break), with the widths and byte lengths of `core/font.c`.
`CardHeight` is a function of width, post and whether it is expanded, so that TLC
computes each card once.
`ContentHeight`, `DrawnTop` and `HitTop` are three walks over the cards on
purpose, as in the code; likewise `MaxScroll` of `PalWindow` and `DrawnScroll`.
`CardsDrawn` is what `draw_scrollable` shows at a row: nothing outside of the
viewport, and no card at all if it could not allocate the surface that it draws
the cards on.
`FeedPost` is the fourth walk: the boxes that `draw_post` fills, from its own
running y. `DrawnAsMeasured` holds it against `CardHeight`, on which the other
three rest.

### Raster, Panels and Font

A surface is a record of base, width, height and stride in a memory of pixels, so
that a pixel out of place is one that belongs to somebody else. A pixel is a
colour component and its alpha: the code does the same to all three components.
The functions of `Raster` and `Panels` take a memory and give one. `Font` walks
a text byte by byte and gives the boxes it draws; which character has which bits
is data and left out, and the table of Hangul is a constant.

### HttpsRequest

`pc` is the next fallible step, `held` the set of what has been acquired and not
released. Bytes are counted in units, two for status line and headers, so that
an answer can be cut before, in and after them. `msg` is the whole answer the
peer would give to this request; `ReadSome` takes any non-empty part of it and
`ReadEnds` ends reading at any point, which stands for the end of the stream, a
`close_notify`, a reset and a timeout: the code treats them alike. `waits`
counts the timeouts waited out.

`http_parse_response` is reduced to whether it succeeds, which status it finds
and how many units of body (`Parsed`): a body with a length or with chunks is
cut to what arrived. The module has no run of its own: `MCBoot` runs it inside of
the boot, which makes each of its requests, and checks its properties there.

### HttpResponse and Dechunk

The head is a sequence of lines, each a unit that has arrived or not; the body
is bytes, as what `dechunk` looks at is one byte at a time. `len` says how much
arrived, so that an answer is cut in every place. `heap` holds the three kinds
of blocks of a response. A chunk size is a `long` that wraps around: the
Makefile's rule for the client has no `-O`, and the model is of that build. With
optimisation a compiler may conclude that a sum of digits is not negative and
drop that half of the test `clen <= 0`; nothing here is said of such a build.
`Byte` gives `"beyond"` for a read past the data, so that an over-read would be
seen in `out`.

What a peer means by an answer is part of the constant: `sent` is the body,
and `chunks` says where each chunk of it lies. `Honest` ties both to the head and
the bytes, in the words of the protocol and not of the parser: a chunk has digits
that give its size, a line that ends in the first line feed behind them, its part
of the body and an end of line; the last one is empty. Answers with `sent` =
`Unknown` are any bytes.

`HttpsRequest` keeps its own, coarser view of this parser (`Parsed`); `BodyIsSent`
is the reason why that view is right.

### JsonTree, JsonParser and JsonString

The recursive descent is a machine: `stack` has a frame for each `parse_array`
or `parse_object` that has not returned, `pc` is the place in the one on top,
`ret` the value just returned. `depth` is kept apart from the length of the
stack, as in the code, which lowers the one in some returns and leaves the other
to the C stack. Text is chosen token by token as the parser comes to it, so that
all texts are parsed and those with a common beginning share its states.

Heap blocks are numbers. Every frame, key and value has the set of blocks it
holds (`own`), `heap` is what is in use, and `Free` turns the heap into `Corrupt`
if a block is freed twice or was never in use. Every allocation may fail;
`starved` remembers that one did, and no step reads it.

How the tokens "string" and "number" are spelt is in `JsonString`: which bytes a
string takes, what its escapes and surrogates come to in UTF-8, and where a
number ends.

### FeedModel

Both mappings are one machine, which `api` tells apart: they differ in the
fields of a post, in where the items are, in which items are skipped, and in the
fallback to a thumbnail, which only the Graph API's has. There is one block per
string of a post; up to `MaxFailures` allocations fail. A NULL is `NoText`, which is
not the empty string: an empty string is a text, has a block and hides the
thumbnail. Which copies were lost is kept beside the posts (`lost`, `lostNext`), as
history that no step reads, so that `FeedIsTimeline` can ask that a field be NULL
only if the item has no such text or its copies failed. The document is one
resource. The two numbers of a post (likes, media type) are left out. The
documents are whatever the constant `Documents` holds; `MCFeedModel` builds them
from timelines, and then states `FeedIsTimeline` in terms of the timeline.

### Boot

`bpc` is the step of the boot; it calls `HttpsRequest` by its `Call` action and
goes on when that is idle again. What the network decides (does the JSON text
map to a feed, how many items, does stb_image accept the photo) is a choice; that
a text which was cut short cannot parse is not. `jpeg_decode` is two steps, since
the surface can fail when stb_image has not; reading a demo photo from disc is
four.

### Qoi

The encoder takes a pixel a step into a stream, the stream may lose its end, the
decoder makes a pixel a step of it. All arithmetic is that of the code: chunks
are bytes, differences wrap around in a `signed char`, sizes are four bytes.
Only the rows of the surface are gone: apart from the header neither side looks
at the width.

### BringUp

A program is a table of its calls: what a call uses, what it acquires if it
succeeds, what is released and where the program goes in either case. The table
is run by `Step`, `Receive` and `ReceiveEnds`. What the linear programs compute is
modelled where the client does it; here the question is which of their many ways
out releases what.

### Formatter, IgPrivate, RequestText, Crt

Operators. A format is a sequence of characters and directives, an output a
sequence of characters, numbers keep the 32 bits of a `long` and are split where
TLC's integers would overflow (`Gmtime` takes days and seconds, `Quot` and `Rem`
divide as C does). The constant strings of the session are the constants
`StaticHeaders` and `Template`. `RequestText` spells a request in pieces
(`"ContentLength"` is one), each with the length of its text.

### Trial and MCOperators

Operators have no behaviour of their own. `Trial` gives them one: a step away from
the start tries a function on one input of a set and remembers what it makes of
it, the next step goes back. Captions and months grow by a step instead. An
invariant then speaks of input and result.

## 3. Runs

| run | question | distinct states |
|---|---|---|
| `PalWindow` | does the window keep its four copies of the position together, whatever comes in whatever order, and does it repaint? | 819,000 |
| `FeedWindow` | does a click toggle what the glass shows? do pal and the feed clamp alike? | 1,276,000 |
| `Boot` | leaks, use after release, overrun, foreign or displaced body, unbounded waiting in any request of the boot; what holds when the window opens; is a request a `Fetch` and the boot `BootAbstract`? | 320,600 |
| `HttpResponse` | over-reads and overruns, leaks, foreign or displaced bytes in the body, endless loops | 250,500 |
| `JsonParser` | is a block lost or freed twice on any error path? is the tree the text? is a sequence of tokens refused that is JSON, or accepted that is not? | 141,400 |
| `FeedModel` | is each field what its item says unless its copy failed, and does the feed own its strings alone, for either API? | 447,900 |
| `Qoi` | does a picture survive, and a stream stay in its buffers? | 51,400 |
| `Operators` | is wrapping lossless and greedy and "more" honest? does drawing stay inside and agree with measuring? does text fit its buffers and say what it should? | 157,400 |
| `BringUp` | is anything used, freed or kept that should not be, on any way out? | 400 |
| `FeedAppBar`, `FeedResize`, `LongLong` | see "Disagreements" | fail |

The refinements carry the liveness of the two layers: `ImplementsFetch` that a call
returns, `ImplementsBoot` that the boot ends in a window. `Returns` is that the
parser of answers comes to an end, `Repaints` that a due repaint happens.
`JsonParser` has no such property: each of its steps takes a token or pops a
frame, and nothing in the code makes it doubtful.

### Bounds

* `PalWindow`: four window sizes: lower than the chrome, showing part of the
  feed at two widths, showing all of it. Two feed heights, which a click in the
  upper or lower half of the feed sets, and which grow with the width as square
  photos make them. So clamps bite from resize, from nested resize and from
  collapse, and the bar comes and goes. The sizes are multiples of the scroll
  steps only to keep the number of offsets small.
* `FeedWindow`: two posts, one with a caption that is cut, in a window that
  shows a part and one that shows all; clicks into the app bar, on either card
  and in the navigation bar; every paint with and without memory for the content.
* `Boot`: two slots and feeds of up to three posts, four demo photos; answers of
  every framing with bodies of 0 to 4 units, one that is refused and one that is
  not HTTP; a buffer of two units that has to double twice for the longest, a
  request written in up to three pieces.
* `HttpResponse`: bodies of up to three bytes, of a hex digit, a line feed and
  another byte, in one or two chunks, with and without an extension, and one of
  17 bytes, which takes two digits; plain bodies with a length, with more after
  it, and without one; repeated and junk headers. Besides all strings of up to
  five of `8`, `0`, CR and LF, which with a `long` of 8 bits hold sizes that wrap
  to zero, below zero and to smaller sizes.
* `JsonParser`: all texts of up to nine tokens over two strings and one
  literal, of documents two deep: two members of one object, an array in an
  object, each error after each of them, and one level more than is allowed. The
  grammar against which they are held is `Grammar` in `MCJsonParser`, which
  knows nothing of the parser.
* `FeedModel`: timelines of up to two items out of injections without media and
  posts with and without user, picture (or an empty one) and slides, or out of
  media with and without caption, with a picture, a thumbnail or both; each text is
  another one, so that none can be taken for another; with and without a cursor;
  five documents that are no timeline; two failing allocations, so that a picture
  and its thumbnail can both be lost.
* `Qoi`: all pictures of up to three pixels out of ten that lie on both sides of
  each decision of the encoder (see `Palette`); runs of 61 to 63 and 124, 125
  pixels, which are one and two chunks, at the beginning and after another pixel,
  to the end and not; five pixels that meet in one slot of the index; streams
  that lose up to 13 bytes, more than end marker and last chunk.
* `BringUp`: a receive buffer that doubles twice. The programs have no other
  data.
* `Operators`: rectangles and blits from left of and above a surface of three by
  two pixels to right of and below it, with negative and empty sizes, the surface
  being a window into a larger memory; all texts of up to five bytes over a
  newline, an ASCII byte and the bytes that begin and continue sequences of two
  to four, one byte less where they are cut to a width; captions of up to seven
  glyphs at widths from negative (the window is minimised) to wider than any; cards at the least width that has room for their
  icons, with no, short and cut captions; strings of up to three of every kind of
  escape and surrogate; numbers of up to six characters; every day from 1896 to
  2101 at three seconds; buffers of the sizes at which each piece of headers or
  body just fits and just does not.

### Fairness

* `NestedWmSize`, weak: it is a call, and a call that can be made is made.
* `WmPaint`, strong: Windows hands out `WM_PAINT` when the queue is empty. A
  person's input empties the queue again and again but can come in between, so
  the action is enabled infinitely often and not always. No message of a person
  is assumed to come.
* `Step` of `HttpsRequest`, weak: the function runs. That a blocking call comes
  back is what `SO_RCVTIMEO`, `SO_SNDTIMEO` and the `select` of
  `connect_with_timeout` are for; for `gethostbyname` it is the resolver's own
  timeout. A peer that sends one byte before each timeout keeps a call waiting
  for as long as its answer is long; answers are finite.
* `Parse` of `HttpResponse`, weak: sequential code that waits for nothing.
* `BootStep \/ RequestStep`, weak: one thread, which runs.

`Qoi`, `FeedModel`, `JsonParser` and the operators state safety only.

### Disagreements with the code's own statements

Three runs are expected to fail; each checks a statement of a comment.

* `FeedAppBar` -- `ui/feed.c` says of its early return "above the first card, or
  in the app bar". The test is on the row of the content, not of the window. In a
  scrolled feed a click in the app bar toggles the card behind it (likewise, not
  stated anywhere, in the navigation bar).
* `FeedResize` -- `pal.h` says the window recomposites on resize. At a window
  height between those of the feed laid out with and without the bar, hiding the
  bar makes the feed too high and showing it makes it fit: `sync_scrollbar` and
  the nested `WM_SIZE` call each other without end, and no repaint comes. This
  rests on the rules of `SetScrollInfo` above. For the real program it takes a
  feed that almost fits its window, one or two posts. The passing runs use sizes
  outside of that zone.
* `LongLong` -- `ig_private.h` says that the body of a timeline request has four
  "freshly computed" fields. Three are times printed with `%llu`, which is not
  among the conversions of the formatter that the same build links
  (`mbedtls_platform_nt4.c` lists them): it drops one `l`, does not know the
  other, and copies the rest. All three fields are the text `%lu`.

Not runs of their own:

* `https_get.h` says NULL "on any connect/TLS/HTTP failure". An answer that breaks
  off in its body is a success with the part that arrived; `Fetch` therefore
  promises a beginning. For the timeline the JSON parser refuses such a text; a
  photo may decode.
* `https_get.h` also says of a NULL return that the "status is left unset in that
  case". `CopyBody` leaves it as `ParseResponse` has set it when the allocation of
  the result fails; `Fetch` promises nothing of the status without a body. The
  callers in the client look at the body before the status (`OnlyGoodBodies`).
* `LINE_BUF_CAP` of `ui/feed.c` is said to be "generous headroom, not a real
  limit". A blank of six pixels can take four bytes; a card wider than 768 pixels
  holds a line of more than 511 bytes, and its end is not drawn.
* `json.h` says NULL "on syntax error". `parse_number` takes what RFC 8259 does
  not (`-.`, `01`, `1e`), and `parse_string_raw` takes a control character that is
  not escaped. `NumberIsRight` has it that every number is taken whole and that no
  more is taken than belongs to one, and not that nothing else is.
* `json.h` says that strings are "decoded (escapes + \uXXXX -> UTF-8)". A surrogate
  that is half of no pair is encoded as if it were a character, and a high one is
  joined with whatever escape follows it; neither comes to UTF-8. `StringIsRight`
  asks for UTF-8 of every string without one, and of those with one for the
  characters before it.
* `draw_scrollable` says nothing when it has no memory for the surface it draws the
  feed on: the glass shows an empty viewport until the next repaint. A click in
  that time still toggles the card that would be under it. `ClickHitsWhatIsSeen`
  has this as its one exception; the click makes a repaint due.
* The line under the app bar is drawn on row `BAR_H`, which is the first row of
  the viewport and covers one row of the feed (`BarsAsMeasured`).
* `%03d` of a negative number puts the zeros before the sign, unlike C99; no
  caller prints one.
* `tools/mkqoi.c` calls a glow "blended"; it is drawn with `surface_fill_rect`,
  which replaces pixels.

## 4. What is proved

`PalWindowProofs`, for all sizes, chrome heights, bar widths, wheel deltas and
feeds, and all callbacks that return an integer height and a state of the feed:

* `WindowTypes`, `WindowScroll`, `WindowBar`, `WindowScreen`: `TypeOK`,
  `ScrollInRange`, `BarInStep` and `ScreenCurrent` are invariants of `Spec`.

The inductive invariant is their conjunction with `NotPaintedYet` (a window that
is not yet created has all of it to be painted). They need each other: a click
leaves a state of the feed only for an offset in range (`ClickAssumption`), so
`TypeOK` needs `ScrollInRange`; the thumb is in step after a scroll only if the
range it was set from is in step. The proof has a lemma for each helper of the
code (`Clamp`, `MaxScroll`, `create_backbuffer`, `sync_scrollbar`, the common
tail of the scroll handlers) and one step for each handler.

`BootProofs`, first on `HttpsRequest`, for all sets of answers, request lengths and
buffer sizes:

* `RequestTypes`, `RequestReleases`, `RequestHolds`, `RequestBuffer`,
  `RequestBody`, `RequestPatience`: the six invariants of the run;
* `RequestImplementsFetch`: the safety part of `Fetch` under the refinement
  mapping of `HttpsRequest`.

The inductive invariant says exactly what is held at each step (`Holdings`),
how many timeouts may have passed (`Patience`), that the buffer holds a prefix of
this answer (`Filling`) and that a parsed answer is this one (`Answered`). None of
the six is inductive: that the body is a prefix at the end follows from what was
in the buffer four steps before, that nothing leaks from what each step held.

`HttpResponseProofs`, for all answers, cut anywhere, all digit values and all
widths of a `long`:

* `ResponseBuffers`: `StaysInBuffers`. It is not inductive, since it says nothing
  of the size just read. What is kept is that p is at most one past the data
  and the output shorter than what p has passed (`Behind`), together with the
  types (`DecodeTypes`); a chunk keeps it because it is cut to what is left after
  the test for non-positive sizes, whatever a size wrapped around to
  (`DecodeKeeps`). The decoder starts from what arrived of the body, which is a
  sequence of bytes only because the head has arrived whole (`Place`).
* `ResponseHolds`: `HoldsWhatItShows`, from the blocks in use at each step
  (`Blocks`).
* `ResponseBody`: `BodyIsSent`, for every answer whose body is known
  (`MessagesAssumption`): it is what `Honest` says, and each chunk has any number
  of digits whose value fits into a `long`, any extension, any data. While the
  head is read, the first header of each name is the first line of that name so
  far (`Met`), so that the parser finds the framing the peer used
  (`FramingFound`). A body that is not chunked is then cut to what was sent and
  what arrived (`PlainIsSent`). A chunked one is decoded along its chunks: the
  decoder is at one place of one chunk and has decoded what stands before it, or
  the data has ended before the body did and there is nothing left to read
  (`Following`, with one lemma for each turn of the loop). The skipping of line
  ends after a chunk stops at the next one because a digit is not a line end
  (`DechunkAssumption`).

`BootProofs`, then on `Boot`, for all answers, numbers of slots, posts and demo
photos:

* `BootRequests`: the invariants of a request hold in each of the boot's. Every
  step of the boot is a step of `HttpsRequest` or leaves its variables alone
  (`BootStepIsRequestStep`), so that a boot is a behaviour of `HttpsRequest`
  (`BootCallsRequests`) and what is proved of that applies; `BootImplementsFetch`
  follows in the same way.
* `BootReleases`, `BootPhotos`, `BootBodies`, `BootDelay`: `BootReleasesAll`,
  `PhotosDecoded`, `OnlyGoodBodies` and `BootDelayBounded`.
* `BootImplementsStart`: the safety part of `BootAbstract`.

The inductive invariant says what the boot owns at each step (`Blocks`), that one
request is under way at most and its answer held until the boot is through with
it (`Exchange`), which slots and photos are filled (`Slots`, `Photos`), and how
many timeouts may have passed (`Delay`). `OnlyGoodBodies` needs `Good`: what was a
status 200 when it was looked at still is one when the body is used, since no
request comes between.

`JsonParserProofs`, for all texts, all depths and whichever allocations fail:

* `ParserOwnsOnce`: `OwnedOnce`. The blocks of the frames, of their keys and of
  the value being returned are disjoint (`Apart`) and are all there is
  (`Placed`); a frame holds a key only from its colon to the end of its value, and
  only one value is in flight (`Control`). Nothing of the tree is used, since
  ownership does not depend on what the text says.
* `ParserReadsText`: `TreeIsText`. `Spelling` in `MCJsonParser` is a recursive
  function, from trees to the tokens they stand for. That it exists is shown by
  well-founded induction on pairs of a limit on the depth and a number of members
  (`Below`). At every step but those that fail, the text read so far is what the
  frames from the outermost in await, one behind the other, followed by what is
  being returned (`Accounted`): a comma is owed once there is a member, a key once
  it is read. A value returned into a frame spells one level less than the frame
  may (`Inside`), which bounds the depth of the tree by `MaxDepth`.
* `NestingIsBounded`: the stack is as deep as `depth` says and never deeper than
  the limit. No run lists it; `NullHasReason` has the limit reached.

`FeedModelProofs`, for all documents of either API and whichever copies fail:

* `FeedOwnsStrings`: `FeedOwnsItsStrings`. What is in use at each step is the
  document, the feed, its array and the copies the posts point at
  (`Holdings`). A post adds exactly its strings (`PostAdds`), and the blocks of two
  posts or two fields differ (`StringsAreApart`), so that none is freed twice.
* `FeedFollowsTimeline`: `FeedIsTimeline`. The document is built from a timeline of
  any length out of the items of the run. That each field of an item is found where
  the mapping looks for it is worked out once for each kind of item (`Reads`). The
  mapping is then at an item of the timeline, and its posts are those of the items
  before it that have media (`Follows`, `ShownBy`): each item shown is one of the
  timeline, later ones stand later, and none that has media is left out. A field is
  the first of the texts the item has for it that was copied (`PostMatches`), and so
  is the cursor (`NextKept`). A document
  that is no timeline has no item with media (`NoMedia`).

`FeedWindowProofs`, for all captions, window sizes and orders of messages:

* `FeedClampsAgree`, `FeedClickHits`, `FeedToggles`: `ClampsAgree`,
  `ClickHitsWhatIsSeen` and `ToggleKeepsAbove`. Whether the content could be drawn
  is free at each paint; on a glass without cards the click's toggle is the one
  that the glass would have shown, and is followed by a repaint.

The walks over the cards and the wrapping of a caption are recursive functions.
What is said of them goes by induction over the number of cards or glyphs, and
that by the least number for which it fails (`LeastNatural`, `UpFrom`), in sets of
numbers: a function that satisfies the recursion exists (`SumsExist`,
`ChainsExist`), so the definition is one, and its values are integers or sequences.
From there: a card has a positive height however its caption wraps
(`CardHeights`), the walk of the hit test and that of drawing give the same rows
(`TopsAgree`), cards do not overlap (`CardsAreApart`), and a click leaves the rows
above it (`TopsStay`). That makes the feed's callbacks what `PalWindow` assumes of
any (`PalAssumptions`), and the invariant of `PalWindowProofs`, by way of an
instance, holds here (`PalInvariant`). That the two clamps agree then needs the
offset in range, which is the window's doing, and the content height, which is
the feed's.

The same module, for all captions, widths, caps on lines and line buffers:

* `CaptionsKeepText`, `CaptionsFillLines`, `CaptionsHideMore`: `WrapKeepsText`,
  `WrapIsGreedy` and `MoreMeansMore`, invariants of `CaptionSpec` in `MCCaption`.

Lines are a chain, each one beginning where the one before ended or behind the break
there (`WrapsLinked`). A line ends at the least position where the next glyph does
not fit (`FitEndIsFirst`); `AdvanceAdds` says that the width of a run is the sum of
its glyphs', so that "does not fit" is said of the whole line. What is drawn is
copied into a buffer whose fill grows by the bytes of each glyph (`BytesAdd`) and
stops where the next would not fit (`CopiedFills`); the line of a collapsed caption
that carries the suffix is wrapped to a smaller width and therefore a part of the
full one (`LessRoomLess`, `ShortIsPart`), and its buffer is large enough, so that
"more" hides something and only "more" does.

And for every surface, with or without a gap between its rows, every memory,
rectangle and picture:

* `DrawingStaysInside`: `DrawsClipped`, an invariant of `RasterSpec` in `MCRaster`.

An address is one point of a surface at most (`Position`, from division being
unique). `Clip` is the intersection with the surface and so the pixels touched are
those of the rectangle on the surface (`ClipIs`, `CellsTouched`). Frames and panels
are four lines each, whose overlap at the corners comes out as asked, for
rectangles of all sizes, negative ones too (`Beveled`, `Framed`, `Paneled`);
gradients go row by row (`RowGraded`). A blit is clipped twice, on the source and
on the target; the two are taken apart by coordinates, and one lemma about one axis
serves for both (`ClippedOnce`, `MovedArrived`). A blended pixel stays between the
two it is made of (`BlendStays`), and in a picture made smaller each pixel of the
larger falls to exactly one of the smaller (`SpanIs`). The colours of a name are
those of a hash that is a recursive function of it (`HashesExist`). Coordinates are
integers without bounds: what is shown is about calls whose sums fit an `int`.

And for every table of Hangul, every set of texts without a NUL, every width to cut
at and every card and bar that has room for its icons:

* `DrawingAsMeasured`: `DrawnAsMeasured`, an invariant of `DrawingSpec` in
  `MCDrawing`.

Drawing and measuring are two walks over the bytes of a text, which find the
characters each for itself. A walk comes to its stop because it leaves fewer bytes
to go (`IsWay`, `WalkEnds`), so that the function it is defined by exists
(`WalksExist`) and can be reasoned about from the end of the text to its beginning.
The least that has to be shown is that neither steps over the NUL: a sequence whose
continuation bytes are there ends in the text (`SeqLenFits`). Then pen and ruler
are equally far at every byte (`WidthsAgree`), but for the gap in front of the
first character. Of a text that is cut, the pen of the part and that of the whole
stay together up to the cut (`CutAt`), and from there the whole draws what the rest
draws by itself, moved (`RestAt`): a character that begins in either part ends in
it. A width that is said to fit does, unless it is that of a single character, which
is never left out (`WidthFits`, which makes "fits, or 5 or 18" the statement to
carry along). The rows of a card follow from how many lines its caption shows
(`RowsAre`, `CardDrawn`), and those are counted by `WrapIsLines`. The likes need the
digits of a number to say that number again (`NumeralsSay`) and to be ten at most
(`TenDigits`), which the buffer of 24 has room for (`LikesDrawn`).

`QoiProofs`, for all sets of pictures:

* `EncoderFits`: `StreamFits`. A pixel takes at most five bytes and a pending run
  one, so that the stream is never longer than header and five bytes for each
  pixel taken (`Room`); a run's byte is paid by the pixels of the run. The
  decoder's half follows from the tests before each chunk.
* `PicturesSurvive`: `PictureSurvives`. A trace (`Trace`) is the list of what the
  decoder would be after each pixel of a stream. While encoding, the stream so
  far has a trace that shows the pixels taken but for the pending run, and its
  last state stands at the end of the stream with the encoder's last pixel and a
  table that agrees with the encoder's (`Written`, `Taken`). The tables agree in
  all slots but one (`Agree`): a run of the pixel before the first, opaque black,
  is entered by the decoder only, in slot 53. That does no harm, since the encoder
  has there the zeros it began with, which are not a pixel of that slot
  (`AgreeMeans`). Each kind of chunk is decoded to the pixel it was chosen for
  (`ChunkMeans`, with the wrapped differences undone by `CharBack` and
  `LumaBack`), and bytes that follow change nothing (`DecodesMore`). While
  decoding, the decoder is where the trace has it until the data ends (`Told`).
  `Trace` says that a function has certain values, so that no recursion is
  needed.

`BringUpProofs`, for every buffer size and any amount received:

* `ProgramsExitClean`, `ProgramsUseWhatTheyHold`: `ExitsClean` and
  `UsesWhatItHolds`.

The invariant annotates the four programs: at each label it says what is held for
certain, what may be held besides (the buffer, which one way to the label has
allocated and another has not) and what may have been released (`Sure`, `Maybe`,
`Past`). Each call is shown to lead from the annotation of its label to those of
the labels behind it (`Fits`), whether it succeeds or fails; a run only follows
the calls.

Assumptions: those of the modules (`WindowAssumption`, `HeightAssumption`,
`ClickAssumption`, `RequestAssumption`, `BootAssumption`, `DechunkAssumption`,
`MessagesAssumption`, `JsonAssumption`, `FeedModelAssumption`,
`MCFeedModelAssumption`, `JsonTreeAssumption`, `CaptionAssumption`, `MCCaptionAssumption`,
`MCRasterAssumption`, `FontAssumption`, `MCDrawingAssumption`, `FeedAssumption`, `FeedWindowAssumption`,
`PicturesAssumption`, `BringUpAssumption`), which TLC evaluates in the runs. In
`FeedWindow` those of `PalWindow` are proved, not assumed.

Only model-checked:

* liveness: `Repaints`, `Returns` and the fairness part of the two refinements,
  which need `ENABLED`;
* `NullHasReason`, that the parser refuses a text only if no JSON text begins like
  it or for want of memory: it compares with an enumeration of the grammar up to a
  length, and in general would need that every text the parser still reads can be
  completed;
* `TextFits` and `TextIsRight`: text is walked byte by byte or directive by
  directive and held against a reference of its own for each of some twenty
  functions. They are tried on concrete inputs, whose sets are chosen for
  the boundaries of each function.

## 5. Not modelled

* the vendored mbedTLS and stb_image, and the order of the channels when the
  bytes of stb_image are repacked into pixels;
* data: the glyphs of the font, the table of Hangul, the certificates, the
  session's constant strings (which have names here and no text);
* GDI: the window class, and how the back buffer gets to the screen;
* the wrappers of the Win32 heap, the entry point and the log: one call each, and
  they decide nothing;
* tools, scripts, the mock servers and the tests, which run on the host;
* the likes and the media type of a post, which decide nothing;
* 32-bit overflow of sizes and offsets, apart from chunk sizes, pictures, times
  and the formatter: the largest real values (a feed of eight cards, an answer of
  some megabytes) are far below it;
* the time itself: a timeout is a step that is counted. `gethostbyname` has no
  timeout of this program's.

## 6. Plan

Done: 1 `PalWindow` and its proofs; 2 `Caption`, `FeedLayout`, `FeedWindow`;
3 `HttpsRequest`, `Fetch` and their proofs; 4 `Boot`, `BootAbstract`;
5 `HttpResponse`, `Dechunk` and their proofs; 6 `JsonTree`, `JsonParser`,
`FeedModel`; 7 `Qoi` and the proof about its buffer; 8 `Raster`, `Panels`, `Font`,
`FeedPost`; 9 `RequestText`, `JsonString`, `Crt`; 10 `IgPrivate`, `Formatter`;
11 `BringUp`;
12 proofs for `Boot`; 13 for the ownership of blocks in `JsonParser`; 14 for that of
strings in `FeedModel`; 15 for `FeedWindow` on top of `PalWindow`; 16 that a picture
survives `Qoi`; 17 that `HttpResponse` finds the body that was sent; 18 that
`JsonParser` reads the text and 19 that a feed is its timeline; 20 the ways out of the
bring-up programs; 21 the wrapping of captions; 22 that drawing stays on its surface
and 23 that it is as measured.

What would come next: the buffers of `TextFits`, one function after another;
what is known of digits (`NumeralsSay`, `TenDigits`) would serve the formatter too.

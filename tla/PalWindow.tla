----------------------------- MODULE PalWindow -----------------------------
(***************************************************************************)
(* pal/pal_win32.c: the main window -- its back buffer, its vertical       *)
(* scroll bar and the message handlers of wndproc.  One thread runs the    *)
(* message loop, so a handler is one step, with one exception the code     *)
(* cannot avoid: SetScrollInfo shows or hides the bar, which changes the   *)
(* client width, and Windows then sends WM_SIZE from inside that call.     *)
(* The nested WM_SIZE is a step of its own (NestedWmSize); no other        *)
(* message can come between it and the handler it interrupts.  What that   *)
(* handler has left to do is InvalidateRect, which the nested WM_SIZE does *)
(* too, so it is drawn into the handler's first step.                      *)
(*                                                                         *)
(* pal knows nothing of the feed: the feed is the state `user` behind      *)
(* the callbacks of pal.h, here constant operators.  render returns        *)
(* nothing: if it cannot draw its content, pal does not learn of it.       *)
(* pal.h lets content_height be NULL too, for which max_scroll and         *)
(* sync_scrollbar return at once; the client always has one.               *)
(***************************************************************************)
EXTENDS Integers

CONSTANTS
  ChromeH,              \* chrome_h: height of the bars that do not scroll
  BarWidth,             \* what a visible scroll bar takes from the client width
  Frames,               \* sizes a person can give the window (bar included)
  Users, InitUser,      \* states of *user, and the first one
  ContentHeight(_, _),  \* pal_height_fn: width, user
  Click(_, _, _, _),    \* pal_click_fn: y, scroll_y, width, user -> *user afterwards
  ClickYs,              \* heights at which a person clicks
  Drags,                \* thumb positions a person drags to
  WheelDeltas,          \* signed wheel movements, 120 to a notch
  Renderings            \* pal_render_fn: does it find memory for the content?

VARIABLES
  phase,     \* "none" before WM_CREATE, "open", "quit" after WM_DESTROY
  w, h,      \* pw.w, pw.h
  pixels,    \* pw.fb.pixels # NULL
  scroll_y,  \* pw.scroll_y
  user,      \* *pw.user
  frame,     \* the window's size as Windows keeps it
  bar,       \* is the scroll bar visible?
  sb,        \* Windows' SCROLLINFO of the bar
  sizing,    \* a nested WM_SIZE is due
  dirty,     \* the update region is not empty: a WM_PAINT is due
  screen     \* what the rendering on the glass was drawn from, and whether
             \* render found the memory to draw the content with

vars == <<phase, w, h, pixels, scroll_y, user, frame, bar, sb, sizing, dirty, screen>>

AtLeast(x, lo) == IF x < lo THEN lo ELSE x
AtMost(x, hi) == IF x > hi THEN hi ELSE x

Minimised(f) == [f EXCEPT !.iconic = TRUE]
FrameStates == Frames \cup {Minimised(f) : f \in Frames}

(* The client area: GetClientRect, and lParam of WM_SIZE. *)
ClientW(f, b) == IF f.iconic THEN 0 ELSE AtLeast(f.width - (IF b THEN BarWidth ELSE 0), 0)
ClientH(f) == IF f.iconic THEN 0 ELSE f.height

(* The widths and heights the back buffer can have: 0 before its first     *)
(* creation; a creation raises 0 to 1.                                     *)
BufferWidths == {0, 1} \cup {AtLeast(ClientW(f, b), 1) : f \in Frames, b \in BOOLEAN}
BufferHeights == {0, 1} \cup {AtLeast(ClientH(f), 1) : f \in Frames}

ASSUME WindowAssumption ==
  /\ ChromeH \in Nat /\ BarWidth \in Nat
  /\ Frames \subseteq [width : Nat, height : Nat, iconic : {FALSE}]
  /\ InitUser \in Users
  /\ ClickYs \subseteq Int /\ Drags \subseteq Int /\ WheelDeltas \subseteq Int
  /\ Renderings \subseteq BOOLEAN

ASSUME HeightAssumption ==
  \A cw \in BufferWidths, u \in Users : ContentHeight(cw, u) \in Int

ASSUME ClickAssumption ==
  \A cw \in BufferWidths, u \in Users :
    \A s \in 0 .. AtLeast(ContentHeight(cw, u), 0), y \in ClickYs : Click(y, s, cw, u) \in Users

-----------------------------------------------------------------------------
(* Scrolling *)

MaxScroll(cw, ch, u) ==
  AtLeast(ContentHeight(cw, u) - AtLeast(ch - ChromeH, 0), 0)

Clamp(y, m) == AtLeast(AtMost(y, m), 0)

(* External: where the thumb of a bar with this range and page can be.     *)
ThumbLimit(s) == AtLeast(s.max - s.page + 1, 0)

(* External: the bar goes when one page shows the whole range. *)
BarNeeded(s) == s.page <= s.max

SetScrollInfo(max, page, pos) ==
  LET s == [max |-> max, page |-> page, pos |-> 0]
  IN /\ sb' = [s EXCEPT !.pos = Clamp(pos, ThumbLimit(s))]
     /\ bar' = BarNeeded(s)
     /\ sizing' = (ClientW(frame', bar') # ClientW(frame', bar))

(* Mutant: the range is set, the offset not clamped. *)
SyncScrollbarUnclamped(cw, ch, u) ==
  /\ UNCHANGED scroll_y
  /\ SetScrollInfo(AtLeast(ContentHeight(cw, u) - 1, 0), AtLeast(ch - ChromeH, 1), scroll_y)

SyncScrollbar(cw, ch, u) ==
  LET content == ContentHeight(cw, u)
      m == MaxScroll(cw, ch, u)
  IN /\ scroll_y' = Clamp(scroll_y, m)
     /\ SetScrollInfo(AtLeast(content - 1, 0), AtLeast(ch - ChromeH, 1), scroll_y')

(* Mutant: no SetScrollPos. *)
ScrollToWithoutThumb(target) ==
  /\ scroll_y' = Clamp(target, MaxScroll(w, h, user))
  /\ dirty' = (dirty \/ scroll_y' # scroll_y)
  /\ UNCHANGED <<phase, w, h, pixels, user, frame, bar, sb, sizing, screen>>

(* Mutant: no InvalidateRect. *)
ScrollToWithoutRepaint(target) ==
  /\ scroll_y' = Clamp(target, MaxScroll(w, h, user))
  /\ sb' = [sb EXCEPT !.pos = Clamp(scroll_y', ThumbLimit(sb))]
  /\ UNCHANGED <<phase, w, h, pixels, user, frame, bar, sizing, dirty, screen>>

(* The tail that scroll_by and WM_VSCROLL share. *)
ScrollTo(target) ==
  LET y == Clamp(target, MaxScroll(w, h, user))
  IN /\ scroll_y' = y
     /\ IF y = scroll_y
        THEN UNCHANGED <<sb, dirty>>
        ELSE /\ sb' = [sb EXCEPT !.pos = Clamp(y, ThumbLimit(sb))]   \* SetScrollPos
             /\ dirty' = TRUE                                        \* InvalidateRect
     /\ UNCHANGED <<phase, w, h, pixels, user, frame, bar, sizing, screen>>

Page == AtLeast(h - ChromeH - 20, 40)

-----------------------------------------------------------------------------
(* Back buffer *)

(* Mutant: width and height swapped. *)
CreateBackbufferSwapped(cw, ch) ==
  pixels' = TRUE /\ w' = AtLeast(ch, 1) /\ h' = AtLeast(cw, 1)

(* CreateDIBSection fails when GDI is out of memory; w and h stay then.    *)
CreateBackbuffer(cw, ch) ==
  \/ /\ pixels' = TRUE
     /\ w' = AtLeast(cw, 1)
     /\ h' = AtLeast(ch, 1)
  \/ /\ pixels' = FALSE
     /\ UNCHANGED <<w, h>>

-----------------------------------------------------------------------------
(* wndproc *)

Init ==
  /\ phase = "none"
  /\ w = 0 /\ h = 0 /\ pixels = FALSE /\ scroll_y = 0
  /\ user = InitUser
  /\ frame \in Frames
  /\ bar = TRUE                                  \* WS_VSCROLL
  /\ sb = [max |-> 100, page |-> 0, pos |-> 0]   \* Windows' initial range
  /\ sizing = FALSE
  /\ dirty = TRUE
  /\ screen = [width |-> 0, height |-> 0, scroll |-> 0, user |-> InitUser, content |-> FALSE]

(* The loop hands out a message only between handlers. *)
Idle == phase = "open" /\ ~sizing

(* A minimised window gets neither mouse nor keyboard nor WM_PAINT. *)
Usable == Idle /\ ~frame.iconic

WmCreate ==
  /\ phase = "none"
  /\ phase' = "open"
  /\ UNCHANGED <<frame, user, dirty, screen>>
  /\ CreateBackbuffer(ClientW(frame, bar), ClientH(frame))
  /\ SyncScrollbar(w', h', user)

WmSize(f) ==
  /\ frame' = f
  /\ CreateBackbuffer(ClientW(f, bar), ClientH(f))
  /\ SyncScrollbar(w', h', user)
  /\ dirty' = TRUE
  /\ UNCHANGED <<phase, user, screen>>

UserResize == Idle /\ \E f \in FrameStates : WmSize(f)

NestedWmSize == phase = "open" /\ sizing /\ WmSize(frame)

(* Line, page, top, bottom and thumb requests; SB_ENDSCROLL asks for nothing. *)
WmVScroll ==
  /\ Usable
  /\ \E y \in {scroll_y - 40, scroll_y + 40, scroll_y - Page, scroll_y + Page,
               0, MaxScroll(w, h, user), scroll_y}
             \cup {AtMost(d, ThumbLimit(sb)) : d \in Drags} : ScrollTo(y)

(* Arrows, page keys, Home and End; any other key is no scroll at all.     *)
WmKeyDown ==
  /\ Usable
  /\ \E delta \in {-40, 40, -Page, Page, -1073741824, 1073741824, 0} :
       ScrollTo(scroll_y + delta)

(* C division drops the part of a notch. *)
Notches(d) == IF d >= 0 THEN d \div 120 ELSE -((-d) \div 120)

WmMouseWheel ==
  /\ Usable
  /\ \E d \in WheelDeltas : ScrollTo(scroll_y - Notches(d) * 48)

WmLButtonDown(y) ==
  /\ Usable
  /\ user' = Click(y, scroll_y, w, user)
  /\ UNCHANGED <<phase, w, h, pixels, frame, screen>>
  /\ IF user' # user
     THEN SyncScrollbar(w, h, user') /\ dirty' = TRUE
     ELSE UNCHANGED <<scroll_y, sb, bar, sizing, dirty>>

UserClick == \E y \in ClickYs : WmLButtonDown(y)

(* render and BitBlt: the content is on the glass, or there was no memory  *)
(* to draw it with.                                                        *)
Rendered ==
  \E drawn \in Renderings :
    screen' = [width |-> w, height |-> h, scroll |-> scroll_y, user |-> user, content |-> drawn]

(* Mutant: nothing validates the update region. *)
WmPaintUnvalidated ==
  /\ Usable /\ dirty /\ pixels
  /\ Rendered
  /\ UNCHANGED <<phase, w, h, pixels, scroll_y, user, frame, bar, sb, sizing, dirty>>

(* Without pixels the handler returns before BeginPaint: nothing changes.  *)
WmPaint ==
  /\ Usable /\ dirty /\ pixels
  /\ Rendered
  /\ dirty' = FALSE
  /\ UNCHANGED <<phase, w, h, pixels, scroll_y, user, frame, bar, sb, sizing>>

WmDestroy ==
  /\ Idle
  /\ phase' = "quit"
  /\ pixels' = FALSE
  /\ UNCHANGED <<w, h, scroll_y, user, frame, bar, sb, sizing, dirty, screen>>

(* GetMessage has returned 0 and pal_run_window with it. *)
Terminated == phase = "quit" /\ UNCHANGED vars

Next ==
  \/ WmCreate \/ UserResize \/ NestedWmSize
  \/ WmVScroll \/ WmKeyDown \/ WmMouseWheel \/ UserClick
  \/ WmPaint \/ WmDestroy \/ Terminated

(* A nested WM_SIZE is a call, so it runs.  WM_PAINT is handed out when no *)
(* other message waits: a person's input leaves the queue empty again and  *)
(* again, hence strong fairness and not more.                              *)
Fairness == WF_vars(NestedWmSize) /\ SF_vars(WmPaint)

Spec == Init /\ [][Next]_vars
FairSpec == Spec /\ Fairness

-----------------------------------------------------------------------------
(* Properties *)

TypeOK ==
  /\ phase \in {"none", "open", "quit"}
  /\ w \in BufferWidths /\ h \in BufferHeights
  /\ pixels \in BOOLEAN /\ bar \in BOOLEAN /\ sizing \in BOOLEAN /\ dirty \in BOOLEAN
  /\ scroll_y \in Int
  /\ user \in Users
  /\ frame \in FrameStates
  /\ sb \in [max : Int, page : Int, pos : Int]
  /\ screen \in [width : BufferWidths, height : BufferHeights, scroll : Int, user : Users,
                content : BOOLEAN]

(* However resizes, clicks, failed back buffers and scrolling are ordered, *)
(* the offset between two handlers is one the content really has: the last *)
(* pixel row of the feed never leaves the bottom of the viewport.          *)
ScrollInRange == phase = "open" => scroll_y \in 0 .. MaxScroll(w, h, user)

(* Windows' copy of range, page and thumb, which only some handlers write, *)
(* is never stale: it is what the current size, feed and offset ask for.   *)
BarInStep ==
  phase = "open" =>
    /\ sb.max = AtLeast(ContentHeight(w, user) - 1, 0)
    /\ sb.page = AtLeast(h - ChromeH, 1)
    /\ sb.pos = AtMost(scroll_y, ThumbLimit(sb))

(* No handler forgets to invalidate: with no WM_PAINT due, the glass shows *)
(* the current size, offset and feed, or was to and had not the memory.    *)
ScreenCurrent ==
  phase = "open" /\ ~dirty =>
    \E drawn \in Renderings :
      screen = [width |-> w, height |-> h, scroll |-> scroll_y, user |-> user, content |-> drawn]

(* A pending repaint happens, unless there is nothing to paint from, the   *)
(* window is minimised or it is gone.                                      *)
Repaints ==
  dirty /\ pixels ~> ~dirty \/ ~pixels \/ frame.iconic \/ phase = "quit"
=============================================================================

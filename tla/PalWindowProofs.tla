-------------------------- MODULE PalWindowProofs --------------------------
(* What PalWindow guarantees for every window size, every feed and every   *)
(* pair of callbacks that keep the contract of pal.h.                      *)
EXTENDS PalWindow, TLAPS

(* The four invariants strengthen one another: a click is typed because    *)
(* the offset is in range, the thumb is in step because the offset is not  *)
(* negative.  A window that is not created yet is all to be painted.       *)
NotPaintedYet == phase = "none" => dirty

IInv == TypeOK /\ ScrollInRange /\ BarInStep /\ ScreenCurrent /\ NotPaintedYet

-----------------------------------------------------------------------------
(* Lemmas on the operators *)

(* A clamped offset lies in its range. *)
LEMMA ClampInRange ==
  ASSUME NEW y \in Int, NEW m \in Nat
  PROVE  Clamp(y, m) \in 0 .. m /\ Clamp(y, m) \in Int
BY DEF Clamp, AtLeast, AtMost

(* The greatest offset is never more than the content is high. *)
LEMMA MaxScrollRange ==
  ASSUME NEW cw \in BufferWidths, NEW ch \in Int, NEW u \in Users
  PROVE  /\ MaxScroll(cw, ch, u) \in Nat
         /\ MaxScroll(cw, ch, u) <= AtLeast(ContentHeight(cw, u), 0)
<1>1. ContentHeight(cw, u) \in Int /\ ChromeH \in Int
  BY HeightAssumption, WindowAssumption
<1>2. QED
  BY <1>1 DEF MaxScroll, AtLeast

(* Every buffer dimension is a natural number. *)
LEMMA FrameTypes ==
  ASSUME NEW f \in FrameStates
  PROVE  /\ f.width \in Nat /\ f.height \in Nat /\ f.iconic \in BOOLEAN
         /\ \A b \in BOOLEAN : ClientW(f, b) \in Nat
         /\ ClientH(f) \in Nat
<1>1. f.width \in Nat /\ f.height \in Nat /\ f.iconic \in BOOLEAN
  <2>1. CASE f \in Frames
    BY <2>1, WindowAssumption
  <2>2. CASE f \in {Minimised(g) : g \in Frames}
    BY <2>2, WindowAssumption DEF Minimised
  <2>3. QED
    BY <2>1, <2>2 DEF FrameStates
<1>2. BarWidth \in Nat
  BY WindowAssumption
<1>3. QED
  BY <1>1, <1>2 DEF ClientW, ClientH, AtLeast

(* The sizes of a buffer are natural numbers.                              *)
LEMMA BufferTypes == BufferWidths \subseteq Nat /\ BufferHeights \subseteq Nat
<1>1. ASSUME NEW f \in Frames PROVE f \in FrameStates
  BY DEF FrameStates
<1>2. \A f \in Frames, b \in BOOLEAN : AtLeast(ClientW(f, b), 1) \in Nat
  BY <1>1, FrameTypes DEF AtLeast
<1>3. \A f \in Frames : AtLeast(ClientH(f), 1) \in Nat
  BY <1>1, FrameTypes DEF AtLeast
<1>4. QED
  BY <1>2, <1>3 DEF BufferWidths, BufferHeights

(* create_backbuffer leaves a size the buffer can have, made or not made.  *)
LEMMA CreateTypes ==
  ASSUME NEW f \in FrameStates, NEW b \in BOOLEAN,
         w \in BufferWidths, h \in BufferHeights,
         CreateBackbuffer(ClientW(f, b), ClientH(f))
  PROVE  w' \in BufferWidths /\ h' \in BufferHeights /\ pixels' \in BOOLEAN
<1>1. AtLeast(ClientW(f, b), 1) \in BufferWidths /\ AtLeast(ClientH(f), 1) \in BufferHeights
  <2>1. CASE f \in Frames
    BY <2>1 DEF BufferWidths, BufferHeights
  <2>2. CASE f \in {Minimised(g) : g \in Frames}
    <3>1. f.iconic = TRUE
      BY <2>2, WindowAssumption DEF Minimised
    <3>2. AtLeast(ClientW(f, b), 1) = 1 /\ AtLeast(ClientH(f), 1) = 1
      BY <3>1 DEF ClientW, ClientH, AtLeast
    <3>3. 1 \in BufferWidths /\ 1 \in BufferHeights
      BY DEF BufferWidths, BufferHeights
    <3>4. QED
      BY <3>2, <3>3
  <2>3. QED
    BY <2>1, <2>2 DEF FrameStates
<1>2. QED
  BY <1>1 DEF CreateBackbuffer

(* After sync_scrollbar offset and bar agree with the size and the feed it *)
(* was given, whatever they were before.                                   *)
LEMMA SyncInStep ==
  ASSUME NEW cw \in BufferWidths, NEW ch \in BufferHeights, NEW u \in Users,
         scroll_y \in Int, SyncScrollbar(cw, ch, u)
  PROVE  /\ scroll_y' \in Int
         /\ scroll_y' \in 0 .. MaxScroll(cw, ch, u)
         /\ sb' \in [max : Int, page : Int, pos : Int]
         /\ sb'.max = AtLeast(ContentHeight(cw, u) - 1, 0)
         /\ sb'.page = AtLeast(ch - ChromeH, 1)
         /\ sb'.pos = AtMost(scroll_y', ThumbLimit(sb'))
         /\ bar' \in BOOLEAN /\ sizing' \in BOOLEAN
<1>1. /\ ContentHeight(cw, u) \in Int /\ ChromeH \in Nat
      /\ cw \in Nat /\ ch \in Nat
  BY HeightAssumption, WindowAssumption, BufferTypes
<1>2. MaxScroll(cw, ch, u) \in Nat
  BY <1>1, MaxScrollRange
<1>3. scroll_y' \in 0 .. MaxScroll(cw, ch, u) /\ scroll_y' \in Int
  BY <1>2, ClampInRange DEF SyncScrollbar
<1> DEFINE max == AtLeast(ContentHeight(cw, u) - 1, 0)
           page == AtLeast(ch - ChromeH, 1)
           s0 == [max |-> max, page |-> page, pos |-> 0]
<1>4. max \in Int /\ page \in Int
  BY <1>1 DEF AtLeast
<1>5. /\ sb' = [s0 EXCEPT !.pos = Clamp(scroll_y', ThumbLimit(s0))]
      /\ bar' = BarNeeded(s0)
      /\ sizing' = (ClientW(frame', bar') # ClientW(frame', bar))
  BY DEF SyncScrollbar, SetScrollInfo
<1>6. ThumbLimit(s0) \in Nat
  BY <1>4 DEF ThumbLimit, AtLeast
<1>7. Clamp(scroll_y', ThumbLimit(s0)) = AtMost(scroll_y', ThumbLimit(s0))
  BY <1>2, <1>3, <1>6 DEF Clamp, AtLeast, AtMost
<1>8. /\ sb'.max = max /\ sb'.page = page
      /\ sb'.pos = AtMost(scroll_y', ThumbLimit(s0))
      /\ sb' \in [max : Int, page : Int, pos : Int]
  BY <1>3, <1>4, <1>5, <1>6, <1>7 DEF AtMost
<1>9. ThumbLimit(sb') = ThumbLimit(s0)
  BY <1>8 DEF ThumbLimit
<1>10. bar' \in BOOLEAN /\ sizing' \in BOOLEAN
  BY <1>5 DEF BarNeeded
<1>11. QED
  BY <1>3, <1>8, <1>9, <1>10

-----------------------------------------------------------------------------
(* Every step preserves the invariant *)

(* A window that does not exist yet breaks no promise.                     *)
LEMMA InitIInv == Init => IInv
<1> SUFFICES ASSUME Init PROVE IInv
  OBVIOUS
<1>1. 0 \in BufferWidths /\ 0 \in BufferHeights
  BY DEF BufferWidths, BufferHeights
<1>2. InitUser \in Users /\ frame \in FrameStates
  BY WindowAssumption DEF Init, FrameStates
<1>3. screen \in [width : BufferWidths, height : BufferHeights, scroll : Int, user : Users,
                 content : BOOLEAN]
  BY <1>1, <1>2 DEF Init
<1>4. TypeOK
  <2>1. w \in BufferWidths /\ h \in BufferHeights /\ user \in Users
    BY <1>1, <1>2 DEF Init
  <2>2. sb \in [max : Int, page : Int, pos : Int]
    BY DEF Init
  <2>3. phase \in {"none", "open", "quit"} /\ scroll_y \in Int
    BY DEF Init
  <2>4. pixels \in BOOLEAN /\ bar \in BOOLEAN /\ sizing \in BOOLEAN /\ dirty \in BOOLEAN
    BY Zenon DEF Init
  <2>5. QED
    BY <1>2, <1>3, <2>1, <2>2, <2>3, <2>4 DEF TypeOK
<1>5. QED
  BY <1>4 DEF Init, IInv, ScrollInRange, BarInStep, ScreenCurrent, NotPaintedYet

(* The tail of scroll_by and WM_VSCROLL, from any target. *)
LEMMA ScrollToIInv ==
  ASSUME IInv, phase = "open", NEW y \in Int, ScrollTo(y)
  PROVE  IInv'
<1>1. w \in BufferWidths /\ h \in Int /\ user \in Users /\ scroll_y \in Int
      /\ sb \in [max : Int, page : Int, pos : Int]
  BY BufferTypes DEF IInv, TypeOK
<1> DEFINE ny == Clamp(y, MaxScroll(w, h, user))
<1>2. MaxScroll(w, h, user) \in Nat
  BY <1>1, MaxScrollRange
<1>3. ny \in 0 .. MaxScroll(w, h, user) /\ ny \in Int
  BY <1>2, ClampInRange
<1>4. scroll_y' = ny
  BY DEF ScrollTo
<1>5. UNCHANGED <<phase, w, h, pixels, user, frame, bar, sizing, screen>>
  BY DEF ScrollTo
<1>6. ScrollInRange'
  BY <1>3, <1>4, <1>5 DEF ScrollInRange, MaxScroll
<1>7. CASE ny = scroll_y
  <2>1. UNCHANGED <<scroll_y, sb, dirty>>
    BY <1>4, <1>7 DEF ScrollTo
  <2>2. QED
    BY <1>5, <1>6, <2>1
    DEF IInv, TypeOK, BarInStep, ScreenCurrent, NotPaintedYet, ThumbLimit
<1>8. CASE ny # scroll_y
  <2>1. dirty' = TRUE /\ sb' = [sb EXCEPT !.pos = Clamp(ny, ThumbLimit(sb))]
    BY <1>8 DEF ScrollTo
  <2>2. ThumbLimit(sb) \in Nat
    BY <1>1 DEF ThumbLimit, AtLeast
  <2>3. Clamp(ny, ThumbLimit(sb)) = AtMost(ny, ThumbLimit(sb))
        /\ Clamp(ny, ThumbLimit(sb)) \in Int
    BY <1>2, <1>3, <2>2 DEF Clamp, AtLeast, AtMost
  <2>4. /\ sb' \in [max : Int, page : Int, pos : Int]
        /\ sb'.max = sb.max /\ sb'.page = sb.page
        /\ sb'.pos = AtMost(ny, ThumbLimit(sb))
    BY <1>1, <2>1, <2>3
  <2>5. ThumbLimit(sb') = ThumbLimit(sb)
    BY <2>4 DEF ThumbLimit
  <2>6. BarInStep'
    BY <1>4, <1>5, <2>4, <2>5 DEF IInv, BarInStep
  <2>7. TypeOK'
    BY <1>3, <1>4, <1>5, <2>1, <2>4 DEF IInv, TypeOK
  <2>8. ScreenCurrent' /\ NotPaintedYet'
    BY <2>1 DEF ScreenCurrent, NotPaintedYet
  <2>9. QED
    BY <1>6, <2>6, <2>7, <2>8 DEF IInv
<1>9. QED
  BY <1>7, <1>8

(* WM_SIZE, from the loop or nested in SetScrollInfo. *)
LEMMA WmSizeIInv ==
  ASSUME IInv, NEW f \in FrameStates, WmSize(f)
  PROVE  IInv'
<1>1. w' \in BufferWidths /\ h' \in BufferHeights /\ pixels' \in BOOLEAN
  <2>1. CreateBackbuffer(ClientW(f, bar), ClientH(f))
    BY DEF WmSize
  <2>2. w \in BufferWidths /\ h \in BufferHeights /\ bar \in BOOLEAN
    BY DEF IInv, TypeOK
  <2>3. QED
    BY <2>1, <2>2, CreateTypes
<1>2. user \in Users /\ scroll_y \in Int
  BY DEF IInv, TypeOK
<1>3. SyncScrollbar(w', h', user)
  BY DEF WmSize
<1>4. /\ scroll_y' \in Int
      /\ scroll_y' \in 0 .. MaxScroll(w', h', user)
      /\ sb' \in [max : Int, page : Int, pos : Int]
      /\ sb'.max = AtLeast(ContentHeight(w', user) - 1, 0)
      /\ sb'.page = AtLeast(h' - ChromeH, 1)
      /\ sb'.pos = AtMost(scroll_y', ThumbLimit(sb'))
      /\ bar' \in BOOLEAN /\ sizing' \in BOOLEAN
  BY <1>1, <1>2, <1>3, SyncInStep
<1>5. frame' = f /\ dirty' = TRUE /\ UNCHANGED <<phase, user, screen>>
  BY DEF WmSize
<1>6. TypeOK'
  BY <1>1, <1>4, <1>5 DEF IInv, TypeOK
<1>7. ScrollInRange' /\ BarInStep' /\ ScreenCurrent' /\ NotPaintedYet'
  BY <1>4, <1>5 DEF ScrollInRange, BarInStep, ScreenCurrent, NotPaintedYet, MaxScroll, ThumbLimit
<1>8. QED
  BY <1>6, <1>7 DEF IInv

(* WM_CREATE: the first buffer, made or not. *)
LEMMA WmCreateIInv ==
  ASSUME IInv, WmCreate
  PROVE  IInv'
<1>1. w' \in BufferWidths /\ h' \in BufferHeights /\ pixels' \in BOOLEAN
  <2>1. CreateBackbuffer(ClientW(frame, bar), ClientH(frame))
    BY DEF WmCreate
  <2>2. /\ w \in BufferWidths /\ h \in BufferHeights
        /\ bar \in BOOLEAN /\ frame \in FrameStates
    BY DEF IInv, TypeOK
  <2>3. QED
    BY <2>1, <2>2, CreateTypes
<1>2. user \in Users /\ scroll_y \in Int
  BY DEF IInv, TypeOK
<1>3. SyncScrollbar(w', h', user)
  BY DEF WmCreate
<1>4. /\ scroll_y' \in Int
      /\ scroll_y' \in 0 .. MaxScroll(w', h', user)
      /\ sb' \in [max : Int, page : Int, pos : Int]
      /\ sb'.max = AtLeast(ContentHeight(w', user) - 1, 0)
      /\ sb'.page = AtLeast(h' - ChromeH, 1)
      /\ sb'.pos = AtMost(scroll_y', ThumbLimit(sb'))
      /\ bar' \in BOOLEAN /\ sizing' \in BOOLEAN
  BY <1>1, <1>2, <1>3, SyncInStep
<1>5. phase' = "open" /\ UNCHANGED <<frame, user, dirty, screen>>
  BY DEF WmCreate
<1>6. TypeOK'
  BY <1>1, <1>4, <1>5 DEF IInv, TypeOK
<1>7. ScrollInRange' /\ BarInStep'
  BY <1>4, <1>5 DEF ScrollInRange, BarInStep, MaxScroll, ThumbLimit
<1>8. dirty'
  BY <1>5 DEF WmCreate, IInv, NotPaintedYet
<1>9. QED
  BY <1>6, <1>7, <1>8 DEF IInv, ScreenCurrent, NotPaintedYet

(* WM_LBUTTONDOWN: the feed may change under an unchanged size. *)
LEMMA WmLButtonDownIInv ==
  ASSUME IInv, NEW y \in ClickYs, WmLButtonDown(y)
  PROVE  IInv'
<1>1. /\ w \in BufferWidths /\ h \in BufferHeights /\ user \in Users
      /\ scroll_y \in Int /\ phase = "open"
  BY DEF IInv, TypeOK, WmLButtonDown, Usable, Idle
<1>2. UNCHANGED <<phase, w, h, pixels, frame, screen>>
  BY DEF WmLButtonDown
<1>3. CASE user' = user
  <2>1. UNCHANGED <<scroll_y, sb, bar, sizing, dirty>>
    BY <1>3 DEF WmLButtonDown
  <2>2. QED
    BY <1>2, <1>3, <2>1
    DEF IInv, TypeOK, ScrollInRange, BarInStep, ScreenCurrent, NotPaintedYet,
        MaxScroll, ThumbLimit
<1>4. CASE user' # user
  <2>1. scroll_y \in 0 .. AtLeast(ContentHeight(w, user), 0)
    <3>1. scroll_y \in 0 .. MaxScroll(w, h, user)
      BY <1>1 DEF IInv, ScrollInRange
    <3>2. /\ MaxScroll(w, h, user) \in Nat
          /\ MaxScroll(w, h, user) <= AtLeast(ContentHeight(w, user), 0)
      BY <1>1, BufferTypes, MaxScrollRange
    <3>3. ContentHeight(w, user) \in Int
      BY <1>1, HeightAssumption
    <3>4. QED
      BY <3>1, <3>2, <3>3 DEF AtLeast
  <2>2. user' \in Users
    BY <1>1, <2>1, ClickAssumption DEF WmLButtonDown
  <2>3. SyncScrollbar(w, h, user') /\ dirty' = TRUE
    BY <1>4 DEF WmLButtonDown
  <2>4. /\ scroll_y' \in Int
        /\ scroll_y' \in 0 .. MaxScroll(w, h, user')
        /\ sb' \in [max : Int, page : Int, pos : Int]
        /\ sb'.max = AtLeast(ContentHeight(w, user') - 1, 0)
        /\ sb'.page = AtLeast(h - ChromeH, 1)
        /\ sb'.pos = AtMost(scroll_y', ThumbLimit(sb'))
        /\ bar' \in BOOLEAN /\ sizing' \in BOOLEAN
    BY <1>1, <2>2, <2>3, SyncInStep
  <2>5. TypeOK'
    BY <1>1, <1>2, <2>2, <2>3, <2>4 DEF IInv, TypeOK
  <2>6. ScrollInRange' /\ BarInStep' /\ ScreenCurrent' /\ NotPaintedYet'
    BY <1>2, <2>3, <2>4
    DEF ScrollInRange, BarInStep, ScreenCurrent, NotPaintedYet, MaxScroll, ThumbLimit
  <2>7. QED
    BY <2>5, <2>6 DEF IInv
<1>5. QED
  BY <1>3, <1>4

(* WM_PAINT brings the glass up to date and touches nothing else. *)
LEMMA WmPaintIInv ==
  ASSUME IInv, WmPaint
  PROVE  IInv'
<1>1. UNCHANGED <<phase, w, h, pixels, scroll_y, user, frame, bar, sb, sizing>>
  BY DEF WmPaint
<1>2. dirty' = FALSE /\ Rendered
  BY DEF WmPaint
<1>3. TypeOK'
  <2>1. PICK drawn \in Renderings :
          screen' = [width |-> w, height |-> h, scroll |-> scroll_y, user |-> user,
                     content |-> drawn]
    BY <1>2 DEF Rendered
  <2>2. drawn \in BOOLEAN
    BY WindowAssumption
  <2>3. QED
    BY <1>1, <1>2, <2>1, <2>2 DEF IInv, TypeOK
<1>4. ScrollInRange' /\ BarInStep'
  BY <1>1 DEF IInv, ScrollInRange, BarInStep, MaxScroll, ThumbLimit
<1>5. ScreenCurrent'
  BY <1>1, <1>2 DEF ScreenCurrent, Rendered
<1>6. NotPaintedYet'
  BY <1>1 DEF NotPaintedYet, WmPaint, Usable, Idle
<1>7. QED
  BY <1>3, <1>4, <1>5, <1>6 DEF IInv

(* A closed window keeps no promise but its types. *)
LEMMA WmDestroyIInv ==
  ASSUME IInv, WmDestroy
  PROVE  IInv'
<1>1. UNCHANGED <<w, h, scroll_y, user, frame, bar, sb, sizing, dirty, screen>>
  BY DEF WmDestroy
<1>2. phase' = "quit" /\ pixels' = FALSE
  BY DEF WmDestroy
<1>3. TypeOK'
  BY <1>1, <1>2 DEF IInv, TypeOK
<1>4. QED
  BY <1>2, <1>3 DEF IInv, ScrollInRange, BarInStep, ScreenCurrent, NotPaintedYet

(* No step of the window breaks the invariant. *)
LEMMA NextIInv == IInv /\ [Next]_vars => IInv'
<1> SUFFICES ASSUME IInv, [Next]_vars PROVE IInv'
  OBVIOUS
<1>1. CASE WmCreate
  BY <1>1, WmCreateIInv
<1>2. CASE UserResize
  BY <1>2, WmSizeIInv DEF UserResize
<1>3. CASE NestedWmSize
  <2>1. frame \in FrameStates
    BY DEF IInv, TypeOK
  <2>2. QED
    BY <1>3, <2>1, WmSizeIInv DEF NestedWmSize
<1> DEFINE Targets == {scroll_y - 40, scroll_y + 40, scroll_y - Page, scroll_y + Page,
                       0, MaxScroll(w, h, user), scroll_y}
                      \cup {AtMost(d, ThumbLimit(sb)) : d \in Drags}
<1>4. /\ scroll_y \in Int /\ Page \in Int /\ MaxScroll(w, h, user) \in Int
      /\ ThumbLimit(sb) \in Int
  <2>1. /\ w \in BufferWidths /\ h \in Int /\ user \in Users /\ scroll_y \in Int
        /\ sb \in [max : Int, page : Int, pos : Int] /\ ChromeH \in Int
    BY BufferTypes, WindowAssumption DEF IInv, TypeOK
  <2>2. QED
    BY <2>1, MaxScrollRange DEF Page, ThumbLimit, AtLeast
<1>5. CASE WmVScroll
  <2>1. PICK y \in Targets : ScrollTo(y)
    BY <1>5 DEF WmVScroll
  <2>2. y \in Int
    BY <1>4, <2>1, WindowAssumption DEF AtMost
  <2>3. phase = "open"
    BY <1>5 DEF WmVScroll, Usable, Idle
  <2>4. QED
    BY <2>1, <2>2, <2>3, ScrollToIInv
<1>6. CASE WmKeyDown
  <2>1. PICK d \in {-40, 40, -Page, Page, -1073741824, 1073741824, 0} : ScrollTo(scroll_y + d)
    BY <1>6 DEF WmKeyDown
  <2>2. scroll_y + d \in Int
    BY <1>4, <2>1
  <2>3. phase = "open"
    BY <1>6 DEF WmKeyDown, Usable, Idle
  <2>4. QED
    BY <2>1, <2>2, <2>3, ScrollToIInv
<1>7. CASE WmMouseWheel
  <2>1. PICK d \in WheelDeltas : ScrollTo(scroll_y - Notches(d) * 48)
    BY <1>7 DEF WmMouseWheel
  <2>2. d \in Int
    BY <2>1, WindowAssumption
  <2>3. scroll_y - Notches(d) * 48 \in Int
    BY <1>4, <2>2 DEF Notches
  <2>4. phase = "open"
    BY <1>7 DEF WmMouseWheel, Usable, Idle
  <2>5. QED
    BY <2>1, <2>3, <2>4, ScrollToIInv
<1>8. CASE UserClick
  BY <1>8, WmLButtonDownIInv DEF UserClick
<1>9. CASE WmPaint
  BY <1>9, WmPaintIInv
<1>10. CASE WmDestroy
  BY <1>10, WmDestroyIInv
<1>11. CASE Terminated \/ UNCHANGED vars
  BY <1>11
  DEF Terminated, vars, IInv, TypeOK, ScrollInRange, BarInStep, ScreenCurrent,
      NotPaintedYet, MaxScroll, ThumbLimit
<1>12. QED
  BY <1>1, <1>2, <1>3, <1>5, <1>6, <1>7, <1>8, <1>9, <1>10, <1>11 DEF Next

(* So the invariant holds in every behaviour.                              *)
LEMMA IInvHolds == Spec => []IInv
<1>1. QED
  BY InitIInv, NextIInv, PTL DEF Spec

-----------------------------------------------------------------------------
(* Theorems *)

(* Every variable of the window keeps its type, in every handler order.    *)
THEOREM WindowTypes == Spec => []TypeOK
<1>1. IInv => TypeOK
  BY DEF IInv
<1>2. QED
  BY <1>1, IInvHolds, PTL

(* The scroll offset is one the content has after every message, whatever  *)
(* the content height callback says for any width and any feed: sync_      *)
(* scrollbar and the clamps of scroll_by and WM_VSCROLL suffice.           *)
THEOREM WindowScroll == Spec => []ScrollInRange
<1>1. IInv => ScrollInRange
  BY DEF IInv
<1>2. QED
  BY <1>1, IInvHolds, PTL

(* Windows' scroll bar is never stale, although WM_VSCROLL and scroll_by   *)
(* update no more than its thumb.                                          *)
THEOREM WindowBar == Spec => []BarInStep
<1>1. IInv => BarInStep
  BY DEF IInv
<1>2. QED
  BY <1>1, IInvHolds, PTL

(* A window with no WM_PAINT due shows what it should.                     *)
THEOREM WindowScreen == Spec => []ScreenCurrent
<1>1. IInv => ScreenCurrent
  BY DEF IInv
<1>2. QED
  BY <1>1, IInvHolds, PTL
=============================================================================

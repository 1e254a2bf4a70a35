----------------------------- MODULE FeedWindow -----------------------------
(***************************************************************************)
(* The real feed in its window: pal/pal_win32.c with the callbacks of      *)
(* ui/feed.c, the way ui/main.c puts them together.                        *)
(***************************************************************************)
EXTENDS FeedLayout

CONSTANTS BarWidth, Frames, ClickYs, Drags, WheelDeltas

VARIABLES phase, w, h, pixels, scroll_y, user, frame, bar, sb, sizing, dirty, screen

INSTANCE PalWindow WITH
  ChromeH <- ChromeHeight,
  Users <- Feeds,
  InitUser <- [i \in Posts |-> FALSE],
  Renderings <- BOOLEAN   \* draw_scrollable allocates the surface it draws on

(* The buffer has no other width than those the heights are known for.     *)
ASSUME FeedWindowAssumption ==
  /\ BarWidth \in Nat
  /\ Frames \subseteq [width : Nat, height : Nat, iconic : {FALSE}]
  /\ BufferWidths \subseteq Widths
  /\ ClickYs \subseteq Int /\ Drags \subseteq Int /\ WheelDeltas \subseteq Int

(* The fairness of PalWindow: a nested WM_SIZE runs, a due WM_PAINT comes. *)
FairFeedSpec == Init /\ [][Next]_vars /\ WF_vars(NestedWmSize) /\ SF_vars(WmPaint)

-----------------------------------------------------------------------------
(* Cards at window row y of what is on the glass, and of what would be     *)
(* there had there been the memory to draw it.                             *)
CardsOn(y, allocated) ==
  CardsDrawn(y, screen.width, screen.height, screen.scroll, screen.user, allocated)
CardsShownAt(y) == CardsOn(y, screen.content)

(* pal and the feed clamp the offset each on its own; they agree, so what  *)
(* is drawn, what the thumb shows and what a click is tested against is    *)
(* one offset.  In a window no higher than its chrome there is nothing to  *)
(* agree on: the feed draws no card and does not clamp.                    *)
ClampsAgree ==
  phase = "open" /\ InViewport(BarH, h) => DrawnScroll(w, h, scroll_y, user) = scroll_y

(* A click in the viewport, with no repaint due, toggles the card which    *)
(* the glass shows under it, and no other; in a gap it toggles none.  The  *)
(* one exception is a glass that shows no cards for want of memory: the    *)
(* click toggles, unseen, the card that would be under it, and a repaint   *)
(* is due, which is another chance to see it.                              *)
ClickHitsWhatIsSeen ==
  [][\A y \in ClickYs :
       ~dirty /\ InViewport(y, screen.height) /\ WmLButtonDown(y) =>
         LET toggled == {i \in Posts : user'[i] # user[i]}
         IN \/ toggled = CardsShownAt(y)
            \/ /\ ~screen.content
               /\ toggled = CardsOn(y, TRUE)
               /\ toggled # {} => dirty']_vars

(* The feed changes by clicks only, and by one card at a time: a resize, a *)
(* nested one, a failed back buffer or a scroll never opens or shuts one.  *)
(* The card that is toggled keeps its top row: what is above stays put.    *)
ToggleKeepsAbove ==
  [][user' # user =>
       \E i \in Posts :
         /\ user' = [user EXCEPT ![i] = ~@]
         /\ \A j \in Posts : j <= i => DrawnTop(w, user')[j] = DrawnTop(w, user)[j]]_vars

(* feed.c says of a click in the app bar that it hits nothing.             *)
AppBarIsInert ==
  [][\A y \in ClickYs : WmLButtonDown(y) /\ y < BarH => user' = user]_vars
=============================================================================

----------------------------- MODULE FeedLayout -----------------------------
(***************************************************************************)
(* ui/feed.c: where the cards of the real feed are.  Three pieces of code  *)
(* walk the cards -- content height, drawing, click -- each with a loop of *)
(* its own over the same card height; each is modelled by its own walk.    *)
(* The feed's state is which cards are expanded (FeedPost.expanded); what  *)
(* the network fetched for a post is its caption and does not change.      *)
(***************************************************************************)
EXTENDS FeedPost

CONSTANTS
  Captions,  \* posts[i].caption
  Widths     \* the widths the window can have

ASSUME FeedAssumption == Captions \in Seq(Seq(DOMAIN Adv)) /\ Widths \subseteq Nat

ChromeHeight == BarH + NavH

Posts == DOMAIN Captions
Feeds == [Posts -> BOOLEAN]

(* post_card_height, for each post at each width, shut and expanded.       *)
CardHeight ==
  [width \in Widths |-> [i \in Posts |-> [expanded \in BOOLEAN |->
     LET inner == CardWidth(width) - 2 * PostPad
         lines == VisibleLines(Len(WrapCaption(Captions[i], inner)), expanded)
     IN 40 + inner + 26 + CaptionBlockHeight(lines, FALSE) + PostPad]]]

(* ui_feed_content_height_real *)
ContentHeight(width, feed) ==
  LET total[i \in 0 .. Len(Captions)] ==
        IF i = 0 THEN PostGap
        ELSE total[i - 1] + CardHeight[width][i][feed[i]] + PostGap
  IN total[Len(Captions)]

(* fill_real_posts: the top of each card on the content surface.  draw_post *)
(* returns the next one, with the gap written out.                          *)
DrawnTop(width, feed) ==
  LET y[i \in 1 .. Len(Captions)] ==
        IF i = 1 THEN PostGap
        ELSE y[i - 1] + CardHeight[width][i - 1][feed[i - 1]] + 6
  IN y

(* Mutant: the hit test forgets the gaps. *)
HitTopWithoutGap(width, feed) ==
  LET y[i \in 1 .. Len(Captions)] ==
        IF i = 1 THEN PostGap
        ELSE y[i - 1] + CardHeight[width][i - 1][feed[i - 1]]
  IN y

(* ui_feed_click_real: the top of each card for the hit test. *)
HitTop(width, feed) ==
  LET y[i \in 1 .. Len(Captions)] ==
        IF i = 1 THEN PostGap
        ELSE y[i - 1] + CardHeight[width][i - 1][feed[i - 1]] + PostGap
  IN y

(* Cards that hold the content row y, when they are laid out from tops.    *)
CardsAt(tops, width, feed, y) ==
  {i \in Posts : tops[i] <= y /\ y < tops[i] + CardHeight[width][i][feed[i]]}

(* Mutant: opening a card shuts the others. *)
ClickShutsOthers(y, scroll, width, feed) ==
  LET row == y - BarH + scroll
      hit == CardsAt(HitTop(width, feed), width, feed, row)
  IN IF row < PostGap \/ hit = {} THEN feed
     ELSE [i \in Posts |-> i = Least(hit) /\ ~feed[i]]

(* ui_feed_click_real: the first card under the row toggles.  The click's  *)
(* x is not looked at.                                                     *)
Click(y, scroll, width, feed) ==
  LET row == y - BarH + scroll
      hit == CardsAt(HitTop(width, feed), width, feed, row)
  IN IF row < PostGap \/ hit = {} THEN feed
     ELSE [feed EXCEPT ![Least(hit)] = ~@]

(* Mutant: the feed's clamp takes the navigation bar for viewport. *)
DrawnScrollUnderNav(width, height, scroll, feed) ==
  LET m == ContentHeight(width, feed) - (height - BarH)
      most == IF m < 0 THEN 0 ELSE m
  IN IF scroll > most THEN most ELSE scroll

(* draw_scrollable: the offset it draws at, by a clamp of its own.         *)
DrawnScroll(width, height, scroll, feed) ==
  LET m == ContentHeight(width, feed) - (height - BarH - NavH)
      most == IF m < 0 THEN 0 ELSE m
      low == IF scroll < 0 THEN 0 ELSE scroll
  IN IF low > most THEN most ELSE low

(* The row of the content a viewport row shows. *)
InViewport(y, height) == BarH <= y /\ y < height - NavH
ShownRow(y, width, height, scroll, feed) ==
  y - BarH + DrawnScroll(width, height, scroll, feed)

(* draw_scrollable: the cards at row y of the window.  There are none      *)
(* outside the viewport, and none at all if the surface the content is     *)
(* first drawn on cannot be allocated.                                     *)
CardsDrawn(y, width, height, scroll, feed, allocated) ==
  IF allocated /\ InViewport(y, height)
  THEN CardsAt(DrawnTop(width, feed), width, feed, ShownRow(y, width, height, scroll, feed))
  ELSE {}
=============================================================================

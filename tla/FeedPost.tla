------------------------------ MODULE FeedPost ------------------------------
(***************************************************************************)
(* ui/feed.c: one card of the feed and the bars around it, as the boxes    *)
(* that are drawn and the height that is measured.  Heights are worked out *)
(* in post_card_height and, a second time, on the way down draw_post.      *)
(***************************************************************************)
EXTENDS Caption, Digits

BarH == 30
NavH == 28
PostPad == 8
PostGap == 6
LatinHeight == 7      \* FONT_H
HangulHeight == 18    \* HANGUL_H

Box(x, y, w, h) == [x |-> x, y |-> y, w |-> w, h |-> h]
Row(y, h) == [y |-> y, h |-> h]

CardWidth(width) == width - 12

(* post_card_height of a card whose caption shows that many lines.        *)
PostCardHeight(w, visible, comments) ==
  40 + (w - 2 * PostPad) + 26 + CaptionBlockHeight(visible, comments) + PostPad

LinesShown(w, caption, expanded) ==
  VisibleLines(Len(WrapCaption(caption, w - 2 * PostPad)), expanded)

(* caption_block with a surface, from row y on: the rows of pixels its     *)
(* lines of text take.  User names and captions may be Hangul.             *)
CaptionRows(y, caption, cw, comments, expanded) ==
  LET lines == VisibleLines(Len(WrapCaption(caption, cw)), expanded)
      user == y + FontLine + 1
      first == user + FontWideLine
  IN <<Row(y, LatinHeight), Row(user, HangulHeight)>>
     \o [i \in 1 .. lines |-> Row(first + (i - 1) * FontWideLine, HangulHeight)]
     \o IF comments THEN <<Row(first + lines * FontWideLine, LatinHeight)>> ELSE << >>

(* What draw_post returns: where the next card begins.                    *)
NextPost(y, w, caption, comments, expanded) ==
  y + PostCardHeight(w, LinesShown(w, caption, expanded), comments) + 6

(* Mutant: the header has grown, and only where it is drawn. *)
DrawPostTallHeader(x, y, w, caption, comments, expanded) ==
  LET cx == x + PostPad
      cw == w - 2 * PostPad
      well == Box(cx, y + 44, cw, cw)
      icons == y + 44 + cw + 6
  IN [card |-> Box(x, y, w, PostCardHeight(w, LinesShown(w, caption, expanded), comments)),
      header |-> {Box(cx, y + PostPad, 24, 24)},
      well |-> well,
      photo |-> Box(well.x + 2, well.y + 2, well.w - 4, well.h - 4),
      icons |-> {Box(cx, icons, 14, 12), Box(cx + cw - 12, icons, 10, 12)},
      rows |-> CaptionRows(y + 44 + cw + 26, caption, cw, comments, expanded),
      next |-> NextPost(y, w, caption, comments, expanded)]

(* draw_post for a card at (x, y): its boxes and the rows of its text.  The *)
(* photo, scaled to fit, or the gradient fills the well but for its edge; a *)
(* well without room stays empty.                                           *)
DrawPost(x, y, w, caption, comments, expanded) ==
  LET cx == x + PostPad
      cw == w - 2 * PostPad
      well == Box(cx, y + 40, cw, cw)
      icons == y + 40 + cw + 6
  IN [card |-> Box(x, y, w, PostCardHeight(w, LinesShown(w, caption, expanded), comments)),
      header |-> {Box(cx, y + PostPad, 24, 24), Box(cx + 2, y + PostPad + 2, 20, 20)}
                   \cup {Box(cx + cw - 4 - i * 6, y + PostPad + 10, 3, 3) : i \in 0 .. 2},
      well |-> well,
      photo |-> Box(well.x + 2, well.y + 2, well.w - 4, well.h - 4),
      icons |-> {Box(cx, icons, 14, 12), Box(cx + 22, icons, 14, 12),
                 Box(cx + 44, icons, 16, 12), Box(cx + cw - 12, icons, 10, 12)},
      rows |-> CaptionRows(y + 40 + cw + 26, caption, cw, comments, expanded),
      next |-> NextPost(y, w, caption, comments, expanded)]

(* fill_mock_posts: where the demo feed's next card would begin.           *)
DemoDrawn(width, captions) ==
  LET y[i \in 0 .. Len(captions)] ==
        IF i = 0 THEN PostGap
        ELSE NextPost(y[i - 1], CardWidth(width), captions[i], TRUE, FALSE)
  IN y[Len(captions)]

(* ui_feed_content_height *)
DemoHeight(width, captions) ==
  LET total[i \in 0 .. Len(captions)] ==
        IF i = 0 THEN PostGap
        ELSE total[i - 1] + PostCardHeight(CardWidth(width), LinesShown(CardWidth(width), captions[i], FALSE), TRUE) + PostGap
  IN total[Len(captions)]

(* draw_chrome on a window of that size: the boxes of the two bars, the    *)
(* line under the app bar among them.                                      *)
Chrome(width, height) ==
  LET nav == height - NavH
      fifth == width \div 5
  IN [app |-> {Box(0, 0, width, BarH), Box(0, BarH, width, 1), Box(width - 26, 8, 16, 14)},
      nav |-> {Box(0, nav, width, NavH), Box(0, nav, width, 1), Box(0, nav + 1, width, 1)}
                \cup {Box(fifth * i + (fifth \div 2) - 8, nav + 8, 16, 14) : i \in 0 .. 4}]

-----------------------------------------------------------------------------
(* format_likes into cap bytes: the digits of n, then the suffix, each as  *)
(* far as it goes before the NUL.                                          *)
LikesSuffix == <<" ", "l", "i", "k", "e", "s">>

FormatLikes(n, cap) ==
  LET whole == Numeral(IF n < 0 THEN 0 ELSE n, 10) \o LikesSuffix
  IN IF Len(whole) <= cap - 1 THEN whole ELSE SubSeq(whole, 1, cap - 1)
=============================================================================

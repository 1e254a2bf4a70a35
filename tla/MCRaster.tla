------------------------------ MODULE MCRaster ------------------------------
(* core/raster.c and what ui/feed.c makes of it: every drawing call on a    *)
(* surface, its rectangle anywhere, on it, half on it or beside it.         *)
EXTENDS Trial, Panels

CONSTANTS
  Canvas, Ground,         \* the surface drawn on, and the memory it views
  Picture, Paint,         \* a surface to draw from, and its memory
  Colour, Clear,          \* an opaque colour, and one to blend
  Top, Bottom,            \* the ends of a gradient
  Rects, Transfers, Offsets,
  Views,                  \* surfaces on Ground, to scale one into another
  AllocSizes, Names

(* A surface has its rows one behind another, with or without a gap.        *)
Surfaces == {s \in [base : Nat, w : Nat, h : Nat, stride : Nat \ {0}] : s.w <= s.stride}
Rectangles == [x : Int, y : Int, w : Int, h : Int]
Colours == [a : 0 .. 255, v : 0 .. 255]

ASSUME MCRasterAssumption ==
  /\ Canvas \in Surfaces /\ Picture \in Surfaces /\ Views \subseteq Surfaces
  /\ DOMAIN Ground \subseteq Nat /\ Ground \in [DOMAIN Ground -> Colours]
  /\ {Colour, Clear, Top, Bottom} \subseteq Colours
  /\ Rects \subseteq Rectangles
  /\ Transfers \subseteq [dx : Int, dy : Int, r : Rectangles]
  /\ Offsets \subseteq [dx : Int, dy : Int]
  /\ AllocSizes \subseteq [w : Int, h : Int]
  /\ Names \subseteq Seq(0 .. 255)

(* A surface of 3 by 2 pixels with other pixels on all sides, on a memory   *)
(* where every pixel is another; a source of two by three.                  *)
MCCanvas == [base |-> 7, w |-> 3, h |-> 2, stride |-> 5]
MCGround == [a \in 0 .. 23 |-> Pixel(10 * a, 255 - 9 * a)]
MCPicture == [base |-> 2, w |-> 2, h |-> 3, stride |-> 3]
MCPaint == [a \in 0 .. 11 |-> Pixel(<<0, 255, 128>>[(a % 3) + 1], 20 * a)]
MCColour == Pixel(255, 77)
MCClear == Pixel(100, 200)
MCTop == Pixel(255, 200)
MCBottom == Pixel(255, 100)
MCRects == [x : -2 .. 3, y : -1 .. 2, w : -1 .. 6, h : -1 .. 4]
MCTransfers == [dx : -2 .. 3, dy : -1 .. 2,
                r : [x : {-1, 0, 1}, y : {-1, 0, 2}, w : {0, 1, 2, 4}, h : {-1, 2, 5}]]
MCOffsets == [dx : -3 .. 3, dy : -4 .. 2]
MCViews == [base : {1}, w : 0 .. 4, h : 0 .. 3, stride : {5}]
MCAllocSizes == [w : {-1, 0, 3, 16384, 16385}, h : {-1, 2, 16384}]
MCNames == {<< >>, <<97>>, <<97, 98>>, <<122, 200, 97>>}

-----------------------------------------------------------------------------
Drawn(op, r) ==
  CASE op = "fill" -> FillRect(Ground, Canvas, r, Colour)
    [] op = "blend" -> BlendRect(Ground, Canvas, r, Clear)
    [] op = "frame" -> Frame(Ground, Canvas, r, Colour)
    [] op = "raised" -> PanelRaised(Ground, Canvas, r)
    [] op = "sunken" -> PanelSunken(Ground, Canvas, r)
    [] op = "gradient" -> GradientV(Ground, Canvas, r, Top, Bottom)

DrawRect == \E op \in {"fill", "blend", "frame", "raised", "sunken", "gradient"}, r \in Rects :
  Try("rect", [op |-> op, r |-> r], Drawn(op, r))

ClearSurface ==
  Try("rect", [op |-> "fill", r |-> Rectangle(0, 0, Canvas.w, Canvas.h)],
      Fill(Ground, Canvas, Colour))

DrawPart == \E t \in Transfers :
  Try("blit", t, Blit(Ground, Canvas, t.dx, t.dy, Paint, Picture, t.r))
DrawOver == \E t \in Offsets :
  Try("over", t, BlitAlpha(Ground, Canvas, t.dx, t.dy, Paint, Picture))

DrawScaled == \E dst \in Views, src \in Views :
  Try("scale", [dst |-> dst, src |-> src], Downscale(Ground, dst, Ground, src))

Allocate == \E size \in AllocSizes, calloc \in BOOLEAN :
  Try("alloc", size, SurfaceAlloc(size.w, size.h, calloc))

(* A surface of either kind is released, and then released once more.       *)
Release == \E own \in BOOLEAN :
  LET once == SurfaceFree(IF own THEN SurfaceAlloc(3, 2, TRUE) ELSE SurfaceWrap(7, 3, 2, 5))
  IN Try("free", own, [once |-> once, twice |-> SurfaceFree(once.left)])

NameGradient == \E name \in Names : Try("name", name, GradientFromName(name))

RasterNext ==
  \/ /\ AtStart
     /\ \/ DrawRect \/ ClearSurface \/ DrawPart \/ DrawOver \/ DrawScaled \/ Allocate \/ Release
        \/ NameGradient
  \/ Again
RasterSpec == Start /\ [][RasterNext]_trialVars

-----------------------------------------------------------------------------
(* Where an address lies on a surface, if it does.                          *)
Column(s, a) == (a - s.base) % s.stride
Line(s, a) == (a - s.base) \div s.stride
OnSurface(s, a) == a >= s.base /\ Line(s, a) < s.h /\ Column(s, a) < s.w

Within(r, x, y) == r.x <= x /\ x < r.x + r.w /\ r.y <= y /\ y < r.y + r.h
OnEdge(r, x, y) == Within(r, x, y) /\ ~Within(Inner(r), x, y)
LastEdge(r, x, y) == Within(r, x, y) /\ (x = r.x + r.w - 1 \/ y = r.y + r.h - 1)

(* What a call asks of one pixel, `old` before it.                          *)
Edges(r, x, y, first, last, then) ==
  IF ~OnEdge(r, x, y) THEN then ELSE IF LastEdge(r, x, y) THEN last ELSE first

Asked(op, r, x, y, old) ==
  IF ~Within(r, x, y) THEN old
  ELSE CASE op = "fill" -> Colour
         [] op = "blend" -> BlendOver(old, Clear)
         [] op = "frame" -> IF OnEdge(r, x, y) THEN Colour ELSE old
         [] op = "gradient" -> GradientRow(y - r.y, r.h, Top, Bottom)
         [] op = "raised" -> Edges(r, x, y, Hilight, Dark,
                                   Edges(Inner(r), x, y, Light, Shadow, old))
         [] op = "sunken" -> Edges(r, x, y, Shadow, Hilight,
                                   Edges(Inner(r), x, y, Dark, Light, old))

Sourced(r, dx, dy, x, y, old, over) ==
  LET sx == r.x + x - dx
      sy == r.y + y - dy
      new == Paint[Addr(Picture, sx, sy)]
  IN IF ~(Within(r, sx, sy) /\ Within(Rectangle(0, 0, Picture.w, Picture.h), sx, sy)) THEN old
     ELSE IF over THEN BlendOver(old, new) ELSE new

(* A pixel of a smaller picture is the mean of those pixels of the larger   *)
(* that fall to it; each of these falls to one.                             *)
FallsTo(k, p, size, parts) == ((p + 1) * parts - 1) \div size = k

Shrunk(dst, src, x, y) ==
  LET of == {Addr(src, p, q) : p \in {p \in 0 .. src.w - 1 : FallsTo(x, p, src.w, dst.w)},
                               q \in {q \in 0 .. src.h - 1 : FallsTo(y, q, src.h, dst.h)}}
  IN Average(Ground, of)

Blended(old, new, out) ==
  /\ Smaller(old.v, new.v) <= out.v /\ out.v <= Greater(old.v, new.v)
  /\ Greater(old.a, new.a) <= out.a /\ out.a <= 255

(* The memory after a call: every pixel of the surface has what is asked of *)
(* it, and nothing beside the surface has changed, above all not the ends   *)
(* of the rows.                                                             *)
RectDrawn ==
  subject = "rect" =>
    result = [a \in DOMAIN Ground |->
                IF OnSurface(Canvas, a)
                THEN Asked(input.op, input.r, Column(Canvas, a), Line(Canvas, a), Ground[a])
                ELSE Ground[a]]

Transferred(r, dx, dy, over) ==
  [a \in DOMAIN Ground |->
     IF OnSurface(Canvas, a)
     THEN Sourced(r, dx, dy, Column(Canvas, a), Line(Canvas, a), Ground[a], over)
     ELSE Ground[a]]

PartDrawn == subject = "blit" => result = Transferred(input.r, input.dx, input.dy, FALSE)
OverDrawn ==
  subject = "over" =>
    result = Transferred(Rectangle(0, 0, Picture.w, Picture.h), input.dx, input.dy, TRUE)

BlendDrawn ==
  subject = "rect" /\ input.op = "blend" =>
    \A a \in DOMAIN Ground : result[a] # Ground[a] => Blended(Ground[a], Clear, result[a])

ScaledDrawn ==
  subject = "scale" =>
    LET dst == input.dst
        src == input.src
    IN IF dst.w = 0 \/ dst.h = 0 \/ src.w = 0 \/ src.h = 0 THEN result = Ground
       ELSE dst.w <= src.w /\ dst.h <= src.h =>
              result = [a \in DOMAIN Ground |->
                          IF OnSurface(dst, a) THEN Shrunk(dst, src, Column(dst, a), Line(dst, a))
                          ELSE Ground[a]]

(* Every drawing call draws the pixels of its rectangle that lie on the     *)
(* surface, each with what the call asks of it, and touches no other, no    *)
(* matter how far the rectangle lies outside.  A picture that is made       *)
(* smaller loses no pixel and counts none twice.  The pixels of a surface   *)
(* are freed by the surface they were allocated for, and once.              *)
DrawsClipped ==
  /\ RectDrawn /\ PartDrawn /\ OverDrawn /\ BlendDrawn /\ ScaledDrawn
  /\ subject = "alloc" /\ result.ok =>
       result.w = input.w /\ result.h = input.h /\ result.w * result.h \in 1 .. 2 ^ 28
  /\ subject = "free" => (result.once.frees <=> input) /\ ~result.twice.frees
  /\ subject = "name" => \A c \in 0 .. 2 : result.top[c] \in 80 .. 207 /\ result.bot[c] < result.top[c]
=============================================================================

------------------------------- MODULE Raster -------------------------------
(***************************************************************************)
(* core/raster.c: drawing into a surface, on the memory it is a view of.   *)
(*                                                                         *)
(* Memory is a function from addresses to pixels.  A surface is where its  *)
(* first pixel is, its size and its stride; a surface that views a part of *)
(* another has pixels of that other on all sides of it, so that a pixel    *)
(* drawn out of place is seen.  A pixel has an alpha and, for the three    *)
(* colours, which are all treated alike, one value.                        *)
(***************************************************************************)
EXTENDS Integers, FiniteSets, Folds

Pixel(a, v) == [a |-> a, v |-> v]
Rectangle(x, y, w, h) == [x |-> x, y |-> y, w |-> w, h |-> h]
Empty == Rectangle(0, 0, 0, 0)

Smaller(a, b) == IF a < b THEN a ELSE b
Greater(a, b) == IF a > b THEN a ELSE b

Addr(s, x, y) == s.base + (y * s.stride) + x
Cells(s, r) == {Addr(s, x, y) : x \in r.x .. r.x + r.w - 1, y \in r.y .. r.y + r.h - 1}

(* A surface on fresh memory, w times h pixels of it, all of them zero;    *)
(* none for a size that is not positive, and none if there is no memory.   *)
SurfaceAlloc(w, h, calloc) ==
  IF w <= 0 \/ h <= 0 \/ w * h > 2 ^ 28 \/ ~calloc THEN [ok |-> FALSE]
  ELSE [ok |-> TRUE, base |-> 0, w |-> w, h |-> h, stride |-> w, owns |-> TRUE]

(* A surface on memory of somebody else, and what is left of a surface     *)
(* that is released: `frees` says whether its pixels go to free.           *)
SurfaceWrap(base, w, h, stride) ==
  [ok |-> TRUE, base |-> base, w |-> w, h |-> h, stride |-> stride, owns |-> FALSE]

SurfaceFree(s) ==
  [frees |-> s.owns,
   left |-> [ok |-> FALSE, base |-> 0, w |-> 0, h |-> 0, stride |-> 0, owns |-> FALSE]]

(* Mutant: the left edge is moved to the surface's and the width stays. *)
ClipKeepsWidth(s, r) ==
  LET x0 == Greater(r.x, 0)                 y0 == Greater(r.y, 0)
      x1 == Smaller(x0 + r.w, s.w)          y1 == Smaller(r.y + r.h, s.h)
  IN IF x1 <= x0 \/ y1 <= y0 THEN Empty ELSE Rectangle(x0, y0, x1 - x0, y1 - y0)

(* clip_rect; Empty where the code returns 0. *)
Clip(s, r) ==
  LET x0 == Greater(r.x, 0)                 y0 == Greater(r.y, 0)
      x1 == Smaller(r.x + r.w, s.w)         y1 == Smaller(r.y + r.h, s.h)
  IN IF x1 <= x0 \/ y1 <= y0 THEN Empty ELSE Rectangle(x0, y0, x1 - x0, y1 - y0)

BlendOver(dst, src) ==
  LET ia == 255 - src.a
      v == (src.v * src.a + dst.v * ia + 127) \div 255
      a == src.a + ((dst.a * ia + 127) \div 255)
  IN CASE src.a = 0 -> dst
       [] src.a = 255 -> src
       [] OTHER -> Pixel(Smaller(a, 255), v)

-----------------------------------------------------------------------------
(* Each operation takes a memory and returns what it becomes.              *)

Fill(m, s, c) ==
  LET cells == Cells(s, Rectangle(0, 0, s.w, s.h))
  IN [a \in DOMAIN m |-> IF a \in cells THEN c ELSE m[a]]

FillRect(m, s, r, c) ==
  LET cells == Cells(s, Clip(s, r))
  IN [a \in DOMAIN m |-> IF a \in cells THEN c ELSE m[a]]

BlendRect(m, s, r, c) ==
  LET cells == Cells(s, Clip(s, r))
  IN [a \in DOMAIN m |-> IF a \in cells THEN BlendOver(m[a], c) ELSE m[a]]

HLine(m, s, x, y, w, c) == FillRect(m, s, Rectangle(x, y, w, 1), c)
VLine(m, s, x, y, h, c) == FillRect(m, s, Rectangle(x, y, 1, h), c)

Frame(m, s, r, c) ==
  LET top == HLine(m, s, r.x, r.y, r.w, c)
      bottom == HLine(top, s, r.x, r.y + r.h - 1, r.w, c)
      left == VLine(bottom, s, r.x, r.y, r.h, c)
  IN IF r.w <= 0 \/ r.h <= 0 THEN m ELSE VLine(left, s, r.x + r.w - 1, r.y, r.h, c)

Bevel(m, s, r, light, dark) ==
  LET top == HLine(m, s, r.x, r.y, r.w, light)
      left == VLine(top, s, r.x, r.y, r.h, light)
      bottom == HLine(left, s, r.x, r.y + r.h - 1, r.w, dark)
  IN IF r.w <= 0 \/ r.h <= 0 THEN m ELSE VLine(bottom, s, r.x + r.w - 1, r.y, r.h, dark)

-----------------------------------------------------------------------------
(* A transfer takes r of the source to (dx, dy) of the destination.        *)
Transfer(dx, dy, r) == [dx |-> dx, dy |-> dy, r |-> r]

(* The part of it that lies on the source.  A source rectangle that begins *)
(* left of or above it begins later, and so does its copy.                 *)
ClipToSource(t, src) ==
  LET x0 == Greater(t.r.x, 0)               y0 == Greater(t.r.y, 0)
      x1 == Smaller(t.r.x + t.r.w, src.w)   y1 == Smaller(t.r.y + t.r.h, src.h)
  IN Transfer(t.dx + (x0 - t.r.x), t.dy + (y0 - t.r.y), Rectangle(x0, y0, x1 - x0, y1 - y0))

(* The part of it that lies on the destination. *)
ClipToTarget(t, dst) ==
  LET dx == Greater(t.dx, 0)                dy == Greater(t.dy, 0)
      w == Smaller(dx + t.r.w - (dx - t.dx), dst.w) - dx
      h == Smaller(dy + t.r.h - (dy - t.dy), dst.h) - dy
  IN Transfer(dx, dy, Rectangle(t.r.x + (dx - t.dx), t.r.y + (dy - t.dy), w, h))

Nothing(t) == t.r.w <= 0 \/ t.r.h <= 0

(* Row by row, what is at (r.x + x, r.y + y) there goes to (dx + x, dy + y) *)
(* here, as it is or blended over what is there.                           *)
Copy(m, dst, n, src, t, Put(_, _)) ==
  LET copied(a) == {p \in (0 .. t.r.w - 1) \X (0 .. t.r.h - 1) :
                      a = Addr(dst, t.dx + p[1], t.dy + p[2])}
  IN [a \in DOMAIN m |->
        IF copied(a) = {} THEN m[a]
        ELSE LET p == CHOOSE p \in copied(a) : TRUE
             IN Put(m[a], n[Addr(src, t.r.x + p[1], t.r.y + p[2])])]

Replace(old, new) == new

Blit(m, dst, dx, dy, n, src, r) ==
  LET t == ClipToSource(Transfer(dx, dy, r), src)
      u == ClipToTarget(t, dst)
  IN IF Nothing(t) \/ Nothing(u) THEN m ELSE Copy(m, dst, n, src, u, Replace)

BlitAlpha(m, dst, dx, dy, n, src) ==
  LET u == ClipToTarget(Transfer(dx, dy, Rectangle(0, 0, src.w, src.h)), dst)
  IN IF Nothing(u) THEN m ELSE Copy(m, dst, n, src, u, BlendOver)

-----------------------------------------------------------------------------
(* surface_downscale: the columns (or rows) of src, of which there are     *)
(* `size`, that make up number k of dst, of which there are `parts`.       *)
Span(k, size, parts) ==
  LET from == (k * size) \div parts
      to == ((k + 1) * size) \div parts
  IN from .. Smaller(IF to <= from THEN from + 1 ELSE to, size) - 1

Average(n, cells) ==
  LET sum(f(_)) == MapThenFoldSet(+, 0, f, LAMBDA S : CHOOSE x \in S : TRUE, cells)
      alpha(a) == n[a].a
      value(a) == n[a].v
      count == Greater(Cardinality(cells), 1)
  IN Pixel(sum(alpha) \div count, sum(value) \div count)

Downscale(m, dst, n, src) ==
  LET block(x, y) == {Addr(src, p[1], p[2]) : p \in Span(x, src.w, dst.w) \X Span(y, src.h, dst.h)}
      points(a) == {p \in (0 .. dst.w - 1) \X (0 .. dst.h - 1) : a = Addr(dst, p[1], p[2])}
  IN IF dst.w <= 0 \/ dst.h <= 0 \/ src.w <= 0 \/ src.h <= 0 THEN m
     ELSE [a \in DOMAIN m |->
             IF points(a) = {} THEN m[a]
             ELSE LET p == CHOOSE p \in points(a) : TRUE IN Average(n, block(p[1], p[2]))]
=============================================================================

------------------------------- MODULE Panels -------------------------------
(* ui/feed.c: what cards are made of that is more than one call of         *)
(* core/raster.c: panels and gradients, and the seed of a gradient.        *)
EXTENDS Raster, Sequences

Hilight == Pixel(255, 255)
Light == Pixel(255, 223)
Shadow == Pixel(255, 128)
Dark == Pixel(255, 64)

Inner(r) == Rectangle(r.x + 1, r.y + 1, r.w - 2, r.h - 2)

PanelRaised(m, s, r) == Bevel(Bevel(m, s, r, Hilight, Dark), s, Inner(r), Light, Shadow)
PanelSunken(m, s, r) == Bevel(Bevel(m, s, r, Shadow, Hilight), s, Inner(r), Dark, Light)

(* gradient_v: the colour of row y of h. *)
GradientRow(y, h, top, bot) ==
  LET t == IF h = 1 THEN 0 ELSE (y * 255) \div (h - 1)
  IN Pixel(255, (top.v * (255 - t) + bot.v * t) \div 255)

GradientV(m, s, r, top, bot) ==
  LET drawn[k \in 0 .. Greater(r.h, 0)] ==
        IF k = 0 THEN m
        ELSE HLine(drawn[k - 1], s, r.x, r.y + k - 1, r.w, GradientRow(k - 1, r.h, top, bot))
  IN drawn[Greater(r.h, 0)]

(* gradient_from_name: the three colours at the top and at the bottom.     *)
(* They come from the lowest 21 bits of the hash, which depend on nothing  *)
(* above them.                                                             *)
GradientFromName(name) ==
  LET h[k \in 0 .. Len(name)] == IF k = 0 THEN 5381 ELSE (h[k - 1] * 33 + name[k]) % 2 ^ 21
      hash == h[Len(name)]
      top == [c \in 0 .. 2 |-> 80 + ((hash \div 2 ^ (7 * c)) % 128)]
  IN [top |-> top, bot |-> [c \in 0 .. 2 |-> top[c] \div 2]]
=============================================================================

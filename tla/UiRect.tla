------------------------------- MODULE UiRect -------------------------------
(* Rectangles of pixels: UiRect and its operations (ui_types.h).            *)
EXTENDS Integers

Rect(x, y, w, h) == [x |-> x, y |-> y, w |-> w, h |-> h]

NoRect == Rect(0, 0, 0, 0)

ui_rect_is_empty(r) == r.w <= 0 \/ r.h <= 0

Smaller(a, b) == IF a < b THEN a ELSE b
Larger(a, b) == IF a > b THEN a ELSE b

\* The rectangle between two corners.
Between(left, top, right, bottom) == Rect(left, top, right - left, bottom - top)

\* An empty intersection keeps its corner and loses its size.
ui_rect_intersection(a, b) ==
  LET both == Between(Larger(a.x, b.x), Larger(a.y, b.y),
                      Smaller(a.x + a.w, b.x + b.w), Smaller(a.y + a.h, b.y + b.h))
  IN  IF ui_rect_is_empty(both) THEN Rect(both.x, both.y, 0, 0) ELSE both

ui_rect_union(a, b) ==
  IF ui_rect_is_empty(a) THEN b
  ELSE IF ui_rect_is_empty(b) THEN a
  ELSE Between(Smaller(a.x, b.x), Smaller(a.y, b.y),
               Larger(a.x + a.w, b.x + b.w), Larger(a.y + a.h, b.y + b.h))

\* The pixels of a rectangle.
PixelsOf(r) == (r.x .. r.x + r.w - 1) \X (r.y .. r.y + r.h - 1)
=============================================================================

----------------------------- MODULE HostProofs -----------------------------
(***************************************************************************)
(* What is shown as pictures: the framebuffer's way to the window, for     *)
(* every geometry; the player's frames, for every surface; and one frame   *)
(* of the UI tree, for any controls.                                       *)
(***************************************************************************)
EXTENDS Framebuffer, RenderTree, Player, FiniteSetsExt, FiniteSetTheorems,
        SequenceTheorems, WellFoundedInduction, TLAPS

-----------------------------------------------------------------------------
(* The least and the greatest of a set of numbers.                          *)

LEMMA MaxIs ==
  ASSUME NEW S \in SUBSET Int, NEW m \in S, \A k \in S : m >= k
  PROVE  Max(S) = m
<1>1. PICK most \in S : most = Max(S) /\ \A k \in S : most >= k
  BY DEF Max
<1>2. most \in Int /\ m \in Int /\ most >= m /\ m >= most
  BY <1>1
<1>3. QED BY <1>1, <1>2

LEMMA MinIs ==
  ASSUME NEW S \in SUBSET Int, NEW m \in S, \A k \in S : m =< k
  PROVE  Min(S) = m
<1>1. PICK most \in S : most = Min(S) /\ \A k \in S : most =< k
  BY DEF Min
<1>2. most \in Int /\ m \in Int /\ most =< m /\ m =< most
  BY <1>1
<1>3. QED BY <1>1, <1>2

LEMMA LeastExists ==
  ASSUME NEW S \in SUBSET Nat, S # {}
  PROVE  \E m \in S : \A k \in S : m =< k
<1>1. PICK m \in S : \A k \in S : ~ (<<k, m>> \in OpToRel(<, Nat))
  BY NatLessThanWellFounded, WFMin
<1>2. ASSUME NEW k \in S PROVE ~ (k < m)
  BY <1>1, <1>2 DEF OpToRel
<1>3. QED BY <1>2

LEMMA GreatestExists ==
  ASSUME NEW n \in Nat, NEW S \in SUBSET (0 .. n), S # {}
  PROVE  \E m \in S : \A k \in S : m >= k
<1> DEFINE B == {n - k : k \in S}
<1>1. \A k \in S : k \in 0 .. n /\ n - k \in Nat
  OBVIOUS
<1>2. B \in SUBSET Nat /\ B # {}
  BY <1>1
<1>3. PICK b \in B : \A z \in B : b =< z
  BY <1>2, LeastExists
<1>4. PICK m \in S : b = n - m
  BY <1>3
<1>5. ASSUME NEW k \in S PROVE m >= k
  <2>1. n - k \in B
    OBVIOUS
  <2>2. b =< n - k
    BY <1>3, <2>1
  <2>3. m \in Int /\ k \in Int /\ n \in Int
    BY <1>1
  <2>4. n - m =< n - k
    BY <1>4, <2>2
  <2>5. QED BY <2>3, <2>4
<1>6. QED BY <1>5

LEMMA UpwardsTo ==
  ASSUME NEW n \in Nat, NEW S, 0 \in S, \A i \in 1 .. n : i - 1 \in S => i \in S
  PROVE  n \in S
<1> DEFINE bad == {i \in 0 .. n : i \notin S}
<1>1. SUFFICES ASSUME bad # {} PROVE FALSE
  OBVIOUS
<1>2. bad \in SUBSET Nat
  OBVIOUS
<1>3. PICK least \in bad : \A i \in bad : least =< i
  BY <1>1, <1>2, LeastExists
<1>4. least \in 1 .. n /\ least - 1 \in 0 .. n
  BY <1>3
<1>5. least - 1 \in S
  BY <1>3, <1>4
<1>6. QED BY <1>3, <1>4, <1>5

-----------------------------------------------------------------------------
(* Rectangles.                                                              *)

IntRect(r) == {r.x, r.y, r.w, r.h} \subseteq Int

LEMMA PixelIn ==
  ASSUME NEW r, NEW p \in PixelsOf(Screen)
  PROVE  p \in PixelsOf(r) <=> p[1] \in r.x .. r.x + r.w - 1 /\ p[2] \in r.y .. r.y + r.h - 1
BY DEF PixelsOf

(* An empty rectangle has no pixels.                                        *)
LEMMA EmptyHasNone ==
  ASSUME NEW r, IntRect(r), ui_rect_is_empty(r), NEW p \in PixelsOf(r)
  PROVE  FALSE
<1>1. p[1] \in r.x .. r.x + r.w - 1 /\ p[2] \in r.y .. r.y + r.h - 1
  BY DEF PixelsOf
<1>2. QED BY <1>1 DEF IntRect, ui_rect_is_empty

(* The intersection has the pixels that both have; it is a rectangle again, *)
(* and lies in both.                                                        *)
LEMMA IntersectionIs ==
  ASSUME NEW a, NEW b, IntRect(a), IntRect(b)
  PROVE  LET c == ui_rect_intersection(a, b)
         IN  /\ c \in [x : Int, y : Int, w : Nat, h : Nat]
             /\ PixelsOf(c) = PixelsOf(a) \intersect PixelsOf(b)
             /\ ~ui_rect_is_empty(c) =>
                  /\ c.x >= a.x /\ c.x + c.w <= a.x + a.w
                  /\ c.y >= a.y /\ c.y + c.h <= a.y + a.h
                  /\ c.x >= b.x /\ c.x + c.w <= b.x + b.w
                  /\ c.y >= b.y /\ c.y + c.h <= b.y + b.h
<1> DEFINE left == Larger(a.x, b.x)
           top == Larger(a.y, b.y)
           w == Smaller(a.x + a.w, b.x + b.w) - left
           h == Smaller(a.y + a.h, b.y + b.h) - top
           c == ui_rect_intersection(a, b)
<1>1. /\ a.x \in Int /\ a.y \in Int /\ a.w \in Int /\ a.h \in Int
      /\ b.x \in Int /\ b.y \in Int /\ b.w \in Int /\ b.h \in Int
  BY DEF IntRect
<1>2. left \in Int /\ top \in Int /\ w \in Int /\ h \in Int
  BY <1>1 DEF Larger, Smaller
<1>3. c = IF w <= 0 \/ h <= 0 THEN Rect(left, top, 0, 0) ELSE Rect(left, top, w, h)
  BY DEF ui_rect_intersection, Between, ui_rect_is_empty, Rect
<1>4. PixelsOf(a) \intersect PixelsOf(b) = (left .. left + w - 1) \X (top .. top + h - 1)
  <2>1. (a.x .. a.x + a.w - 1) \intersect (b.x .. b.x + b.w - 1) = left .. left + w - 1
    BY <1>1 DEF Larger, Smaller
  <2>2. (a.y .. a.y + a.h - 1) \intersect (b.y .. b.y + b.h - 1) = top .. top + h - 1
    BY <1>1 DEF Larger, Smaller
  <2>3. QED BY <2>1, <2>2 DEF PixelsOf
<1>5. w > 0 /\ h > 0 =>
        /\ left >= a.x /\ left + w <= a.x + a.w /\ left >= b.x /\ left + w <= b.x + b.w
        /\ top >= a.y /\ top + h <= a.y + a.h /\ top >= b.y /\ top + h <= b.y + b.h
  BY <1>1 DEF Larger, Smaller
<1> HIDE DEF left, top, w, h, c
<1>6. CASE w <= 0 \/ h <= 0
  <2>1. c.x = left /\ c.y = top /\ c.w = 0 /\ c.h = 0
        /\ c \in [x : Int, y : Int, w : Nat, h : Nat]
    BY <1>2, <1>3, <1>6 DEF Rect
  <2>2. ui_rect_is_empty(c)
    BY <2>1 DEF ui_rect_is_empty
  <2>3. PixelsOf(c) = {} /\ PixelsOf(a) \intersect PixelsOf(b) = {}
    <3>1. left .. left + 0 - 1 = {} /\ (left .. left + w - 1 = {} \/ top .. top + h - 1 = {})
      BY <1>2, <1>6
    <3>2. QED BY <1>4, <2>1, <3>1 DEF PixelsOf
  <2>4. QED BY <2>1, <2>2, <2>3 DEF c
<1>7. CASE ~(w <= 0 \/ h <= 0)
  <2>1. c.x = left /\ c.y = top /\ c.w = w /\ c.h = h
        /\ c \in [x : Int, y : Int, w : Nat, h : Nat]
    BY <1>2, <1>3, <1>7 DEF Rect
  <2>2. PixelsOf(c) = PixelsOf(a) \intersect PixelsOf(b)
    BY <1>4, <2>1 DEF PixelsOf
  <2>3. w > 0 /\ h > 0
    BY <1>2, <1>7
  <2>4. QED BY <1>5, <2>1, <2>2, <2>3 DEF c
<1>8. QED BY <1>6, <1>7

(* The union covers both, and is no larger than what covers them.           *)
LEMMA UnionCovers ==
  ASSUME NEW a, NEW b, IntRect(a), IntRect(b)
  PROVE  /\ PixelsOf(a) \subseteq PixelsOf(ui_rect_union(a, b))
         /\ PixelsOf(b) \subseteq PixelsOf(ui_rect_union(a, b))
<1> DEFINE c == ui_rect_union(a, b)
<1>1. /\ a.x \in Int /\ a.y \in Int /\ a.w \in Int /\ a.h \in Int
      /\ b.x \in Int /\ b.y \in Int /\ b.w \in Int /\ b.h \in Int
  BY DEF IntRect
<1>2. CASE ui_rect_is_empty(a)
  <2>1. c = b
    BY <1>2 DEF ui_rect_union
  <2>2. PixelsOf(a) = {}
    BY <1>2, EmptyHasNone
  <2>3. QED BY <2>1, <2>2
<1>3. CASE ~ui_rect_is_empty(a) /\ ui_rect_is_empty(b)
  <2>1. c = a /\ PixelsOf(b) = {}
    BY <1>3, EmptyHasNone DEF ui_rect_union
  <2>2. QED BY <2>1
<1>4. CASE ~ui_rect_is_empty(a) /\ ~ui_rect_is_empty(b)
  <2> DEFINE left == Smaller(a.x, b.x)
             top == Smaller(a.y, b.y)
             right == Larger(a.x + a.w, b.x + b.w)
             bottom == Larger(a.y + a.h, b.y + b.h)
  <2>1. c = Rect(left, top, right - left, bottom - top)
    BY <1>4 DEF ui_rect_union, Between
  <2>2. /\ left \in Int /\ right \in Int /\ top \in Int /\ bottom \in Int
        /\ left <= a.x /\ left <= b.x /\ a.x + a.w <= right /\ b.x + b.w <= right
        /\ top <= a.y /\ top <= b.y /\ a.y + a.h <= bottom /\ b.y + b.h <= bottom
    BY <1>1 DEF Smaller, Larger
  <2> HIDE DEF left, top, right, bottom
  <2>3. c.x = left /\ c.y = top /\ c.w = right - left /\ c.h = bottom - top
    BY <2>1 DEF Rect
  <2>4. /\ a.x .. a.x + a.w - 1 \subseteq left .. left + (right - left) - 1
        /\ b.x .. b.x + b.w - 1 \subseteq left .. left + (right - left) - 1
        /\ a.y .. a.y + a.h - 1 \subseteq top .. top + (bottom - top) - 1
        /\ b.y .. b.y + b.h - 1 \subseteq top .. top + (bottom - top) - 1
    BY <1>1, <2>2
  <2>5. QED BY <2>3, <2>4 DEF PixelsOf
<1>5. QED BY <1>2, <1>3, <1>4

-----------------------------------------------------------------------------
(* The framebuffer.  Rows and columns of bytes.                             *)

LEMMA Geometry ==
  /\ STRIDE \in Nat \ {0} /\ WIDTH \in Nat \ {0} /\ HEIGHT \in Nat \ {0}
  /\ 2 * WIDTH <= STRIDE /\ CAPACITY \in Nat
<1>1. /\ STRIDE \in Nat /\ WIDTH \in Nat \ {0} /\ HEIGHT \in Nat \ {0} /\ STRIDE >= 2 * WIDTH
  BY GeometryAssumption
<1>2. STRIDE * HEIGHT \in Nat
  BY <1>1
<1>3. QED BY <1>1, <1>2 DEF CAPACITY

LEMMA RowColumn ==
  ASSUME NEW n \in Nat \ {0}, NEW a \in Nat
  PROVE  /\ a \div n \in Nat /\ a % n \in 0 .. n - 1
         /\ a = n * (a \div n) + (a % n)
OBVIOUS

LEMMA RowsInOrder ==
  ASSUME NEW n \in Nat \ {0}, NEW a \in Nat, NEW b \in Nat, a <= b
  PROVE  a \div n <= b \div n /\ (a \div n = b \div n => a % n <= b % n)
<1>1. a \div n <= b \div n
  OBVIOUS
<1>2. ASSUME a \div n = b \div n PROVE a % n <= b % n
  <2> DEFINE m == n * (a \div n)
  <2>1. a \div n \in Nat /\ a = m + (a % n) /\ a % n \in 0 .. n - 1
    BY RowColumn
  <2>2. b = m + (b % n) /\ b % n \in 0 .. n - 1
    BY <1>2, RowColumn
  <2>3. m \in Nat
    BY <2>1
  <2> HIDE DEF m
  <2>4. QED BY <2>1, <2>2, <2>3
<1>3. QED BY <1>1, <1>2

(* The rectangle of a store has a size, and holds every visible pixel the   *)
(* store changes: a store that crosses a row takes whole rows, and one in   *)
(* the padding touches nothing.                                             *)
LEMMA StoreInside ==
  ASSUME NEW offset \in Nat, NEW size \in Nat \ {0}
  PROVE  /\ StoreRect(offset, size) \in Rects
         /\ ~ui_rect_is_empty(StoreRect(offset, size))
         /\ Touched(offset, size) \subseteq PixelsOf(StoreRect(offset, size))
<1> DEFINE last == offset + size - 1
           top == offset \div STRIDE
           bottom == last \div STRIDE
           left == (offset % STRIDE) \div 2
           right == (last % STRIDE) \div 2
           r == StoreRect(offset, size)
<1>1. STRIDE \in Nat \ {0} /\ WIDTH \in Nat \ {0}
  BY Geometry
<1>2. last \in Nat /\ offset <= last
  OBVIOUS
<1>3. /\ top \in Nat /\ bottom \in Nat /\ top <= bottom
      /\ offset % STRIDE \in Nat /\ last % STRIDE \in Nat
      /\ top = bottom => offset % STRIDE <= last % STRIDE
  BY <1>1, <1>2, RowColumn, RowsInOrder
<1>4. left \in Nat /\ right \in Nat /\ (top = bottom => left <= right)
  BY <1>3, RowsInOrder, RowColumn
<1>5. r = IF top = bottom THEN Rect(left % WIDTH, top, right - left + 1, 1)
          ELSE Rect(0, top, WIDTH, bottom - top + 1)
  BY Zenon DEF StoreRect
<1>6. ASSUME NEW p \in Touched(offset, size)
      PROVE  /\ p \in PixelsOf(Screen) /\ p[2] \in top .. bottom
             /\ p[1] \in 0 .. WIDTH - 1
             /\ top = bottom => p[1] \in left .. right
  <2>1. PICK b \in offset .. offset + size - 1 :
          b \div STRIDE = p[2] /\ (b % STRIDE) \div 2 = p[1]
    BY DEF Touched
  <2>2. b \in Nat /\ offset <= b /\ b <= last
    BY <2>1
  <2>3. /\ top <= p[2] /\ p[2] <= bottom
        /\ top = p[2] => offset % STRIDE <= b % STRIDE
        /\ p[2] = bottom => b % STRIDE <= last % STRIDE
    BY <1>1, <1>2, <2>1, <2>2, RowsInOrder
  <2>4. p[2] \in Nat /\ b % STRIDE \in Nat
    <3>1. b \div STRIDE \in Nat /\ b % STRIDE \in 0 .. STRIDE - 1
      BY <1>1, <2>2, RowColumn
    <3>2. QED BY <1>1, <2>1, <3>1
  <2>5. p[2] \in top .. bottom
    BY <1>3, <2>3, <2>4
  <2>6. ASSUME top = bottom PROVE p[1] \in left .. right
    <3>1. p[2] = top /\ p[2] = bottom
      BY <1>3, <2>3, <2>4, <2>6
    <3>2. left <= p[1] /\ p[1] <= right
      <4>1. offset % STRIDE <= b % STRIDE /\ b % STRIDE <= last % STRIDE
        BY <2>3, <3>1
      <4>2. \A m, n \in Nat : m <= n => m \div 2 <= n \div 2
        OBVIOUS
      <4>3. QED BY <1>3, <2>1, <2>4, <4>1, <4>2
    <3>3. p[1] \in Nat
      BY <2>1, <2>4, RowColumn
    <3>4. QED BY <1>4, <3>2, <3>3
  <2>7. p \in PixelsOf(Screen) /\ p[1] \in 0 .. WIDTH - 1
    <3>1. p \in PixelsOf(Screen)
      BY DEF Touched
    <3>2. QED BY <3>1, Geometry DEF PixelsOf, Screen, Rect
  <2>8. QED BY <2>5, <2>6, <2>7
<1> HIDE DEF last, top, bottom, left, right, r
<1>7. CASE top = bottom
  <2>1. r.x = left % WIDTH /\ r.y = top /\ r.w = right - left + 1 /\ r.h = 1
    BY <1>5, <1>7 DEF Rect
  <2>2. left % WIDTH \in Nat
    BY <1>1, <1>4, RowColumn
  <2>3. r \in Rects /\ ~ui_rect_is_empty(r)
    BY <1>3, <1>4, <1>5, <1>7, <2>1, <2>2 DEF Rects, Rect, ui_rect_is_empty
  <2>4. ASSUME NEW p \in Touched(offset, size) PROVE p \in PixelsOf(r)
    <3>1. p \in PixelsOf(Screen) /\ p[2] = top /\ p[1] \in left .. right /\ p[1] \in 0 .. WIDTH - 1
      BY <1>3, <1>6, <1>7
    <3>2. left < WIDTH
      BY <1>1, <1>4, <3>1
    <3>3. left % WIDTH = left
      BY <1>1, <1>4, <3>2
    <3>4. p[1] \in r.x .. r.x + r.w - 1 /\ p[2] \in r.y .. r.y + r.h - 1
      BY <1>3, <1>4, <2>1, <3>1, <3>3
    <3>5. QED BY <3>1, <3>4, PixelIn
  <2>5. QED BY <2>3, <2>4 DEF r
<1>8. CASE top # bottom
  <2>1. r.x = 0 /\ r.y = top /\ r.w = WIDTH /\ r.h = bottom - top + 1
    BY <1>5, <1>8 DEF Rect
  <2>2. r \in Rects /\ ~ui_rect_is_empty(r)
    BY <1>1, <1>3, <1>5, <1>8, <2>1 DEF Rects, Rect, ui_rect_is_empty
  <2>3. ASSUME NEW p \in Touched(offset, size) PROVE p \in PixelsOf(r)
    <3>1. p \in PixelsOf(Screen) /\ p[2] \in top .. bottom /\ p[1] \in 0 .. WIDTH - 1
      BY <1>6
    <3>2. p[1] \in r.x .. r.x + r.w - 1 /\ p[2] \in r.y .. r.y + r.h - 1
      BY <1>1, <1>3, <2>1, <3>1
    <3>3. QED BY <3>1, <3>2, PixelIn
  <2>4. QED BY <2>2, <2>3 DEF r
<1>9. QED BY <1>7, <1>8

(* Merging keeps the new rectangle (the old one it may shrink).             *)
LEMMA MergeKeepsNew ==
  ASSUME NEW old \in Rects, NEW new \in Rects
  PROVE  /\ Merge(old, new) \in Rects
         /\ PixelsOf(new) \subseteq PixelsOf(Merge(old, new))
<1> DEFINE left == Smaller(new.x, old.x)
           top == Smaller(new.y, old.y)
           w == IF new.x + new.w > left + old.w THEN new.x + new.w - left ELSE old.w
           h == IF new.y + new.h > top + old.h THEN new.y + new.h - top ELSE old.h
<1>1. /\ new.x \in Nat /\ new.y \in Nat /\ new.w \in Nat /\ new.h \in Nat
      /\ old.x \in Nat /\ old.y \in Nat /\ old.w \in Nat /\ old.h \in Nat
  BY DEF Rects
<1>2. left \in Nat /\ top \in Nat /\ left <= new.x /\ top <= new.y
  BY <1>1 DEF Smaller
<1>3. Merge(old, new) = Rect(left, top, w, h)
  BY Zenon DEF Merge
<1> HIDE DEF left, top
<1>4. /\ w \in Nat /\ h \in Nat
      /\ new.x + new.w <= left + w /\ new.y + new.h <= top + h
  BY <1>1, <1>2
<1> HIDE DEF w, h
<1>5. /\ Merge(old, new).x = left /\ Merge(old, new).y = top
      /\ Merge(old, new).w = w /\ Merge(old, new).h = h /\ Merge(old, new) \in Rects
  BY <1>2, <1>3, <1>4 DEF Rect, Rects
<1>6. /\ new.x .. new.x + new.w - 1 \subseteq left .. left + w - 1
      /\ new.y .. new.y + new.h - 1 \subseteq top .. top + h - 1
  BY <1>1, <1>2, <1>4
<1>7. QED BY <1>5, <1>6 DEF PixelsOf

-----------------------------------------------------------------------------
(* The invariant: what the display has to upload is nothing, or a rectangle *)
(* with a size and on the screen.                                           *)

OnScreenRect(r) ==
  r.w > 0 /\ r.h > 0 /\ r.x + r.w <= WIDTH /\ r.y + r.h <= HEIGHT

FbInv == FbTypeOK /\ (surface = NoRect \/ OnScreenRect(surface))

Sized(r) == r \in Rects /\ OnScreenRect(r)

LEMMA NoRectIs ==
  /\ NoRect \in Rects /\ IntRect(NoRect) /\ ui_rect_is_empty(NoRect) /\ PixelsOf(NoRect) = {}
<1>1. NoRect \in Rects /\ IntRect(NoRect) /\ ui_rect_is_empty(NoRect)
  BY DEF NoRect, Rects, Rect, IntRect, ui_rect_is_empty
<1>2. QED BY <1>1, EmptyHasNone

LEMMA SizedIs ==
  ASSUME NEW r, Sized(r)
  PROVE  /\ IntRect(r) /\ ~ui_rect_is_empty(r) /\ PixelsOf(r) \subseteq PixelsOf(Screen)
         /\ \E p : p \in PixelsOf(r)
<1>1. /\ r.x \in Nat /\ r.y \in Nat /\ r.w \in Nat /\ r.h \in Nat
      /\ r.w > 0 /\ r.h > 0 /\ r.x + r.w <= WIDTH /\ r.y + r.h <= HEIGHT
  BY DEF Sized, OnScreenRect, Rects
<1>2. IntRect(r) /\ ~ui_rect_is_empty(r)
  BY <1>1 DEF IntRect, ui_rect_is_empty
<1>3. /\ r.x .. r.x + r.w - 1 \subseteq 0 .. 0 + WIDTH - 1
      /\ r.y .. r.y + r.h - 1 \subseteq 0 .. 0 + HEIGHT - 1
  BY <1>1, Geometry
<1>4. PixelsOf(r) \subseteq PixelsOf(Screen)
  BY <1>3 DEF PixelsOf, Screen, Rect
<1>5. r.x \in r.x .. r.x + r.w - 1 /\ r.y \in r.y .. r.y + r.h - 1
  BY <1>1
<1>6. <<r.x, r.y>> \in PixelsOf(r)
  BY <1>5 DEF PixelsOf
<1>7. QED BY <1>2, <1>4, <1>6

LEMMA UnionSized ==
  ASSUME NEW a, Sized(a), NEW b, Sized(b)
  PROVE  Sized(ui_rect_union(a, b))
<1>1. /\ a.x \in Nat /\ a.y \in Nat /\ a.w \in Nat /\ a.h \in Nat
      /\ a.w > 0 /\ a.h > 0 /\ a.x + a.w <= WIDTH /\ a.y + a.h <= HEIGHT
      /\ b.x \in Nat /\ b.y \in Nat /\ b.w \in Nat /\ b.h \in Nat
      /\ b.w > 0 /\ b.h > 0 /\ b.x + b.w <= WIDTH /\ b.y + b.h <= HEIGHT
  BY DEF Sized, OnScreenRect, Rects
<1> DEFINE left == Smaller(a.x, b.x)
           top == Smaller(a.y, b.y)
           w == Larger(a.x + a.w, b.x + b.w) - left
           h == Larger(a.y + a.h, b.y + b.h) - top
<1>2. ui_rect_union(a, b) = Rect(left, top, w, h)
  BY SizedIs DEF ui_rect_union, Between
<1>3. /\ left \in Nat /\ top \in Nat /\ w \in Nat /\ h \in Nat
      /\ w > 0 /\ h > 0 /\ left + w <= WIDTH /\ top + h <= HEIGHT
  BY <1>1, Geometry DEF Smaller, Larger
<1> HIDE DEF left, top, w, h
<1>4. QED BY <1>2, <1>3 DEF Sized, OnScreenRect, Rects, Rect

(* What the service routine hands over is on the screen, and holds every    *)
(* visible pixel that was marked.                                           *)
LEMMA HandedIs ==
  ASSUME FbInv
  PROVE  /\ Handed = NoRect \/ Sized(Handed)
         /\ PixelsOf(Screen) \intersect Marked \subseteq PixelsOf(Handed)
<1> DEFINE c == ui_rect_intersection(dirty, Screen)
<1>1. dirty \in Rects /\ (surface = NoRect \/ Sized(surface)) /\ surface \in Rects
  BY DEF FbInv, FbTypeOK, Sized
<1>2. IntRect(dirty) /\ IntRect(Screen) /\ IntRect(surface)
      /\ Screen.x = 0 /\ Screen.y = 0 /\ Screen.w = WIDTH /\ Screen.h = HEIGHT
  BY <1>1, Geometry DEF IntRect, Screen, Rect, Rects
<1>3. PixelsOf(c) = PixelsOf(dirty) \intersect PixelsOf(Screen)
  BY <1>2, IntersectionIs
<1>4. IntRect(c) /\ (ui_rect_is_empty(c) \/ Sized(c))
  <2>1. /\ c \in [x : Int, y : Int, w : Nat, h : Nat]
        /\ ~ui_rect_is_empty(c) => /\ c.x >= Screen.x /\ c.x + c.w <= Screen.x + Screen.w
                                   /\ c.y >= Screen.y /\ c.y + c.h <= Screen.y + Screen.h
    BY <1>2, IntersectionIs
  <2> HIDE DEF c
  <2>2. c.x \in Int /\ c.y \in Int /\ c.w \in Nat /\ c.h \in Nat
        /\ c = [x |-> c.x, y |-> c.y, w |-> c.w, h |-> c.h]
    BY <2>1
  <2>3. ~ui_rect_is_empty(c) => c.w > 0 /\ c.h > 0
    BY <2>2 DEF ui_rect_is_empty
  <2>4. ~ui_rect_is_empty(c) => c.x >= 0 /\ c.x + c.w <= WIDTH /\ c.y >= 0 /\ c.y + c.h <= HEIGHT
    BY <1>2, <2>1, <2>2, Geometry
  <2>5. ~ui_rect_is_empty(c) => c \in Rects
    BY <2>2, <2>4 DEF Rects
  <2>6. QED BY <2>2, <2>3, <2>4, <2>5 DEF IntRect, Sized, OnScreenRect
<1> HIDE DEF c
<1>5. CASE dirty = NoRect \/ ui_rect_is_empty(c)
  <2>1. Handed = surface
    BY <1>5 DEF Handed, ui_surface_mark_dirty, c
  <2>2. PixelsOf(dirty) \intersect PixelsOf(Screen) = {}
    <3>1. CASE dirty = NoRect
      BY <3>1, NoRectIs
    <3>2. CASE ui_rect_is_empty(c)
      BY <1>3, <1>4, <3>2, EmptyHasNone
    <3>3. QED BY <1>5, <3>1, <3>2
  <2>3. QED BY <1>1, <2>1, <2>2 DEF Marked
<1>6. CASE dirty # NoRect /\ ~ui_rect_is_empty(c)
  <2>1. Handed = ui_rect_union(surface, c) /\ Sized(c)
    BY <1>4, <1>6 DEF Handed, ui_surface_mark_dirty, c
  <2>2. Sized(Handed)
    <3>1. CASE surface = NoRect
      BY <2>1, <3>1, NoRectIs DEF ui_rect_union
    <3>2. CASE Sized(surface)
      BY <2>1, <3>2, UnionSized
    <3>3. QED BY <1>1, <3>1, <3>2
  <2>3. PixelsOf(surface) \subseteq PixelsOf(Handed) /\ PixelsOf(c) \subseteq PixelsOf(Handed)
    BY <1>2, <1>4, <2>1, UnionCovers
  <2>4. QED BY <1>3, <2>2, <2>3 DEF Marked
<1>7. QED BY <1>5, <1>6

LEMMA GuestStoreStep ==
  ASSUME FbInv, NEW s \in Stores, GuestStore(s[1], s[2])
  PROVE  FbInv' /\ Touched(s[1], s[2]) \subseteq PixelsOf(dirty')
<1>1. s[1] \in Nat /\ s[2] \in Nat \ {0}
  BY Geometry DEF Stores
<1> DEFINE new == StoreRect(s[1], s[2])
<1>2. new \in Rects /\ Touched(s[1], s[2]) \subseteq PixelsOf(new)
  BY <1>1, StoreInside
<1>3. dirty \in Rects
  BY DEF FbInv, FbTypeOK
<1>4. dirty' \in Rects /\ PixelsOf(new) \subseteq PixelsOf(dirty')
  BY <1>2, <1>3, MergeKeepsNew DEF GuestStore, framebuffer_mark_bytes
<1>5. Touched(s[1], s[2]) \subseteq PixelsOf(Screen)
  BY DEF Touched
<1>6. FbInv'
  BY <1>4, <1>5 DEF FbInv, FbTypeOK, GuestStore, OnScreenRect
<1>7. QED BY <1>2, <1>4, <1>6

LEMMA ServiceStep ==
  ASSUME FbInv, service_sdl
  PROVE  FbInv' /\ unseen' \intersect Marked \subseteq PixelsOf(surface')
<1>1. /\ Handed = NoRect \/ Sized(Handed)
      /\ PixelsOf(Screen) \intersect Marked \subseteq PixelsOf(Handed)
  BY HandedIs
<1>2. unsent \subseteq PixelsOf(Screen) /\ unseen \subseteq PixelsOf(Screen)
      /\ surface \in Rects /\ (surface = NoRect \/ OnScreenRect(surface))
  BY DEF FbInv, FbTypeOK
<1>3. dirty' = NoRect /\ NoRect \in Rects /\ PixelsOf(NoRect) = {}
  BY NoRectIs DEF service_sdl
<1>4. /\ unsent' \subseteq PixelsOf(Screen) /\ unseen' \subseteq PixelsOf(Screen)
      /\ surface' \in Rects /\ (surface' = NoRect \/ OnScreenRect(surface'))
      /\ unseen' \intersect Marked \subseteq PixelsOf(surface')
  <2>1. CASE PresentNothing
    BY <1>1, <1>2, <1>3, <2>1 DEF PresentNothing
  <2>2. CASE PresentDirty
    BY <1>1, <1>2, <1>3, <2>2 DEF PresentDirty
  <2>3. CASE UploadFails
    BY <1>1, <1>2, <2>3 DEF UploadFails, Sized
  <2>4. CASE RenderFails
    BY <1>1, <1>2, <2>4 DEF RenderFails, Sized
  <2>5. QED BY <2>1, <2>2, <2>3, <2>4 DEF service_sdl
<1>5. QED BY <1>3, <1>4 DEF FbInv, FbTypeOK, OnScreenRect

LEMMA ScreenSized == Sized(Screen)
BY Geometry DEF Sized, OnScreenRect, Rects, Screen, Rect

LEMMA FbInductive == FbInv /\ [FbNext]_fb_vars => FbInv'
<1> SUFFICES ASSUME FbInv, [FbNext]_fb_vars
             PROVE  FbInv'
  OBVIOUS
<1>1. CASE \E s \in Stores : GuestStore(s[1], s[2])
  BY <1>1, GuestStoreStep
<1>2. CASE service_sdl
  BY <1>2, ServiceStep
<1>3. CASE GuiReset
  BY <1>3, ScreenSized, NoRectIs DEF GuiReset, FbInv, FbTypeOK, OnScreenRect, Sized
<1>4. CASE UNCHANGED fb_vars
  BY <1>4 DEF FbInv, FbTypeOK, OnScreenRect, fb_vars
<1>5. QED BY <1>1, <1>2, <1>3, <1>4 DEF FbNext

THEOREM FbInvariance == FbSpec => []FbInv
<1>1. FbInit => FbInv
  BY ScreenSized, NoRectIs DEF FbInit, FbInv, FbTypeOK, OnScreenRect, Sized
<1>2. QED BY <1>1, FbInductive, PTL DEF FbSpec

(* Rectangles stay well formed, and what is uploaded lies on the screen,    *)
(* wherever the guest stores.                                               *)
THEOREM FbIsSafe == FbSpec => []FbSafe
<1>1. FbInv => FbSafe
  BY SizedIs DEF FbInv, FbTypeOK, Sized, FbSafe, SurfaceOnScreen
<1>2. QED BY <1>1, FbInvariance, PTL

(* No step forgets a visible pixel it owes: a store is inside the rectangle *)
(* it leaves, and the service routine gives up a mark only for a pixel the  *)
(* window shows.                                                            *)
THEOREM FbKeepsDebt == FbSpec => DebtKept
<1>1. FbInv => (\A s \in Stores : GuestStore(s[1], s[2]) =>
                                    Touched(s[1], s[2]) \subseteq PixelsOf(dirty'))
  BY GuestStoreStep
<1>2. FbInv => (service_sdl => unseen' \intersect Marked \subseteq PixelsOf(surface'))
  BY ServiceStep
<1>3. QED BY <1>1, <1>2, FbInvariance, PTL DEF DebtKept

-----------------------------------------------------------------------------
(* The player.  What the window lacks of the surface is marked dirty, and   *)
(* phase 2 starts from a blank surface.                                     *)

PicturesOK ==
  /\ pixels \in [Pixels -> Int] /\ window \in [Pixels -> Int] /\ IntRect(surface_dirty)
  /\ \A p \in Pixels : p \in PixelsOf(surface_dirty) \/ window[p] = pixels[p]

FramesOK ==
  /\ frames \in Nat /\ limit \in Nat
  /\ limit > 0 => frames <= limit
  /\ (player_at # "ended" /\ limit > 0) => frames < limit
  /\ (player_at = "ended" /\ running) => limit > 0 /\ frames = limit

StartsBlank == (phase = 2 /\ phase_tick = 0) => pixels = Blank

PlayerInv ==
  PlayerTypeOK /\ PicturesOK /\ FramesOK /\ StartsBlank /\ OnlyTheBox /\ before = topology

LEMMA Surface ==
  /\ SURFACE_WIDTH \in Nat \ {0} /\ SURFACE_HEIGHT \in Nat \ {0}
  /\ BOX_WIDTH \in 0 .. SURFACE_WIDTH /\ BOX_HEIGHT \in 0 .. SURFACE_HEIGHT
  /\ IntRect(SurfaceRect) /\ PixelsOf(SurfaceRect) = Pixels
<1>1. SURFACE_WIDTH \in Nat \ {0} /\ SURFACE_HEIGHT \in Nat \ {0}
  BY PlayerAssumption
<1>2. BOX_WIDTH \in 0 .. SURFACE_WIDTH
  BY <1>1 DEF BOX_WIDTH
<1>3. BOX_HEIGHT \in 0 .. SURFACE_HEIGHT
  BY <1>1 DEF BOX_HEIGHT
<1>4. IntRect(SurfaceRect)
  BY <1>1 DEF SurfaceRect, Rect, IntRect
<1>5. QED BY <1>1, <1>2, <1>3, <1>4 DEF Pixels

(* The rectangle bounces off the edges and stays on the surface.            *)
LEMMA BouncedStays ==
  ASSUME NEW bound \in Nat, NEW size \in 0 .. bound, NEW from \in 0 .. bound - size,
         NEW D \in Nat, NEW speed \in {-D, D}
  PROVE  /\ Bounced(from, speed, size, bound)[1] \in 0 .. bound - size
         /\ Bounced(from, speed, size, bound)[2] \in {-D, D}
<1>1. CASE from + speed < 0
  BY <1>1 DEF Bounced
<1>2. CASE ~(from + speed < 0) /\ from + speed + size > bound
  <2>1. Bounced(from, speed, size, bound) = <<bound - size, -speed>>
    BY <1>2 DEF Bounced
  <2>2. QED BY <2>1
<1>3. CASE ~(from + speed < 0) /\ ~(from + speed + size > bound)
  <2>1. Bounced(from, speed, size, bound) = <<from + speed, speed>>
    BY <1>3 DEF Bounced
  <2>2. QED BY <1>3, <2>1
<1>4. QED BY <1>1, <1>2, <1>3

(* The core lies in the box, and both are rectangles.                       *)
LEMMA CoreInBox ==
  ASSUME NEW left \in Int, NEW top \in Int
  PROVE  /\ IntRect(BoxAt(left, top)) /\ IntRect(CoreAt(left, top))
         /\ \A p \in Pixels : InCore(p, left, top) => InBox(p, left, top)
<1>1. IntRect(BoxAt(left, top)) /\ IntRect(CoreAt(left, top))
  BY Surface DEF BoxAt, CoreAt, Rect, IntRect
<1>2. PixelsOf(CoreAt(left, top)) \subseteq PixelsOf(BoxAt(left, top))
  <2>1. /\ left + 2 .. left + 2 + (BOX_WIDTH - 4) - 1 \subseteq left .. left + BOX_WIDTH - 1
        /\ top + 2 .. top + 2 + (BOX_HEIGHT - 4) - 1 \subseteq top .. top + BOX_HEIGHT - 1
    BY Surface
  <2>2. QED BY <2>1 DEF PixelsOf, BoxAt, CoreAt, Rect
<1>3. /\ PixelsOf(ui_rect_intersection(BoxAt(left, top), SurfaceRect))
           = PixelsOf(BoxAt(left, top)) \intersect Pixels
      /\ PixelsOf(ui_rect_intersection(CoreAt(left, top), SurfaceRect))
           = PixelsOf(CoreAt(left, top)) \intersect Pixels
  BY <1>1, Surface, IntersectionIs
<1>4. QED BY <1>1, <1>2, <1>3 DEF InBox, InCore

LEMMA MarkingKeeps ==
  ASSUME NEW area, NEW more, IntRect(area), IntRect(more)
  PROVE  /\ IntRect(AlsoMarked(area, more))
         /\ PixelsOf(area) \subseteq PixelsOf(AlsoMarked(area, more))
         /\ PixelsOf(ui_rect_intersection(more, SurfaceRect))
              \subseteq PixelsOf(AlsoMarked(area, more))
<1> DEFINE c == ui_rect_intersection(more, SurfaceRect)
<1>1. c \in [x : Int, y : Int, w : Nat, h : Nat]
  BY Surface, IntersectionIs
<1> HIDE DEF c
<1>2. IntRect(c)
  BY <1>1 DEF IntRect
<1>3. AlsoMarked(area, more) = ui_rect_union(area, c)
  BY DEF AlsoMarked, c
<1>4. IntRect(ui_rect_union(area, c))
  BY <1>2 DEF IntRect, ui_rect_union, Between, Rect, Smaller, Larger
<1>5. QED BY <1>2, <1>3, <1>4, UnionCovers DEF c

(* Everything phase 2 writes is marked.                                     *)
LEMMA BoxIsMarked ==
  ASSUME PlayerInv, NEW left \in Int, NEW top \in Int
  PROVE  /\ IntRect(BoxMarks(left, top))
         /\ PixelsOf(surface_dirty) \subseteq PixelsOf(BoxMarks(left, top))
         /\ \A p \in Pixels : InBox(p, x, y) \/ InBox(p, left, top) \/ InCore(p, left, top)
                                => p \in PixelsOf(BoxMarks(left, top))
<1> DEFINE a == AlsoMarked(surface_dirty, BoxAt(x, y))
           b == AlsoMarked(a, BoxAt(left, top))
           c == AlsoMarked(b, CoreAt(left, top))
<1>1. x \in Int /\ y \in Int /\ IntRect(surface_dirty)
  BY Surface DEF PlayerInv, PlayerTypeOK, PicturesOK
<1>2. IntRect(BoxAt(x, y)) /\ IntRect(BoxAt(left, top)) /\ IntRect(CoreAt(left, top))
  BY <1>1, CoreInBox
<1>3. /\ IntRect(a) /\ PixelsOf(surface_dirty) \subseteq PixelsOf(a)
      /\ \A p \in Pixels : InBox(p, x, y) => p \in PixelsOf(a)
  BY <1>1, <1>2, MarkingKeeps DEF InBox
<1> HIDE DEF a
<1>4. /\ IntRect(b) /\ PixelsOf(a) \subseteq PixelsOf(b)
      /\ \A p \in Pixels : InBox(p, left, top) => p \in PixelsOf(b)
  BY <1>2, <1>3, MarkingKeeps DEF InBox
<1> HIDE DEF b
<1>5. /\ IntRect(c) /\ PixelsOf(b) \subseteq PixelsOf(c)
      /\ \A p \in Pixels : InCore(p, left, top) => p \in PixelsOf(c)
  BY <1>2, <1>4, MarkingKeeps DEF InCore
<1>6. BoxMarks(left, top) = c
  BY DEF BoxMarks, a, b
<1> HIDE DEF c
<1>7. QED BY <1>3, <1>4, <1>5, <1>6

(* A frame of phase 2.                                                      *)
LEMMA BoxStep ==
  ASSUME PlayerInv, render_partial_bounce, phase = 2, phase_tick \in Nat,
         UNCHANGED window
  PROVE  /\ PicturesOK'
         /\ x' \in 0 .. SURFACE_WIDTH - BOX_WIDTH /\ y' \in 0 .. SURFACE_HEIGHT - BOX_HEIGHT
         /\ dx' \in {-DX, DX} /\ dy' \in {-DY, DY}
         /\ \A p \in Pixels :
              pixels'[p] = IF InCore(p, x', y') THEN CORE ELSE IF InBox(p, x', y') THEN BOX ELSE BLACK
         /\ UNCHANGED reports
<1> DEFINE side == Bounced(x, dx, BOX_WIDTH, SURFACE_WIDTH)
           down == Bounced(y, dy, BOX_HEIGHT, SURFACE_HEIGHT)
<1>1. /\ x \in 0 .. SURFACE_WIDTH - BOX_WIDTH /\ y \in 0 .. SURFACE_HEIGHT - BOX_HEIGHT
      /\ dx \in {-DX, DX} /\ dy \in {-DY, DY} /\ DX \in Nat /\ DY \in Nat
  BY PlayerAssumption DEF PlayerInv, PlayerTypeOK
<1>2. side[1] \in 0 .. SURFACE_WIDTH - BOX_WIDTH /\ side[2] \in {-DX, DX}
  BY <1>1, Surface, BouncedStays
<1>3. down[1] \in 0 .. SURFACE_HEIGHT - BOX_HEIGHT /\ down[2] \in {-DY, DY}
  BY <1>1, Surface, BouncedStays
<1>a. /\ x' = side[1] /\ dx' = side[2] /\ y' = down[1] /\ dy' = down[2]
      /\ pixels' = [p \in Pixels |->
                      IF InCore(p, side[1], down[1]) THEN CORE
                      ELSE IF InBox(p, side[1], down[1]) THEN BOX
                      ELSE IF InBox(p, x, y) THEN BLACK
                      ELSE pixels[p]]
      /\ surface_dirty' = BoxMarks(side[1], down[1])
      /\ UNCHANGED reports
  BY DEF render_partial_bounce
<1> HIDE DEF side, down
<1>4. /\ x' = side[1] /\ dx' = side[2] /\ y' = down[1] /\ dy' = down[2]
      /\ pixels' = [p \in Pixels |->
                      IF InCore(p, x', y') THEN CORE
                      ELSE IF InBox(p, x', y') THEN BOX
                      ELSE IF InBox(p, x, y) THEN BLACK
                      ELSE pixels[p]]
      /\ surface_dirty' = BoxMarks(x', y')
      /\ UNCHANGED reports
  BY <1>a
<1>5. x' \in Int /\ y' \in Int /\ x \in Int /\ y \in Int
  BY <1>1, <1>2, <1>3, <1>4, Surface
<1>6. /\ IntRect(surface_dirty')
      /\ PixelsOf(surface_dirty) \subseteq PixelsOf(surface_dirty')
      /\ \A p \in Pixels : InBox(p, x, y) \/ InBox(p, x', y') \/ InCore(p, x', y')
                             => p \in PixelsOf(surface_dirty')
  BY <1>4, <1>5, BoxIsMarked
<1>7. pixels' \in [Pixels -> Int]
  BY <1>4 DEF PlayerInv, PicturesOK, CORE, BOX, BLACK
<1>8. \A p \in Pixels : InCore(p, x, y) => InBox(p, x, y)
  BY <1>5, CoreInBox
<1>9. ASSUME NEW p \in Pixels, ~InBox(p, x, y)
      PROVE  pixels[p] = BLACK
  <2>1. CASE phase_tick = 0
    BY <2>1 DEF PlayerInv, StartsBlank, Blank, Filled
  <2>2. CASE phase_tick > 0
    <3>1. ~InCore(p, x, y)
      BY <1>8, <1>9
    <3>2. pixels[p] = IF InCore(p, x, y) THEN CORE ELSE IF InBox(p, x, y) THEN BOX ELSE BLACK
      BY <2>2 DEF PlayerInv, OnlyTheBox
    <3>3. QED BY <1>9, <3>1, <3>2
  <2>3. QED BY <2>1, <2>2
<1>10. PicturesOK'
  <2>1. ASSUME NEW p \in Pixels, p \notin PixelsOf(surface_dirty')
        PROVE  window[p] = pixels'[p]
    <3>1. ~InBox(p, x, y) /\ ~InBox(p, x', y') /\ ~InCore(p, x', y')
          /\ p \notin PixelsOf(surface_dirty)
      BY <1>6, <2>1
    <3>2. pixels'[p] = pixels[p]
      BY <1>4, <3>1
    <3>3. QED BY <3>1, <3>2 DEF PlayerInv, PicturesOK
  <2>2. QED BY <1>6, <1>7, <2>1 DEF PlayerInv, PicturesOK
<1>11. ASSUME NEW p \in Pixels
       PROVE  pixels'[p] = IF InCore(p, x', y') THEN CORE ELSE IF InBox(p, x', y') THEN BOX ELSE BLACK
  BY <1>4, <1>9
<1>12. QED BY <1>2, <1>3, <1>4, <1>10, <1>11

(* A frame that is drawn whole, and a change of phases, mark everything.    *)
LEMMA AllIsMarked ==
  ASSUME PlayerInv, surface_dirty' = SurfaceRect, UNCHANGED window,
         pixels' \in [Pixels -> Int]
  PROVE  PicturesOK'
<1>1. IntRect(surface_dirty') /\ PixelsOf(surface_dirty') = Pixels
  BY Surface
<1>2. QED BY <1>1 DEF PlayerInv, PicturesOK

LEMMA FilledIs ==
  ASSUME NEW colour \in Int
  PROVE  Filled(colour) \in [Pixels -> Int]
BY DEF Filled

LEMMA WholeIs ==
  ASSUME NEW n \in Nat, NEW t \in Nat
  PROVE  Whole(n, t) \in Int
BY PlayerAssumption DEF Whole

LEMMA EventOf ==
  ASSUME NEW grouping
  PROVE  EventFor(grouping) \in {"none", "snapshot", "join", "split", "regroup"}
BY DEF EventFor

(* Drawing a frame, in the phase that it is drawn in; what it tells of the  *)
(* loop is left to the loop.                                                *)
LEMMA DrawStep ==
  ASSUME PlayerInv, NEW success \in BOOLEAN, demo_render(success),
         UNCHANGED <<player_options, phase, window>>
  PROVE  /\ PicturesOK' /\ StartsBlank' /\ OnlyTheBox' /\ before' = topology'
         /\ phase_tick' \in 1 .. TICKS
         /\ x' \in 0 .. SURFACE_WIDTH - BOX_WIDTH /\ y' \in 0 .. SURFACE_HEIGHT - BOX_HEIGHT
         /\ dx' \in {-DX, DX} /\ dy' \in {-DY, DY}
         /\ topology' \in Topologies \union {None}
         /\ event' \in {"none", "snapshot", "join", "split", "regroup"}
<1>1. /\ phase \in 0 .. 8 /\ phase_tick \in 0 .. TICKS /\ TICKS \in Nat \ {0}
      /\ x \in 0 .. SURFACE_WIDTH - BOX_WIDTH /\ y \in 0 .. SURFACE_HEIGHT - BOX_HEIGHT
      /\ dx \in {-DX, DX} /\ dy \in {-DY, DY} /\ before = topology
      /\ topology \in Topologies \union {None}
      /\ event \in {"none", "snapshot", "join", "split", "regroup"}
      /\ pixels \in [Pixels -> Int]
  BY PlayerAssumption DEF PlayerInv, PlayerTypeOK, DEMO_PHASE_COUNT, PicturesOK
<1>2. phase_tick' \in 1 .. TICKS
  <2>1. phase_tick' = IF phase_tick = TICKS THEN 1 ELSE phase_tick + 1
    BY DEF demo_render
  <2>2. QED BY <1>1, <2>1
<1>3. phase' = phase
  OBVIOUS
<1>4. StartsBlank'
  BY <1>1, <1>2 DEF StartsBlank
<1>5. CASE phase = 2
  <2>1. render_partial_bounce
    BY <1>5 DEF demo_render
  <2>2. /\ PicturesOK' /\ UNCHANGED reports
        /\ x' \in 0 .. SURFACE_WIDTH - BOX_WIDTH /\ y' \in 0 .. SURFACE_HEIGHT - BOX_HEIGHT
        /\ dx' \in {-DX, DX} /\ dy' \in {-DY, DY}
        /\ \A p \in Pixels :
             pixels'[p] = IF InCore(p, x', y') THEN CORE ELSE IF InBox(p, x', y') THEN BOX ELSE BLACK
    BY <1>1, <1>5, <2>1, BoxStep
  <2>3. OnlyTheBox'
    BY <2>2 DEF OnlyTheBox
  <2>4. QED BY <1>1, <1>2, <1>4, <2>2, <2>3 DEF reports
<1>6. CASE phase = 3
  <2>1. render_ui_tree(success)
    BY <1>6 DEF demo_render
  <2>2. pixels' \in [Pixels -> Int] /\ surface_dirty' = SurfaceRect /\ UNCHANGED box
    <3>1. Whole(3, phase_tick') \in Int
      BY <1>1, <1>2, WholeIs
    <3>2. QED BY <2>1, <3>1, FilledIs DEF render_ui_tree
  <2>3. /\ topology' \in Topologies \union {None} /\ before' = topology'
        /\ event' \in {"none", "snapshot", "join", "split", "regroup"}
    <3>1. PICK grouping \in Topologies :
            IF success /\ debug
            THEN event' = EventFor(grouping) /\ topology' = grouping /\ before' = grouping
            ELSE UNCHANGED reports
      BY <2>1 DEF render_ui_tree
    <3>2. CASE success /\ debug
      BY <3>1, <3>2, EventOf
    <3>3. CASE ~(success /\ debug)
      BY <1>1, <3>1, <3>3 DEF reports
    <3>4. QED BY <3>2, <3>3
  <2>4. OnlyTheBox'
    BY <1>6 DEF OnlyTheBox
  <2>5. QED BY <1>1, <1>2, <1>4, <2>2, <2>3, <2>4, AllIsMarked DEF box
<1>7. CASE phase # 2 /\ phase # 3
  <2>1. RenderWhole
    BY <1>7 DEF demo_render
  <2>2. pixels' \in [Pixels -> Int]
    <3>1. Whole(phase, phase_tick') \in Int
      BY <1>1, <1>2, WholeIs
    <3>2. Filled(Whole(phase, phase_tick')) \in [Pixels -> Int]
      BY <3>1, FilledIs
    <3>3. QED BY <1>1, <2>1, <3>2 DEF RenderWhole
  <2>3. surface_dirty' = SurfaceRect /\ UNCHANGED <<box, reports>>
    BY <2>1 DEF RenderWhole
  <2>4. OnlyTheBox'
    BY <1>7 DEF OnlyTheBox
  <2>5. QED BY <1>1, <1>2, <1>4, <2>2, <2>3, <2>4, AllIsMarked DEF box, reports
<1>8. QED BY <1>5, <1>6, <1>7

LEMMA PhaseStep ==
  ASSUME PlayerInv, NextDemo
  PROVE  PlayerInv'
<1>1. /\ phase' = (phase + 1) % 9 /\ phase_tick' = 0
      /\ x' = 0 /\ y' = 0 /\ dx' = DX /\ dy' = DY
      /\ topology' = None /\ event' = "none" /\ before' = None
      /\ pixels' = Blank /\ surface_dirty' = SurfaceRect
      /\ UNCHANGED <<player_at, loop, player_options, window>>
  BY DEF NextDemo, demo_set_phase, DEMO_PHASE_COUNT, NoReport
<1>2. PicturesOK'
  <2>1. pixels' \in [Pixels -> Int]
    BY <1>1, FilledIs DEF Blank, BLACK
  <2>2. QED BY <1>1, <2>1, AllIsMarked
<1>3. FramesOK'
  BY <1>1 DEF PlayerInv, FramesOK, loop, player_options
<1>4. StartsBlank' /\ OnlyTheBox'
  BY <1>1 DEF StartsBlank, OnlyTheBox, Blank
<1>5. PlayerTypeOK'
  <2>1. phase' \in 0 .. 8 /\ phase_tick' \in 0 .. TICKS
    BY <1>1, PlayerAssumption DEF PlayerInv, PlayerTypeOK, DEMO_PHASE_COUNT
  <2>2. /\ x' \in 0 .. SURFACE_WIDTH - BOX_WIDTH /\ y' \in 0 .. SURFACE_HEIGHT - BOX_HEIGHT
        /\ dx' \in {-DX, DX} /\ dy' \in {-DY, DY}
    BY <1>1, Surface
  <2>3. QED BY <1>1, <2>1, <2>2 DEF PlayerInv, PlayerTypeOK, DEMO_PHASE_COUNT, loop
<1>6. QED BY <1>1, <1>2, <1>3, <1>4, <1>5 DEF PlayerInv

LEMMA PresentStep ==
  ASSUME PlayerInv, Present
  PROVE  PlayerInv'
<1>1. /\ player_at = "present"
      /\ window' = [p \in Pixels |-> IF p \in PixelsOf(surface_dirty) THEN pixels[p] ELSE window[p]]
      /\ surface_dirty' = NoRect
      /\ frames' = IF limit = 0 THEN 0 ELSE frames + 1
      /\ player_at' = IF limit = 0 \/ frames' < limit THEN "poll" ELSE "ended"
      /\ UNCHANGED <<running, player_failed, player_options, phase, phase_tick, box, reports, pixels>>
  BY DEF Present, MoreFrames
<1>2. PicturesOK'
  <2>1. window' \in [Pixels -> Int] /\ \A p \in Pixels : window'[p] = pixels[p]
    BY <1>1 DEF PlayerInv, PicturesOK
  <2>2. QED BY <1>1, <2>1, NoRectIs DEF PlayerInv, PicturesOK
<1>3. FramesOK'
  BY <1>1 DEF PlayerInv, FramesOK, player_options
<1>4. StartsBlank' /\ OnlyTheBox' /\ before' = topology'
  BY <1>1 DEF PlayerInv, StartsBlank, OnlyTheBox, box, reports
<1>5. PlayerTypeOK'
  BY <1>1 DEF PlayerInv, PlayerTypeOK, box, reports
<1>6. QED BY <1>2, <1>3, <1>4, <1>5 DEF PlayerInv

LEMMA PlayerInductive == PlayerInv /\ [PlayerNext]_player_vars => PlayerInv'
<1> SUFFICES ASSUME PlayerInv, [PlayerNext]_player_vars
             PROVE  PlayerInv'
  OBVIOUS
<1>1. CASE NextDemo
  BY <1>1, PhaseStep
<1>2. ASSUME /\ player_at' \in {"poll", "render", "present", "ended"}
             /\ running' \in BOOLEAN /\ player_failed' \in BOOLEAN /\ FramesOK'
             /\ UNCHANGED <<player_options, phase, phase_tick, box, reports, pixels, surface_dirty, window>>
      PROVE  PlayerInv'
  <2>1. PlayerTypeOK' /\ before' = topology'
    BY <1>2 DEF PlayerInv, PlayerTypeOK, box, reports
  <2>2. PicturesOK' /\ StartsBlank' /\ OnlyTheBox'
    BY <1>2 DEF PlayerInv, PicturesOK, StartsBlank, OnlyTheBox, box
  <2>3. QED BY <1>2, <2>1, <2>2 DEF PlayerInv
<1>3. CASE Quit
  <2>1. FramesOK' /\ player_at' = player_at /\ running' = FALSE
    BY <1>3 DEF Quit, PlayerInv, FramesOK, player_options
  <2>2. QED BY <1>2, <1>3, <2>1 DEF Quit, PlayerInv, PlayerTypeOK
<1>4. CASE NoMoreEvents
  <2>1. FramesOK' /\ player_at' \in {"render", "ended"}
    BY <1>4 DEF NoMoreEvents, Stopped, PlayerInv, FramesOK, loop, player_options
  <2>2. QED BY <1>2, <1>4, <2>1 DEF NoMoreEvents, PlayerInv, PlayerTypeOK, loop
<1>5. ASSUME NEW success \in BOOLEAN, demo_render(success), FramesOK',
             player_at' \in {"present", "ended"}, running' \in BOOLEAN, player_failed' \in BOOLEAN,
             UNCHANGED <<player_options, phase, window>>
      PROVE  PlayerInv'
  <2>1. /\ PicturesOK' /\ StartsBlank' /\ OnlyTheBox' /\ before' = topology'
        /\ phase_tick' \in 1 .. TICKS
        /\ x' \in 0 .. SURFACE_WIDTH - BOX_WIDTH /\ y' \in 0 .. SURFACE_HEIGHT - BOX_HEIGHT
        /\ dx' \in {-DX, DX} /\ dy' \in {-DY, DY}
        /\ topology' \in Topologies \union {None}
        /\ event' \in {"none", "snapshot", "join", "split", "regroup"}
    BY <1>5, DrawStep
  <2>2. PlayerTypeOK'
    BY <1>5, <2>1 DEF PlayerInv, PlayerTypeOK
  <2>3. QED BY <1>5, <2>1, <2>2 DEF PlayerInv
<1>6. CASE RenderFrame
  <2>1. FramesOK' /\ UNCHANGED loop /\ demo_render(TRUE) /\ player_at' = "present"
        /\ UNCHANGED <<player_options, phase, window>>
    BY <1>6 DEF RenderFrame, PlayerInv, FramesOK, loop, player_options
  <2>2. QED BY <1>5, <2>1 DEF PlayerInv, PlayerTypeOK, loop
<1>7. CASE FrameFails
  <2>1. FramesOK' /\ demo_render(FALSE) /\ player_at' = "ended"
        /\ running' = FALSE /\ player_failed' = TRUE
        /\ UNCHANGED <<player_options, phase, window>>
    BY <1>7 DEF FrameFails, Fail, PlayerInv, FramesOK, player_options
  <2>2. QED BY <1>5, <2>1
<1>8. CASE Present
  BY <1>8, PresentStep
<1>9. CASE PresentFails
  <2>1. FramesOK' /\ player_at' = "ended" /\ running' = FALSE /\ player_failed' = TRUE
    BY <1>9 DEF PresentFails, Fail, PlayerInv, FramesOK, player_options
  <2>2. QED BY <1>2, <1>9, <2>1 DEF PresentFails
<1>10. CASE UNCHANGED player_vars
  <2>1. FramesOK'
    BY <1>10 DEF PlayerInv, FramesOK, player_vars, loop, player_options
  <2>2. QED BY <1>2, <1>10, <2>1 DEF PlayerInv, PlayerTypeOK, player_vars, loop
<1>11. QED
  BY <1>1, <1>3, <1>4, <1>6, <1>7, <1>8, <1>9, <1>10 DEF PlayerNext

LEMMA GroupsCount ==
  ASSUME NEW grouping \in Topologies
  PROVE  GroupCount(grouping) \in Nat /\ grouping # None
BY PlayerAssumption, FS_CardinalityType DEF GroupCount

(* A report is of the change since the last frame.                          *)
LEMMA ReportStep ==
  ASSUME PlayerInv, [PlayerNext]_player_vars,
         player_at = "render", player_at' = "present", phase = 3, debug
  PROVE  LET more == GroupCount(before') - GroupCount(before)
         IN  event' = IF before = None THEN "snapshot"
                      ELSE IF before' = before THEN "none"
                      ELSE IF more < 0 THEN "join" ELSE IF more > 0 THEN "split"
                      ELSE "regroup"
<1>1. demo_render(TRUE)
  <2>1. player_at' # player_at /\ player_at = "render" /\ player_at' # "ended"
    OBVIOUS
  <2>2. ~NextDemo /\ ~Quit /\ ~NoMoreEvents /\ ~FrameFails /\ ~Present /\ ~PresentFails
    BY <2>1 DEF NextDemo, Quit, NoMoreEvents, FrameFails, Fail, Present, PresentFails
  <2>3. RenderFrame
    BY <2>1, <2>2 DEF PlayerNext, player_vars
  <2>4. QED BY <2>3 DEF RenderFrame
<1>2. \A success \in BOOLEAN : demo_render(success) => render_ui_tree(success)
  BY DEF demo_render
<1>3. PICK grouping \in Topologies :
        event' = EventFor(grouping) /\ topology' = grouping /\ before' = grouping
  BY <1>1, <1>2 DEF render_ui_tree
<1>4. before = topology /\ topology \in Topologies \union {None}
  BY DEF PlayerInv, PlayerTypeOK
<1>5. CASE topology = None
  BY <1>3, <1>4, <1>5, GroupsCount DEF EventFor
<1>6. CASE topology # None
  <2>1. GroupCount(grouping) \in Nat /\ GroupCount(topology) \in Nat
    BY <1>4, <1>6, GroupsCount
  <2>2. QED BY <1>3, <1>4, <1>6, <2>1 DEF EventFor
<1>7. QED BY <1>5, <1>6

(* For every size of the surface, speed, limit and set of groupings: what   *)
(* is presented is the whole frame although only the dirty rectangle is     *)
(* uploaded, a phase inherits nothing, the frames are counted and every     *)
(* report is of the change since the frame before.                          *)
THEOREM PlayerIsSafe == PlayerSpec => PlayerSafe
<1>1. PlayerInit => PlayerInv
  <2> SUFFICES ASSUME PlayerInit PROVE PlayerInv
    OBVIOUS
  <2>1. PicturesOK
    <3>1. pixels \in [Pixels -> Int] /\ window \in [Pixels -> Int]
      BY FilledIs DEF PlayerInit, BLACK, NOTHING
    <3>2. QED BY <3>1, Surface DEF PlayerInit, PicturesOK
  <2>2. FramesOK /\ StartsBlank /\ OnlyTheBox /\ before = topology
    BY PlayerAssumption DEF PlayerInit, FramesOK, StartsBlank, OnlyTheBox, Blank
  <2>3. PlayerTypeOK
    <3>1. phase \in 0 .. 8 /\ phase_tick \in 0 .. TICKS
      BY PlayerAssumption DEF PlayerInit
    <3>2. x \in 0 .. SURFACE_WIDTH - BOX_WIDTH /\ y \in 0 .. SURFACE_HEIGHT - BOX_HEIGHT
      BY Surface DEF PlayerInit
    <3>3. /\ player_at = "poll" /\ running = TRUE /\ player_failed = FALSE
          /\ dx = DX /\ dy = DY /\ topology = None /\ event = "none"
      BY Zenon DEF PlayerInit
    <3>4. running \in BOOLEAN /\ player_failed \in BOOLEAN
      BY <3>3
    <3>5. dx \in {-DX, DX} /\ dy \in {-DY, DY}
      BY <3>3
    <3>6. phase \in 0 .. DEMO_PHASE_COUNT - 1
      BY <3>1 DEF DEMO_PHASE_COUNT
    <3>7. QED BY <3>1, <3>2, <3>3, <3>4, <3>5, <3>6 DEF PlayerTypeOK
  <2>4. QED BY <2>1, <2>2, <2>3 DEF PlayerInv
<1>2. PlayerInv => PlayerTypeOK /\ WindowShowsFrame /\ OnlyTheBox /\ FramesExact
  <2> SUFFICES ASSUME PlayerInv
               PROVE  PlayerTypeOK /\ WindowShowsFrame /\ OnlyTheBox /\ FramesExact
    OBVIOUS
  <2>1. WindowShowsFrame
    BY NoRectIs DEF PlayerInv, PicturesOK, WindowShowsFrame
  <2>2. FramesExact
    BY DEF PlayerInv, FramesOK, FramesExact
  <2>3. QED BY <2>1, <2>2 DEF PlayerInv
<1>3. PlayerInv /\ [PlayerNext]_player_vars =>
        [ (player_at = "render" /\ player_at' = "present" /\ phase = 3 /\ debug) =>
            LET more == GroupCount(before') - GroupCount(before)
            IN  event' = IF before = None THEN "snapshot"
                         ELSE IF before' = before THEN "none"
                         ELSE IF more < 0 THEN "join" ELSE IF more > 0 THEN "split"
                         ELSE "regroup" ]_player_vars
  BY ReportStep
<1>4. QED BY <1>1, <1>2, <1>3, PlayerInductive, PTL DEF PlayerSpec, PlayerSafe, ReportsChanges

-----------------------------------------------------------------------------
(* Loops.                                                                   *)

LEMMA AllUpTo ==
  ASSUME NEW n \in Nat, NEW S, 0 \in S, \A i \in 1 .. n : i - 1 \in S => i \in S
  PROVE  \A m \in 0 .. n : m \in S
<1> SUFFICES ASSUME NEW m \in 0 .. n PROVE m \in S
  OBVIOUS
<1>1. m \in Nat /\ \A i \in 1 .. m : i \in 1 .. n
  OBVIOUS
<1>2. QED BY <1>1, UpwardsTo

(* A loop of n rounds over S, its round and its results, and that there are *)
(* some.                                                                    *)
RoundOf(f, n, S) == f \in [S \X (1 .. n) -> S]

LoopOf(g, n, S, a, f) ==
  g \in [0 .. n -> S] /\ g[0] = a /\ \A i \in 1 .. n : g[i] = f[<<g[i - 1], i>>]

LEMMA LoopHasResult ==
  ASSUME NEW n \in Nat, NEW S, NEW a \in S, NEW f, RoundOf(f, n, S)
  PROVE  \E g : LoopOf(g, n, S, a, f)
<1> f \in [S \X (1 .. n) -> S]
  BY DEF RoundOf
<1> DEFINE Runs(m, g) == g[0] = a /\ \A i \in 1 .. m : g[i] = f[<<g[i - 1], i>>]
           good == {m \in 0 .. n : \E g \in [0 .. m -> S] : Runs(m, g)}
<1>1. 0 \in good
  <2>1. PICK g : g = [i \in 0 .. 0 |-> a]
    OBVIOUS
  <2>2. g \in [0 .. 0 -> S] /\ g[0] = a
    BY <2>1
  <2>3. QED BY <2>2
<1>2. ASSUME NEW m \in 1 .. n, m - 1 \in good
      PROVE  m \in good
  <2>1. PICK g \in [0 .. m - 1 -> S] : Runs(m - 1, g)
    BY <1>2
  <2>2. PICK h : h = [i \in 0 .. m |-> IF i = m THEN f[<<g[m - 1], m>>] ELSE g[i]]
    OBVIOUS
  <2>3. m - 1 \in 0 .. m - 1 /\ f[<<g[m - 1], m>>] \in S
    OBVIOUS
  <2>4. h \in [0 .. m -> S] /\ h[0] = a
    BY <2>1, <2>2, <2>3
  <2>5. ASSUME NEW i \in 1 .. m
        PROVE  h[i] = f[<<h[i - 1], i>>]
    <3>1. i - 1 \in 0 .. m - 1 /\ h[i - 1] = g[i - 1]
      BY <2>2
    <3>2. CASE i = m
      <4>1. h[i] = f[<<g[m - 1], m>>] /\ h[i - 1] = g[m - 1]
        BY <2>2, <3>1, <3>2
      <4>2. QED BY ONLY <3>2, <4>1, Zenon
    <3>3. CASE i # m
      <4>1. i \in 1 .. m - 1 /\ h[i] = g[i]
        BY <2>2, <3>3
      <4>2. QED BY <2>1, <3>1, <4>1
    <3>4. QED BY <3>2, <3>3
  <2>6. QED BY <2>4, <2>5
<1>3. n \in good
  <2> HIDE DEF good
  <2>1. QED BY <1>1, <1>2, UpwardsTo
<1>4. QED BY <1>3 DEF LoopOf

-----------------------------------------------------------------------------
(* Union-find.  P is a forest, R gives every control the root of its tree,  *)
(* and the rank falls on the way there.                                     *)

IsForest(P, R, rank) ==
  /\ P \in [Controls -> Controls] /\ R \in [Controls -> Controls] /\ rank \in [Controls -> Nat]
  /\ \A k \in Controls :
       /\ P[R[k]] = R[k] /\ (P[k] = k => R[k] = k) /\ R[P[k]] = R[k]
       /\ (P[k] # k => rank[P[k]] < rank[k]) /\ (R[k] # k => rank[R[k]] < rank[k])

AncestorIn(P, item) ==
  LET up[n \in 0 .. COUNT] == IF n = 0 THEN item ELSE P[up[n - 1]]
  IN  up

LEMMA AncestorIs == \A item : Ancestor(item) = AncestorIn(parents, item)
BY DEF Ancestor, AncestorIn

LEMMA AncestorIsNext == \A item : Ancestor(item)' = AncestorIn(parents', item)
BY DEF Ancestor, AncestorIn

LEMMA TreeSizes ==
  /\ COUNT \in Nat \ {0} /\ TREE_WIDTH \in Nat \ {0} /\ TREE_HEIGHT \in Nat \ {0}
  /\ Shapes \subseteq [x : Int, y : Int, w : Int, h : Int] /\ Thresholds \subseteq Int
  /\ Controls \subseteq Nat /\ NO_GROUP \notin Controls
BY TreeAssumption DEF Controls, NO_GROUP

LEMMA AncestorRun ==
  ASSUME NEW P \in [Controls -> Controls], NEW item \in Controls
  PROVE  \E up \in [0 .. COUNT -> Controls] :
           /\ up = AncestorIn(P, item) /\ up[0] = item
           /\ \A n \in 1 .. COUNT : up[n] = P[up[n - 1]]
<1>1. PICK f \in [Controls \X (1 .. COUNT) -> Controls] :
        f = [q \in Controls \X (1 .. COUNT) |-> P[q[1]]]
  OBVIOUS
<1>2. PICK g : LoopOf(g, COUNT, Controls, item, f)
  <2>1. COUNT \in Nat
    BY TreeSizes
  <2>2. RoundOf(f, COUNT, Controls)
    BY DEF RoundOf
  <2>3. QED BY ONLY <2>1, <2>2, item \in Controls, LoopHasResult
<1>3. \A i \in 1 .. COUNT : g[i] = P[g[i - 1]]
  <2>1. ASSUME NEW i \in 1 .. COUNT PROVE g[i] = P[g[i - 1]]
    <3>1. i - 1 \in 0 .. COUNT /\ g[i - 1] \in Controls
      BY <1>2, TreeSizes DEF LoopOf
    <3>2. f[<<g[i - 1], i>>] = P[g[i - 1]]
      <4>1. <<g[i - 1], i>> \in Controls \X (1 .. COUNT) /\ <<g[i - 1], i>>[1] = g[i - 1]
        BY <3>1
      <4>2. QED BY <1>1, <4>1
    <3>3. QED BY <1>2, <3>2 DEF LoopOf
  <2>2. QED BY <2>1
<1>4. g = [n \in 0 .. COUNT |-> IF n = 0 THEN item ELSE P[g[n - 1]]]
  <2>1. ASSUME NEW n \in 0 .. COUNT PROVE g[n] = IF n = 0 THEN item ELSE P[g[n - 1]]
    <3>1. n = 0 \/ n \in 1 .. COUNT
      BY TreeSizes
    <3>2. CASE n = 0
      BY <1>2, <3>2 DEF LoopOf
    <3>3. CASE n \in 1 .. COUNT
      BY <1>3, <3>3
    <3>4. QED BY <3>1, <3>2, <3>3
  <2>2. g \in [0 .. COUNT -> Controls]
    BY <1>2 DEF LoopOf
  <2>3. QED BY <2>1, <2>2
<1>5. PICK up : up = AncestorIn(P, item)
  OBVIOUS
<1>6. up = [n \in 0 .. COUNT |-> IF n = 0 THEN item ELSE P[up[n - 1]]]
  BY <1>4, <1>5 DEF AncestorIn
<1>7. up[0] = item /\ \A n \in 1 .. COUNT : up[n] = P[up[n - 1]]
  BY <1>6, TreeSizes
<1>8. \A n \in 0 .. COUNT : up[n] \in Controls
  <2> DEFINE good == {n \in 0 .. COUNT : up[n] \in Controls}
  <2>1. 0 \in good
    BY <1>7, TreeSizes
  <2>2. ASSUME NEW i \in 1 .. COUNT, i - 1 \in good
        PROVE  i \in good
    <3>1. up[i - 1] \in Controls /\ i \in 0 .. COUNT
      BY <2>2, TreeSizes
    <3>2. up[i] = P[up[i - 1]]
      BY <1>7
    <3>3. QED BY <3>1, <3>2
  <2> HIDE DEF good
  <2>3. \A n \in 0 .. COUNT : n \in good
    BY <2>1, <2>2, AllUpTo, TreeSizes
  <2>4. QED BY <2>3 DEF good
<1>9. up \in [0 .. COUNT -> Controls]
  BY <1>6, <1>8
<1>10. QED BY <1>5, <1>7, <1>9

(* The loop of set_find() ends within as many steps as there are controls.  *)
LEMMA RootIsFound ==
  ASSUME NEW P, NEW R, NEW rank, IsForest(P, R, rank), NEW item \in Controls
  PROVE  AncestorIn(P, item)[COUNT] = R[item]
<1>1. PICK up \in [0 .. COUNT -> Controls] :
        /\ up = AncestorIn(P, item) /\ up[0] = item
        /\ \A n \in 1 .. COUNT : up[n] = P[up[n - 1]]
  BY AncestorRun DEF IsForest
<1>2. COUNT \in Nat
  BY TreeSizes
<1>3. R[up[COUNT]] = R[item]
  <2> DEFINE good == {n \in 0 .. COUNT : R[up[n]] = R[item]}
  <2>1. 0 \in good
    BY <1>1, <1>2
  <2>2. \A i \in 1 .. COUNT : i - 1 \in good => i \in good
    BY <1>1, <1>2 DEF IsForest
  <2> HIDE DEF good
  <2>3. COUNT \in good
    BY <1>2, <2>1, <2>2, UpwardsTo
  <2>4. QED BY <2>3 DEF good
<1>4. P[up[COUNT]] = up[COUNT]
  <2> SUFFICES ASSUME P[up[COUNT]] # up[COUNT] PROVE FALSE
    OBVIOUS
  <2>1. ASSUME NEW m \in 0 .. COUNT
        PROVE  P[up[m]] # up[m]
    <3> SUFFICES ASSUME P[up[m]] = up[m] PROVE FALSE
      OBVIOUS
    <3> DEFINE good == {k \in 0 .. COUNT - m : up[m + k] = up[m]}
    <3>1. 0 \in good /\ COUNT - m \in Nat
      BY <1>2
    <3>2. ASSUME NEW k \in 1 .. COUNT - m, k - 1 \in good
          PROVE  k \in good
      <4>1. m + k \in 1 .. COUNT /\ (m + k) - 1 = m + (k - 1)
        BY <1>2
      <4>2. up[m + k] = P[up[m + (k - 1)]]
        BY <1>1, <4>1
      <4>3. QED BY <3>2, <4>2
    <3> HIDE DEF good
    <3>3. COUNT - m \in good
      BY <3>1, <3>2, UpwardsTo
    <3>4. up[COUNT] = up[m]
      BY <1>2, <3>3 DEF good
    <3>5. QED BY <3>4
  <2>2. ASSUME NEW a \in 0 .. COUNT, NEW b \in 0 .. COUNT, a < b
        PROVE  rank[up[b]] < rank[up[a]]
    <3> DEFINE good == {k \in 0 .. b - a - 1 : rank[up[a + k + 1]] < rank[up[a]]}
    <3>1. \A n \in 1 .. COUNT : rank[up[n]] < rank[up[n - 1]]
      <4>1. ASSUME NEW n \in 1 .. COUNT PROVE rank[up[n]] < rank[up[n - 1]]
        <5>1. n - 1 \in 0 .. COUNT /\ up[n - 1] \in Controls
          BY <1>2
        <5>2. up[n] = P[up[n - 1]] /\ P[up[n - 1]] # up[n - 1]
          BY <1>1, <2>1, <5>1
        <5>3. QED BY <5>1, <5>2 DEF IsForest
      <4>2. QED BY <4>1
    <3>2. 0 \in good /\ b - a - 1 \in Nat
      <4>1. a + 0 + 1 \in 1 .. COUNT /\ (a + 0 + 1) - 1 = a /\ b - a - 1 \in Nat
        BY <1>2, <2>2
      <4>2. QED BY <3>1, <4>1
    <3>3. ASSUME NEW k \in 1 .. b - a - 1, k - 1 \in good
          PROVE  k \in good
      <4>1. /\ a + k + 1 \in 1 .. COUNT /\ (a + k + 1) - 1 = a + (k - 1) + 1
            /\ a + (k - 1) + 1 \in 0 .. COUNT
        BY <1>2, <2>2
      <4>2. rank[up[a + k + 1]] < rank[up[a + (k - 1) + 1]]
        BY <3>1, <4>1
      <4>3. rank[up[a + (k - 1) + 1]] < rank[up[a]]
        BY <3>3
      <4>4. /\ rank[up[a + k + 1]] \in Nat /\ rank[up[a + (k - 1) + 1]] \in Nat
            /\ rank[up[a]] \in Nat
        <5>1. /\ up[a + k + 1] \in Controls /\ up[a + (k - 1) + 1] \in Controls
              /\ up[a] \in Controls
          BY <4>1
        <5>2. QED BY <5>1 DEF IsForest
      <4>5. QED BY <4>2, <4>3, <4>4
    <3> HIDE DEF good
    <3>4. b - a - 1 \in good
      BY <3>2, <3>3, UpwardsTo
    <3>5. a + (b - a - 1) + 1 = b
      BY <1>2
    <3>6. QED BY <3>4, <3>5 DEF good
  <2>3. IsFiniteSet(0 .. COUNT) /\ Cardinality(0 .. COUNT) = COUNT + 1
    BY <1>2, FS_Interval
  <2>4. IsFiniteSet(Controls) /\ Cardinality(Controls) = COUNT
    <3>1. 0 \in Int /\ COUNT - 1 \in Int /\ ~ (0 > COUNT - 1) /\ COUNT - 1 - 0 + 1 = COUNT
      BY TreeSizes
    <3>2. QED BY <3>1, FS_Interval DEF Controls
  <2>5. PICK a \in 0 .. COUNT, b \in 0 .. COUNT : a # b /\ up[a] = up[b]
    <3>1. Cardinality(Controls) < Cardinality(0 .. COUNT)
      BY <1>2, <2>3, <2>4
    <3>2. QED BY ONLY <2>3, <2>4, <3>1, up \in [0 .. COUNT -> Controls], FS_PigeonHole
  <2>6. rank[up[a]] \in Nat /\ (a < b \/ b < a)
    BY <1>2, <2>5 DEF IsForest
  <2>7. QED BY <2>2, <2>5, <2>6
<1>5. up[COUNT] \in Controls
  BY <1>2
<1>6. QED BY <1>1, <1>3, <1>4, <1>5 DEF IsForest

LEMMA RootIs ==
  ASSUME NEW R, NEW rank, IsForest(parents, R, rank), NEW item \in Controls
  PROVE  RootOf(item) = R[item]
BY RootIsFound, AncestorIs DEF RootOf

LEMMA RootIsNext ==
  ASSUME NEW R, NEW rank, IsForest(parents', R, rank), NEW item \in Controls
  PROVE  RootOf(item)' = R[item]
BY RootIsFound, AncestorIsNext DEF RootOf

(* Path compression moves no control to another tree.                       *)
LEMMA CompressedIs ==
  ASSUME NEW R, NEW rank, IsForest(parents, R, rank), NEW items
  PROVE  IsForest(Compressed(items), R, rank)
<1>1. PICK Q : Q = Compressed(items)
  OBVIOUS
<1>2. /\ Q \in [Controls -> Controls]
      /\ \A k \in Controls : Q[k] \in {R[k], parents[k]}
  <2>1. \A k \in Controls : RootOf(k) = R[k]
    BY RootIs
  <2>2. \A k \in Controls : R[k] \in Controls /\ parents[k] \in Controls
    BY DEF IsForest
  <2>3. Q = [k \in Controls |->
               IF \E item \in items : \E n \in 0 .. COUNT : Ancestor(item)[n] = k
               THEN RootOf(k) ELSE parents[k]]
    BY <1>1 DEF Compressed
  <2>4. QED BY <2>1, <2>2, <2>3
<1>3. \A k \in Controls : R[k] \in Controls /\ R[R[k]] = R[k] /\ parents[R[k]] = R[k]
  BY DEF IsForest
<1>4. ASSUME NEW k \in Controls
      PROVE  /\ Q[R[k]] = R[k] /\ (Q[k] = k => R[k] = k) /\ R[Q[k]] = R[k]
             /\ (Q[k] # k => rank[Q[k]] < rank[k]) /\ (R[k] # k => rank[R[k]] < rank[k])
  BY <1>2, <1>3 DEF IsForest
<1>5. QED BY <1>1, <1>2, <1>4 DEF IsForest

(* Joining two trees.                                                       *)
LEMMA JoinedIs ==
  ASSUME NEW Q, NEW R, NEW rank, IsForest(Q, R, rank), NEW i \in Controls, NEW j \in Controls
  PROVE  \E more : IsForest([Q EXCEPT ![R[i]] = R[j]],
                            [k \in Controls |-> IF R[k] = R[i] THEN R[j] ELSE R[k]], more)
<1>1. PICK P : P = [Q EXCEPT ![R[i]] = R[j]]
  OBVIOUS
<1>2. PICK S : S = [k \in Controls |-> IF R[k] = R[i] THEN R[j] ELSE R[k]]
  OBVIOUS
<1>3. /\ Q \in [Controls -> Controls] /\ R \in [Controls -> Controls]
      /\ rank \in [Controls -> Nat]
      /\ R[i] \in Controls /\ R[j] \in Controls
      /\ \A k \in Controls : R[R[k]] = R[k] /\ Q[R[k]] = R[k]
  BY DEF IsForest
<1>4. CASE R[i] = R[j]
  <2>1. P = Q /\ S = R
    BY <1>1, <1>2, <1>3, <1>4
  <2>2. QED BY <1>1, <1>2, <2>1
<1>5. CASE R[i] # R[j]
  <2>1. PICK more : more = [k \in Controls |-> IF R[k] = R[i] THEN rank[k] + rank[R[j]] + 1
                                              ELSE rank[k]]
    OBVIOUS
  <2>2. /\ P \in [Controls -> Controls] /\ S \in [Controls -> Controls]
        /\ more \in [Controls -> Nat]
    BY <1>1, <1>2, <1>3, <2>1
  <2>3. P[R[i]] = R[j] /\ \A k \in Controls : k # R[i] => P[k] = Q[k]
    BY <1>1, <1>3
  <2>4. \A k \in Controls : S[k] = IF R[k] = R[i] THEN R[j] ELSE R[k]
    BY <1>2
  <2>5. \A k \in Controls : more[k] = IF R[k] = R[i] THEN rank[k] + rank[R[j]] + 1 ELSE rank[k]
    BY <2>1
  <2>6. R[R[j]] # R[i] /\ S[R[j]] = R[j] /\ more[R[j]] = rank[R[j]] /\ rank[R[j]] \in Nat
    BY <1>3, <1>5, <2>4, <2>5
  <2>7. ASSUME NEW k \in Controls
        PROVE  /\ P[S[k]] = S[k] /\ (P[k] = k => S[k] = k) /\ S[P[k]] = S[k]
               /\ (P[k] # k => more[P[k]] < more[k]) /\ (S[k] # k => more[S[k]] < more[k])
    <3>1. /\ Q[R[k]] = R[k] /\ (Q[k] = k => R[k] = k) /\ R[Q[k]] = R[k]
          /\ (Q[k] # k => rank[Q[k]] < rank[k]) /\ (R[k] # k => rank[R[k]] < rank[k])
          /\ rank[k] \in Nat /\ Q[k] \in Controls /\ R[k] \in Controls /\ rank[Q[k]] \in Nat
          /\ rank[R[k]] \in Nat
      BY DEF IsForest
    <3>2. P[S[k]] = S[k]
      <4>1. CASE R[k] = R[i]
        BY <1>3, <1>5, <2>3, <2>4, <4>1
      <4>2. CASE R[k] # R[i]
        BY <2>3, <2>4, <3>1, <4>2
      <4>3. QED BY <4>1, <4>2
    <3>3. CASE k = R[i]
      <4>1. P[k] = R[j] /\ S[k] = R[j] /\ k # R[j]
        BY <1>3, <1>5, <2>3, <2>4, <3>3
      <4>2. more[k] = rank[k] + rank[R[j]] + 1
        BY <1>3, <2>5, <3>3
      <4>3. rank[R[j]] < rank[k] + rank[R[j]] + 1
        BY <2>6, <3>1
      <4>4. QED BY <2>6, <3>2, <4>1, <4>2, <4>3
    <3>4. CASE k # R[i]
      <4>1. P[k] = Q[k]
        BY <2>3, <3>4
      <4>2. P[k] = k => S[k] = k
        BY <2>4, <3>1, <3>4, <4>1
      <4>3. S[P[k]] = S[k]
        BY <2>4, <3>1, <4>1
      <4>4. P[k] # k => more[P[k]] < more[k]
        BY <2>5, <2>6, <3>1, <4>1
      <4>5. S[k] # k => more[S[k]] < more[k]
        <5>1. CASE R[k] = R[i]
          <6>1. more[S[k]] = rank[R[j]] /\ more[k] = rank[k] + rank[R[j]] + 1
            BY <2>4, <2>5, <2>6, <5>1
          <6>2. QED BY <2>6, <3>1, <6>1
        <5>2. CASE R[k] # R[i]
          <6>1. S[k] = R[k] /\ more[k] = rank[k]
            BY <2>4, <2>5, <5>2
          <6>2. more[R[k]] = rank[R[k]]
            BY <1>3, <2>5, <3>1, <5>2
          <6>3. QED BY <3>1, <6>1, <6>2
        <5>3. QED BY <5>1, <5>2
      <4>6. QED BY <3>2, <4>2, <4>3, <4>4, <4>5
    <3>5. QED BY <3>3, <3>4
  <2>8. IsForest(P, S, more)
    BY <2>2, <2>7 DEF IsForest
  <2>9. QED BY <1>1, <1>2, <2>8
<1>6. QED BY <1>4, <1>5

-----------------------------------------------------------------------------
(* Components of nearness.                                                  *)

NearIn(cs, t, i, j) ==
  /\ Gap(cs[i].x, cs[i].x + cs[i].w, cs[j].x, cs[j].x + cs[j].w) < Larger(t, 0)
  /\ Gap(cs[i].y, cs[i].y + cs[i].h, cs[j].y, cs[j].y + cs[j].h) < Larger(t, 0)

ComponentIn(cs, t, i) ==
  LET ball[n \in 0 .. COUNT] ==
        IF n = 0 THEN {i}
        ELSE LET inner == ball[n - 1]
             IN  {k \in Controls : \E m \in inner : m = k \/ NearIn(cs, t, m, k)}
  IN  ball[COUNT]

IsArgument(cs, t) == cs \in [Controls -> Shapes] /\ t \in Int

LEMMA ComponentIs ==
  /\ \A i, j : Near(i, j) = NearIn(controls, threshold, i, j)
  /\ \A i : ComponentOf(i) = ComponentIn(controls, threshold, i)
<1>1. \A i, j : Near(i, j) = NearIn(controls, threshold, i, j)
  BY DEF Near, NearIn
<1>2. QED BY <1>1 DEF ComponentOf, ComponentIn, Near, NearIn

LEMMA ComponentIsNext ==
  /\ \A i, j : Near(i, j)' = NearIn(controls', threshold', i, j)
  /\ \A i : ComponentOf(i)' = ComponentIn(controls', threshold', i)
<1>1. \A i, j : Near(i, j)' = NearIn(controls', threshold', i, j)
  BY DEF Near, NearIn
<1>2. QED BY <1>1 DEF ComponentOf, ComponentIn, Near, NearIn

LEMMA ShapeIs ==
  ASSUME NEW cs, NEW t, IsArgument(cs, t), NEW i \in Controls
  PROVE  cs[i].x \in Int /\ cs[i].y \in Int /\ cs[i].w \in Int /\ cs[i].h \in Int
<1>1. cs[i] \in [x : Int, y : Int, w : Int, h : Int]
  BY TreeSizes DEF IsArgument
<1>2. QED BY <1>1

LEMMA NearIsSymmetric ==
  ASSUME NEW cs, NEW t, IsArgument(cs, t), NEW i \in Controls, NEW j \in Controls,
         NearIn(cs, t, i, j)
  PROVE  NearIn(cs, t, j, i)
<1>1. /\ cs[i].x \in Int /\ cs[i].y \in Int /\ cs[i].w \in Int /\ cs[i].h \in Int
      /\ cs[j].x \in Int /\ cs[j].y \in Int /\ cs[j].w \in Int /\ cs[j].h \in Int
  BY ShapeIs
<1>2. \A p, q, u, v \in Int : Gap(p, q, u, v) = Gap(u, v, p, q)
  BY DEF Gap, Larger
<1>3. QED BY <1>1, <1>2 DEF NearIn

Around(cs, t, inner) == {k \in Controls : \E m \in inner : m = k \/ NearIn(cs, t, m, k)}

BallsOf(cs, t, i) ==
  LET ball[n \in 0 .. COUNT] == IF n = 0 THEN {i} ELSE Around(cs, t, ball[n - 1])
  IN  ball

(* The rounds of a ball.                                                    *)
LEMMA BallRun ==
  ASSUME NEW cs, NEW t, NEW i \in Controls
  PROVE  \E ball \in [0 .. COUNT -> SUBSET Controls] :
           /\ ball[0] = {i} /\ \A n \in 1 .. COUNT : ball[n] = Around(cs, t, ball[n - 1])
           /\ ball[COUNT] = ComponentIn(cs, t, i)
<1>1. PICK f : f = [q \in (SUBSET Controls) \X (1 .. COUNT) |-> Around(cs, t, q[1])]
  OBVIOUS
<1>2. PICK g : LoopOf(g, COUNT, SUBSET Controls, {i}, f)
  <2>1. COUNT \in Nat
    BY TreeSizes
  <2>2. RoundOf(f, COUNT, SUBSET Controls)
    BY <1>1 DEF RoundOf, Around
  <2>3. {i} \in SUBSET Controls
    OBVIOUS
  <2>4. QED BY ONLY <2>1, <2>2, <2>3, LoopHasResult
<1>3. /\ g \in [0 .. COUNT -> SUBSET Controls] /\ g[0] = {i}
      /\ \A n \in 1 .. COUNT : g[n] = f[<<g[n - 1], n>>]
  BY <1>2 DEF LoopOf
<1>4. \A n \in 1 .. COUNT : g[n] = Around(cs, t, g[n - 1])
  <2>1. ASSUME NEW n \in 1 .. COUNT PROVE g[n] = Around(cs, t, g[n - 1])
    <3>1. n - 1 \in 0 .. COUNT /\ g[n - 1] \in SUBSET Controls
      BY <1>3, TreeSizes
    <3>2. f[<<g[n - 1], n>>] = Around(cs, t, g[n - 1])
      <4>1. <<g[n - 1], n>> \in (SUBSET Controls) \X (1 .. COUNT) /\ <<g[n - 1], n>>[1] = g[n - 1]
        BY <3>1
      <4>2. QED BY <1>1, <4>1
    <3>3. QED BY <1>3, <3>2
  <2>2. QED BY <2>1
<1>5. g = [n \in 0 .. COUNT |-> IF n = 0 THEN {i} ELSE Around(cs, t, g[n - 1])]
  <2>1. ASSUME NEW n \in 0 .. COUNT
        PROVE  g[n] = IF n = 0 THEN {i} ELSE Around(cs, t, g[n - 1])
    <3>1. n = 0 \/ n \in 1 .. COUNT
      BY TreeSizes
    <3>2. QED BY <1>3, <1>4, <3>1
  <2>2. QED BY <1>3, <2>1
<1>6. PICK ball : ball = BallsOf(cs, t, i)
  OBVIOUS
<1>7. ball = [n \in 0 .. COUNT |-> IF n = 0 THEN {i} ELSE Around(cs, t, ball[n - 1])]
  BY <1>5, <1>6 DEF BallsOf
<1>8. ball[0] = {i} /\ \A n \in 1 .. COUNT : ball[n] = Around(cs, t, ball[n - 1])
  <2>1. 0 \in 0 .. COUNT /\ \A n \in 1 .. COUNT : n \in 0 .. COUNT /\ n # 0
    BY TreeSizes
  <2>2. ball[0] = {i}
    BY <1>7, <2>1
  <2>3. ASSUME NEW n \in 1 .. COUNT PROVE ball[n] = Around(cs, t, ball[n - 1])
    BY <1>7, <2>1
  <2>4. QED BY <2>2, <2>3
<1>9. \A n \in 0 .. COUNT : ball[n] \in SUBSET Controls
  <2>1. ASSUME NEW n \in 0 .. COUNT PROVE ball[n] \in SUBSET Controls
    <3>1. n = 0 \/ n \in 1 .. COUNT
      BY TreeSizes
    <3>2. QED BY <1>8, <3>1 DEF Around
  <2>2. QED BY <2>1
<1>10. ball \in [0 .. COUNT -> SUBSET Controls]
  BY <1>7, <1>9
<1>11. ball[COUNT] = ComponentIn(cs, t, i)
  BY <1>6 DEF ComponentIn, BallsOf, Around
<1>12. QED BY <1>8, <1>10, <1>11

ClosedIn(cs, t, S) == \A m \in S : \A k \in Controls : NearIn(cs, t, m, k) => k \in S

LEMMA ControlsAreFinite == IsFiniteSet(Controls) /\ Cardinality(Controls) = COUNT
<1>1. 0 \in Int /\ COUNT - 1 \in Int /\ ~ (0 > COUNT - 1) /\ COUNT - 1 - 0 + 1 = COUNT
  BY TreeSizes
<1>2. QED BY <1>1, FS_Interval DEF Controls

(* A ball grows in every round until it is closed, and there are only COUNT *)
(* controls.                                                                *)
LEMMA ComponentIsClosed ==
  ASSUME NEW cs, NEW t, NEW i \in Controls
  PROVE  /\ ComponentIn(cs, t, i) \subseteq Controls /\ i \in ComponentIn(cs, t, i)
         /\ ClosedIn(cs, t, ComponentIn(cs, t, i))
<1>1. PICK ball \in [0 .. COUNT -> SUBSET Controls] :
        /\ ball[0] = {i} /\ \A n \in 1 .. COUNT : ball[n] = Around(cs, t, ball[n - 1])
        /\ ball[COUNT] = ComponentIn(cs, t, i)
  BY BallRun
<1>2. COUNT \in Nat
  BY TreeSizes
<1>3. \A n \in 1 .. COUNT : ball[n - 1] \subseteq ball[n]
  <2>1. ASSUME NEW n \in 1 .. COUNT PROVE ball[n - 1] \subseteq ball[n]
    <3>1. n - 1 \in 0 .. COUNT /\ ball[n - 1] \subseteq Controls
      BY <1>2
    <3>2. QED BY <1>1, <3>1 DEF Around
  <2>2. QED BY <2>1
<1>4. \A n \in 0 .. COUNT : ball[n] \subseteq Controls /\ IsFiniteSet(ball[n])
                            /\ Cardinality(ball[n]) \in Nat /\ Cardinality(ball[n]) <= COUNT
  <2>1. ASSUME NEW n \in 0 .. COUNT
        PROVE  /\ ball[n] \subseteq Controls /\ IsFiniteSet(ball[n])
               /\ Cardinality(ball[n]) \in Nat /\ Cardinality(ball[n]) <= COUNT
    <3>1. ball[n] \subseteq Controls
      OBVIOUS
    <3>2. IsFiniteSet(ball[n]) /\ Cardinality(ball[n]) <= COUNT
      BY <3>1, ControlsAreFinite, FS_Subset
    <3>3. Cardinality(ball[n]) \in Nat
      BY <3>2, FS_CardinalityType
    <3>4. QED BY <3>1, <3>2, <3>3
  <2>2. QED BY <2>1
<1> DEFINE good == {n \in 0 .. COUNT : /\ i \in ball[n]
                                       /\ ClosedIn(cs, t, ball[n]) \/ Cardinality(ball[n]) > n}
<1>5. 0 \in good
  <2>1. Cardinality({i}) = 1
    BY FS_Singleton
  <2>2. Cardinality(ball[0]) > 0 /\ i \in ball[0] /\ 0 \in 0 .. COUNT
    BY <1>1, <1>2, <2>1
  <2>3. QED BY <2>2
<1>6. ASSUME NEW n \in 1 .. COUNT, n - 1 \in good
      PROVE  n \in good
  <2>1. n - 1 \in 0 .. COUNT /\ n \in 0 .. COUNT /\ ball[n] = Around(cs, t, ball[n - 1])
    BY <1>1, <1>2
  <2>2. i \in ball[n]
    BY <1>3, <1>6
  <2>3. CASE ClosedIn(cs, t, ball[n - 1])
    <3>1. ball[n] = ball[n - 1]
      <4>1. ball[n] \subseteq ball[n - 1]
        BY <2>1, <2>3 DEF Around, ClosedIn
      <4>2. QED BY <1>3, <4>1
    <3>2. QED BY <2>1, <2>2, <2>3, <3>1
  <2>4. CASE ~ ClosedIn(cs, t, ball[n - 1])
    <3>1. PICK m \in ball[n - 1], k \in Controls : NearIn(cs, t, m, k) /\ k \notin ball[n - 1]
      BY <2>4 DEF ClosedIn
    <3>2. k \in ball[n]
      BY <2>1, <3>1 DEF Around
    <3>3. ball[n - 1] \union {k} \subseteq ball[n]
      BY <1>3, <3>2
    <3>4. Cardinality(ball[n - 1] \union {k}) = Cardinality(ball[n - 1]) + 1
      <4>1. IsFiniteSet(ball[n - 1])
        BY <1>4, <2>1
      <4>2. QED BY <3>1, <4>1, FS_AddElement
    <3>5. Cardinality(ball[n - 1] \union {k}) <= Cardinality(ball[n])
      BY <1>4, <2>1, <3>3, FS_Subset
    <3>6. Cardinality(ball[n - 1]) > n - 1
      BY <1>6, <2>4
    <3>7. Cardinality(ball[n - 1]) \in Nat /\ Cardinality(ball[n]) \in Nat
      BY <1>4, <2>1
    <3>8. Cardinality(ball[n]) > n
      BY <3>4, <3>5, <3>6, <3>7
    <3>9. QED BY <2>1, <2>2, <3>8
  <2>5. QED BY <2>3, <2>4
<1>7. COUNT \in good
  <2> HIDE DEF good
  <2>1. QED BY <1>2, <1>5, <1>6, UpwardsTo
<1>8. i \in ball[COUNT] /\ ClosedIn(cs, t, ball[COUNT])
  <2>1. COUNT \in 0 .. COUNT /\ ~ (Cardinality(ball[COUNT]) > COUNT)
    BY <1>2, <1>4
  <2>2. QED BY <1>7, <2>1
<1>9. COUNT \in 0 .. COUNT /\ ball[COUNT] \subseteq Controls
  BY <1>2, <1>4
<1>10. QED BY <1>1, <1>8, <1>9

(* It is the least closed set around its control.                           *)
LEMMA ComponentIsLeast ==
  ASSUME NEW cs, NEW t, NEW i \in Controls, NEW S, i \in S, ClosedIn(cs, t, S)
  PROVE  ComponentIn(cs, t, i) \subseteq S
<1>1. PICK ball \in [0 .. COUNT -> SUBSET Controls] :
        /\ ball[0] = {i} /\ \A n \in 1 .. COUNT : ball[n] = Around(cs, t, ball[n - 1])
        /\ ball[COUNT] = ComponentIn(cs, t, i)
  BY BallRun
<1>2. COUNT \in Nat
  BY TreeSizes
<1> DEFINE good == {n \in 0 .. COUNT : ball[n] \subseteq S}
<1>3. 0 \in good
  BY <1>1, <1>2
<1>4. ASSUME NEW n \in 1 .. COUNT, n - 1 \in good
      PROVE  n \in good
  <2>1. ball[n] = Around(cs, t, ball[n - 1]) /\ n \in 0 .. COUNT /\ ball[n - 1] \subseteq S
    BY <1>1, <1>2, <1>4
  <2>2. Around(cs, t, ball[n - 1]) \subseteq S
    BY <2>1 DEF Around, ClosedIn
  <2>3. QED BY <2>1, <2>2
<1>5. COUNT \in good
  <2> HIDE DEF good
  <2>1. QED BY <1>2, <1>3, <1>4, UpwardsTo
<1>6. QED BY <1>1, <1>5

(* Being in one component is symmetric and transitive.                      *)
LEMMA ComponentsAreClasses ==
  ASSUME NEW cs, NEW t, IsArgument(cs, t), NEW i \in Controls, NEW j \in ComponentIn(cs, t, i)
  PROVE  ComponentIn(cs, t, j) = ComponentIn(cs, t, i)
<1> DEFINE C(k) == ComponentIn(cs, t, k)
<1>1. \A k \in Controls : C(k) \subseteq Controls /\ k \in C(k) /\ ClosedIn(cs, t, C(k))
  BY ComponentIsClosed
<1>2. \A k \in Controls : \A m \in C(k) : C(m) \subseteq C(k)
  <2>1. ASSUME NEW k \in Controls, NEW m \in C(k) PROVE C(m) \subseteq C(k)
    <3>1. m \in Controls /\ ClosedIn(cs, t, C(k))
      BY <1>1
    <3>2. QED BY ONLY <3>1, m \in C(k), ComponentIsLeast
  <2>2. QED BY <2>1
<1> DEFINE back == {m \in C(i) : i \in C(m)}
<1>3. i \in back
  BY <1>1
<1>4. ClosedIn(cs, t, back)
  <2> SUFFICES ASSUME NEW m \in back, NEW k \in Controls, NearIn(cs, t, m, k)
               PROVE  k \in back
    BY DEF ClosedIn
  <2>1. m \in Controls /\ m \in C(i) /\ i \in C(m)
    BY <1>1
  <2>2. k \in C(i)
    BY <1>1, <2>1 DEF ClosedIn
  <2>3. NearIn(cs, t, k, m)
    BY <2>1, NearIsSymmetric
  <2>4. m \in C(k)
    BY <1>1, <2>1, <2>3 DEF ClosedIn
  <2>5. QED BY <1>2, <2>1, <2>2, <2>4
<1>5. C(i) \subseteq back
  <2> HIDE DEF back
  <2>1. QED BY <1>3, <1>4, ComponentIsLeast
<1>6. C(j) \subseteq C(i) /\ j \in Controls /\ i \in C(j)
  BY <1>1, <1>2, <1>5
<1>7. QED BY <1>2, <1>6

-----------------------------------------------------------------------------
(* The loop over pairs: what it has joined is near, and what it has found   *)
(* near is joined.                                                          *)

TreeTypes ==
  /\ tree_phase \in {"pairs", "number", "build", "render", "outline", "done", "failed", "refused"}
  /\ controls \in [Controls -> Shapes] /\ threshold \in Int
  /\ pair \in Nat \X Nat
  /\ tree_phase = "pairs" => pair[1] \in Controls /\ pair[2] \in pair[1] + 1 .. COUNT
  /\ tree_phase = "number" => pair[1] >= COUNT

Behind(upto, a, b) == a < upto[1] \/ (a = upto[1] /\ b < upto[2])

Agrees(cs, t, upto, R) ==
  /\ \A k \in Controls : R[k] \in ComponentIn(cs, t, k)
  /\ \A a \in Controls : \A b \in Controls :
       a < b /\ Behind(upto, a, b) /\ NearIn(cs, t, a, b) => R[a] = R[b]

Looping == tree_phase \in {"pairs", "number"}

UnionFind ==
  \E R, rank : /\ IsForest(parents, R, rank)
               /\ Looping => Agrees(controls, threshold, pair, R)

LEMMA NearIs ==
  ASSUME IsArgument(controls, threshold), NEW i \in Controls, NEW j \in Controls
  PROVE  controls_are_near(controls[i], controls[j]) <=> NearIn(controls, threshold, i, j)
<1> DEFINE a == controls[i]
           b == controls[j]
<1>1. /\ a.x \in Int /\ a.y \in Int /\ a.w \in Int /\ a.h \in Int
      /\ b.x \in Int /\ b.y \in Int /\ b.w \in Int /\ b.h \in Int
  BY ShapeIs
<1>2. Reach = Larger(threshold, 0) /\ Reach \in Int
  BY DEF Reach, Larger, IsArgument
<1>3. \A p, q, u, v, r \in Int : Gap(p, q, u, v) < r <=> ~ (q + r <= u \/ v + r <= p)
  BY DEF Gap, Larger
<1> HIDE DEF a, b
<1> /\ a.x + a.w \in Int /\ b.x + b.w \in Int /\ a.y + a.h \in Int /\ b.y + b.h \in Int
  BY <1>1
<1>4. Gap(a.x, a.x + a.w, b.x, b.x + b.w) < Reach
        <=> ~ (a.x + a.w + Reach <= b.x \/ b.x + b.w + Reach <= a.x)
  BY <1>1, <1>2, <1>3, Zenon
<1>5. Gap(a.y, a.y + a.h, b.y, b.y + b.h) < Reach
        <=> ~ (a.y + a.h + Reach <= b.y \/ b.y + b.h + Reach <= a.y)
  BY <1>1, <1>2, <1>3, Zenon
<1>6. NearIn(controls, threshold, i, j) <=>
        /\ Gap(a.x, a.x + a.w, b.x, b.x + b.w) < Reach
        /\ Gap(a.y, a.y + a.h, b.y, b.y + b.h) < Reach
  BY <1>2 DEF NearIn, a, b
<1>7. controls_are_near(a, b) <=>
        /\ ~ (a.x + a.w + Reach <= b.x \/ b.x + b.w + Reach <= a.x)
        /\ ~ (a.y + a.h + Reach <= b.y \/ b.y + b.h + Reach <= a.y)
  BY DEF controls_are_near
<1>8. QED BY <1>4, <1>5, <1>6, <1>7 DEF a, b

LEMMA UnionFindInit ==
  ASSUME TreeInit
  PROVE  TreeTypes /\ UnionFind
<1>1. /\ controls \in [Controls -> Shapes] /\ threshold \in Int /\ tree_phase = "pairs"
      /\ pair = <<0, 1>> /\ parents = [i \in Controls |-> i]
  BY TreeSizes DEF TreeInit
<1>2. TreeTypes
  <2>1. 0 \in Controls /\ 1 \in 1 .. COUNT
    BY TreeSizes DEF Controls
  <2>2. QED BY <1>1, <2>1 DEF TreeTypes
<1>3. PICK R : R = [i \in Controls |-> i]
  OBVIOUS
<1>4. PICK rank : rank = [i \in Controls |-> 0]
  OBVIOUS
<1>5. IsForest(parents, R, rank)
  BY <1>1, <1>3, <1>4 DEF IsForest
<1>6. Agrees(controls, threshold, pair, R)
  <2>1. \A k \in Controls : R[k] \in ComponentIn(controls, threshold, k)
    BY <1>3, ComponentIsClosed
  <2>2. \A a \in Controls : \A b \in Controls : ~ (a < b /\ Behind(pair, a, b))
    BY <1>1, TreeSizes DEF Behind
  <2>3. QED BY <2>1, <2>2 DEF Agrees
<1>7. QED BY <1>2, <1>5, <1>6 DEF UnionFind

LEMMA PairsAreCompared ==
  ASSUME TreeTypes, UnionFind, ComparePair
  PROVE  TreeTypes' /\ UnionFind'
<1>1. PICK i, j : i = pair[1] /\ j = pair[2]
  OBVIOUS
<1>2. PICK R, rank : IsForest(parents, R, rank) /\ Agrees(controls, threshold, pair, R)
  BY DEF ComparePair, UnionFind, Looping
<1>3. /\ i \in Controls /\ j \in i + 1 .. COUNT /\ i \in Nat /\ j \in Nat /\ COUNT \in Nat
      /\ tree_phase = "pairs" /\ controls' = controls /\ threshold' = threshold
      /\ controls \in [Controls -> Shapes] /\ threshold \in Int
  BY <1>1, TreeSizes DEF ComparePair, TreeTypes, arguments
<1>4. IsArgument(controls, threshold)
  BY <1>3 DEF IsArgument
<1> DEFINE C(k) == ComponentIn(controls, threshold, k)
<1>5. R \in [Controls -> Controls] /\ \A k \in Controls : R[k] \in C(k)
  BY <1>2 DEF IsForest, Agrees
<1>6. CASE j < COUNT
  <2>1. /\ j \in Controls /\ i < j
        /\ parents' = IF controls_are_near(controls[i], controls[j]) THEN Joined(i, j) ELSE parents
        /\ pair' = <<i, j + 1>> /\ tree_phase' = tree_phase
    BY <1>1, <1>3, <1>6 DEF ComparePair, Controls
  <2>2. TreeTypes'
    <3>1. j + 1 \in i + 1 .. COUNT /\ j + 1 \in Nat
      BY <1>3, <1>6
    <3>2. QED BY <1>3, <2>1, <3>1 DEF TreeTypes
  <2>3. ASSUME NEW a \in Controls, NEW b \in Controls, a < b, Behind(pair', a, b)
        PROVE  Behind(pair, a, b) \/ (a = i /\ b = j)
    <3>1. a \in Nat /\ b \in Nat
      BY TreeSizes
    <3>2. pair'[1] = i /\ pair'[2] = j + 1
      BY <2>1
    <3>3. a < i \/ (a = i /\ b < j + 1)
      BY <2>3, <3>2 DEF Behind
    <3>4. a < i \/ (a = i /\ b < j) \/ (a = i /\ b = j)
      BY <1>3, <3>1, <3>3
    <3>5. QED BY <1>1, <3>4 DEF Behind
  <2>4. CASE controls_are_near(controls[i], controls[j])
    <3>1. NearIn(controls, threshold, i, j)
      BY <1>3, <1>4, <2>1, <2>4, NearIs
    <3>2. parents' = [Compressed({i, j}) EXCEPT ![R[i]] = R[j]]
      <4>1. RootOf(i) = R[i] /\ RootOf(j) = R[j]
        BY <1>2, <1>3, <2>1, RootIs
      <4>2. QED BY <2>1, <2>4, <4>1 DEF Joined
    <3>3. PICK S : S = [k \in Controls |-> IF R[k] = R[i] THEN R[j] ELSE R[k]]
      OBVIOUS
    <3>4. IsForest(Compressed({i, j}), R, rank)
      BY <1>2, CompressedIs
    <3>5. PICK Q : Q = Compressed({i, j})
      OBVIOUS
    <3>6. PICK more : IsForest([Q EXCEPT ![R[i]] = R[j]],
                               [k \in Controls |-> IF R[k] = R[i] THEN R[j] ELSE R[k]], more)
      <4>1. IsForest(Q, R, rank)
        BY <3>4, <3>5
      <4>2. QED BY ONLY <4>1, <1>3, <2>1, JoinedIs
    <3>7. IsForest(parents', S, more)
      BY <3>2, <3>3, <3>5, <3>6
    <3>8. \A k \in Controls : S[k] \in C(k)
      <4>1. ASSUME NEW k \in Controls PROVE S[k] \in C(k)
        <5>1. CASE R[k] = R[i]
          <6>1. C(R[k]) = C(k) /\ C(R[i]) = C(i)
            BY <1>3, <1>4, <1>5, ComponentsAreClasses
          <6>2. j \in C(i)
            BY <1>3, <2>1, <3>1, ComponentIsClosed DEF ClosedIn
          <6>3. C(j) = C(i)
            BY <1>3, <1>4, <6>2, ComponentsAreClasses
          <6>4. QED BY <1>5, <2>1, <3>3, <5>1, <6>1, <6>3
        <5>2. CASE R[k] # R[i]
          BY <1>5, <3>3, <5>2
        <5>3. QED BY <5>1, <5>2
      <4>2. QED BY <4>1
    <3>9. ASSUME NEW a \in Controls, NEW b \in Controls, a < b, Behind(pair', a, b),
                 NearIn(controls, threshold, a, b)
          PROVE  S[a] = S[b]
      <4>1. CASE Behind(pair, a, b)
        <5>1. R[a] = R[b]
          BY <1>2, <3>9, <4>1 DEF Agrees
        <5>2. QED BY <3>3, <5>1
      <4>2. CASE a = i /\ b = j
        BY <1>3, <2>1, <3>3, <4>2
      <4>3. QED BY <2>3, <3>9, <4>1, <4>2
    <3>10. Agrees(controls', threshold', pair', S)
      BY <1>3, <3>8, <3>9 DEF Agrees
    <3>11. QED BY <2>2, <3>7, <3>10 DEF UnionFind
  <2>5. CASE ~ controls_are_near(controls[i], controls[j])
    <3>1. ~ NearIn(controls, threshold, i, j)
      BY <1>3, <1>4, <2>1, <2>5, NearIs
    <3>2. Agrees(controls', threshold', pair', R)
      BY <1>2, <1>3, <2>3, <3>1 DEF Agrees
    <3>3. parents' = parents
      BY <2>1, <2>5
    <3>4. QED BY <1>2, <2>2, <3>2, <3>3 DEF UnionFind
  <2>6. QED BY <2>4, <2>5
<1>7. CASE ~ (j < COUNT)
  <2>1. /\ j = COUNT /\ pair' = <<i + 1, i + 2>> /\ parents' = parents
        /\ tree_phase' = IF i + 1 < COUNT THEN "pairs" ELSE "number"
    BY <1>1, <1>3, <1>7 DEF ComparePair
  <2>2. TreeTypes'
    <3>1. CASE i + 1 < COUNT
      <4>1. i + 1 \in Controls /\ i + 2 \in (i + 1) + 1 .. COUNT
        BY <1>3, <3>1 DEF Controls
      <4>2. QED BY <1>3, <2>1, <3>1, <4>1 DEF TreeTypes
    <3>2. CASE ~ (i + 1 < COUNT)
      <4>1. i + 1 >= COUNT
        BY <1>3, <3>2
      <4>2. QED BY <1>3, <2>1, <3>2, <4>1 DEF TreeTypes
    <3>3. QED BY <3>1, <3>2
  <2>3. ASSUME NEW a \in Controls, NEW b \in Controls, a < b, Behind(pair', a, b)
        PROVE  Behind(pair, a, b)
    <3>1. a \in Nat /\ b \in Nat /\ b < COUNT
      BY TreeSizes DEF Controls
    <3>2. QED BY <1>1, <1>3, <2>1, <2>3, <3>1 DEF Behind
  <2>4. Agrees(controls', threshold', pair', R)
    BY <1>2, <1>3, <2>3 DEF Agrees
  <2>5. QED BY <1>2, <2>1, <2>2, <2>4 DEF UnionFind
<1>8. QED BY <1>6, <1>7

(* When all pairs are compared, controls have one root if and only if they  *)
(* are in one component.                                                    *)
LEMMA RootsAreComponents ==
  ASSUME TreeTypes, tree_phase = "number",
         NEW R, R \in [Controls -> Controls], Agrees(controls, threshold, pair, R),
         NEW i \in Controls, NEW k \in Controls
  PROVE  R[k] = R[i] <=> k \in ComponentIn(controls, threshold, i)
<1> DEFINE C(m) == ComponentIn(controls, threshold, m)
           alike == {m \in Controls : R[m] = R[i]}
<1>1. IsArgument(controls, threshold)
  BY DEF IsArgument, TreeTypes
<1>2. \A m \in Controls : R[m] \in C(m) /\ m \in C(m) /\ C(m) \subseteq Controls
  BY ComponentIsClosed DEF Agrees
<1>3. \A m \in Controls : C(R[m]) = C(m)
  BY <1>1, <1>2, ComponentsAreClasses
<1>4. R[k] = R[i] => k \in C(i)
  BY <1>2, <1>3
<1>5. ClosedIn(controls, threshold, alike)
  <2> SUFFICES ASSUME NEW m \in alike, NEW n \in Controls, NearIn(controls, threshold, m, n)
               PROVE  n \in alike
    BY DEF ClosedIn
  <2>1. NearIn(controls, threshold, n, m)
    BY <1>1, NearIsSymmetric
  <2>2. \A a \in Controls : \A b \in Controls : Behind(pair, a, b)
    <3>1. COUNT \in Nat /\ pair[1] \in Nat /\ pair[1] >= COUNT
      BY TreeSizes DEF TreeTypes
    <3>2. \A a \in Controls : a \in Nat /\ a < COUNT
      BY TreeSizes DEF Controls
    <3>3. QED BY <3>1, <3>2 DEF Behind
  <2>3. m \in Nat /\ n \in Nat
    BY TreeSizes
  <2>4. m < n \/ n < m \/ m = n
    BY <2>3
  <2>5. R[m] = R[n]
    BY <2>1, <2>2, <2>4 DEF Agrees
  <2>6. QED BY <2>5
<1>6. k \in C(i) => R[k] = R[i]
  <2>1. C(i) \subseteq alike
    <3>1. i \in alike
      OBVIOUS
    <3> HIDE DEF alike
    <3>2. QED BY <1>5, <3>1, ComponentIsLeast
  <2>2. QED BY <2>1
<1>7. QED BY <1>4, <1>6

-----------------------------------------------------------------------------
(* A rectangle is tight around a set of pixels when it holds them all and   *)
(* has one of them on each side.                                            *)

Tight(b, S) ==
  /\ IntRect(b) /\ ~ui_rect_is_empty(b) /\ S \subseteq PixelsOf(b)
  /\ \E p \in S : p[1] = b.x
  /\ \E p \in S : p[1] = b.x + b.w - 1
  /\ \E p \in S : p[2] = b.y
  /\ \E p \in S : p[2] = b.y + b.h - 1

LEMMA TightOne ==
  ASSUME NEW r, IntRect(r), ~ui_rect_is_empty(r)
  PROVE  Tight(r, PixelsOf(r))
<1>1. r.x \in Int /\ r.y \in Int /\ r.w \in Int /\ r.h \in Int /\ r.w > 0 /\ r.h > 0
  BY DEF IntRect, ui_rect_is_empty
<1>2. /\ r.x \in r.x .. r.x + r.w - 1 /\ r.x + r.w - 1 \in r.x .. r.x + r.w - 1
      /\ r.y \in r.y .. r.y + r.h - 1 /\ r.y + r.h - 1 \in r.y .. r.y + r.h - 1
  BY <1>1
<1>3. PICK p, q : p = <<r.x, r.y>> /\ q = <<r.x + r.w - 1, r.y + r.h - 1>>
  OBVIOUS
<1>4. p \in PixelsOf(r) /\ q \in PixelsOf(r)
  BY <1>2, <1>3 DEF PixelsOf
<1>5. p[1] = r.x /\ p[2] = r.y /\ q[1] = r.x + r.w - 1 /\ q[2] = r.y + r.h - 1
  BY <1>3
<1>6. QED BY <1>4, <1>5 DEF Tight

LEMMA UnionIs ==
  ASSUME NEW a, NEW b, IntRect(a), IntRect(b), ~ui_rect_is_empty(a), ~ui_rect_is_empty(b)
  PROVE  LET c == ui_rect_union(a, b)
         IN  /\ IntRect(c) /\ ~ui_rect_is_empty(c)
             /\ c.x \in {a.x, b.x} /\ c.y \in {a.y, b.y}
             /\ c.x + c.w - 1 \in {a.x + a.w - 1, b.x + b.w - 1}
             /\ c.y + c.h - 1 \in {a.y + a.h - 1, b.y + b.h - 1}
<1> DEFINE left == Smaller(a.x, b.x)
           top == Smaller(a.y, b.y)
           right == Larger(a.x + a.w, b.x + b.w)
           bottom == Larger(a.y + a.h, b.y + b.h)
           c == ui_rect_union(a, b)
<1>1. /\ a.x \in Int /\ a.y \in Int /\ a.w \in Int /\ a.h \in Int
      /\ b.x \in Int /\ b.y \in Int /\ b.w \in Int /\ b.h \in Int
      /\ a.w > 0 /\ a.h > 0 /\ b.w > 0 /\ b.h > 0
  BY DEF IntRect, ui_rect_is_empty
<1>2. c = Rect(left, top, right - left, bottom - top)
  BY DEF ui_rect_union, Between
<1>3. /\ left \in {a.x, b.x} /\ right \in {a.x + a.w, b.x + b.w} /\ left < right
      /\ left \in Int /\ right \in Int
  BY <1>1 DEF Smaller, Larger
<1>4. /\ top \in {a.y, b.y} /\ bottom \in {a.y + a.h, b.y + b.h} /\ top < bottom
      /\ top \in Int /\ bottom \in Int
  BY <1>1 DEF Smaller, Larger
<1> HIDE DEF left, top, right, bottom, c
<1>5. c.x = left /\ c.y = top /\ c.w = right - left /\ c.h = bottom - top
  BY <1>2 DEF Rect
<1>6. IntRect(c) /\ ~ui_rect_is_empty(c)
  BY <1>3, <1>4, <1>5 DEF IntRect, ui_rect_is_empty
<1>7. c.x + c.w - 1 = right - 1 /\ c.y + c.h - 1 = bottom - 1
  BY <1>3, <1>4, <1>5
<1>8. /\ c.x + c.w - 1 \in {a.x + a.w - 1, b.x + b.w - 1}
      /\ c.y + c.h - 1 \in {a.y + a.h - 1, b.y + b.h - 1}
  <2>1. right = a.x + a.w \/ right = b.x + b.w
    BY <1>3
  <2>2. c.x + c.w - 1 = a.x + a.w - 1 \/ c.x + c.w - 1 = b.x + b.w - 1
    BY <1>1, <1>3, <1>7, <2>1
  <2>3. bottom = a.y + a.h \/ bottom = b.y + b.h
    BY <1>4
  <2>4. c.y + c.h - 1 = a.y + a.h - 1 \/ c.y + c.h - 1 = b.y + b.h - 1
    <3>1. bottom - 1 = a.y + a.h - 1 \/ bottom - 1 = b.y + b.h - 1
      BY <1>1, <1>4, <2>3
    <3>2. QED BY <1>7, <3>1
  <2>5. QED BY <2>2, <2>4
<1>9. c.x \in {a.x, b.x} /\ c.y \in {a.y, b.y}
  BY <1>3, <1>4, <1>5
<1>10. QED BY <1>6, <1>8, <1>9 DEF c

LEMMA TightUnion ==
  ASSUME NEW a, NEW S, NEW b, NEW T, Tight(a, S), Tight(b, T)
  PROVE  Tight(ui_rect_union(a, b), S \union T)
<1> DEFINE c == ui_rect_union(a, b)
<1>1. IntRect(a) /\ IntRect(b) /\ ~ui_rect_is_empty(a) /\ ~ui_rect_is_empty(b)
  BY DEF Tight
<1>2. /\ IntRect(c) /\ ~ui_rect_is_empty(c)
      /\ c.x \in {a.x, b.x} /\ c.y \in {a.y, b.y}
      /\ c.x + c.w - 1 \in {a.x + a.w - 1, b.x + b.w - 1}
      /\ c.y + c.h - 1 \in {a.y + a.h - 1, b.y + b.h - 1}
  BY <1>1, UnionIs
<1>3. PixelsOf(a) \subseteq PixelsOf(c) /\ PixelsOf(b) \subseteq PixelsOf(c)
  BY <1>1, UnionCovers
<1> HIDE DEF c
<1>4. S \union T \subseteq PixelsOf(c)
  BY <1>3 DEF Tight
<1>5. \E p \in S \union T : p[1] = c.x
  BY <1>2 DEF Tight
<1>6. \E p \in S \union T : p[1] = c.x + c.w - 1
  BY <1>2 DEF Tight
<1>7. \E p \in S \union T : p[2] = c.y
  BY <1>2 DEF Tight
<1>8. \E p \in S \union T : p[2] = c.y + c.h - 1
  BY <1>2 DEF Tight
<1>9. Tight(c, S \union T)
  BY <1>2, <1>4, <1>5, <1>6, <1>7, <1>8 DEF Tight
<1>10. QED BY <1>9 DEF c

LEMMA ScreenIs ==
  /\ root_bounds.x = 0 /\ root_bounds.y = 0
  /\ root_bounds.w = TREE_WIDTH /\ root_bounds.h = TREE_HEIGHT /\ IntRect(root_bounds)
  /\ TreePixels = (0 .. TREE_WIDTH - 1) \X (0 .. TREE_HEIGHT - 1)
<1>1. /\ root_bounds.x = 0 /\ root_bounds.y = 0
      /\ root_bounds.w = TREE_WIDTH /\ root_bounds.h = TREE_HEIGHT
  BY DEF root_bounds, Rect
<1>2. IntRect(root_bounds)
  BY <1>1, TreeSizes DEF IntRect
<1>3. 0 + TREE_WIDTH - 1 = TREE_WIDTH - 1 /\ 0 + TREE_HEIGHT - 1 = TREE_HEIGHT - 1
  BY TreeSizes
<1>4. QED BY <1>1, <1>2, <1>3 DEF TreePixels, PixelsOf

(* What is left of a control by clipping.                                   *)
LEMMA ClippedIs ==
  ASSUME controls \in [Controls -> Shapes], NEW i \in Controls
  PROVE  /\ IntRect(Clipped(i)) /\ PixelsOf(Clipped(i)) = OnScreen(i)
         /\ Visible(i) <=> OnScreen(i) # {}
         /\ Visible(i) => Tight(Clipped(i), OnScreen(i))
         /\ OnScreen(i) \subseteq TreePixels
<1>1. IntRect(controls[i])
  <2>1. controls[i] \in [x : Int, y : Int, w : Int, h : Int]
    BY TreeSizes
  <2>2. QED BY <2>1 DEF IntRect
<1>2. /\ Clipped(i) \in [x : Int, y : Int, w : Nat, h : Nat]
      /\ PixelsOf(Clipped(i)) = PixelsOf(controls[i]) \intersect PixelsOf(root_bounds)
  BY <1>1, ScreenIs, IntersectionIs DEF Clipped
<1>3. IntRect(Clipped(i)) /\ PixelsOf(Clipped(i)) = OnScreen(i)
  BY <1>2 DEF IntRect, OnScreen, TreePixels
<1>4. Visible(i) => Tight(Clipped(i), OnScreen(i))
  BY <1>3, TightOne DEF Visible
<1>5. Visible(i) => OnScreen(i) # {}
  BY <1>4 DEF Tight
<1>6. OnScreen(i) # {} => Visible(i)
  BY <1>3, EmptyHasNone DEF Visible
<1>7. QED BY <1>3, <1>4, <1>5, <1>6 DEF OnScreen

-----------------------------------------------------------------------------
(* The bounds of a group.                                                   *)

IntRects == [x : Int, y : Int, w : Int, h : Int]

LEMMA UnionIsRect ==
  ASSUME NEW a \in IntRects, NEW b \in IntRects
  PROVE  ui_rect_union(a, b) \in IntRects
<1> DEFINE left == Smaller(a.x, b.x)
           top == Smaller(a.y, b.y)
           right == Larger(a.x + a.w, b.x + b.w)
           bottom == Larger(a.y + a.h, b.y + b.h)
<1>1. left \in Int /\ top \in Int /\ right \in Int /\ bottom \in Int
  BY DEF IntRects, Smaller, Larger
<1>2. ui_rect_union(a, b) = IF ui_rect_is_empty(a) THEN b ELSE IF ui_rect_is_empty(b) THEN a
                            ELSE Rect(left, top, right - left, bottom - top)
  BY DEF ui_rect_union, Between
<1> HIDE DEF left, top, right, bottom
<1>3. Rect(left, top, right - left, bottom - top) \in IntRects
  BY <1>1 DEF Rect, IntRects
<1>4. QED BY <1>2, <1>3

LEMMA ClippedIsRect ==
  ASSUME controls \in [Controls -> Shapes], NEW i \in Controls
  PROVE  Clipped(i) \in IntRects
<1>1. IntRect(controls[i])
  <2>1. controls[i] \in [x : Int, y : Int, w : Int, h : Int]
    BY TreeSizes
  <2>2. QED BY <2>1 DEF IntRect
<1>2. Clipped(i) \in [x : Int, y : Int, w : Nat, h : Nat]
  BY <1>1, ScreenIs, IntersectionIs DEF Clipped
<1>3. QED BY <1>2 DEF IntRects

BoundsRound(g, numbered, b, n) ==
  IF numbered[n - 1] = g THEN ui_rect_union(b, Clipped(n - 1)) ELSE b

AllBounds(g, numbered) ==
  LET bounds[n \in 0 .. COUNT] ==
        IF n = 0 THEN NoRect ELSE BoundsRound(g, numbered, bounds[n - 1], n)
  IN  bounds

LEMMA BoundsRun ==
  ASSUME controls \in [Controls -> Shapes], NEW g, NEW numbered
  PROVE  \E bounds \in [0 .. COUNT -> IntRects] :
           /\ bounds[0] = NoRect
           /\ \A n \in 1 .. COUNT : bounds[n] = BoundsRound(g, numbered, bounds[n - 1], n)
           /\ bounds[COUNT] = BoundsOf(g, numbered)
<1>1. PICK f : f = [q \in IntRects \X (1 .. COUNT) |-> BoundsRound(g, numbered, q[1], q[2])]
  OBVIOUS
<1>2. COUNT \in Nat
  BY TreeSizes
<1>3. \A b \in IntRects : \A n \in 1 .. COUNT : BoundsRound(g, numbered, b, n) \in IntRects
  <2>1. \A n \in 1 .. COUNT : n - 1 \in Controls
    BY <1>2 DEF Controls
  <2>2. QED BY <2>1, ClippedIsRect, UnionIsRect DEF BoundsRound
<1>4. PICK h : LoopOf(h, COUNT, IntRects, NoRect, f)
  <2>1. RoundOf(f, COUNT, IntRects)
    BY <1>1, <1>3 DEF RoundOf
  <2>2. NoRect \in IntRects
    BY DEF NoRect, Rect, IntRects
  <2>3. QED BY ONLY <1>2, <2>1, <2>2, LoopHasResult
<1>5. /\ h \in [0 .. COUNT -> IntRects] /\ h[0] = NoRect
      /\ \A n \in 1 .. COUNT : h[n] = f[<<h[n - 1], n>>]
  BY <1>4 DEF LoopOf
<1>6. \A n \in 1 .. COUNT : h[n] = BoundsRound(g, numbered, h[n - 1], n)
  <2>1. ASSUME NEW n \in 1 .. COUNT PROVE h[n] = BoundsRound(g, numbered, h[n - 1], n)
    <3>1. n - 1 \in 0 .. COUNT /\ h[n - 1] \in IntRects
      BY <1>2, <1>5
    <3>2. /\ <<h[n - 1], n>> \in IntRects \X (1 .. COUNT)
          /\ <<h[n - 1], n>>[1] = h[n - 1] /\ <<h[n - 1], n>>[2] = n
      BY <3>1
    <3>3. f[<<h[n - 1], n>>] = BoundsRound(g, numbered, h[n - 1], n)
      BY <1>1, <3>2
    <3>4. QED BY <1>5, <3>3
  <2>2. QED BY <2>1
<1>7. h = [n \in 0 .. COUNT |-> IF n = 0 THEN NoRect ELSE BoundsRound(g, numbered, h[n - 1], n)]
  <2>1. ASSUME NEW n \in 0 .. COUNT
        PROVE  h[n] = IF n = 0 THEN NoRect ELSE BoundsRound(g, numbered, h[n - 1], n)
    <3>1. n = 0 \/ n \in 1 .. COUNT
      BY <1>2
    <3>2. QED BY <1>5, <1>6, <3>1
  <2>2. QED BY <1>5, <2>1
<1>8. PICK bounds : bounds = AllBounds(g, numbered)
  OBVIOUS
<1>9. bounds = [n \in 0 .. COUNT |->
                  IF n = 0 THEN NoRect ELSE BoundsRound(g, numbered, bounds[n - 1], n)]
  BY <1>7, <1>8 DEF AllBounds
<1>10. bounds[0] = NoRect
       /\ \A n \in 1 .. COUNT : bounds[n] = BoundsRound(g, numbered, bounds[n - 1], n)
  <2>1. 0 \in 0 .. COUNT /\ \A n \in 1 .. COUNT : n \in 0 .. COUNT /\ n # 0
    BY <1>2
  <2>2. bounds[0] = NoRect
    BY <1>9, <2>1
  <2>3. ASSUME NEW n \in 1 .. COUNT
        PROVE  bounds[n] = BoundsRound(g, numbered, bounds[n - 1], n)
    BY <1>9, <2>1
  <2>4. QED BY <2>2, <2>3
<1>11. bounds \in [0 .. COUNT -> IntRects]
  <2> DEFINE good == {n \in 0 .. COUNT : bounds[n] \in IntRects}
  <2>1. 0 \in good
    BY <1>2, <1>10 DEF NoRect, Rect, IntRects
  <2>2. ASSUME NEW n \in 1 .. COUNT, n - 1 \in good
        PROVE  n \in good
    BY <1>3, <1>10, <2>2
  <2> HIDE DEF good
  <2>3. \A n \in 0 .. COUNT : n \in good
    BY <1>2, <2>1, <2>2, AllUpTo
  <2>4. \A n \in 0 .. COUNT : bounds[n] \in IntRects
    BY <2>3 DEF good
  <2>5. QED BY <1>9, <2>4
<1>12. bounds[COUNT] = BoundsOf(g, numbered)
  BY <1>8 DEF BoundsOf, AllBounds, BoundsRound
<1>13. QED BY <1>10, <1>11, <1>12

Holds(b, S) == IF S = {} THEN b = NoRect ELSE Tight(b, S)

CoveredTo(g, numbered, n) ==
  UNION {OnScreen(i) : i \in {k \in Controls : k < n /\ numbered[k] = g}}

LEMMA BoundsAreTight ==
  ASSUME controls \in [Controls -> Shapes], NEW g, NEW numbered,
         \A i \in Controls : numbered[i] = g => Visible(i)
  PROVE  /\ BoundsOf(g, numbered) \in IntRects
         /\ Holds(BoundsOf(g, numbered), CoveredTo(g, numbered, COUNT))
<1>1. PICK bounds \in [0 .. COUNT -> IntRects] :
           /\ bounds[0] = NoRect
           /\ \A n \in 1 .. COUNT : bounds[n] = BoundsRound(g, numbered, bounds[n - 1], n)
           /\ bounds[COUNT] = BoundsOf(g, numbered)
  BY BoundsRun
<1>2. COUNT \in Nat
  BY TreeSizes
<1> DEFINE good == {n \in 0 .. COUNT : Holds(bounds[n], CoveredTo(g, numbered, n))}
<1>3. 0 \in good
  <2>1. \A k \in Controls : ~ (k < 0)
    BY TreeSizes
  <2>2. CoveredTo(g, numbered, 0) = {}
    BY <2>1 DEF CoveredTo
  <2>3. QED BY <1>1, <1>2, <2>2 DEF Holds
<1>4. ASSUME NEW n \in 1 .. COUNT, n - 1 \in good
      PROVE  n \in good
  <2>1. PICK i : i = n - 1
    OBVIOUS
  <2>2. i \in Controls /\ i \in Nat /\ n = i + 1 /\ n \in 0 .. COUNT
    BY <1>2, <2>1 DEF Controls
  <2>3. bounds[n] = IF numbered[i] = g THEN ui_rect_union(bounds[i], Clipped(i)) ELSE bounds[i]
    BY <1>1, <2>1 DEF BoundsRound
  <2>4. Holds(bounds[i], CoveredTo(g, numbered, i))
    BY <1>4, <2>1
  <2>5. \A k \in Controls : k < n <=> k < i \/ k = i
    BY <2>2, TreeSizes
  <2>6. CASE numbered[i] = g
    <3>1. CoveredTo(g, numbered, n) = CoveredTo(g, numbered, i) \union OnScreen(i)
      BY <2>2, <2>5, <2>6 DEF CoveredTo
    <3>2. Tight(Clipped(i), OnScreen(i)) /\ OnScreen(i) # {}
      BY <2>2, <2>6, ClippedIs
    <3>3. Tight(bounds[n], CoveredTo(g, numbered, n))
      <4>1. CASE CoveredTo(g, numbered, i) = {}
        <5>1. bounds[n] = Clipped(i)
          BY <2>3, <2>4, <2>6, <4>1, NoRectIs DEF Holds, ui_rect_union
        <5>2. QED BY <3>1, <3>2, <4>1, <5>1
      <4>2. CASE CoveredTo(g, numbered, i) # {}
        <5>1. Tight(bounds[i], CoveredTo(g, numbered, i))
          BY <2>4, <4>2 DEF Holds
        <5>2. Tight(ui_rect_union(bounds[i], Clipped(i)),
                    CoveredTo(g, numbered, i) \union OnScreen(i))
          BY <3>2, <5>1, TightUnion
        <5>3. QED BY <2>3, <2>6, <3>1, <5>2
      <4>3. QED BY <4>1, <4>2
    <3>4. CoveredTo(g, numbered, n) # {}
      BY <3>1, <3>2
    <3>5. QED BY <2>2, <3>3, <3>4 DEF Holds
  <2>7. CASE numbered[i] # g
    <3>1. CoveredTo(g, numbered, n) = CoveredTo(g, numbered, i)
      BY <2>2, <2>5, <2>7 DEF CoveredTo
    <3>2. QED BY <2>2, <2>3, <2>4, <2>7, <3>1
  <2>8. QED BY <2>6, <2>7
<1>5. COUNT \in good
  <2> HIDE DEF good
  <2>1. QED BY <1>2, <1>3, <1>4, UpwardsTo
<1>6. COUNT \in 0 .. COUNT
  BY <1>2
<1>7. QED BY <1>1, <1>5, <1>6

-----------------------------------------------------------------------------
(* Numbering.                                                               *)

LEMMA MinOf ==
  ASSUME NEW S \in SUBSET Nat, S # {}
  PROVE  Min(S) \in S /\ \A k \in S : Min(S) =< k
<1>1. PICK m \in S : \A k \in S : m =< k
  BY LeastExists
<1>2. Min(S) = m
  BY <1>1, MinIs
<1>3. QED BY <1>1, <1>2

GroupsRight ==
  /\ groups \in [Controls -> Controls \union {NO_GROUP}]
  /\ group_bounds \in [Controls -> IntRects]
  /\ GroupsAreComponents
  /\ Numbered => \A g \in Controls :
       Holds(group_bounds[g], UNION {OnScreen(i) : i \in Members(g)})

LEMMA NumberIsRight ==
  ASSUME TreeTypes, UnionFind, GroupsRight, Number
  PROVE  TreeTypes' /\ UnionFind' /\ GroupsRight'
<1>1. /\ tree_phase = "number" /\ tree_phase' = "build" /\ pair' = pair
      /\ controls' = controls /\ threshold' = threshold /\ parents' = Compressed(Controls)
      /\ controls \in [Controls -> Shapes] /\ threshold \in Int
  BY DEF Number, arguments, TreeTypes
<1>2. TreeTypes'
  BY <1>1 DEF TreeTypes
<1>3. PICK R, rank : IsForest(parents, R, rank) /\ Agrees(controls, threshold, pair, R)
  BY <1>1 DEF UnionFind, Looping
<1>4. UnionFind'
  <2>1. IsForest(parents', R, rank)
    BY <1>1, <1>3, CompressedIs
  <2>2. ~ Looping'
    BY <1>1 DEF Looping
  <2>3. QED BY <2>1, <2>2 DEF UnionFind
<1>5. PICK new : new = groups'
  OBVIOUS
<1>6. \A i \in Controls :
        /\ new[i] = IF OnScreen(i) = {} THEN NO_GROUP
                    ELSE Min({k \in ComponentOf(i) : OnScreen(k) # {}})
        /\ new[i] \in Controls \union {NO_GROUP}
  <2> SUFFICES ASSUME NEW i \in Controls
               PROVE  /\ new[i] = IF OnScreen(i) = {} THEN NO_GROUP
                                  ELSE Min({k \in ComponentOf(i) : OnScreen(k) # {}})
                      /\ new[i] \in Controls \union {NO_GROUP}
    OBVIOUS
  <2>1. new[i] = IF Visible(i) THEN Min({k \in Controls : Visible(k) /\ RootOf(k) = RootOf(i)})
                 ELSE NO_GROUP
    BY <1>5 DEF Number
  <2>2. \A k \in Controls : Visible(k) <=> OnScreen(k) # {}
    BY <1>1, ClippedIs
  <2>3. \A k \in Controls : RootOf(k) = R[k]
    BY <1>3, RootIs
  <2>4. \A k \in Controls : R[k] = R[i] <=> k \in ComponentOf(i)
    <3>1. R \in [Controls -> Controls]
      BY <1>3 DEF IsForest
    <3>2. \A k \in Controls : R[k] = R[i] <=> k \in ComponentIn(controls, threshold, i)
      BY <1>1, <1>3, <3>1, RootsAreComponents
    <3>3. QED BY <3>2, ComponentIs
  <2>5. ComponentOf(i) \subseteq Controls /\ i \in ComponentOf(i)
    BY ComponentIs, ComponentIsClosed
  <2>6. {k \in Controls : Visible(k) /\ RootOf(k) = RootOf(i)}
          = {k \in ComponentOf(i) : OnScreen(k) # {}}
    BY <2>2, <2>3, <2>4, <2>5
  <2>7. CASE OnScreen(i) = {}
    BY <2>1, <2>2, <2>7
  <2>8. CASE OnScreen(i) # {}
    <3>1. new[i] = Min({k \in ComponentOf(i) : OnScreen(k) # {}})
      BY <2>1, <2>2, <2>6, <2>8
    <3>2. PICK S : S = {k \in ComponentOf(i) : OnScreen(k) # {}}
      OBVIOUS
    <3>3. S \in SUBSET Nat /\ S # {} /\ S \subseteq Controls
      BY <2>5, <2>8, <3>2, TreeSizes
    <3>4. Min(S) \in S
      BY <3>3, MinOf
    <3>5. QED BY <2>8, <3>1, <3>2, <3>3, <3>4
  <2>9. QED BY <2>7, <2>8
<1>7. new \in [Controls -> Controls \union {NO_GROUP}]
  <2>1. new = [i \in Controls |->
                  IF Visible(i)
                  THEN Min({k \in Controls : Visible(k) /\ RootOf(k) = RootOf(i)})
                  ELSE NO_GROUP]
    BY <1>5 DEF Number
  <2>2. QED BY <1>6, <2>1
<1>8. GroupsAreComponents'
  <2>1. \A i : ComponentOf(i)' = ComponentOf(i)
    BY <1>1, ComponentIs, ComponentIsNext
  <2>2. \A i : OnScreen(i)' = OnScreen(i)
    BY <1>1 DEF OnScreen
  <2>3. QED BY <1>5, <1>6, <2>1, <2>2 DEF GroupsAreComponents
<1>9. \A g \in Controls : /\ group_bounds'[g] \in IntRects
                          /\ Holds(group_bounds'[g], CoveredTo(g, new, COUNT))
  <2> SUFFICES ASSUME NEW g \in Controls
               PROVE  /\ group_bounds'[g] \in IntRects
                      /\ Holds(group_bounds'[g], CoveredTo(g, new, COUNT))
    OBVIOUS
  <2>1. group_bounds'[g] = BoundsOf(g, new)
    BY <1>5 DEF Number
  <2>2. \A i \in Controls : new[i] = g => Visible(i)
    BY <1>1, <1>6, ClippedIs, TreeSizes
  <2>3. QED BY <1>1, <2>1, <2>2, BoundsAreTight
<1>10. \A g \in Controls : CoveredTo(g, new, COUNT) = (UNION {OnScreen(i) : i \in Members(g)})'
  <2>1. \A k \in Controls : k < COUNT
    BY TreeSizes DEF Controls
  <2>2. \A i : OnScreen(i)' = OnScreen(i)
    BY <1>1 DEF OnScreen
  <2>3. QED BY <1>5, <2>1, <2>2 DEF CoveredTo, Members
<1>11. group_bounds' \in [Controls -> IntRects]
  <2>1. group_bounds' = [g \in Controls |-> BoundsOf(g, groups')]
    BY DEF Number
  <2>2. QED BY <1>9, <2>1
<1>12. QED BY <1>2, <1>4, <1>5, <1>7, <1>8, <1>9, <1>10, <1>11 DEF GroupsRight

-----------------------------------------------------------------------------
(* What numbering means.                                                    *)

LEMMA OverlappingAreNear ==
  ASSUME NEW cs, NEW t, IsArgument(cs, t), NEW i \in Controls, NEW j \in Controls,
         NEW p \in PixelsOf(cs[i]), p \in PixelsOf(cs[j])
  PROVE  NearIn(cs, t, i, j)
<1> DEFINE a == cs[i]
           b == cs[j]
<1>1. /\ a.x \in Int /\ a.y \in Int /\ a.w \in Int /\ a.h \in Int
      /\ b.x \in Int /\ b.y \in Int /\ b.w \in Int /\ b.h \in Int
  BY ShapeIs
<1>2. Larger(t, 0) \in Int /\ 0 <= Larger(t, 0)
  BY DEF Larger, IsArgument
<1> HIDE DEF a, b
<1>3. /\ p[1] \in a.x .. a.x + a.w - 1 /\ p[1] \in b.x .. b.x + b.w - 1
      /\ p[2] \in a.y .. a.y + a.h - 1 /\ p[2] \in b.y .. b.y + b.h - 1
  BY DEF PixelsOf, a, b
<1>4. /\ b.x - (a.x + a.w) < 0 /\ a.x - (b.x + b.w) < 0
      /\ b.y - (a.y + a.h) < 0 /\ a.y - (b.y + b.h) < 0
  BY <1>1, <1>3
<1>5. /\ Gap(a.x, a.x + a.w, b.x, b.x + b.w) < 0 /\ Gap(a.y, a.y + a.h, b.y, b.y + b.h) < 0
      /\ Gap(a.x, a.x + a.w, b.x, b.x + b.w) \in Int /\ Gap(a.y, a.y + a.h, b.y, b.y + b.h) \in Int
  BY <1>1, <1>4 DEF Gap, Larger
<1>6. /\ Gap(a.x, a.x + a.w, b.x, b.x + b.w) < Larger(t, 0)
      /\ Gap(a.y, a.y + a.h, b.y, b.y + b.h) < Larger(t, 0)
  BY <1>2, <1>5
<1>7. QED BY <1>6 DEF NearIn, a, b

LEMMA GroupsMean ==
  ASSUME TreeTypes, GroupsRight, Numbered, NEW i \in Controls
  PROVE  /\ groups[i] \in Controls <=> OnScreen(i) # {}
         /\ \A j \in Controls : groups[i] \in Controls /\ groups[j] = groups[i]
                                  => j \in ComponentOf(i)
         /\ \A j \in Controls : \A p : p \in OnScreen(i) /\ p \in OnScreen(j)
                                  => groups[j] = groups[i]
<1> DEFINE C(k) == ComponentOf(k)
           seen(k) == {m \in C(k) : OnScreen(m) # {}}
<1>1. \A k \in Controls : groups[k] = IF OnScreen(k) = {} THEN NO_GROUP ELSE Min(seen(k))
  BY DEF GroupsRight, GroupsAreComponents
<1>2. \A k \in Controls : k \in C(k) /\ C(k) \subseteq Controls
  BY ComponentIs, ComponentIsClosed
<1>3. IsArgument(controls, threshold)
  BY DEF TreeTypes, IsArgument
<1>4. \A k \in Controls : \A m \in C(k) : C(m) = C(k)
  BY <1>3, ComponentIs, ComponentsAreClasses
<1>5. ASSUME NEW k \in Controls, OnScreen(k) # {}
      PROVE  groups[k] = Min(seen(k)) /\ groups[k] \in Controls /\ groups[k] \in C(k)
  <2>1. seen(k) \in SUBSET Nat /\ seen(k) # {} /\ seen(k) \subseteq C(k)
    BY <1>2, <1>5, TreeSizes
  <2>2. Min(seen(k)) \in seen(k)
    BY <2>1, MinOf
  <2>3. QED BY <1>1, <1>2, <1>5, <2>1, <2>2
<1>6. \A k \in Controls : groups[k] \in Controls <=> OnScreen(k) # {}
  BY <1>1, <1>5, TreeSizes
<1>7. ASSUME NEW j \in Controls, groups[i] \in Controls, groups[j] = groups[i]
      PROVE  j \in C(i)
  <2>1. groups[i] \in C(i) /\ groups[i] \in C(j)
    BY <1>5, <1>6, <1>7
  <2>2. C(i) = C(groups[i]) /\ C(j) = C(groups[i])
    BY <1>4, <2>1
  <2>3. QED BY <1>2, <2>2
<1>8. ASSUME NEW j \in Controls, NEW p \in OnScreen(i), p \in OnScreen(j)
      PROVE  groups[j] = groups[i]
  <2>1. NearIn(controls, threshold, i, j)
    BY <1>3, <1>8, OverlappingAreNear DEF OnScreen
  <2>2. j \in C(i)
    BY <2>1, ComponentIs, ComponentIsClosed DEF ClosedIn
  <2>3. C(j) = C(i)
    BY <1>4, <2>2
  <2>4. QED BY <1>5, <1>8, <2>3
<1>9. QED BY <1>6, <1>7, <1>8

LEMMA TightInside ==
  ASSUME NEW c, NEW S, NEW b, Tight(c, S), IntRect(b), S \subseteq PixelsOf(b)
  PROVE  /\ b.x <= c.x /\ c.x + c.w <= b.x + b.w /\ b.y <= c.y /\ c.y + c.h <= b.y + b.h
         /\ c.w > 0 /\ c.h > 0
<1>1. /\ c.x \in Int /\ c.y \in Int /\ c.w \in Int /\ c.h \in Int /\ c.w > 0 /\ c.h > 0
      /\ b.x \in Int /\ b.y \in Int /\ b.w \in Int /\ b.h \in Int
  BY DEF Tight, IntRect, ui_rect_is_empty
<1>2. \A p \in S : p[1] \in b.x .. b.x + b.w - 1 /\ p[2] \in b.y .. b.y + b.h - 1
  BY DEF PixelsOf
<1>3. /\ c.x \in b.x .. b.x + b.w - 1 /\ c.x + c.w - 1 \in b.x .. b.x + b.w - 1
      /\ c.y \in b.y .. b.y + b.h - 1 /\ c.y + c.h - 1 \in b.y .. b.y + b.h - 1
  BY <1>2 DEF Tight
<1>4. QED BY <1>1, <1>3

(* Several controls are in the bounds of their group.                       *)
LEMMA BoundsHold ==
  ASSUME TreeTypes, GroupsRight, Numbered, NEW g \in Controls, NEW i \in Members(g)
  PROVE  /\ IntRect(group_bounds[g]) /\ i \in Controls /\ groups[i] = g
         /\ Tight(group_bounds[g], UNION {OnScreen(k) : k \in Members(g)})
         /\ PixelsOf(group_bounds[g]) \subseteq TreePixels
         /\ Visible(i) /\ Tight(Clipped(i), OnScreen(i)) /\ IntRect(Clipped(i))
         /\ OnScreen(i) \subseteq PixelsOf(group_bounds[g])
<1> DEFINE b == group_bounds[g]
           covered == UNION {OnScreen(k) : k \in Members(g)}
<1>1. i \in Controls /\ groups[i] = g /\ controls \in [Controls -> Shapes]
  BY DEF Members, TreeTypes
<1>2. OnScreen(i) # {}
  BY <1>1, GroupsMean
<1>3. Visible(i) /\ Tight(Clipped(i), OnScreen(i)) /\ IntRect(Clipped(i))
  BY <1>1, <1>2, ClippedIs
<1>4. covered # {} /\ OnScreen(i) \subseteq covered
  BY <1>2
<1>5. Holds(b, covered)
  BY DEF GroupsRight
<1>6. Tight(b, covered)
  BY <1>4, <1>5 DEF Holds
<1>7. covered \subseteq PixelsOf(root_bounds)
  <2>1. \A k \in Members(g) : OnScreen(k) \subseteq PixelsOf(root_bounds)
    BY DEF OnScreen, TreePixels
  <2>2. QED BY <2>1
<1> HIDE DEF b, covered
<1>8. IntRect(b) /\ IntRect(root_bounds)
  BY <1>6, ScreenIs DEF Tight
<1>9. PixelsOf(b) \subseteq TreePixels
  <2>1. /\ root_bounds.x <= b.x /\ b.x + b.w <= root_bounds.x + root_bounds.w
        /\ root_bounds.y <= b.y /\ b.y + b.h <= root_bounds.y + root_bounds.h
    BY <1>6, <1>7, <1>8, TightInside
  <2>2. /\ b.x \in Int /\ b.y \in Int /\ b.w \in Int /\ b.h \in Int
        /\ root_bounds.x \in Int /\ root_bounds.y \in Int
        /\ root_bounds.w \in Int /\ root_bounds.h \in Int
    BY <1>8 DEF IntRect
  <2>3. /\ b.x .. b.x + b.w - 1 \subseteq
             root_bounds.x .. root_bounds.x + root_bounds.w - 1
        /\ b.y .. b.y + b.h - 1 \subseteq
             root_bounds.y .. root_bounds.y + root_bounds.h - 1
    BY <2>1, <2>2
  <2>4. QED BY <2>3 DEF PixelsOf, TreePixels
<1>10. OnScreen(i) \subseteq PixelsOf(b)
  BY <1>4, <1>6 DEF Tight
<1>11. QED BY <1>1, <1>3, <1>6, <1>8, <1>9, <1>10 DEF b, covered

(* A tree of clipped controls fits.                                         *)
LEMMA NeverRefused ==
  ASSUME TreeTypes, GroupsRight, Numbered, NEW g \in Controls
  PROVE  ~ Refused(g)
<1> DEFINE b == group_bounds[g]
<1>1. ASSUME Several(g) PROVE FitsInto(root_bounds, b)
  <2>1. PICK i \in Members(g) : TRUE
    BY <1>1 DEF Several
  <2>2. /\ Tight(b, UNION {OnScreen(k) : k \in Members(g)}) /\ IntRect(b)
        /\ PixelsOf(b) \subseteq TreePixels
    BY <2>1, BoundsHold
  <2>3. (UNION {OnScreen(k) : k \in Members(g)}) \subseteq PixelsOf(root_bounds)
    BY <2>2 DEF Tight, TreePixels
  <2> HIDE DEF b
  <2>4. /\ root_bounds.x <= b.x /\ b.x + b.w <= root_bounds.x + root_bounds.w
        /\ root_bounds.y <= b.y /\ b.y + b.h <= root_bounds.y + root_bounds.h
        /\ b.w > 0 /\ b.h > 0
    BY <2>2, <2>3, ScreenIs, TightInside
  <2>5. b.x \in Int /\ b.y \in Int /\ b.w \in Int /\ b.h \in Int
    BY <2>2 DEF IntRect
  <2>6. QED BY <2>4, <2>5, ScreenIs, TreeSizes DEF FitsInto
<1>2. ASSUME NEW i \in Members(g)
      PROVE  FitsInto(IF Several(g) THEN b ELSE root_bounds, Leaf(i, g).bounds)
  <2> DEFINE c == Clipped(i)
  <2>1. /\ IntRect(b) /\ IntRect(c) /\ Tight(c, OnScreen(i))
        /\ OnScreen(i) \subseteq PixelsOf(b) /\ OnScreen(i) \subseteq PixelsOf(root_bounds)
    BY BoundsHold DEF OnScreen, TreePixels
  <2>2. /\ c.x \in Int /\ c.y \in Int /\ c.w \in Int /\ c.h \in Int
        /\ b.x \in Int /\ b.y \in Int /\ b.w \in Int /\ b.h \in Int
    BY <2>1 DEF IntRect
  <2>3. CASE Several(g)
    <3>1. Leaf(i, g).bounds = Relative(c, b)
      BY <2>3 DEF Leaf, Node
    <3> HIDE DEF b, c
    <3>2. /\ b.x <= c.x /\ c.x + c.w <= b.x + b.w /\ b.y <= c.y /\ c.y + c.h <= b.y + b.h
          /\ c.w > 0 /\ c.h > 0
      BY <2>1, TightInside
    <3>3. Relative(c, b).x = c.x - b.x /\ Relative(c, b).y = c.y - b.y
          /\ Relative(c, b).w = c.w /\ Relative(c, b).h = c.h
      BY DEF Relative, Rect
    <3>4. FitsInto(b, Relative(c, b))
      BY <2>2, <3>2, <3>3 DEF FitsInto
    <3>5. QED BY <2>3, <3>1, <3>4
  <2>4. CASE ~ Several(g)
    <3>1. Leaf(i, g).bounds = c
      BY <2>4 DEF Leaf, Node
    <3> HIDE DEF c
    <3>2. /\ root_bounds.x <= c.x /\ c.x + c.w <= root_bounds.x + root_bounds.w
          /\ root_bounds.y <= c.y /\ c.y + c.h <= root_bounds.y + root_bounds.h
          /\ c.w > 0 /\ c.h > 0
      BY <2>1, ScreenIs, TightInside
    <3>3. FitsInto(root_bounds, c)
      BY <2>2, <3>2, ScreenIs, TreeSizes DEF FitsInto
    <3>4. QED BY <2>4, <3>1, <3>3
  <2>5. QED BY <2>3, <2>4
<1>3. QED BY <1>1, <1>2 DEF Refused

(* The bounds of a group are those of the pixels its members cover.         *)
LEMMA ContainersAreTight ==
  ASSUME TreeTypes, GroupsRight, tree_phase # "refused"
  PROVE  TightContainers
<1> SUFFICES ASSUME Numbered, NEW g \in Controls,
                    UNION {OnScreen(i) : i \in Members(g)} # {}
             PROVE  LET covered == UNION {OnScreen(i) : i \in Members(g)}
                        b == group_bounds[g]
                    IN  /\ b.x = Min({p[1] : p \in covered})
                        /\ b.x + b.w - 1 = Max({p[1] : p \in covered})
                        /\ b.y = Min({p[2] : p \in covered})
                        /\ b.y + b.h - 1 = Max({p[2] : p \in covered})
  BY DEF TightContainers
<1> DEFINE covered == UNION {OnScreen(i) : i \in Members(g)}
           b == group_bounds[g]
           columns == {p[1] : p \in covered}
           heights == {p[2] : p \in covered}
<1>1. Tight(b, covered)
  BY DEF GroupsRight, Holds
<1> HIDE DEF covered, b
<1>2. \A p \in covered : p[1] \in b.x .. b.x + b.w - 1 /\ p[2] \in b.y .. b.y + b.h - 1
  BY <1>1 DEF Tight, PixelsOf
<1>3. /\ b.x \in Int /\ b.y \in Int /\ b.w \in Int /\ b.h \in Int
      /\ b.x + b.w - 1 \in Int /\ b.y + b.h - 1 \in Int
  BY <1>1 DEF Tight, IntRect
<1>4. /\ b.x \in columns /\ b.x + b.w - 1 \in columns
      /\ b.y \in heights /\ b.y + b.h - 1 \in heights
  BY <1>1 DEF Tight
<1>5. /\ columns \in SUBSET Int /\ heights \in SUBSET Int
      /\ \A k \in columns : b.x =< k /\ b.x + b.w - 1 >= k
      /\ \A k \in heights : b.y =< k /\ b.y + b.h - 1 >= k
  BY <1>2, <1>3
<1> HIDE DEF columns, heights
<1>6. /\ b.x = Min(columns) /\ b.x + b.w - 1 = Max(columns)
      /\ b.y = Min(heights) /\ b.y + b.h - 1 = Max(heights)
  BY <1>4, <1>5, MinIs, MaxIs
<1>7. QED BY <1>6 DEF columns, heights, covered, b

-----------------------------------------------------------------------------
(* The members of a group in ascending order.                               *)

OrderRound(g, s, n) == IF groups[n - 1] = g THEN Append(s, n - 1) ELSE s

AllOrders(g) ==
  LET upto[n \in 0 .. COUNT] == IF n = 0 THEN <<>> ELSE OrderRound(g, upto[n - 1], n)
  IN  upto

LEMMA OrderRun ==
  ASSUME NEW g
  PROVE  \E upto \in [0 .. COUNT -> Seq(Controls)] :
           /\ upto[0] = <<>>
           /\ \A n \in 1 .. COUNT : upto[n] = OrderRound(g, upto[n - 1], n)
           /\ upto[COUNT] = InOrder(g)
<1>1. PICK f : f = [q \in Seq(Controls) \X (1 .. COUNT) |-> OrderRound(g, q[1], q[2])]
  OBVIOUS
<1>2. COUNT \in Nat
  BY TreeSizes
<1> DEFINE S == Seq(Controls)
<1> <<>> \in S
  BY EmptySeq
<1>3. \A s \in S : \A n \in 1 .. COUNT : OrderRound(g, s, n) \in S
  <2>1. \A n \in 1 .. COUNT : n - 1 \in Controls
    BY <1>2 DEF Controls
  <2>2. ASSUME NEW s \in S, NEW n \in 1 .. COUNT PROVE OrderRound(g, s, n) \in S
    <3>1. Append(s, n - 1) \in S
      BY <2>1, AppendProperties
    <3>2. QED BY <3>1 DEF OrderRound
  <2>3. QED BY <2>2
<1> HIDE DEF S
<1>4. PICK h : LoopOf(h, COUNT, S, <<>>, f)
  <2>1. RoundOf(f, COUNT, S)
    BY <1>1, <1>3 DEF RoundOf, S
  <2>2. QED BY ONLY <1>2, <2>1, <<>> \in S, LoopHasResult
<1>5. /\ h \in [0 .. COUNT -> S] /\ h[0] = <<>>
      /\ \A n \in 1 .. COUNT : h[n] = f[<<h[n - 1], n>>]
  BY <1>4 DEF LoopOf
<1>6. \A n \in 1 .. COUNT : h[n] = OrderRound(g, h[n - 1], n)
  <2>1. ASSUME NEW n \in 1 .. COUNT PROVE h[n] = OrderRound(g, h[n - 1], n)
    <3>1. n - 1 \in 0 .. COUNT /\ h[n - 1] \in S
      BY <1>2, <1>5
    <3>2. /\ <<h[n - 1], n>> \in S \X (1 .. COUNT)
          /\ <<h[n - 1], n>>[1] = h[n - 1] /\ <<h[n - 1], n>>[2] = n
      BY <3>1
    <3>3. f[<<h[n - 1], n>>] = OrderRound(g, h[n - 1], n)
      BY <1>1, <3>2 DEF S
    <3>4. QED BY <1>5, <3>3
  <2>2. QED BY <2>1
<1>7. h = [n \in 0 .. COUNT |-> IF n = 0 THEN <<>> ELSE OrderRound(g, h[n - 1], n)]
  <2>1. ASSUME NEW n \in 0 .. COUNT
        PROVE  h[n] = IF n = 0 THEN <<>> ELSE OrderRound(g, h[n - 1], n)
    <3>1. n = 0 \/ n \in 1 .. COUNT
      BY <1>2
    <3>2. QED BY <1>5, <1>6, <3>1
  <2>2. QED BY <1>5, <2>1
<1>8. PICK upto : upto = AllOrders(g)
  OBVIOUS
<1>9. upto = [n \in 0 .. COUNT |-> IF n = 0 THEN <<>> ELSE OrderRound(g, upto[n - 1], n)]
  BY <1>7, <1>8 DEF AllOrders
<1>10. upto[0] = <<>> /\ \A n \in 1 .. COUNT : upto[n] = OrderRound(g, upto[n - 1], n)
  <2>1. 0 \in 0 .. COUNT /\ \A n \in 1 .. COUNT : n \in 0 .. COUNT /\ n # 0
    BY <1>2
  <2>2. upto[0] = <<>>
    BY <1>9, <2>1
  <2>3. ASSUME NEW n \in 1 .. COUNT PROVE upto[n] = OrderRound(g, upto[n - 1], n)
    BY <1>9, <2>1
  <2>4. QED BY <2>2, <2>3
<1>11. upto \in [0 .. COUNT -> S]
  <2> DEFINE good == {n \in 0 .. COUNT : upto[n] \in S}
  <2>1. 0 \in good
    BY <1>2, <1>10
  <2>2. ASSUME NEW n \in 1 .. COUNT, n - 1 \in good
        PROVE  n \in good
    BY <1>3, <1>10, <2>2
  <2> HIDE DEF good
  <2>3. \A n \in 0 .. COUNT : n \in good
    BY <1>2, <2>1, <2>2, AllUpTo
  <2>4. \A n \in 0 .. COUNT : upto[n] \in S
    BY <2>3 DEF good
  <2>5. QED BY <1>9, <2>4
<1>12. upto[COUNT] = InOrder(g)
  BY <1>8 DEF InOrder, AllOrders, OrderRound
<1>13. QED BY <1>10, <1>11, <1>12 DEF S

(* A sequence lists a set of numbers in ascending order.                    *)
Lists(s, S) ==
  /\ \A k \in 1 .. Len(s) : s[k] \in S
  /\ \A k, l \in 1 .. Len(s) : k < l => s[k] < s[l]
  /\ \A i \in S : \E k \in 1 .. Len(s) : s[k] = i

LEMMA InOrderLists ==
  ASSUME NEW g
  PROVE  InOrder(g) \in Seq(Controls) /\ Lists(InOrder(g), Members(g))
<1>1. PICK upto \in [0 .. COUNT -> Seq(Controls)] :
           /\ upto[0] = <<>>
           /\ \A n \in 1 .. COUNT : upto[n] = OrderRound(g, upto[n - 1], n)
           /\ upto[COUNT] = InOrder(g)
  BY OrderRun
<1>2. COUNT \in Nat
  BY TreeSizes
<1> DEFINE first(n) == {i \in Controls : i < n /\ groups[i] = g}
           good == {n \in 0 .. COUNT : Lists(upto[n], first(n))}
<1>3. 0 \in good
  <2>1. first(0) = {}
    <3>1. \A k \in Controls : ~ (k < 0)
      BY TreeSizes
    <3>2. QED BY <3>1
  <2>2. Len(upto[0]) = 0
    BY <1>1, EmptySeq
  <2>3. 1 .. Len(upto[0]) = {}
    BY <2>2
  <2> HIDE DEF first
  <2>4. Lists(upto[0], first(0))
    BY <2>1, <2>3 DEF Lists
  <2>5. QED BY <1>2, <2>4
<1>4. ASSUME NEW n \in 1 .. COUNT, n - 1 \in good
      PROVE  n \in good
  <2>1. PICK m, s, z : m = n - 1 /\ s = upto[n - 1] /\ z = upto[n]
    OBVIOUS
  <2>2. /\ m \in Controls /\ m \in Nat /\ n = m + 1 /\ n \in 0 .. COUNT
        /\ s \in Seq(Controls) /\ Len(s) \in Nat
    BY <1>2, <2>1 DEF Controls
  <2>3. z = IF groups[m] = g THEN Append(s, m) ELSE s
    BY <1>1, <2>1 DEF OrderRound
  <2>4. Lists(s, first(m))
    BY <1>4, <2>1
  <2>5. \A k \in Controls : k < n <=> (k < m \/ k = m)
    BY <2>2, TreeSizes
  <2>6. CASE groups[m] = g
    <3>1. first(n) = first(m) \union {m}
      BY <2>2, <2>5, <2>6
    <3>2. \A k \in first(m) : k < m
      OBVIOUS
    <3> HIDE DEF first
    <3>3. Append(s, m) = z
      BY <2>3, <2>6
    <3>4. /\ Len(z) = Len(s) + 1 /\ z[Len(s) + 1] = m
          /\ \A k \in 1 .. Len(s) : z[k] = s[k]
      BY <2>2, <3>3, AppendProperties
    <3>5. \A k \in 1 .. Len(z) : k \in 1 .. Len(s) \/ k = Len(s) + 1
      BY <2>2, <3>4
    <3>6. \A k \in 1 .. Len(s) : k \in 1 .. Len(z) /\ s[k] \in first(m)
      BY <2>2, <2>4, <3>4 DEF Lists
    <3>7. Len(s) + 1 \in 1 .. Len(z)
      BY <2>2, <3>4
    <3>8. \A k \in 1 .. Len(z) : z[k] \in first(n)
      BY <3>1, <3>4, <3>5, <3>6
    <3>9. ASSUME NEW k \in 1 .. Len(z), NEW l \in 1 .. Len(z), k < l
          PROVE  z[k] < z[l]
      <4>1. k \in 1 .. Len(s)
        BY <2>2, <3>4, <3>9
      <4>2. CASE l \in 1 .. Len(s)
        BY <2>4, <3>4, <3>9, <4>1, <4>2 DEF Lists
      <4>3. CASE l = Len(s) + 1
        BY <3>2, <3>4, <3>6, <4>1, <4>3
      <4>4. QED BY <3>5, <4>2, <4>3
    <3>10. ASSUME NEW i \in first(n) PROVE \E k \in 1 .. Len(z) : z[k] = i
      <4>1. CASE i = m
        BY <3>4, <3>7, <4>1
      <4>2. CASE i \in first(m)
        <5>1. PICK k \in 1 .. Len(s) : s[k] = i
          BY <2>4, <4>2 DEF Lists
        <5>2. QED BY <3>4, <3>6, <5>1
      <4>3. QED BY <3>1, <4>1, <4>2
    <3>11. Lists(z, first(n))
      BY <3>8, <3>9, <3>10 DEF Lists
    <3>12. QED BY <2>1, <2>2, <3>11
  <2>7. CASE groups[m] # g
    <3>1. first(n) = first(m)
      BY <2>2, <2>5, <2>7
    <3> HIDE DEF first
    <3>2. z = s
      BY <2>3, <2>7
    <3>3. Lists(z, first(n))
      BY <2>4, <3>1, <3>2
    <3>4. QED BY <2>1, <2>2, <3>3
  <2>8. QED BY <2>6, <2>7
<1>5. COUNT \in good
  <2> HIDE DEF good
  <2>1. QED BY <1>2, <1>3, <1>4, UpwardsTo
<1>6. first(COUNT) = Members(g)
  BY TreeSizes DEF Members, Controls
<1>7. COUNT \in 0 .. COUNT
  BY <1>2
<1>8. QED BY <1>1, <1>5, <1>6, <1>7

-----------------------------------------------------------------------------
(* The tree: its nodes lie where their controls are, and those of one group *)
(* are in ascending order.                                                  *)

NodeSet ==
  {Node(kind, i, b, c) : kind \in {"leaf", "group"}, i \in Controls, b \in IntRects,
                         c \in Controls \union {NO_GROUP}}

LeafNode(n, upto) ==
  /\ n.kind = "leaf" /\ n.id \in Controls /\ groups[n.id] \in Controls /\ groups[n.id] < upto
  /\ absolute_bounds(n) = Clipped(n.id)

GroupNode(n) ==
  /\ n.kind = "group" /\ n.id \in Controls /\ Several(n.id)
  /\ absolute_bounds(n) = group_bounds[n.id]

TreeOf(ns, upto) ==
  /\ ns \in Seq(NodeSet)
  /\ \A k \in 1 .. Len(ns) : LeafNode(ns[k], upto) \/ GroupNode(ns[k])
  /\ \A k, l \in 1 .. Len(ns) :
       /\ k < l /\ ns[k].kind = "leaf" /\ ns[l].kind = "leaf"
       /\ groups[ns[k].id] = groups[ns[l].id]
       => ns[k].id < ns[l].id
  /\ \A i \in Controls : groups[i] \in Controls /\ groups[i] < upto
       => \E k \in 1 .. Len(ns) : ns[k].kind = "leaf" /\ ns[k].id = i

TreeRight ==
  /\ group \in 0 .. COUNT
  /\ Looping => group = 0 /\ nodes = <<>>
  /\ Numbered => TreeOf(nodes, group)
  /\ tree_phase \in {"render", "outline", "done"} => group = COUNT

LEMMA NodeIs ==
  ASSUME NEW kind, NEW i, NEW b, NEW c
  PROVE  /\ Node(kind, i, b, c).kind = kind /\ Node(kind, i, b, c).id = i
         /\ Node(kind, i, b, c).bounds = b /\ Node(kind, i, b, c).container = c
BY DEF Node

LEMMA RectIsBack ==
  ASSUME NEW r \in IntRects
  PROVE  r = Rect(r.x, r.y, r.w, r.h)
BY DEF IntRects, Rect

LEMMA LeafIs ==
  ASSUME TreeTypes, GroupsRight, Numbered, NEW g \in Controls, NEW i \in Members(g)
  PROVE  /\ Leaf(i, g) \in NodeSet /\ Leaf(i, g).kind = "leaf" /\ Leaf(i, g).id = i
         /\ absolute_bounds(Leaf(i, g)) = Clipped(i)
<1> DEFINE b == group_bounds[g]
           c == Clipped(i)
<1>1. i \in Controls /\ controls \in [Controls -> Shapes] /\ b \in IntRects
  BY DEF Members, TreeTypes, GroupsRight
<1>2. c \in IntRects
  BY <1>1, ClippedIsRect
<1> HIDE DEF b, c
<1>3. /\ b.x \in Int /\ b.y \in Int /\ c.x \in Int /\ c.y \in Int /\ c.w \in Int /\ c.h \in Int
  BY <1>1, <1>2 DEF IntRects
<1>4. CASE Several(g)
  <2>1. PICK n : n = Node("leaf", i, Relative(c, b), g)
    OBVIOUS
  <2>2. Leaf(i, g) = n
    BY <1>4, <2>1 DEF Leaf, b, c
  <2>3. Relative(c, b) \in IntRects
    BY <1>3 DEF Relative, Rect, IntRects
  <2>4. n \in NodeSet
    BY <1>1, <2>1, <2>3 DEF NodeSet
  <2>5. n.kind = "leaf" /\ n.id = i /\ n.bounds = Relative(c, b) /\ n.container = g
    BY <2>1, NodeIs
  <2>6. Offset(n) = b
    BY <2>5, TreeSizes DEF Offset, b
  <2>7. /\ n.bounds.x = c.x - b.x /\ n.bounds.y = c.y - b.y
        /\ n.bounds.w = c.w /\ n.bounds.h = c.h
    BY <2>5 DEF Relative, Rect
  <2>8. n.bounds.x + b.x = c.x /\ n.bounds.y + b.y = c.y
    BY <1>3, <2>7
  <2>9. absolute_bounds(n) = Rect(c.x, c.y, c.w, c.h)
    BY <2>6, <2>7, <2>8 DEF absolute_bounds
  <2>10. absolute_bounds(n) = c
    BY <1>2, <2>9, RectIsBack
  <2>11. QED BY <2>2, <2>4, <2>5, <2>10 DEF c
<1>5. CASE ~ Several(g)
  <2>1. PICK n : n = Node("leaf", i, c, NO_GROUP)
    OBVIOUS
  <2>2. Leaf(i, g) = n
    BY <1>5, <2>1 DEF Leaf, c
  <2>3. n \in NodeSet
    BY <1>1, <1>2, <2>1 DEF NodeSet
  <2>4. n.kind = "leaf" /\ n.id = i /\ n.bounds = c /\ n.container = NO_GROUP
    BY <2>1, NodeIs
  <2>5. Offset(n).x = 0 /\ Offset(n).y = 0
    BY <2>4, ScreenIs DEF Offset
  <2>6. c.x + 0 = c.x /\ c.y + 0 = c.y
    BY <1>3
  <2>7. absolute_bounds(n) = Rect(c.x, c.y, c.w, c.h)
    BY <2>4, <2>5, <2>6 DEF absolute_bounds
  <2>8. absolute_bounds(n) = c
    BY <1>2, <2>7, RectIsBack
  <2>9. QED BY <2>2, <2>3, <2>4, <2>8 DEF c
<1>6. QED BY <1>4, <1>5

LEMMA ContainerIs ==
  ASSUME TreeTypes, GroupsRight, Numbered, NEW g \in Controls
  PROVE  /\ Container(g) \in Seq(NodeSet) /\ Len(Container(g)) \in Nat
         /\ \A k \in 1 .. Len(Container(g)) : GroupNode(Container(g)[k])
<1> DEFINE b == group_bounds[g]
<1>1. CASE Several(g)
  <2>1. PICK n : n = Node("group", g, b, NO_GROUP)
    OBVIOUS
  <2>2. Container(g) = <<n>>
    BY <1>1, <2>1 DEF Container
  <2>3. b \in IntRects
    BY DEF GroupsRight
  <2>4. n \in NodeSet
    BY <2>1, <2>3 DEF NodeSet
  <2>5. n.kind = "group" /\ n.id = g /\ n.bounds = b /\ n.container = NO_GROUP
    BY <2>1, NodeIs
  <2> HIDE DEF b
  <2>6. Offset(n).x = 0 /\ Offset(n).y = 0
    BY <2>5, ScreenIs DEF Offset
  <2>7. b.x + 0 = b.x /\ b.y + 0 = b.y
    BY <2>3 DEF IntRects
  <2>8. absolute_bounds(n) = Rect(b.x, b.y, b.w, b.h)
    BY <2>5, <2>6, <2>7 DEF absolute_bounds
  <2>9. absolute_bounds(n) = b
    BY <2>3, <2>8, RectIsBack
  <2>10. GroupNode(n)
    BY <1>1, <2>5, <2>9 DEF GroupNode, b
  <2>11. <<n>> \in Seq(NodeSet) /\ Len(<<n>>) = 1 /\ <<n>>[1] = n
    BY <2>4
  <2>12. \A k \in 1 .. Len(<<n>>) : <<n>>[k] = n
    BY <2>11
  <2>13. QED BY <2>2, <2>10, <2>11, <2>12
<1>2. CASE ~ Several(g)
  <2>1. Container(g) = <<>>
    BY <1>2 DEF Container
  <2>2. Len(<<>>) = 0 /\ 1 .. 0 = {}
    BY EmptySeq
  <2>3. QED BY <2>1, <2>2, EmptySeq
<1>3. QED BY <1>1, <1>2

LEMMA LeavesAre ==
  ASSUME TreeTypes, GroupsRight, Numbered, NEW g \in Controls
  PROVE  /\ Leaves(g) \in Seq(NodeSet) /\ Len(Leaves(g)) = Len(InOrder(g)) /\ Len(InOrder(g)) \in Nat
         /\ \A k \in 1 .. Len(InOrder(g)) :
              /\ InOrder(g)[k] \in Members(g) /\ Leaves(g)[k].id = InOrder(g)[k]
              /\ LeafNode(Leaves(g)[k], g + 1)
<1> DEFINE s == InOrder(g)
<1>1. s \in Seq(Controls) /\ Lists(s, Members(g))
  BY InOrderLists
<1>2. Leaves(g) = [k \in DOMAIN s |-> Leaf(s[k], g)]
  BY DEF Leaves
<1> HIDE DEF s
<1>3. DOMAIN s = 1 .. Len(s) /\ Len(s) \in Nat
  BY <1>1
<1>4. \A k \in 1 .. Len(s) : s[k] \in Members(g) /\ Leaves(g)[k] = Leaf(s[k], g)
  BY <1>1, <1>2, <1>3 DEF Lists
<1>5. \A k \in 1 .. Len(s) : /\ Leaf(s[k], g) \in NodeSet /\ Leaf(s[k], g).kind = "leaf"
                             /\ Leaf(s[k], g).id = s[k]
                             /\ absolute_bounds(Leaf(s[k], g)) = Clipped(s[k])
  BY <1>4, LeafIs
<1>6. Leaves(g) = [k \in 1 .. Len(s) |-> Leaf(s[k], g)]
  BY <1>2, <1>3
<1>7. Leaves(g) \in [1 .. Len(s) -> NodeSet]
  BY <1>5, <1>6
<1>8. Leaves(g) \in Seq(NodeSet) /\ Len(Leaves(g)) = Len(s)
  BY <1>3, <1>7
<1>9. ASSUME NEW k \in 1 .. Len(s)
      PROVE  LeafNode(Leaves(g)[k], g + 1)
  <2>1. s[k] \in Controls /\ groups[s[k]] = g
    BY <1>4 DEF Members
  <2>2. g < g + 1
    BY TreeSizes
  <2>3. QED BY <1>4, <1>5, <2>1, <2>2 DEF LeafNode
<1>10. QED BY <1>3, <1>4, <1>5, <1>8, <1>9 DEF s

LEMMA GroupIsAdded ==
  ASSUME TreeTypes, GroupsRight, Numbered, NEW g \in Controls, NEW ns, TreeOf(ns, g)
  PROVE  TreeOf(ns \o Container(g) \o Leaves(g), g + 1)
<1>1. PICK c, s, o : c = Container(g) /\ s = Leaves(g) /\ o = InOrder(g)
  OBVIOUS
<1>2. /\ c \in Seq(NodeSet) /\ Len(c) \in Nat /\ \A k \in 1 .. Len(c) : GroupNode(c[k])
      /\ s \in Seq(NodeSet) /\ Len(s) = Len(o) /\ Len(o) \in Nat /\ Lists(o, Members(g))
      /\ \A k \in 1 .. Len(s) : s[k].id = o[k] /\ LeafNode(s[k], g + 1) /\ o[k] \in Members(g)
  BY <1>1, ContainerIs, LeavesAre, InOrderLists
<1>3. ns \in Seq(NodeSet) /\ Len(ns) \in Nat /\ g \in Nat
  BY TreeSizes DEF TreeOf
<1>4. PICK first : first = ns \o c
  OBVIOUS
<1>5. PICK all : all = first \o s
  OBVIOUS
<1>6. /\ first \in Seq(NodeSet) /\ Len(first) = Len(ns) + Len(c) /\ Len(first) \in Nat
      /\ \A k \in 1 .. Len(ns) + Len(c) :
           first[k] = IF k <= Len(ns) THEN ns[k] ELSE c[k - Len(ns)]
  BY <1>2, <1>3, <1>4, ConcatProperties
<1>7. /\ all \in Seq(NodeSet) /\ Len(all) = Len(first) + Len(s)
      /\ \A k \in 1 .. Len(first) + Len(s) :
           all[k] = IF k <= Len(first) THEN first[k] ELSE s[k - Len(first)]
  BY <1>2, <1>5, <1>6, ConcatProperties
<1> DEFINE L == Len(ns)
           M == Len(first)
<1>8. ASSUME NEW k \in 1 .. Len(all)
      PROVE  \/ k \in 1 .. L /\ all[k] = ns[k]
             \/ k \in L + 1 .. M /\ GroupNode(all[k])
             \/ k \in M + 1 .. Len(all) /\ k - M \in 1 .. Len(s) /\ all[k] = s[k - M]
  <2>1. CASE k <= L
    <3>1. k \in 1 .. L /\ k <= M /\ k \in 1 .. L + Len(c) /\ k \in 1 .. M + Len(s)
      BY <1>2, <1>3, <1>6, <1>7, <2>1
    <3>2. all[k] = ns[k]
      BY <1>6, <1>7, <2>1, <3>1
    <3>3. QED BY <3>1, <3>2
  <2>2. CASE k > L /\ k <= M
    <3>1. /\ k \in L + 1 .. M /\ k \in 1 .. L + Len(c) /\ k \in 1 .. M + Len(s)
          /\ k - L \in 1 .. Len(c) /\ ~ (k <= L)
      BY <1>2, <1>3, <1>6, <1>7, <2>2
    <3>2. all[k] = c[k - L]
      BY <1>6, <1>7, <2>2, <3>1
    <3>3. QED BY <1>2, <3>1, <3>2
  <2>3. CASE k > M
    <3>1. /\ k \in M + 1 .. Len(all) /\ k \in 1 .. M + Len(s) /\ k - M \in 1 .. Len(s)
          /\ ~ (k <= M)
      BY <1>2, <1>3, <1>6, <1>7, <2>3
    <3>2. all[k] = s[k - M]
      BY <1>7, <3>1
    <3>3. QED BY <3>1, <3>2
  <2>4. QED BY <1>3, <1>6, <2>1, <2>2, <2>3
<1>9. /\ \A k \in 1 .. L : k \in 1 .. Len(all) /\ all[k] = ns[k]
      /\ \A k \in 1 .. Len(s) : k + M \in 1 .. Len(all) /\ all[k + M] = s[k]
  <2>1. ASSUME NEW k \in 1 .. L PROVE k \in 1 .. Len(all) /\ all[k] = ns[k]
    <3>1. /\ k \in 1 .. Len(all) /\ ~ (k \in L + 1 .. M)
          /\ ~ (k \in M + 1 .. Len(all))
      BY <1>2, <1>3, <1>6, <1>7
    <3>2. QED BY <1>8, <3>1
  <2>2. ASSUME NEW k \in 1 .. Len(s) PROVE k + M \in 1 .. Len(all) /\ all[k + M] = s[k]
    <3>1. /\ k + M \in 1 .. Len(all) /\ ~ (k + M \in 1 .. L) /\ ~ (k + M \in L + 1 .. M)
          /\ (k + M) - M = k
      BY <1>2, <1>3, <1>6, <1>7
    <3>2. QED BY <1>8, <3>1
  <2>3. QED BY <2>1, <2>2
<1>10. L \in Nat /\ M \in Nat /\ L <= M
  BY <1>2, <1>3, <1>6
<1> HIDE DEF L, M
<1>11. ASSUME NEW k \in 1 .. L
       PROVE  (LeafNode(ns[k], g) \/ GroupNode(ns[k])) /\ (LeafNode(ns[k], g) => LeafNode(ns[k], g + 1))
  <2>1. LeafNode(ns[k], g) \/ GroupNode(ns[k])
    BY DEF TreeOf, L
  <2>2. LeafNode(ns[k], g) => LeafNode(ns[k], g + 1)
    <3>1. \A i \in Nat : i < g => i < g + 1
      BY <1>3
    <3>2. QED BY <3>1, TreeSizes DEF LeafNode
  <2>3. QED BY <2>1, <2>2
<1>12. \A k \in 1 .. Len(all) : LeafNode(all[k], g + 1) \/ GroupNode(all[k])
  BY <1>2, <1>8, <1>11
<1>13. \A n : GroupNode(n) => n.kind # "leaf"
  BY DEF GroupNode
<1>14. ASSUME NEW k \in 1 .. Len(all), NEW l \in 1 .. Len(all),
              k < l, all[k].kind = "leaf", all[l].kind = "leaf",
              groups[all[k].id] = groups[all[l].id]
       PROVE  all[k].id < all[l].id
  <2>1. /\ (k \in 1 .. L /\ all[k] = ns[k]) \/ (k - M \in 1 .. Len(s) /\ all[k] = s[k - M] /\ k > M)
        /\ (l \in 1 .. L /\ all[l] = ns[l]) \/ (l - M \in 1 .. Len(s) /\ all[l] = s[l - M] /\ l > M)
    <3>1. \A n \in 1 .. Len(all) : n \in M + 1 .. Len(all) => n > M
      BY <1>10
    <3>2. QED BY <1>8, <1>13, <1>14, <3>1
  <2>2. CASE k \in 1 .. L /\ all[k] = ns[k] /\ l \in 1 .. L /\ all[l] = ns[l]
    BY <1>14, <2>2 DEF TreeOf, L
  <2>3. CASE k \in 1 .. L /\ all[k] = ns[k] /\ l - M \in 1 .. Len(s) /\ all[l] = s[l - M]
    <3>1. LeafNode(ns[k], g)
      BY <1>11, <1>13, <1>14, <2>3
    <3>2. groups[all[l].id] = g
      BY <1>2, <2>3 DEF Members
    <3>3. groups[all[k].id] < g
      BY <2>3, <3>1 DEF LeafNode
    <3>4. QED BY <1>3, <1>14, <3>2, <3>3
  <2>4. CASE k > M /\ l \in 1 .. L
    BY <1>10, <1>14, <2>4
  <2>5. CASE k - M \in 1 .. Len(s) /\ all[k] = s[k - M] /\ l - M \in 1 .. Len(s) /\ all[l] = s[l - M]
    <3>1. k - M < l - M
      BY <1>10, <1>14
    <3>2. o[k - M] < o[l - M]
      BY <1>2, <2>5, <3>1 DEF Lists
    <3>3. QED BY <1>2, <2>5, <3>2
  <2>6. QED BY <2>1, <2>2, <2>3, <2>4, <2>5
<1>15. ASSUME NEW i \in Controls, groups[i] \in Controls, groups[i] < g + 1
       PROVE  \E k \in 1 .. Len(all) : all[k].kind = "leaf" /\ all[k].id = i
  <2>1. groups[i] \in Nat
    BY <1>15, TreeSizes
  <2>2. groups[i] < g \/ groups[i] = g
    BY <1>3, <1>15, <2>1
  <2>3. CASE groups[i] < g
    <3>1. PICK k \in 1 .. L : ns[k].kind = "leaf" /\ ns[k].id = i
      BY <1>15, <2>3 DEF TreeOf, L
    <3>2. QED BY <1>9, <3>1
  <2>4. CASE groups[i] = g
    <3>1. PICK k \in 1 .. Len(s) : o[k] = i
      BY <1>2, <2>4 DEF Lists, Members
    <3>2. s[k].id = i /\ s[k].kind = "leaf"
      BY <1>2, <3>1 DEF LeafNode
    <3>3. QED BY <1>9, <3>2
  <2>5. QED BY <2>2, <2>3, <2>4
<1>16. TreeOf(all, g + 1)
  BY <1>7, <1>12, <1>14, <1>15 DEF TreeOf
<1>17. QED BY <1>1, <1>4, <1>5, <1>16

-----------------------------------------------------------------------------
(* Painting.                                                                *)

PaintRound(p, s, k) ==
  IF nodes[k].kind = "leaf" /\ p \in PixelsOf(absolute_bounds(nodes[k]))
  THEN nodes[k].id ELSE s

AllPainted(p) ==
  LET seen[k \in 0 .. Len(nodes)] ==
        IF k = 0 THEN tree_pixels[p] ELSE PaintRound(p, seen[k - 1], k)
  IN  seen

Nothing == Controls \union {-1}

LEMMA PaintRun ==
  ASSUME TreeOf(nodes, COUNT), NEW p, tree_pixels[p] \in Nothing
  PROVE  \E seen \in [0 .. Len(nodes) -> Nothing] :
           /\ seen[0] = tree_pixels[p]
           /\ \A k \in 1 .. Len(nodes) : seen[k] = PaintRound(p, seen[k - 1], k)
           /\ seen[Len(nodes)] = Painted(p)
<1>1. PICK f : f = [q \in Nothing \X (1 .. Len(nodes)) |-> PaintRound(p, q[1], q[2])]
  OBVIOUS
<1>2. PICK c, m : c = tree_pixels[p] /\ m = Len(nodes)
  OBVIOUS
<1>3. m \in Nat /\ c \in Nothing
  BY <1>2 DEF TreeOf
<1>4. \A s \in Nothing : \A k \in 1 .. m : PaintRound(p, s, k) \in Nothing
  BY <1>2 DEF PaintRound, TreeOf, LeafNode, GroupNode, Nothing
<1>5. PICK h : LoopOf(h, m, Nothing, c, f)
  <2>1. RoundOf(f, m, Nothing)
    BY <1>1, <1>2, <1>4 DEF RoundOf
  <2>2. QED BY ONLY <1>3, <2>1, LoopHasResult
<1>6. /\ h \in [0 .. m -> Nothing] /\ h[0] = c
      /\ \A k \in 1 .. m : h[k] = f[<<h[k - 1], k>>]
  BY <1>5 DEF LoopOf
<1>7. \A k \in 1 .. m : h[k] = PaintRound(p, h[k - 1], k)
  <2>1. ASSUME NEW k \in 1 .. m PROVE h[k] = PaintRound(p, h[k - 1], k)
    <3>1. k - 1 \in 0 .. m /\ h[k - 1] \in Nothing
      BY <1>3, <1>6
    <3>2. /\ <<h[k - 1], k>> \in Nothing \X (1 .. m)
          /\ <<h[k - 1], k>>[1] = h[k - 1] /\ <<h[k - 1], k>>[2] = k
      BY <3>1
    <3>3. f[<<h[k - 1], k>>] = PaintRound(p, h[k - 1], k)
      BY <1>1, <1>2, <3>2
    <3>4. QED BY <1>6, <3>3
  <2>2. QED BY <2>1
<1>8. h = [k \in 0 .. m |-> IF k = 0 THEN c ELSE PaintRound(p, h[k - 1], k)]
  <2>1. ASSUME NEW k \in 0 .. m
        PROVE  h[k] = IF k = 0 THEN c ELSE PaintRound(p, h[k - 1], k)
    <3>1. k = 0 \/ k \in 1 .. m
      BY <1>3
    <3>2. QED BY <1>6, <1>7, <3>1
  <2>2. QED BY <1>6, <2>1
<1>9. PICK seen : seen = AllPainted(p)
  OBVIOUS
<1>10. seen = [k \in 0 .. m |-> IF k = 0 THEN c ELSE PaintRound(p, seen[k - 1], k)]
  BY <1>2, <1>8, <1>9 DEF AllPainted
<1>11. seen[0] = c /\ \A k \in 1 .. m : seen[k] = PaintRound(p, seen[k - 1], k)
  <2>1. 0 \in 0 .. m /\ \A k \in 1 .. m : k \in 0 .. m /\ k # 0
    BY <1>3
  <2>2. seen[0] = c
    BY <1>10, <2>1
  <2>3. ASSUME NEW k \in 1 .. m PROVE seen[k] = PaintRound(p, seen[k - 1], k)
    BY <1>10, <2>1
  <2>4. QED BY <2>2, <2>3
<1>12. seen \in [0 .. m -> Nothing]
  <2> DEFINE good == {k \in 0 .. m : seen[k] \in Nothing}
  <2>1. 0 \in good
    BY <1>3, <1>11
  <2>2. ASSUME NEW k \in 1 .. m, k - 1 \in good
        PROVE  k \in good
    BY <1>4, <1>11, <2>2
  <2> HIDE DEF good
  <2>3. \A k \in 0 .. m : k \in good
    BY <1>3, <2>1, <2>2, AllUpTo
  <2>4. \A k \in 0 .. m : seen[k] \in Nothing
    BY <2>3 DEF good
  <2>5. QED BY <1>10, <2>4
<1>13. seen[Len(nodes)] = Painted(p)
  BY <1>9 DEF Painted, AllPainted, PaintRound
<1>14. QED BY <1>2, <1>11, <1>12, <1>13

(* What is seen is the topmost control, although groups are painted one     *)
(* after the other: controls that overlap are in one group.                 *)
LEMMA TopmostIsSeen ==
  ASSUME TreeTypes, GroupsRight, Numbered, TreeOf(nodes, COUNT), NEW p, tree_pixels[p] = -1
  PROVE  /\ Painted(p) \in {i \in Controls : p \in OnScreen(i)} \union {-1}
         /\ Painted(p) = Max({i \in Controls : p \in OnScreen(i)} \union {-1})
<1>1. tree_pixels[p] \in Nothing
  BY DEF Nothing
<1>2. PICK seen \in [0 .. Len(nodes) -> Nothing] :
           /\ seen[0] = tree_pixels[p]
           /\ \A k \in 1 .. Len(nodes) : seen[k] = PaintRound(p, seen[k - 1], k)
           /\ seen[Len(nodes)] = Painted(p)
  BY <1>1, PaintRun
<1>3. Len(nodes) \in Nat /\ controls \in [Controls -> Shapes]
  BY DEF TreeOf, TreeTypes
<1> DEFINE covers(k) == nodes[k].kind = "leaf" /\ p \in PixelsOf(absolute_bounds(nodes[k]))
           top(n) == \/ seen[n] = -1 /\ \A k \in 1 .. n : ~ covers(k)
                     \/ /\ \E k \in 1 .. n : covers(k) /\ seen[n] = nodes[k].id
                        /\ \A k \in 1 .. n : covers(k) => nodes[k].id <= seen[n]
           good == {n \in 0 .. Len(nodes) : top(n)}
<1>4. ASSUME NEW k \in 1 .. Len(nodes), covers(k)
      PROVE  nodes[k].id \in Controls /\ nodes[k].id \in Nat /\ p \in OnScreen(nodes[k].id)
  <2>1. LeafNode(nodes[k], COUNT)
    BY <1>4 DEF TreeOf, GroupNode
  <2>2. nodes[k].id \in Controls /\ p \in PixelsOf(Clipped(nodes[k].id))
    BY <1>4, <2>1 DEF LeafNode
  <2>3. QED BY <1>3, <2>2, ClippedIs, TreeSizes
<1>5. ASSUME NEW k \in 1 .. Len(nodes), NEW l \in 1 .. Len(nodes), k < l, covers(k), covers(l)
      PROVE  nodes[k].id < nodes[l].id
  <2>1. groups[nodes[k].id] = groups[nodes[l].id]
    BY <1>4, <1>5, GroupsMean
  <2>2. QED BY <1>5, <2>1 DEF TreeOf
<1>6. \A k \in 1 .. Len(nodes) : seen[k] = IF covers(k) THEN nodes[k].id ELSE seen[k - 1]
  BY <1>2 DEF PaintRound
<1> HIDE DEF covers
<1>7. 0 \in good
  BY <1>2, <1>3
<1>8. ASSUME NEW n \in 1 .. Len(nodes), n - 1 \in good
      PROVE  n \in good
  <2>1. n \in 0 .. Len(nodes) /\ top(n - 1)
    BY <1>3, <1>8
  <2>2. /\ \A k \in 1 .. n : k \in 1 .. Len(nodes) /\ (k \in 1 .. n - 1 \/ k = n)
        /\ \A k \in 1 .. n - 1 : k \in 1 .. n /\ k < n /\ k \in 1 .. Len(nodes)
        /\ n \in 1 .. n
    BY <1>3
  <2>3. CASE covers(n)
    <3>1. seen[n] = nodes[n].id
      BY <1>6, <2>3
    <3>2. \A k \in 1 .. n : covers(k) => nodes[k].id <= seen[n]
      <4>1. ASSUME NEW k \in 1 .. n, covers(k) PROVE nodes[k].id <= seen[n]
        <5>1. CASE k = n
          <6>1. nodes[n].id \in Nat
            BY <1>4, <2>3
          <6>2. QED BY <3>1, <5>1, <6>1
        <5>2. CASE k \in 1 .. n - 1
          <6>1. nodes[k].id < nodes[n].id /\ nodes[k].id \in Nat /\ nodes[n].id \in Nat
            BY <1>4, <1>5, <2>2, <2>3, <4>1, <5>2
          <6>2. QED BY <3>1, <6>1
        <5>3. QED BY <2>2, <5>1, <5>2
      <4>2. QED BY <4>1
    <3>3. QED BY <2>1, <2>2, <2>3, <3>1, <3>2
  <2>4. CASE ~ covers(n)
    <3>1. seen[n] = seen[n - 1]
      BY <1>6, <2>4
    <3>2. \A k \in 1 .. n : covers(k) => k \in 1 .. n - 1
      BY <2>2, <2>4
    <3>3. top(n)
      BY <2>1, <2>2, <3>1, <3>2
    <3>4. QED BY <2>1, <3>3
  <2>5. QED BY <2>3, <2>4
<1>9. Len(nodes) \in good
  <2> HIDE DEF good
  <2>1. QED BY <1>3, <1>7, <1>8, UpwardsTo
<1>10. top(Len(nodes))
  BY <1>9
<1>11. PICK m, S : m = Painted(p) /\ S = {i \in Controls : p \in OnScreen(i)} \union {-1}
  OBVIOUS
<1>12. m = seen[Len(nodes)] /\ m \in Nothing
  BY <1>2, <1>3, <1>11
<1>13. \A i \in Controls : p \in OnScreen(i) =>
         \E k \in 1 .. Len(nodes) : covers(k) /\ nodes[k].id = i
  <2> SUFFICES ASSUME NEW i \in Controls, p \in OnScreen(i)
               PROVE  \E k \in 1 .. Len(nodes) : covers(k) /\ nodes[k].id = i
    OBVIOUS
  <2>1. groups[i] \in Controls
    BY GroupsMean
  <2>2. groups[i] < COUNT
    BY <2>1, TreeSizes DEF Controls
  <2>3. PICK k \in 1 .. Len(nodes) : nodes[k].kind = "leaf" /\ nodes[k].id = i
    BY <2>1, <2>2 DEF TreeOf
  <2>4. LeafNode(nodes[k], COUNT)
    BY <2>3 DEF TreeOf, GroupNode
  <2>5. p \in PixelsOf(absolute_bounds(nodes[k]))
    BY <1>3, <2>3, <2>4, ClippedIs DEF LeafNode
  <2>6. QED BY <2>3, <2>5 DEF covers
<1>14. S \in SUBSET Int /\ m \in S /\ \A k \in S : m >= k
  <2>1. S \in SUBSET Int
    BY <1>11, TreeSizes
  <2>2. m \in S
    BY <1>4, <1>10, <1>11, <1>12
  <2>3. ASSUME NEW i \in S PROVE m >= i
    <3>1. m \in Int /\ m >= -1
      BY <1>12, TreeSizes DEF Nothing
    <3>2. CASE i = -1
      BY <3>1, <3>2
    <3>3. CASE i \in Controls /\ p \in OnScreen(i)
      <4>1. PICK k \in 1 .. Len(nodes) : covers(k) /\ nodes[k].id = i
        BY <1>13, <3>3
      <4>2. i <= m
        BY <1>10, <1>12, <4>1
      <4>3. QED BY <2>1, <3>1, <4>2
    <3>4. QED BY <1>11, <3>2, <3>3
  <2>4. QED BY <2>1, <2>2, <2>3
<1>15. m = Max(S)
  BY <1>14, MaxIs
<1>16. QED BY <1>11, <1>14, <1>15

-----------------------------------------------------------------------------
(* The dirty rectangle.                                                     *)

DirtyRound(kind, a, k) ==
  IF nodes[k].kind = kind THEN MarkDirty(a, absolute_bounds(nodes[k])) ELSE a

AllDirtied(kind) ==
  LET area[k \in 0 .. Len(nodes)] ==
        IF k = 0 THEN tree_dirty ELSE DirtyRound(kind, area[k - 1], k)
  IN  area

LEMMA NodesAreRects ==
  ASSUME TreeTypes, GroupsRight, TreeOf(nodes, COUNT), NEW k \in 1 .. Len(nodes)
  PROVE  absolute_bounds(nodes[k]) \in IntRects
<1>1. controls \in [Controls -> Shapes] /\ group_bounds \in [Controls -> IntRects]
  BY DEF TreeTypes, GroupsRight
<1>2. LeafNode(nodes[k], COUNT) \/ GroupNode(nodes[k])
  BY DEF TreeOf
<1>3. CASE LeafNode(nodes[k], COUNT)
  BY <1>1, <1>3, ClippedIsRect DEF LeafNode
<1>4. CASE GroupNode(nodes[k])
  BY <1>1, <1>4 DEF GroupNode
<1>5. QED BY <1>2, <1>3, <1>4

(* Marking keeps what is marked, and adds the part on the screen.           *)
LEMMA MarkKeeps ==
  ASSUME NEW a \in IntRects, NEW b \in IntRects
  PROVE  /\ MarkDirty(a, b) \in IntRects /\ PixelsOf(a) \subseteq PixelsOf(MarkDirty(a, b))
         /\ PixelsOf(b) \intersect TreePixels \subseteq PixelsOf(MarkDirty(a, b))
<1>1. IntRect(a) /\ IntRect(b)
  BY DEF IntRect, IntRects
<1>2. PICK c : c = ui_rect_intersection(b, root_bounds)
  OBVIOUS
<1>3. /\ c \in [x : Int, y : Int, w : Nat, h : Nat]
      /\ PixelsOf(c) = PixelsOf(b) \intersect PixelsOf(root_bounds)
  BY <1>1, <1>2, ScreenIs, IntersectionIs
<1>4. c \in IntRects /\ IntRect(c)
  BY <1>3 DEF IntRects, IntRect
<1>5. MarkDirty(a, b) = ui_rect_union(a, c)
  BY <1>2 DEF MarkDirty
<1>6. /\ ui_rect_union(a, c) \in IntRects
      /\ PixelsOf(a) \subseteq PixelsOf(ui_rect_union(a, c))
      /\ PixelsOf(c) \subseteq PixelsOf(ui_rect_union(a, c))
  BY <1>1, <1>4, UnionIsRect, UnionCovers
<1>7. QED BY <1>3, <1>5, <1>6 DEF TreePixels

LEMMA DirtyRun ==
  ASSUME TreeTypes, GroupsRight, TreeOf(nodes, COUNT), tree_dirty \in IntRects, NEW kind
  PROVE  \E area \in [0 .. Len(nodes) -> IntRects] :
           /\ area[0] = tree_dirty
           /\ \A k \in 1 .. Len(nodes) : area[k] = DirtyRound(kind, area[k - 1], k)
           /\ area[Len(nodes)] = DirtiedBy(kind)
<1>1. PICK f : f = [q \in IntRects \X (1 .. Len(nodes)) |-> DirtyRound(kind, q[1], q[2])]
  OBVIOUS
<1>2. PICK c, m : c = tree_dirty /\ m = Len(nodes)
  OBVIOUS
<1>3. m \in Nat /\ c \in IntRects
  BY <1>2 DEF TreeOf
<1>4. \A s \in IntRects : \A k \in 1 .. m : DirtyRound(kind, s, k) \in IntRects
  BY <1>2, NodesAreRects, MarkKeeps DEF DirtyRound
<1>5. PICK h : LoopOf(h, m, IntRects, c, f)
  <2>1. RoundOf(f, m, IntRects)
    BY <1>1, <1>2, <1>4 DEF RoundOf
  <2>2. QED BY ONLY <1>3, <2>1, LoopHasResult
<1>6. /\ h \in [0 .. m -> IntRects] /\ h[0] = c
      /\ \A k \in 1 .. m : h[k] = f[<<h[k - 1], k>>]
  BY <1>5 DEF LoopOf
<1>7. \A k \in 1 .. m : h[k] = DirtyRound(kind, h[k - 1], k)
  <2>1. ASSUME NEW k \in 1 .. m PROVE h[k] = DirtyRound(kind, h[k - 1], k)
    <3>1. k - 1 \in 0 .. m /\ h[k - 1] \in IntRects
      BY <1>3, <1>6
    <3>2. /\ <<h[k - 1], k>> \in IntRects \X (1 .. m)
          /\ <<h[k - 1], k>>[1] = h[k - 1] /\ <<h[k - 1], k>>[2] = k
      BY <3>1
    <3>3. f[<<h[k - 1], k>>] = DirtyRound(kind, h[k - 1], k)
      BY <1>1, <1>2, <3>2
    <3>4. QED BY <1>6, <3>3
  <2>2. QED BY <2>1
<1>8. h = [k \in 0 .. m |-> IF k = 0 THEN c ELSE DirtyRound(kind, h[k - 1], k)]
  <2>1. ASSUME NEW k \in 0 .. m
        PROVE  h[k] = IF k = 0 THEN c ELSE DirtyRound(kind, h[k - 1], k)
    <3>1. k = 0 \/ k \in 1 .. m
      BY <1>3
    <3>2. QED BY <1>6, <1>7, <3>1
  <2>2. QED BY <1>6, <2>1
<1>9. PICK area : area = AllDirtied(kind)
  OBVIOUS
<1>10. area = [k \in 0 .. m |-> IF k = 0 THEN c ELSE DirtyRound(kind, area[k - 1], k)]
  BY <1>2, <1>8, <1>9 DEF AllDirtied
<1>11. area[0] = c /\ \A k \in 1 .. m : area[k] = DirtyRound(kind, area[k - 1], k)
  <2>1. 0 \in 0 .. m /\ \A k \in 1 .. m : k \in 0 .. m /\ k # 0
    BY <1>3
  <2>2. area[0] = c
    BY <1>10, <2>1
  <2>3. ASSUME NEW k \in 1 .. m PROVE area[k] = DirtyRound(kind, area[k - 1], k)
    BY <1>10, <2>1
  <2>4. QED BY <2>2, <2>3
<1>12. area \in [0 .. m -> IntRects]
  <2> DEFINE good == {k \in 0 .. m : area[k] \in IntRects}
  <2>1. 0 \in good
    BY <1>3, <1>11
  <2>2. ASSUME NEW k \in 1 .. m, k - 1 \in good
        PROVE  k \in good
    BY <1>4, <1>11, <2>2
  <2> HIDE DEF good
  <2>3. \A k \in 0 .. m : k \in good
    BY <1>3, <2>1, <2>2, AllUpTo
  <2>4. \A k \in 0 .. m : area[k] \in IntRects
    BY <2>3 DEF good
  <2>5. QED BY <1>10, <2>4
<1>13. area[Len(nodes)] = DirtiedBy(kind)
  BY <1>9 DEF DirtiedBy, AllDirtied, DirtyRound
<1>14. QED BY <1>2, <1>11, <1>12, <1>13

LEMMA DirtyCovers ==
  ASSUME TreeTypes, GroupsRight, TreeOf(nodes, COUNT), tree_dirty \in IntRects, NEW kind
  PROVE  /\ DirtiedBy(kind) \in IntRects
         /\ PixelsOf(tree_dirty) \subseteq PixelsOf(DirtiedBy(kind))
         /\ \A k \in 1 .. Len(nodes) : nodes[k].kind = kind =>
              PixelsOf(absolute_bounds(nodes[k])) \intersect TreePixels
                \subseteq PixelsOf(DirtiedBy(kind))
<1>1. PICK area \in [0 .. Len(nodes) -> IntRects] :
           /\ area[0] = tree_dirty
           /\ \A k \in 1 .. Len(nodes) : area[k] = DirtyRound(kind, area[k - 1], k)
           /\ area[Len(nodes)] = DirtiedBy(kind)
  BY DirtyRun
<1>2. Len(nodes) \in Nat
  BY DEF TreeOf
<1> DEFINE part(k) == PixelsOf(absolute_bounds(nodes[k])) \intersect TreePixels
           marked(n) == /\ PixelsOf(tree_dirty) \subseteq PixelsOf(area[n])
                        /\ \A k \in 1 .. n : nodes[k].kind = kind => part(k) \subseteq PixelsOf(area[n])
           good == {n \in 0 .. Len(nodes) : marked(n)}
<1>3. 0 \in good
  BY <1>1, <1>2
<1>4. ASSUME NEW n \in 1 .. Len(nodes), n - 1 \in good
      PROVE  n \in good
  <2>1. n \in 0 .. Len(nodes) /\ marked(n - 1)
    BY <1>2, <1>4
  <2>2. area[n] = DirtyRound(kind, area[n - 1], n) /\ area[n - 1] \in IntRects
    BY <1>1, <1>2
  <2>3. \A k \in 1 .. n : k \in 1 .. n - 1 \/ k = n
    OBVIOUS
  <2>4. CASE nodes[n].kind = kind
    <3>1. area[n] = MarkDirty(area[n - 1], absolute_bounds(nodes[n]))
      BY <2>2, <2>4 DEF DirtyRound
    <3>2. absolute_bounds(nodes[n]) \in IntRects
      BY NodesAreRects
    <3>3. PixelsOf(area[n - 1]) \subseteq PixelsOf(area[n]) /\ part(n) \subseteq PixelsOf(area[n])
      BY <2>2, <3>1, <3>2, MarkKeeps
    <3> HIDE DEF part
    <3>4. marked(n)
      BY <2>1, <2>3, <3>3
    <3>5. QED BY <2>1, <3>4
  <2>5. CASE nodes[n].kind # kind
    <3>1. area[n] = area[n - 1]
      BY <2>2, <2>5 DEF DirtyRound
    <3> HIDE DEF part
    <3>2. marked(n)
      BY <2>1, <2>3, <2>5, <3>1
    <3>3. QED BY <2>1, <3>2
  <2>6. QED BY <2>4, <2>5
<1>5. Len(nodes) \in good
  <2> HIDE DEF good
  <2>1. QED BY <1>2, <1>3, <1>4, UpwardsTo
<1>6. marked(Len(nodes)) /\ Len(nodes) \in 0 .. Len(nodes)
  BY <1>2, <1>5
<1>7. QED BY <1>1, <1>6

-----------------------------------------------------------------------------
(* The invariant of a frame.                                                *)

PictureRight ==
  /\ tree_pixels \in [TreePixels -> -1 .. Outline] /\ tree_dirty \in IntRects
  /\ tree_phase \notin {"outline", "done"} => \A p \in TreePixels : tree_pixels[p] = -1
  /\ tree_phase # "done" => \A p \in TreePixels : tree_pixels[p] \in Nothing
  /\ GroupingInvisible /\ DirtyCoversFrame /\ OutlinesAreGroups

TreeInv ==
  /\ TreeTypes /\ UnionFind /\ GroupsRight /\ TreeRight /\ PictureRight
  /\ tree_phase # "refused"

LEMMA GroupsStay ==
  ASSUME GroupsRight, UNCHANGED <<arguments, numbering>>, Numbered' => Numbered
  PROVE  GroupsRight'
<1>1. controls' = controls /\ threshold' = threshold /\ groups' = groups /\ group_bounds' = group_bounds
  BY DEF arguments, numbering
<1>2. \A i : OnScreen(i)' = OnScreen(i)
  BY <1>1 DEF OnScreen
<1>3. \A i : ComponentOf(i)' = ComponentOf(i)
  BY <1>1, ComponentIs, ComponentIsNext
<1>4. GroupsAreComponents'
  BY <1>1, <1>2, <1>3 DEF GroupsRight, GroupsAreComponents
<1>5. Numbered' => \A g \in Controls :
        Holds(group_bounds'[g], (UNION {OnScreen(i) : i \in Members(g)})')
  <2>1. \A g \in Controls :
          (UNION {OnScreen(i) : i \in Members(g)})' = UNION {OnScreen(i) : i \in Members(g)}
    BY <1>1, <1>2 DEF Members
  <2>2. QED BY <1>1, <2>1 DEF GroupsRight
<1>6. QED BY <1>1, <1>4, <1>5 DEF GroupsRight

LEMMA TreeOfStays ==
  ASSUME UNCHANGED <<arguments, numbering>>, NEW ns, NEW upto, TreeOf(ns, upto)
  PROVE  TreeOf(ns, upto)'
<1>1. controls' = controls /\ groups' = groups /\ group_bounds' = group_bounds
  BY DEF arguments, numbering
<1>2. \A i : Clipped(i)' = Clipped(i)
  BY <1>1 DEF Clipped
<1>3. \A n : absolute_bounds(n)' = absolute_bounds(n)
  BY <1>1 DEF absolute_bounds, Offset
<1>4. \A g : Several(g)' = Several(g)
  BY <1>1 DEF Several, Members
<1>5. \A n : /\ LeafNode(n, upto) => LeafNode(n, upto)'
             /\ GroupNode(n) => GroupNode(n)'
  BY <1>1, <1>2, <1>3, <1>4 DEF LeafNode, GroupNode
<1>6. QED BY <1>1, <1>5 DEF TreeOf

LEMMA PictureStays ==
  ASSUME PictureRight, UNCHANGED tree_surface,
         tree_phase \notin {"outline", "done"}, tree_phase' \notin {"outline", "done"}
  PROVE  PictureRight'
<1>1. /\ tree_pixels' = tree_pixels /\ tree_dirty' = tree_dirty
      /\ \A p \in TreePixels : tree_pixels[p] = -1
  BY DEF tree_surface, PictureRight
<1>2. -1 \in Nothing /\ Outline # -1
  BY TreeSizes DEF Nothing, Outline
<1>3. GroupingInvisible' /\ DirtyCoversFrame' /\ OutlinesAreGroups'
  BY <1>1, <1>2 DEF GroupingInvisible, DirtyCoversFrame, OutlinesAreGroups
<1>4. QED BY <1>1, <1>2, <1>3 DEF PictureRight

LEMMA TreeInvInit ==
  ASSUME TreeInit
  PROVE  TreeInv
<1>1. /\ tree_phase = "pairs" /\ groups = [i \in Controls |-> NO_GROUP]
      /\ group_bounds = [g \in Controls |-> NoRect] /\ group = 0 /\ nodes = <<>>
      /\ tree_pixels = [p \in TreePixels |-> -1] /\ tree_dirty = NoRect
  BY DEF TreeInit
<1>2. TreeTypes /\ UnionFind
  BY UnionFindInit
<1>3. NoRect \in IntRects
  BY DEF NoRect, Rect, IntRects
<1>4. ~ Numbered
  BY <1>1 DEF Numbered
<1>5. GroupsRight
  BY <1>1, <1>3, <1>4 DEF GroupsRight, GroupsAreComponents
<1>6. TreeRight
  BY <1>1, <1>4, TreeSizes DEF TreeRight
<1>7. -1 \in Nothing /\ Outline # -1 /\ -1 \in -1 .. Outline
  BY TreeSizes DEF Nothing, Outline
<1>8. tree_pixels \in [TreePixels -> -1 .. Outline] /\ \A p \in TreePixels : tree_pixels[p] = -1
  BY <1>1, <1>7
<1>9. GroupingInvisible /\ DirtyCoversFrame /\ OutlinesAreGroups
  BY <1>1, <1>7, <1>8 DEF GroupingInvisible, DirtyCoversFrame, OutlinesAreGroups
<1>10. PictureRight
  BY <1>1, <1>3, <1>7, <1>8, <1>9 DEF PictureRight
<1>11. QED BY <1>1, <1>2, <1>5, <1>6, <1>10 DEF TreeInv

LEMMA ForestStays ==
  ASSUME TreeTypes, UnionFind, UNCHANGED <<arguments, pair, parents>>,
         tree_phase' \in {"build", "render", "outline", "done", "failed"}
  PROVE  TreeTypes' /\ UnionFind'
<1>1. /\ controls' = controls /\ threshold' = threshold /\ pair' = pair /\ parents' = parents
      /\ tree_phase' \notin {"pairs", "number"}
  BY DEF arguments
<1>2. TreeTypes'
  BY <1>1 DEF TreeTypes
<1>3. UnionFind'
  BY <1>1 DEF UnionFind, Looping
<1>4. QED BY <1>2, <1>3

LEMMA PairStep ==
  ASSUME TreeInv, ComparePair
  PROVE  TreeInv'
<1>1. /\ tree_phase = "pairs" /\ tree_phase' \in {"pairs", "number"}
      /\ UNCHANGED <<arguments, numbering, group, nodes, tree_surface>>
  BY DEF ComparePair
<1>2. TreeTypes' /\ UnionFind'
  BY PairsAreCompared DEF TreeInv
<1>3. Looping /\ ~ Numbered'
  BY <1>1 DEF Looping, Numbered
<1>4. GroupsRight'
  BY <1>1, <1>3, GroupsStay DEF TreeInv
<1>5. TreeRight'
  BY <1>1, <1>3 DEF TreeInv, TreeRight
<1>6. PictureRight'
  BY <1>1, PictureStays DEF TreeInv
<1>7. QED BY <1>1, <1>2, <1>4, <1>5, <1>6 DEF TreeInv

LEMMA NumberStep ==
  ASSUME TreeInv, Number
  PROVE  TreeInv'
<1>1. /\ tree_phase = "number" /\ tree_phase' = "build" /\ group' = 0
      /\ UNCHANGED <<arguments, pair, nodes, tree_surface>>
  BY DEF Number
<1>2. TreeTypes' /\ UnionFind' /\ GroupsRight'
  BY NumberIsRight DEF TreeInv
<1>3. nodes' = <<>> /\ ~ Looping'
  BY <1>1 DEF TreeInv, TreeRight, Looping
<1>4. TreeOf(nodes, group)'
  <2>1. Len(nodes') = 0 /\ nodes' \in Seq(NodeSet) /\ 1 .. 0 = {}
    BY <1>3, EmptySeq
  <2>2. \A k : k \notin 1 .. Len(nodes')
    BY <2>1
  <2>3. \A k \in Controls : ~ (k < 0)
    BY TreeSizes
  <2>4. \A i \in Controls : ~ (groups'[i] \in Controls /\ groups'[i] < group')
    BY <1>1, <2>3
  <2>5. QED BY <2>1, <2>2, <2>4 DEF TreeOf
<1>5. TreeRight'
  BY <1>1, <1>3, <1>4, TreeSizes DEF TreeRight
<1>6. PictureRight'
  BY <1>1, PictureStays DEF TreeInv
<1>7. QED BY <1>1, <1>2, <1>5, <1>6 DEF TreeInv

LEMMA BuildStep ==
  ASSUME TreeInv, BuildGroup
  PROVE  TreeInv'
<1>1. /\ tree_phase = "build" /\ group < COUNT
      /\ UNCHANGED <<arguments, pair, parents, numbering, tree_surface>>
  BY DEF BuildGroup
<1>2. Numbered /\ group \in Controls /\ group \in Nat /\ COUNT \in Nat
  BY <1>1, TreeSizes DEF Numbered, TreeInv, TreeRight, Controls
<1>3. ~ Refused(group)
  BY <1>2, NeverRefused DEF TreeInv
<1>4. /\ nodes' = nodes \o Container(group) \o Leaves(group) /\ group' = group + 1
      /\ tree_phase' = "build"
  BY <1>1, <1>3 DEF BuildGroup
<1>5. TreeTypes' /\ UnionFind'
  BY <1>1, <1>4, ForestStays DEF TreeInv
<1>6. GroupsRight'
  BY <1>1, <1>2, GroupsStay DEF TreeInv
<1>7. PICK ns, g : ns = nodes' /\ g = group'
  OBVIOUS
<1>8. TreeOf(ns, g)
  <2>1. TreeOf(nodes, group)
    BY <1>2 DEF TreeInv, TreeRight
  <2>2. TreeOf(nodes \o Container(group) \o Leaves(group), group + 1)
    BY <1>2, <2>1, GroupIsAdded DEF TreeInv
  <2>3. QED BY <1>4, <1>7, <2>2
<1>9. TreeOf(ns, g)'
  BY <1>1, <1>8, TreeOfStays
<1>10. TreeOf(nodes, group)'
  BY <1>7, <1>9 DEF TreeOf
<1>11. TreeRight'
  <2>1. group' \in 0 .. COUNT /\ ~ Looping'
    BY <1>1, <1>2, <1>4 DEF Looping
  <2>2. QED BY <1>4, <1>10, <2>1 DEF TreeRight
<1>12. PictureRight'
  BY <1>1, <1>4, PictureStays DEF TreeInv
<1>13. QED BY <1>4, <1>5, <1>6, <1>11, <1>12 DEF TreeInv

LEMMA NodesStay ==
  ASSUME TreeRight, UNCHANGED <<arguments, numbering, group, nodes>>, ~ Looping',
         Numbered' => Numbered,
         tree_phase' \in {"render", "outline", "done"} => group = COUNT
  PROVE  TreeRight'
<1>1. nodes' = nodes /\ group' = group
  OBVIOUS
<1>2. ASSUME Numbered' PROVE TreeOf(nodes, group)'
  <2>1. PICK ns, g : ns = nodes /\ g = group
    OBVIOUS
  <2>2. TreeOf(ns, g)
    BY <1>2, <2>1 DEF TreeRight
  <2>3. TreeOf(ns, g)'
    BY <2>2, TreeOfStays
  <2>4. ns = nodes' /\ g = group'
    BY <1>1, <2>1
  <2>5. QED BY <2>3, <2>4 DEF TreeOf
<1>3. QED BY <1>1, <1>2 DEF TreeRight

LEMMA BuiltStep ==
  ASSUME TreeInv, Built
  PROVE  TreeInv'
<1>1. /\ tree_phase = "build" /\ tree_phase' = "render" /\ group = COUNT
      /\ UNCHANGED <<arguments, pair, parents, numbering, group, nodes, tree_surface>>
  BY DEF Built
<1>2. Numbered /\ ~ Looping'
  BY <1>1 DEF Numbered, Looping
<1>3. TreeTypes' /\ UnionFind' /\ GroupsRight' /\ TreeRight' /\ PictureRight'
  BY <1>1, <1>2, ForestStays, GroupsStay, NodesStay, PictureStays DEF TreeInv
<1>4. QED BY <1>1, <1>3 DEF TreeInv

LEMMA NoMemoryStep ==
  ASSUME TreeInv, NoMemory
  PROVE  TreeInv'
<1>1. /\ tree_phase \in {"pairs", "build"} /\ tree_phase' = "failed"
      /\ UNCHANGED <<arguments, pair, parents, numbering, group, nodes, tree_surface>>
  BY DEF NoMemory
<1>2. ~ Numbered' /\ ~ Looping'
  BY <1>1 DEF Numbered, Looping
<1>3. TreeTypes' /\ UnionFind' /\ GroupsRight' /\ TreeRight' /\ PictureRight'
  BY <1>1, <1>2, ForestStays, GroupsStay, NodesStay, PictureStays DEF TreeInv
<1>4. QED BY <1>1, <1>3 DEF TreeInv

LEMMA RenderStep ==
  ASSUME TreeInv, ui_buffer_render
  PROVE  TreeInv'
<1>1. /\ tree_phase = "render" /\ tree_phase' = "outline"
      /\ tree_pixels' = [p \in TreePixels |-> Painted(p)] /\ tree_dirty' = DirtiedBy("leaf")
      /\ UNCHANGED <<arguments, pair, parents, numbering, group, nodes>>
  BY DEF ui_buffer_render
<1>2. Numbered /\ ~ Looping' /\ group = COUNT /\ TreeOf(nodes, COUNT)
  BY <1>1 DEF Numbered, Looping, TreeInv, TreeRight
<1>3. TreeTypes' /\ UnionFind' /\ GroupsRight' /\ TreeRight'
  BY <1>1, <1>2, ForestStays, GroupsStay, NodesStay DEF TreeInv
<1>4. ASSUME NEW p \in TreePixels
      PROVE  /\ tree_pixels'[p] \in {i \in Controls : p \in OnScreen(i)} \union {-1}
             /\ tree_pixels'[p] = Max({i \in Controls : p \in OnScreen(i)} \union {-1})
  <2>1. tree_pixels[p] = -1
    BY <1>1 DEF TreeInv, PictureRight
  <2>2. tree_pixels'[p] = Painted(p)
    BY <1>1
  <2>3. QED BY <1>2, <2>1, <2>2, TopmostIsSeen DEF TreeInv
<1>5. /\ tree_pixels' \in [TreePixels -> -1 .. Outline]
      /\ \A p \in TreePixels : tree_pixels'[p] \in Nothing /\ tree_pixels'[p] # Outline
  <2>1. Nothing \subseteq -1 .. Outline /\ Outline \notin Nothing
    BY TreeSizes DEF Nothing, Outline, Controls
  <2>2. \A p \in TreePixels : tree_pixels'[p] \in Nothing
    BY <1>4 DEF Nothing
  <2>3. QED BY <1>1, <2>1, <2>2
<1>6. /\ DirtiedBy("leaf") \in IntRects
      /\ \A k \in 1 .. Len(nodes) : nodes[k].kind = "leaf" =>
           PixelsOf(absolute_bounds(nodes[k])) \intersect TreePixels \subseteq PixelsOf(DirtiedBy("leaf"))
  BY <1>2, DirtyCovers DEF TreeInv, PictureRight
<1>7. GroupingInvisible'
  <2>1. \A i : OnScreen(i)' = OnScreen(i)
    BY <1>1 DEF OnScreen, arguments
  <2>2. QED BY <1>4, <2>1 DEF GroupingInvisible
<1>8. DirtyCoversFrame'
  <2> SUFFICES ASSUME NEW p \in TreePixels, tree_pixels'[p] # -1
               PROVE  p \in PixelsOf(DirtiedBy("leaf"))
    BY <1>1 DEF DirtyCoversFrame
  <2>1. PICK i \in Controls : p \in OnScreen(i)
    BY <1>4
  <2>2. groups[i] \in Controls
    BY <1>2, <2>1, GroupsMean DEF TreeInv
  <2>3. groups[i] < COUNT
    BY <2>2, TreeSizes DEF Controls
  <2>4. PICK k \in 1 .. Len(nodes) : nodes[k].kind = "leaf" /\ nodes[k].id = i
    BY <1>2, <2>2, <2>3 DEF TreeOf
  <2>5. absolute_bounds(nodes[k]) = Clipped(i)
    BY <1>2, <2>4 DEF TreeOf, LeafNode, GroupNode
  <2>6. p \in PixelsOf(absolute_bounds(nodes[k]))
    BY <2>1, <2>5, ClippedIs DEF TreeInv, TreeTypes
  <2>7. QED BY <1>6, <2>4, <2>6
<1>9. OutlinesAreGroups'
  BY <1>5 DEF OutlinesAreGroups
<1>10. PictureRight'
  BY <1>1, <1>5, <1>6, <1>7, <1>8, <1>9 DEF PictureRight
<1>11. QED BY <1>1, <1>3, <1>10 DEF TreeInv

LEMMA OutlinedIs ==
  ASSUME TreeInv, Numbered, TreeOf(nodes, COUNT), NEW p \in TreePixels, Outlined(p)
  PROVE  /\ p \in PixelsOf(DirtiedBy("group"))
         /\ \E i, j \in Controls : /\ i # j /\ OnScreen(i) # {} /\ OnScreen(j) # {}
                                   /\ j \in ComponentOf(i)
                                   /\ p \in Border(group_bounds[groups[i]])
<1>1. PICK k \in 1 .. Len(nodes) : nodes[k].kind = "group" /\ p \in Border(absolute_bounds(nodes[k]))
  BY DEF Outlined
<1>2. PICK g : g = nodes[k].id
  OBVIOUS
<1>3. g \in Controls /\ Several(g) /\ absolute_bounds(nodes[k]) = group_bounds[g]
  BY <1>1, <1>2 DEF TreeOf, LeafNode, GroupNode
<1>4. PICK i \in Members(g), j \in Members(g) : i # j
  BY <1>3 DEF Several
<1>5. i \in Controls /\ j \in Controls /\ groups[i] = g /\ groups[j] = g
  BY DEF Members
<1>6. OnScreen(i) # {} /\ OnScreen(j) # {} /\ j \in ComponentOf(i)
  BY <1>3, <1>5, GroupsMean DEF TreeInv
<1>7. p \in Border(group_bounds[groups[i]])
  BY <1>1, <1>3, <1>5
<1>8. p \in PixelsOf(absolute_bounds(nodes[k])) \intersect TreePixels
  BY <1>1 DEF Border
<1>9. p \in PixelsOf(DirtiedBy("group"))
  BY <1>1, <1>8, DirtyCovers DEF TreeInv, PictureRight
<1>10. QED BY <1>4, <1>5, <1>6, <1>7, <1>9

LEMMA OutlineStep ==
  ASSUME TreeInv, draw_group_debug_bounds
  PROVE  TreeInv'
<1>1. /\ tree_phase = "outline" /\ tree_phase' = "done"
      /\ UNCHANGED <<arguments, pair, parents, numbering, group, nodes>>
  BY DEF draw_group_debug_bounds
<1>2. Numbered /\ ~ Looping' /\ group = COUNT /\ TreeOf(nodes, COUNT)
  BY <1>1 DEF Numbered, Looping, TreeInv, TreeRight
<1>3. TreeTypes' /\ UnionFind' /\ GroupsRight' /\ TreeRight'
  BY <1>1, <1>2, ForestStays, GroupsStay, NodesStay DEF TreeInv
<1>4. GroupingInvisible'
  BY <1>1 DEF GroupingInvisible
<1>5. \A p \in TreePixels : tree_pixels[p] \in Nothing /\ tree_pixels[p] # Outline
  <2>1. Outline \notin Nothing
    BY TreeSizes DEF Nothing, Outline, Controls
  <2>2. QED BY <1>1, <2>1 DEF TreeInv, PictureRight
<1>6. /\ tree_pixels \in [TreePixels -> -1 .. Outline] /\ tree_dirty \in IntRects
      /\ \A p \in TreePixels : tree_pixels[p] # -1 => p \in PixelsOf(tree_dirty)
  BY DEF TreeInv, PictureRight, DirtyCoversFrame
<1>7. CASE UNCHANGED tree_surface
  <2>1. tree_pixels' = tree_pixels /\ tree_dirty' = tree_dirty
    BY <1>7 DEF tree_surface
  <2>2. DirtyCoversFrame' /\ OutlinesAreGroups'
    BY <1>5, <1>6, <2>1 DEF DirtyCoversFrame, OutlinesAreGroups
  <2>3. PictureRight'
    BY <1>1, <1>4, <1>6, <2>1, <2>2 DEF PictureRight
  <2>4. QED BY <1>1, <1>3, <2>3 DEF TreeInv
<1>8. CASE /\ tree_pixels' = [p \in TreePixels |-> IF Outlined(p) THEN Outline ELSE tree_pixels[p]]
           /\ tree_dirty' = DirtiedBy("group")
  <2>1. \A p \in TreePixels : tree_pixels'[p] = IF Outlined(p) THEN Outline ELSE tree_pixels[p]
    BY <1>8
  <2>2. Outline \in -1 .. Outline
    BY TreeSizes DEF Outline
  <2>3. tree_pixels' \in [TreePixels -> -1 .. Outline]
    <3>1. \A p \in TreePixels : (IF Outlined(p) THEN Outline ELSE tree_pixels[p]) \in -1 .. Outline
      BY <1>6, <2>2
    <3>2. QED BY <1>8, <3>1
  <2>4. DirtiedBy("group") \in IntRects /\ PixelsOf(tree_dirty) \subseteq PixelsOf(DirtiedBy("group"))
    BY <1>2, DirtyCovers DEF TreeInv, PictureRight
  <2>5. DirtyCoversFrame'
    <3> SUFFICES ASSUME NEW p \in TreePixels, tree_pixels'[p] # -1
                 PROVE  p \in PixelsOf(DirtiedBy("group"))
      BY <1>8 DEF DirtyCoversFrame
    <3>1. CASE Outlined(p)
      BY <1>2, <3>1, OutlinedIs
    <3>2. CASE ~ Outlined(p)
      BY <1>6, <2>1, <2>4, <3>2
    <3>3. QED BY <3>1, <3>2
  <2>6. OutlinesAreGroups'
    <3> SUFFICES ASSUME NEW p \in TreePixels, tree_pixels'[p] = Outline
                 PROVE  (\E i, j \in Controls : /\ i # j /\ OnScreen(i) # {} /\ OnScreen(j) # {}
                                                /\ j \in ComponentOf(i)
                                                /\ p \in Border(group_bounds[groups[i]]))'
      BY DEF OutlinesAreGroups
    <3>1. Outlined(p)
      BY <1>5, <2>1
    <3>2. PICK i \in Controls, j \in Controls :
            /\ i # j /\ OnScreen(i) # {} /\ OnScreen(j) # {} /\ j \in ComponentOf(i)
            /\ p \in Border(group_bounds[groups[i]])
      BY <1>2, <3>1, OutlinedIs
    <3>3. /\ controls' = controls /\ threshold' = threshold /\ groups' = groups
          /\ group_bounds' = group_bounds
      BY <1>1 DEF arguments, numbering
    <3>4. OnScreen(i)' = OnScreen(i) /\ OnScreen(j)' = OnScreen(j)
      BY <3>3 DEF OnScreen
    <3>5. ComponentOf(i)' = ComponentOf(i)
      BY <3>3, ComponentIs, ComponentIsNext
    <3>6. Border(group_bounds[groups[i]])' = Border(group_bounds[groups[i]])
      BY <3>3
    <3>7. QED BY <3>2, <3>4, <3>5, <3>6
  <2>7. PictureRight'
    BY <1>1, <1>4, <1>8, <2>3, <2>4, <2>5, <2>6 DEF PictureRight
  <2>8. QED BY <1>1, <1>3, <2>7 DEF TreeInv
<1>9. QED BY <1>7, <1>8 DEF draw_group_debug_bounds

LEMMA TreeStutters ==
  ASSUME TreeInv, UNCHANGED tree_vars
  PROVE  TreeInv'
<1>1. /\ tree_phase' = tree_phase /\ controls' = controls /\ threshold' = threshold
      /\ pair' = pair /\ parents' = parents /\ groups' = groups /\ group_bounds' = group_bounds
      /\ group' = group /\ nodes' = nodes /\ tree_pixels' = tree_pixels /\ tree_dirty' = tree_dirty
      /\ UNCHANGED <<arguments, numbering>>
  BY DEF tree_vars, arguments, numbering, tree_surface
<1>2. TreeTypes' /\ UnionFind'
  BY <1>1 DEF TreeInv, TreeTypes, UnionFind, Looping
<1>3. Numbered' = Numbered /\ Looping' = Looping
  BY <1>1 DEF Numbered, Looping
<1>4. GroupsRight'
  BY <1>1, <1>3, GroupsStay DEF TreeInv
<1>5. TreeRight'
  <2>1. ASSUME Numbered PROVE TreeOf(nodes, group)'
    <3>1. PICK ns, g : ns = nodes /\ g = group
      OBVIOUS
    <3>2. TreeOf(ns, g)
      BY <2>1, <3>1 DEF TreeInv, TreeRight
    <3>3. TreeOf(ns, g)'
      BY <1>1, <3>2, TreeOfStays
    <3>4. ns = nodes' /\ g = group'
      BY <1>1, <3>1
    <3>5. QED BY <3>3, <3>4 DEF TreeOf
  <2>2. QED BY <1>1, <1>3, <2>1 DEF TreeInv, TreeRight
<1>6. \A i : OnScreen(i)' = OnScreen(i) /\ ComponentOf(i)' = ComponentOf(i)
  BY <1>1, ComponentIs, ComponentIsNext DEF OnScreen
<1>7. GroupingInvisible' /\ DirtyCoversFrame' /\ OutlinesAreGroups'
  <2>1. GroupingInvisible'
    BY <1>1, <1>6 DEF TreeInv, PictureRight, GroupingInvisible
  <2>2. DirtyCoversFrame'
    BY <1>1 DEF TreeInv, PictureRight, DirtyCoversFrame
  <2>3. OutlinesAreGroups'
    BY <1>1, <1>6 DEF TreeInv, PictureRight, OutlinesAreGroups
  <2>4. QED BY <2>1, <2>2, <2>3
<1>8. PictureRight'
  BY <1>1, <1>7 DEF TreeInv, PictureRight
<1>9. QED BY <1>1, <1>2, <1>4, <1>5, <1>8 DEF TreeInv

LEMMA TreeInvIsSafe ==
  ASSUME TreeInv
  PROVE  TreeSafe
<1>1. TreeTypeOK
  <2>1. PICK R, rank : IsForest(parents, R, rank)
    BY DEF TreeInv, UnionFind
  <2>2. parents \in [Controls -> Controls]
    BY <2>1 DEF IsForest
  <2>3. \A i \in Controls : parents[RootOf(i)] = RootOf(i)
    <3>1. \A i \in Controls : RootOf(i) = R[i]
      BY <2>1, RootIs
    <3>2. QED BY <2>1, <3>1 DEF IsForest
  <2>4. QED BY <2>2, <2>3 DEF TreeTypeOK, TreeInv, TreeTypes, GroupsRight, PictureRight
<1>2. GroupsAreComponents /\ TightContainers
  BY ContainersAreTight DEF TreeInv, GroupsRight
<1>3. GroupingInvisible /\ DirtyCoversFrame /\ OutlinesAreGroups
  BY DEF TreeInv, PictureRight
<1>4. QED BY <1>1, <1>2, <1>3 DEF TreeSafe

(* One frame of ui_drawer.c, for any number of controls, wherever they are, *)
(* any threshold and any surface: what ui_build_render_tree_debug() groups  *)
(* are the components of nearness, in containers as tight as they can be    *)
(* and never refused; ui_buffer_render() leaves the picture of the controls *)
(* one after the other, all of it marked; and the outlines are those of     *)
(* groups of several controls.                                              *)
THEOREM TreeIsSafe == TreeSpec => []TreeSafe
<1>1. TreeInit => TreeInv
  BY TreeInvInit
<1>2. TreeInv /\ [TreeNext]_tree_vars => TreeInv'
  <2> SUFFICES ASSUME TreeInv, [TreeNext]_tree_vars PROVE TreeInv'
    OBVIOUS
  <2>1. CASE ComparePair
    BY <2>1, PairStep
  <2>2. CASE Number
    BY <2>2, NumberStep
  <2>3. CASE BuildGroup
    BY <2>3, BuildStep
  <2>4. CASE Built
    BY <2>4, BuiltStep
  <2>5. CASE NoMemory
    BY <2>5, NoMemoryStep
  <2>6. CASE ui_buffer_render
    BY <2>6, RenderStep
  <2>7. CASE draw_group_debug_bounds
    BY <2>7, OutlineStep
  <2>8. CASE UNCHANGED tree_vars
    BY <2>8, TreeStutters
  <2>9. QED BY <2>1, <2>2, <2>3, <2>4, <2>5, <2>6, <2>7, <2>8 DEF TreeNext
<1>3. TreeInv => TreeSafe
  BY TreeInvIsSafe
<1>4. QED BY <1>1, <1>2, <1>3, PTL DEF TreeSpec
=============================================================================

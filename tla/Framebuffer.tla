---------------------------- MODULE Framebuffer ----------------------------
(***************************************************************************)
(* The guest framebuffer on its way to a window: guest stores mark a dirty *)
(* rectangle (platform.c), the host's service routine moves it to the      *)
(* display surface between batches of instructions (loader.c, gui_main.cpp) *)
(* and uploads it (sdl_display.c, ui_surface.c).                           *)
(*                                                                         *)
(* Pixel values are left out: a store makes the pixels it touches differ   *)
(* from the texture and from the window until they are uploaded and shown. *)
(***************************************************************************)
EXTENDS UiRect

CONSTANTS
  WIDTH, HEIGHT,   \* MIPSEL_EMU_FB_WIDTH, MIPSEL_EMU_FB_HEIGHT
  STRIDE           \* MIPSEL_EMU_FB_STRIDE_BYTES

ASSUME GeometryAssumption ==
  /\ WIDTH \in Nat \ {0} /\ HEIGHT \in Nat \ {0} /\ STRIDE \in Nat
  /\ STRIDE >= 2 * WIDTH

\* Bytes of the framebuffer: the default one, which nobody in the repository
\* replaces by a larger one.
CAPACITY == STRIDE * HEIGHT

VARIABLES
  dirty,       \* what guest stores have marked, or NoRect
  surface,     \* what the display still has to upload, or NoRect
  unsent,      \* pixels of the framebuffer that the texture does not have
  unseen       \* pixels of the framebuffer that the window does not show

fb_vars == <<dirty, surface, unsent, unseen>>

Screen == Rect(0, 0, WIDTH, HEIGHT)

Rects == [x : Nat, y : Nat, w : Nat, h : Nat]

-----------------------------------------------------------------------------
(* Guest stores.                                                           *)

\* An aligned or unaligned access of 1, 2 or 4 bytes inside the window.
Stores == {s \in (0 .. CAPACITY - 1) \X {1, 2, 4} : s[1] <= CAPACITY - s[2]}

\* The visible pixels whose bytes a store changes.
Touched(offset, size) ==
  {p \in PixelsOf(Screen) :
     \E b \in offset .. offset + size - 1 :
       b \div STRIDE = p[2] /\ (b % STRIDE) \div 2 = p[1]}

\* The rectangle of one store: a store that crosses a row marks whole rows.
StoreRect(offset, size) ==
  LET last == offset + size - 1
      top == offset \div STRIDE
      bottom == last \div STRIDE
      left == (offset % STRIDE) \div 2
      right == (last % STRIDE) \div 2
  IN  IF top = bottom
      THEN Rect(left % WIDTH, top, right - left + 1, 1)
      ELSE Rect(0, top, WIDTH, bottom - top + 1)

\* Mutant: the merge computes the size from the old corner.
Merge_OldCorner(old, new) ==
  Rect(Smaller(new.x, old.x), Smaller(new.y, old.y),
       IF new.x + new.w > old.x + old.w THEN new.x + new.w - old.x ELSE old.w,
       IF new.y + new.h > old.y + old.h THEN new.y + new.h - old.y ELSE old.h)

\* The merge of framebuffer_mark_bytes(): x and y move first, and the old
\* right and bottom edges are then computed from where they have moved to.
Merge(old, new) ==
  LET x == Smaller(new.x, old.x)
      y == Smaller(new.y, old.y)
  IN  Rect(x, y,
           IF new.x + new.w > x + old.w THEN new.x + new.w - x ELSE old.w,
           IF new.y + new.h > y + old.h THEN new.y + new.h - y ELSE old.h)

framebuffer_mark_bytes(offset, size) ==
  LET new == StoreRect(offset, size)
  IN  IF dirty = NoRect THEN new ELSE Merge(dirty, new)

GuestStore(offset, size) ==
  /\ dirty' = framebuffer_mark_bytes(offset, size)
  /\ unsent' = unsent \union Touched(offset, size)
  /\ unseen' = unseen \union Touched(offset, size)
  /\ UNCHANGED surface

-----------------------------------------------------------------------------
(* The host.                                                               *)

\* Mutant: the rectangle is not clipped to the surface.
ui_surface_mark_dirty_NoClip(old, rect) == ui_rect_union(old, rect)

ui_surface_mark_dirty(old, rect) ==
  LET clipped == ui_rect_intersection(rect, Screen)
  IN  IF ui_rect_is_empty(clipped) THEN old ELSE ui_rect_union(old, clipped)

\* service_sdl() hands the marked rectangle to the surface.
Handed ==
  IF dirty = NoRect THEN surface ELSE ui_surface_mark_dirty(surface, dirty)

\* sdl_display_present(): nothing to do, or upload, render and forget; a
\* failure in between keeps the rectangle for the next service.
PresentNothing ==
  /\ Handed = NoRect
  /\ UNCHANGED <<surface, unsent, unseen>>

PresentDirty ==
  /\ Handed # NoRect
  /\ unsent' = unsent \ PixelsOf(Handed)
  /\ unseen' = unsent'
  /\ surface' = NoRect

UploadFails ==
  /\ Handed # NoRect
  /\ surface' = Handed
  /\ UNCHANGED <<unsent, unseen>>

\* Mutant: the rectangle is forgotten although nothing was shown.
RenderFails_Forgets ==
  /\ Handed # NoRect
  /\ unsent' = unsent \ PixelsOf(Handed)
  /\ surface' = NoRect
  /\ UNCHANGED unseen

RenderFails ==
  /\ Handed # NoRect
  /\ unsent' = unsent \ PixelsOf(Handed)
  /\ surface' = Handed
  /\ UNCHANGED unseen

service_sdl ==
  /\ dirty' = NoRect
  /\ PresentNothing \/ PresentDirty \/ UploadFails \/ RenderFails

\* The desktop's reset blanks the framebuffer and repaints the window; the
\* command line's board reset leaves both alone.
GuiReset ==
  /\ dirty' = NoRect
  /\ surface' = Screen
  /\ unsent' = PixelsOf(Screen)
  /\ unseen' = PixelsOf(Screen)

\* The window is created after the framebuffer, all of it dirty.
FbInit ==
  /\ dirty = NoRect
  /\ surface = Screen
  /\ unsent = PixelsOf(Screen)
  /\ unseen = PixelsOf(Screen)

FbNext ==
  \/ \E s \in Stores : GuestStore(s[1], s[2])
  \/ service_sdl
  \/ GuiReset

FbSpec == FbInit /\ [][FbNext]_fb_vars

-----------------------------------------------------------------------------
Marked == PixelsOf(dirty) \union PixelsOf(surface)

FbTypeOK ==
  /\ dirty \in Rects /\ surface \in Rects
  /\ unsent \subseteq PixelsOf(Screen) /\ unseen \subseteq PixelsOf(Screen)

(* What the display uploads lies inside the texture, wherever the guest     *)
(* stores (the padding of a row included).                                  *)
SurfaceOnScreen == surface = NoRect \/ PixelsOf(surface) \subseteq PixelsOf(Screen)

(* In every state the rectangles are well formed and on the screen.         *)
FbSafe == FbTypeOK /\ SurfaceOnScreen

(* A pixel that the window does not show stays marked for uploading: every  *)
(* guest store is inside the rectangle right after it, whatever was marked  *)
(* before (a store that crosses rows, an odd address, row padding), and the *)
(* service routine forgets a pixel only once the window shows it, even when *)
(* an upload or a rendering fails on the way.                               *)
DebtKept ==
  [][fb_vars' # fb_vars =>
       /\ \A s \in Stores :
            GuestStore(s[1], s[2]) => Touched(s[1], s[2]) \subseteq PixelsOf(dirty')
       /\ service_sdl => unseen' \intersect Marked \subseteq PixelsOf(surface')]_fb_vars

(* "CPU ... every 8/16/32-bit write updates the host framebuffer and merges *)
(* the dirty rectangle" (README.md): what the window does not show is       *)
(* marked for uploading.                                                    *)
UnseenIsMarked == unseen \subseteq Marked
=============================================================================

------------------------------- MODULE Player -------------------------------
(***************************************************************************)
(* The frame loop of sdl-player (main.c) and its demo (demo.c): events     *)
(* select a phase, every frame renders it into the surface and presents    *)
(* what the surface has marked dirty.                                              *)
(*                                                                         *)
(* Phase 2 draws with two small rectangles and is modelled by the pixel;   *)
(* the other phases draw whole frames, told apart by phase and tick.       *)
(* Phase 3 reports how its three controls are grouped.                     *)
(***************************************************************************)
EXTENDS Integers, FiniteSetsExt, Functions, UiRect

CONSTANTS
  SURFACE_WIDTH, SURFACE_HEIGHT,   \* of the surface
  InitialPhases, Limits,    \* --phase, --frames (0: none)
  Topologies,               \* the groups the controls of phase 3 may form
  DX, DY,                   \* speed of the rectangle
  TICKS                     \* bound: ticks are told apart up to TICKS

None == <<>>

ASSUME PlayerAssumption ==
  /\ SURFACE_WIDTH \in Nat \ {0} /\ SURFACE_HEIGHT \in Nat \ {0} /\ DX \in Nat /\ DY \in Nat
  /\ Limits \subseteq Nat /\ InitialPhases \subseteq 0 .. 8 /\ TICKS \in Nat \ {0}
  /\ None \notin Topologies /\ \A grouping \in Topologies : IsFiniteSet(Range(grouping))

VARIABLES
  player_at,                \* "poll", "render", "present", "ended"
  running, player_failed, frames, limit,
  debug,                    \* --ui-tree-debug
  available,                \* effects that have got their memory
  phase, phase_tick, x, y, dx, dy,
  topology,                 \* last one reported, or None
  event, before,            \* ghost: this frame's report, last frame's topology
  pixels, surface_dirty, window   \* the surface, and what the window shows

loop == <<running, player_failed, frames>>
player_options == <<limit, debug, available>>
box == <<x, y, dx, dy>>
reports == <<topology, event, before>>
player_vars ==
  <<player_at, loop, player_options, phase, phase_tick, box, reports, pixels, surface_dirty,
    window>>

DEMO_PHASE_COUNT == 9
SurfaceRect == Rect(0, 0, SURFACE_WIDTH, SURFACE_HEIGHT)
Pixels == PixelsOf(SurfaceRect)

\* What a pixel shows: one of four colours, or its part of a whole frame.
NOTHING == -1
BLACK == -2
BOX == -3
CORE == -4
Whole(n, t) == n * (TICKS + 1) + t

Filled(colour) == [p \in Pixels |-> colour]

-----------------------------------------------------------------------------
(* Choosing a phase.                                                       *)

Blank == Filled(BLACK)

NoReport == None

demo_set_phase(n) ==
  /\ phase' = n % DEMO_PHASE_COUNT /\ phase_tick' = 0
  /\ x' = 0 /\ y' = 0 /\ dx' = DX /\ dy' = DY
  /\ topology' = NoReport /\ event' = "none" /\ before' = None
  /\ pixels' = Blank /\ surface_dirty' = SurfaceRect

NextDemo ==
  /\ player_at = "poll"
  /\ demo_set_phase(phase + 1)
  /\ UNCHANGED <<player_at, loop, player_options, window>>

Quit ==
  /\ player_at = "poll"
  /\ running' = FALSE
  /\ UNCHANGED <<player_at, player_failed, frames, player_options, phase, phase_tick, box,
                 reports, pixels, surface_dirty, window>>

Stopped == ~running

NoMoreEvents ==
  /\ player_at = "poll"
  /\ player_at' = IF Stopped THEN "ended" ELSE "render"
  /\ UNCHANGED <<loop, player_options, phase, phase_tick, box, reports, pixels,
                 surface_dirty, window>>

-----------------------------------------------------------------------------
(* One frame.                                                              *)

\* The next place and speed in one direction.
Bounced(at_, speed, size, bound) ==
  CASE at_ + speed < 0            -> <<0, -speed>>
    [] at_ + speed + size > bound -> <<bound - size, -speed>>
    [] OTHER                      -> <<at_ + speed, speed>>

BOX_WIDTH == SURFACE_WIDTH \div 4
BOX_HEIGHT == SURFACE_HEIGHT \div 4
BoxAt(left, top) == Rect(left, top, BOX_WIDTH, BOX_HEIGHT)
CoreAt(left, top) == Rect(left + 2, top + 2, BOX_WIDTH - 4, BOX_HEIGHT - 4)

InBox(p, left, top) == p \in PixelsOf(ui_rect_intersection(BoxAt(left, top), SurfaceRect))
InCore(p, left, top) == p \in PixelsOf(ui_rect_intersection(CoreAt(left, top), SurfaceRect))

AlsoMarked(area, more) == ui_rect_union(area, ui_rect_intersection(more, SurfaceRect))

\* Mutant: the erased rectangle is not marked.
BoxMarks_NewOnly(left, top) == AlsoMarked(AlsoMarked(surface_dirty, BoxAt(left, top)), CoreAt(left, top))

BoxMarks(left, top) ==
  AlsoMarked(AlsoMarked(AlsoMarked(surface_dirty, BoxAt(x, y)), BoxAt(left, top)), CoreAt(left, top))

render_partial_bounce ==
  LET h == Bounced(x, dx, BOX_WIDTH, SURFACE_WIDTH)
      v == Bounced(y, dy, BOX_HEIGHT, SURFACE_HEIGHT)
  IN  /\ x' = h[1] /\ dx' = h[2] /\ y' = v[1] /\ dy' = v[2]
      /\ pixels' = [p \in Pixels |->
                      IF InCore(p, h[1], v[1]) THEN CORE
                      ELSE IF InBox(p, h[1], v[1]) THEN BOX
                      ELSE IF InBox(p, x, y) THEN BLACK
                      ELSE pixels[p]]
      /\ surface_dirty' = BoxMarks(h[1], v[1])
      /\ UNCHANGED reports

GroupCount(grouping) == Cardinality(Range(grouping))

\* What report_ui_tree_snapshot() says of a grouping; its hash tells small
\* groupings apart.
EventFor(grouping) ==
  IF topology = None THEN "snapshot"
  ELSE IF grouping = topology THEN "none"
  ELSE IF GroupCount(grouping) < GroupCount(topology) THEN "join"
  ELSE IF GroupCount(grouping) > GroupCount(topology) THEN "split"
  ELSE "regroup"

\* A tree that cannot be built is reported to the loop.
render_ui_tree(built) ==
  /\ pixels' = Filled(Whole(3, phase_tick')) /\ surface_dirty' = SurfaceRect
  /\ \E grouping \in Topologies :
       IF built /\ debug
       THEN event' = EventFor(grouping) /\ topology' = grouping /\ before' = grouping
       ELSE UNCHANGED reports
  /\ UNCHANGED box

\* Tunnel and fire draw nothing without their memory; the surface is marked
\* all the same.
RenderWhole ==
  /\ pixels' = IF phase \in {5, 7} \ available THEN pixels ELSE Filled(Whole(phase, phase_tick'))
  /\ surface_dirty' = SurfaceRect
  /\ UNCHANGED <<box, reports>>

demo_render(success) ==
  /\ phase_tick' = IF phase_tick = TICKS THEN 1 ELSE phase_tick + 1
  /\ CASE phase = 2 -> success /\ render_partial_bounce
       [] phase = 3 -> render_ui_tree(success)
       [] OTHER     -> success /\ RenderWhole

RenderFrame ==
  /\ player_at = "render"
  /\ demo_render(TRUE)
  /\ player_at' = "present"
  /\ UNCHANGED <<loop, player_options, phase, window>>

Fail ==
  /\ player_at' = "ended" /\ running' = FALSE /\ player_failed' = TRUE

FrameFails ==
  /\ player_at = "render"
  /\ demo_render(FALSE)
  /\ Fail
  /\ UNCHANGED <<frames, player_options, phase, window>>

MoreFrames(count) == limit = 0 \/ count < limit

\* Frames are counted if there is a limit.
Present ==
  /\ player_at = "present"
  /\ window' = [p \in Pixels |-> IF p \in PixelsOf(surface_dirty) THEN pixels[p] ELSE window[p]]
  /\ surface_dirty' = NoRect
  /\ frames' = IF limit = 0 THEN 0 ELSE frames + 1
  /\ player_at' = IF MoreFrames(frames') THEN "poll" ELSE "ended"
  /\ UNCHANGED <<running, player_failed, player_options, phase, phase_tick, box, reports, pixels>>

PresentFails ==
  /\ player_at = "present"
  /\ Fail
  /\ UNCHANGED <<frames, player_options, phase, phase_tick, box, reports, pixels,
                 surface_dirty, window>>

PlayerInit ==
  /\ player_at = "poll" /\ running = TRUE /\ player_failed = FALSE /\ frames = 0
  /\ limit \in Limits /\ debug \in BOOLEAN /\ available \in SUBSET {5, 7}
  /\ phase \in InitialPhases /\ phase_tick = 0
  /\ x = 0 /\ y = 0 /\ dx = DX /\ dy = DY
  /\ topology = None /\ event = "none" /\ before = None
  /\ pixels = Filled(BLACK) /\ surface_dirty = SurfaceRect /\ window = Filled(NOTHING)

PlayerNext ==
  \/ NextDemo \/ Quit \/ NoMoreEvents
  \/ RenderFrame \/ FrameFails
  \/ Present \/ PresentFails

PlayerSpec == PlayerInit /\ [][PlayerNext]_player_vars

-----------------------------------------------------------------------------
PlayerTypeOK ==
  /\ player_at \in {"poll", "render", "present", "ended"}
  /\ running \in BOOLEAN /\ player_failed \in BOOLEAN
  /\ phase \in 0 .. DEMO_PHASE_COUNT - 1 /\ phase_tick \in 0 .. TICKS
  /\ x \in 0 .. SURFACE_WIDTH - BOX_WIDTH /\ y \in 0 .. SURFACE_HEIGHT - BOX_HEIGHT
  /\ dx \in {-DX, DX} /\ dy \in {-DY, DY}
  /\ topology \in Topologies \union {None}
  /\ event \in {"none", "snapshot", "join", "split", "regroup"}

(* What is presented is the whole frame, although only the dirty rectangle  *)
(* is uploaded: every phase, and every change of phases between two frames, *)
(* marks what it has written.                                               *)
WindowShowsFrame ==
  (player_at \in {"poll", "ended"} /\ surface_dirty = NoRect) => window = pixels

(* The moving rectangle leaves no trail and inherits nothing from the phase *)
(* before it, whose frames fill the surface.                                *)
OnlyTheBox ==
  (phase = 2 /\ phase_tick > 0) => \A p \in Pixels :
    pixels[p] = IF InCore(p, x, y) THEN CORE ELSE IF InBox(p, x, y) THEN BOX ELSE BLACK

(* A report is made of the first frame of a stay in phase 3 and of every    *)
(* frame whose grouping differs from the frame before ("snapshot", then     *)
(* join, split and regroup; ARCHITECTURE.md 4.4): a stay does not compare   *)
(* with an earlier one.                                                     *)
ReportsChanges ==
  [][ (player_at = "render" /\ player_at' = "present" /\ phase = 3 /\ debug) =>
        LET more == GroupCount(before') - GroupCount(before)
        IN  event' = IF before = None THEN "snapshot"
                     ELSE IF before' = before THEN "none"
                     ELSE IF more < 0 THEN "join" ELSE IF more > 0 THEN "split"
                     ELSE "regroup" ]_player_vars

(* The player ends with exactly the frames asked for, unless somebody quits *)
(* or a frame fails.                                                        *)
FramesExact ==
  /\ limit > 0 => frames <= limit
  /\ (player_at = "ended" /\ running) => limit > 0 /\ frames = limit

(* At all times the window shows the frame, a phase leaves nothing behind   *)
(* and the frames are counted; every report is of the right change.         *)
PlayerSafe ==
  /\ [](PlayerTypeOK /\ WindowShowsFrame /\ OnlyTheBox /\ FramesExact)
  /\ ReportsChanges
=============================================================================

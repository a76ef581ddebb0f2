----------------------------- MODULE MCFrontEnds -----------------------------
(***************************************************************************)
(* The programs with a main loop: the run loop behind the headless and     *)
(* terminal front ends of the emulator, its desktop window, and the demo   *)
(* player.  A process is one of the three, so a behaviour exercises one    *)
(* and leaves the others in an initial state.                              *)
(***************************************************************************)
EXTENDS RunLoop, Desktop, Player

VARIABLE exercised   \* the program this behaviour is about

\* Run loop, batches of two and three steps: no limit, one that ends inside
\* a batch, one behind several resets.
MCLimits == {0, 2, 5}

\* Desktop: three loads, so that a failed one lies between two guests; a
\* step, many steps and a batch are told apart.

\* Player: a surface of twenty pixels square, on which the rectangle has a
\* core; three controls that may be apart, joined in pairs, or one group.
MCTopologies == {<<0, 1, 2>>, <<0, 0, 2>>, <<0, 1, 1>>, <<0, 0, 0>>}

RunParked == tui = TRUE /\ sdl = FALSE /\ max_ticks = 0 /\ vm = Hold /\ RunInit
PlayerParked == limit = 0 /\ debug = FALSE /\ available = {} /\ phase = 0 /\ PlayerInit

FrontEndsInit ==
  /\ DeskInit
  /\ \/ exercised = "run loop" /\ RunInit /\ PlayerParked
     \/ exercised = "desktop" /\ RunParked /\ PlayerParked
     \/ exercised = "player" /\ RunParked /\ PlayerInit

FrontEndsNext ==
  /\ UNCHANGED exercised
  /\ \/ exercised = "run loop" /\ RunNext /\ UNCHANGED <<deskVars, player_vars>>
     \/ exercised = "desktop" /\ DeskNext /\ UNCHANGED <<run_vars, player_vars>>
     \/ exercised = "player" /\ PlayerNext /\ UNCHANGED <<run_vars, deskVars>>

front_ends_vars == <<exercised, run_vars, deskVars, player_vars>>

\* In the behaviours that are about it, the thread of the run loop runs, and
\* nobody types faster than getch() reads.
RunLoopAdvances ==
  exercised = "run loop" /\ Advance /\ UNCHANGED <<exercised, deskVars, player_vars>>

FrontEndsSpec ==
  /\ FrontEndsInit /\ [][FrontEndsNext]_front_ends_vars
  /\ WF_front_ends_vars(RunLoopAdvances)
=============================================================================

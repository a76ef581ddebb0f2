------------------------------- MODULE MCHost -------------------------------
(***************************************************************************)
(* The host's side of the programs: the framebuffer's way to the window,   *)
(* the render tree of the user interface library, the debugger's trace and *)
(* its panes of text, and a program's life from its options to its exit.   *)
(* They share no variable, so a behaviour exercises one of them and leaves *)
(* the others in an initial state.                                         *)
(***************************************************************************)
EXTENDS Framebuffer, RenderTree, Trace, Panes, Session

VARIABLE exercised   \* the part this behaviour is about

\* Four controls on a surface of five by three pixels: inside, touching,
\* overlapping, clipped at either side, out of sight, empty.
MCShapes ==
  {Rect(-1, 0, 2, 2), Rect(-3, 0, 2, 1), Rect(0, 0, 2, 2), Rect(1, 1, 2, 2),
   Rect(2, 0, 2, 1), Rect(4, 2, 2, 2), Rect(2, 0, 0, 1)}

MCThresholds == {-1, 0, 2}

TreeParked == controls = [i \in Controls |-> Rect(0, 0, 2, 2)] /\ threshold = 0 /\ TreeInit

\* Rings of three records, lines of two characters: both wrap, and are cut, in
\* the middle of a behaviour.
TraceParked == sinks = {} /\ TraceInit

PanesParked == rows = 8 /\ PanesInit

SessionParked == program = "player" /\ SessionInit

HostInit ==
  /\ FbInit
  /\ \/ /\ exercised = "framebuffer"
        /\ TreeParked /\ TraceParked /\ PanesParked /\ SessionParked
     \/ exercised = "render tree" /\ TreeInit /\ TraceParked /\ PanesParked /\ SessionParked
     \/ exercised = "trace" /\ TraceInit /\ TreeParked /\ PanesParked /\ SessionParked
     \/ exercised = "panes" /\ PanesInit /\ TreeParked /\ TraceParked /\ SessionParked
     \/ exercised = "session" /\ SessionInit /\ TreeParked /\ TraceParked /\ PanesParked

HostNext ==
  /\ UNCHANGED exercised
  /\ \/ /\ exercised = "framebuffer" /\ FbNext
        /\ UNCHANGED <<tree_vars, trace_vars, panes_vars, session_vars>>
     \/ /\ exercised = "render tree" /\ TreeNext
        /\ UNCHANGED <<fb_vars, trace_vars, panes_vars, session_vars>>
     \/ /\ exercised = "trace" /\ TraceNext
        /\ UNCHANGED <<fb_vars, tree_vars, panes_vars, session_vars>>
     \/ /\ exercised = "panes" /\ PanesNext
        /\ UNCHANGED <<fb_vars, tree_vars, trace_vars, session_vars>>
     \/ /\ exercised = "session" /\ SessionNext
        /\ UNCHANGED <<fb_vars, tree_vars, trace_vars, panes_vars>>

HostSpec ==
  HostInit
    /\ [][HostNext]_<<exercised, fb_vars, tree_vars, trace_vars, panes_vars, session_vars>>
=============================================================================

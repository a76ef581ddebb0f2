------------------------------ MODULE Session ------------------------------
(***************************************************************************)
(* One life of a hosted program, from its options to its exit: what the    *)
(* emulator's command line (loader.c, debugger.c, sdl_display.c) and the   *)
(* sdl-player (main.c, sdl_display.c) acquire, in which order, what they   *)
(* give back when an acquisition fails, when they are told to end, and     *)
(* when a signal strikes anywhere in between.                              *)
(*                                                                         *)
(* What the loops in the middle do is in RunLoop and in Player; what the   *)
(* images contain is in ElfLoad, FdtPatch and InitramfsPlace.              *)
(***************************************************************************)
EXTENDS Integers, Sequences

VARIABLES
  program,       \* "emulator" or "player"
  wants,         \* the emulator's options
  at,            \* where the program is
  held,          \* what it has acquired and not given back
  image,         \* the image being loaded
  machine,       \* what the guest's memory and processor are: "none", "partial", "ready"
  signal_quit,
  result,        \* the exit status
  trouble,       \* ghost: something has failed
  caught         \* ghost: a handled signal has arrived

session_vars == <<program, wants, at, held, image, machine, signal_quit, result, trouble, caught>>

Options ==
  [tui : BOOLEAN, tty : BOOLEAN, trace : {"none", "stderr", "file"}, sdl : BOOLEAN, images : 1 .. 3]

KERNEL == 1
DTB == 2
INITRAMFS == 3

\* In the order of their installation.
handled_signals == <<"SIGINT", "SIGTERM", "SIGPIPE">>
Signals == {handled_signals[i] : i \in 1 .. 3}

DisplayOrder == <<"sdl", "surface", "window", "renderer", "texture">>

\* The order in which things are given back.
DestroyOrder == <<"service", "texture", "renderer", "window", "surface", "sdl">>

\* Mutant: the signal handlers go before the terminal is restored.
ShutdownOrder_HandlersFirst ==
  <<"observer", "SIGPIPE", "SIGTERM", "SIGINT", "curses", "raw", "trace", "debugger">>

ShutdownOrder ==
  <<"observer", "curses", "raw", "trace", "SIGPIPE", "SIGTERM", "SIGINT", "debugger">>

Over == at \in {"ended", "killed"}

SameOptions == UNCHANGED <<program, wants>>
Quiet == UNCHANGED <<signal_quit, caught>>

Goes(next) == at' = next /\ UNCHANGED <<result, trouble>>

Fails(next) == at' = next /\ trouble' = TRUE /\ UNCHANGED result

\* One acquisition: it works, or something else happens.
Acquires(thing, next) == held' = held \union {thing} /\ Goes(next)

Lacks(next) == UNCHANGED held /\ Fails(next)

\* What the next of an order is.
FirstHeld(order) ==
  LET mine == {i \in 1 .. Len(order) : order[i] \in held}
  IN  order[CHOOSE i \in mine : \A j \in mine : i <= j]

FirstLacking(order) ==
  LET missing == {i \in 1 .. Len(order) : order[i] \notin held}
  IN  order[CHOOSE i \in missing : \A j \in missing : i <= j]

HoldsAny(order) == \E i \in 1 .. Len(order) : order[i] \in held
HoldsAll(order) == \A i \in 1 .. Len(order) : order[i] \in held

-----------------------------------------------------------------------------
(* Options and memory.                                                     *)

parse_options ==
  /\ at = "options"
  /\ \/ Goes(IF program = "emulator" THEN "memory" ELSE "window")
     \/ at' = "ended" /\ result' = "success" /\ UNCHANGED trouble    \* --help
     \/ Fails("ended")
  /\ SameOptions /\ Quiet /\ UNCHANGED <<held, image, machine>>

\* Three allocations and the binding of the RAM: whatever was allocated when
\* one of them fails is given back at the end.
Allocate ==
  /\ at = "memory"
  /\ \/ Acquires("memory", "clear")
     \/ Lacks("leave")
     \/ held' = held \union {"memory"} /\ Fails("leave")
  /\ SameOptions /\ Quiet /\ UNCHANGED <<image, machine>>

-----------------------------------------------------------------------------
(* board_reset(): at the start, and again whenever the run loop is asked.  *)

BootFails == "leave"

ClearMemory ==
  /\ at = "clear"
  /\ \/ Goes("open") /\ machine' = "partial"
     \/ Fails(BootFails) /\ UNCHANGED machine
  /\ image' = KERNEL
  /\ SameOptions /\ Quiet /\ UNCHANGED held

\* A file whose length cannot be told is closed again at once.
host_image_open ==
  /\ at = "open"
  /\ Acquires("image", "read") \/ Lacks(BootFails)
  /\ SameOptions /\ Quiet /\ UNCHANGED <<image, machine>>

AfterImage ==
  IF image < wants.images THEN "open" ELSE IF image = INITRAMFS THEN "patch" ELSE "enter"

\* load_kernel(), load_dtb_image(), load_initramfs_image(): the file is closed
\* before the outcome is looked at.
LoadImage ==
  /\ at = "read"
  /\ held' = held \ {"image"}
  /\ \/ Goes(AfterImage) /\ image' = image + 1
     \/ Fails(BootFails) /\ UNCHANGED image
  /\ SameOptions /\ Quiet /\ UNCHANGED machine

SetInitramfs ==
  /\ at = "patch"
  /\ Goes("enter") \/ Fails(BootFails)
  /\ SameOptions /\ Quiet /\ UNCHANGED <<held, image, machine>>

\* The processor; the run loop then resets the platform and the debugger.
EnterKernel ==
  /\ at = "enter"
  /\ machine' = "ready"
  /\ Goes(IF "debugger" \in held THEN "run" ELSE "begin")
  /\ SameOptions /\ Quiet /\ UNCHANGED <<held, image>>

-----------------------------------------------------------------------------
(* debugger_init(): every failure shuts down what has been set up.         *)

BeginDebugger ==
  /\ at = "begin"
  /\ signal_quit' = FALSE
  /\ held' = held \union {"debugger"}
  /\ IF wants.tui /\ wants.trace = "stderr" THEN Fails("shutdown") ELSE Goes("handlers")
  /\ SameOptions /\ UNCHANGED <<image, machine, caught>>

install_signal_handlers ==
  /\ at = "handlers"
  /\ IF HoldsAll(handled_signals) THEN Goes("trace") /\ UNCHANGED held
     ELSE Acquires(FirstLacking(handled_signals), at) \/ Lacks("shutdown")
  /\ SameOptions /\ Quiet /\ UNCHANGED <<image, machine>>

\* Standard error is not the debugger's to close.
OpenTrace ==
  /\ at = "trace"
  /\ IF wants.trace = "file" THEN Acquires("trace", "terminal") \/ Lacks("shutdown")
     ELSE Goes("terminal") /\ UNCHANGED held
  /\ SameOptions /\ Quiet /\ UNCHANGED <<image, machine>>

TakeTerminal ==
  /\ at = "terminal"
  /\ CASE wants.tui /\ ~wants.tty -> Lacks("shutdown")
       [] wants.tui /\ wants.tty -> Acquires("curses", "modes") \/ Lacks("shutdown")
       [] ~wants.tui /\ wants.tty -> Acquires("raw", "observe") \/ Lacks("shutdown")
       [] OTHER -> Goes("observe") /\ UNCHANGED held
  /\ SameOptions /\ Quiet /\ UNCHANGED <<image, machine>>

\* raw(), noecho(), nonl(), keypad() behind newterm().
TerminalModes ==
  /\ at = "modes"
  /\ Goes("observe") \/ Fails("shutdown")
  /\ SameOptions /\ Quiet /\ UNCHANGED <<held, image, machine>>

Observe ==
  /\ at = "observe"
  /\ Acquires("observer", IF wants.sdl THEN "window" ELSE "run")
  /\ SameOptions /\ Quiet /\ UNCHANGED <<image, machine>>

-----------------------------------------------------------------------------
(* create_display(), and what the program does with the display.           *)

CreateDisplay ==
  /\ at = "window"
  /\ ~HoldsAll(DisplayOrder)
  /\ Acquires(FirstLacking(DisplayOrder), at) \/ Lacks("leave")
  /\ SameOptions /\ Quiet /\ UNCHANGED <<image, machine>>

\* The emulator's run loop serves the display from now on.
SetService ==
  /\ at = "window" /\ program = "emulator"
  /\ HoldsAll(DisplayOrder)
  /\ Acquires("service", "run")
  /\ SameOptions /\ Quiet /\ UNCHANGED <<image, machine>>

demo_init ==
  /\ at = "window" /\ program = "player"
  /\ HoldsAll(DisplayOrder)
  /\ Goes("run") \/ Fails("leave")
  /\ SameOptions /\ Quiet /\ UNCHANGED <<held, image, machine>>

\* The loop: it ends by request (which a signal is) or by a limit; the player's
\* ends when a frame fails, too.
LoopReturns ==
  /\ at = "run"
  /\ \/ at' = "leave" /\ result' = "success" /\ UNCHANGED trouble
     \/ program = "player" /\ Fails("leave")
  /\ SameOptions /\ Quiet /\ UNCHANGED <<held, image, machine>>

\* A reset is asked for, and nobody has asked for the end; the loop ends in
\* failure if the reset fails.
ResetBoard ==
  /\ at = "run" /\ program = "emulator" /\ wants.tui /\ ~signal_quit
  /\ Goes("clear")
  /\ SameOptions /\ Quiet /\ UNCHANGED <<held, image, machine>>

-----------------------------------------------------------------------------
(* The way out.                                                            *)

Releases(order, next) ==
  IF HoldsAny(order) THEN held' = held \ {FirstHeld(order)} /\ Goes(at)
  ELSE UNCHANGED held /\ Goes(next)

LeaveMain ==
  /\ at = "leave"
  /\ Releases(DestroyOrder, IF "debugger" \in held THEN "shutdown" ELSE "free")
  /\ SameOptions /\ Quiet /\ UNCHANGED <<image, machine>>

debugger_shutdown ==
  /\ at = "shutdown"
  /\ Releases(ShutdownOrder, "leave")
  /\ SameOptions /\ Quiet /\ UNCHANGED <<image, machine>>

FreeMemory ==
  /\ at = "free"
  /\ held' = held \ {"memory"}
  /\ machine' = "none"
  /\ Goes("ended")
  /\ SameOptions /\ Quiet /\ UNCHANGED image

-----------------------------------------------------------------------------
(* A signal: noted, or the end of the process on the spot, which leaves the *)
(* terminal as it is.                                                      *)

handle_signal(signo) ==
  /\ signo \in held
  /\ signal_quit' = TRUE /\ caught' = TRUE
  /\ UNCHANGED <<program, wants, at, held, image, machine, result, trouble>>

Killed(signo) ==
  /\ signo \notin held
  /\ at' = "killed"
  /\ held' = held \intersect {"curses", "raw"}
  /\ UNCHANGED <<program, wants, image, machine, signal_quit, result, trouble, caught>>

Signal ==
  /\ ~Over /\ program = "emulator"
  /\ \E signo \in Signals : handle_signal(signo) \/ Killed(signo)

SessionInit ==
  /\ program \in {"emulator", "player"}
  /\ wants \in IF program = "emulator" THEN Options
               ELSE {[tui |-> FALSE, tty |-> FALSE, trace |-> "none", sdl |-> TRUE, images |-> 1]}
  /\ at = "options" /\ held = {} /\ image = KERNEL /\ machine = "none"
  /\ signal_quit = FALSE /\ result = "failure"
  /\ trouble = FALSE /\ caught = FALSE

SessionNext ==
  \/ parse_options
  \/ Allocate
  \/ ClearMemory
  \/ host_image_open
  \/ LoadImage
  \/ SetInitramfs
  \/ EnterKernel
  \/ BeginDebugger
  \/ install_signal_handlers
  \/ OpenTrace
  \/ TakeTerminal
  \/ TerminalModes
  \/ Observe
  \/ CreateDisplay
  \/ SetService
  \/ demo_init
  \/ LoopReturns
  \/ ResetBoard
  \/ LeaveMain
  \/ debugger_shutdown
  \/ FreeMemory
  \/ Signal

SessionSpec == SessionInit /\ [][SessionNext]_session_vars

-----------------------------------------------------------------------------
Things ==
  {"memory", "image", "debugger", "trace", "curses", "raw", "observer", "service"}
    \union Signals \union {DisplayOrder[i] : i \in 1 .. 5}

SessionTypeOK ==
  /\ program \in {"emulator", "player"} /\ wants \in Options
  /\ held \subseteq Things /\ image \in 1 .. 4
  /\ machine \in {"none", "partial", "ready"}
  /\ {signal_quit, trouble, caught} \subseteq BOOLEAN
  /\ result \in {"success", "failure"}

\* What a thing cannot be used without.
Needs(thing) ==
  CASE thing \in {"curses", "raw"} -> Signals \union {"debugger"}
    [] thing = "SIGTERM" -> {"SIGINT"}
    [] thing = "SIGPIPE" -> {"SIGTERM"}
    [] thing \in {"SIGINT", "trace", "observer"} -> {"debugger"}
    [] thing = "debugger" -> {"memory"}
    [] thing = "service" -> {"texture", "surface", "debugger"}
    [] thing = "texture" -> {"renderer"}
    [] thing = "renderer" -> {"window"}
    [] thing = "window" -> {"sdl"}
    [] OTHER -> {}

(* Nothing outlives what it uses: a callback its receiver, a texture its    *)
(* renderer, the terminal's mode the handlers that get it restored, on no   *)
(* way through the set-up, its failures and the way out.                    *)
NothingDangles == ~Over => \A thing \in held : Needs(thing) \subseteq held

(* The terminal is the user's again when the process is gone, whichever     *)
(* handled signal strikes wherever, and nothing is left allocated or open.  *)
CleanExit ==
  /\ Over => held \intersect {"curses", "raw"} = {}
  /\ at = "ended" => held = {}
  /\ "image" \in held => at = "read"

(* The loop starts and goes on with a machine that is loaded completely,    *)
(* and with everything its callbacks use.                                   *)
RunsComplete ==
  at = "run" /\ program = "emulator" =>
    /\ machine = "ready"
    /\ {"memory", "debugger", "observer"} \union Signals \subseteq held
    /\ wants.sdl => "service" \in held
    /\ wants.tui => "curses" \in held
    /\ wants.tty => held \intersect {"curses", "raw"} # {}

(* The exit status is a success exactly if nothing failed, and a signal     *)
(* that was caught is not forgotten by the initialisation that follows.     *)
ResultHonest ==
  /\ at = "ended" => (result = "success" <=> ~trouble)
  /\ caught => signal_quit

(* In every state the program holds what it needs, and gives back what it   *)
(* holds.                                                                   *)
SessionSafe == SessionTypeOK /\ NothingDangles /\ CleanExit /\ RunsComplete /\ ResultHonest
=============================================================================

------------------------------ MODULE RunLoop ------------------------------
(***************************************************************************)
(* The run loop of the command line front end (runloop.c, startup()) with  *)
(* the debugger's keys (debugger.c, handle_key()), the tick limit, the     *)
(* display service, signals and the board reset (loader.c, board_reset()). *)
(*                                                                         *)
(* The loop is one thread; what happens at any time is outside it: a       *)
(* signal, a closed window, a resized terminal, a key.  Input to the UART  *)
(* is in UartInput, the monitor's line parser in Console.                  *)
(***************************************************************************)
EXTENDS Integers

CONSTANTS
  TUI_BATCH, HEADLESS_BATCH,    \* steps between two polls (4096, 65536)
  MANY,                         \* steps of the key n (100)
  LIMITS                        \* the values of --max-steps that are tried

ASSUME RunAssumption ==
  /\ {TUI_BATCH, HEADLESS_BATCH, MANY} \subseteq Nat \ {0}
  /\ LIMITS \subseteq Nat

VARIABLES
  tui, sdl, max_ticks,          \* the options
  vm,                           \* vmstate_t: state and steps
  ticks,                        \* counted only if there is a limit
  at,                           \* where startup() is
  batch,                        \* what is left of the batch
  quit, signal_quit,            \* debugger.quit, and the signal handler's flag
  uart_focus, monitor_focus,
  line,                         \* the monitor holds part of a command
  usable,                       \* the monitor's window is large enough
  close,                        \* the window has been closed, not yet noticed
  boot,                         \* which boot each part of the machine is in
  due,                          \* ghost: steps the user asked for, or Free
  late,                         \* ghost: steps since the request to quit
  unpolled,                     \* ghost: steps since the last poll
  unserved                      \* ghost: a step has not been shown

options == <<tui, sdl, max_ticks>>
focus == <<uart_focus, monitor_focus, line>>
ghosts == <<due, late, unpolled, unserved>>
run_vars == <<options, vm, ticks, at, batch, quit, signal_quit, focus, usable, close,
              boot, ghosts>>

Free == -2                      \* no number of steps was asked for
Parts == {"ram", "cpu", "uart", "input", "monitor"}
Places == {"top", "keys", "polled", "dispatch", "batch", "returned", "failed"}
Ended == at \in {"returned", "failed"}

\* Mutant: a signal is not looked at.
debugger_quit_requested_KeysOnly == quit

debugger_quit_requested == quit \/ signal_quit

\* The condition under which the monitor may touch the target.
Halted == vm.state = "STEPPING" /\ vm.steps = 0
Hold == [state |-> "STEPPING", steps |-> 0]
Go == [vm EXCEPT !.state = "RUNNING"]

-----------------------------------------------------------------------------
(* The top of the loop and the keys.                                       *)

PollBegin ==
  /\ at = "top"
  /\ at' = IF debugger_quit_requested THEN "returned"
           ELSE IF tui THEN "keys" ELSE "polled"
  /\ quit' = debugger_quit_requested
  /\ line' = (line /\ (Halted \/ ~monitor_focus))
  /\ unpolled' = 0
  /\ UNCHANGED <<options, vm, ticks, batch, signal_quit, uart_focus, monitor_focus, usable,
                 close, boot, due, late, unserved>>

\* getch() has nothing more.
NoKey ==
  /\ at = "keys"
  /\ at' = "polled"
  /\ UNCHANGED <<options, vm, ticks, batch, quit, signal_quit, focus, usable, close, boot,
                 ghosts>>

\* Ctrl-] q in a poll, or standard output failing in a step.
HeadlessQuit ==
  /\ ~tui /\ ~quit
  /\ at = "polled" \/ batch < 0
  /\ quit' = TRUE
  /\ UNCHANGED <<options, vm, ticks, at, batch, signal_quit, focus, usable, close, boot,
                 ghosts>>

\* A key while the monitor has the focus.
MonitorKey(key) ==
  LET leaves == key \in {"Escape", "F3"}
  IN  /\ monitor_focus' = ~leaves
      /\ line' \in IF leaves \/ ~Halted \/ ~usable \/ key = "Enter" THEN {FALSE}
                   ELSE IF key = "Char" THEN {TRUE}
                   ELSE IF key = "Erase" THEN {FALSE, line} ELSE {line}
      \* Behind the quarantine the rest of what was typed is flushed.
      /\ at' = IF Halted /\ usable THEN "keys" ELSE "polled"
      /\ UNCHANGED <<vm, quit, uart_focus, due>>

\* A key while the UART has it: everything but two goes to the guest.
UartKey(key) ==
  /\ uart_focus' = (key \notin {"F2", "Ctrl-]"})
  /\ UNCHANGED <<vm, quit, monitor_focus, line, at, due>>

Space == IF Halted THEN Go ELSE Hold

\* Mutant: F3 does not look whether the target is halted.
MonitorOpens_Always == usable

MonitorOpens == Halted /\ usable

\* A key nobody has the focus for.
CommandKey(key) ==
  /\ vm' = CASE key = " " -> Space
             [] key = "s" -> [state |-> "STEPPING", steps |-> 1]
             [] key = "n" -> [state |-> "STEPPING", steps |-> MANY]
             [] key = "r" -> [vm EXCEPT !.state = "RESET"]
             [] OTHER -> vm
  /\ due' = CASE key = " " -> IF Halted THEN Free ELSE 0
              [] key = "s" -> 1
              [] key = "n" -> MANY
              [] key = "r" -> Free
              [] OTHER -> due
  /\ quit' = (quit \/ key = "q")
  /\ uart_focus' = (key = "F2")
  /\ monitor_focus' = (key = "F3" /\ MonitorOpens)
  /\ line' = (line /\ ~(key = "F3" /\ MonitorOpens))
  /\ UNCHANGED at

Keys == {"q", " ", "s", "n", "r", "F2", "F3", "Escape", "Ctrl-]", "Char", "Enter", "Erase"}

\* What the letters are to the monitor and to the guest.
AsText(key) == IF key \in {"q", " ", "s", "n", "r"} THEN "Char" ELSE key

handle_key ==
  /\ at = "keys"
  /\ \E key \in Keys :
       IF monitor_focus THEN MonitorKey(AsText(key))
       ELSE IF uart_focus THEN UartKey(AsText(key))
       ELSE CommandKey(key)
  /\ UNCHANGED <<options, ticks, batch, signal_quit, usable, close, boot, late, unpolled,
                 unserved>>

-----------------------------------------------------------------------------
(* What the loop does then.                                                *)

\* The second look at the requests to quit.  What comes after it lets the
\* step or the reset that follows happen.
PollEnd ==
  /\ at = "polled"
  /\ at' = IF debugger_quit_requested THEN "returned" ELSE "dispatch"
  /\ UNCHANGED <<options, vm, ticks, batch, quit, signal_quit, focus, usable, close, boot,
                 ghosts>>

Survives(ok) == ok

\* Mutant: the steps left from before the reset stay.
AfterReset_KeepsSteps == [vm EXCEPT !.state = IF tui THEN "STEPPING" ELSE "RUNNING"]

AfterReset == [state |-> IF tui THEN "STEPPING" ELSE "RUNNING", steps |-> 0]

\* board_reset() clears RAM and fails, or loads it and resets the processor;
\* platform_reset() and debugger_board_reset() do the rest.
Booted(ok) ==
  [p \in Parts |-> IF p = "ram" THEN 1 - boot[p]
                   ELSE IF p = "cpu" /\ ~ok THEN boot[p]
                   ELSE IF Survives(ok) THEN 1 - boot[p] ELSE boot[p]]

Reset ==
  /\ at = "dispatch" /\ vm.state = "RESET"
  /\ \E ok \in BOOLEAN :
       /\ boot' = Booted(ok)
       /\ IF Survives(ok)
          THEN /\ at' = "top" /\ vm' = AfterReset
               /\ due' = (IF tui THEN 0 ELSE Free)
               /\ uart_focus' = FALSE /\ monitor_focus' = FALSE /\ line' = FALSE
          ELSE /\ at' = "failed"
               /\ UNCHANGED <<vm, due, focus>>
  /\ UNCHANGED <<options, ticks, batch, quit, signal_quit, usable, close, late, unpolled,
                 unserved>>

\* Mutant: one more than the limit.
LimitReached_Late(n) == max_ticks # 0 /\ n > max_ticks

LimitReached(n) == max_ticks # 0 /\ n >= max_ticks

\* cpu_step(), update_cycle() and the count; to is where the loop goes on.
Tick(to) ==
  LET n == IF max_ticks = 0 THEN 0 ELSE ticks + 1
  IN  /\ ticks' = n
      /\ at' = IF LimitReached(n) THEN "returned" ELSE to
      /\ due' = IF due = Free THEN Free ELSE due - 1
      /\ late' = IF debugger_quit_requested THEN late + 1 ELSE late
      /\ unpolled' = unpolled + 1

\* Mutant: the display is not serviced.
service_callback_Skipped == UNCHANGED <<close, quit>> /\ unserved' = TRUE

\* service_sdl(), or nothing without a display.
service_callback ==
  /\ quit' = (quit \/ (sdl /\ close))
  /\ close' = FALSE
  /\ unserved' = FALSE

Stepping ==
  /\ at = "dispatch" /\ vm.state = "STEPPING" /\ vm.steps # 0
  /\ Tick("top")
  /\ vm' = [vm EXCEPT !.steps = @ - 1]
  /\ IF at' = "returned" THEN unserved' = TRUE /\ UNCHANGED <<close, quit>>
     ELSE service_callback
  /\ UNCHANGED <<options, batch, signal_quit, focus, usable, boot>>

BatchLength == IF tui THEN TUI_BATCH ELSE HEADLESS_BATCH

BatchBegin ==
  /\ at = "dispatch" /\ vm.state = "RUNNING"
  /\ at' = "batch"
  /\ batch' = BatchLength
  /\ UNCHANGED <<options, vm, ticks, quit, signal_quit, focus, usable, close, boot, ghosts>>

\* Mutant: the batch is finished whatever happens.
BatchGoesOn_Blindly == batch > 0

BatchGoesOn == batch > 0 /\ vm.state = "RUNNING" /\ ~debugger_quit_requested

\* In two steps: the condition, and what it allowed.  A signal fits between.
BatchCheck ==
  /\ at = "batch" /\ batch >= 0
  /\ IF BatchGoesOn
     THEN /\ batch' = - batch        \* negative: a step has been decided
          /\ UNCHANGED <<at, close, quit, unserved>>
     ELSE /\ at' = "top" /\ batch' = 0
          /\ service_callback
  /\ UNCHANGED <<options, vm, ticks, signal_quit, focus, usable, boot, due, late, unpolled>>

BatchStep ==
  /\ at = "batch" /\ batch < 0
  /\ Tick("batch")
  /\ batch' = IF at' = "batch" THEN - batch - 1 ELSE 0
  /\ unserved' = TRUE
  /\ UNCHANGED <<options, vm, quit, signal_quit, focus, usable, close, boot>>

\* Paused.
Idle ==
  /\ at = "dispatch" /\ Halted
  /\ at' = "top"
  /\ UNCHANGED <<options, vm, ticks, batch, quit, signal_quit, focus, usable, close, boot,
                 ghosts>>

-----------------------------------------------------------------------------
(* What comes from outside.                                                *)

Signal ==
  /\ ~Ended /\ ~signal_quit
  /\ signal_quit' = TRUE
  /\ UNCHANGED <<options, vm, ticks, at, batch, quit, focus, usable, close, boot, ghosts>>

CloseWindow ==
  /\ ~Ended /\ sdl /\ ~close
  /\ close' = TRUE
  /\ UNCHANGED <<options, vm, ticks, at, batch, quit, signal_quit, focus, usable, boot, ghosts>>

ResizeTerminal ==
  /\ ~Ended /\ tui
  /\ usable' = ~usable
  /\ UNCHANGED <<options, vm, ticks, at, batch, quit, signal_quit, focus, close, boot, ghosts>>

RunInit ==
  /\ tui \in BOOLEAN /\ sdl \in BOOLEAN /\ max_ticks \in LIMITS
  /\ vm \in IF tui THEN {Hold, [state |-> "RUNNING", steps |-> 0]}
            ELSE {[state |-> "RUNNING", steps |-> 0]}
  /\ ticks = 0 /\ at = "top" /\ batch = 0
  /\ quit = FALSE /\ signal_quit = FALSE
  /\ uart_focus = FALSE /\ monitor_focus = FALSE /\ line = FALSE
  /\ usable = TRUE /\ close = FALSE
  /\ boot = [p \in Parts |-> 0]
  /\ due = IF Halted THEN 0 ELSE Free
  /\ late = 0 /\ unpolled = 0 /\ unserved = FALSE

Advance ==
  \/ PollBegin
  \/ NoKey
  \/ PollEnd
  \/ Reset
  \/ Stepping
  \/ BatchBegin
  \/ BatchCheck
  \/ BatchStep
  \/ Idle

Outside == handle_key \/ HeadlessQuit \/ Signal \/ CloseWindow \/ ResizeTerminal

RunNext == Advance \/ Outside

RunSpec == RunInit /\ [][RunNext]_run_vars


-----------------------------------------------------------------------------
RunTypeOK ==
  /\ vm \in [state : {"RESET", "RUNNING", "STEPPING"}, steps : 0 .. MANY]
  /\ at \in Places /\ batch \in - BatchLength .. BatchLength
  /\ max_ticks \in LIMITS /\ {tui, sdl} \subseteq BOOLEAN
  /\ {quit, signal_quit, uart_focus, monitor_focus, line, usable, close, unserved}
       \subseteq BOOLEAN
  /\ boot \in [Parts -> {0, 1}] /\ ticks \in Nat
  /\ due \in {Free} \union 0 .. MANY
  /\ {late, unpolled} \subseteq Nat

(* A paused machine executes exactly the steps that were asked for: the     *)
(* keys s, n and space replace what is left of an earlier request, and a    *)
(* reset cancels it (runloop.c, "status->steps = 0").                       *)
StepsExact == due # Free => vm = [state |-> "STEPPING", steps |-> due]

(* The monitor, whose commands write to the processor and to memory, has    *)
(* the keyboard only while the machine stands still, and no part of a       *)
(* command survives the loss of its focus.                                  *)
MonitorOnHalted ==
  /\ monitor_focus => Halted /\ ~uart_focus
  /\ line => monitor_focus

(* At most one step is executed after somebody asked to quit, also when a   *)
(* signal arrives between the loop's check and the step it allows.          *)
QuitsSoon == late <= 1

(* The debugger sees a key after TUI_BATCH steps at the latest, the         *)
(* terminal after HEADLESS_BATCH.                                           *)
PollsOften == unpolled <= IF tui THEN TUI_BATCH ELSE HEADLESS_BATCH

(* Before the loop waits for a key the display has seen every step.         *)
ShownBeforeWaiting == at \in {"top", "keys"} => ~unserved

(* The tick limit is exact: the loop ends with the step that reaches it,    *)
(* whether it was reached in a batch or in a single step.                   *)
LimitExact ==
  max_ticks # 0 => ticks <= max_ticks /\ (ticks = max_ticks => at = "returned")

(* The loop stops when it is told to: a request to quit takes effect before *)
(* a second step, and the tick limit after exactly that many.               *)
StopsExactly == QuitsSoon /\ LimitExact

(* No step executes on a machine whose reset failed halfway or left a part  *)
(* in the state of an earlier boot.                                         *)
SameBoot == ~Ended => \A p, q \in Parts : boot[p] = boot[q]

(* The TUI's key r resets the machine: once asked for, the reset is what    *)
(* the loop does next, unless it ends (README.md, "TUI 中的 `r` 会清空 RAM、     *)
(* 重新加载 ELF/DTB 并复位 CPU 和 UART").  The code lets the next key of the same   *)
(* poll overwrite the request.                                              *)
ResetHonoured == [][vm.state = "RESET" /\ vm'.state # "RESET" => boot' # boot]_run_vars

(* A request to quit ends the loop, wherever it strikes.                    *)
QuitEnds == (quit \/ signal_quit) ~> Ended

(* A closed window ends the loop, unless the machine is paused, in which    *)
(* case nobody looks at the window.                                         *)
CloseIsSeen == close ~> (Ended \/ Halted)

(* In every state the loop is well formed, keeps polling, lets the monitor  *)
(* at a machine at rest only, shows what it did before it waits, and runs   *)
(* no half-reset machine.                                                   *)
LoopSafe == RunTypeOK /\ PollsOften /\ MonitorOnHalted /\ ShownBeforeWaiting /\ SameBoot

(* Whoever asks for the end gets it: by key, by signal or by the window.    *)
LoopEnds == QuitEnds /\ CloseIsSeen
=============================================================================

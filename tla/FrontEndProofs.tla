--------------------------- MODULE FrontEndProofs ---------------------------
(***************************************************************************)
(* Theorems about the two front ends of the emulator: the run loop behind  *)
(* the command line, for every length of the batches, every number of      *)
(* steps of the key n and every set of tick limits; and the desktop        *)
(* window, for every number of loads and every length of a batch.          *)
(***************************************************************************)
EXTENDS RunLoop, Desktop, TLAPS

(* A batch runs a running machine, so no number of steps is due in it.      *)
StepInv ==
  /\ StepsExact
  /\ at = "batch" => vm.state = "RUNNING"
  /\ due \in Int /\ vm.state \in {"RESET", "RUNNING", "STEPPING"}
  /\ vm = [state |-> vm.state, steps |-> vm.steps]

(* Once a step was executed behind a request to quit, the loop is at a      *)
(* place where it looks at the request before it executes another.          *)
QuitInv ==
  /\ late \in {0, 1}
  /\ late = 1 =>
       /\ debugger_quit_requested
       /\ at \in {"top", "returned"} \/ (at = "batch" /\ batch >= 0)
  /\ batch \in Int

(* What is left of the batch and what was executed of it make up its        *)
(* length; between the poll and the batch nothing has been executed.        *)
PollInv ==
  /\ batch \in Int /\ unpolled \in Nat /\ unpolled <= BatchLength
  /\ at \in {"keys", "polled", "dispatch"} => unpolled = 0
  /\ at = "batch" => unpolled + batch <= BatchLength /\ unpolled - batch <= BatchLength

(* The limit, and that it is a number.                                      *)
LimitInv == LimitExact /\ ticks \in Nat /\ max_ticks \in Nat

(* Only in a batch, or behind a step that ended the loop, has the display   *)
(* not seen everything.                                                     *)
ShownInv == at \notin {"batch", "returned"} => ~unserved

(* The type invariant in three parts.                                       *)
CountsOK ==
  /\ vm \in [state : {"RESET", "RUNNING", "STEPPING"}, steps : 0 .. MANY]
  /\ due \in {Free} \union 0 .. MANY
  /\ ticks \in Nat /\ late \in Nat /\ unpolled \in Nat

PlaceOK == at \in Places /\ batch \in - BatchLength .. BatchLength

FlagsOK ==
  /\ max_ticks \in LIMITS /\ tui \in BOOLEAN /\ sdl \in BOOLEAN
  /\ quit \in BOOLEAN /\ signal_quit \in BOOLEAN
  /\ uart_focus \in BOOLEAN /\ monitor_focus \in BOOLEAN /\ line \in BOOLEAN
  /\ usable \in BOOLEAN /\ close \in BOOLEAN /\ unserved \in BOOLEAN
  /\ boot \in [Parts -> {0, 1}]

LEMMA TypeParts == RunTypeOK <=> CountsOK /\ PlaceOK /\ FlagsOK
  BY Zenon DEF RunTypeOK, CountsOK, PlaceOK, FlagsOK

LEMMA TypePartsNext == RunTypeOK' <=> CountsOK' /\ PlaceOK' /\ FlagsOK'
  BY Zenon DEF RunTypeOK, CountsOK, PlaceOK, FlagsOK

(* The parts of the machine are in one boot until a reset fails.            *)
BootInv == SameBoot /\ boot \in [Parts -> {0, 1}]

LEMMA StepInductive == StepInv /\ [RunNext]_run_vars => StepInv'
<1>. SUFFICES ASSUME StepInv, [RunNext]_run_vars PROVE StepInv'
  OBVIOUS
<1>. USE RunAssumption
<1>1. QED
  <2>1. CASE PollBegin
    BY <2>1 DEF PollBegin, debugger_quit_requested, Halted, options, focus, ghosts,
       StepInv, StepsExact, Free
  <2>2. CASE NoKey
    BY <2>2 DEF NoKey, options, focus, ghosts, StepInv, StepsExact, Free
  <2>3. CASE PollEnd
    BY <2>3 DEF PollEnd, debugger_quit_requested, options, focus, ghosts, StepInv,
       StepsExact, Free
  <2>4. CASE Reset
    BY <2>4 DEF Reset, Booted, Survives, AfterReset, options, focus, ghosts, StepInv,
       StepsExact, Free
  <2>5. CASE Stepping
    BY <2>5 DEF Stepping, Tick, LimitReached, service_callback, debugger_quit_requested,
       options, focus, ghosts, StepInv, StepsExact, Free
  <2>6. CASE BatchBegin
    BY <2>6 DEF BatchBegin, BatchLength, options, focus, ghosts, StepInv, StepsExact, Free
  <2>7. CASE BatchCheck
    BY <2>7 DEF BatchCheck, BatchGoesOn, service_callback, debugger_quit_requested,
       options, focus, ghosts, StepInv, StepsExact, Free
  <2>8. CASE BatchStep
    BY <2>8 DEF BatchStep, Tick, LimitReached, debugger_quit_requested, options, focus,
       ghosts, StepInv, StepsExact, Free
  <2>9. CASE Idle
    BY <2>9 DEF Idle, Halted, options, focus, ghosts, StepInv, StepsExact, Free
  <2>10. CASE handle_key
    <3>1. at = "keys" /\ at' \in {"keys", "polled"} /\ UNCHANGED batch
      BY <2>10 DEF handle_key, MonitorKey, UartKey, CommandKey
    <3>2. CASE UNCHANGED <<vm, due>>
      BY <3>1, <3>2 DEF StepInv, StepsExact, Free
    <3>3. PICK key \in Keys : UNCHANGED <<vm, due>> \/ CommandKey(key)
      BY <2>10 DEF handle_key, MonitorKey, UartKey
    <3>4. CASE CommandKey(key)
      <4>1. CASE key = " "
        <5>1. vm' = Space /\ due' = IF Halted THEN Free ELSE 0
          BY <3>4, <4>1 DEF CommandKey
        <5>2. QED BY <3>1, <5>1 DEF Space, Hold, Go, Halted, StepInv, StepsExact, Free
      <4>2. CASE key = "s"
        <5>1. vm' = [state |-> "STEPPING", steps |-> 1] /\ due' = 1
          BY <3>4, <4>2 DEF CommandKey
        <5>2. QED BY <3>1, <5>1 DEF StepInv, StepsExact, Free
      <4>3. CASE key = "n"
        <5>1. vm' = [state |-> "STEPPING", steps |-> MANY] /\ due' = MANY
          BY <3>4, <4>3 DEF CommandKey
        <5>2. QED BY <3>1, <5>1 DEF StepInv, StepsExact, Free
      <4>4. CASE key = "r"
        <5>1. vm' = [vm EXCEPT !.state = "RESET"] /\ due' = Free
          BY <3>4, <4>4 DEF CommandKey
        <5>2. QED BY <3>1, <5>1 DEF StepInv, StepsExact, Free
      <4>5. CASE key \notin {" ", "s", "n", "r"}
        BY <3>2, <3>4, <4>5 DEF CommandKey, Keys
      <4>6. QED BY <4>1, <4>2, <4>3, <4>4, <4>5
    <3>5. QED BY <3>2, <3>3, <3>4
  <2>11. CASE HeadlessQuit
    BY <2>11 DEF HeadlessQuit, options, focus, ghosts, StepInv, StepsExact, Free
  <2>12. CASE Signal
    BY <2>12 DEF Signal, Ended, options, focus, ghosts, StepInv, StepsExact, Free
  <2>13. CASE CloseWindow
    BY <2>13 DEF CloseWindow, Ended, options, focus, ghosts, StepInv, StepsExact, Free
  <2>14. CASE ResizeTerminal
    BY <2>14 DEF ResizeTerminal, Ended, options, focus, ghosts, StepInv, StepsExact, Free
  <2>15. CASE UNCHANGED run_vars
    BY <2>15 DEF run_vars, options, focus, ghosts, StepInv, StepsExact, Free
  <2>16. QED
    BY <2>1, <2>2, <2>3, <2>4, <2>5, <2>6, <2>7, <2>8, <2>9, <2>10, <2>11, <2>12, <2>13,
       <2>14, <2>15 DEF RunNext, Advance, Outside

LEMMA MonitorInductive == MonitorOnHalted /\ [RunNext]_run_vars => MonitorOnHalted'
<1>. SUFFICES ASSUME MonitorOnHalted, [RunNext]_run_vars PROVE MonitorOnHalted'
  OBVIOUS
<1>. USE RunAssumption
<1>1. QED
  <2>1. CASE PollBegin
    BY <2>1 DEF PollBegin, debugger_quit_requested, Halted, options, focus, ghosts,
       MonitorOnHalted
  <2>2. CASE NoKey
    BY <2>2 DEF NoKey, options, focus, ghosts, MonitorOnHalted, Halted
  <2>3. CASE PollEnd
    BY <2>3 DEF PollEnd, debugger_quit_requested, options, focus, ghosts,
       MonitorOnHalted, Halted
  <2>4. CASE Reset
    BY <2>4 DEF Reset, Booted, Survives, AfterReset, options, focus, ghosts,
       MonitorOnHalted, Halted
  <2>5. CASE Stepping
    BY <2>5 DEF Stepping, Tick, LimitReached, service_callback, debugger_quit_requested,
       options, focus, ghosts, MonitorOnHalted, Halted
  <2>6. CASE BatchBegin
    BY <2>6 DEF BatchBegin, BatchLength, options, focus, ghosts, MonitorOnHalted, Halted
  <2>7. CASE BatchCheck
    BY <2>7 DEF BatchCheck, BatchGoesOn, service_callback, debugger_quit_requested,
       options, focus, ghosts, MonitorOnHalted, Halted
  <2>8. CASE BatchStep
    BY <2>8 DEF BatchStep, Tick, LimitReached, debugger_quit_requested, options, focus,
       ghosts, MonitorOnHalted, Halted
  <2>9. CASE Idle
    BY <2>9 DEF Idle, Halted, options, focus, ghosts, MonitorOnHalted
  <2>10. CASE handle_key
    BY <2>10 DEF handle_key, Keys, AsText, MonitorKey, UartKey, CommandKey, Space, Hold,
       Go, Halted, MonitorOpens, options, focus, ghosts, MonitorOnHalted
  <2>11. CASE HeadlessQuit
    BY <2>11 DEF HeadlessQuit, options, focus, ghosts, MonitorOnHalted, Halted
  <2>12. CASE Signal
    BY <2>12 DEF Signal, Ended, options, focus, ghosts, MonitorOnHalted, Halted
  <2>13. CASE CloseWindow
    BY <2>13 DEF CloseWindow, Ended, options, focus, ghosts, MonitorOnHalted, Halted
  <2>14. CASE ResizeTerminal
    BY <2>14 DEF ResizeTerminal, Ended, options, focus, ghosts, MonitorOnHalted, Halted
  <2>15. CASE UNCHANGED run_vars
    BY <2>15 DEF run_vars, options, focus, ghosts, MonitorOnHalted, Halted
  <2>16. QED
    BY <2>1, <2>2, <2>3, <2>4, <2>5, <2>6, <2>7, <2>8, <2>9, <2>10, <2>11, <2>12, <2>13,
       <2>14, <2>15 DEF RunNext, Advance, Outside

LEMMA QuitInductive == QuitInv /\ [RunNext]_run_vars => QuitInv'
<1>. SUFFICES ASSUME QuitInv, [RunNext]_run_vars PROVE QuitInv'
  OBVIOUS
<1>. USE RunAssumption
<1>1. QED
  <2>1. CASE PollBegin
    BY <2>1 DEF PollBegin, debugger_quit_requested, Halted, options, focus, ghosts,
       QuitInv
  <2>2. CASE NoKey
    BY <2>2 DEF NoKey, options, focus, ghosts, QuitInv, debugger_quit_requested
  <2>3. CASE PollEnd
    BY <2>3 DEF PollEnd, debugger_quit_requested, options, focus, ghosts, QuitInv
  <2>4. CASE Reset
    BY <2>4 DEF Reset, Booted, Survives, AfterReset, options, focus, ghosts, QuitInv,
       debugger_quit_requested
  <2>5. CASE Stepping
    <3>1. late' = (IF debugger_quit_requested THEN late + 1 ELSE late) /\ UNCHANGED batch
      BY <2>5 DEF Stepping, Tick
    <3>2. at = "dispatch" /\ at' \in {"top", "returned"}
      BY <2>5 DEF Stepping, Tick
    <3>3. debugger_quit_requested => debugger_quit_requested'
      BY <2>5, Zenon DEF Stepping, service_callback, debugger_quit_requested
    <3>4. QED
      <4>. HIDE DEF debugger_quit_requested
      <4>. QED BY <3>1, <3>2, <3>3 DEF QuitInv
  <2>6. CASE BatchBegin
    BY <2>6 DEF BatchBegin, BatchLength, options, focus, ghosts, QuitInv,
       debugger_quit_requested
  <2>7. CASE BatchCheck
    <3>1. UNCHANGED late /\ at = "batch" /\ batch' \in Int
      BY <2>7 DEF BatchCheck, QuitInv, ghosts
    <3>2. debugger_quit_requested => at' = "top"
      BY <2>7 DEF BatchCheck, BatchGoesOn
    <3>3. debugger_quit_requested => debugger_quit_requested'
      BY <2>7, Zenon DEF BatchCheck, service_callback, debugger_quit_requested
    <3>4. QED
      <4>. HIDE DEF debugger_quit_requested
      <4>. QED BY <3>1, <3>2, <3>3 DEF QuitInv
  <2>8. CASE BatchStep
    BY <2>8 DEF BatchStep, Tick, LimitReached, debugger_quit_requested, options, focus,
       ghosts, QuitInv
  <2>9. CASE Idle
    BY <2>9 DEF Idle, Halted, options, focus, ghosts, QuitInv, debugger_quit_requested
  <2>10. CASE handle_key
    BY <2>10 DEF handle_key, Keys, AsText, MonitorKey, UartKey, CommandKey, Space, Hold,
       Go, Halted, MonitorOpens, options, focus, ghosts, QuitInv, debugger_quit_requested
  <2>11. CASE HeadlessQuit
    BY <2>11 DEF HeadlessQuit, options, focus, ghosts, QuitInv, debugger_quit_requested
  <2>12. CASE Signal
    BY <2>12 DEF Signal, Ended, options, focus, ghosts, QuitInv, debugger_quit_requested
  <2>13. CASE CloseWindow
    BY <2>13 DEF CloseWindow, Ended, options, focus, ghosts, QuitInv,
       debugger_quit_requested
  <2>14. CASE ResizeTerminal
    BY <2>14 DEF ResizeTerminal, Ended, options, focus, ghosts, QuitInv,
       debugger_quit_requested
  <2>15. CASE UNCHANGED run_vars
    BY <2>15 DEF run_vars, options, focus, ghosts, QuitInv, debugger_quit_requested
  <2>16. QED
    BY <2>1, <2>2, <2>3, <2>4, <2>5, <2>6, <2>7, <2>8, <2>9, <2>10, <2>11, <2>12, <2>13,
       <2>14, <2>15 DEF RunNext, Advance, Outside

LEMMA PollInductive == PollInv /\ [RunNext]_run_vars => PollInv'
<1>. SUFFICES ASSUME PollInv, [RunNext]_run_vars PROVE PollInv'
  OBVIOUS
<1>. USE RunAssumption
<1>1. QED
  <2>1. CASE PollBegin
    BY <2>1 DEF PollBegin, debugger_quit_requested, Halted, options, focus, ghosts,
       PollInv, BatchLength
  <2>2. CASE NoKey
    BY <2>2 DEF NoKey, options, focus, ghosts, PollInv, BatchLength
  <2>3. CASE PollEnd
    BY <2>3 DEF PollEnd, debugger_quit_requested, options, focus, ghosts, PollInv,
       BatchLength
  <2>4. CASE Reset
    BY <2>4 DEF Reset, Booted, Survives, AfterReset, options, focus, ghosts, PollInv,
       BatchLength
  <2>5. CASE Stepping
    BY <2>5 DEF Stepping, Tick, LimitReached, service_callback, debugger_quit_requested,
       options, focus, ghosts, PollInv, BatchLength
  <2>6. CASE BatchBegin
    BY <2>6 DEF BatchBegin, BatchLength, options, focus, ghosts, PollInv
  <2>7. CASE BatchCheck
    BY <2>7 DEF BatchCheck, BatchGoesOn, service_callback, debugger_quit_requested,
       options, focus, ghosts, PollInv, BatchLength
  <2>8. CASE BatchStep
    BY <2>8 DEF BatchStep, Tick, LimitReached, debugger_quit_requested, options, focus,
       ghosts, PollInv, BatchLength
  <2>9. CASE Idle
    BY <2>9 DEF Idle, Halted, options, focus, ghosts, PollInv, BatchLength
  <2>10. CASE handle_key
    BY <2>10 DEF handle_key, Keys, AsText, MonitorKey, UartKey, CommandKey, Space, Hold,
       Go, Halted, MonitorOpens, options, focus, ghosts, PollInv, BatchLength
  <2>11. CASE HeadlessQuit
    BY <2>11 DEF HeadlessQuit, options, focus, ghosts, PollInv, BatchLength
  <2>12. CASE Signal
    BY <2>12 DEF Signal, Ended, options, focus, ghosts, PollInv, BatchLength
  <2>13. CASE CloseWindow
    BY <2>13 DEF CloseWindow, Ended, options, focus, ghosts, PollInv, BatchLength
  <2>14. CASE ResizeTerminal
    BY <2>14 DEF ResizeTerminal, Ended, options, focus, ghosts, PollInv, BatchLength
  <2>15. CASE UNCHANGED run_vars
    BY <2>15 DEF run_vars, options, focus, ghosts, PollInv, BatchLength
  <2>16. QED
    BY <2>1, <2>2, <2>3, <2>4, <2>5, <2>6, <2>7, <2>8, <2>9, <2>10, <2>11, <2>12, <2>13,
       <2>14, <2>15 DEF RunNext, Advance, Outside

LEMMA LimitInductive == LimitInv /\ [RunNext]_run_vars => LimitInv'
<1>. SUFFICES ASSUME LimitInv, [RunNext]_run_vars PROVE LimitInv'
  OBVIOUS
<1>. USE RunAssumption
<1>1. QED
  <2>1. CASE PollBegin
    BY <2>1 DEF PollBegin, debugger_quit_requested, Halted, options, focus, ghosts,
       LimitInv, LimitExact
  <2>2. CASE NoKey
    BY <2>2 DEF NoKey, options, focus, ghosts, LimitInv, LimitExact
  <2>3. CASE PollEnd
    BY <2>3 DEF PollEnd, debugger_quit_requested, options, focus, ghosts, LimitInv,
       LimitExact
  <2>4. CASE Reset
    BY <2>4 DEF Reset, Booted, Survives, AfterReset, options, focus, ghosts, LimitInv,
       LimitExact
  <2>5. CASE Stepping
    BY <2>5 DEF Stepping, Tick, LimitReached, service_callback, debugger_quit_requested,
       options, focus, ghosts, LimitInv, LimitExact
  <2>6. CASE BatchBegin
    BY <2>6 DEF BatchBegin, BatchLength, options, focus, ghosts, LimitInv, LimitExact
  <2>7. CASE BatchCheck
    BY <2>7 DEF BatchCheck, BatchGoesOn, service_callback, debugger_quit_requested,
       options, focus, ghosts, LimitInv, LimitExact
  <2>8. CASE BatchStep
    BY <2>8 DEF BatchStep, Tick, LimitReached, debugger_quit_requested, options, focus,
       ghosts, LimitInv, LimitExact
  <2>9. CASE Idle
    BY <2>9 DEF Idle, Halted, options, focus, ghosts, LimitInv, LimitExact
  <2>10. CASE handle_key
    BY <2>10 DEF handle_key, Keys, AsText, MonitorKey, UartKey, CommandKey, Space, Hold,
       Go, Halted, MonitorOpens, options, focus, ghosts, LimitInv, LimitExact
  <2>11. CASE HeadlessQuit
    BY <2>11 DEF HeadlessQuit, options, focus, ghosts, LimitInv, LimitExact
  <2>12. CASE Signal
    BY <2>12 DEF Signal, Ended, options, focus, ghosts, LimitInv, LimitExact
  <2>13. CASE CloseWindow
    BY <2>13 DEF CloseWindow, Ended, options, focus, ghosts, LimitInv, LimitExact
  <2>14. CASE ResizeTerminal
    BY <2>14 DEF ResizeTerminal, Ended, options, focus, ghosts, LimitInv, LimitExact
  <2>15. CASE UNCHANGED run_vars
    BY <2>15 DEF run_vars, options, focus, ghosts, LimitInv, LimitExact
  <2>16. QED
    BY <2>1, <2>2, <2>3, <2>4, <2>5, <2>6, <2>7, <2>8, <2>9, <2>10, <2>11, <2>12, <2>13,
       <2>14, <2>15 DEF RunNext, Advance, Outside

LEMMA ShownInductive ==
  ASSUME ShownInv, [RunNext]_run_vars
  PROVE  ShownInv'
<1>. USE RunAssumption
<1>1. CASE PollBegin
  BY <1>1 DEF PollBegin, debugger_quit_requested, Halted, options, focus, ghosts, ShownInv
<1>2. CASE NoKey
  BY <1>2 DEF NoKey, options, focus, ghosts, ShownInv
<1>3. CASE PollEnd
  BY <1>3 DEF PollEnd, debugger_quit_requested, options, focus, ghosts, ShownInv
<1>4. CASE Reset
  BY <1>4 DEF Reset, Booted, Survives, AfterReset, options, focus, ghosts, ShownInv
<1>5. CASE Stepping
  BY <1>5 DEF Stepping, Tick, LimitReached, service_callback, debugger_quit_requested,
     options, focus, ghosts, ShownInv
<1>6. CASE BatchBegin
  BY <1>6 DEF BatchBegin, BatchLength, options, focus, ghosts, ShownInv
<1>7. CASE BatchCheck
  BY <1>7 DEF BatchCheck, BatchGoesOn, service_callback, debugger_quit_requested,
     options, focus, ghosts, ShownInv
<1>8. CASE BatchStep
  BY <1>8 DEF BatchStep, Tick, LimitReached, debugger_quit_requested, options, focus,
     ghosts, ShownInv
<1>9. CASE Idle
  BY <1>9 DEF Idle, Halted, options, focus, ghosts, ShownInv
<1>10. CASE handle_key
  BY <1>10 DEF handle_key, Keys, AsText, MonitorKey, UartKey, CommandKey, Space, Hold,
     Go, Halted, MonitorOpens, options, focus, ghosts, ShownInv
<1>11. CASE HeadlessQuit
  BY <1>11 DEF HeadlessQuit, options, focus, ghosts, ShownInv
<1>12. CASE Signal
  BY <1>12 DEF Signal, Ended, options, focus, ghosts, ShownInv
<1>13. CASE CloseWindow
  BY <1>13 DEF CloseWindow, Ended, options, focus, ghosts, ShownInv
<1>14. CASE ResizeTerminal
  BY <1>14 DEF ResizeTerminal, Ended, options, focus, ghosts, ShownInv
<1>15. CASE UNCHANGED run_vars
  BY <1>15 DEF run_vars, options, focus, ghosts, ShownInv
<1>16. QED
  BY <1>1, <1>2, <1>3, <1>4, <1>5, <1>6, <1>7, <1>8, <1>9, <1>10, <1>11, <1>12, <1>13,
     <1>14, <1>15 DEF RunNext, Advance, Outside

LEMMA BootInductive ==
  ASSUME BootInv, [RunNext]_run_vars
  PROVE  BootInv'
<1>. USE RunAssumption
<1>1. CASE PollBegin
  BY <1>1 DEF PollBegin, debugger_quit_requested, Halted, options, focus, ghosts,
     BootInv, SameBoot, Ended, Parts
<1>2. CASE NoKey
  BY <1>2 DEF NoKey, options, focus, ghosts, BootInv, SameBoot, Ended, Parts
<1>3. CASE PollEnd
  BY <1>3 DEF PollEnd, debugger_quit_requested, options, focus, ghosts, BootInv,
     SameBoot, Ended, Parts
<1>4. CASE Reset
  BY <1>4 DEF Reset, Booted, Survives, AfterReset, options, focus, ghosts, BootInv,
     SameBoot, Ended, Parts
<1>5. CASE Stepping
  BY <1>5 DEF Stepping, Tick, LimitReached, service_callback, debugger_quit_requested,
     options, focus, ghosts, BootInv, SameBoot, Ended, Parts
<1>6. CASE BatchBegin
  BY <1>6 DEF BatchBegin, BatchLength, options, focus, ghosts, BootInv, SameBoot, Ended,
     Parts
<1>7. CASE BatchCheck
  BY <1>7 DEF BatchCheck, BatchGoesOn, service_callback, debugger_quit_requested,
     options, focus, ghosts, BootInv, SameBoot, Ended, Parts
<1>8. CASE BatchStep
  BY <1>8 DEF BatchStep, Tick, LimitReached, debugger_quit_requested, options, focus,
     ghosts, BootInv, SameBoot, Ended, Parts
<1>9. CASE Idle
  BY <1>9 DEF Idle, Halted, options, focus, ghosts, BootInv, SameBoot, Ended, Parts
<1>10. CASE handle_key
  BY <1>10 DEF handle_key, Keys, AsText, MonitorKey, UartKey, CommandKey, Space, Hold,
     Go, Halted, MonitorOpens, options, focus, ghosts, BootInv, SameBoot, Ended, Parts
<1>11. CASE HeadlessQuit
  BY <1>11 DEF HeadlessQuit, options, focus, ghosts, BootInv, SameBoot, Ended, Parts
<1>12. CASE Signal
  BY <1>12 DEF Signal, Ended, options, focus, ghosts, BootInv, SameBoot, Parts
<1>13. CASE CloseWindow
  BY <1>13 DEF CloseWindow, Ended, options, focus, ghosts, BootInv, SameBoot, Parts
<1>14. CASE ResizeTerminal
  BY <1>14 DEF ResizeTerminal, Ended, options, focus, ghosts, BootInv, SameBoot, Parts
<1>15. CASE UNCHANGED run_vars
  BY <1>15 DEF run_vars, options, focus, ghosts, BootInv, SameBoot, Ended, Parts
<1>16. QED
  BY <1>1, <1>2, <1>3, <1>4, <1>5, <1>6, <1>7, <1>8, <1>9, <1>10, <1>11, <1>12, <1>13,
     <1>14, <1>15 DEF RunNext, Advance, Outside

LEMMA CountsInductive ==
  ASSUME CountsOK, StepInv, [RunNext]_run_vars
  PROVE  CountsOK'
<1>. USE RunAssumption
<1>1. CASE PollBegin
  BY <1>1 DEF PollBegin, debugger_quit_requested, Halted, options, focus, ghosts,
     CountsOK, StepInv, StepsExact, Free
<1>2. CASE NoKey
  BY <1>2 DEF NoKey, options, focus, ghosts, CountsOK, StepInv, StepsExact, Free
<1>3. CASE PollEnd
  BY <1>3 DEF PollEnd, debugger_quit_requested, options, focus, ghosts, CountsOK,
     StepInv, StepsExact, Free
<1>4. CASE Reset
  BY <1>4 DEF Reset, Booted, Survives, AfterReset, options, focus, ghosts, CountsOK,
     StepInv, StepsExact, Free
<1>5. CASE Stepping
  BY <1>5 DEF Stepping, Tick, LimitReached, service_callback, debugger_quit_requested,
     options, focus, ghosts, CountsOK, StepInv, StepsExact, Free
<1>6. CASE BatchBegin
  BY <1>6 DEF BatchBegin, BatchLength, options, focus, ghosts, CountsOK, StepInv,
     StepsExact, Free
<1>7. CASE BatchCheck
  BY <1>7 DEF BatchCheck, BatchGoesOn, service_callback, debugger_quit_requested,
     options, focus, ghosts, CountsOK, StepInv, StepsExact, Free
<1>8. CASE BatchStep
  BY <1>8 DEF BatchStep, Tick, LimitReached, debugger_quit_requested, options, focus,
     ghosts, CountsOK, StepInv, StepsExact, Free
<1>9. CASE Idle
  BY <1>9 DEF Idle, Halted, options, focus, ghosts, CountsOK, StepInv, StepsExact, Free
<1>10. CASE handle_key
  <2>1. UNCHANGED <<ticks, late, unpolled>>
    BY <1>10 DEF handle_key
  <2>2. PICK key \in Keys : UNCHANGED <<vm, due>> \/ CommandKey(key)
    BY <1>10 DEF handle_key, MonitorKey, UartKey
  <2>3. CASE UNCHANGED <<vm, due>>
    BY <2>1, <2>3 DEF CountsOK
  <2>4. CASE CommandKey(key)
    <3>1. vm' \in {Space, [state |-> "STEPPING", steps |-> 1],
                   [state |-> "STEPPING", steps |-> MANY], [vm EXCEPT !.state = "RESET"],
                      vm}
      BY <2>4, Zenon DEF CommandKey
    <3>2. due' \in {Free, 0, 1, MANY, due}
      BY <2>4, Zenon DEF CommandKey
    <3>3. QED
      BY <2>1, <3>1, <3>2 DEF CountsOK, Space, Hold, Go, Free
  <2>5. QED BY <2>2, <2>3, <2>4
<1>11. CASE HeadlessQuit
  BY <1>11 DEF HeadlessQuit, options, focus, ghosts, CountsOK, StepInv, StepsExact, Free
<1>12. CASE Signal
  BY <1>12 DEF Signal, Ended, options, focus, ghosts, CountsOK, StepInv, StepsExact, Free
<1>13. CASE CloseWindow
  BY <1>13 DEF CloseWindow, Ended, options, focus, ghosts, CountsOK, StepInv, StepsExact,
     Free
<1>14. CASE ResizeTerminal
  BY <1>14 DEF ResizeTerminal, Ended, options, focus, ghosts, CountsOK, StepInv,
     StepsExact, Free
<1>15. CASE UNCHANGED run_vars
  BY <1>15 DEF run_vars, options, focus, ghosts, CountsOK, StepInv, StepsExact, Free
<1>16. QED
  BY <1>1, <1>2, <1>3, <1>4, <1>5, <1>6, <1>7, <1>8, <1>9, <1>10, <1>11, <1>12, <1>13,
     <1>14, <1>15 DEF RunNext, Advance, Outside

LEMMA PlaceInductive ==
  ASSUME PlaceOK, [RunNext]_run_vars
  PROVE  PlaceOK'
<1>. USE RunAssumption
<1>1. CASE PollBegin
  BY <1>1 DEF PollBegin, debugger_quit_requested, Halted, options, focus, ghosts,
     PlaceOK, BatchLength, Places
<1>2. CASE NoKey
  BY <1>2 DEF NoKey, options, focus, ghosts, PlaceOK, BatchLength, Places
<1>3. CASE PollEnd
  BY <1>3 DEF PollEnd, debugger_quit_requested, options, focus, ghosts, PlaceOK,
     BatchLength, Places
<1>4. CASE Reset
  BY <1>4 DEF Reset, Booted, Survives, AfterReset, options, focus, ghosts, PlaceOK,
     BatchLength, Places
<1>5. CASE Stepping
  BY <1>5 DEF Stepping, Tick, LimitReached, service_callback, debugger_quit_requested,
     options, focus, ghosts, PlaceOK, BatchLength, Places
<1>6. CASE BatchBegin
  BY <1>6 DEF BatchBegin, BatchLength, options, focus, ghosts, PlaceOK, Places
<1>7. CASE BatchCheck
  BY <1>7 DEF BatchCheck, BatchGoesOn, service_callback, debugger_quit_requested,
     options, focus, ghosts, PlaceOK, BatchLength, Places
<1>8. CASE BatchStep
  BY <1>8 DEF BatchStep, Tick, LimitReached, debugger_quit_requested, options, focus,
     ghosts, PlaceOK, BatchLength, Places
<1>9. CASE Idle
  BY <1>9 DEF Idle, Halted, options, focus, ghosts, PlaceOK, BatchLength, Places
<1>10. CASE handle_key
  BY <1>10 DEF handle_key, Keys, AsText, MonitorKey, UartKey, CommandKey, Space, Hold,
     Go, Halted, MonitorOpens, options, focus, ghosts, PlaceOK, BatchLength, Places
<1>11. CASE HeadlessQuit
  BY <1>11 DEF HeadlessQuit, options, focus, ghosts, PlaceOK, BatchLength, Places
<1>12. CASE Signal
  BY <1>12 DEF Signal, Ended, options, focus, ghosts, PlaceOK, BatchLength, Places
<1>13. CASE CloseWindow
  BY <1>13 DEF CloseWindow, Ended, options, focus, ghosts, PlaceOK, BatchLength, Places
<1>14. CASE ResizeTerminal
  BY <1>14 DEF ResizeTerminal, Ended, options, focus, ghosts, PlaceOK, BatchLength, Places
<1>15. CASE UNCHANGED run_vars
  BY <1>15 DEF run_vars, options, focus, ghosts, PlaceOK, BatchLength, Places
<1>16. QED
  BY <1>1, <1>2, <1>3, <1>4, <1>5, <1>6, <1>7, <1>8, <1>9, <1>10, <1>11, <1>12, <1>13,
     <1>14, <1>15 DEF RunNext, Advance, Outside

LEMMA FlagsInductive ==
  ASSUME FlagsOK, BootInv', [RunNext]_run_vars
  PROVE  FlagsOK'
<1>. USE RunAssumption
<1>1. CASE PollBegin
  BY <1>1 DEF PollBegin, debugger_quit_requested, Halted, options, focus, ghosts,
     FlagsOK, BootInv
<1>2. CASE NoKey
  BY <1>2 DEF NoKey, options, focus, ghosts, FlagsOK, BootInv
<1>3. CASE PollEnd
  BY <1>3 DEF PollEnd, debugger_quit_requested, options, focus, ghosts, FlagsOK, BootInv
<1>4. CASE Reset
  BY <1>4 DEF Reset, Booted, Survives, AfterReset, options, focus, ghosts, FlagsOK,
     BootInv
<1>5. CASE Stepping
  BY <1>5 DEF Stepping, Tick, LimitReached, service_callback, debugger_quit_requested,
     options, focus, ghosts, FlagsOK, BootInv
<1>6. CASE BatchBegin
  BY <1>6 DEF BatchBegin, BatchLength, options, focus, ghosts, FlagsOK, BootInv
<1>7. CASE BatchCheck
  BY <1>7 DEF BatchCheck, BatchGoesOn, service_callback, debugger_quit_requested,
     options, focus, ghosts, FlagsOK, BootInv
<1>8. CASE BatchStep
  BY <1>8 DEF BatchStep, Tick, LimitReached, debugger_quit_requested, options, focus,
     ghosts, FlagsOK, BootInv
<1>9. CASE Idle
  BY <1>9 DEF Idle, Halted, options, focus, ghosts, FlagsOK, BootInv
<1>10. CASE handle_key
  <2>1. UNCHANGED <<tui, sdl, max_ticks, signal_quit, usable, close, boot, unserved>>
    BY <1>10 DEF handle_key, options
  <2>2. PICK key \in Keys :
          IF monitor_focus THEN MonitorKey(AsText(key))
          ELSE IF uart_focus THEN UartKey(AsText(key)) ELSE CommandKey(key)
    BY <1>10 DEF handle_key
  <2>3. CASE MonitorKey(AsText(key))
    <3>1. line' \in {FALSE, TRUE,
       line} /\ monitor_focus' \in BOOLEAN /\ UNCHANGED <<quit, uart_focus>>
      BY <2>3, Zenon DEF MonitorKey
    <3>2. QED BY <2>1, <3>1, Zenon DEF FlagsOK
  <2>4. CASE UartKey(AsText(key))
    <3>1. uart_focus' \in BOOLEAN /\ UNCHANGED <<quit, monitor_focus, line>>
      BY <2>4, Zenon DEF UartKey
    <3>2. QED BY <2>1, <3>1, Zenon DEF FlagsOK
  <2>5. CASE CommandKey(key)
    <3>1. {quit', uart_focus', monitor_focus', line'} \subseteq BOOLEAN
      BY <2>5 DEF CommandKey
    <3>2. QED BY <2>1, <3>1, Zenon DEF FlagsOK
  <2>6. QED BY <2>2, <2>3, <2>4, <2>5
<1>11. CASE HeadlessQuit
  BY <1>11 DEF HeadlessQuit, options, focus, ghosts, FlagsOK, BootInv
<1>12. CASE Signal
  BY <1>12 DEF Signal, Ended, options, focus, ghosts, FlagsOK, BootInv
<1>13. CASE CloseWindow
  BY <1>13 DEF CloseWindow, Ended, options, focus, ghosts, FlagsOK, BootInv
<1>14. CASE ResizeTerminal
  BY <1>14 DEF ResizeTerminal, Ended, options, focus, ghosts, FlagsOK, BootInv
<1>15. CASE UNCHANGED run_vars
  BY <1>15 DEF run_vars, options, focus, ghosts, FlagsOK, BootInv
<1>16. QED
  BY <1>1, <1>2, <1>3, <1>4, <1>5, <1>6, <1>7, <1>8, <1>9, <1>10, <1>11, <1>12, <1>13,
     <1>14, <1>15 DEF RunNext, Advance, Outside

(* A paused machine executes exactly what was asked for (keys s, n, space,   *)
(* r), for every number of steps.                                            *)
THEOREM StepRequestsExact == RunSpec => []StepsExact
<1>1. RunInit => StepInv
  BY RunAssumption DEF RunInit, Hold, Halted, StepInv, StepsExact, Free
<1>2. StepInv /\ [RunNext]_run_vars => StepInv'
  BY StepInductive
<1>3. StepInv => StepsExact
  BY DEF StepInv
<1>4. QED
  BY <1>1, <1>2, <1>3, PTL DEF RunSpec

(* The monitor has the keyboard only while the machine stands still.         *)
THEOREM MonitorStandsStill == RunSpec => []MonitorOnHalted
<1>1. RunInit => MonitorOnHalted
  BY RunAssumption DEF RunInit, Hold, Halted, MonitorOnHalted
<1>2. MonitorOnHalted /\ [RunNext]_run_vars => MonitorOnHalted'
  BY MonitorInductive
<1>4. QED
  BY <1>1, <1>2, PTL DEF RunSpec

(* No more than one step follows a request to quit, however long batches are. *)
THEOREM QuitWithinOneStep == RunSpec => []QuitsSoon
<1>1. RunInit => QuitInv
  BY RunAssumption DEF RunInit, Hold, Halted, QuitInv
<1>2. QuitInv /\ [RunNext]_run_vars => QuitInv'
  BY QuitInductive
<1>3. QuitInv => QuitsSoon
  BY DEF QuitInv, QuitsSoon
<1>4. QED
  BY <1>1, <1>2, <1>3, PTL DEF RunSpec

(* The loop polls after a batch at the latest.                               *)
THEOREM PollsWithinBatch == RunSpec => []PollsOften
<1>1. RunInit => PollInv
  BY RunAssumption DEF RunInit, Hold, Halted, PollInv, BatchLength
<1>2. PollInv /\ [RunNext]_run_vars => PollInv'
  BY PollInductive
<1>3. PollInv => PollsOften
  BY DEF PollInv, PollsOften, BatchLength
<1>4. QED
  BY <1>1, <1>2, <1>3, PTL DEF RunSpec

(* The tick limit is exact if it is not zero, which means none.              *)
THEOREM LimitIsExact == RunSpec => []LimitExact
<1>1. RunInit => LimitInv
  BY RunAssumption DEF RunInit, Hold, Halted, LimitInv, LimitExact
<1>2. LimitInv /\ [RunNext]_run_vars => LimitInv'
  BY LimitInductive
<1>3. LimitInv => LimitExact
  BY DEF LimitInv
<1>4. QED
  BY <1>1, <1>2, <1>3, PTL DEF RunSpec

(* The loop stops in time for a signal, and exactly at the limit.            *)
THEOREM StopIsExact == RunSpec => []StopsExactly
BY QuitWithinOneStep, LimitIsExact, PTL DEF StopsExactly

(* In every state the loop is well formed, has polled within a batch, lets   *)
(* the monitor at a machine at rest only, has shown what it did before it    *)
(* waits, and runs no half-reset machine.                                    *)
THEOREM LoopIsSafe == RunSpec => []LoopSafe
<1>1. RunInit => StepInv
  BY RunAssumption DEF RunInit, Hold, Halted, StepInv, StepsExact, Free
<1>2. RunInit => RunTypeOK
  <2>1. ASSUME RunInit PROVE CountsOK /\ PlaceOK /\ FlagsOK
    <3>1. CountsOK
      BY <2>1, RunAssumption DEF RunInit, Hold, Halted, CountsOK, Free
    <3>2. PlaceOK
      BY <2>1, RunAssumption DEF RunInit, PlaceOK, BatchLength, Places
    <3>3. FlagsOK
      BY <2>1, RunAssumption DEF RunInit, FlagsOK, Parts
    <3>4. QED BY <3>1, <3>2, <3>3
  <2>2. QED BY <2>1, TypeParts
<1>3. RunInit => ShownInv /\ BootInv
  BY DEF RunInit, ShownInv, BootInv, SameBoot
<1>4. StepInv /\ [RunNext]_run_vars => StepInv'
  BY StepInductive
<1>5. RunTypeOK /\ StepInv /\ BootInv' /\ [RunNext]_run_vars => RunTypeOK'
  BY TypeParts, TypePartsNext, CountsInductive, PlaceInductive, FlagsInductive
<1>6. ShownInv /\ [RunNext]_run_vars => ShownInv'
  BY ShownInductive
<1>7. BootInv /\ [RunNext]_run_vars => BootInv'
  BY BootInductive
<1>8. RunTypeOK /\ PollsOften /\ MonitorOnHalted /\ ShownInv /\ BootInv => LoopSafe
  BY DEF LoopSafe, ShownInv, ShownBeforeWaiting, BootInv
<1>9. QED
  BY <1>1, <1>2, <1>3, <1>4, <1>5, <1>6, <1>7, <1>8, PollsWithinBatch,
     MonitorStandsStill, PTL DEF RunSpec

-----------------------------------------------------------------------------
(* The desktop window.                                                      *)

(* No part is of a load that has not begun, and the registers that were     *)
(* saved for the table are those of the processor that is there.            *)
DeskInv ==
  /\ DeskSafe
  /\ loads \in 0 .. MaxLoads
  /\ part \in [GuestParts -> 0 .. loads]
  /\ snapshot \in {NoTable, part["cpu"]}

LEMMA Stages ==
  /\ Place("options") = 1 /\ Place("kernel file") = 2 /\ Place("kernel") = 3
  /\ Place("dtb file") = 4 /\ Place("dtb") = 5 /\ Place("initramfs file") = 6
  /\ Place("initramfs") = 7 /\ Place("patch") = 8 /\ Success = 9
<1>1. /\ DOMAIN Order = 1 .. 8 /\ Len(Order) = 8
      /\ Order[1] = "options" /\ Order[2] = "kernel file" /\ Order[3] = "kernel"
      /\ Order[4] = "dtb file" /\ Order[5] = "dtb" /\ Order[6] = "initramfs file"
      /\ Order[7] = "initramfs" /\ Order[8] = "patch"
  BY DEF Order
<1>2. ASSUME NEW stage, NEW k \in 1 .. 8, Order[k] = stage,
             \A j \in 1 .. 8 : Order[j] = stage => j = k
      PROVE  Place(stage) = k
  BY <1>1, <1>2 DEF Place
<1>3. \A k \in 1 .. 8 : k = 1 \/ k = 2 \/ k = 3 \/ k = 4 \/ k = 5 \/ k = 6 \/ k = 7 \/ k = 8
  OBVIOUS
<1>4. \A k, j \in 1 .. 8 : Order[j] = Order[k] => j = k
  BY <1>1, <1>3
<1>5. \A k \in 1 .. 8 : Place(Order[k]) = k
  BY <1>2, <1>4
<1>6. /\ Place(Order[1]) = 1 /\ Place(Order[2]) = 2 /\ Place(Order[3]) = 3
      /\ Place(Order[4]) = 4 /\ Place(Order[5]) = 5 /\ Place(Order[6]) = 6
      /\ Place(Order[7]) = 7 /\ Place(Order[8]) = 8
  BY <1>5
<1>7. Success = 9
  <2>1. Len(Order) = 8
    BY <1>1, Zenon
  <2>2. QED BY <2>1 DEF Success
<1>8. QED BY <1>1, <1>6, <1>7, Zenon

(* A load ends at one of nine places, and never well if it has an initramfs *)
(* and no device tree.                                                      *)
LEMMA Ends ==
  ASSUME NEW dtb \in BOOLEAN, NEW initramfs \in BOOLEAN, NEW n \in Outcomes(dtb, initramfs)
  PROVE  n \in 1 .. 9 /\ (n = 9 => ~(initramfs /\ ~dtb))
<1>1. CASE initramfs /\ ~dtb
  <2>1. n = Place("options")
    BY <1>1, Zenon DEF Outcomes
  <2>2. n = 1
    BY <2>1, Stages, Zenon
  <2>3. QED BY <2>2
<1>2. CASE ~(initramfs /\ ~dtb)
  <2>1. n = Success \/ \E s \in Needed(dtb, initramfs) : n = Place(s)
    BY <1>2, Zenon DEF Outcomes
  <2>2. \A s \in Needed(dtb, initramfs) :
          s \in {"options", "kernel file", "kernel", "dtb file", "dtb", "initramfs file",
                 "initramfs", "patch"}
    BY DEF Needed
  <2>3. ASSUME NEW s \in Needed(dtb, initramfs)
        PROVE  Place(s) \in 1 .. 9
    <3>1. \A k \in {1, 2, 3, 4, 5, 6, 7, 8} : k \in 1 .. 9
      OBVIOUS
    <3>2. Place(s) \in {1, 2, 3, 4, 5, 6, 7, 8}
      BY <2>2, Stages
    <3>3. QED BY <3>1, <3>2
  <2>4. Success \in 1 .. 9
    <3>1. Success = 9
      BY Stages, Zenon
    <3>2. QED BY <3>1
  <2>5. QED BY <1>2, <2>1, <2>3, <2>4
<1>3. QED BY <1>1, <1>2

(* What a load leaves of each part: all of it new; or RAM gone, and the     *)
(* processor that ran in it still there; or only UART and monitor renewed.  *)
LEMMA PartsLeft ==
  ASSUME NEW dtb \in BOOLEAN, NEW initramfs \in BOOLEAN, NEW n \in 1 .. 9, NEW k
  PROVE  LET p == AfterGuiReset(k, n, dtb, initramfs)
             new == {q \in {"dtb", "initramfs"} : q \in Needed(dtb, initramfs)}
         IN  /\ n = 9 => \A q \in GuestParts :
                           p[q] = IF q \in {"dtb", "initramfs"} \ new THEN 0 ELSE k
             /\ 3 <= n /\ n < 9 =>
                  /\ p["ram"] = k /\ p["cpu"] = part["cpu"]
                  /\ \A q \in GuestParts : p[q] \in {0, k, part[q]}
             /\ n < 3 => \A q \in GuestParts :
                           p[q] = IF q \in {"uart", "monitor"} THEN k ELSE part[q]
             /\ DOMAIN p = GuestParts
<1> DEFINE p == AfterGuiReset(k, n, dtb, initramfs)
           new == {q \in {"dtb", "initramfs"} : q \in Needed(dtb, initramfs)}
<1>1. \A q \in {"uart", "monitor"} : p[q] = k
  BY DEF AfterGuiReset, GuestParts
<1>2. p["ram"] = IF Cleared(n) THEN k ELSE part["ram"]
  BY DEF AfterGuiReset, GuestParts
<1>3. \A q \in {"cpu", "screen", "text"} : p[q] = IF n = Success THEN k ELSE part[q]
  BY DEF AfterGuiReset, GuestParts, Renewed
<1>4. \A q \in {"kernel", "dtb", "initramfs"} :
        p[q] = IF q \in Needed(dtb, initramfs) /\ n > Place(q) THEN k
               ELSE IF Cleared(n) THEN 0 ELSE part[q]
  BY DEF AfterGuiReset, GuestParts
<1>5. DOMAIN p = GuestParts
  BY DEF AfterGuiReset
<1>6. Cleared(n) <=> n > 2
  BY Stages DEF Cleared
<1>7. "kernel" \in Needed(dtb, initramfs)
  BY DEF Needed
<1>8. /\ p["kernel"] = IF n > 3 THEN k ELSE IF n > 2 THEN 0 ELSE part["kernel"]
      /\ p["dtb"] = IF "dtb" \in new /\ n > 5 THEN k ELSE IF n > 2 THEN 0 ELSE part["dtb"]
      /\ p["initramfs"] = IF "initramfs" \in new /\ n > 7 THEN k
                          ELSE IF n > 2 THEN 0 ELSE part["initramfs"]
  BY <1>4, <1>6, <1>7, Stages
<1> HIDE DEF p, new
<1>9. /\ Success = 9
      /\ \A q \in GuestParts :
           q \in {"uart", "monitor"} \/ q = "ram" \/ q \in {"cpu", "screen", "text"}
             \/ q = "kernel" \/ q = "dtb" \/ q = "initramfs"
  BY Stages DEF GuestParts
<1>10. n = 9 => \A q \in GuestParts : p[q] = IF q \in {"dtb", "initramfs"} \ new THEN 0 ELSE k
  <2> SUFFICES ASSUME n = 9, NEW q \in GuestParts
               PROVE  p[q] = IF q \in {"dtb", "initramfs"} \ new THEN 0 ELSE k
    OBVIOUS
  <2>1. CASE q \in {"dtb", "initramfs"}
    BY <1>8, <2>1
  <2>2. CASE q \notin {"dtb", "initramfs"}
    BY <1>1, <1>2, <1>3, <1>6, <1>8, <1>9, <2>2
  <2>3. QED BY <2>1, <2>2
<1>11. 3 <= n /\ n < 9 => /\ p["ram"] = k /\ p["cpu"] = part["cpu"]
                          /\ \A q \in GuestParts : p[q] \in {0, k, part[q]}
  BY <1>1, <1>2, <1>3, <1>6, <1>8, <1>9
<1>12. n < 3 => \A q \in GuestParts :
                  p[q] = IF q \in {"uart", "monitor"} THEN k ELSE part[q]
  BY <1>1, <1>2, <1>3, <1>6, <1>8, <1>9
<1>13. QED BY <1>5, <1>10, <1>11, <1>12 DEF p, new

(* A load leaves a guest of one load, or no guest that could run, or the    *)
(* guest that was there.                                                    *)
LEMMA LoadStep ==
  ASSUME DeskInv, NEW dtb \in BOOLEAN, NEW initramfs \in BOOLEAN, load_reset(dtb, initramfs)
  PROVE  DeskInv'
<1> DEFINE k == loads + 1
           new == {q \in {"dtb", "initramfs"} : q \in Needed(dtb, initramfs)}
<1>1. PICK n \in Outcomes(dtb, initramfs) :
        /\ part' = AfterGuiReset(k, n, dtb, initramfs)
        /\ mode' = IF n = Success THEN "STEPPING" ELSE IF mode = "none" THEN "RESET" ELSE mode
        /\ gui_ticks' = ticks_after(n)
        /\ executed' = IF n = Success THEN 0 ELSE executed
        /\ told' = IF n = Success THEN new ELSE told
        /\ IF n = Success THEN refresh_views(k, Forgotten(n))
           ELSE UNCHANGED <<snapshot, compared>>
  BY DEF load_reset
<1>2. n \in 1 .. 9 /\ (n = 9 => ~(initramfs /\ ~dtb)) /\ Success = 9
  BY Ends, Stages
<1>3. /\ DeskTypeOK /\ OneGuest /\ CountsTheGuest /\ ComparesOneGuest
      /\ loads \in Nat /\ part \in [GuestParts -> 0 .. loads]
      /\ snapshot \in {NoTable, part["cpu"]}
      /\ MaxLoads \in Nat /\ MaxTicks \in Nat /\ BATCH \in Nat /\ STEP_MANY \in Nat
  BY DesktopAssumption DEF DeskInv, DeskSafe
<1>4. loads < MaxLoads /\ loads' = k /\ k \in 0 .. MaxLoads
  <2>1. loads < MaxLoads /\ loads' = k
    BY DEF load_reset
  <2>2. QED BY <1>3, <2>1
<1>5. /\ n = 9 => \A q \in GuestParts : part'[q] = IF q \in {"dtb", "initramfs"} \ new THEN 0 ELSE k
      /\ 3 <= n /\ n < 9 => /\ part'["ram"] = k /\ part'["cpu"] = part["cpu"]
                            /\ \A q \in GuestParts : part'[q] \in {0, k, part[q]}
      /\ n < 3 => \A q \in GuestParts : part'[q] = IF q \in {"uart", "monitor"} THEN k ELSE part[q]
      /\ DOMAIN part' = GuestParts
  BY <1>1, <1>2, PartsLeft
<1>6. part' \in [GuestParts -> 0 .. k]
  <2>1. \A q \in GuestParts : part[q] \in 0 .. k /\ k \in 0 .. k /\ 0 \in 0 .. k
    BY <1>3
  <2>2. \A q \in GuestParts : part'[q] \in 0 .. k
    BY <1>2, <1>5, <2>1
  <2>3. part' = [q \in GuestParts |-> part'[q]]
    BY <1>1 DEF AfterGuiReset
  <2>4. QED BY <2>2, <2>3
<1>7. part["cpu"] \in 0 .. loads /\ part["ram"] \in 0 .. loads
  BY <1>3 DEF GuestParts
<1>8. new \in {{}, {"dtb"}, {"dtb", "initramfs"}} \/ n # 9
  BY <1>2 DEF Needed
<1>9. CASE n = 9
  <2>1. part'["cpu"] = k /\ part'["ram"] = k
    BY <1>5, <1>9 DEF GuestParts
  <2>2. compared' = NoTable /\ snapshot' = k
    BY <1>1, <1>2, <1>9 DEF refresh_views, Forgotten
  <2>3. mode' = "STEPPING" /\ gui_ticks' = 0 /\ executed' = 0 /\ told' = new
    BY <1>1, <1>2, <1>9 DEF ticks_after
  <2>4. OneGuest'
    <3>1. \A p \in {"kernel", "screen", "text"} \cup new :
            p \in GuestParts /\ p \notin {"dtb", "initramfs"} \ new
      BY DEF GuestParts
    <3>2. \A p \in {"dtb", "initramfs"} \ new : p \in GuestParts
      BY DEF GuestParts
    <3> HIDE DEF new
    <3>3. QED BY <1>5, <1>9, <2>1, <2>3, <3>1, <3>2 DEF OneGuest
  <2>5. DeskTypeOK'
    <3>1. part' \in [GuestParts -> 0 .. MaxLoads]
      BY <1>3, <1>4, <1>6
    <3>2. {snapshot', compared'} \subseteq NoTable .. MaxLoads
      BY <1>3, <1>4, <2>2 DEF NoTable
    <3>3. 0 \in 0 .. MaxTicks + BATCH + STEP_MANY
      BY <1>3
    <3> HIDE DEF new
    <3>4. QED BY <1>8, <1>9, <2>3, <3>1, <3>2, <3>3 DEF DeskTypeOK
  <2>6. CountsTheGuest' /\ ComparesOneGuest'
    BY <2>1, <2>2, <2>3 DEF CountsTheGuest, ComparesOneGuest
  <2>7. QED BY <1>4, <1>6, <2>1, <2>2, <2>4, <2>5, <2>6 DEF DeskInv, DeskSafe
<1>10. CASE n # 9
  <2>1. /\ UNCHANGED <<snapshot, compared, told, gui_ticks, executed>>
        /\ mode' \in {"none", "RESET", "RUNNING", "STEPPING"}
    BY <1>1, <1>2, <1>3, <1>10 DEF ticks_after, DeskTypeOK
  <2>2. part'["cpu"] = part["cpu"]
    BY <1>2, <1>5, <1>10 DEF GuestParts
  <2>3. OneGuest'
    <3>1. CASE n < 3
      <4>1. \A p \in {"kernel", "screen", "text", "ram", "cpu", "dtb", "initramfs"} :
              part'[p] = part[p]
        BY <1>5, <3>1 DEF GuestParts
      <4>2. told \subseteq {"dtb", "initramfs"}
        BY <1>3 DEF DeskTypeOK
      <4>3. QED BY <1>3, <2>1, <4>1, <4>2 DEF OneGuest
    <3>2. CASE ~(n < 3)
      <4>1. part'["ram"] # part'["cpu"]
        BY <1>2, <1>3, <1>5, <1>7, <1>10, <3>2
      <4>2. QED BY <4>1 DEF OneGuest
    <3>3. QED BY <3>1, <3>2
  <2>4. DeskTypeOK'
    <3>1. part' \in [GuestParts -> 0 .. MaxLoads]
      BY <1>3, <1>4, <1>6
    <3>2. QED BY <1>3, <2>1, <3>1 DEF DeskTypeOK
  <2>5. CountsTheGuest' /\ ComparesOneGuest'
    BY <1>3, <2>1, <2>2 DEF CountsTheGuest, ComparesOneGuest
  <2>6. QED BY <1>3, <1>4, <1>6, <2>1, <2>2, <2>3, <2>4, <2>5 DEF DeskInv, DeskSafe
<1>11. QED BY <1>9, <1>10

(* The table is refreshed against the registers saved before.               *)
LEMMA RefreshStep ==
  ASSUME DeskInv, refresh_views(part["cpu"], snapshot), UNCHANGED <<part, told, loads>>,
         mode' \in {"none", "RESET", "RUNNING", "STEPPING"},
         gui_ticks' = executed', gui_ticks' \in 0 .. MaxTicks + BATCH + STEP_MANY
  PROVE  DeskInv'
<1>1. compared' = snapshot /\ snapshot' \in {snapshot, part["cpu"]}
  BY DEF refresh_views
<1>2. snapshot \in {NoTable, part["cpu"]} /\ snapshot \in NoTable .. MaxLoads
      /\ part["cpu"] \in NoTable .. MaxLoads
  <2>1. part["cpu"] \in 0 .. MaxLoads
    BY DEF DeskInv, DeskSafe, DeskTypeOK, GuestParts
  <2>2. QED BY <2>1, DesktopAssumption DEF DeskInv, DeskSafe, DeskTypeOK, NoTable
<1>3. DeskTypeOK'
  BY <1>1, <1>2 DEF DeskInv, DeskSafe, DeskTypeOK
<1>4. OneGuest' /\ CountsTheGuest' /\ ComparesOneGuest'
  BY <1>1, <1>2 DEF DeskInv, DeskSafe, OneGuest, CountsTheGuest, ComparesOneGuest
<1>5. QED BY <1>1, <1>2, <1>3, <1>4 DEF DeskInv, DeskSafe

LEMMA DeskInductive == DeskInv /\ [DeskNext]_deskVars => DeskInv'
<1> SUFFICES ASSUME DeskInv, [DeskNext]_deskVars
             PROVE  DeskInv'
  OBVIOUS
<1>1. /\ DeskTypeOK /\ gui_ticks = executed /\ gui_ticks \in Nat
      /\ BATCH \in Nat \ {0} /\ STEP_MANY \in Nat \ {0} /\ MaxTicks \in Nat /\ MaxLoads \in Nat
      /\ loads \in Nat
  BY DesktopAssumption DEF DeskInv, DeskSafe, DeskTypeOK, CountsTheGuest
<1>2. ASSUME NEW count \in Nat, count <= BATCH + STEP_MANY, gui_ticks < MaxTicks, Executes(count)
      PROVE  gui_ticks' = executed' /\ gui_ticks' \in 0 .. MaxTicks + BATCH + STEP_MANY
  BY <1>1, <1>2 DEF Executes
<1>3. CASE AllocationFails
  <2>1. /\ loads' \in 0 .. MaxLoads /\ part \in [GuestParts -> 0 .. loads']
        /\ UNCHANGED <<mode, gui_ticks, part, told, snapshot, compared, executed>>
    BY <1>1, <1>3 DEF AllocationFails, DeskInv
  <2>2. QED
    BY <2>1 DEF DeskInv, DeskSafe, DeskTypeOK, OneGuest, CountsTheGuest, ComparesOneGuest
<1>4. CASE \E dtb, initramfs \in BOOLEAN : load_reset(dtb, initramfs)
  BY <1>4, LoadStep
<1>5. CASE resume
  <2>1. mode' = "RUNNING" /\ UNCHANGED <<gui_ticks, part, told, loads, executed>>
    BY <1>5 DEF resume
  <2>2. CASE refresh_views(part["cpu"], snapshot)
    BY <1>1, <2>1, <2>2, RefreshStep DEF DeskTypeOK
  <2>3. CASE UNCHANGED <<snapshot, compared>>
    BY <2>1, <2>3
       DEF DeskInv, DeskSafe, DeskTypeOK, OneGuest, CountsTheGuest, ComparesOneGuest
  <2>4. QED BY <1>5, <2>2, <2>3 DEF resume
<1>6. CASE pause
  BY <1>1, <1>6, RefreshStep DEF pause, DeskTypeOK
<1>7. CASE \E count \in {1, STEP_MANY} : step(count)
  <2>1. PICK count \in {1, STEP_MANY} : step(count)
    BY <1>7
  <2>2. count \in Nat /\ count <= BATCH + STEP_MANY
    BY <1>1
  <2>3. gui_ticks' = executed' /\ gui_ticks' \in 0 .. MaxTicks + BATCH + STEP_MANY
    BY <1>2, <2>1, <2>2 DEF step
  <2>4. QED BY <2>1, <2>3, RefreshStep DEF step
<1>8. CASE tick
  <2>1. gui_ticks' = executed' /\ gui_ticks' \in 0 .. MaxTicks + BATCH + STEP_MANY
    <3>1. CASE mode = "RUNNING"
      <4>1. BATCH \in Nat /\ BATCH <= BATCH + STEP_MANY
        BY <1>1
      <4>2. QED BY <1>2, <1>8, <3>1, <4>1 DEF tick
    <3>2. CASE mode # "RUNNING"
      BY <1>1, <1>8, <3>2 DEF tick, DeskTypeOK
    <3>3. QED BY <3>1, <3>2
  <2>2. UNCHANGED <<part, told, loads, mode>> /\ refresh_views(part["cpu"], snapshot)
    BY <1>8 DEF tick
  <2>3. QED BY <1>1, <2>1, <2>2, RefreshStep DEF DeskTypeOK
<1>9. CASE UNCHANGED deskVars
  BY <1>9 DEF DeskInv, DeskSafe, DeskTypeOK, OneGuest, CountsTheGuest, ComparesOneGuest, deskVars
<1>10. QED BY <1>3, <1>4, <1>5, <1>6, <1>7, <1>8, <1>9 DEF DeskNext

(* The window never mixes two guests: not the parts of the machine, nor     *)
(* their count of instructions, nor the registers it compares, over any     *)
(* sequence of loads, failures, resets, steps and pauses.                   *)
THEOREM DeskIsSafe == DeskSpec => []DeskSafe
<1>1. DeskInit => DeskInv
  <2> SUFFICES ASSUME DeskInit PROVE DeskInv
    OBVIOUS
  <2>1. part["cpu"] = 0 /\ part["ram"] = 0
    BY DEF DeskInit, GuestParts
  <2>2. DeskTypeOK /\ loads \in 0 .. MaxLoads /\ part \in [GuestParts -> 0 .. loads]
    <3>1. 0 \in 0 .. MaxLoads /\ -1 \in -1 .. MaxLoads /\ 0 \in 0 .. MaxTicks + BATCH + STEP_MANY
      BY DesktopAssumption
    <3>2. /\ part = [p \in GuestParts |-> 0]
          /\ gui_ticks = 0 /\ loads = 0 /\ snapshot = -1 /\ compared = -1
          /\ mode = "none" /\ told = {}
      BY Zenon DEF DeskInit, NoTable
    <3>3. \A n \in Nat : 0 \in 0 .. n
      OBVIOUS
    <3>4. part \in [GuestParts -> 0 .. MaxLoads] /\ part \in [GuestParts -> 0 .. loads]
      BY <3>2, <3>3, DesktopAssumption
    <3>5. QED BY <3>1, <3>2, <3>4 DEF DeskTypeOK, NoTable
  <2>3. OneGuest /\ CountsTheGuest /\ ComparesOneGuest
    BY <2>1 DEF DeskInit, OneGuest, CountsTheGuest, ComparesOneGuest
  <2>4. QED BY <2>2, <2>3 DEF DeskInit, DeskInv, DeskSafe
<1>2. DeskInv => DeskSafe
  BY DEF DeskInv
<1>3. QED BY <1>1, <1>2, DeskInductive, PTL DEF DeskSpec
==============================================================================

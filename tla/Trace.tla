------------------------------- MODULE Trace -------------------------------
(***************************************************************************)
(* The instruction trace (debugger.c): records of instructions, exceptions *)
(* and board resets in a ring behind a pane, in a second ring for the      *)
(* exceptions alone, and in the trace file.  The processor reports through *)
(* the observer (emu.c, exception.c, observer.c); the keys scroll a pane   *)
(* and clear it.                                                           *)
(*                                                                         *)
(* A record is what it reports and the number printed in front of it; the  *)
(* text, the registers an instruction changed and the time of the next     *)
(* redraw are left out.                                                    *)
(***************************************************************************)
EXTENDS LineRing

CONSTANTS
  TRACE_CAPACITY, EXCEPTION_CAPACITY,
  MAX_EVENTS                     \* bound: events of a behaviour

ASSUME TraceAssumption ==
  {TRACE_CAPACITY, EXCEPTION_CAPACITY} \subseteq Nat \ {0} /\ MAX_EVENTS \in Nat

VARIABLES
  sinks,             \* --tui, --trace FILE: what wants records
  sequence,          \* the number of the last record
  trace,             \* the ring behind the trace pane
  exceptions,        \* the ring behind the exceptions pane
  file,              \* the trace file
  in_instruction,
  instruction,       \* instruction_pc, instruction_word: the event being executed
  pending,           \* pending_instruction_exception and its line: an event, or 0
  active_page,
  trace_scroll,
  log,               \* ghost: what has happened, in order
  forgotten          \* ghost: how much of it each pane had seen when it was cleared

trace_vars == <<sinks, sequence, trace, exceptions, file, in_instruction, instruction, pending,
                active_page, trace_scroll, log, forgotten>>

Kinds == {"instruction", "exception", "reset"}

capture_events == sinks # {}

Header == [number |-> 0, kind |-> "header", event |-> 0]

Record(number, kind, event) == [number |-> number, kind |-> kind, event |-> event]

\* trace_add(): one line for the pane and for the file.
trace_add(line) ==
  /\ trace' = ring_add(trace, TRACE_CAPACITY, line)
  /\ file' = IF "file" \in sinks THEN Append(file, line) ELSE file

\* Two lines, one after the other.
trace_add_both(first, second) ==
  /\ trace' = ring_add(ring_add(trace, TRACE_CAPACITY, first), TRACE_CAPACITY, second)
  /\ file' = IF "file" \in sinks THEN file \o <<first, second>> ELSE file

Happens(kind) == Len(log) < MAX_EVENTS /\ log' = Append(log, kind)

ThisEvent == Len(log) + 1

-----------------------------------------------------------------------------
(* What the processor reports.                                             *)

debugger_instruction_begin ==
  /\ ~in_instruction
  /\ Happens("instruction")
  /\ IF capture_events
     THEN in_instruction' = TRUE /\ instruction' = ThisEvent /\ pending' = 0
     ELSE UNCHANGED <<in_instruction, instruction, pending>>
  /\ UNCHANGED <<sinks, sequence, trace, exceptions, file, active_page, trace_scroll, forgotten>>

\* The record of the instruction, and the one of its exception behind it.
debugger_instruction_end ==
  /\ in_instruction
  /\ in_instruction' = FALSE
  /\ LET first == Record(sequence + 1, "instruction", instruction)
     IN  IF pending # 0
         THEN /\ trace_add_both(first, Record(sequence + 2, "exception", pending))
              /\ sequence' = sequence + 2
         ELSE trace_add(first) /\ sequence' = sequence + 1
  /\ pending' = 0
  /\ UNCHANGED <<sinks, exceptions, instruction, active_page, trace_scroll, log, forgotten>>

\* Mutant: an instruction's exception is recorded at once, before it.
debugger_exception_AtOnce ==
  /\ Happens("exception")
  /\ exceptions' = ring_add(exceptions, EXCEPTION_CAPACITY, ThisEvent)
  /\ trace_add(Record(sequence + 1, "exception", ThisEvent))
  /\ sequence' = sequence + 1
  /\ UNCHANGED <<sinks, in_instruction, instruction, pending, active_page, trace_scroll,
                 forgotten>>

\* An exception of the instruction waits for the instruction's record; one
\* between instructions (an interrupt, a fetch that fails) does not.  An
\* instruction raises one exception at most.
debugger_exception ==
  /\ pending = 0
  /\ Happens("exception")
  /\ IF ~capture_events
     THEN UNCHANGED <<sequence, trace, exceptions, file, pending>>
     ELSE /\ exceptions' = ring_add(exceptions, EXCEPTION_CAPACITY, ThisEvent)
          /\ IF in_instruction
             THEN pending' = ThisEvent /\ UNCHANGED <<sequence, trace, file>>
             ELSE /\ trace_add(Record(sequence + 1, "exception", ThisEvent))
                  /\ sequence' = sequence + 1
                  /\ UNCHANGED pending
  /\ UNCHANGED <<sinks, in_instruction, instruction, active_page, trace_scroll, forgotten>>

\* Between steps only.
debugger_board_reset ==
  /\ ~in_instruction
  /\ Happens("reset")
  /\ in_instruction' = FALSE /\ pending' = 0
  /\ IF capture_events
     THEN /\ trace_add(Record(sequence + 1, "reset", ThisEvent))
          /\ sequence' = sequence + 1
     ELSE UNCHANGED <<trace, file, sequence>>
  /\ UNCHANGED <<sinks, exceptions, instruction, active_page, trace_scroll, forgotten>>

-----------------------------------------------------------------------------
(* The keys: polled between steps.                                         *)

AtKeys == ~in_instruction /\ "tui" \in sinks

NotAKey == UNCHANGED <<sinks, sequence, file, in_instruction, instruction, pending, log>>

KeyTab ==
  /\ AtKeys
  /\ active_page' = (active_page + 1) % 4
  /\ UNCHANGED <<trace, exceptions, trace_scroll, forgotten>>
  /\ NotAKey

\* Pages: 0 registers, 1 trace, 2 exceptions, 3 UART (see Panes).
clear_active_page ==
  /\ AtKeys
  /\ CASE active_page = 1 -> /\ trace' = Cleared(trace)
                             /\ trace_scroll' = 0
                             /\ forgotten' = [forgotten EXCEPT !.trace = Len(log)]
                             /\ UNCHANGED exceptions
       [] active_page = 2 -> /\ exceptions' = Cleared(exceptions)
                             /\ forgotten' = [forgotten EXCEPT !.exceptions = Len(log)]
                             /\ UNCHANGED <<trace, trace_scroll>>
       [] OTHER -> UNCHANGED <<trace, exceptions, trace_scroll, forgotten>>
  /\ UNCHANGED active_page
  /\ NotAKey

KeyUp ==
  /\ AtKeys
  /\ trace_scroll' = IF trace_scroll + 1 < trace.count THEN trace_scroll + 1 ELSE trace_scroll
  /\ UNCHANGED <<trace, exceptions, active_page, forgotten>>
  /\ NotAKey

KeyDown ==
  /\ AtKeys
  /\ trace_scroll' = IF trace_scroll # 0 THEN trace_scroll - 1 ELSE 0
  /\ UNCHANGED <<trace, exceptions, active_page, forgotten>>
  /\ NotAKey

\* debugger_init() writes the header if anybody wants records.
TraceInit ==
  /\ sinks \in SUBSET {"tui", "file"}
  /\ sequence = 0
  /\ trace = IF capture_events THEN ring_add(EmptyRing(TRACE_CAPACITY), TRACE_CAPACITY, Header)
             ELSE EmptyRing(TRACE_CAPACITY)
  /\ file = IF "file" \in sinks THEN <<Header>> ELSE <<>>
  /\ exceptions = EmptyRing(EXCEPTION_CAPACITY)
  /\ in_instruction = FALSE /\ instruction = 0 /\ pending = 0
  /\ active_page = 0 /\ trace_scroll = 0
  /\ log = <<>>
  /\ forgotten = [trace |-> -1, exceptions |-> 0]

TraceNext ==
  \/ debugger_instruction_begin
  \/ debugger_instruction_end
  \/ debugger_exception
  \/ debugger_board_reset
  \/ KeyTab
  \/ clear_active_page
  \/ KeyUp
  \/ KeyDown

TraceSpec == TraceInit /\ [][TraceNext]_trace_vars

-----------------------------------------------------------------------------
\* The trace a reader expects of what has happened: every event in its order,
\* numbered without a gap, as soon as its instruction is complete.
Complete == IF in_instruction THEN instruction - 1 ELSE Len(log)

Expected(from) ==
  (IF from < 0 THEN <<Header>> ELSE <<>>)
    \o [i \in 1 .. Complete - (IF from < 0 THEN 0 ELSE from) |->
          LET event == i + (IF from < 0 THEN 0 ELSE from)
          IN  Record(event, log[event], event)]

\* The exceptions after the first n events.
ExceptionsSince(n) == {event \in n + 1 .. Len(log) : log[event] = "exception"}

\* The newest of some events in their order: only older ones are left out, and
\* only for want of room.
NewestOf(s, events, capacity) ==
  /\ \A i \in DOMAIN s : s[i] \in events
  /\ \A i, j \in DOMAIN s : i < j => s[i] < s[j]
  /\ \A event \in events : \/ \E i \in DOMAIN s : s[i] = event
                           \/ Len(s) = capacity /\ event < s[1]

TraceTypeOK ==
  /\ sinks \subseteq {"tui", "file"}
  /\ sequence \in 0 .. MAX_EVENTS /\ {instruction, pending} \subseteq 0 .. MAX_EVENTS
  /\ in_instruction \in BOOLEAN /\ active_page \in 0 .. 3
  /\ trace_scroll \in 0 .. TRACE_CAPACITY - 1
  /\ pending # 0 => in_instruction

(* The file has a record of everything, each exception directly behind the  *)
(* instruction it ended although it was reported first; the trace pane's    *)
(* ring has the newest of these records since it was cleared, and the other *)
(* ring has the newest exceptions, those of the running instruction         *)
(* included.                                                                *)
RecordsExact ==
  /\ "file" \in sinks => file = Expected(-1)
  /\ capture_events =>
       /\ Contents(trace, TRACE_CAPACITY) = Tail_n(Expected(forgotten.trace), TRACE_CAPACITY)
       /\ NewestOf(Contents(exceptions, EXCEPTION_CAPACITY),
                   ExceptionsSince(forgotten.exceptions), EXCEPTION_CAPACITY)
  /\ ~capture_events => trace.count = 0 /\ exceptions.count = 0

(* However far the trace is scrolled, cleared or grown, the pane shows a    *)
(* run of its records that ends trace_scroll records before the newest, and *)
(* shows something whenever there is something to show.                     *)
WindowExact ==
  \A visible \in 1 .. TRACE_CAPACITY + 1 :
    LET shown == draw_ring(trace, TRACE_CAPACITY, visible, trace_scroll)
    IN  /\ trace.count > 0 => shown # <<>>
        /\ trace.count > 0 =>
             shown = Tail_n(Without_n(Contents(trace, TRACE_CAPACITY), trace_scroll), visible)
        /\ trace.count = 0 => shown = <<>>

(* In every state the trace is what has happened, and what the pane shows   *)
(* of it is a part of it.                                                   *)
TraceSafe == TraceTypeOK /\ RecordsExact /\ WindowExact
=============================================================================

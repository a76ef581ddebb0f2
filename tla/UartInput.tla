----------------------------- MODULE UartInput -----------------------------
(***************************************************************************)
(* The host's input queue in front of the UART (debugger.c): a growing     *)
(* ring that holds what the receive FIFO had no room for, filled by the    *)
(* debugger's keys or by standard input.                                   *)
(*                                                                         *)
(* The UART is what ByteQueue says a receive FIFO is.  A byte is its       *)
(* position in the host's input.                                           *)
(***************************************************************************)
EXTENDS Integers, SequencesExt, FiniteSetsExt

CONSTANTS
  INITIAL_CAPACITY, MAX_CAPACITY,   \* UART_INPUT_*_CAPACITY
  CHUNK,                            \* bytes of one read()
  RX_FIFO_SIZE,
  INPUT                             \* bound on the bytes of the input

ASSUME InputAssumption ==
  /\ {INITIAL_CAPACITY, MAX_CAPACITY, CHUNK, RX_FIFO_SIZE} \subseteq Nat \ {0}
  /\ INITIAL_CAPACITY <= MAX_CAPACITY /\ INPUT \in Nat

Sources == {"tui", "terminal", "pipe"}

VARIABLES
  host,        \* the ring and the FIFO behind it, see HostInit
  wide,        \* the guest has enabled the FIFO
  source,      \* curses, raw standard input, or a pipe
  memory,      \* largest buffer malloc() grants
  next,        \* the next byte of the input
  headless_escape, stdin_closed, quit,
  read,        \* ghost: the byte the guest read last
  settled,     \* ghost: bytes read, dropped, cleared by the guest or swallowed
  lost,        \* ghost: the dropped ones
  born         \* ghost: the first byte after the last board reset

input_vars == <<host, wide, source, memory, next, headless_escape, stdin_closed, quit,
                read, settled, lost, born>>
setup == <<source, memory>>

-----------------------------------------------------------------------------
(* The UART and the ring.                                                  *)

Limit == IF wide THEN RX_FIFO_SIZE ELSE 1

platform_uart_can_receive(h) == Len(h.rx) < Limit

platform_uart_receive(h, byte) ==
  IF platform_uart_can_receive(h)
  THEN [h EXCEPT !.rx = Append(@, byte)]
  ELSE [h EXCEPT !.overrun = TRUE]

\* The bytes of the ring, oldest first.
Queued(h) ==
  [k \in 1 .. h.uart_input_count |->
     h.uart_input[(h.uart_input_head + k - 1) % h.uart_input_capacity]]

Flushed(h, n) ==
  IF n = 0 THEN h
  ELSE [h EXCEPT !.rx = @ \o SubSeq(Queued(h), 1, n),
                 !.uart_input_head = (@ + n) % h.uart_input_capacity,
                 !.uart_input_count = @ - n]

flush_uart_input(h) == Flushed(h, Min({h.uart_input_count, Limit - Len(h.rx)}))

NewCapacity(h) ==
  IF h.uart_input_capacity = 0 THEN INITIAL_CAPACITY
  ELSE Min({2 * h.uart_input_capacity, MAX_CAPACITY})

CanGrow(h) == h.uart_input_capacity < NewCapacity(h) /\ NewCapacity(h) <= memory

\* Mutant: the ring is enlarged where it lies.
grow_uart_input_InPlace(h) ==
  [h EXCEPT !.uart_input_capacity = NewCapacity(h),
            !.uart_input = [i \in 0 .. NewCapacity(h) - 1 |->
                              IF i < h.uart_input_capacity THEN h.uart_input[i] ELSE 0]]

grow_uart_input(h) ==
  [h EXCEPT !.uart_input_capacity = NewCapacity(h),
            !.uart_input_head = 0,
            !.uart_input = [i \in 0 .. NewCapacity(h) - 1 |->
                              IF i < h.uart_input_count THEN Queued(h)[i + 1] ELSE 0]]

Enqueue(h, byte) ==
  [h EXCEPT !.uart_input =
              [@ EXCEPT ![(h.uart_input_head + h.uart_input_count)
                            % h.uart_input_capacity] = byte],
            !.uart_input_count = @ + 1]

Full(h) == h.uart_input_count = h.uart_input_capacity

\* Mutant: a full queue drops the byte without telling the guest.
Refuse_Silently(h, byte) == [h EXCEPT !.dropped = @ \union {byte}]

\* The byte is offered to the full UART, which records an overrun.
Refuse(h, byte) ==
  [platform_uart_receive(h, byte) EXCEPT !.dropped = @ \union {byte}]

\* What the UART takes at once, if nothing waits in front.
Direct(h) == h.uart_input_count = 0 /\ platform_uart_can_receive(h)

queue_uart_input(before, byte) ==
  LET h == flush_uart_input(before)
  IN  IF Direct(h) THEN platform_uart_receive(h, byte)
      ELSE IF Full(h) /\ ~CanGrow(h) THEN Refuse(h, byte)
      ELSE IF Full(h) THEN Enqueue(grow_uart_input(h), byte)
      ELSE Enqueue(h, byte)

-----------------------------------------------------------------------------
(* The host.                                                               *)

Plain == "plain"
CtrlBracket == "ctrl-]"
Q == "q"

\* A terminal is read anyway: what does not fit is signalled.
Available(h) ==
  IF source = "terminal" THEN CHUNK ELSE Min({CHUNK, MAX_CAPACITY - h.uart_input_count})

\* One byte of a read() of a terminal or pipe.
Take(s, b) ==
  LET swallow == [s EXCEPT !.swallowed = @ \union {b.number}]
      queued  == queue_uart_input(s.host, b.number)
      keep    == [s EXCEPT !.host = queued, !.escape = FALSE,
                           !.stop = source = "pipe" /\ b.number \in queued.dropped]
  IN  IF s.stop THEN swallow
      ELSE IF source = "terminal" /\ s.escape /\ b.kind = Q
           THEN [swallow EXCEPT !.escape = FALSE, !.quit = TRUE, !.stop = TRUE]
      ELSE IF source = "terminal" /\ ~s.escape /\ b.kind = CtrlBracket
           THEN [swallow EXCEPT !.escape = TRUE]
      ELSE keep

\* The bytes one after the other.
Taken(before, bytes) ==
  LET taken[i \in 0 .. Len(bytes)] ==
        IF i = 0 THEN before ELSE Take(taken[i - 1], bytes[i])
  IN  taken[Len(bytes)]

\* The end of a host action that left the queue and the UART as in h.
Settle(h, swallowed) ==
  /\ host' = [h EXCEPT !.dropped = {}]
  /\ lost' = lost \union h.dropped
  /\ settled' = settled \union h.dropped \union swallowed

\* debugger_poll() without input.
FlushOnPoll ==
  /\ ~quit
  /\ Settle(flush_uart_input(host), {})
  /\ UNCHANGED <<setup, wide, next, headless_escape, stdin_closed, quit, read, born>>

poll_headless_uart_input ==
  /\ ~quit /\ ~stdin_closed
  /\ source \in {"terminal", "pipe"}
  /\ \E n \in 1 .. Min({Available(flush_uart_input(host)), INPUT - next + 1}) :
     \E kind \in [1 .. n -> IF source = "terminal" THEN {Plain, CtrlBracket, Q} ELSE {Plain}] :
       LET bytes == [i \in 1 .. n |-> [number |-> next + i - 1, kind |-> kind[i]]]
           s == Taken([host |-> flush_uart_input(host), escape |-> headless_escape,
                       quit |-> FALSE, stop |-> FALSE, swallowed |-> {}], bytes)
       IN  /\ Settle(s.host, s.swallowed)
           /\ headless_escape' = s.escape /\ quit' = s.quit
           /\ next' = next + n
  /\ UNCHANGED <<setup, wide, stdin_closed, read, born>>

EndOfInput ==
  /\ ~quit /\ ~stdin_closed /\ source = "pipe"
  /\ stdin_closed' = TRUE
  /\ Settle(flush_uart_input(host), {})
  /\ UNCHANGED <<setup, wide, next, headless_escape, quit, read, born>>

\* A key while the UART has the debugger's focus.
KeyToUart ==
  /\ ~quit /\ source = "tui" /\ next <= INPUT
  /\ Settle(queue_uart_input(host, next), {})
  /\ next' = next + 1
  /\ UNCHANGED <<setup, wide, headless_escape, stdin_closed, quit, read, born>>

debugger_board_reset ==
  [host EXCEPT !.rx = <<>>, !.overrun = FALSE,
               !.uart_input_head = 0, !.uart_input_count = 0]

\* platform_reset(), then debugger_board_reset().
BoardReset ==
  /\ ~quit /\ source = "tui"
  /\ Settle(debugger_board_reset, ToSet(host.rx) \union ToSet(Queued(host)))
  /\ wide' = FALSE /\ headless_escape' = FALSE
  /\ born' = next
  /\ UNCHANGED <<setup, next, stdin_closed, quit, read>>

-----------------------------------------------------------------------------
(* The guest.                                                              *)

GuestRead ==
  /\ host.rx # <<>>
  /\ read' = Head(host.rx)
  /\ host' = [host EXCEPT !.rx = Tail(@)]
  /\ settled' = settled \union {Head(host.rx)}
  /\ UNCHANGED <<setup, wide, next, headless_escape, stdin_closed, quit, lost, born>>

GuestReadsLineStatus ==
  /\ host.overrun
  /\ host' = [host EXCEPT !.overrun = FALSE]
  /\ UNCHANGED <<setup, wide, next, headless_escape, stdin_closed, quit, read, settled, lost,
                 born>>

\* A write of FCR that changes the mode or clears the receiver.
GuestClearsFifo ==
  /\ wide' \in BOOLEAN
  /\ host' = [host EXCEPT !.rx = <<>>, !.overrun = FALSE]
  /\ settled' = settled \union ToSet(host.rx)
  /\ UNCHANGED <<setup, next, headless_escape, stdin_closed, quit, read, lost, born>>

HostInit ==
  [uart_input |-> <<>>, uart_input_capacity |-> 0, uart_input_head |-> 0,
   uart_input_count |-> 0, rx |-> <<>>, overrun |-> FALSE, dropped |-> {}]

InputInit ==
  /\ host = HostInit /\ wide = FALSE
  /\ source \in Sources /\ memory \in {INITIAL_CAPACITY - 1, INITIAL_CAPACITY, 2 * MAX_CAPACITY}
  /\ next = 1 /\ read = 0 /\ settled = {} /\ lost = {} /\ born = 1
  /\ headless_escape = FALSE /\ stdin_closed = FALSE /\ quit = FALSE

InputNext ==
  \/ FlushOnPoll
  \/ poll_headless_uart_input
  \/ EndOfInput
  \/ KeyToUart
  \/ BoardReset
  \/ GuestRead
  \/ GuestReadsLineStatus
  \/ GuestClearsFifo

InputSpec == InputInit /\ [][InputNext]_input_vars

-----------------------------------------------------------------------------
Pending == host.rx \o Queued(host)

InputTypeOK ==
  /\ host.uart_input_count <= host.uart_input_capacity
  /\ host.uart_input_capacity \in {0} \union INITIAL_CAPACITY .. MAX_CAPACITY
  /\ DOMAIN host.uart_input =
       IF host.uart_input_capacity = 0 THEN {} ELSE 0 .. host.uart_input_capacity - 1
  /\ host.uart_input_head \in 0 .. Max({0, host.uart_input_capacity - 1})
  /\ Len(host.rx) <= Limit /\ host.dropped = {}
  /\ next \in 1 .. INPUT + 1 /\ read \in 0 .. INPUT

(* The guest reads the input in order, across the ring's growth, the UART's *)
(* mode switches and bytes that bypass the ring.                            *)
InOrder ==
  /\ \A i, j \in DOMAIN Pending : i < j => Pending[i] < Pending[j]
  /\ \A i \in DOMAIN Pending : read < Pending[i]

(* Every byte of the input is waiting in exactly one place or has been      *)
(* accounted for.                                                           *)
NoneVanishes ==
  /\ ToSet(Pending) \union settled = 1 .. next - 1
  /\ ToSet(Pending) \intersect settled = {}

(* A byte typed before a board reset is not delivered after it.             *)
ResetForgets == \A i \in DOMAIN Pending : Pending[i] >= born

(* No byte is dropped behind the guest's back: at the very step its line    *)
(* status shows the overrun, also when a failed allocation is the reason,   *)
(* and the mark stands while the host goes on: only a guest that reads the  *)
(* line status or clears its FIFO, or a board reset, takes it away.         *)
LossIsSignalled ==
  [][/\ lost' # lost => host'.overrun
     /\ host.overrun /\ ~host'.overrun =>
          /\ UNCHANGED <<next, lost>>
          /\ host'.rx = <<>> \/ Pending' = Pending]_input_vars

(* As long as there is memory, nothing of a pipe is dropped: what does not  *)
(* fit is left in the pipe.                                                 *)
PipeIsLossless ==
  source = "pipe" /\ memory >= MAX_CAPACITY => lost = {}

(* In every state the queue and the FIFO are well formed, what waits is in  *)
(* order and complete, nothing from before a reset is left, and a pipe has  *)
(* lost nothing.                                                            *)
InputSafe ==
  /\ InputTypeOK /\ InOrder /\ NoneVanishes
  /\ ResetForgets /\ PipeIsLossless
=============================================================================

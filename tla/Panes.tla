------------------------------- MODULE Panes -------------------------------
(***************************************************************************)
(* The two panes of text of the terminal interface (debugger.c): what the  *)
(* guest transmits on the UART, and what the target monitor answers.  Both *)
(* cut the text into lines that fit a slot, keep the line that is still    *)
(* growing apart from a ring of complete lines, and show the newest; the   *)
(* monitor's pane can be scrolled, and the terminal resized under it.      *)
(***************************************************************************)
EXTENDS LineRing, FiniteSets, FiniteSetsExt

CONSTANTS
  UART_LINE_CAPACITY, UART_LINE_LENGTH,
  MONITOR_LINE_CAPACITY, DEBUG_LINE_LENGTH,
  PAGE,                          \* lines that PgUp and PgDn move (8)
  ROWS,                          \* heights of the terminal
  MAX_TEXT                       \* bound: bytes of a behaviour

ASSUME PanesAssumption ==
  /\ {UART_LINE_CAPACITY, MONITOR_LINE_CAPACITY, PAGE} \subseteq Nat \ {0}
  /\ UART_LINE_LENGTH \in Nat /\ UART_LINE_LENGTH >= 2
  /\ DEBUG_LINE_LENGTH \in Nat /\ DEBUG_LINE_LENGTH >= 2
  /\ ROWS \subseteq Nat

VARIABLES
  uart,              \* uart_lines with head and count, uart_current
  monitor,           \* monitor_lines, monitor_current
  monitor_focus,
  monitor_input,     \* the console holds a part of a command
  monitor_scroll,
  rows,              \* height of the terminal
  uart_text,         \* ghost: what the guest wrote since the pane was cleared
  monitor_text       \* ghost: what the monitor and the user wrote

panes_vars == <<uart, monitor, monitor_focus, monitor_input, monitor_scroll, rows, uart_text,
                monitor_text>>

Pane(capacity) == [ring |-> EmptyRing(capacity), current |-> <<>>]

\* Characters: a printable one, one that is shown as a dot, the two ends of a
\* line, and a command the monitor repeats on a line of its own.
Printable == "a"
Bell == "bell"
NL == "nl"
CR == "cr"
Command == "command"

Shown(byte) == IF byte = Bell THEN "." ELSE byte

\* uart_commit_line(), monitor_commit_line().
Commit(pane, capacity) ==
  [ring |-> ring_add(pane.ring, capacity, pane.current), current |-> <<>>]

\* Mutant: the line breaks one byte early.
Full_Early(line, length) == Len(line) >= length - 2

\* One byte of a line's array is for the terminating zero.
Full(line, length) == Len(line) >= length - 1

Put(pane, capacity, length, byte) ==
  LET room == IF Full(pane.current, length) THEN Commit(pane, capacity) ELSE pane
  IN  CASE byte = CR -> pane
        [] byte = NL -> Commit(pane, capacity)
        [] OTHER -> [room EXCEPT !.current = Append(@, Shown(byte))]

\* What a pane is expected to have been given.
Given(text, byte) == IF byte = CR THEN text ELSE Append(text, Shown(byte))

Budget(n) == Len(uart_text) + Len(monitor_text) + n <= MAX_TEXT

-----------------------------------------------------------------------------
(* The UART's pane.                                                        *)

\* Without the TUI a byte goes to standard output instead.
debugger_uart_tx(byte) ==
  /\ Budget(1)
  /\ uart' = Put(uart, UART_LINE_CAPACITY, UART_LINE_LENGTH, byte)
  /\ uart_text' = Given(uart_text, byte)
  /\ UNCHANGED <<monitor, monitor_focus, monitor_input, monitor_scroll, rows, monitor_text>>

\* The key c on the UART's page.
ClearUart ==
  /\ ~monitor_focus
  /\ uart' = [ring |-> Cleared(uart.ring), current |-> <<>>]
  /\ uart_text' = <<>>
  /\ UNCHANGED <<monitor, monitor_focus, monitor_input, monitor_scroll, rows, monitor_text>>

\* The lines that draw_uart() puts on the screen: complete ones, and the
\* growing one in the last row if there is any of it.
draw_uart(visible) ==
  LET open == uart.current # <<>>
      complete == IF open /\ uart.ring.count >= visible THEN visible - 1
                  ELSE IF uart.ring.count > visible THEN visible ELSE uart.ring.count
      start == uart.ring.count - complete
      oldest == (uart.ring.head + UART_LINE_CAPACITY - uart.ring.count) % UART_LINE_CAPACITY
  IN  [i \in 1 .. complete |->
         uart.ring.lines[(oldest + start + i - 1) % UART_LINE_CAPACITY]]
        \o (IF open THEN <<uart.current>> ELSE <<>>)

-----------------------------------------------------------------------------
(* The monitor's pane.                                                     *)

MonitorPut(pane, byte) == Put(pane, MONITOR_LINE_CAPACITY, DEBUG_LINE_LENGTH, byte)

\* One byte after the other.
monitor_output(pane, bytes) ==
  LET after[n \in 0 .. Len(bytes)] ==
        IF n = 0 THEN pane ELSE MonitorPut(after[n - 1], bytes[n])
  IN  after[Len(bytes)]

GivenAll(text, bytes) ==
  LET given[n \in 0 .. Len(bytes)] == IF n = 0 THEN text ELSE Given(given[n - 1], bytes[n])
  IN  given[Len(bytes)]

\* What the console answers: whole lines, one that has to be cut, nothing.
Answers ==
  {<<>>, <<Printable, CR, NL>>, <<Printable, NL, Bell, NL>>,
   <<Printable, Bell, Printable, NL>>}

MonitorShown == rows >= 6
monitor_visible_line_count == IF rows > 5 THEN rows - 5 ELSE 0

MonitorMaximum ==
  IF monitor.ring.count > monitor_visible_line_count
  THEN monitor.ring.count - monitor_visible_line_count ELSE 0

\* A printable key: the console takes it.
MonitorChar ==
  /\ monitor_focus /\ MonitorShown
  /\ monitor_input' = TRUE
  /\ UNCHANGED <<uart, monitor, monitor_focus, monitor_scroll, rows, uart_text, monitor_text>>

\* Enter: the command is repeated on a line of its own, then answered; an
\* empty one is neither.
MonitorEnter ==
  /\ monitor_focus /\ MonitorShown
  /\ \E answer \in IF monitor_input THEN Answers ELSE {<<>>} :
       LET partial == monitor.current # <<>>
           asked == IF partial THEN Commit(monitor, MONITOR_LINE_CAPACITY) ELSE monitor
           repeated == IF monitor_input
                       THEN [asked EXCEPT !.ring =
                               ring_add(@, MONITOR_LINE_CAPACITY, <<Command>>)]
                       ELSE monitor
       IN  /\ Budget(Len(answer) + 3)
           /\ monitor' = monitor_output(repeated, answer)
           /\ monitor_text' =
                GivenAll(IF ~monitor_input THEN monitor_text
                         ELSE monitor_text \o (IF partial THEN <<NL>> ELSE <<>>)
                                \o <<Command, NL>>, answer)
  /\ monitor_input' = FALSE /\ monitor_scroll' = 0
  /\ UNCHANGED <<uart, monitor_focus, rows, uart_text>>

MonitorUp(amount) ==
  /\ monitor_focus /\ MonitorShown
  /\ monitor_scroll' = IF monitor_scroll + amount > MonitorMaximum THEN MonitorMaximum
                       ELSE monitor_scroll + amount
  /\ UNCHANGED <<uart, monitor, monitor_focus, monitor_input, rows, uart_text, monitor_text>>

MonitorDown(amount) ==
  /\ monitor_focus /\ MonitorShown
  /\ monitor_scroll' = IF monitor_scroll > amount THEN monitor_scroll - amount ELSE 0
  /\ UNCHANGED <<uart, monitor, monitor_focus, monitor_input, rows, uart_text, monitor_text>>

\* F3 on a halted target; the window must be large enough.
MonitorOpen ==
  /\ ~monitor_focus /\ MonitorShown
  /\ monitor_focus' = TRUE /\ monitor_scroll' = 0 /\ monitor_input' = FALSE
  /\ UNCHANGED <<uart, monitor, rows, uart_text, monitor_text>>

MonitorClose ==
  /\ monitor_focus
  /\ monitor_focus' = FALSE /\ monitor_input' = FALSE
  /\ UNCHANGED <<uart, monitor, monitor_scroll, rows, uart_text, monitor_text>>

\* The terminal has another height: the key KEY_RESIZE.  With the monitor
\* hidden it is a blind key, which cancels the command.
Resize(height) ==
  /\ rows' = height
  /\ LET visible == IF height > 5 THEN height - 5 ELSE 0
         maximum == IF monitor.ring.count > visible THEN monitor.ring.count - visible ELSE 0
     IN  IF monitor_focus /\ height >= 6
         THEN /\ monitor_scroll' = IF monitor_scroll > maximum THEN maximum ELSE monitor_scroll
              /\ UNCHANGED monitor_input
         ELSE /\ monitor_input' = (monitor_input /\ ~monitor_focus)
              /\ UNCHANGED monitor_scroll
  /\ UNCHANGED <<uart, monitor, monitor_focus, uart_text, monitor_text>>

\* debugger_board_reset(): the monitor loses the keyboard and says so.
MonitorReset ==
  /\ Budget(2)
  /\ monitor' = monitor_output(monitor, <<Printable, NL>>)
  /\ monitor_text' = GivenAll(monitor_text, <<Printable, NL>>)
  /\ monitor_focus' = FALSE /\ monitor_input' = FALSE /\ monitor_scroll' = 0
  /\ UNCHANGED <<uart, rows, uart_text>>

\* The monitor greets its user.
PanesInit ==
  /\ uart = Pane(UART_LINE_CAPACITY)
  /\ monitor = monitor_output(Pane(MONITOR_LINE_CAPACITY), <<Printable, NL>>)
  /\ monitor_focus = FALSE /\ monitor_input = FALSE /\ monitor_scroll = 0
  /\ rows \in ROWS
  /\ uart_text = <<>> /\ monitor_text = <<Printable, NL>>

PanesNext ==
  \/ \E byte \in {Printable, Bell, NL, CR} : debugger_uart_tx(byte)
  \/ ClearUart
  \/ MonitorChar
  \/ MonitorEnter
  \/ \E amount \in {1, PAGE} : MonitorUp(amount) \/ MonitorDown(amount)
  \/ MonitorOpen
  \/ MonitorClose
  \/ \E height \in ROWS : Resize(height)
  \/ MonitorReset

PanesSpec == PanesInit /\ [][PanesNext]_panes_vars

-----------------------------------------------------------------------------
(* The lines of a text, said without writing it byte by byte: a line       *)
(* starts at the first character after the end of another line, and every  *)
(* `width` characters after that; an end of line that nothing precedes on  *)
(* its line is an empty line.                                              *)

LineStart(text, i) == Max({0} \union {j \in 1 .. i - 1 : text[j] = NL})

Heads(text, width) ==
  {i \in 1 .. Len(text) : IF text[i] = NL THEN LineStart(text, i) = i - 1
                          ELSE (i - LineStart(text, i) - 1) % width = 0}

LineAt(text, width, i) ==
  LET stops == {j \in i .. Len(text) : text[j] = NL} \union {Len(text) + 1, i + width}
  IN  SubSeq(text, i, Min(stops) - 1)

LinesOf(text, width) ==
  LET heads == Heads(text, width)
      nth(k) == CHOOSE i \in heads : Cardinality({j \in heads : j < i}) = k - 1
  IN  [k \in 1 .. Cardinality(heads) |-> LineAt(text, width, nth(k))]

Open(text) == text # <<>> /\ text[Len(text)] # NL

(* A pane holds its text cut into lines: the growing line apart, and the    *)
(* newest complete ones in the ring.                                        *)
PaneExact(pane, capacity, length, text) ==
  LET lines == LinesOf(text, length - 1)
      complete == IF Open(text) THEN Without_n(lines, 1) ELSE lines
  IN  /\ pane.current = IF Open(text) THEN lines[Len(lines)] ELSE <<>>
      /\ Contents(pane.ring, capacity) = Tail_n(complete, capacity)

(* The UART's pane ends with what the guest wrote last, its unfinished line *)
(* included, and wastes no row.                                             *)
UartWindowExact ==
  \A visible \in 1 .. UART_LINE_CAPACITY + 1 :
    draw_uart(visible)
      = Tail_n(Contents(uart.ring, UART_LINE_CAPACITY)
                 \o (IF uart.current # <<>> THEN <<uart.current>> ELSE <<>>), visible)

(* While the user works in the monitor its window is full, or shows         *)
(* everything: no resize, answer or reset leaves the window scrolled past   *)
(* its oldest line.                                                         *)
MonitorWindowExact ==
  monitor_focus /\ MonitorShown =>
    Len(draw_ring(monitor.ring, MONITOR_LINE_CAPACITY, monitor_visible_line_count,
                  monitor_scroll))
      = Min({monitor.ring.count, monitor_visible_line_count})

PanesTypeOK ==
  /\ {monitor_focus, monitor_input} \subseteq BOOLEAN /\ rows \in ROWS
  /\ monitor_scroll \in 0 .. MONITOR_LINE_CAPACITY
  /\ uart.ring.count \in 0 .. UART_LINE_CAPACITY
  /\ monitor.ring.count \in 0 .. MONITOR_LINE_CAPACITY
  /\ monitor_input => monitor_focus

(* In every state both panes hold what was written to them, and show the    *)
(* part of it that they should.                                             *)
PanesSafe ==
  /\ PanesTypeOK
  /\ PaneExact(uart, UART_LINE_CAPACITY, UART_LINE_LENGTH, uart_text)
  /\ PaneExact(monitor, MONITOR_LINE_CAPACITY, DEBUG_LINE_LENGTH, monitor_text)
  /\ UartWindowExact
  /\ MonitorWindowExact
=============================================================================

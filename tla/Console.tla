------------------------------ MODULE Console ------------------------------
(***************************************************************************)
(* The target monitor (console.c): a line editor of fixed size fed in      *)
(* arbitrary spans of bytes, the commands it executes on a paused target,  *)
(* and the one result it reports for a span.                               *)
(*                                                                         *)
(* Text is a sequence of characters; keywords, register names and numbers  *)
(* are sets of words.  Output is left out.                                 *)
(***************************************************************************)
EXTENDS Integers, SequencesExt, FiniteSetsExt

CONSTANTS
  Chars, Space,        \* printable characters
  LINE,                \* MIPSEL_EMU_CONSOLE_LINE_SIZE - 1
  MAX_TOKENS,          \* CONSOLE_MAX_TOKENS
  Reg, MemWrite,       \* keywords: reg; mwb, mwh, mww
  Readers,             \* keywords of the commands that only read
  RegisterNames, ReadOnlyNames, Addresses, Numbers,   \* words
  EXCESS               \* bound on the characters typed beyond LINE

CR == "\r"
LF == "\n"
Erase == "backspace"
Kill == "ctrl-u"
Bell == "not printable"
Controls == {CR, LF, Erase, Kill, Bell}

ASSUME ConsoleAssumption ==
  /\ Controls \intersect Chars = {}
  /\ Space \in Chars /\ LINE \in Nat /\ MAX_TOKENS \in Nat /\ EXCESS \in Nat
  /\ ReadOnlyNames \subseteq RegisterNames
  /\ Reg # MemWrite /\ {Reg, MemWrite} \intersect Readers = {}

Bytes == Chars \union Controls

VARIABLES
  input,            \* the editor's buffer, input_length its length
  discarded_input,
  previous_was_cr,
  aggregate,        \* the result of the span so far
  target,           \* [registers, memory]: what commands can change
  halted,
  feeding,          \* a span is being fed
  typed,            \* ghost: the line as typed and edited, however long
  results           \* ghost: the results of the lines of this span

console_vars == <<input, discarded_input, previous_was_cr, aggregate, target, halted,
                  feeding, typed, results>>
editor == <<input, discarded_input>>

-----------------------------------------------------------------------------
(* mipsel_console_execute()                                                *)

\* One character ends a word, continues one or begins one.
Scan(s, ch) ==
  IF ch = Space THEN [s EXCEPT !.inside = FALSE]
  ELSE IF s.inside
  THEN [s EXCEPT !.words = Append(Front(s.words), Append(Last(s.words), ch))]
  ELSE [words |-> Append(s.words, <<ch>>), inside |-> TRUE]

Tokens(line) ==
  LET scanned[n \in 0 .. Len(line)] ==
        IF n = 0 THEN [words |-> <<>>, inside |-> FALSE] ELSE Scan(scanned[n - 1], line[n])
  IN  scanned[Len(line)].words

Only(result) == {[result |-> result, target |-> target]}

command_register(tokens) ==
  LET n == Len(tokens)
  IN  IF n = 1 THEN Only("OK")
      ELSE IF n > 3 \/ tokens[2] \notin RegisterNames THEN Only("ERROR")
      ELSE IF n = 2 THEN Only("OK")
      ELSE IF tokens[3] \notin Numbers \/ tokens[2] \in ReadOnlyNames THEN Only("ERROR")
      ELSE {[result |-> "STATE_CHANGED",
             target |-> [target EXCEPT !.registers = [@ EXCEPT ![tokens[2]] = tokens[3]]]]}

\* tlb, translate, mrb, mrh, mrw, disasm, help: an answer or an error.
command_that_reads == Only("OK") \union Only("ERROR")

\* A write that the bus refuses changes nothing.
command_memory(tokens) ==
  IF Len(tokens) # 3 \/ ~(tokens[2] \in Addresses /\ tokens[3] \in Numbers)
  THEN Only("ERROR")
  ELSE Only("ERROR") \union
       {[result |-> "STATE_CHANGED",
         target |-> [target EXCEPT !.memory = [@ EXCEPT ![tokens[2]] = tokens[3]]]]}

mipsel_console_execute(line) ==
  LET tokens == Tokens(line)
  IN  IF Len(tokens) > MAX_TOKENS THEN Only("ERROR")
      ELSE IF tokens = <<>> THEN Only("OK")
      ELSE IF ~halted THEN Only("TARGET_NOT_HALTED")
      ELSE CASE tokens[1] = Reg -> command_register(tokens)
             [] tokens[1] = MemWrite -> command_memory(tokens)
             [] tokens[1] \in Readers -> command_that_reads
             [] OTHER -> Only("ERROR")

-----------------------------------------------------------------------------
(* mipsel_console_feed(), byte by byte.                                    *)

merge_feed_result(current) ==
  IF aggregate = "NO_COMMAND" THEN current
  ELSE IF "TARGET_NOT_HALTED" \in {aggregate, current} THEN "TARGET_NOT_HALTED"
  ELSE IF "STATE_CHANGED" \in {aggregate, current} THEN "STATE_CHANGED"
  ELSE IF "ERROR" \in {aggregate, current} THEN "ERROR"
  ELSE "OK"

ClearLine == input' = <<>> /\ discarded_input' = 0

\* Mutant: a line that was too long is executed up to its cut.
Outcomes_Cut == mipsel_console_execute(input)

Outcomes == IF discarded_input # 0 THEN Only("ERROR") ELSE mipsel_console_execute(input)

Terminate ==
  /\ \E o \in Outcomes :
       /\ target' = o.target
       /\ aggregate' = merge_feed_result(o.result)
       /\ results' = results \union {o.result}
  /\ ClearLine /\ typed' = <<>>

\* Mutant: backspace takes from the buffer even when the line is too long.
EraseOne_FromBuffer ==
  IF input # <<>>
  THEN input' = Front(input) /\ UNCHANGED discarded_input
  ELSE UNCHANGED editor

EraseOne ==
  CASE discarded_input # 0 -> discarded_input' = discarded_input - 1 /\ UNCHANGED input
    [] discarded_input = 0 /\ input # <<>> -> input' = Front(input) /\ UNCHANGED discarded_input
    [] OTHER -> UNCHANGED editor

Insert(ch) ==
  IF Len(input) < LINE /\ discarded_input = 0
  THEN input' = Append(input, ch) /\ UNCHANGED discarded_input
  ELSE discarded_input' = discarded_input + 1 /\ UNCHANGED input

Keeps == UNCHANGED <<aggregate, target, results>>

\* A CR, or an LF that is not the second half of a CRLF, ends the line.
Ends(byte) == byte = CR \/ (byte = LF /\ ~previous_was_cr)

Feed(byte) ==
  /\ feeding
  /\ previous_was_cr' = (byte = CR)
  /\ CASE Ends(byte) -> Terminate
       [] byte = Erase -> EraseOne /\ typed' = SubSeq(typed, 1, Len(typed) - 1) /\ Keeps
       [] byte = Kill -> ClearLine /\ typed' = <<>> /\ Keeps
       [] byte \in Chars -> /\ discarded_input < EXCESS
                            /\ Insert(byte) /\ typed' = Append(typed, byte) /\ Keeps
       [] OTHER -> UNCHANGED <<editor, typed>> /\ Keeps
  /\ UNCHANGED <<halted, feeding>>

-----------------------------------------------------------------------------
(* The caller, which serializes spans with the target.                     *)

BeginSpan ==
  /\ ~feeding
  /\ feeding' = TRUE /\ aggregate' = "NO_COMMAND" /\ results' = {}
  /\ UNCHANGED <<editor, previous_was_cr, target, halted, typed>>

EndSpan ==
  /\ feeding
  /\ feeding' = FALSE
  /\ UNCHANGED <<editor, previous_was_cr, aggregate, target, halted, typed, results>>

\* Leaving the monitor, a target that runs, a board reset.
mipsel_console_cancel_input ==
  /\ ~feeding
  /\ ClearLine /\ typed' = <<>>
  /\ previous_was_cr' = FALSE
  /\ UNCHANGED <<aggregate, target, halted, feeding, results>>

PauseOrResume ==
  /\ ~feeding
  /\ halted' = ~halted
  /\ UNCHANGED <<editor, previous_was_cr, aggregate, target, feeding, typed, results>>

NoValue == <<>>

ConsoleInit ==
  /\ input = <<>> /\ discarded_input = 0 /\ previous_was_cr = FALSE
  /\ aggregate = "NO_COMMAND" /\ results = {} /\ typed = <<>>
  /\ target = [registers |-> [r \in RegisterNames |-> NoValue],
               memory |-> [a \in Addresses |-> NoValue]]
  /\ halted = FALSE /\ feeding = FALSE

ConsoleNext ==
  \/ \E byte \in Bytes : Feed(byte)
  \/ BeginSpan
  \/ EndSpan
  \/ mipsel_console_cancel_input
  \/ PauseOrResume

ConsoleSpec == ConsoleInit /\ [][ConsoleNext]_console_vars

-----------------------------------------------------------------------------
Results == {"OK", "STATE_CHANGED", "ERROR", "TARGET_NOT_HALTED"}

ConsoleTypeOK ==
  /\ input \in Seq(Chars) /\ Len(input) <= LINE /\ typed \in Seq(Chars)
  /\ discarded_input \in 0 .. EXCESS
  /\ previous_was_cr \in BOOLEAN /\ halted \in BOOLEAN /\ feeding \in BOOLEAN
  /\ aggregate \in Results \union {"NO_COMMAND"} /\ results \subseteq Results

(* The buffer is the beginning of the line as typed and edited, and the     *)
(* counter is what is missing: deleting back into the buffer resurrects     *)
(* the line, and never a different one.                                     *)
LineIsTyped ==
  /\ input = SubSeq(typed, 1, Min({LINE, Len(typed)}))
  /\ discarded_input = Len(typed) - Len(input)

\* The words of a line, said another way: from each start to its end.
Words(line) ==
  LET Inside(i) == i \in DOMAIN line /\ line[i] # Space
      starts == {i \in DOMAIN line : Inside(i) /\ ~Inside(i - 1)}
      End(i) == Min({j \in i .. Len(line) : ~Inside(j + 1)})
  IN  {SubSeq(line, i, End(i)) : i \in starts}

(* What changes the target is a complete line, as typed, on a paused        *)
(* target: never one that was cut, never while the target runs.             *)
ChangesAsTyped ==
  [][target' # target =>
       /\ halted /\ Len(typed) <= LINE
       /\ \E name \in RegisterNames \union Addresses, n \in Numbers :
            /\ {name, n} \subseteq Words(typed)
            /\ \/ Reg \in Words(typed) /\ name \in RegisterNames \ ReadOnlyNames
                  /\ target' = [target EXCEPT !.registers = [@ EXCEPT ![name] = n]]
               \/ MemWrite \in Words(typed) /\ name \in Addresses
                  /\ target' = [target EXCEPT !.memory = [@ EXCEPT ![name] = n]]]_console_vars

(* The result of a span keeps the mutation, the error and the refusal of    *)
(* any of its lines, whatever lines follow or precede.                      *)
ResultKept ==
  /\ aggregate = "NO_COMMAND" <=> results = {}
  /\ "TARGET_NOT_HALTED" \in results => aggregate = "TARGET_NOT_HALTED"
  /\ "STATE_CHANGED" \in results => aggregate = "STATE_CHANGED"
  /\ "ERROR" \in results => aggregate \notin {"NO_COMMAND", "OK"}

(* In every state the console is well formed, its line is the one that was  *)
(* typed, and a span's result covers all of its lines.                      *)
ConsoleSafe == ConsoleTypeOK /\ LineIsTyped /\ ResultKept
=============================================================================

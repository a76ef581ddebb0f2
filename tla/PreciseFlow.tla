---------------------------- MODULE PreciseFlow ----------------------------
(***************************************************************************)
(* What system software relies on: a MIPS program counter with delay slots *)
(* and precise exceptions, without a pipeline.                             *)
(*                                                                         *)
(* at is the oldest instruction that has not completed.  A branch does not *)
(* complete until its delay slot has: after it has decided where to go,    *)
(* goto holds that address and at is still the branch.  An exception gives *)
(* up everything not completed and remembers at, once per nest.            *)
(***************************************************************************)
EXTENDS Integers

CONSTANTS Size, Targets, Vectors, Reset

Here == 0 .. Size - 1
Nowhere == -1
Next4(a, n) == (a + n) % Size

VARIABLES
  at, goto,
  level,         \* [exception, error : BOOLEAN]: the nests entered
  resume,        \* where to return to from the exception
  in_slot,       \* the exception struck a delay slot
  error_resume   \* where to return to from the soft reset

flow_vars == <<at, goto, level, resume, in_slot, error_resume>>

Init ==
  /\ at \in Here /\ goto = Nowhere
  /\ level \in [exception : {FALSE}, error : BOOLEAN]
  /\ resume \in Here /\ error_resume \in Here
  /\ in_slot = FALSE

\* An instruction completes: the next in line, or the branch together with
\* its delay slot.
Complete ==
  /\ at' = IF goto = Nowhere THEN Next4(at, 4) ELSE goto
  /\ goto' = Nowhere

\* A branch decides; not taken, it continues behind its slot.
Decide ==
  /\ goto = Nowhere
  /\ goto' \in Targets \union {Next4(at, 8)}
  /\ UNCHANGED <<at, level, resume, in_slot, error_resume>>

\* A likely branch that is not taken skips its slot.
SkipSlot ==
  /\ goto = Nowhere
  /\ at' = Next4(at, 8)
  /\ UNCHANGED <<goto, level, resume, in_slot, error_resume>>

Trap ==
  /\ at' \in Vectors
  /\ goto' = Nowhere
  /\ level' = [level EXCEPT !.exception = TRUE]
  /\ IF level.exception
     THEN UNCHANGED <<resume, in_slot>>
     ELSE resume' = at /\ in_slot' = (goto # Nowhere)
  /\ UNCHANGED error_resume

Return ==
  /\ goto = Nowhere
  /\ goto' = Nowhere
  /\ IF level.error
     THEN at' = error_resume /\ level' = [level EXCEPT !.error = FALSE]
     ELSE at' = resume /\ level' = [level EXCEPT !.exception = FALSE]
  /\ UNCHANGED <<resume, in_slot, error_resume>>

\* Privileged software, or a debugger, edits the exception state.
Edit ==
  /\ UNCHANGED in_slot
  /\ \/ UNCHANGED <<resume, error_resume>>
     \/ resume' \in Targets /\ UNCHANGED <<level, error_resume>>
     \/ error_resume' \in Targets /\ UNCHANGED <<level, resume>>

SoftReset ==
  /\ at' = Reset /\ goto' = Nowhere
  /\ level' = [level EXCEPT !.error = TRUE]
  /\ error_resume' = at
  /\ in_slot' = (in_slot /\ level.exception)
  /\ UNCHANGED resume

\* A cold reset or a board reset starts over; a debugger moves the program.
StartOver ==
  /\ at' \in Here /\ goto' = Nowhere
  /\ level' \in [exception : {FALSE}, error : BOOLEAN]
  /\ resume' \in Here /\ error_resume' \in Here
  /\ in_slot' = FALSE

Move ==
  /\ at' \in Targets /\ goto' = Nowhere
  /\ UNCHANGED <<level, resume, in_slot, error_resume>>

Next ==
  \/ Complete /\ UNCHANGED <<level, resume, in_slot, error_resume>>
  \/ Complete /\ Edit
  \/ UNCHANGED <<at, goto>> /\ Edit
  \/ Decide
  \/ SkipSlot
  \/ Trap
  \/ Return
  \/ SoftReset
  \/ StartOver
  \/ Move

Spec == Init /\ [][Next]_flow_vars
=============================================================================

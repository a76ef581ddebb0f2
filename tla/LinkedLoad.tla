----------------------------- MODULE LinkedLoad -----------------------------
(***************************************************************************)
(* LL and SC (op.c) as the tasks and the kernel of a guest use them: a     *)
(* word is loaded, and the sum stored only if the link survived.  The      *)
(* emulator keeps one link; exceptions (exception.c), ERET (op.c) and the  *)
(* monitor (console.c) break it, ordinary stores do not.                   *)
(*                                                                         *)
(* Every write of a word adds one to it, so that an update that is lost    *)
(* shows in the sum.                                                       *)
(***************************************************************************)
EXTENDS Integers

CONSTANTS
  Tasks, Kernel,   \* the contexts that execute LL and SC
  Words, NoWord,   \* physical addresses, and none
  MAX_WRITES       \* bound on the writes of one word

Contexts == Tasks \union {Kernel}

ASSUME KernelAssumption == Kernel \notin Tasks
ASSUME WordsAssumption == NoWord \notin Words /\ MAX_WRITES \in Nat

VARIABLES
  mem,         \* the words
  ll_bit, ll_addr,
  running,     \* the context that executes
  program,     \* [next, word, value] of each context
  writes       \* how often each word was written

ll_vars == <<mem, ll_bit, ll_addr, running, program, writes>>

-----------------------------------------------------------------------------
Unlink == ll_bit' = FALSE /\ ll_addr' = NoWord

Wrote(w) == writes' = [writes EXCEPT ![w] = @ + 1]

CanWrite(w) == writes[w] < MAX_WRITES

op_ll(c, w) ==
  /\ program' = [program EXCEPT ![c] = [next |-> "sc", word |-> w, value |-> mem[w]]]
  /\ ll_bit' = TRUE /\ ll_addr' = w

LinkHolds(w) == ll_bit /\ ll_addr = w

\* Stored or not, the program starts over with its next update.
op_sc(c) ==
  LET w == program[c].word
  IN  /\ IF LinkHolds(w)
         THEN mem' = [mem EXCEPT ![w] = program[c].value + 1] /\ Wrote(w)
         ELSE UNCHANGED <<mem, writes>>
      /\ program' = [program EXCEPT ![c].next = "ll"]
      /\ Unlink

\* Mutant: ERET leaves the link alone.
op_eret_KeepsLink(t) == running' = t /\ UNCHANGED <<ll_bit, ll_addr>>

op_eret(t) == running' = t /\ Unlink

-----------------------------------------------------------------------------
LoadLinked ==
  /\ program[running].next # "sc"
  /\ \E w \in Words : op_ll(running, w)
  /\ UNCHANGED <<mem, running, writes>>

StoreConditional ==
  /\ program[running].next = "sc"
  /\ CanWrite(program[running].word)
  /\ op_sc(running)
  /\ UNCHANGED running

\* A program may decide after LL not to store.
GiveUp ==
  /\ program[running].next = "sc"
  /\ program' = [program EXCEPT ![running].next = "ll"]
  /\ UNCHANGED <<mem, ll_bit, ll_addr, running, writes>>

\* An interrupt, or a fault of LL or SC itself, which is executed again.  In
\* the handler exceptions are not taken again.
Exception ==
  /\ running # Kernel
  /\ running' = Kernel
  /\ program' = [program EXCEPT ![Kernel].next = "ll"]
  /\ Unlink
  /\ UNCHANGED <<mem, writes>>

\* The kernel writes a word of a task.
KernelStore ==
  /\ running = Kernel /\ program[Kernel].next # "sc"
  /\ \E w \in Words :
       /\ CanWrite(w)
       /\ mem' = [mem EXCEPT ![w] = @ + 1] /\ Wrote(w)
  /\ UNCHANGED <<ll_bit, ll_addr, running, program>>

Eret ==
  /\ running = Kernel
  /\ \E t \in Tasks : op_eret(t)
  /\ UNCHANGED <<mem, program, writes>>

\* The monitor's mwb, mwh and mww.
MonitorWrite ==
  /\ \E w \in Words :
       /\ CanWrite(w)
       /\ mem' = [mem EXCEPT ![w] = @ + 1] /\ Wrote(w)
  /\ Unlink
  /\ UNCHANGED <<running, program>>

\* The monitor's "reg pc" and "reg next_pc", back to the load.
MonitorSetPc ==
  /\ program' = [program EXCEPT ![running].next = "ll"]
  /\ Unlink
  /\ UNCHANGED <<mem, running, writes>>

LlInit ==
  /\ mem = [w \in Words |-> 0] /\ writes = mem
  /\ ll_bit = FALSE /\ ll_addr = NoWord
  /\ running = Kernel
  /\ program = [c \in Contexts |->
                  [next |-> "ll", word |-> CHOOSE w \in Words : TRUE, value |-> 0]]

LlNext ==
  \/ LoadLinked
  \/ StoreConditional
  \/ GiveUp
  \/ Exception
  \/ KernelStore
  \/ Eret
  \/ MonitorWrite
  \/ MonitorSetPc

LlSpec == LlInit /\ [][LlNext]_ll_vars

-----------------------------------------------------------------------------
LlTypeOK ==
  /\ mem \in [Words -> 0 .. MAX_WRITES] /\ writes \in [Words -> 0 .. MAX_WRITES]
  /\ ll_bit \in BOOLEAN /\ ll_addr \in Words \union {NoWord}
  /\ running \in Contexts
  /\ program \in [Contexts -> [next : {"ll", "sc"}, word : Words,
                               value : 0 .. MAX_WRITES]]

(* An SC that succeeds has overwritten exactly what its LL read: no update  *)
(* of another task, of the kernel or of the monitor in between is lost.     *)
NoLostUpdate == mem = writes

(* While the link holds, it belongs to the context that runs and names the  *)
(* word that this context loaded last, if it is about to store.             *)
LinkIsOwn ==
  ll_bit /\ program[running].next = "sc" =>
    ll_addr = program[running].word /\ program[running].value = mem[ll_addr]

(* In every state the link is the running context's own and no update has   *)
(* been lost.                                                               *)
LlSafe == LlTypeOK /\ NoLostUpdate /\ LinkIsOwn
=============================================================================

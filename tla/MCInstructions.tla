--------------------------- MODULE MCInstructions ---------------------------
(***************************************************************************)
(* What instructions are and what they do to memory and registers:         *)
(* decoding, address translation and the TLB, LL and SC, loads and stores, *)
(* arithmetic.  Each model treats its own part of the processor's state    *)
(* and takes the others' outcome as an input, so a behaviour exercises one *)
(* of them and leaves the others in an initial state.                      *)
(***************************************************************************)
EXTENDS Tlb, LinkedLoad, LoadStore, Alu, Decode

VARIABLE exercised   \* the part this behaviour is about

\* TLB: three entries, one of which becomes wired; two tasks that both own the
\* page in the odd half of a pair and touch one in the next pair that nobody
\* owns.
OwnedPages == {<<0, 1>>, <<1, 1>>}

\* LL and SC: two tasks and the kernel on two words.

\* Loads and stores: two words of RAM in a space of four; all bytes differ, so
\* that every misplaced byte shows, and some of them are negative.
DistinctRam == [a \in 0 .. 7 |-> 1 + a + (IF a % 3 = 0 THEN 128 ELSE 0)]
DistinctReg == [i \in 0 .. 3 |-> 17 + i + (IF i = 2 THEN 128 ELSE 0)]

\* Arithmetic: words of four bits, so bytes of one bit and halves of two.  HI
\* and LO start at minus one and at a mixed pattern.

AluParked ==
  /\ regs = [rs |-> 0, rt |-> 0, rd |-> 10, hi |-> 5, lo |-> 5, exc |-> "none"]
  /\ AluInit

\* Decoding: every opcode and every selector of the tables with fields at and
\* next to the values that somebody looks at; jumps and branches from every
\* word of two regions of eight words, in both directions.
WordsOf(op, rs, rt, rd, sa, fn) ==
  [op : op, rs : rs, rt : rt, rd : rd, sa : sa, fn : fn, target : {0}, displacement : {0}]

Others == 2 .. 63 \ {16, 28, 31}

Routes ==
  WordsOf({0}, {0, 1, 2}, {0, 2}, {0, 12}, {0, 1, 2, 16}, 0 .. 63)
    \union WordsOf({1}, {0}, 0 .. 31, {0}, {0}, {0})
    \union WordsOf({28}, {1}, {2, 3}, {2}, {0, 1}, 0 .. 63)
    \union WordsOf({31}, {0, 1}, {2}, {0, 3, 4, 16, 31}, {0, 1, 2, 16, 24, 31}, 0 .. 63)
    \union WordsOf({16}, 0 .. 31, {0}, {0, 12}, {0}, 0 .. 63)
    \union WordsOf(Others, {1}, {2}, {3}, {4}, {5})

Transfers ==
  [op : {1, 2, 3, 4, 5, 6, 7, 20, 21, 22, 23, 29}, rs : {1}, rt : {1, 18}, rd : {0}, sa : {0}, fn : {0},
   target : {0, 5}, displacement : {-8, -1, 0, 7}]

Fetches ==
  Fetched(Routes, {0}, {"kernel", "user"})
    \union Fetched(Transfers, {4 * i : i \in 0 .. 15}, {"kernel"})

DecodeParked == DecodeInit(Fetched(WordsOf({0}, {0}, {0}, {0}, {0}, {0}), {0}, {"kernel"}))

InstructionsInit ==
  /\ TlbInit /\ LlInit /\ LsInit
  /\ \/ exercised \in {"translation", "link", "access"} /\ AluParked /\ DecodeParked
     \/ exercised = "arithmetic" /\ AluInit /\ DecodeParked
     \/ exercised = "decoding" /\ AluParked /\ DecodeInit(Fetches)

InstructionsNext ==
  /\ UNCHANGED exercised
  /\ \/ /\ exercised = "translation" /\ TlbNext
        /\ UNCHANGED <<ll_vars, lsVars, aluVars, decode_vars>>
     \/ /\ exercised = "link" /\ LlNext
        /\ UNCHANGED <<tlb_vars, lsVars, aluVars, decode_vars>>
     \/ /\ exercised = "access" /\ LsNext
        /\ UNCHANGED <<tlb_vars, ll_vars, aluVars, decode_vars>>
     \/ /\ exercised = "arithmetic" /\ AluNext
        /\ UNCHANGED <<tlb_vars, ll_vars, lsVars, decode_vars>>
     \/ /\ exercised = "decoding" /\ DecodeNext
        /\ UNCHANGED <<tlb_vars, ll_vars, lsVars, aluVars>>

instructions_vars == <<exercised, tlb_vars, ll_vars, lsVars, aluVars, decode_vars>>

InstructionsSpec == InstructionsInit /\ [][InstructionsNext]_instructions_vars
=============================================================================

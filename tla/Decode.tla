------------------------------- MODULE Decode -------------------------------
(***************************************************************************)
(* Two decoders of one instruction set: the tables of handlers that the    *)
(* processor executes with (instru.h, op.c) and the switches that the      *)
(* disassembler prints with (disasm.c), which the monitor and the trace    *)
(* show to whoever debugs a guest.  A word is fetched, executed as far as  *)
(* its decoding goes, and printed.                                         *)
(*                                                                         *)
(* A word is a record of its fields; "target" is its immediate or its jump *)
(* index.  What the handlers compute is in Alu, LoadStore, LinkedLoad, Tlb *)
(* and Cpu; here a handler is named by its instruction.                    *)
(***************************************************************************)
EXTENDS Integers, Sequences, FiniteSets, TLC

CONSTANTS
  REGION,      \* bytes that a jump index reaches (2^28)
  REGIONS      \* regions of the address space (2^4)

ASSUME DecodeAssumption == REGION \in Nat \ {0} /\ REGION % 4 = 0 /\ REGIONS \in Nat \ {0}

VARIABLES
  fetched,     \* the word, its address and the mode of the processor
  executed,    \* what the processor makes of it
  printed      \* what the disassembler makes of it

decode_vars == <<fetched, executed, printed>>

Space == REGION * REGIONS

\* An outcome: a valid instruction, a reserved one, an unusable coprocessor.
Is(name) == [kind |-> "valid", name |-> name, coprocessor |-> 0]
ReservedWord == [kind |-> "reserved", name |-> "reserved", coprocessor |-> 0]
Unusable(n) == [kind |-> "unusable", name |-> "", coprocessor |-> n]

-----------------------------------------------------------------------------
(* The tables of handlers: rows of eight.  "beta" raises Reserved          *)
(* Instruction, "delta" Coprocessor Unusable.                              *)

op_table == <<
  "special1", "regimm",  "j",     "jal",  "beq",   "bne",   "blez",  "bgtz",
  "addi",     "addiu",   "slti",  "sltiu","andi",  "ori",   "xori",  "lui",
  "cop0",     "delta",   "delta", "delta","beql",  "bnel",  "blezl", "bgtzl",
  "beta",     "beta",    "beta",  "beta", "special2", "jalx", "beta", "special3",
  "lb",       "lh",      "lwl",   "lw",   "lbu",   "lhu",   "lwr",   "beta",
  "sb",       "sh",      "swl",   "sw",   "beta",  "beta",  "swr",   "cache",
  "ll",       "delta",   "delta", "pref", "beta",  "delta", "delta", "beta",
  "sc",       "delta",   "delta", "beta", "beta",  "delta", "delta", "beta" >>

special1_table == <<
  "sll",      "delta",   "srl",   "sra",  "sllv",  "beta",  "srlv",  "srav",
  "jr",       "jalr",    "movz",  "movn", "syscall", "break", "beta", "sync",
  "mfhi",     "mthi",    "mflo",  "mtlo", "beta",  "beta",  "beta",  "beta",
  "mult",     "multu",   "div",   "divu", "beta",  "beta",  "beta",  "beta",
  "add",      "addu",    "sub",   "subu", "and",   "or",    "xor",   "nor",
  "beta",     "beta",    "slt",   "sltu", "beta",  "beta",  "beta",  "beta",
  "tge",      "tgeu",    "tlt",   "tltu", "teq",   "beta",  "tne",   "beta",
  "beta",     "beta",    "beta",  "beta", "beta",  "beta",  "beta",  "beta" >>

\* Mutant: two entries of the table are swapped.
regimm_table_Swapped == <<
  "bltz",     "bgez",    "bltzl", "bgezl","beta",  "beta",  "beta",  "beta",
  "tgei",     "tgeiu",   "tlti",  "tltiu","teqi",  "beta",  "tnei",  "beta",
  "bltzal",   "bgezal",  "bgezall","bltzall","beta","beta", "beta",  "beta",
  "beta",     "beta",    "beta",  "beta", "beta",  "beta",  "beta",  "synci" >>

regimm_table == <<
  "bltz",     "bgez",    "bltzl", "bgezl","beta",  "beta",  "beta",  "beta",
  "tgei",     "tgeiu",   "tlti",  "tltiu","teqi",  "beta",  "tnei",  "beta",
  "bltzal",   "bgezal",  "bltzall","bgezall","beta","beta", "beta",  "beta",
  "beta",     "beta",    "beta",  "beta", "beta",  "beta",  "beta",  "synci" >>

\* The tables that begin with a default.
Table(size, entries) ==
  [i \in 0 .. size - 1 |-> IF i \in DOMAIN entries THEN entries[i] ELSE "beta"]

special2_table ==
  Table(64, 0 :> "madd" @@ 1 :> "maddu" @@ 2 :> "mul" @@ 5 :> "msub" @@ 6 :> "msubu"
              @@ 32 :> "clz" @@ 33 :> "clo")

special3_table == Table(64, 0 :> "ext" @@ 4 :> "ins" @@ 32 :> "bshfl" @@ 59 :> "rdhwr")

bshfl_table == Table(32, 2 :> "wsbh" @@ 16 :> "seb" @@ 24 :> "seh")

cop0_table0 ==
  Table(64, 1 :> "tlbr" @@ 2 :> "tlbwi" @@ 6 :> "tlbwr" @@ 8 :> "tlbp" @@ 24 :> "eret"
              @@ 31 :> "deret" @@ 32 :> "wfe")

cop0_table1 ==
  Table(16, 0 :> "mfc0" @@ 4 :> "mtc0" @@ 10 :> "rdpgpr" @@ 11 :> "mfmc0" @@ 14 :> "wrpgpr")

-----------------------------------------------------------------------------
(* Execution, up to the point where it is known what the instruction is.   *)

CFLAG(w) == w.rs \div 16

\* One level of dispatch after another.
op_cop0_handler(w) == IF CFLAG(w) = 1 THEN cop0_table0[w.fn] ELSE cop0_table1[w.rs]

handler(w) ==
  LET first == op_table[w.op + 1]
  IN  CASE first = "special1" -> special1_table[w.fn + 1]
        [] first = "regimm" -> regimm_table[w.rt + 1]
        [] first = "special2" -> special2_table[w.fn]
        [] first = "special3" -> IF special3_table[w.fn] = "bshfl" THEN bshfl_table[w.sa]
                                 ELSE special3_table[w.fn]
        [] first = "cop0" -> op_cop0_handler(w)
        [] OTHER -> first

\* Encodings that a handler refuses itself: op_srl(), op_srlv(), op_mult(),
\* op_clz(), op_clo(), op_ext(), op_ins(), op_mfmc0(), op_seb(), op_rdhwr().
Refused(name, w) ==
  \/ name = "srl" /\ w.rs > 1
  \/ name = "srlv" /\ w.sa > 1
  \/ name = "mult" /\ (w.rd # 0 \/ w.sa # 0)
  \/ name \in {"clz", "clo"} /\ (w.rt # w.rd \/ w.sa # 0)
  \/ name = "ext" /\ w.sa + w.rd + 1 > 32
  \/ name = "ins" /\ w.rd < w.sa
  \/ name = "mfmc0" /\ w.rd # 12
  \/ name = "seb" /\ w.rs # 0
  \/ name = "rdhwr" /\ (w.rs # 0 \/ w.sa # 0 \/ w.rd > 3)

\* delta() takes the coprocessor from the opcode.
delta(w) == Unusable(w.op % 4)

\* A release 2 rotation shares its handler with the shift; EI with DI.
Named(name, w) ==
  CASE name = "srl" /\ w.rs = 1 -> Is("rotr")
    [] name = "srlv" /\ w.sa = 1 -> Is("rotrv")
    [] name = "mfmc0" -> IF (w.fn \div 32) % 2 = 1 THEN Is("ei") ELSE Is("di")
    [] OTHER -> Is(name)

\* What the mode forbids: coprocessor 0 without Status.CU0, a hardware register
\* that HWREna does not enable.
Forbidden(w, mode) ==
  IF mode # "user" THEN {}
  ELSE IF op_table[w.op + 1] = "cop0" THEN {Unusable(0)}
  ELSE IF handler(w) = "rdhwr" THEN {ReservedWord} ELSE {}

execute_instr(w, mode) ==
  LET name == handler(w)
  IN  IF Forbidden(w, mode) # {} THEN CHOOSE outcome \in Forbidden(w, mode) : TRUE
      ELSE CASE name = "beta" -> ReservedWord
             [] name \in {"delta", "deret", "rdpgpr", "wrpgpr"} -> delta(w)
             [] OTHER -> IF Refused(name, w) THEN ReservedWord ELSE Named(name, w)

\* Where a taken branch or a jump goes: op_j() and op_jal() take the region of
\* the delay slot, op_jalx() that of the instruction.
Jumps == {"j", "jal"}

ExecutedTarget(name, pc, w) ==
  CASE name \in Jumps -> (((pc + 4) % Space) \div REGION) * REGION + 4 * w.target
    [] name = "jalx" -> (pc \div REGION) * REGION + 4 * w.target
    [] OTHER -> (pc + 4 + 4 * w.displacement) % Space

\* The field of the register that a handler writes.
WritesRd ==
  {"sll", "srl", "rotr", "sra", "sllv", "srlv", "rotrv", "srav", "jalr", "movz", "movn", "mfhi",
   "mflo", "add", "addu", "sub", "subu", "and", "or", "xor", "nor", "slt", "sltu", "mul", "clz",
   "clo", "wsbh", "seb", "seh"}

WritesRt ==
  {"addi", "addiu", "slti", "sltiu", "andi", "ori", "xori", "lui", "lb", "lh", "lwl", "lw", "lbu",
   "lhu", "lwr", "ll", "sc", "mfc0", "di", "ei", "ext", "ins", "rdhwr"}

-----------------------------------------------------------------------------
(* The disassembler: <<selector, mnemonic, format of the operands>>.       *)

SpecialRows ==
  {<<0, "sll", "RD_RT_SA">>, <<3, "sra", "RD_RT_SA">>, <<4, "sllv", "RD_RT_RS">>,
   <<7, "srav", "RD_RT_RS">>, <<8, "jr", "RS">>, <<9, "jalr", "RD_RS">>,
   <<10, "movz", "RD_RS_RT">>, <<11, "movn", "RD_RS_RT">>, <<12, "syscall", "CODE20">>,
   <<13, "break", "CODE20">>, <<15, "sync", "SYNC">>, <<16, "mfhi", "RD">>, <<17, "mthi", "RS">>,
   <<18, "mflo", "RD">>, <<19, "mtlo", "RS">>, <<24, "mult", "RS_RT">>, <<25, "multu", "RS_RT">>,
   <<26, "div", "RS_RT">>, <<27, "divu", "RS_RT">>, <<32, "add", "RD_RS_RT">>,
   <<33, "addu", "RD_RS_RT">>, <<34, "sub", "RD_RS_RT">>, <<35, "subu", "RD_RS_RT">>,
   <<36, "and", "RD_RS_RT">>, <<37, "or", "RD_RS_RT">>, <<38, "xor", "RD_RS_RT">>,
   <<39, "nor", "RD_RS_RT">>, <<42, "slt", "RD_RS_RT">>, <<43, "sltu", "RD_RS_RT">>,
   <<48, "tge", "TRAP">>, <<49, "tgeu", "TRAP">>, <<50, "tlt", "TRAP">>, <<51, "tltu", "TRAP">>,
   <<52, "teq", "TRAP">>, <<54, "tne", "TRAP">>}

RegimmRows ==
  {<<0, "bltz", "BRANCH">>, <<1, "bgez", "BRANCH">>, <<2, "bltzl", "BRANCH">>,
   <<3, "bgezl", "BRANCH">>, <<8, "tgei", "TRAP">>, <<9, "tgeiu", "TRAP">>,
   <<10, "tlti", "TRAP">>, <<11, "tltiu", "TRAP">>, <<12, "teqi", "TRAP">>,
   <<14, "tnei", "TRAP">>, <<16, "bltzal", "BRANCH">>, <<17, "bgezal", "BRANCH">>,
   <<18, "bltzall", "BRANCH">>, <<19, "bgezall", "BRANCH">>, <<31, "synci", "BASE">>}

Special2Rows ==
  {<<0, "madd", "RS_RT">>, <<1, "maddu", "RS_RT">>, <<2, "mul", "RD_RS_RT">>,
   <<5, "msub", "RS_RT">>, <<6, "msubu", "RS_RT">>, <<32, "clz", "RD_RS">>, <<33, "clo", "RD_RS">>}

BshflRows == {<<2, "wsbh", "RD_RT">>, <<16, "seb", "RD_RT">>, <<24, "seh", "RD_RT">>}

TlbRows ==
  {<<1, "tlbr", "NONE">>, <<2, "tlbwi", "NONE">>, <<6, "tlbwr", "NONE">>, <<8, "tlbp", "NONE">>,
   <<24, "eret", "NONE">>}

OpcodeRows ==
  {<<2, "j", "JUMP">>, <<3, "jal", "JUMP">>, <<4, "beq", "BRANCH">>, <<5, "bne", "BRANCH">>,
   <<6, "blez", "BRANCH">>, <<7, "bgtz", "BRANCH">>, <<8, "addi", "RT_RS">>,
   <<9, "addiu", "RT_RS">>, <<10, "slti", "RT_RS">>, <<11, "sltiu", "RT_RS">>,
   <<12, "andi", "RT_RS">>, <<13, "ori", "RT_RS">>, <<14, "xori", "RT_RS">>, <<15, "lui", "RT">>,
   <<20, "beql", "BRANCH">>, <<21, "bnel", "BRANCH">>, <<22, "blezl", "BRANCH">>,
   <<23, "bgtzl", "BRANCH">>, <<29, "jalx", "JUMP">>, <<32, "lb", "MEM">>, <<33, "lh", "MEM">>,
   <<34, "lwl", "MEM">>, <<35, "lw", "MEM">>, <<36, "lbu", "MEM">>, <<37, "lhu", "MEM">>,
   <<38, "lwr", "MEM">>, <<40, "sb", "MEM">>, <<41, "sh", "MEM">>, <<42, "swl", "MEM">>,
   <<43, "sw", "MEM">>, <<46, "swr", "MEM">>, <<47, "cache", "CACHE">>, <<48, "ll", "MEM">>,
   <<51, "pref", "CACHE">>, <<56, "sc", "MEM">>}

\* Coprocessors 1 and 2: their opcode, and the number that is printed.
CoprocessorRows ==
  {<<17, 1>>, <<18, 2>>, <<19, 1>>, <<49, 1>>, <<50, 2>>, <<53, 1>>, <<54, 2>>, <<57, 1>>,
   <<58, 2>>, <<61, 1>>, <<62, 2>>}

valid(mnemonic, format) == [outcome |-> Is(mnemonic), format |-> format]
reserved == [outcome |-> ReservedWord, format |-> "RAW"]
coprocessor_unusable(n) == [outcome |-> Unusable(n), format |-> "RAW"]

Lookup(rows, selector) ==
  LET found == {row \in rows : row[1] = selector}
  IN  IF found = {} THEN reserved
      ELSE LET row == CHOOSE row \in found : TRUE IN valid(row[2], row[3])

decode_special(w) ==
  CASE w.fn = 1 -> coprocessor_unusable(1)
    [] w.fn = 2 -> IF w.rs = 1 THEN valid("rotr", "RD_RT_SA")
                   ELSE IF w.rs # 0 THEN reserved ELSE valid("srl", "RD_RT_SA")
    [] w.fn = 6 -> IF w.sa = 1 THEN valid("rotrv", "RD_RT_RS")
                   ELSE IF w.sa # 0 THEN reserved ELSE valid("srlv", "RD_RT_RS")
    [] OTHER -> Lookup(SpecialRows, w.fn)

decode_special3(w) ==
  CASE w.fn = 0 -> IF w.sa + (w.rd + 1) <= 32 THEN valid("ext", "RT_RS") ELSE reserved
    [] w.fn = 4 -> IF w.rd >= w.sa THEN valid("ins", "RT_RS") ELSE reserved
    [] w.fn = 32 -> Lookup(BshflRows, w.sa)
    [] w.fn = 59 -> valid("rdhwr", "RT_RD")
    [] OTHER -> reserved

decode_cop0(w) ==
  IF CFLAG(w) = 1
  THEN IF w.fn \in {31, 32} THEN coprocessor_unusable(0) ELSE Lookup(TlbRows, w.fn)
  ELSE CASE w.rs = 0 -> valid("mfc0", "RT_RD")
         [] w.rs = 4 -> valid("mtc0", "RT_RD")
         [] w.rs \in {10, 14} -> coprocessor_unusable(0)
         [] w.rs = 11 /\ w.rd = 12 -> valid(IF (w.fn \div 32) % 2 = 1 THEN "ei" ELSE "di", "RT")
         [] OTHER -> reserved

decode(w) ==
  LET unusable == {row \in CoprocessorRows : row[1] = w.op}
  IN  CASE w.op = 0 -> decode_special(w)
        [] w.op = 1 -> Lookup(RegimmRows, w.rt)
        [] w.op = 16 -> decode_cop0(w)
        [] w.op = 28 -> Lookup(Special2Rows, w.fn)
        [] w.op = 31 -> decode_special3(w)
        [] unusable # {} -> coprocessor_unusable((CHOOSE row \in unusable : TRUE)[2])
        [] OTHER -> Lookup(OpcodeRows, w.op)

\* The register printed first.
PrintsRdFirst == {"RD_RT_SA", "RD_RT_RS", "RD_RS", "RD_RS_RT", "RD_RT", "RD"}
PrintsRtFirst == {"RT_RS", "RT", "MEM", "RT_RD"}

branch_target(pc, w) == (pc + 4 + 4 * w.displacement) % Space

jump_target(pc, w) == (((pc + 4) % Space) \div REGION) * REGION + 4 * w.target

PrintedTarget(format, pc, w) == IF format = "JUMP" THEN jump_target(pc, w) ELSE branch_target(pc, w)

-----------------------------------------------------------------------------
NotYet == [kind |-> "nothing"]

Step ==
  /\ executed = NotYet
  /\ executed' = execute_instr(fetched.word, fetched.mode)
  /\ printed' = decode(fetched.word)
  /\ UNCHANGED fetched

Fetched(words, pcs, modes) == [word : words, pc : pcs, mode : modes]

DecodeInit(fetches) == fetched \in fetches /\ executed = NotYet /\ printed = NotYet

DecodeNext == Step

-----------------------------------------------------------------------------
(* The words on which the two decoders are known to disagree: a WAIT that  *)
(* the processor treats as idle and that is printed as unusable; MOVF/MOVT *)
(* and COP1X, for which the exception and the text name different          *)
(* coprocessors; reserved fields that only the handler looks at.           *)
KnownToDiffer(w) ==
  \/ w.op = 16 /\ CFLAG(w) = 1 /\ w.fn = 32
  \/ w.op = 0 /\ w.fn = 1
  \/ w.op = 0 /\ w.fn = 24 /\ (w.rd # 0 \/ w.sa # 0)
  \/ w.op = 19
  \/ w.op = 28 /\ w.fn \in {32, 33} /\ (w.rt # w.rd \/ w.sa # 0)
  \/ w.op = 31 /\ w.fn = 32 /\ w.sa = 16 /\ w.rs # 0
  \/ w.op = 31 /\ w.fn = 59 /\ (w.rs # 0 \/ w.sa # 0 \/ w.rd > 3)

Branches ==
  {row[2] : row \in {r \in RegimmRows \union OpcodeRows : r[3] = "BRANCH"}}

(* Every route through the tables ends at a handler, and the instruction    *)
(* that is printed is the instruction that executes: the same name, or both *)
(* reserved, or the same coprocessor unusable, on every word but the listed *)
(* ones, and on none of these.  In user mode the processor may also refuse  *)
(* what is printed as valid.  The register printed first is the one that    *)
(* the handler writes, and a taken branch goes where the text says.         *)
SameInstruction ==
  LET w == fetched.word
  IN  IF Forbidden(w, fetched.mode) # {} THEN executed.kind # "valid"
      ELSE (executed = printed.outcome) <=> ~KnownToDiffer(w)

SameOperands ==
  LET w == fetched.word
      name == executed.name
  IN  executed = printed.outcome =>
        /\ name \in WritesRd => printed.format \in PrintsRdFirst
        /\ name \in WritesRt => printed.format \in PrintsRtFirst
        /\ name \in Branches \union Jumps =>
             ExecutedTarget(name, fetched.pc, w) = PrintedTarget(printed.format, fetched.pc, w)

DecodeAgrees == executed # NotYet => SameInstruction /\ SameOperands

(* "Branch and jump operands are rendered as absolute virtual addresses     *)
(* using PC" (disasm.h): the address printed for a JALX is the one it goes  *)
(* to.                                                                      *)
JalxAsPrinted ==
  executed # NotYet /\ executed.name = "jalx" =>
    ExecutedTarget("jalx", fetched.pc, fetched.word)
      = PrintedTarget(printed.format, fetched.pc, fetched.word)
=============================================================================

------------------------------ MODULE LoadStore ------------------------------
(* What loads and stores do to memory (op.c, platform.c): a guest task runs *)
(* one memory access, either one instruction or the pair with which         *)
(* compilers access an unaligned word.  A translation may fault at any of   *)
(* them; the guest kernel then repairs the page and the instruction is      *)
(* tried again.  Between accesses the host fills memory                     *)
(* (platform_memory_fill).  A word is a function from byte number to byte,  *)
(* byte 0 the least significant; translation is the identity when it        *)
(* succeeds (Tlb models it), and device windows are left out (Uart16550,    *)
(* Framebuffer model them).                                                 *)
EXTENDS Integers, Sequences

CONSTANTS
  MEMORY_SIZE,  \* bytes of RAM, at physical address 0
  SPACE,        \* number of addresses; they wrap
  CHUNK,        \* bytes written at a time by a fill without a fill callback
  FillValue,    \* the byte a fill writes
  FirstRam, FirstReg,  \* contents at the start
  MaxRounds     \* bound: accesses and fills before the run ends

ASSUME SizesAssumption ==
  /\ MEMORY_SIZE \in Nat \ {0} /\ MEMORY_SIZE % 4 = 0
  /\ SPACE \in Nat /\ SPACE % 4 = 0 /\ MEMORY_SIZE =< SPACE
  /\ CHUNK \in Nat \ {0} /\ FillValue \in 0 .. 255 /\ MaxRounds \in Nat
  /\ FirstRam \in [0 .. MEMORY_SIZE - 1 -> 0 .. 255] /\ FirstReg \in [0 .. 3 -> 0 .. 255]

VARIABLES
  ram,    \* the bytes behind memory_backend
  reg,    \* gpr[rt]
  task,   \* the access: instructions with displacements, base, how many ran
  exc,    \* the exception the last instruction raised
  was,    \* ram and reg when the access, or the fill, began
  filled, \* the last fill: start, length, whether it reported success
  rounds

lsVars == <<ram, reg, task, exc, was, filled, rounds>>

Byte == 0 .. 255
Register == [0 .. 3 -> Byte]
Address == 0 .. SPACE - 1
Loads == {"lb", "lbu", "lh", "lhu", "lw", "lwl", "lwr"}
Stores == {"sb", "sh", "sw", "swl", "swr"}
width == [i \in Loads \cup Stores |->
            CASE i \in {"lb", "lbu", "sb"} -> 1
              [] i \in {"lh", "lhu", "sh"} -> 2
              [] OTHER -> 4]

(***************************************************************************)
(* The bus.  A read that no memory answers gives zero; a write is lost.    *)
(***************************************************************************)
address_range_valid(a, w) == w =< MEMORY_SIZE /\ a =< MEMORY_SIZE - w

platform_bus_read(a, w) ==
  [i \in 0 .. 3 |->
     IF address_range_valid(a, w) /\ i < w THEN ram[a + i] ELSE 0]

platform_bus_write(a, w, v) ==
  IF address_range_valid(a, w)
  THEN [x \in DOMAIN ram |-> IF x - a \in 0 .. w - 1 THEN v[x - a] ELSE ram[x]]
  ELSE ram

(***************************************************************************)
(* The instructions, at effective address a.                               *)
(***************************************************************************)
Aligned(a) == a - (a % 4)

SignExtended(v, w) ==
  [i \in 0 .. 3 |-> IF i < w THEN v[i] ELSE IF v[w - 1] >= 128 THEN 255 ELSE 0]

op_lwl(a) ==
  LET word == platform_bus_read(Aligned(a), 4)
      gap == 3 - (a % 4)
  IN  [i \in 0 .. 3 |-> IF i >= gap THEN word[i - gap] ELSE reg[i]]

op_lwr(a) ==
  LET word == platform_bus_read(Aligned(a), 4)
      off == a % 4
  IN  [i \in 0 .. 3 |-> IF i + off =< 3 THEN word[i + off] ELSE reg[i]]

\* Mutant: SWL keeps the bytes that it should replace.
swl_wrong_mask(v) ==
  LET word == platform_bus_read(Aligned(v), 4)
      gap == 3 - (v % 4)
  IN  [i \in 0 .. 3 |-> IF i + gap < 3 THEN reg[i + gap] ELSE word[i]]

op_swl(a) ==
  LET word == platform_bus_read(Aligned(a), 4)
      gap == 3 - (a % 4)
  IN  [i \in 0 .. 3 |-> IF i + gap =< 3 THEN reg[i + gap] ELSE word[i]]

op_swr(a) ==
  LET word == platform_bus_read(Aligned(a), 4)
      off == a % 4
  IN  [i \in 0 .. 3 |-> IF i >= off THEN reg[i - off] ELSE word[i]]

Loaded(i, a) ==
  CASE i \in {"lb", "lh"} ->
         SignExtended(platform_bus_read(a, width[i]), width[i])
    [] i \in {"lbu", "lhu", "lw"} -> platform_bus_read(a, width[i])
    [] i = "lwl" -> op_lwl(a)
    [] i = "lwr" -> op_lwr(a)

Stored(i, a) ==
  CASE i \in {"sb", "sh", "sw"} -> platform_bus_write(a, width[i], reg)
    [] i = "swl" -> platform_bus_write(Aligned(a), 4, op_swl(a))
    [] i = "swr" -> platform_bus_write(Aligned(a), 4, op_swr(a))

Misaligned(i, a) ==
  \/ i \in {"lh", "lhu", "sh"} /\ a % 2 # 0
  \/ i \in {"lw", "sw"} /\ a % 4 # 0

\* The reasons pfn_translate() gives a load (write = 0) and a store.
TlbFaults(i) == IF i \in Loads THEN {"TLBL"} ELSE {"TLBS", "Mod"}

(***************************************************************************)
(* The guest.                                                              *)
(***************************************************************************)
Whole == (Loads \cup Stores) \ {"lwl", "lwr", "swl", "swr"}
Single == {<<[instr |-> i, disp |-> 0]>> : i \in Whole}
LeftOf(i) == [instr |-> i, disp |-> 3]
RightOf(i) == [instr |-> i, disp |-> 0]
Unaligned == {<<LeftOf("lwl"), RightOf("lwr")>>, <<RightOf("lwr"), LeftOf("lwl")>>,
              <<LeftOf("swl"), RightOf("swr")>>, <<RightOf("swr"), LeftOf("swl")>>}
Accesses == Single \cup Unaligned

NoFill == [pa |-> 0, len |-> 0, ok |-> TRUE]
NoTask == [code |-> <<>>, base |-> 0, ran |-> 0]

Unfinished == task.ran < Len(task.code) /\ exc \notin {"AdEL", "AdES"}

LsInit ==
  /\ ram = FirstRam /\ reg = FirstReg
  /\ task = NoTask /\ exc = "none" /\ filled = NoFill /\ rounds = 0
  /\ was = [ram |-> FirstRam, reg |-> FirstReg]

Begin(code, base) ==
  /\ ~Unfinished /\ rounds < MaxRounds
  /\ task' = [code |-> code, base |-> base, ran |-> 0]
  /\ was' = [ram |-> ram, reg |-> reg]
  /\ exc' = "none" /\ filled' = NoFill /\ rounds' = rounds + 1
  /\ UNCHANGED <<ram, reg>>

instr == task.code[task.ran + 1].instr
va == (task.base + task.code[task.ran + 1].disp) % SPACE

\* An access that raises no exception.
Access ==
  /\ Unfinished /\ ~Misaligned(instr, va)
  /\ exc' = "none"
  /\ task' = [task EXCEPT !.ran = @ + 1]
  /\ IF instr \in Loads
     THEN reg' = Loaded(instr, va) /\ UNCHANGED ram
     ELSE ram' = Stored(instr, va) /\ UNCHANGED reg
  /\ UNCHANGED <<was, filled, rounds>>

\* pfn_translate() fails; the handler will return to the same instruction.
Fault ==
  /\ Unfinished /\ ~Misaligned(instr, va)
  /\ exc' \in TlbFaults(instr)
  /\ UNCHANGED <<ram, reg, task, was, filled, rounds>>

\* The alignment is checked first.  The guest kernel ends the task.
AddressError ==
  /\ Unfinished /\ Misaligned(instr, va)
  /\ exc' = IF instr \in Loads THEN "AdEL" ELSE "AdES"
  /\ UNCHANGED <<ram, reg, task, was, filled, rounds>>

(***************************************************************************)
(* platform_memory_fill().  With a fill callback it is one call; without,  *)
(* chunks are written one by one and the write callback may fail at the    *)
(* chunk after "good" ones.                                                *)
(***************************************************************************)
ChunkCount(len) == (len + CHUNK - 1) \div CHUNK

Amount(len, k) == IF len - k * CHUNK < CHUNK THEN len - k * CHUNK ELSE CHUNK
InChunk(x, pa, len, k) == x - (pa + k * CHUNK) \in 0 .. Amount(len, k) - 1

FillTo(pa, len, good) ==
  [x \in DOMAIN ram |->
     IF \E k \in 0 .. good - 1 : InChunk(x, pa, len, k) THEN FillValue ELSE ram[x]]

platform_memory_fill(pa, len) ==
  /\ ~Unfinished /\ rounds < MaxRounds
  /\ IF ~address_range_valid(pa, len)
     THEN /\ filled' = [pa |-> pa, len |-> len, ok |-> FALSE]
          /\ UNCHANGED ram
     ELSE \E good \in 0 .. ChunkCount(len) :
            /\ ram' = FillTo(pa, len, good)
            /\ filled' = [pa |-> pa, len |-> len, ok |-> good = ChunkCount(len)]
  /\ was' = [ram |-> ram, reg |-> reg]
  /\ task' = NoTask /\ exc' = "none" /\ rounds' = rounds + 1
  /\ UNCHANGED reg

LsNext ==
  \/ \E code \in Accesses, base \in Address : Begin(code, base)
  \/ Access
  \/ Fault
  \/ AddressError
  \/ \E pa \in Address, len \in 0 .. MEMORY_SIZE : platform_memory_fill(pa, len)

LsSpec == LsInit /\ [][LsNext]_lsVars

(***************************************************************************)
(* Properties                                                              *)
(***************************************************************************)
LsTypeOK ==
  /\ ram \in [0 .. MEMORY_SIZE - 1 -> Byte] /\ reg \in Register
  /\ task.code \in Accesses \cup {<<>>}
  /\ task.base \in Address /\ task.ran \in 0 .. Len(task.code)
  /\ exc \in {"none", "TLBL", "TLBS", "Mod", "AdEL", "AdES"}
  /\ filled.ok \in BOOLEAN /\ rounds \in 0 .. MaxRounds

\* Memory as the program sees it: one byte per address, zero where none is.
ByteAt(m, x) == IF x % SPACE < MEMORY_SIZE THEN m[x % SPACE] ELSE 0
First == task.code[1].instr
Finished == task.code # <<>> /\ task.ran = Len(task.code)
\* Which byte of the operand lies at x, for a store of w bytes.
Operand(x, w) == {i \in 0 .. w - 1 : (task.base + i) % SPACE = x}

(* However often a fault struck before or between the instructions, a      *)
(* completed load leaves in the register the bytes that lay at its address *)
(* and behind, aligned or not, sign- or zero-extended; LWL and LWR may     *)
(* come in either order.                                                   *)
LoadsTheBytes ==
  Finished /\ First \in Loads =>
    \A i \in 0 .. 3 :
      reg[i] = IF i < width[First] THEN ByteAt(was.ram, task.base + i)
               ELSE IF First \in {"lb", "lh"}
                       /\ ByteAt(was.ram, task.base + width[First] - 1) > 127
                    THEN 255 ELSE 0

(* A completed store has put the register's low bytes at its address and   *)
(* behind.                                                                 *)
StoresTheBytes ==
  Finished /\ First \in Stores =>
    \A x \in DOMAIN ram : \A i \in Operand(x, width[First]) :
      ram[x] = was.reg[i]

(* At no moment, not between the halves of an unaligned store, after a     *)
(* fault or after an address error, is a byte outside the operand          *)
(* disturbed or torn: each byte is the old one or the new one.  Loads      *)
(* leave memory alone, stores the register, and an address error both.     *)
NothingElse ==
  task.code # <<>> =>
    /\ \A x \in DOMAIN ram :
         \/ ram[x] = was.ram[x]
         \/ /\ First \in Stores /\ exc # "AdES"
            /\ \E i \in Operand(x, width[First]) : ram[x] = was.reg[i]
    /\ First \in Stores \/ exc = "AdEL" => reg = was.reg

(* A fill that reports success has set exactly the requested bytes; one    *)
(* that fails has set a prefix of them and nothing else.                   *)
FillsTheRange ==
  task.code = <<>> =>
    \E n \in IF filled.ok THEN {filled.len} ELSE 0 .. filled.len :
      \A x \in DOMAIN ram :
        ram[x] = IF x - filled.pa \in 0 .. n - 1 THEN FillValue ELSE was.ram[x]

(* In every state: finished accesses and fills have moved exactly their     *)
(* bytes, and unfinished ones have disturbed nothing else.                  *)
AccessesExact ==
  /\ LsTypeOK /\ LoadsTheBytes /\ StoresTheBytes
  /\ NothingElse /\ FillsTheRange
=============================================================================

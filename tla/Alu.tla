--------------------------------- MODULE Alu ---------------------------------
(* The arithmetic of op.c on words of WIDTH bits (32 in the code): additions *)
(* and the overflow trap, comparisons and conditional traps, products,       *)
(* accumulation in HI:LO, divisions, shifts, counts, bit fields and          *)
(* extensions.  A run executes one instruction on every pair of operands.    *)
(* Source registers are named rs and rt, the destination rd; handlers read   *)
(* their operands before they write, so aliases make no difference.          *)
EXTENDS Integers, FiniteSets, Bitwise

CONSTANTS
  WIDTH,   \* bits of a word; a half has half of them, a byte a quarter
  Seeds    \* what HI and LO may hold before

ASSUME WidthAssumption == WIDTH \in Nat \ {0} /\ WIDTH % 4 = 0

VARIABLES
  regs,    \* the registers an instruction can change, and its exception
  done     \* what was executed: operation, fields and the registers before

aluVars == <<regs, done>>

Modulus == 2 ^ WIDTH
Half == WIDTH \div 2
Quarter == WIDTH \div 4
Word == 0 .. Modulus - 1
Immediate == 0 .. 2 ^ Half - 1
INT_MAX == Modulus \div 2 - 1
INT_MIN == -(Modulus \div 2)
Signed(x) == IF x > INT_MAX THEN x - Modulus ELSE x
sign_extend(i) == IF i >= 2 ^ (Half - 1) THEN (i - 2 ^ Half) % Modulus ELSE i
Complement(x) == Modulus - 1 - x
ShiftLeft(x, n) == (x * 2 ^ n) % Modulus
ShiftRight(x, n) == x \div 2 ^ n

Raised(r, e) == [r EXCEPT !.exc = e]
Set(r, value) == [r EXCEPT !.rd = value]
\* HI:LO as a 64-bit quantity, and back.
Acc(r) == r.hi * Modulus + r.lo

SetAcc(r, value) ==
  [r EXCEPT !.hi = (value \div Modulus) % Modulus, !.lo = value % Modulus]

(***************************************************************************)
(* Additions.  op_add and op_addi test before they add, op_sub after.      *)
(***************************************************************************)

Overflows(a, b) ==
  \/ a > 0 /\ b > INT_MAX - a
  \/ a < 0 /\ b < INT_MIN - a

op_add(r) ==
  IF Overflows(Signed(r.rs), Signed(r.rt)) THEN Raised(r, "Ov")
  ELSE Set(r, (Signed(r.rs) + Signed(r.rt)) % Modulus)

op_addi(r, imm) ==
  IF Overflows(Signed(sign_extend(imm)), Signed(r.rs)) THEN Raised(r, "Ov")
  ELSE Set(r, (Signed(r.rs) + Signed(sign_extend(imm))) % Modulus)

op_sub(r) ==
  LET res == (r.rs - r.rt) % Modulus
  IN  IF ((r.rs ^^ r.rt) & (r.rs ^^ res)) >= Modulus \div 2
      THEN Raised(r, "Ov") ELSE Set(r, res)

\* ADDU, ADDIU and SUBU wrap.  The second operand may be an immediate.
op_addu(r, b) == Set(r, (r.rs + b) % Modulus)
op_subu(r, b) == Set(r, (r.rs - b) % Modulus)

(***************************************************************************)
(* Logic, on a register or a zero-extended immediate, and LUI.             *)
(***************************************************************************)
op_and(r, b) == Set(r, r.rs & b)
op_or(r, b) == Set(r, r.rs | b)
op_xor(r, b) == Set(r, r.rs ^^ b)
op_nor(r) == Set(r, Complement(r.rs | r.rt))
op_lui(r, imm) == Set(r, ShiftLeft(imm, Half))

(***************************************************************************)
(* Comparisons: SLT and SLTU, and the trap instructions, on a register or  *)
(* an immediate, which is sign-extended for the unsigned comparison too.   *)
(***************************************************************************)

Comparison(a, b) ==
  [slt |-> Signed(a) < Signed(b), sltu |-> a < b,
   tge |-> Signed(a) >= Signed(b), tgeu |-> a >= b,
   tlt |-> Signed(a) < Signed(b), tltu |-> a < b, teq |-> a = b, tne |-> a # b]

op_set_less(op, r, b) == Set(r, IF Comparison(r.rs, b)[op] THEN 1 ELSE 0)

op_trap(op, r, b) == IF Comparison(r.rs, b)[op] THEN Raised(r, "Tr") ELSE r

(***************************************************************************)
(* Products.  op_mul multiplies the words as unsigned 64-bit numbers.      *)
(***************************************************************************)
SignedProduct(r) == Signed(r.rs) * Signed(r.rt)
UnsignedProduct(r) == r.rs * r.rt

op_mult(r, rd, sa) ==
  IF rd # 0 \/ sa # 0 THEN Raised(r, "RI") ELSE SetAcc(r, SignedProduct(r))
op_mul(r) == Set(r, UnsignedProduct(r) % Modulus)
op_multu(r) == SetAcc(r, UnsignedProduct(r))
op_madd(r) == SetAcc(r, Acc(r) + SignedProduct(r))
op_maddu(r) == SetAcc(r, Acc(r) + UnsignedProduct(r))
op_msub(r) == SetAcc(r, Acc(r) - SignedProduct(r))

op_msubu(r) == SetAcc(r, Acc(r) - UnsignedProduct(r))

op_move_from_hi(r) == Set(r, r.hi)
op_move_from_lo(r) == Set(r, r.lo)
op_move_to_hi(r) == [r EXCEPT !.hi = r.rs]
op_move_to_lo(r) == [r EXCEPT !.lo = r.rs]

(***************************************************************************)
(* Divisions.  C rounds the quotient towards zero; TLA+ rounds down.       *)
(***************************************************************************)
Quotient(n, d) ==
  LET m == IF d > 0 THEN n ELSE -n
      e == IF d > 0 THEN d ELSE -d
  IN  IF m >= 0 THEN m \div e ELSE -((-m) \div e)

\* Mutant: rounds down.
floor_div(r) ==
  LET n == Signed(r.rs)
      d == Signed(r.rt)
      q == IF d > 0 THEN n \div d ELSE (-n) \div (-d)
  IN  IF d = 0 THEN r
      ELSE [r EXCEPT !.lo = q % Modulus, !.hi = (n - d * q) % Modulus]

op_div(r) ==
  LET n == Signed(r.rs)
      d == Signed(r.rt)
      q == Quotient(n, d)
  IN  IF d = 0 THEN r
      ELSE IF n = INT_MIN /\ d = -1
      THEN [r EXCEPT !.lo = INT_MIN % Modulus, !.hi = 0]
      ELSE [r EXCEPT !.lo = q % Modulus, !.hi = (n - d * q) % Modulus]

op_divu(r) ==
  IF r.rt = 0 THEN r
  ELSE [r EXCEPT !.lo = r.rs \div r.rt, !.hi = r.rs % r.rt]

(***************************************************************************)
(* Shifts.  SRL with rs = 1, and SRLV with sa = 1, rotate.                 *)
(***************************************************************************)

ArithmeticRight(x, n) == (Signed(x) \div 2 ^ n) % Modulus

\* A shift by all the bits would be undefined in C; the code avoids it.
Rotated(x, n) ==
  IF n = 0 THEN x ELSE ShiftRight(x, n) | ShiftLeft(x, WIDTH - n)

op_sll(r, n) == Set(r, ShiftLeft(r.rt, n))
op_sra(r, n) == Set(r, ArithmeticRight(r.rt, n))
op_srl(r, n, kind) ==
  IF kind > 1 THEN Raised(r, "RI")
  ELSE Set(r, IF kind = 1 THEN Rotated(r.rt, n) ELSE ShiftRight(r.rt, n))
\* The variable forms take the amount from the low bits of rs.
op_sllv(r) == op_sll(r, r.rs % WIDTH)
op_srlv(r, kind) == op_srl(r, r.rs % WIDTH, kind)
op_srav(r) == op_sra(r, r.rs % WIDTH)

(***************************************************************************)
(* Conditional moves; leading ones and zeros.                              *)
(***************************************************************************)
op_movz(r) == IF r.rt = 0 THEN Set(r, r.rs) ELSE r
op_movn(r) == IF r.rt # 0 THEN Set(r, r.rs) ELSE r

\* The loops of op_clo and op_clz: bits equal to b, from the top.
leading[b \in {0, 1}, x \in Word, n \in 0 .. WIDTH] ==
  IF n = 0 \/ ShiftRight(x, n - 1) % 2 # b THEN 0 ELSE 1 + leading[b, x, n - 1]

\* "twin": the second destination field repeats the first.
op_clo(r, twin, sa) ==
  IF ~twin \/ sa # 0 THEN Raised(r, "RI") ELSE Set(r, leading[1, r.rs, WIDTH])

op_clz(r, twin, sa) ==
  IF ~twin \/ sa # 0 THEN Raised(r, "RI") ELSE Set(r, leading[0, r.rs, WIDTH])

(***************************************************************************)
(* Bit fields.  The destination of both is the rt field; for INS it keeps  *)
(* the bits outside the field.                                             *)
(***************************************************************************)
op_ext(r, msbd, lsb) ==
  LET size == msbd + 1
  IN  IF lsb + size > WIDTH THEN Raised(r, "RI")
      ELSE Set(r, ShiftRight(r.rs, lsb) & (2 ^ size - 1))

FieldMask(msb, lsb) ==
  LET size == msb - lsb + 1
  IN  IF size = WIDTH THEN Modulus - 1 ELSE ShiftLeft(2 ^ size - 1, lsb)

op_ins(r, msb, lsb) ==
  IF msb < lsb THEN Raised(r, "RI")
  ELSE Set(r, (r.rd & Complement(FieldMask(msb, lsb)))
              | (ShiftLeft(r.rs, lsb) & FieldMask(msb, lsb)))

(***************************************************************************)
(* Bytes and halves.                                                       *)
(***************************************************************************)
\* The bits of every low byte of a half.
LowBytes == (2 ^ Quarter - 1) * (1 + 2 ^ Half)

op_wsbh(r) ==
  Set(r, ShiftLeft(r.rt & LowBytes, Quarter)
         | ShiftRight(r.rt & Complement(LowBytes), Quarter))

\* A conversion to a signed type of n bits and back to a word.
Narrowed(x, n) ==
  LET low == x % 2 ^ n
  IN  IF low >= 2 ^ (n - 1) THEN (low - 2 ^ n) % Modulus ELSE low

op_seb(r, rs) == IF rs # 0 THEN Raised(r, "RI") ELSE Set(r, Narrowed(r.rt, Quarter))
op_seh(r) == Set(r, Narrowed(r.rt, Half))

(***************************************************************************)
(* One instruction.  a and b are the encoded fields the operation reads.   *)
(***************************************************************************)
Traps == {"tge", "tgeu", "tlt", "tltu", "teq", "tne"}
BitIndex == 0 .. WIDTH - 1
Extended == {sign_extend(i) : i \in Immediate}
Reserved == 0 .. 2    \* a field that selects a variant or must be zero

\* No move from HI finds its result in the destination already.
AluInit ==
  /\ \E a \in Word, b \in Word, hi \in Seeds, lo \in Seeds :
       regs = [rs |-> a, rt |-> b, rd |-> Complement(hi), hi |-> hi, lo |-> lo,
               exc |-> "none"]
  /\ done = [op |-> "none", a |-> 0, b |-> 0, before |-> regs]

Execute(op, a, b, result) ==
  /\ done.op = "none"
  /\ regs' = result
  /\ done' = [op |-> op, a |-> a, b |-> b, before |-> regs]

AddOrSubtract ==
  \/ Execute("add", 0, 0, op_add(regs))
  \/ \E imm \in Immediate : Execute("addi", imm, 0, op_addi(regs, imm))
  \/ Execute("sub", 0, 0, op_sub(regs))
  \/ \E b \in {regs.rt} \cup Extended : Execute("addu", 0, b, op_addu(regs, b))
  \/ Execute("subu", 0, regs.rt, op_subu(regs, regs.rt))

Logic ==
  \/ \E b \in {regs.rt} \cup Immediate :
       \/ Execute("and", 0, b, op_and(regs, b))
       \/ Execute("or", 0, b, op_or(regs, b))
       \/ Execute("xor", 0, b, op_xor(regs, b))
  \/ Execute("nor", 0, 0, op_nor(regs))
  \/ \E imm \in Immediate : Execute("lui", imm, 0, op_lui(regs, imm))

Move ==
  \/ Execute("mfhi", 0, 0, op_move_from_hi(regs))
  \/ Execute("mflo", 0, 0, op_move_from_lo(regs))
  \/ Execute("mthi", 0, 0, op_move_to_hi(regs))
  \/ Execute("mtlo", 0, 0, op_move_to_lo(regs))

Compare ==
  \E b \in {regs.rt} \cup Extended :
    \/ \E op \in {"slt", "sltu"} : Execute(op, 0, b, op_set_less(op, regs, b))
    \/ \E op \in Traps : Execute(op, 0, b, op_trap(op, regs, b))

Multiply ==
  \/ \E rd \in Reserved, sa \in Reserved :
       Execute("mult", rd, sa, op_mult(regs, rd, sa))
  \/ Execute("mul", 0, 0, op_mul(regs)) \/ Execute("multu", 0, 0, op_multu(regs))
  \/ Execute("madd", 0, 0, op_madd(regs)) \/ Execute("maddu", 0, 0, op_maddu(regs))
  \/ Execute("msub", 0, 0, op_msub(regs)) \/ Execute("msubu", 0, 0, op_msubu(regs))

Divide == Execute("div", 0, 0, op_div(regs)) \/ Execute("divu", 0, 0, op_divu(regs))

Shift ==
  \/ \E n \in BitIndex :
       \/ Execute("sll", n, 0, op_sll(regs, n)) \/ Execute("sra", n, 0, op_sra(regs, n))
       \/ \E kind \in Reserved : Execute("srl", n, kind, op_srl(regs, n, kind))
  \/ Execute("sllv", 0, 0, op_sllv(regs)) \/ Execute("srav", 0, 0, op_srav(regs))
  \/ \E kind \in Reserved : Execute("srlv", 0, kind, op_srlv(regs, kind))

MoveOrCount ==
  \/ Execute("movz", 0, 0, op_movz(regs)) \/ Execute("movn", 0, 0, op_movn(regs))
  \/ \E twin \in BOOLEAN, sa \in Reserved :
       \/ Execute("clo", 0, sa, op_clo(regs, twin, sa))
       \/ Execute("clz", 0, sa, op_clz(regs, twin, sa))

Field ==
  \E hi \in BitIndex, lo \in BitIndex :
    \/ Execute("ext", hi, lo, op_ext(regs, hi, lo))
    \/ Execute("ins", hi, lo, op_ins(regs, hi, lo))

Rearrange ==
  \/ Execute("wsbh", 0, 0, op_wsbh(regs)) \/ Execute("seh", 0, 0, op_seh(regs))
  \/ \E rs \in Reserved : Execute("seb", 0, rs, op_seb(regs, rs))

AluNext ==
  \/ AddOrSubtract \/ Logic \/ Move \/ Compare \/ Multiply \/ Divide
  \/ Shift \/ MoveOrCount \/ Field \/ Rearrange

AluSpec == AluInit /\ [][AluNext]_aluVars

(***************************************************************************)
(* Properties.  Words are read as sets of bits, or as the integers they    *)
(* stand for; the handlers compute with masks and wrapped words.           *)
(***************************************************************************)
AluTypeOK ==
  /\ \A f \in {"rs", "rt", "rd", "hi", "lo"} : regs[f] \in Word
  /\ regs.exc \in {"none", "Ov", "Tr", "RI"}

old == done.before
Ran(ops) == done.op \in ops /\ regs.exc = "none"

\* The set of positions at which x has a one.
Bits(x) == {i \in BitIndex : (x \div 2 ^ i) % 2 = 1}
Moved(S, n) == {i + n : i \in S} \cap BitIndex

\* The exact result of an addition or subtraction.
Exact ==
  CASE done.op = "add" -> Signed(old.rs) + Signed(old.rt)
    [] done.op = "addi" -> Signed(old.rs) + Signed(sign_extend(done.a))
    [] done.op = "sub" -> Signed(old.rs) - Signed(old.rt)

(* ADD, ADDI and SUB deliver the exact sum or difference, or trap if and   *)
(* only if a word cannot hold it.                                          *)
OverflowIsExact ==
  done.op \in {"add", "addi", "sub"} =>
    IF Exact \in INT_MIN .. INT_MAX
    THEN regs.exc = "none" /\ Signed(regs.rd) = Exact
    ELSE regs.exc = "Ov"

(* ADDU and SUBU undo each other, and give what ADD and SUB give whenever  *)
(* those do not trap, so that a compiler may use either for an address.    *)
WrappedSumsAgree ==
  LET o == [old EXCEPT !.rt = done.b]
      back == [regs EXCEPT !.rs = regs.rd]
  IN  /\ Ran({"addu"}) => /\ op_subu(back, done.b).rd = old.rs
                          /\ op_add(o).exc = "none" => op_add(o).rd = regs.rd
      /\ Ran({"subu"}) => /\ op_addu(back, done.b).rd = old.rs
                          /\ op_sub(o).exc = "none" => op_sub(o).rd = regs.rd

(* AND, OR, XOR and NOR are the operations on sets of ones; LUI and ORI    *)
(* together build every word from its two halves; what is moved to HI or   *)
(* LO comes back, and the other one keeps its value.                       *)
LogicExact ==
  LET ones == Bits(regs.rd)
      A == Bits(old.rs)
      B == Bits(IF done.op = "nor" THEN old.rt ELSE done.b)
  IN  /\ Ran({"and"}) => ones = A \cap B
      /\ Ran({"or"}) => ones = A \cup B
      /\ Ran({"xor"}) => ones = (A \ B) \cup (B \ A)
      /\ Ran({"nor"}) => ones = BitIndex \ (A \cup B)
      /\ Ran({"lui"}) => \A low \in Immediate :
           op_or([regs EXCEPT !.rs = regs.rd], low).rd = done.a * 2 ^ Half + low
      /\ Ran({"mthi"}) => op_move_from_hi(regs).rd = old.rs /\ regs.lo = old.lo
      /\ Ran({"mtlo"}) => op_move_from_lo(regs).rd = old.rs /\ regs.hi = old.hi
      /\ Ran({"mfhi"}) => op_move_to_hi([regs EXCEPT !.rs = regs.rd]).hi = old.hi
      /\ Ran({"mflo"}) => op_move_to_lo([regs EXCEPT !.rs = regs.rd]).lo = old.lo

(* An instruction that raises an exception has changed no register.        *)
ExceptionsAreClean ==
  regs.exc # "none" => regs = [old EXCEPT !.exc = regs.exc]

(* SLT is the sign of the difference, corrected by SUB's overflow, and     *)
(* SLTU is the borrow; a trap instruction agrees with them, and with both  *)
(* directions for equality.                                                *)
ComparisonsAgree ==
  LET o == [old EXCEPT !.rt = done.b]
      turned == [o EXCEPT !.rs = o.rt, !.rt = o.rs]
      Negative(x) == x > INT_MAX
      Less(r) == (op_sub(r).exc = "Ov") # Negative((r.rs - r.rt) % Modulus)
      borrow == o.rs - o.rt < 0
      holds == IF done.op \in Traps THEN regs.exc = "Tr" ELSE regs.rd = 1
  IN  /\ done.op \in {"slt", "tlt"} => holds = Less(o)
      /\ done.op \in {"sltu", "tltu"} => holds = borrow
      /\ done.op = "tge" => holds # Less(o)
      /\ done.op = "tgeu" => holds # borrow
      /\ done.op = "teq" => holds = ~(Less(o) \/ Less(turned))
      /\ done.op = "tne" => holds = (Less(o) \/ Less(turned))

\* HI:LO as the signed number that it stands for.
SignedAcc(r) ==
  IF r.hi > INT_MAX THEN Acc(r) - Modulus * Modulus ELSE Acc(r)
SignedRange == Modulus * INT_MIN .. (-Modulus) * INT_MIN - 1

(* HI:LO is an accumulator: MULT leaves the exact product; the MADD and    *)
(* MSUB families move it by the exact product as long as the result fits,  *)
(* and undo each other even when it does not; MUL agrees with MULT's LO.   *)
AccumulatorExact ==
  LET sp == Signed(old.rs) * Signed(old.rt)
      up == old.rs * old.rt
      Undone(r) == [r EXCEPT !.exc = old.exc] = old
      SignedSum(x) == x \in SignedRange => SignedAcc(regs) = x
      UnsignedSum(x) == x \in 0 .. Modulus * Modulus - 1 => Acc(regs) = x
  IN  /\ Ran({"mult"}) => SignedAcc(regs) = sp
      /\ Ran({"multu"}) => Acc(regs) = up
      /\ Ran({"mul"}) => regs.rd = op_mult(old, 0, 0).lo
      /\ Ran({"madd"}) => SignedSum(SignedAcc(old) + sp) /\ Undone(op_msub(regs))
      /\ Ran({"msub"}) => SignedSum(SignedAcc(old) - sp) /\ Undone(op_madd(regs))
      /\ Ran({"maddu"}) => UnsignedSum(Acc(old) + up) /\ Undone(op_msubu(regs))
      /\ Ran({"msubu"}) => UnsignedSum(Acc(old) - up) /\ Undone(op_maddu(regs))

(* A division leaves quotient and remainder that give the dividend back,   *)
(* the remainder smaller than the divisor and with the dividend's sign.    *)
(* The one quotient that does not fit wraps; by zero nothing changes.      *)
DivisionExact ==
  LET Magnitude(x) == IF x < 0 THEN -x ELSE x
      n == Signed(old.rs)
      d == Signed(old.rt)
      q == Signed(regs.lo)
      m == Signed(regs.hi)
  IN  /\ Ran({"div", "divu"}) /\ d = 0 => regs = old
      /\ Ran({"div"}) /\ d # 0 =>
           IF n = INT_MIN /\ d = -1 THEN q = INT_MIN /\ m = 0
           ELSE /\ n = d * q + m /\ Magnitude(m) < Magnitude(d)
                /\ m = 0 \/ (m < 0) = (n < 0)
      /\ Ran({"divu"}) /\ d # 0 =>
           old.rs = old.rt * regs.lo + regs.hi /\ regs.hi < old.rt

(* Shifts move the set of ones, rotations around the word; SRA fills with  *)
(* the sign.                                                               *)
ShiftsMoveBits ==
  LET n == IF done.op \in {"sllv", "srlv", "srav"} THEN old.rs % WIDTH ELSE done.a
      ones == Bits(old.rt)
      fill == IF WIDTH - 1 \in ones THEN WIDTH - n .. WIDTH - 1 ELSE {}
  IN  /\ Ran({"sll", "sllv"}) => Bits(regs.rd) = Moved(ones, n)
      /\ Ran({"sra", "srav"}) => Bits(regs.rd) = Moved(ones, -n) \cup fill
      /\ Ran({"srl", "srlv"}) =>
           Bits(regs.rd) = IF done.b = 1 THEN {(i - n) % WIDTH : i \in ones}
                           ELSE Moved(ones, -n)

(* CLZ and CLO count the ones above which the other bit does not occur:    *)
(* all positions from there up are equal, and the next below differs.      *)
CountsAreExact ==
  LET ones == IF done.op = "clz" THEN Bits(old.rs) ELSE BitIndex \ Bits(old.rs)
      edge == WIDTH - regs.rd
  IN  Ran({"clz", "clo"}) =>
        /\ \A i \in ones : i < edge
        /\ edge > 0 => edge - 1 \in ones

(* EXT reads exactly the bits of the field.  INS replaces exactly them, so *)
(* that reading the field again gives what was inserted.                   *)
FieldsExact ==
  /\ Ran({"ext"}) =>
       Bits(regs.rd) = {i \in 0 .. done.a : i + done.b \in Bits(old.rs)}
  /\ Ran({"ins"}) =>
       LET field == done.b .. done.a
           size == done.a - done.b
       IN  /\ Bits(regs.rd) \ field = Bits(old.rd) \ field
           /\ op_ext([regs EXCEPT !.rs = regs.rd], size, done.b).rd
                = old.rs % 2 ^ (size + 1)

(* WSBH undoes itself and keeps each half's value modulo the bytes' order; *)
(* SEB and SEH leave the number that the low byte or half stands for.      *)
RearrangedExactly ==
  LET Byte(x, k) == (x \div 2 ^ (k * Quarter)) % 2 ^ Quarter
      Low(n) == LET x == old.rt % 2 ^ n IN IF x >= 2 ^ (n - 1) THEN x - 2 ^ n ELSE x
  IN  /\ Ran({"wsbh"}) => \A k \in 0 .. 3 :
           Byte(regs.rd, k) = Byte(old.rt, IF k % 2 = 0 THEN k + 1 ELSE k - 1)
      /\ Ran({"seb"}) => Signed(regs.rd) = Low(Quarter)
      /\ Ran({"seh"}) => Signed(regs.rd) = Low(Half)

(* Every instruction delivers what its definition in numbers or in bits     *)
(* says, or raises its exception and leaves the registers alone.            *)
ArithmeticExact ==
  /\ AluTypeOK /\ OverflowIsExact /\ WrappedSumsAgree /\ LogicExact
  /\ ExceptionsAreClean /\ ComparisonsAgree
  /\ AccumulatorExact /\ DivisionExact /\ ShiftsMoveBits /\ CountsAreExact
  /\ FieldsExact /\ RearrangedExactly
=============================================================================

-------------------------------- MODULE Cpu --------------------------------
(***************************************************************************)
(* The processor core: cpu_step() and update_cycle() (emu.c),              *)
(* raise_exception() and the resets (exception.c), the CP0 write rules     *)
(* (registers.c) and the control-transfer instructions (op.c).  One action *)
(* is one mipsel_emu_step(): deliver or execute, then advance the clock.   *)
(*                                                                         *)
(* An instruction is represented by what it does to the flow of control    *)
(* and to the exception state; which instruction is at pc, whether it      *)
(* faults and whether a branch is taken are arbitrary.  General registers, *)
(* memory, the TLB, the LL/SC link and what the exception registers report *)
(* about the cause (ExcCode, BadVAddr, CE) are left out.                   *)
(***************************************************************************)
EXTENDS Integers

CONSTANTS
  ADDR_SPACE,     \* number of addresses: 2^32 in the code
  COUNT_SPACE,    \* number of Count values: 2^32 in the code
  COUNT_DIVIDER,  \* MIPSEL_EMU_CP0_COUNT_DIVIDER
  IRQ_LINE,       \* MIPSEL_EMU_UART_IRQ_LINE
  Vector,         \* exception vectors by [BEV, kind]
  RESET_VECTOR, LINUX_ENTRY,
  Targets,        \* where the guest jumps and what it writes to EPC
  StatusWrites, CauseWrites  \* what the guest writes to Status and Cause

Addr == 0 .. ADDR_SPACE - 1
Word == 0 .. COUNT_SPACE - 1
Lines == 0 .. 7
TIMER_LINE == 7

VectorKinds == {"general", "refill", "interrupt"}

Status == [IE : BOOLEAN, EXL : BOOLEAN, ERL : BOOLEAN, BEV : BOOLEAN,
           User : BOOLEAN, CU0 : BOOLEAN, IM : SUBSET Lines]

\* The bits of Cause that a guest may write (registers.c).
WritableCause == [IV : BOOLEAN, IP : SUBSET {0, 1}]

ASSUME AddrAssumption == ADDR_SPACE \in Nat /\ ADDR_SPACE >= 4
ASSUME CountAssumption == COUNT_SPACE \in Nat \ {0} /\ COUNT_DIVIDER \in Nat \ {0}
ASSUME LineAssumption == IRQ_LINE \in Lines
ASSUME VectorAssumption ==
  /\ Vector \in [BOOLEAN \X VectorKinds -> Addr]
  /\ RESET_VECTOR \in Addr /\ LINUX_ENTRY \in Addr
ASSUME WritesAssumption ==
  /\ Targets \subseteq Addr
  /\ StatusWrites \subseteq Status
  /\ CauseWrites \subseteq WritableCause

Plus(a, n) == (a + n) % ADDR_SPACE
Minus(a, n) == (a - n) % ADDR_SPACE
Aligned(a) == a % 4 = 0

Registers ==
  [pc : Addr, next_pc : Addr,
   bds : BOOLEAN,                \* pc is in a branch delay slot
   exception_pending : BOOLEAN,
   Status : Status,
   BD : BOOLEAN, TI : BOOLEAN, IV : BOOLEAN,
   IP : SUBSET Lines,            \* the fields of Cause
   EPC : Addr, ErrorEPC : Addr,
   Count : Word, Compare : Word,
   divider : 0 .. COUNT_DIVIDER - 1]

VARIABLES
  cpu,       \* Registers
  uart_irq   \* the UART requests an interrupt (platform.c)

cpu_vars == <<cpu, uart_irq>>

-----------------------------------------------------------------------------
(* Resets.                                                                 *)

ResetStatus ==
  [IE |-> FALSE, EXL |-> FALSE, ERL |-> TRUE, BEV |-> TRUE,
   User |-> FALSE, CU0 |-> FALSE, IM |-> {}]

reset_cpu ==
  [pc |-> RESET_VECTOR, next_pc |-> Plus(RESET_VECTOR, 4),
   bds |-> FALSE, exception_pending |-> FALSE,
   Status |-> ResetStatus,
   BD |-> FALSE, TI |-> FALSE, IV |-> FALSE, IP |-> {},
   EPC |-> 0, ErrorEPC |-> 0, Count |-> 0, Compare |-> 0, divider |-> 0]

\* The bootloader hand-off: no reset mode, the kernel's entry point.
linux_load_reset ==
  [reset_cpu EXCEPT
     !.Status = [ResetStatus EXCEPT !.ERL = FALSE, !.BEV = FALSE],
     !.pc = LINUX_ENTRY, !.next_pc = Plus(LINUX_ENTRY, 4)]

\* Where the interrupted program has to be resumed: an instruction in a delay
\* slot is resumed at its branch.
exception_resume_pc(s) == IF s.bds THEN Minus(s.pc, 4) ELSE s.pc

soft_reset_cpu(s) ==
  [s EXCEPT
     !.ErrorEPC = exception_resume_pc(s),
     !.Status.BEV = TRUE, !.Status.ERL = TRUE,
     !.BD = s.BD /\ s.Status.EXL,
     !.exception_pending = FALSE,
     !.bds = FALSE,
     !.pc = RESET_VECTOR, !.next_pc = Plus(RESET_VECTOR, 4)]

\* The reset classes of raise_exception(): scheduled for the next step.
ScheduleReset(s) == [s EXCEPT !.next_pc = s.pc, !.exception_pending = TRUE]

-----------------------------------------------------------------------------
(* Exceptions.                                                             *)

\* The vector of an exception class; a refill within an exception and an
\* interrupt without Cause.IV go to the general vector.
VectorOf(s, kind) ==
  LET special == \/ kind = "refill" /\ ~s.Status.EXL
                 \/ kind = "interrupt" /\ s.IV
  IN  Vector[<<s.Status.BEV, IF special THEN kind ELSE "general">>]

\* Mutant: a nested exception overwrites EPC and BD.
raise_exception_Nested(s, kind) ==
  [s EXCEPT !.BD = s.bds, !.EPC = exception_resume_pc(s),
            !.Status.EXL = TRUE, !.bds = FALSE,
            !.next_pc = VectorOf(s, kind), !.exception_pending = TRUE]

\* raise_exception(): EPC and BD belong to the first exception of a nest.
raise_exception(s, kind) ==
  [s EXCEPT
     !.BD = IF s.Status.EXL THEN s.BD ELSE s.bds,
     !.EPC = IF s.Status.EXL THEN s.EPC ELSE exception_resume_pc(s),
     !.Status.EXL = TRUE,
     !.bds = FALSE,
     !.next_pc = VectorOf(s, kind),
     !.exception_pending = TRUE]

\* Mutant: the vector is entered with a stale next_pc.
commit_pending_exception_StaleNext(s) ==
  [s EXCEPT !.pc = s.next_pc, !.exception_pending = FALSE]

commit_pending_exception(s) ==
  [s EXCEPT !.pc = s.next_pc, !.next_pc = Plus(s.next_pc, 4),
            !.exception_pending = FALSE]

TakeException(s, kind) ==
  commit_pending_exception(raise_exception(s, kind))

\* platform_update_interrupts(): the UART's line follows the device.
platform_update_interrupts(s) ==
  [s EXCEPT !.IP = IF uart_irq THEN s.IP \union {IRQ_LINE} ELSE s.IP \ {IRQ_LINE}]

InterruptAccepted(s) ==
  /\ s.Status.IE /\ ~s.Status.EXL /\ ~s.Status.ERL
  /\ s.Status.IM \intersect s.IP # {}

-----------------------------------------------------------------------------
(* The clock.                                                              *)

\* Mutant: reaching Compare sets Cause.TI and forgets the pending bit.
update_cycle_TIOnly(s) ==
  IF s.divider + 1 < COUNT_DIVIDER
  THEN [s EXCEPT !.divider = s.divider + 1]
  ELSE [s EXCEPT !.divider = 0,
                 !.Count = (s.Count + 1) % COUNT_SPACE,
                 !.TI = s.TI \/ (s.Count + 1) % COUNT_SPACE = s.Compare]

\* update_cycle(): every COUNT_DIVIDER-th step advances Count, and reaching
\* Compare latches the timer interrupt.
update_cycle(s) ==
  IF s.divider + 1 < COUNT_DIVIDER
  THEN [s EXCEPT !.divider = s.divider + 1]
  ELSE LET ticked == [s EXCEPT !.divider = 0, !.Count = (s.Count + 1) % COUNT_SPACE]
       IN  IF ticked.Count = s.Compare
           THEN [ticked EXCEPT !.TI = TRUE, !.IP = s.IP \union {TIMER_LINE}]
           ELSE ticked

-----------------------------------------------------------------------------
(* Completion of an instruction that raised no exception.                  *)

\* Not a branch, or a likely branch that nullifies its slot.
Sequential(s) ==
  [s EXCEPT !.bds = FALSE, !.pc = s.next_pc, !.next_pc = Plus(s.next_pc, 4)]

BranchTaken(s, target) ==
  [s EXCEPT !.bds = TRUE, !.pc = s.next_pc, !.next_pc = target]

\* Mutant: what follows a branch that is not taken is not its slot.
BranchNotTaken_NoSlot(s) ==
  [s EXCEPT !.bds = FALSE, !.pc = Plus(s.pc, 4), !.next_pc = Plus(s.next_pc, 4)]

BranchNotTaken(s) ==
  [s EXCEPT !.bds = TRUE, !.pc = Plus(s.pc, 4), !.next_pc = Plus(s.next_pc, 4)]

LikelyNotTaken(s) == Sequential([s EXCEPT !.next_pc = Plus(s.pc, 8)])

op_eret(s) ==
  IF s.Status.ERL
  THEN [s EXCEPT !.next_pc = s.ErrorEPC, !.Status.ERL = FALSE, !.bds = FALSE]
  ELSE [s EXCEPT !.next_pc = s.EPC, !.Status.EXL = FALSE, !.bds = FALSE]

(* mipsel_cp0_write(), shared by MTC0 and the monitor.                      *)
WriteStatus(s, value) == [s EXCEPT !.Status = value]

\* Mutant: the whole of Cause is writable.
WriteCause_NoMask(s, value) ==
  [s EXCEPT !.IV = value.IV, !.IP = value.IP, !.TI = FALSE, !.BD = FALSE]

WriteCause(s, value) ==
  [s EXCEPT !.IV = value.IV, !.IP = (s.IP \ {0, 1}) \union value.IP]

\* Writing Compare acknowledges the timer.
WriteCompare(s, value) ==
  [s EXCEPT !.Compare = value, !.TI = FALSE, !.IP = s.IP \ {TIMER_LINE}]

WriteCount(s, value) == [s EXCEPT !.Count = value]

WriteEpc(s, value) == [s EXCEPT !.EPC = value]

WriteErrorEpc(s, value) == [s EXCEPT !.ErrorEPC = value]

\* The outcomes of one CP0 write.
Cp0Writes(s) ==
  {WriteStatus(s, value) : value \in StatusWrites} \union
  {WriteCause(s, value) : value \in CauseWrites} \union
  {WriteCompare(s, value) : value \in Word} \union
  {WriteCount(s, value) : value \in Word} \union
  {WriteEpc(s, value) : value \in Targets} \union
  {WriteErrorEpc(s, value) : value \in Targets}

\* Mutant: the privilege check forgets user mode.
Cop0Usable_Always(s) == TRUE

\* op_cop0_handler(): kernel code, or Status.CU0, may use coprocessor 0.
Cop0Usable(s) ==
  s.Status.EXL \/ s.Status.ERL \/ ~s.Status.User \/ s.Status.CU0

-----------------------------------------------------------------------------
(* One mipsel_emu_step().                                                  *)

Sampled == platform_update_interrupts(cpu)

EndStep(s) == cpu' = update_cycle(s) /\ UNCHANGED uart_irq

CommitPending ==
  /\ cpu.exception_pending
  /\ EndStep(commit_pending_exception(cpu))

TakeInterrupt ==
  /\ ~cpu.exception_pending
  /\ InterruptAccepted(Sampled)
  /\ EndStep(TakeException(Sampled, "interrupt"))

\* No exception is pending and no interrupt is accepted: pc is fetched.
Fetches == ~cpu.exception_pending /\ ~InterruptAccepted(Sampled)

FetchAddressError ==
  /\ Fetches
  /\ ~Aligned(cpu.pc)
  /\ EndStep(TakeException(Sampled, "general"))

\* pc is not mapped: a refill, or an entry that is invalid.
FetchTlbFault ==
  /\ Fetches
  /\ Aligned(cpu.pc)
  /\ \E kind \in {"refill", "general"} : EndStep(TakeException(Sampled, kind))

Executes == Fetches /\ Aligned(cpu.pc)

\* Arithmetic, loads and stores, WAIT, CACHE, SYNC, RDHWR, MFC0 and the like.
ExecutePlain == Executes /\ EndStep(Sequential(Sampled))

\* SYSCALL, BREAK, traps, overflow, reserved instructions, unusable
\* coprocessors (COP0 in user mode among them), data address errors, invalid
\* and modified pages; and data accesses that miss the TLB.
ExecuteFaulting ==
  /\ Executes
  /\ \/ EndStep(TakeException(Sampled, "general"))
     \/ EndStep(TakeException(Sampled, "refill"))

\* The architecture has no control transfer in a delay slot; the code would
\* execute one, and no guest may rely on what it does.
Transfers == Executes /\ ~cpu.bds

ExecuteBranch ==
  /\ Transfers
  /\ \/ \E target \in Targets : EndStep(BranchTaken(Sampled, target))
     \/ EndStep(BranchNotTaken(Sampled))

ExecuteLikely == Transfers /\ EndStep(LikelyNotTaken(Sampled))

ExecuteEret ==
  /\ Transfers
  /\ Cop0Usable(cpu)
  /\ EndStep(Sequential(op_eret(Sampled)))

\* MTC0, and DI and EI, which write Status.IE alone.
ExecuteCp0Write ==
  /\ Executes
  /\ Cop0Usable(cpu)
  /\ \/ \E written \in Cp0Writes(Sampled) : EndStep(Sequential(written))
     \/ \E ie \in BOOLEAN : EndStep(Sequential([Sampled EXCEPT !.Status.IE = ie]))

mipsel_emu_step ==
  \/ CommitPending
  \/ TakeInterrupt
  \/ FetchAddressError
  \/ FetchTlbFault
  \/ ExecutePlain
  \/ ExecuteFaulting
  \/ ExecuteBranch
  \/ ExecuteLikely
  \/ ExecuteEret
  \/ ExecuteCp0Write

-----------------------------------------------------------------------------
(* The host, between steps.                                                *)

\* A register access or host input changes the UART's request.
UartChanges == uart_irq' = ~uart_irq /\ UNCHANGED cpu

ColdReset == cpu' = ScheduleReset(reset_cpu) /\ UNCHANGED uart_irq

SoftReset == cpu' = ScheduleReset(soft_reset_cpu(cpu)) /\ UNCHANGED uart_irq

\* The board reset of the front ends also resets the UART.
BoardReset == cpu' = linux_load_reset /\ uart_irq' = FALSE

\* The monitor's "reg pc": it restarts the pipeline at the new address.
MonitorSetPc ==
  /\ \E a \in Targets :
       cpu' = [cpu EXCEPT !.pc = a, !.next_pc = Plus(a, 4), !.bds = FALSE,
                          !.exception_pending = FALSE]
  /\ UNCHANGED uart_irq

\* The monitor's "reg <cp0 register>".
MonitorCp0Write == cpu' \in Cp0Writes(cpu) /\ UNCHANGED uart_irq

Host ==
  \/ UartChanges
  \/ ColdReset
  \/ SoftReset
  \/ BoardReset
  \/ MonitorSetPc
  \/ MonitorCp0Write

CpuInit == cpu \in {reset_cpu, linux_load_reset} /\ uart_irq = FALSE

CpuNext == mipsel_emu_step \/ Host

CpuSpec == CpuInit /\ [][CpuNext]_cpu_vars

\* The run loops keep stepping the processor.
CpuFairSpec == CpuSpec /\ WF_cpu_vars(mipsel_emu_step)

-----------------------------------------------------------------------------
CpuTypeOK == cpu \in Registers /\ uart_irq \in BOOLEAN

(* Between steps the two program counters agree: outside a delay slot       *)
(* next_pc is the next instruction, and a scheduled reset has flushed the   *)
(* pipeline.  The not-taken path of cpu_step() advances pc by itself and    *)
(* the others copy next_pc: they may not drift apart.                       *)
PipelineConsistent ==
  IF cpu.exception_pending
  THEN ~cpu.bds /\ cpu.next_pc = cpu.pc
  ELSE cpu.bds \/ cpu.next_pc = Plus(cpu.pc, 4)

(* Every register stays within its width, and between steps the two program *)
(* counters agree, whatever the guest and the debugger do.                  *)
CpuSafe == CpuTypeOK /\ PipelineConsistent

(* The timer interrupt is on IP7 (registers.h): whenever Cause.TI says that *)
(* the timer fired, the handler finds its pending bit, and never otherwise. *)
TimerLatchVisible == cpu.TI <=> TIMER_LINE \in cpu.IP

(* A timer interrupt that has fired stays pending until Compare is written  *)
(* or the processor restarts; software that writes the other CP0 registers, *)
(* Cause included, cannot lose it.                                          *)
WritesCompare ==
  \E value \in Word :
    \/ EndStep(Sequential(WriteCompare(Sampled, value)))
    \/ cpu' = WriteCompare(cpu, value)

TimerNotLost ==
  [][cpu.TI /\ ~(cpu'.TI /\ TIMER_LINE \in cpu'.IP) =>
       WritesCompare \/ ColdReset \/ BoardReset]_cpu_vars

(* A user program without CU0 cannot change privileged state, and leaves    *)
(* user mode only through an exception vector.                              *)
UserMode(s) ==
  s.Status.User /\ ~s.Status.EXL /\ ~s.Status.ERL /\ ~s.Status.CU0

Privileged(s) ==
  <<s.Status, s.IV, s.IP \intersect {0, 1}, s.BD, s.EPC, s.ErrorEPC, s.Compare>>

UserConfined ==
  [][mipsel_emu_step /\ UserMode(cpu) =>
       \/ Privileged(cpu') = Privileged(Sampled)
       \/ /\ cpu'.Status = [cpu.Status EXCEPT !.EXL = TRUE]
          /\ \E kind \in VectorKinds : cpu'.pc = Vector[<<cpu.Status.BEV, kind>>]]_cpu_vars

(* The two-register pipeline implements the delay-slot machine of           *)
(* PreciseFlow: wherever an exception, an interrupt or a soft reset strikes, *)
(* resuming at EPC (or ErrorEPC) repeats exactly what had not completed.    *)
OldestIncomplete == IF cpu.bds THEN Minus(cpu.pc, 4) ELSE cpu.pc

Flow == INSTANCE PreciseFlow WITH
          Size <- ADDR_SPACE,
          Targets <- Targets,
          Vectors <- {Vector[v] : v \in BOOLEAN \X VectorKinds},
          Reset <- RESET_VECTOR,
          at <- OldestIncomplete,
          goto <- IF cpu.bds THEN cpu.next_pc ELSE -1,
          level <- [exception |-> cpu.Status.EXL, error |-> cpu.Status.ERL],
          resume <- cpu.EPC,
          in_slot <- cpu.BD,
          error_resume <- cpu.ErrorEPC

CpuImplementsFlow == Flow!Spec

(* With the clock left running, interrupts cannot stay enabled for ever     *)
(* without the timer interrupt being taken: Count reaches Compare again, in *)
(* idle cycles too, and what is pending is delivered.                       *)
TimerEnabled ==
  /\ cpu.Status.IE /\ ~cpu.Status.EXL /\ ~cpu.Status.ERL
  /\ TIMER_LINE \in cpu.Status.IM

\* Nobody writes Compare or moves Count: a step ticks the clock and the host
\* leaves it alone.  (With a divider above one, no write can disguise itself
\* as either.)
ClockLeftAlone ==
  LET Clock(s) == <<s.Count, s.divider>>
  IN  /\ cpu'.Compare = cpu.Compare
      /\ cpu.TI => cpu'.TI
      /\ Clock(cpu') \in {Clock(cpu), Clock(update_cycle(cpu))}

TimerDelivered == <>[][ClockLeftAlone]_cpu_vars => []<>(~TimerEnabled)
=============================================================================

----------------------------- MODULE CpuProofs -----------------------------
(***************************************************************************)
(* The processor, for every address space, vector map, clock and guest:    *)
(* its invariants, and that its pipeline implements the delay-slot machine *)
(* of PreciseFlow.                                                         *)
(***************************************************************************)
EXTENDS CpuEdit, TLAPS

(* Addresses and counts wrap within their space.                            *)
LEMMA PlusInAddr ==
  ASSUME NEW a \in Addr, NEW n \in Nat
  PROVE  Plus(a, n) \in Addr
  BY AddrAssumption DEF Plus, Addr

LEMMA MinusInAddr ==
  ASSUME NEW a \in Addr, NEW n \in Nat
  PROVE  Minus(a, n) \in Addr
  BY AddrAssumption DEF Minus, Addr

LEMMA TickInWord ==
  ASSUME NEW c \in Word
  PROVE  (c + 1) % COUNT_SPACE \in Word
  BY CountAssumption DEF Word

LEMMA ZeroTyped == 0 \in Addr /\ 0 \in Word /\ 0 \in 0 .. COUNT_DIVIDER - 1
  BY AddrAssumption, CountAssumption DEF Addr, Word

LEMMA LinesTyped == IRQ_LINE \in Lines /\ TIMER_LINE \in Lines /\ {0, 1} \subseteq Lines
  BY LineAssumption DEF Lines, TIMER_LINE

-----------------------------------------------------------------------------
(* Every operator maps registers to registers.                              *)

LEMMA ResetStatusType == ResetStatus \in Status
  BY DEF ResetStatus, Status

LEMMA ResetType == reset_cpu \in Registers /\ linux_load_reset \in Registers
<1>1. /\ RESET_VECTOR \in Addr /\ LINUX_ENTRY \in Addr
      /\ Plus(RESET_VECTOR, 4) \in Addr /\ Plus(LINUX_ENTRY, 4) \in Addr
  BY VectorAssumption, PlusInAddr
<1>2. reset_cpu \in Registers
  BY <1>1, ZeroTyped, ResetStatusType DEF reset_cpu, Registers
<1>3. [ResetStatus EXCEPT !.ERL = FALSE, !.BEV = FALSE] \in Status
  BY DEF ResetStatus, Status
<1>4. linux_load_reset \in Registers
  BY <1>1, <1>2, <1>3 DEF linux_load_reset, Registers
<1>5. QED
  BY <1>2, <1>4

LEMMA ResumeType ==
  ASSUME NEW s \in Registers
  PROVE  exception_resume_pc(s) \in Addr
  BY MinusInAddr DEF exception_resume_pc, Registers

LEMMA SoftResetType ==
  ASSUME NEW s \in Registers
  PROVE  soft_reset_cpu(s) \in Registers
<1>1. RESET_VECTOR \in Addr /\ Plus(RESET_VECTOR, 4) \in Addr
  BY VectorAssumption, PlusInAddr
<1>2. exception_resume_pc(s) \in Addr
  BY ResumeType
<1>3. (s.BD /\ s.Status.EXL) \in BOOLEAN
  OBVIOUS
<1>4. QED
  BY <1>1, <1>2, <1>3 DEF soft_reset_cpu, Registers, Status

LEMMA ScheduleResetType ==
  ASSUME NEW s \in Registers
  PROVE  ScheduleReset(s) \in Registers
  BY DEF ScheduleReset, Registers

LEMMA VectorType ==
  ASSUME NEW s \in Registers, NEW kind \in VectorKinds
  PROVE  VectorOf(s, kind) \in Addr
<1>1. s.Status.BEV \in BOOLEAN
  BY DEF Registers, Status
<1>2. QED
  BY <1>1, VectorAssumption DEF VectorOf, VectorKinds

LEMMA RaiseType ==
  ASSUME NEW s \in Registers, NEW kind \in VectorKinds
  PROVE  raise_exception(s, kind) \in Registers
<1>1. VectorOf(s, kind) \in Addr
  BY VectorType
<1>2. exception_resume_pc(s) \in Addr
  BY ResumeType
<1>3. QED
  BY <1>1, <1>2 DEF raise_exception, Registers, Status

LEMMA CommitType ==
  ASSUME NEW s \in Registers
  PROVE  commit_pending_exception(s) \in Registers
<1>1. Plus(s.next_pc, 4) \in Addr
  BY PlusInAddr DEF Registers
<1>2. QED
  BY <1>1 DEF commit_pending_exception, Registers

LEMMA SampleType ==
  ASSUME NEW s \in Registers
  PROVE  platform_update_interrupts(s) \in Registers
  BY LinesTyped DEF platform_update_interrupts, Registers

LEMMA ClockType ==
  ASSUME NEW s \in Registers
  PROVE  update_cycle(s) \in Registers
<1>1. (s.Count + 1) % COUNT_SPACE \in Word
  BY TickInWord DEF Registers
<1>2. s.divider + 1 < COUNT_DIVIDER => s.divider + 1 \in 0 .. COUNT_DIVIDER - 1
  BY CountAssumption DEF Registers
<1>3. CASE s.divider + 1 < COUNT_DIVIDER
  BY <1>2, <1>3 DEF update_cycle, Registers
<1>4. CASE ~(s.divider + 1 < COUNT_DIVIDER)
  BY <1>1, <1>4, ZeroTyped, LinesTyped DEF update_cycle, Registers
<1>5. QED
  BY <1>3, <1>4

LEMMA CompletionType ==
  ASSUME NEW s \in Registers
  PROVE  /\ Sequential(s) \in Registers
         /\ BranchNotTaken(s) \in Registers
         /\ LikelyNotTaken(s) \in Registers
         /\ op_eret(s) \in Registers
         /\ \A target \in Targets : BranchTaken(s, target) \in Registers
<1>1. /\ s.pc \in Addr /\ s.next_pc \in Addr
      /\ s.EPC \in Addr /\ s.ErrorEPC \in Addr
  BY DEF Registers
<1>2. /\ Plus(s.next_pc, 4) \in Addr
      /\ Plus(s.pc, 4) \in Addr
      /\ Plus(s.pc, 8) \in Addr
      /\ Plus(Plus(s.pc, 8), 4) \in Addr
  BY <1>1, PlusInAddr
<1>3. Sequential(s) \in Registers
  BY <1>1, <1>2 DEF Sequential, Registers
<1>4. BranchNotTaken(s) \in Registers
  BY <1>1, <1>2 DEF BranchNotTaken, Registers
<1>5. LikelyNotTaken(s) \in Registers
  BY <1>1, <1>2 DEF LikelyNotTaken, Sequential, Registers
<1>6. op_eret(s) \in Registers
  BY <1>1 DEF op_eret, Registers, Status
<1>7. ASSUME NEW target \in Targets PROVE BranchTaken(s, target) \in Registers
  BY <1>1, WritesAssumption DEF BranchTaken, Registers
<1>8. QED
  BY <1>3, <1>4, <1>5, <1>6, <1>7

LEMMA Cp0WriteType ==
  ASSUME NEW s \in Registers, NEW t \in Cp0Writes(s)
  PROVE  t \in Registers
<1>1. CASE \E value \in StatusWrites : t = WriteStatus(s, value)
  BY <1>1, WritesAssumption DEF WriteStatus, Registers
<1>2. CASE \E value \in CauseWrites : t = WriteCause(s, value)
  BY <1>2, WritesAssumption, LinesTyped DEF WriteCause, Registers, WritableCause
<1>3. CASE \E value \in Word : t = WriteCompare(s, value)
  BY <1>3 DEF WriteCompare, Registers
<1>4. CASE \E value \in Word : t = WriteCount(s, value)
  BY <1>4 DEF WriteCount, Registers
<1>5. CASE \E value \in Targets : t = WriteEpc(s, value)
  BY <1>5, WritesAssumption DEF WriteEpc, Registers
<1>6. CASE \E value \in Targets : t = WriteErrorEpc(s, value)
  BY <1>6, WritesAssumption DEF WriteErrorEpc, Registers
<1>7. QED
  BY <1>1, <1>2, <1>3, <1>4, <1>5, <1>6 DEF Cp0Writes

LEMMA InitType == CpuInit => CpuTypeOK
  BY ResetType DEF CpuInit, CpuTypeOK

LEMMA TakeType ==
  ASSUME NEW s \in Registers, NEW kind \in VectorKinds
  PROVE  TakeException(s, kind) \in Registers
  BY RaiseType, CommitType DEF TakeException

(* What a step hands to the clock is a register file.                       *)
LEMMA StepOutcome ==
  ASSUME CpuTypeOK, mipsel_emu_step
  PROVE  \E s \in Registers : EndStep(s)
<1>1. cpu \in Registers /\ Sampled \in Registers
  BY SampleType DEF CpuTypeOK, Sampled
<1>2. CASE CommitPending
  BY <1>1, <1>2, CommitType DEF CommitPending
<1>3. CASE TakeInterrupt
  BY <1>1, <1>3, TakeType DEF TakeInterrupt, VectorKinds
<1>4. CASE FetchAddressError
  BY <1>1, <1>4, TakeType DEF FetchAddressError, VectorKinds
<1>5. CASE FetchTlbFault
  BY <1>1, <1>5, TakeType DEF FetchTlbFault, VectorKinds
<1>6. CASE ExecutePlain
  BY <1>1, <1>6, CompletionType DEF ExecutePlain
<1>7. CASE ExecuteFaulting
  BY <1>1, <1>7, TakeType DEF ExecuteFaulting, VectorKinds
<1>8. CASE ExecuteBranch
  BY <1>1, <1>8, CompletionType DEF ExecuteBranch
<1>9. CASE ExecuteLikely
  BY <1>1, <1>9, CompletionType DEF ExecuteLikely
<1>10. CASE ExecuteEret
  BY <1>1, <1>10, CompletionType DEF ExecuteEret
<1>11. CASE ExecuteCp0Write
  <2>1. CASE \E written \in Cp0Writes(Sampled) : EndStep(Sequential(written))
    <3>1. PICK written \in Cp0Writes(Sampled) : EndStep(Sequential(written))
      BY <2>1
    <3>2. written \in Registers
      BY <1>1, Cp0WriteType
    <3>3. QED
      BY <3>1, <3>2, CompletionType
  <2>2. CASE \E ie \in BOOLEAN : EndStep(Sequential([Sampled EXCEPT !.Status.IE = ie]))
    <3>1. PICK ie \in BOOLEAN : EndStep(Sequential([Sampled EXCEPT !.Status.IE = ie]))
      BY <2>2
    <3>2. [Sampled EXCEPT !.Status.IE = ie] \in Registers
      BY <1>1 DEF Registers, Status
    <3>3. QED
      BY <3>1, <3>2, CompletionType
  <2>3. QED
    BY <1>11, <2>1, <2>2 DEF ExecuteCp0Write
<1>12. QED
  BY <1>2, <1>3, <1>4, <1>5, <1>6, <1>7, <1>8, <1>9, <1>10, <1>11 DEF mipsel_emu_step

LEMMA HostType ==
  ASSUME CpuTypeOK, Host
  PROVE  CpuTypeOK'
<1>1. cpu \in Registers /\ uart_irq \in BOOLEAN
  BY DEF CpuTypeOK
<1>2. CASE UartChanges
  BY <1>1, <1>2 DEF UartChanges, CpuTypeOK
<1>3. CASE ColdReset
  BY <1>1, <1>3, ResetType, ScheduleResetType DEF ColdReset, CpuTypeOK
<1>4. CASE SoftReset
  BY <1>1, <1>4, SoftResetType, ScheduleResetType DEF SoftReset, CpuTypeOK
<1>5. CASE BoardReset
  BY <1>1, <1>5, ResetType DEF BoardReset, CpuTypeOK
<1>6. CASE MonitorSetPc
  <2>1. PICK a \in Targets : cpu' = [cpu EXCEPT !.pc = a, !.next_pc = Plus(a, 4),
                                              !.bds = FALSE, !.exception_pending = FALSE]
    BY <1>6 DEF MonitorSetPc
  <2>2. a \in Addr /\ Plus(a, 4) \in Addr
    BY WritesAssumption, PlusInAddr
  <2>3. uart_irq' = uart_irq
    BY <1>6 DEF MonitorSetPc
  <2>4. cpu' \in Registers
    BY <1>1, <2>1, <2>2 DEF Registers
  <2>5. QED
    BY <1>1, <2>3, <2>4 DEF CpuTypeOK
<1>7. CASE MonitorCp0Write
  BY <1>1, <1>7, Cp0WriteType DEF MonitorCp0Write, CpuTypeOK
<1>8. QED
  BY <1>2, <1>3, <1>4, <1>5, <1>6, <1>7 DEF Host

LEMMA NextType ==
  ASSUME CpuTypeOK, [CpuNext]_cpu_vars
  PROVE  CpuTypeOK'
<1>1. CASE mipsel_emu_step
  <2>1. PICK s \in Registers : EndStep(s)
    BY <1>1, StepOutcome
  <2>2. cpu' = update_cycle(s) /\ uart_irq' = uart_irq
    BY <2>1 DEF EndStep
  <2>3. update_cycle(s) \in Registers
    BY ClockType
  <2>4. QED
    BY <2>2, <2>3 DEF CpuTypeOK
<1>2. CASE Host
  BY <1>2, HostType
<1>3. CASE UNCHANGED cpu_vars
  BY <1>3 DEF CpuTypeOK, cpu_vars
<1>4. QED
  BY <1>1, <1>2, <1>3 DEF CpuNext

(* Type correctness: the program counters, the exception registers and the  *)
(* clock stay within their width whatever the guest and the host do.        *)
THEOREM CpuTypeCorrect == CpuSpec => []CpuTypeOK
<1>1. CpuTypeOK /\ [CpuNext]_cpu_vars => CpuTypeOK'
  BY NextType
<1>2. QED
  BY InitType, <1>1, PTL DEF CpuSpec

-----------------------------------------------------------------------------
(* The pipeline.                                                            *)

Pipeline(s) == <<s.pc, s.next_pc, s.bds, s.exception_pending>>

Consistent(s) ==
  IF s.exception_pending
  THEN ~s.bds /\ s.next_pc = s.pc
  ELSE s.bds \/ s.next_pc = Plus(s.pc, 4)

LEMMA SamePipeline ==
  ASSUME NEW s, NEW t, Pipeline(t) = Pipeline(s)
  PROVE  Consistent(t) <=> Consistent(s)
<1>1. /\ t.pc = s.pc /\ t.next_pc = s.next_pc
      /\ t.bds = s.bds /\ t.exception_pending = s.exception_pending
  BY DEF Pipeline
<1>2. QED
  BY <1>1 DEF Consistent

(* Neither the clock, nor the interrupt lines, nor a CP0 write touches the  *)
(* pipeline.                                                                *)
LEMMA ClockPipeline ==
  ASSUME NEW s \in Registers
  PROVE  Pipeline(update_cycle(s)) = Pipeline(s)
  BY DEF Pipeline, update_cycle, Registers

LEMMA SamplePipeline ==
  ASSUME NEW s \in Registers
  PROVE  Pipeline(platform_update_interrupts(s)) = Pipeline(s)
  BY DEF Pipeline, platform_update_interrupts, Registers

LEMMA Cp0WritePipeline ==
  ASSUME NEW s \in Registers, NEW t \in Cp0Writes(s)
  PROVE  Pipeline(t) = Pipeline(s)
  BY DEF Cp0Writes, WriteStatus, WriteCause, WriteCompare, WriteCount, WriteEpc,
         WriteErrorEpc, Pipeline, Registers

LEMMA TakePipeline ==
  ASSUME NEW s \in Registers, NEW kind \in VectorKinds
  PROVE  Consistent(TakeException(s, kind))
  BY DEF TakeException, raise_exception, commit_pending_exception, Consistent, Registers

LEMMA CompletionPipeline ==
  ASSUME NEW s \in Registers, ~s.exception_pending
  PROVE  /\ Consistent(Sequential(s))
         /\ Consistent(BranchNotTaken(s))
         /\ Consistent(LikelyNotTaken(s))
         /\ Consistent(Sequential(op_eret(s)))
         /\ \A target \in Targets : Consistent(BranchTaken(s, target))
<1>1. Consistent(Sequential(s))
  BY DEF Sequential, Consistent, Registers
<1>2. Consistent(BranchNotTaken(s))
  BY DEF BranchNotTaken, Consistent, Registers
<1>3. Consistent(LikelyNotTaken(s))
  BY DEF LikelyNotTaken, Sequential, Consistent, Registers
<1>4. Consistent(Sequential(op_eret(s)))
  BY DEF op_eret, Sequential, Consistent, Registers
<1>5. ASSUME NEW target \in Targets PROVE Consistent(BranchTaken(s, target))
  BY DEF BranchTaken, Consistent, Registers
<1>6. QED
  BY <1>1, <1>2, <1>3, <1>4, <1>5

(* Whatever the step, it hands consistent program counters to the clock.    *)
LEMMA StepConsistent ==
  ASSUME CpuTypeOK, mipsel_emu_step
  PROVE  \E s \in Registers : Consistent(s) /\ EndStep(s)
<1>1. cpu \in Registers /\ Sampled \in Registers
  BY SampleType DEF CpuTypeOK, Sampled
<1>2. ~cpu.exception_pending => ~Sampled.exception_pending
  BY <1>1, SamplePipeline DEF Pipeline, Sampled
<1>3. CASE CommitPending
  <2>1. Consistent(commit_pending_exception(cpu))
    BY <1>1 DEF commit_pending_exception, Consistent, Registers
  <2>2. QED
    BY <1>1, <1>3, <2>1, CommitType DEF CommitPending
<1>4. CASE TakeInterrupt
  BY <1>1, <1>4, TakeType, TakePipeline DEF TakeInterrupt, VectorKinds
<1>5. CASE FetchAddressError
  BY <1>1, <1>5, TakeType, TakePipeline DEF FetchAddressError, VectorKinds
<1>6. CASE FetchTlbFault
  BY <1>1, <1>6, TakeType, TakePipeline DEF FetchTlbFault, VectorKinds
<1>7. CASE ExecuteFaulting
  BY <1>1, <1>7, TakeType, TakePipeline DEF ExecuteFaulting, VectorKinds
<1>8. Executes => ~Sampled.exception_pending
  BY <1>2 DEF Executes, Fetches
<1>9. CASE ExecutePlain
  BY <1>1, <1>8, <1>9, CompletionType, CompletionPipeline DEF ExecutePlain
<1>10. CASE ExecuteBranch
  BY <1>1, <1>8, <1>10, CompletionType, CompletionPipeline DEF ExecuteBranch, Transfers
<1>11. CASE ExecuteLikely
  BY <1>1, <1>8, <1>11, CompletionType, CompletionPipeline DEF ExecuteLikely, Transfers
<1>12. CASE ExecuteEret
  <2>1. op_eret(Sampled) \in Registers
    BY <1>1, CompletionType
  <2>2. Sequential(op_eret(Sampled)) \in Registers
    BY <2>1, CompletionType
  <2>3. QED
    BY <1>1, <1>8, <1>12, <2>2, CompletionPipeline DEF ExecuteEret, Transfers
<1>13. CASE ExecuteCp0Write
  <2>1. PICK t \in Registers : Pipeline(t) = Pipeline(Sampled) /\ EndStep(Sequential(t))
    <3>1. CASE \E written \in Cp0Writes(Sampled) : EndStep(Sequential(written))
      BY <1>1, <3>1, Cp0WriteType, Cp0WritePipeline
    <3>2. CASE \E ie \in BOOLEAN : EndStep(Sequential([Sampled EXCEPT !.Status.IE = ie]))
      <4>1. PICK ie \in BOOLEAN : EndStep(Sequential([Sampled EXCEPT !.Status.IE = ie]))
        BY <3>2
      <4>2. [Sampled EXCEPT !.Status.IE = ie] \in Registers
        BY <1>1 DEF Registers, Status
      <4>3. Pipeline([Sampled EXCEPT !.Status.IE = ie]) = Pipeline(Sampled)
        BY <1>1 DEF Pipeline, Registers
      <4>4. QED
        BY <4>1, <4>2, <4>3
    <3>3. QED
      BY <1>13, <3>1, <3>2 DEF ExecuteCp0Write
  <2>2. ~t.exception_pending
    BY <1>8, <1>13, <2>1 DEF Pipeline, ExecuteCp0Write
  <2>3. QED
    BY <2>1, <2>2, CompletionType, CompletionPipeline
<1>14. QED
  BY <1>3, <1>4, <1>5, <1>6, <1>7, <1>9, <1>10, <1>11, <1>12, <1>13 DEF mipsel_emu_step

LEMMA InitPipeline == CpuInit => PipelineConsistent
<1>1. SUFFICES ASSUME CpuInit PROVE Consistent(cpu)
  BY DEF PipelineConsistent, Consistent
<1>2. Consistent(reset_cpu)
  BY DEF reset_cpu, Consistent
<1>3. Consistent(linux_load_reset)
  BY DEF linux_load_reset, reset_cpu, Consistent
<1>4. QED
  BY <1>1, <1>2, <1>3 DEF CpuInit

LEMMA HostPipeline ==
  ASSUME CpuTypeOK, Consistent(cpu), Host
  PROVE  Consistent(cpu')
<1>1. cpu \in Registers
  BY DEF CpuTypeOK
<1>2. CASE UartChanges
  BY <1>2 DEF UartChanges
<1>3. CASE ColdReset
  <2>1. Consistent(ScheduleReset(reset_cpu))
    BY DEF ScheduleReset, reset_cpu, Consistent
  <2>2. QED
    BY <1>3, <2>1 DEF ColdReset
<1>4. CASE SoftReset
  <2>1. Consistent(ScheduleReset(soft_reset_cpu(cpu)))
    BY <1>1 DEF ScheduleReset, soft_reset_cpu, Consistent, Registers
  <2>2. QED
    BY <1>4, <2>1 DEF SoftReset
<1>5. CASE BoardReset
  <2>1. Consistent(linux_load_reset)
    BY DEF linux_load_reset, reset_cpu, Consistent
  <2>2. QED
    BY <1>5, <2>1 DEF BoardReset
<1>6. CASE MonitorSetPc
  <2>1. PICK a \in Targets : cpu' = [cpu EXCEPT !.pc = a, !.next_pc = Plus(a, 4),
                                              !.bds = FALSE, !.exception_pending = FALSE]
    BY <1>6 DEF MonitorSetPc
  <2>2. Consistent([cpu EXCEPT !.pc = a, !.next_pc = Plus(a, 4),
                               !.bds = FALSE, !.exception_pending = FALSE])
    BY <1>1 DEF Consistent, Registers
  <2>3. QED
    BY <2>1, <2>2
<1>7. CASE MonitorCp0Write
  <2>1. cpu' \in Cp0Writes(cpu)
    BY <1>7 DEF MonitorCp0Write
  <2>2. Pipeline(cpu') = Pipeline(cpu)
    BY <1>1, <2>1, Cp0WritePipeline
  <2>3. QED
    BY <2>2, SamePipeline
<1>8. QED
  BY <1>2, <1>3, <1>4, <1>5, <1>6, <1>7 DEF Host

LEMMA NextPipeline ==
  ASSUME CpuTypeOK, PipelineConsistent, [CpuNext]_cpu_vars
  PROVE  PipelineConsistent'
<1>1. Consistent(cpu)
  BY DEF PipelineConsistent, Consistent
<1>2. CASE mipsel_emu_step
  <2>1. PICK s \in Registers : Consistent(s) /\ EndStep(s)
    BY <1>2, StepConsistent
  <2>2. cpu' = update_cycle(s)
    BY <2>1 DEF EndStep
  <2>3. Consistent(update_cycle(s))
    BY <2>1, ClockPipeline, SamePipeline
  <2>4. Consistent(cpu')
    BY <2>2, <2>3
  <2>5. QED
    BY <2>4 DEF PipelineConsistent, Consistent
<1>3. CASE Host
  <2>1. Consistent(cpu')
    BY <1>1, <1>3, HostPipeline
  <2>2. QED
    BY <2>1 DEF PipelineConsistent, Consistent
<1>4. CASE UNCHANGED cpu_vars
  BY <1>4 DEF PipelineConsistent, cpu_vars
<1>5. QED
  BY <1>2, <1>3, <1>4 DEF CpuNext

(* The two program counters agree between steps, for every guest: no path   *)
(* of the step, no reset and no debugger command leaves next_pc behind.     *)
THEOREM CpuPipelineConsistent == CpuSpec => []PipelineConsistent
<1>1. CpuTypeOK /\ PipelineConsistent /\ [CpuNext]_cpu_vars => PipelineConsistent'
  BY NextPipeline
<1>2. QED
  BY InitPipeline, CpuTypeCorrect, <1>1, PTL DEF CpuSpec

(* Both hold together: the safety the flow run checks.                      *)
THEOREM CpuIsSafe == CpuSpec => []CpuSafe
BY CpuTypeCorrect, CpuPipelineConsistent, PTL DEF CpuSafe

-----------------------------------------------------------------------------
(* The timer interrupt.                                                     *)

\* The UART has one of the five hardware lines below the timer's.
HardwareLine == IRQ_LINE \in 2 .. 6

Timer(s) == <<s.TI, TIMER_LINE \in s.IP>>
Latched(s) == s.TI <=> TIMER_LINE \in s.IP
Held(s) == s.TI /\ TIMER_LINE \in s.IP

LEMMA SameTimer ==
  ASSUME NEW s, NEW t, Timer(t) = Timer(s)
  PROVE  (Latched(t) <=> Latched(s)) /\ (Held(t) <=> Held(s))
<1>1. t.TI = s.TI /\ (TIMER_LINE \in t.IP) = (TIMER_LINE \in s.IP)
  BY DEF Timer
<1>2. QED
  BY <1>1 DEF Latched, Held

LEMMA ClockTimer ==
  ASSUME NEW s \in Registers
  PROVE  (Latched(s) => Latched(update_cycle(s))) /\ (Held(s) => Held(update_cycle(s)))
  BY DEF Latched, Held, update_cycle, Registers

LEMMA SampleTimer ==
  ASSUME NEW s \in Registers, HardwareLine
  PROVE  Timer(platform_update_interrupts(s)) = Timer(s)
<1>1. IRQ_LINE # TIMER_LINE
  BY DEF HardwareLine, TIMER_LINE
<1>2. TIMER_LINE \in platform_update_interrupts(s).IP <=> TIMER_LINE \in s.IP
  BY <1>1 DEF platform_update_interrupts, Registers
<1>3. platform_update_interrupts(s).TI = s.TI
  BY DEF platform_update_interrupts, Registers
<1>4. QED
  BY <1>2, <1>3 DEF Timer

LEMMA TakeTimer ==
  ASSUME NEW s \in Registers, NEW kind \in VectorKinds
  PROVE  Timer(TakeException(s, kind)) = Timer(s)
  BY DEF TakeException, raise_exception, commit_pending_exception, Timer, Registers

LEMMA CompletionTimer ==
  ASSUME NEW s \in Registers
  PROVE  /\ Timer(Sequential(s)) = Timer(s)
         /\ Timer(BranchNotTaken(s)) = Timer(s)
         /\ Timer(LikelyNotTaken(s)) = Timer(s)
         /\ Timer(Sequential(op_eret(s))) = Timer(s)
         /\ \A target \in Targets : Timer(BranchTaken(s, target)) = Timer(s)
<1>1. Timer(Sequential(s)) = Timer(s)
  BY DEF Sequential, Timer, Registers
<1>2. Timer(BranchNotTaken(s)) = Timer(s)
  BY DEF BranchNotTaken, Timer, Registers
<1>3. Timer(LikelyNotTaken(s)) = Timer(s)
  BY DEF LikelyNotTaken, Sequential, Timer, Registers
<1>4. Timer(Sequential(op_eret(s))) = Timer(s)
  BY DEF op_eret, Sequential, Timer, Registers
<1>5. ASSUME NEW target \in Targets PROVE Timer(BranchTaken(s, target)) = Timer(s)
  BY DEF BranchTaken, Timer, Registers
<1>6. QED
  BY <1>1, <1>2, <1>3, <1>4, <1>5

(* Of the CP0 writes only the one to Compare touches the timer's latch, and *)
(* it clears both halves; Cause.IP7 is not writable.                        *)
LEMMA Cp0WriteTimer ==
  ASSUME NEW s \in Registers, NEW t \in Cp0Writes(s)
  PROVE  \/ Timer(t) = Timer(s)
         \/ \E value \in Word : t = WriteCompare(s, value)
<1>1. CASE \E value \in CauseWrites : t = WriteCause(s, value)
  <2>1. PICK value \in CauseWrites : t = WriteCause(s, value)
    BY <1>1
  <2>2. TIMER_LINE \notin value.IP /\ TIMER_LINE \notin {0, 1}
    BY WritesAssumption DEF WritableCause, TIMER_LINE
  <2>3. TIMER_LINE \in t.IP <=> TIMER_LINE \in s.IP
    BY <2>1, <2>2 DEF WriteCause, Registers
  <2>4. t.TI = s.TI
    BY <2>1 DEF WriteCause, Registers
  <2>5. QED
    BY <2>3, <2>4 DEF Timer
<1>2. CASE \/ \E value \in StatusWrites : t = WriteStatus(s, value)
           \/ \E value \in Word : t = WriteCount(s, value)
           \/ \E value \in Targets : t = WriteEpc(s, value) \/ t = WriteErrorEpc(s, value)
  BY <1>2 DEF WriteStatus, WriteCount, WriteEpc, WriteErrorEpc, Timer, Registers
<1>3. QED
  BY <1>1, <1>2 DEF Cp0Writes

LEMMA WriteCompareLatched ==
  ASSUME NEW s \in Registers, NEW value \in Word
  PROVE  Latched(WriteCompare(s, value))
  BY DEF WriteCompare, Latched, Registers

(* What a step hands to the clock has the timer as it was, unless the guest *)
(* wrote Compare.                                                           *)
LEMMA StepTimer ==
  ASSUME CpuTypeOK, HardwareLine, mipsel_emu_step
  PROVE  \/ \E value \in Word : EndStep(Sequential(WriteCompare(Sampled, value)))
         \/ \E s \in Registers : Timer(s) = Timer(cpu) /\ EndStep(s)
<1>1. cpu \in Registers /\ Sampled \in Registers
  BY SampleType DEF CpuTypeOK, Sampled
<1>2. Timer(Sampled) = Timer(cpu)
  BY <1>1, SampleTimer DEF Sampled
<1>3. CASE CommitPending
  <2>1. Timer(commit_pending_exception(cpu)) = Timer(cpu)
    BY <1>1 DEF commit_pending_exception, Timer, Registers
  <2>2. QED
    BY <1>1, <1>3, <2>1, CommitType DEF CommitPending
<1>4. CASE TakeInterrupt
  BY <1>1, <1>2, <1>4, TakeType, TakeTimer DEF TakeInterrupt, VectorKinds
<1>5. CASE FetchAddressError
  BY <1>1, <1>2, <1>5, TakeType, TakeTimer DEF FetchAddressError, VectorKinds
<1>6. CASE FetchTlbFault
  BY <1>1, <1>2, <1>6, TakeType, TakeTimer DEF FetchTlbFault, VectorKinds
<1>7. CASE ExecuteFaulting
  BY <1>1, <1>2, <1>7, TakeType, TakeTimer DEF ExecuteFaulting, VectorKinds
<1>8. CASE ExecutePlain
  BY <1>1, <1>2, <1>8, CompletionType, CompletionTimer DEF ExecutePlain
<1>9. CASE ExecuteBranch
  BY <1>1, <1>2, <1>9, CompletionType, CompletionTimer DEF ExecuteBranch
<1>10. CASE ExecuteLikely
  BY <1>1, <1>2, <1>10, CompletionType, CompletionTimer DEF ExecuteLikely
<1>11. CASE ExecuteEret
  <2>1. op_eret(Sampled) \in Registers
    BY <1>1, CompletionType
  <2>2. Sequential(op_eret(Sampled)) \in Registers
    BY <2>1, CompletionType
  <2>3. Timer(Sequential(op_eret(Sampled))) = Timer(cpu)
    BY <1>1, <1>2, CompletionTimer
  <2>4. QED
    BY <1>11, <2>2, <2>3 DEF ExecuteEret
<1>12. CASE ExecuteCp0Write
  <2>1. CASE \E written \in Cp0Writes(Sampled) : EndStep(Sequential(written))
    <3>1. PICK written \in Cp0Writes(Sampled) : EndStep(Sequential(written))
      BY <2>1
    <3>2. CASE \E value \in Word : written = WriteCompare(Sampled, value)
      BY <3>1, <3>2
    <3>3. CASE Timer(written) = Timer(Sampled)
      <4>1. written \in Registers
        BY <1>1, Cp0WriteType
      <4>2. Sequential(written) \in Registers /\ Timer(Sequential(written)) = Timer(cpu)
        BY <1>2, <3>3, <4>1, CompletionType, CompletionTimer
      <4>3. QED
        BY <3>1, <4>2
    <3>4. QED
      BY <1>1, <3>2, <3>3, Cp0WriteTimer
  <2>2. CASE \E ie \in BOOLEAN : EndStep(Sequential([Sampled EXCEPT !.Status.IE = ie]))
    <3>1. PICK ie \in BOOLEAN : EndStep(Sequential([Sampled EXCEPT !.Status.IE = ie]))
      BY <2>2
    <3>2. [Sampled EXCEPT !.Status.IE = ie] \in Registers
      BY <1>1 DEF Registers, Status
    <3>3. Timer([Sampled EXCEPT !.Status.IE = ie]) = Timer(Sampled)
      BY <1>1 DEF Timer, Registers
    <3>4. /\ Sequential([Sampled EXCEPT !.Status.IE = ie]) \in Registers
          /\ Timer(Sequential([Sampled EXCEPT !.Status.IE = ie])) = Timer(cpu)
      BY <1>2, <3>2, <3>3, CompletionType, CompletionTimer
    <3>5. QED
      BY <3>1, <3>4
  <2>3. QED
    BY <1>12, <2>1, <2>2 DEF ExecuteCp0Write
<1>13. QED
  BY <1>3, <1>4, <1>5, <1>6, <1>7, <1>8, <1>9, <1>10, <1>11, <1>12 DEF mipsel_emu_step

LEMMA HostTimer ==
  ASSUME CpuTypeOK, Host
  PROVE  \/ Timer(cpu') = Timer(cpu)
         \/ \E value \in Word : cpu' = WriteCompare(cpu, value)
         \/ (ColdReset \/ BoardReset) /\ Latched(cpu')
<1>1. cpu \in Registers
  BY DEF CpuTypeOK
<1>2. CASE UartChanges
  BY <1>2 DEF UartChanges
<1>3. CASE ColdReset
  <2>1. Latched(ScheduleReset(reset_cpu))
    BY DEF ScheduleReset, reset_cpu, Latched
  <2>2. QED
    BY <1>3, <2>1 DEF ColdReset
<1>4. CASE SoftReset
  <2>1. Timer(ScheduleReset(soft_reset_cpu(cpu))) = Timer(cpu)
    BY <1>1 DEF ScheduleReset, soft_reset_cpu, Timer, Registers
  <2>2. QED
    BY <1>4, <2>1 DEF SoftReset
<1>5. CASE BoardReset
  <2>1. Latched(linux_load_reset)
    BY DEF linux_load_reset, reset_cpu, Latched
  <2>2. QED
    BY <1>5, <2>1 DEF BoardReset
<1>6. CASE MonitorSetPc
  <2>1. PICK a \in Targets : cpu' = [cpu EXCEPT !.pc = a, !.next_pc = Plus(a, 4),
                                              !.bds = FALSE, !.exception_pending = FALSE]
    BY <1>6 DEF MonitorSetPc
  <2>2. QED
    BY <1>1, <2>1 DEF Timer, Registers
<1>7. CASE MonitorCp0Write
  BY <1>1, <1>7, Cp0WriteTimer DEF MonitorCp0Write
<1>8. QED
  BY <1>2, <1>3, <1>4, <1>5, <1>6, <1>7 DEF Host

LEMMA NextLatched ==
  ASSUME CpuTypeOK, HardwareLine, TimerLatchVisible, [CpuNext]_cpu_vars
  PROVE  TimerLatchVisible'
<1>1. cpu \in Registers /\ Sampled \in Registers /\ Latched(cpu)
  BY SampleType DEF CpuTypeOK, Sampled, TimerLatchVisible, Latched
<1>2. CASE mipsel_emu_step
  <2>1. CASE \E value \in Word : EndStep(Sequential(WriteCompare(Sampled, value)))
    <3>1. PICK value \in Word : EndStep(Sequential(WriteCompare(Sampled, value)))
      BY <2>1
    <3> DEFINE w == WriteCompare(Sampled, value)
    <3>2. w \in Registers /\ Latched(w)
      BY <1>1, Cp0WriteType, WriteCompareLatched DEF Cp0Writes
    <3> HIDE DEF w
    <3>3. Sequential(w) \in Registers /\ Latched(Sequential(w))
      BY <3>2, CompletionType, CompletionTimer, SameTimer
    <3>4. Latched(update_cycle(Sequential(w)))
      BY <3>3, ClockTimer
    <3>5. cpu' = update_cycle(Sequential(w))
      BY <3>1 DEF EndStep, w
    <3>6. QED
      BY <3>4, <3>5 DEF TimerLatchVisible, Latched
  <2>2. CASE \E s \in Registers : Timer(s) = Timer(cpu) /\ EndStep(s)
    <3>1. PICK s \in Registers : Timer(s) = Timer(cpu) /\ EndStep(s)
      BY <2>2
    <3>2. Latched(update_cycle(s))
      BY <1>1, <3>1, SameTimer, ClockTimer
    <3>3. cpu' = update_cycle(s)
      BY <3>1 DEF EndStep
    <3>4. QED
      BY <3>2, <3>3 DEF TimerLatchVisible, Latched
  <2>3. QED
    BY <1>2, <2>1, <2>2, StepTimer
<1>3. CASE Host
  <2>1. CASE Timer(cpu') = Timer(cpu)
    <3>1. Latched(cpu')
      BY <1>1, <2>1, SameTimer
    <3>2. QED
      BY <3>1 DEF TimerLatchVisible, Latched
  <2>2. CASE \E value \in Word : cpu' = WriteCompare(cpu, value)
    <3>1. Latched(cpu')
      BY <1>1, <2>2, WriteCompareLatched
    <3>2. QED
      BY <3>1 DEF TimerLatchVisible, Latched
  <2>3. CASE Latched(cpu')
    BY <2>3 DEF TimerLatchVisible, Latched
  <2>4. QED
    BY <1>3, <2>1, <2>2, <2>3, HostTimer
<1>4. CASE UNCHANGED cpu_vars
  BY <1>4 DEF TimerLatchVisible, cpu_vars
<1>5. QED
  BY <1>2, <1>3, <1>4 DEF CpuNext

LEMMA InitLatched == CpuInit => TimerLatchVisible
<1>1. Latched(reset_cpu)
  BY DEF reset_cpu, Latched
<1>2. Latched(linux_load_reset)
  BY DEF linux_load_reset, reset_cpu, Latched
<1>3. QED
  BY <1>1, <1>2 DEF CpuInit, TimerLatchVisible, Latched

(* Cause.TI and the pending bit of the timer agree, for every guest, when   *)
(* the UART is not wired to the timer's line.                               *)
THEOREM CpuTimerLatchVisible ==
  ASSUME HardwareLine
  PROVE  CpuSpec => []TimerLatchVisible
<1>1. CpuTypeOK /\ TimerLatchVisible /\ [CpuNext]_cpu_vars => TimerLatchVisible'
  BY NextLatched
<1>2. QED
  BY InitLatched, CpuTypeCorrect, <1>1, PTL DEF CpuSpec

LEMMA NextTimerNotLost ==
  ASSUME CpuTypeOK, HardwareLine, TimerLatchVisible, [CpuNext]_cpu_vars
  PROVE  \/ Held(cpu) => Held(cpu')
         \/ WritesCompare \/ ColdReset \/ BoardReset
<1>1. CASE mipsel_emu_step
  <2>1. CASE \E value \in Word : EndStep(Sequential(WriteCompare(Sampled, value)))
    BY <2>1 DEF WritesCompare
  <2>2. CASE \E s \in Registers : Timer(s) = Timer(cpu) /\ EndStep(s)
    <3>1. PICK s \in Registers : Timer(s) = Timer(cpu) /\ EndStep(s)
      BY <2>2
    <3>2. Held(cpu) => Held(update_cycle(s))
      BY <3>1, SameTimer, ClockTimer
    <3>3. cpu' = update_cycle(s)
      BY <3>1 DEF EndStep
    <3>4. QED
      BY <3>2, <3>3
  <2>3. QED
    BY <1>1, <2>1, <2>2, StepTimer
<1>2. CASE Host
  <2>1. CASE Timer(cpu') = Timer(cpu)
    BY <2>1, SameTimer
  <2>2. CASE \E value \in Word : cpu' = WriteCompare(cpu, value)
    BY <2>2 DEF WritesCompare
  <2>3. QED
    BY <1>2, <2>1, <2>2, HostTimer
<1>3. CASE UNCHANGED cpu_vars
  BY <1>3 DEF cpu_vars
<1>4. QED
  BY <1>1, <1>2, <1>3 DEF CpuNext

(* A timer interrupt that fired is lost only to a write of Compare or to a  *)
(* cold restart, whatever else the guest, the UART and the debugger do.     *)
THEOREM CpuTimerNotLost ==
  ASSUME HardwareLine
  PROVE  CpuSpec => TimerNotLost
<1>1. CpuTypeOK /\ TimerLatchVisible /\ [CpuNext]_cpu_vars =>
        [cpu.TI /\ ~(cpu'.TI /\ TIMER_LINE \in cpu'.IP) =>
           WritesCompare \/ ColdReset \/ BoardReset]_cpu_vars
  <2>1. SUFFICES ASSUME CpuTypeOK, TimerLatchVisible, [CpuNext]_cpu_vars,
                        cpu.TI, ~(cpu'.TI /\ TIMER_LINE \in cpu'.IP)
                 PROVE  WritesCompare \/ ColdReset \/ BoardReset
    OBVIOUS
  <2>2. Held(cpu) /\ ~Held(cpu')
    BY <2>1 DEF Held, TimerLatchVisible
  <2>3. QED
    BY <2>1, <2>2, NextTimerNotLost
<1>2. QED
  BY CpuTypeCorrect, CpuTimerLatchVisible, <1>1, PTL DEF CpuSpec, TimerNotLost

-----------------------------------------------------------------------------
(* User mode.                                                               *)

LEMMA ClockPrivileged ==
  ASSUME NEW s \in Registers
  PROVE  /\ Privileged(update_cycle(s)) = Privileged(s)
         /\ update_cycle(s).Status = s.Status /\ update_cycle(s).pc = s.pc
<1>1. (s.IP \union {TIMER_LINE}) \intersect {0, 1} = s.IP \intersect {0, 1}
  BY DEF TIMER_LINE
<1>2. /\ update_cycle(s).Status = s.Status /\ update_cycle(s).pc = s.pc
      /\ update_cycle(s).IV = s.IV /\ update_cycle(s).BD = s.BD
      /\ update_cycle(s).EPC = s.EPC /\ update_cycle(s).ErrorEPC = s.ErrorEPC
      /\ update_cycle(s).Compare = s.Compare
      /\ update_cycle(s).IP \in {s.IP, s.IP \union {TIMER_LINE}}
  BY DEF update_cycle, Registers
<1>3. QED
  BY <1>1, <1>2 DEF Privileged

LEMMA SamplePrivileged ==
  ASSUME NEW s \in Registers, HardwareLine
  PROVE  /\ Privileged(platform_update_interrupts(s)) = Privileged(s)
         /\ platform_update_interrupts(s).Status = s.Status
<1>1. IRQ_LINE \notin {0, 1}
  BY DEF HardwareLine
<1>2. platform_update_interrupts(s).IP \intersect {0, 1} = s.IP \intersect {0, 1}
  BY <1>1 DEF platform_update_interrupts, Registers
<1>3. QED
  BY <1>2 DEF platform_update_interrupts, Privileged, Registers

LEMMA CompletionPrivileged ==
  ASSUME NEW s \in Registers
  PROVE  /\ Privileged(Sequential(s)) = Privileged(s)
         /\ Privileged(BranchNotTaken(s)) = Privileged(s)
         /\ Privileged(LikelyNotTaken(s)) = Privileged(s)
         /\ Privileged(commit_pending_exception(s)) = Privileged(s)
         /\ \A target \in Targets : Privileged(BranchTaken(s, target)) = Privileged(s)
  BY DEF Sequential, BranchNotTaken, LikelyNotTaken, commit_pending_exception,
         BranchTaken, Privileged, Registers

LEMMA TakeEnters ==
  ASSUME NEW s \in Registers, NEW kind \in VectorKinds
  PROVE  /\ TakeException(s, kind).Status = [s.Status EXCEPT !.EXL = TRUE]
         /\ \E k \in VectorKinds : TakeException(s, kind).pc = Vector[<<s.Status.BEV, k>>]
<1>1. /\ TakeException(s, kind).Status = [s.Status EXCEPT !.EXL = TRUE]
      /\ TakeException(s, kind).pc = VectorOf(s, kind)
  BY DEF TakeException, raise_exception, commit_pending_exception, Registers
<1>2. "general" \in VectorKinds
  BY DEF VectorKinds
<1>3. \E k \in VectorKinds : VectorOf(s, kind) = Vector[<<s.Status.BEV, k>>]
  BY <1>2 DEF VectorOf
<1>4. QED
  BY <1>1, <1>3

(* In user mode a step hands the clock either the privileged state as it    *)
(* was, or the entry of an exception handler.                               *)
Confined(s) ==
  \/ Privileged(s) = Privileged(Sampled)
  \/ /\ s.Status = [cpu.Status EXCEPT !.EXL = TRUE]
     /\ \E kind \in VectorKinds : s.pc = Vector[<<cpu.Status.BEV, kind>>]

LEMMA StepConfined ==
  ASSUME CpuTypeOK, HardwareLine, mipsel_emu_step, UserMode(cpu)
  PROVE  \E s \in Registers : Confined(s) /\ EndStep(s)
<1>1. cpu \in Registers /\ Sampled \in Registers
  BY SampleType DEF CpuTypeOK, Sampled
<1>2. Privileged(Sampled) = Privileged(cpu) /\ Sampled.Status = cpu.Status
  BY <1>1, SamplePrivileged DEF Sampled
<1>3. ~Cop0Usable(cpu)
  BY DEF Cop0Usable, UserMode
<1>4. ASSUME NEW kind \in VectorKinds
      PROVE  Confined(TakeException(Sampled, kind)) /\ TakeException(Sampled, kind) \in Registers
  <2>1. Confined(TakeException(Sampled, kind))
    BY <1>1, <1>2, TakeEnters DEF Confined
  <2>2. QED
    BY <1>1, <2>1, TakeType
<1>5. CASE CommitPending
  BY <1>1, <1>2, <1>5, CommitType, CompletionPrivileged DEF CommitPending, Confined
<1>6. CASE TakeInterrupt
  BY <1>4, <1>6 DEF TakeInterrupt, VectorKinds
<1>7. CASE FetchAddressError
  BY <1>4, <1>7 DEF FetchAddressError, VectorKinds
<1>8. CASE FetchTlbFault
  BY <1>4, <1>8 DEF FetchTlbFault, VectorKinds
<1>9. CASE ExecuteFaulting
  BY <1>4, <1>9 DEF ExecuteFaulting, VectorKinds
<1>10. CASE ExecutePlain
  BY <1>1, <1>10, CompletionType, CompletionPrivileged DEF ExecutePlain, Confined
<1>11. CASE ExecuteBranch
  BY <1>1, <1>11, CompletionType, CompletionPrivileged DEF ExecuteBranch, Confined
<1>12. CASE ExecuteLikely
  BY <1>1, <1>12, CompletionType, CompletionPrivileged DEF ExecuteLikely, Confined
<1>13. ~ExecuteEret /\ ~ExecuteCp0Write
  BY <1>3 DEF ExecuteEret, ExecuteCp0Write
<1>14. QED
  BY <1>5, <1>6, <1>7, <1>8, <1>9, <1>10, <1>11, <1>12, <1>13 DEF mipsel_emu_step

(* User code without CU0 cannot change the privileged state, and leaves     *)
(* user mode only through an exception vector.                              *)
THEOREM CpuUserConfined ==
  ASSUME HardwareLine
  PROVE  CpuSpec => UserConfined
<1>1. CpuTypeOK =>
        [mipsel_emu_step /\ UserMode(cpu) =>
           \/ Privileged(cpu') = Privileged(Sampled)
           \/ /\ cpu'.Status = [cpu.Status EXCEPT !.EXL = TRUE]
              /\ \E kind \in VectorKinds : cpu'.pc = Vector[<<cpu.Status.BEV, kind>>]]_cpu_vars
  <2>1. SUFFICES ASSUME CpuTypeOK, mipsel_emu_step, UserMode(cpu)
                 PROVE  Confined(cpu')!1 \/ Confined(cpu')!2
    BY DEF Confined
  <2>2. PICK s \in Registers : Confined(s) /\ EndStep(s)
    BY <2>1, StepConfined
  <2>3. cpu' = update_cycle(s)
    BY <2>2 DEF EndStep
  <2>4. Privileged(cpu') = Privileged(s) /\ cpu'.Status = s.Status /\ cpu'.pc = s.pc
    BY <2>3, ClockPrivileged
  <2>5. QED
    BY <2>2, <2>4 DEF Confined
<1>2. QED
  BY CpuTypeCorrect, <1>1, PTL DEF CpuSpec, UserConfined

-----------------------------------------------------------------------------
(* The register editor of the debugger.                                     *)

(* A step hands consistent program counters to the clock whatever next_pc   *)
(* was before, so it heals an edit.                                         *)
LEMMA StepHeals ==
  ASSUME CpuTypeOK, mipsel_emu_step
  PROVE  PipelineConsistent'
<1>1. PICK s \in Registers : Consistent(s) /\ EndStep(s)
  BY StepConsistent
<1>2. cpu' = update_cycle(s)
  BY <1>1 DEF EndStep
<1>3. Consistent(update_cycle(s))
  BY <1>1, ClockPipeline, SamePipeline
<1>4. QED
  BY <1>2, <1>3 DEF PipelineConsistent, Consistent

(* The host's other commands either leave the pipeline alone or replace     *)
(* all of it, next_pc included.                                             *)
LEMMA HostKeepsOrReplaces ==
  ASSUME CpuTypeOK, Host
  PROVE  Pipeline(cpu') = Pipeline(cpu) \/ Consistent(cpu')
<1>1. cpu \in Registers
  BY DEF CpuTypeOK
<1>2. CASE UartChanges
  BY <1>2 DEF UartChanges, Pipeline
<1>3. CASE ColdReset
  BY <1>3 DEF ColdReset, ScheduleReset, reset_cpu, Consistent
<1>4. CASE SoftReset
  BY <1>1, <1>4 DEF SoftReset, ScheduleReset, soft_reset_cpu, Consistent, Registers
<1>5. CASE BoardReset
  BY <1>5 DEF BoardReset, linux_load_reset, reset_cpu, Consistent
<1>6. CASE MonitorSetPc
  <2>1. PICK a \in Targets :
          cpu' = [cpu EXCEPT !.pc = a, !.next_pc = Plus(a, 4),
                             !.bds = FALSE, !.exception_pending = FALSE]
    BY <1>6 DEF MonitorSetPc
  <2>2. QED
    BY <1>1, <2>1 DEF Consistent, Registers
<1>7. CASE MonitorCp0Write
  BY <1>1, <1>7, Cp0WritePipeline DEF MonitorCp0Write
<1>8. QED
  BY <1>2, <1>3, <1>4, <1>5, <1>6, <1>7 DEF Host

LEMMA EditType ==
  ASSUME CpuTypeOK, MonitorSetNextPc
  PROVE  CpuTypeOK'
<1>1. PICK a \in Targets : cpu' = [cpu EXCEPT !.next_pc = a]
  BY DEF MonitorSetNextPc
<1>2. a \in Addr
  BY WritesAssumption
<1>3. [cpu EXCEPT !.next_pc = a] \in Registers
  BY <1>2 DEF CpuTypeOK, Registers
<1>4. QED
  BY <1>1, <1>3 DEF MonitorSetNextPc, CpuTypeOK

LEMMA EditHealsStep ==
  ASSUME EditHeals, [EditNext]_edit_vars
  PROVE  EditHeals'
<1>1. CpuTypeOK
  BY DEF EditHeals
<1>2. CASE mipsel_emu_step /\ edited' = FALSE
  <2>1. CpuTypeOK'
    BY <1>1, <1>2, NextType DEF CpuNext
  <2>2. PipelineConsistent'
    BY <1>1, <1>2, StepHeals
  <2>3. QED
    BY <2>1, <2>2 DEF EditHeals
<1>3. CASE HostBetween
  <2>1. Host
    BY <1>3 DEF HostBetween
  <2>2. CpuTypeOK'
    BY <1>1, <2>1, NextType DEF CpuNext
  <2>3. ASSUME ~edited' PROVE Consistent(cpu')
    <3>1. CASE Consistent(cpu')
      BY <3>1
    <3>2. CASE Pipeline(cpu') = Pipeline(cpu)
      <4>1. cpu'.next_pc = cpu.next_pc
        BY <3>2 DEF Pipeline
      <4>2. ~edited
        BY <1>3, <2>3, <4>1 DEF HostBetween
      <4>3. Consistent(cpu)
        BY <4>2 DEF EditHeals, PipelineConsistent, Consistent
      <4>4. QED
        BY <3>2, <4>3, SamePipeline
    <3>3. QED
      BY <1>1, <2>1, <3>1, <3>2, HostKeepsOrReplaces
  <2>4. QED
    BY <2>2, <2>3 DEF EditHeals, PipelineConsistent, Consistent
<1>4. CASE MonitorSetNextPc
  BY <1>1, <1>4, EditType DEF EditHeals, MonitorSetNextPc
<1>5. CASE UNCHANGED edit_vars
  BY <1>5 DEF edit_vars, cpu_vars, EditHeals, CpuTypeOK, PipelineConsistent
<1>6. QED
  BY <1>2, <1>3, <1>4, <1>5 DEF EditNext

(* However often next_pc is edited, and wherever, one step later the two    *)
(* program counters agree.                                                  *)
THEOREM CpuEditHeals == EditSpec => []EditHeals
<1>1. CpuInit /\ edited = FALSE => EditHeals
  BY InitType, InitPipeline DEF EditHeals
<1>2. EditHeals /\ [EditNext]_edit_vars => EditHeals'
  BY EditHealsStep
<1>3. QED
  BY <1>1, <1>2, PTL DEF EditSpec

-----------------------------------------------------------------------------
(* Addresses around the address space.                                      *)

LEMMA PlusFour ==
  ASSUME NEW a \in Addr
  PROVE  Plus(a, 4) = IF a + 4 < ADDR_SPACE THEN a + 4 ELSE a + 4 - ADDR_SPACE
<1>1. CASE a + 4 < ADDR_SPACE
  BY <1>1, AddrAssumption DEF Plus, Addr
<1>2. CASE ~(a + 4 < ADDR_SPACE)
  <2>1. a + 4 - ADDR_SPACE \in 0 .. ADDR_SPACE - 1
    BY <1>2, AddrAssumption DEF Addr
  <2>2. (a + 4) % ADDR_SPACE = a + 4 - ADDR_SPACE
    BY <2>1, AddrAssumption DEF Addr
  <2>3. QED
    BY <1>2, <2>2 DEF Plus
<1>3. QED
  BY <1>1, <1>2

LEMMA MinusFour ==
  ASSUME NEW a \in Addr
  PROVE  Minus(a, 4) = IF a >= 4 THEN a - 4 ELSE a - 4 + ADDR_SPACE
<1>1. CASE a >= 4
  BY <1>1, AddrAssumption DEF Minus, Addr
<1>2. CASE ~(a >= 4)
  <2>1. a - 4 + ADDR_SPACE \in 0 .. ADDR_SPACE - 1
    BY <1>2, AddrAssumption DEF Addr
  <2>2. (a - 4) % ADDR_SPACE = a - 4 + ADDR_SPACE
    BY <1>2, <2>1, AddrAssumption DEF Addr
  <2>3. QED
    BY <1>2, <2>2 DEF Minus
<1>3. QED
  BY <1>1, <1>2

(* The branch before its delay slot, wherever the slot is.                  *)
LEMMA BranchOfSlot ==
  ASSUME NEW a \in Addr
  PROVE  Minus(Plus(a, 4), 4) = a
<1>1. Plus(a, 4) \in Addr
  BY PlusInAddr
<1>2. Minus(Plus(a, 4), 4) = IF Plus(a, 4) >= 4 THEN Plus(a, 4) - 4
                             ELSE Plus(a, 4) - 4 + ADDR_SPACE
  BY <1>1, MinusFour
<1>3. QED
  BY <1>2, PlusFour, AddrAssumption DEF Addr

LEMMA TwoSteps ==
  ASSUME NEW a \in Addr
  PROVE  Plus(Plus(a, 4), 4) = Plus(a, 8)
<1>1. Plus(a, 4) \in Addr
  BY PlusInAddr
<1>2. Plus(Plus(a, 4), 4) = IF Plus(a, 4) + 4 < ADDR_SPACE THEN Plus(a, 4) + 4
                            ELSE Plus(a, 4) + 4 - ADDR_SPACE
  BY <1>1, PlusFour
<1>3. CASE a + 8 < ADDR_SPACE
  <2>1. (a + 8) % ADDR_SPACE = a + 8
    BY <1>3, AddrAssumption DEF Addr
  <2>2. Plus(Plus(a, 4), 4) = a + 8
    BY <1>2, <1>3, PlusFour, AddrAssumption DEF Addr
  <2>3. QED
    BY <2>1, <2>2 DEF Plus
<1>4. CASE a + 8 >= ADDR_SPACE /\ a + 8 < 2 * ADDR_SPACE
  <2>1. (a + 8) % ADDR_SPACE = a + 8 - ADDR_SPACE
    BY <1>4, AddrAssumption DEF Addr
  <2>2. Plus(Plus(a, 4), 4) = a + 8 - ADDR_SPACE
    BY <1>2, <1>4, PlusFour, AddrAssumption DEF Addr
  <2>3. QED
    BY <2>1, <2>2 DEF Plus
<1>5. CASE a + 8 >= 2 * ADDR_SPACE
  <2>1. a + 8 - 2 * ADDR_SPACE \in 0 .. ADDR_SPACE - 1
    BY <1>5, AddrAssumption DEF Addr
  <2>2. (a + 8) % ADDR_SPACE = a + 8 - 2 * ADDR_SPACE
    BY <2>1, AddrAssumption DEF Addr
  <2>3. Plus(Plus(a, 4), 4) = a + 8 - 2 * ADDR_SPACE
    BY <1>2, <1>5, PlusFour, AddrAssumption DEF Addr
  <2>4. QED
    BY <2>2, <2>3 DEF Plus
<1>6. QED
  BY <1>3, <1>4, <1>5, AddrAssumption DEF Addr

-----------------------------------------------------------------------------
(* What PreciseFlow sees of a register file.                                *)

At(s) == IF s.bds THEN Minus(s.pc, 4) ELSE s.pc
Goto(s) == IF s.bds THEN s.next_pc ELSE -1
Level(s) == [exception |-> s.Status.EXL, error |-> s.Status.ERL]
Resumption(s) == <<s.EPC, s.BD, s.ErrorEPC>>

View(s) == <<At(s), Goto(s), Level(s), Resumption(s)>>

LEMMA ViewParts ==
  ASSUME NEW s, NEW t, View(t) = View(s)
  PROVE  /\ At(t) = At(s) /\ Goto(t) = Goto(s) /\ Level(t) = Level(s)
         /\ t.EPC = s.EPC /\ t.BD = s.BD /\ t.ErrorEPC = s.ErrorEPC
  BY DEF View, Resumption

LEMMA ClockView ==
  ASSUME NEW s \in Registers
  PROVE  View(update_cycle(s)) = View(s)
<1>1. /\ update_cycle(s).pc = s.pc /\ update_cycle(s).next_pc = s.next_pc
      /\ update_cycle(s).bds = s.bds /\ update_cycle(s).Status = s.Status
      /\ update_cycle(s).EPC = s.EPC /\ update_cycle(s).BD = s.BD
      /\ update_cycle(s).ErrorEPC = s.ErrorEPC
  BY DEF update_cycle, Registers
<1>2. QED
  BY <1>1 DEF View, At, Goto, Level, Resumption

LEMMA SampleView ==
  ASSUME NEW s \in Registers
  PROVE  /\ View(platform_update_interrupts(s)) = View(s)
         /\ Pipeline(platform_update_interrupts(s)) = Pipeline(s)
<1>1. /\ platform_update_interrupts(s).pc = s.pc
      /\ platform_update_interrupts(s).next_pc = s.next_pc
      /\ platform_update_interrupts(s).bds = s.bds
      /\ platform_update_interrupts(s).exception_pending = s.exception_pending
      /\ platform_update_interrupts(s).Status = s.Status
      /\ platform_update_interrupts(s).EPC = s.EPC
      /\ platform_update_interrupts(s).BD = s.BD
      /\ platform_update_interrupts(s).ErrorEPC = s.ErrorEPC
  BY DEF platform_update_interrupts, Registers
<1>2. QED
  BY <1>1 DEF View, Pipeline, At, Goto, Level, Resumption

LEMMA GotoSlot ==
  ASSUME NEW s \in Registers
  PROVE  /\ s.bds => Goto(s) # -1 /\ Goto(s) = s.next_pc
         /\ ~s.bds => Goto(s) = -1 /\ At(s) = s.pc
  BY DEF Goto, At, Registers, Addr

(* An instruction completes; with its branch, if it was in a slot.          *)
LEMMA SequentialView ==
  ASSUME NEW s \in Registers, s.bds \/ s.next_pc = Plus(s.pc, 4)
  PROVE  /\ At(Sequential(s)) = IF Goto(s) = -1 THEN Plus(At(s), 4) ELSE Goto(s)
         /\ Goto(Sequential(s)) = -1
         /\ Level(Sequential(s)) = Level(s)
         /\ Resumption(Sequential(s)) = Resumption(s)
<1>1. /\ Sequential(s).pc = s.next_pc /\ Sequential(s).bds = FALSE
      /\ Sequential(s).Status = s.Status
      /\ Sequential(s).EPC = s.EPC /\ Sequential(s).BD = s.BD
      /\ Sequential(s).ErrorEPC = s.ErrorEPC
  BY DEF Sequential, Registers
<1>2. At(Sequential(s)) = s.next_pc /\ Goto(Sequential(s)) = -1
  BY <1>1 DEF At, Goto
<1>3. s.next_pc = IF Goto(s) = -1 THEN Plus(At(s), 4) ELSE Goto(s)
  BY GotoSlot
<1>4. QED
  BY <1>1, <1>2, <1>3 DEF Level, Resumption

(* A branch and its slot.                                                   *)
LEMMA BranchView ==
  ASSUME NEW s \in Registers, ~s.bds, s.next_pc = Plus(s.pc, 4)
  PROVE  /\ \A target \in Targets :
              /\ View(BranchTaken(s, target)) = <<At(s), target, Level(s), Resumption(s)>>
         /\ View(BranchNotTaken(s)) = <<At(s), Plus(At(s), 8), Level(s), Resumption(s)>>
<1>1. At(s) = s.pc /\ s.pc \in Addr
  BY GotoSlot DEF Registers
<1>2. Minus(Plus(s.pc, 4), 4) = s.pc /\ Plus(Plus(s.pc, 4), 4) = Plus(s.pc, 8)
  BY <1>1, BranchOfSlot, TwoSteps
<1>3. ASSUME NEW target \in Targets
      PROVE  View(BranchTaken(s, target)) = <<At(s), target, Level(s), Resumption(s)>>
  <2> DEFINE t == BranchTaken(s, target)
  <2>1. /\ t.pc = s.next_pc /\ t.bds = TRUE /\ t.next_pc = target
        /\ t.Status = s.Status
        /\ t.EPC = s.EPC /\ t.BD = s.BD /\ t.ErrorEPC = s.ErrorEPC
    BY DEF BranchTaken, Registers
  <2> HIDE DEF t
  <2>2. At(t) = s.pc /\ Goto(t) = target
    BY <1>2, <2>1 DEF At, Goto
  <2>3. Level(t) = Level(s) /\ Resumption(t) = Resumption(s)
    BY <2>1 DEF Level, Resumption
  <2>4. View(t) = <<At(s), target, Level(s), Resumption(s)>>
    BY <1>1, <2>2, <2>3 DEF View
  <2>5. QED
    BY <2>4 DEF t
<1>4. View(BranchNotTaken(s)) = <<At(s), Plus(At(s), 8), Level(s), Resumption(s)>>
  <2> DEFINE t == BranchNotTaken(s)
  <2>1. /\ t.pc = Plus(s.pc, 4) /\ t.bds = TRUE /\ t.next_pc = Plus(s.next_pc, 4)
        /\ t.Status = s.Status
        /\ t.EPC = s.EPC /\ t.BD = s.BD /\ t.ErrorEPC = s.ErrorEPC
    BY DEF BranchNotTaken, Registers
  <2> HIDE DEF t
  <2>2. At(t) = s.pc /\ Goto(t) = Plus(s.pc, 8)
    BY <1>2, <2>1 DEF At, Goto
  <2>3. Level(t) = Level(s) /\ Resumption(t) = Resumption(s)
    BY <2>1 DEF Level, Resumption
  <2>4. View(t) = <<At(s), Plus(At(s), 8), Level(s), Resumption(s)>>
    BY <1>1, <2>2, <2>3 DEF View
  <2>5. QED
    BY <2>4 DEF t
<1>5. QED
  BY <1>3, <1>4

LEMMA LikelyView ==
  ASSUME NEW s \in Registers, ~s.bds
  PROVE  View(LikelyNotTaken(s)) = <<Plus(At(s), 8), -1, Level(s), Resumption(s)>>
<1> DEFINE t == LikelyNotTaken(s)
<1>1. /\ t.pc = Plus(s.pc, 8) /\ t.bds = FALSE /\ t.Status = s.Status
      /\ t.EPC = s.EPC /\ t.BD = s.BD /\ t.ErrorEPC = s.ErrorEPC
  BY DEF LikelyNotTaken, Sequential, Registers
<1> HIDE DEF t
<1>2. At(t) = Plus(At(s), 8) /\ Goto(t) = -1
  BY <1>1, GotoSlot DEF At, Goto
<1>3. Level(t) = Level(s) /\ Resumption(t) = Resumption(s)
  BY <1>1 DEF Level, Resumption
<1>4. QED
  BY <1>2, <1>3 DEF View, t

LEMMA LevelDrop ==
  ASSUME NEW x \in BOOLEAN, NEW y \in BOOLEAN, NEW b \in BOOLEAN
  PROVE  /\ [[exception |-> x, error |-> y] EXCEPT !.error = b] =
              [exception |-> x, error |-> b]
         /\ [[exception |-> x, error |-> y] EXCEPT !.exception = b] =
              [exception |-> b, error |-> y]
  OBVIOUS

LEMMA EretView ==
  ASSUME NEW s \in Registers, ~s.bds
  PROVE  /\ At(Sequential(op_eret(s))) = IF s.Status.ERL THEN s.ErrorEPC ELSE s.EPC
         /\ Goto(Sequential(op_eret(s))) = -1
         /\ Level(Sequential(op_eret(s))) =
              IF s.Status.ERL THEN [Level(s) EXCEPT !.error = FALSE]
              ELSE [Level(s) EXCEPT !.exception = FALSE]
         /\ Resumption(Sequential(op_eret(s))) = Resumption(s)
<1> DEFINE t == Sequential(op_eret(s))
<1>0. s.Status.EXL \in BOOLEAN /\ s.Status.ERL \in BOOLEAN
  BY DEF Registers, Status
<1>1. /\ t.pc = IF s.Status.ERL THEN s.ErrorEPC ELSE s.EPC
      /\ t.bds = FALSE
      /\ t.EPC = s.EPC /\ t.BD = s.BD /\ t.ErrorEPC = s.ErrorEPC
  BY DEF Sequential, op_eret, Registers
<1>2. t.Status = IF s.Status.ERL THEN [s.Status EXCEPT !.ERL = FALSE]
                 ELSE [s.Status EXCEPT !.EXL = FALSE]
  BY DEF Sequential, op_eret, Registers
<1> HIDE DEF t
<1>3. At(t) = (IF s.Status.ERL THEN s.ErrorEPC ELSE s.EPC) /\ Goto(t) = -1
  BY <1>1 DEF At, Goto
<1>4. Resumption(t) = Resumption(s)
  BY <1>1 DEF Resumption
<1>5. CASE s.Status.ERL
  <2>1. t.Status.ERL = FALSE /\ t.Status.EXL = s.Status.EXL
    BY <1>2, <1>5 DEF Registers, Status
  <2>2. Level(t) = [exception |-> s.Status.EXL, error |-> FALSE]
    BY <2>1, Zenon DEF Level
  <2>3. [Level(s) EXCEPT !.error = FALSE] = [exception |-> s.Status.EXL, error |-> FALSE]
    BY <1>0, LevelDrop, Zenon DEF Level
  <2>4. QED
    BY <1>3, <1>4, <1>5, <2>2, <2>3 DEF t
<1>6. CASE ~s.Status.ERL
  <2>1. t.Status.EXL = FALSE /\ t.Status.ERL = s.Status.ERL
    BY <1>2, <1>6 DEF Registers, Status
  <2>2. Level(t) = [exception |-> FALSE, error |-> s.Status.ERL]
    BY <2>1, Zenon DEF Level
  <2>3. [Level(s) EXCEPT !.exception = FALSE] = [exception |-> FALSE, error |-> s.Status.ERL]
    BY <1>0, LevelDrop, Zenon DEF Level
  <2>4. QED
    BY <1>3, <1>4, <1>6, <2>2, <2>3 DEF t
<1>7. QED
  BY <1>5, <1>6

(* An exception gives up what has not completed.                            *)
LEMMA TakeView ==
  ASSUME NEW s \in Registers, NEW kind \in VectorKinds
  PROVE  LET t == TakeException(s, kind)
         IN  /\ At(t) \in {Vector[v] : v \in BOOLEAN \X VectorKinds}
             /\ Goto(t) = -1
             /\ Level(t) = [Level(s) EXCEPT !.exception = TRUE]
             /\ t.EPC = IF s.Status.EXL THEN s.EPC ELSE At(s)
             /\ t.BD = IF s.Status.EXL THEN s.BD ELSE s.bds
             /\ t.ErrorEPC = s.ErrorEPC
<1> DEFINE t == TakeException(s, kind)
<1>1. /\ t.bds = FALSE
      /\ t.EPC = IF s.Status.EXL THEN s.EPC ELSE exception_resume_pc(s)
      /\ t.BD = IF s.Status.EXL THEN s.BD ELSE s.bds
      /\ t.ErrorEPC = s.ErrorEPC
  BY DEF TakeException, raise_exception, commit_pending_exception, Registers
<1>2. \E k \in VectorKinds : t.pc = Vector[<<s.Status.BEV, k>>]
  BY TakeEnters
<1>3. t.Status = [s.Status EXCEPT !.EXL = TRUE]
  BY TakeEnters
<1>4. s.Status.BEV \in BOOLEAN /\ s.Status.EXL \in BOOLEAN /\ s.Status.ERL \in BOOLEAN
  BY DEF Registers, Status
<1>5. t.Status.EXL = TRUE /\ t.Status.ERL = s.Status.ERL
  BY <1>3 DEF Registers, Status
<1> HIDE DEF t
<1>6. At(t) = t.pc /\ Goto(t) = -1 /\ exception_resume_pc(s) = At(s)
  BY <1>1 DEF At, Goto, exception_resume_pc
<1>7. At(t) \in {Vector[v] : v \in BOOLEAN \X VectorKinds}
  BY <1>2, <1>4, <1>6
<1>8. Level(t) = [exception |-> TRUE, error |-> s.Status.ERL]
  BY <1>5, Zenon DEF Level
<1>9. [Level(s) EXCEPT !.exception = TRUE] = [exception |-> TRUE, error |-> s.Status.ERL]
  BY <1>4, LevelDrop, Zenon DEF Level
<1>10. QED
  BY <1>1, <1>6, <1>7, <1>8, <1>9 DEF t

(* Entering a scheduled reset changes nothing that PreciseFlow sees.        *)
LEMMA CommitView ==
  ASSUME NEW s \in Registers, s.exception_pending, Consistent(s)
  PROVE  View(commit_pending_exception(s)) = View(s)
<1> DEFINE t == commit_pending_exception(s)
<1>1. ~s.bds /\ s.next_pc = s.pc
  BY DEF Consistent
<1>2. /\ t.pc = s.pc /\ t.bds = s.bds /\ t.Status = s.Status
      /\ t.EPC = s.EPC /\ t.BD = s.BD /\ t.ErrorEPC = s.ErrorEPC
  BY <1>1 DEF commit_pending_exception, Registers
<1> HIDE DEF t
<1>3. At(t) = At(s) /\ Goto(t) = Goto(s)
  BY <1>1, <1>2 DEF At, Goto
<1>4. QED
  BY <1>2, <1>3 DEF View, Level, Resumption, t

LEMMA SoftResetView ==
  ASSUME NEW s \in Registers
  PROVE  LET t == ScheduleReset(soft_reset_cpu(s))
         IN  /\ At(t) = RESET_VECTOR /\ Goto(t) = -1
             /\ Level(t) = [Level(s) EXCEPT !.error = TRUE]
             /\ t.EPC = s.EPC /\ t.BD = (s.BD /\ s.Status.EXL) /\ t.ErrorEPC = At(s)
<1> DEFINE t == ScheduleReset(soft_reset_cpu(s))
<1>1. /\ t.pc = RESET_VECTOR /\ t.bds = FALSE
      /\ t.EPC = s.EPC /\ t.ErrorEPC = exception_resume_pc(s)
  BY DEF ScheduleReset, soft_reset_cpu, Registers
<1>2. t.BD = (s.BD /\ s.Status.EXL)
  BY DEF ScheduleReset, soft_reset_cpu, Registers
<1>3. t.Status.ERL = TRUE /\ t.Status.EXL = s.Status.EXL
  BY DEF ScheduleReset, soft_reset_cpu, Registers, Status
<1>4. s.Status.EXL \in BOOLEAN /\ s.Status.ERL \in BOOLEAN
  BY DEF Registers, Status
<1> HIDE DEF t
<1>5. At(t) = RESET_VECTOR /\ Goto(t) = -1 /\ exception_resume_pc(s) = At(s)
  BY <1>1 DEF At, Goto, exception_resume_pc
<1>6. Level(t) = [exception |-> s.Status.EXL, error |-> TRUE]
  BY <1>3, Zenon DEF Level
<1>7. [Level(s) EXCEPT !.error = TRUE] = [exception |-> s.Status.EXL, error |-> TRUE]
  BY <1>4, LevelDrop, Zenon DEF Level
<1>8. QED
  BY <1>1, <1>2, <1>5, <1>6, <1>7 DEF t

LEMMA RestartView ==
  ASSUME NEW s \in {reset_cpu, linux_load_reset, ScheduleReset(reset_cpu)}
  PROVE  /\ At(s) \in Addr /\ Goto(s) = -1
         /\ Level(s) \in [exception : {FALSE}, error : BOOLEAN]
         /\ s.EPC \in Addr /\ s.ErrorEPC \in Addr /\ s.BD = FALSE
<1>1. /\ s.pc \in {RESET_VECTOR, LINUX_ENTRY} /\ s.bds = FALSE /\ s.BD = FALSE
      /\ s.EPC = 0 /\ s.ErrorEPC = 0
      /\ s.Status.EXL = FALSE /\ s.Status.ERL \in BOOLEAN
  <2>1. CASE s = reset_cpu
    BY <2>1 DEF reset_cpu, ResetStatus
  <2>2. CASE s = linux_load_reset
    BY <2>2 DEF reset_cpu, linux_load_reset, ResetStatus
  <2>3. CASE s = ScheduleReset(reset_cpu)
    BY <2>3 DEF reset_cpu, ScheduleReset, ResetStatus
  <2>4. QED
    BY <2>1, <2>2, <2>3
<1>2. At(s) = s.pc /\ Goto(s) = -1
  BY <1>1 DEF At, Goto
<1>3. Level(s) \in [exception : {FALSE}, error : BOOLEAN]
  BY <1>1 DEF Level
<1>4. QED
  BY <1>1, <1>2, <1>3, VectorAssumption, ZeroTyped

(* A CP0 write edits the mode, EPC or ErrorEPC, one at a time.              *)
LEMMA Cp0WriteView ==
  ASSUME NEW s \in Registers, NEW t \in Cp0Writes(s)
  PROVE  /\ At(t) = At(s) /\ Goto(t) = Goto(s) /\ t.BD = s.BD
         /\ \/ t.EPC = s.EPC /\ t.ErrorEPC = s.ErrorEPC
            \/ t.EPC \in Targets /\ Level(t) = Level(s) /\ t.ErrorEPC = s.ErrorEPC
            \/ t.ErrorEPC \in Targets /\ Level(t) = Level(s) /\ t.EPC = s.EPC
<1>1. t.pc = s.pc /\ t.next_pc = s.next_pc /\ t.bds = s.bds
  BY Cp0WritePipeline DEF Pipeline
<1>2. At(t) = At(s) /\ Goto(t) = Goto(s)
  BY <1>1 DEF At, Goto
<1>3. t.BD = s.BD
  BY DEF Cp0Writes, WriteStatus, WriteCause, WriteCompare, WriteCount, WriteEpc,
         WriteErrorEpc, Registers
<1>4. CASE \/ \E value \in StatusWrites : t = WriteStatus(s, value)
           \/ \E value \in CauseWrites : t = WriteCause(s, value)
           \/ \E value \in Word : t = WriteCompare(s, value) \/ t = WriteCount(s, value)
  <2>1. t.EPC = s.EPC /\ t.ErrorEPC = s.ErrorEPC
    BY <1>4 DEF WriteStatus, WriteCause, WriteCompare, WriteCount, Registers
  <2>2. QED
    BY <1>2, <1>3, <2>1
<1>5. CASE \E value \in Targets : t = WriteEpc(s, value)
  <2>1. t.EPC \in Targets /\ t.ErrorEPC = s.ErrorEPC /\ t.Status = s.Status
    BY <1>5 DEF WriteEpc, Registers
  <2>2. QED
    BY <1>2, <1>3, <2>1 DEF Level
<1>6. CASE \E value \in Targets : t = WriteErrorEpc(s, value)
  <2>1. t.ErrorEPC \in Targets /\ t.EPC = s.EPC /\ t.Status = s.Status
    BY <1>6 DEF WriteErrorEpc, Registers
  <2>2. QED
    BY <1>2, <1>3, <2>1 DEF Level
<1>7. QED
  BY <1>4, <1>5, <1>6 DEF Cp0Writes

-----------------------------------------------------------------------------
(* Every step of the processor is a step, or a stutter, of PreciseFlow.     *)

\* What a step hands to the clock, as seen by PreciseFlow.
Same(s) == View(s) = View(cpu)

Completes(s) ==
  /\ At(s) = IF Goto(cpu) = -1 THEN Plus(At(cpu), 4) ELSE Goto(cpu)
  /\ Goto(s) = -1

Edits(s) ==
  /\ s.BD = cpu.BD
  /\ \/ s.EPC = cpu.EPC /\ s.ErrorEPC = cpu.ErrorEPC
     \/ s.EPC \in Targets /\ Level(s) = Level(cpu) /\ s.ErrorEPC = cpu.ErrorEPC
     \/ s.ErrorEPC \in Targets /\ Level(s) = Level(cpu) /\ s.EPC = cpu.EPC

Unedited(s) == Level(s) = Level(cpu) /\ Resumption(s) = Resumption(cpu)

Decides(s) ==
  /\ Goto(cpu) = -1 /\ At(s) = At(cpu)
  /\ Goto(s) \in Targets \union {Plus(At(cpu), 8)}
  /\ Unedited(s)

Skips(s) ==
  Goto(cpu) = -1 /\ At(s) = Plus(At(cpu), 8) /\ Goto(s) = -1 /\ Unedited(s)

Traps(s) ==
  /\ At(s) \in {Vector[v] : v \in BOOLEAN \X VectorKinds}
  /\ Goto(s) = -1
  /\ Level(s) = [Level(cpu) EXCEPT !.exception = TRUE]
  /\ s.EPC = IF cpu.Status.EXL THEN cpu.EPC ELSE At(cpu)
  /\ s.BD = IF cpu.Status.EXL THEN cpu.BD ELSE (Goto(cpu) # -1)
  /\ s.ErrorEPC = cpu.ErrorEPC

Returns(s) ==
  /\ Goto(cpu) = -1 /\ Goto(s) = -1
  /\ At(s) = IF cpu.Status.ERL THEN cpu.ErrorEPC ELSE cpu.EPC
  /\ Level(s) = IF cpu.Status.ERL THEN [Level(cpu) EXCEPT !.error = FALSE]
                ELSE [Level(cpu) EXCEPT !.exception = FALSE]
  /\ Resumption(s) = Resumption(cpu)

Flows(s) ==
  \/ Same(s)
  \/ Completes(s) /\ Edits(s)
  \/ Decides(s)
  \/ Skips(s)
  \/ Traps(s)
  \/ Returns(s)

LEMMA FlowsView ==
  ASSUME NEW s, NEW t, View(t) = View(s), Flows(s)
  PROVE  Flows(t)
<1>1. /\ At(t) = At(s) /\ Goto(t) = Goto(s) /\ Level(t) = Level(s)
      /\ t.EPC = s.EPC /\ t.BD = s.BD /\ t.ErrorEPC = s.ErrorEPC
      /\ Resumption(t) = Resumption(s)
  BY ViewParts DEF View
<1>2. CASE Same(s)
  BY <1>2 DEF Same, Flows
<1>3. CASE Completes(s) /\ Edits(s)
  BY <1>1, <1>3 DEF Completes, Edits, Flows
<1>4. CASE Decides(s)
  BY <1>1, <1>4 DEF Decides, Unedited, Flows
<1>5. CASE Skips(s)
  BY <1>1, <1>5 DEF Skips, Unedited, Flows
<1>6. CASE Traps(s)
  BY <1>1, <1>6 DEF Traps, Flows
<1>7. CASE Returns(s)
  BY <1>1, <1>7 DEF Returns, Flows
<1>8. QED
  BY <1>2, <1>3, <1>4, <1>5, <1>6, <1>7 DEF Flows

LEMMA StepFlows ==
  ASSUME CpuTypeOK, PipelineConsistent, mipsel_emu_step
  PROVE  \E s \in Registers : Flows(s) /\ EndStep(s)
<1>1. cpu \in Registers /\ Sampled \in Registers
  BY SampleType DEF CpuTypeOK, Sampled
<1>2. Consistent(cpu)
  BY DEF PipelineConsistent, Consistent
<1>3. View(Sampled) = View(cpu) /\ Pipeline(Sampled) = Pipeline(cpu)
  BY <1>1, SampleView DEF Sampled
<1>4. /\ At(Sampled) = At(cpu) /\ Goto(Sampled) = Goto(cpu)
      /\ Level(Sampled) = Level(cpu) /\ Resumption(Sampled) = Resumption(cpu)
  BY <1>3 DEF View
<1>5. /\ Sampled.EPC = cpu.EPC /\ Sampled.BD = cpu.BD
      /\ Sampled.ErrorEPC = cpu.ErrorEPC
      /\ Sampled.pc = cpu.pc /\ Sampled.next_pc = cpu.next_pc
      /\ Sampled.bds = cpu.bds /\ Sampled.exception_pending = cpu.exception_pending
  BY <1>3, ViewParts DEF Pipeline
<1>6. Sampled.Status = cpu.Status
  BY <1>1 DEF Sampled, platform_update_interrupts, Registers
<1>7. Fetches => (Sampled.bds \/ Sampled.next_pc = Plus(Sampled.pc, 4))
  BY <1>2, <1>5 DEF Fetches, Consistent
<1>8. ASSUME NEW kind \in VectorKinds
      PROVE  Flows(TakeException(Sampled, kind)) /\ TakeException(Sampled, kind) \in Registers
  <2> DEFINE t == TakeException(Sampled, kind)
  <2>1. /\ At(t) \in {Vector[v] : v \in BOOLEAN \X VectorKinds}
        /\ Goto(t) = -1
        /\ Level(t) = [Level(Sampled) EXCEPT !.exception = TRUE]
        /\ t.EPC = IF Sampled.Status.EXL THEN Sampled.EPC ELSE At(Sampled)
        /\ t.BD = IF Sampled.Status.EXL THEN Sampled.BD ELSE Sampled.bds
        /\ t.ErrorEPC = Sampled.ErrorEPC
    BY <1>1, TakeView
  <2>2. t \in Registers
    BY <1>1, TakeType
  <2> HIDE DEF t
  <2>3. cpu.bds = (Goto(cpu) # -1)
    BY <1>1, GotoSlot DEF Registers
  <2>4. Traps(t)
    BY <1>4, <1>5, <1>6, <2>1, <2>3 DEF Traps
  <2>5. QED
    BY <2>2, <2>4 DEF Flows, t
<1>9. CASE CommitPending
  <2>1. Same(commit_pending_exception(cpu))
    BY <1>1, <1>2, <1>9, CommitView DEF Same, CommitPending
  <2>2. QED
    BY <1>1, <1>9, <2>1, CommitType DEF CommitPending, Flows
<1>10. CASE TakeInterrupt
  BY <1>8, <1>10 DEF TakeInterrupt, VectorKinds
<1>11. CASE FetchAddressError
  BY <1>8, <1>11 DEF FetchAddressError, VectorKinds
<1>12. CASE FetchTlbFault
  BY <1>8, <1>12 DEF FetchTlbFault, VectorKinds
<1>13. CASE ExecuteFaulting
  BY <1>8, <1>13 DEF ExecuteFaulting, VectorKinds
<1>14. ASSUME Executes, NEW t \in Registers, At(t) = At(cpu), Goto(t) = Goto(cpu),
              t.bds \/ t.next_pc = Plus(t.pc, 4), Edits(t)
       PROVE  Flows(Sequential(t)) /\ Sequential(t) \in Registers
  <2>1. /\ At(Sequential(t)) = IF Goto(t) = -1 THEN Plus(At(t), 4) ELSE Goto(t)
        /\ Goto(Sequential(t)) = -1
        /\ Level(Sequential(t)) = Level(t)
        /\ Resumption(Sequential(t)) = Resumption(t)
    BY <1>14, SequentialView
  <2>2. Completes(Sequential(t))
    BY <1>14, <2>1 DEF Completes
  <2>3. /\ Sequential(t).EPC = t.EPC /\ Sequential(t).BD = t.BD
        /\ Sequential(t).ErrorEPC = t.ErrorEPC
    BY <2>1 DEF Resumption
  <2>4. Edits(Sequential(t))
    BY <1>14, <2>1, <2>3 DEF Edits
  <2>5. QED
    BY <1>14, <2>2, <2>4, CompletionType DEF Flows
<1>15. CASE ExecutePlain
  <2>1. Executes /\ EndStep(Sequential(Sampled))
    BY <1>15 DEF ExecutePlain
  <2>2. Edits(Sampled)
    BY <1>5 DEF Edits
  <2>3. Sampled.bds \/ Sampled.next_pc = Plus(Sampled.pc, 4)
    BY <1>7, <2>1 DEF Executes
  <2>4. Flows(Sequential(Sampled)) /\ Sequential(Sampled) \in Registers
    BY <1>1, <1>4, <1>14, <2>1, <2>2, <2>3
  <2>5. QED
    BY <2>1, <2>4
<1>16. Transfers => /\ ~Sampled.bds /\ Sampled.next_pc = Plus(Sampled.pc, 4)
                    /\ Goto(cpu) = -1
  BY <1>1, <1>4, <1>5, <1>7, GotoSlot DEF Transfers, Executes
<1>17. CASE ExecuteBranch
  <2>1. /\ ~Sampled.bds /\ Sampled.next_pc = Plus(Sampled.pc, 4)
        /\ Goto(cpu) = -1
    BY <1>16, <1>17 DEF ExecuteBranch
  <2>2. ASSUME NEW target \in Targets
        PROVE  Flows(BranchTaken(Sampled, target)) /\ BranchTaken(Sampled, target) \in Registers
    <3> DEFINE t == BranchTaken(Sampled, target)
    <3>1. View(t) = <<At(Sampled), target, Level(Sampled), Resumption(Sampled)>>
      BY <1>1, <2>1, BranchView
    <3> HIDE DEF t
    <3>2. Decides(t)
      BY <1>4, <2>1, <3>1 DEF Decides, View, Unedited
    <3>3. QED
      BY <1>1, <3>2, CompletionType DEF Flows, t
  <2>3. Flows(BranchNotTaken(Sampled)) /\ BranchNotTaken(Sampled) \in Registers
    <3> DEFINE t == BranchNotTaken(Sampled)
    <3>1. View(t) = <<At(Sampled), Plus(At(Sampled), 8), Level(Sampled), Resumption(Sampled)>>
      BY <1>1, <2>1, BranchView
    <3> HIDE DEF t
    <3>2. Decides(t)
      BY <1>4, <2>1, <3>1 DEF Decides, View, Unedited
    <3>3. QED
      BY <1>1, <3>2, CompletionType DEF Flows, t
  <2>4. QED
    BY <1>17, <2>2, <2>3 DEF ExecuteBranch
<1>18. CASE ExecuteLikely
  <2>1. ~Sampled.bds /\ Goto(cpu) = -1
    BY <1>16, <1>18 DEF ExecuteLikely
  <2> DEFINE t == LikelyNotTaken(Sampled)
  <2>2. View(t) = <<Plus(At(Sampled), 8), -1, Level(Sampled), Resumption(Sampled)>>
    BY <1>1, <2>1, LikelyView
  <2> HIDE DEF t
  <2>3. Skips(t)
    BY <1>4, <2>1, <2>2 DEF Skips, View, Unedited
  <2>4. QED
    BY <1>1, <1>18, <2>3, CompletionType DEF Flows, t, ExecuteLikely
<1>19. CASE ExecuteEret
  <2>1. ~Sampled.bds /\ Goto(cpu) = -1
    BY <1>16, <1>19 DEF ExecuteEret
  <2> DEFINE t == Sequential(op_eret(Sampled))
  <2>2. /\ At(t) = IF Sampled.Status.ERL THEN Sampled.ErrorEPC ELSE Sampled.EPC
        /\ Goto(t) = -1
        /\ Level(t) = IF Sampled.Status.ERL THEN [Level(Sampled) EXCEPT !.error = FALSE]
                      ELSE [Level(Sampled) EXCEPT !.exception = FALSE]
        /\ Resumption(t) = Resumption(Sampled)
    BY <1>1, <2>1, EretView
  <2>3. t \in Registers
    <3>1. op_eret(Sampled) \in Registers
      BY <1>1, CompletionType
    <3>2. QED
      BY <3>1, CompletionType
  <2> HIDE DEF t
  <2>4. Returns(t)
    BY <1>4, <1>5, <1>6, <2>1, <2>2 DEF Returns
  <2>5. QED
    BY <1>19, <2>3, <2>4 DEF Flows, t, ExecuteEret
<1>20. CASE ExecuteCp0Write
  <2>1. Executes /\ (Sampled.bds \/ Sampled.next_pc = Plus(Sampled.pc, 4))
    BY <1>7, <1>20 DEF ExecuteCp0Write, Executes
  <2>2. CASE \E written \in Cp0Writes(Sampled) : EndStep(Sequential(written))
    <3>1. PICK t \in Cp0Writes(Sampled) : EndStep(Sequential(t))
      BY <2>2
    <3>2. t \in Registers /\ Pipeline(t) = Pipeline(Sampled)
      BY <1>1, Cp0WriteType, Cp0WritePipeline
    <3>3. t.bds \/ t.next_pc = Plus(t.pc, 4)
      BY <2>1, <3>2 DEF Pipeline
    <3>4. At(t) = At(cpu) /\ Goto(t) = Goto(cpu) /\ Edits(t)
      BY <1>1, <1>4, <1>5, Cp0WriteView DEF Edits
    <3>5. Flows(Sequential(t)) /\ Sequential(t) \in Registers
      BY <1>14, <2>1, <3>2, <3>3, <3>4
    <3>6. QED
      BY <3>1, <3>5
  <2>3. CASE \E ie \in BOOLEAN : EndStep(Sequential([Sampled EXCEPT !.Status.IE = ie]))
    <3>1. PICK ie \in BOOLEAN : EndStep(Sequential([Sampled EXCEPT !.Status.IE = ie]))
      BY <2>3
    <3> DEFINE t == [Sampled EXCEPT !.Status.IE = ie]
    <3>2. t \in Registers
      BY <1>1 DEF Registers, Status
    <3>3. /\ t.pc = Sampled.pc /\ t.next_pc = Sampled.next_pc /\ t.bds = Sampled.bds
          /\ t.EPC = Sampled.EPC /\ t.BD = Sampled.BD /\ t.ErrorEPC = Sampled.ErrorEPC
      BY <1>1 DEF Registers
    <3> HIDE DEF t
    <3>4. At(t) = At(cpu) /\ Goto(t) = Goto(cpu) /\ Edits(t)
      BY <1>5, <3>3 DEF At, Goto, Edits
    <3>5. Flows(Sequential(t)) /\ Sequential(t) \in Registers
      BY <1>14, <2>1, <3>2, <3>3, <3>4
    <3>6. QED
      BY <3>1, <3>5 DEF t
  <2>4. QED
    BY <1>20, <2>2, <2>3 DEF ExecuteCp0Write
<1>21. QED
  BY <1>9, <1>10, <1>11, <1>12, <1>13, <1>15, <1>17, <1>18, <1>19, <1>20
  DEF mipsel_emu_step

-----------------------------------------------------------------------------
(* The refinement mapping.                                                  *)

LEMMA FlowsIsFlow ==
  ASSUME CpuTypeOK, Flows(cpu')
  PROVE  [Flow!Next]_(Flow!flow_vars)
<1>1. CASE Same(cpu')
  <2>1. /\ At(cpu') = At(cpu) /\ Goto(cpu') = Goto(cpu) /\ Level(cpu') = Level(cpu)
        /\ cpu'.EPC = cpu.EPC /\ cpu'.BD = cpu.BD /\ cpu'.ErrorEPC = cpu.ErrorEPC
    BY <1>1, ViewParts DEF Same
  <2>2. UNCHANGED Flow!flow_vars
    BY <2>1 DEF Flow!flow_vars, OldestIncomplete, At, Goto, Level
  <2>3. QED
    BY <2>2
<1>2. CASE Completes(cpu') /\ Edits(cpu')
  <2>1. Flow!Complete
    BY <1>2 DEF Completes, Flow!Complete, Flow!Nowhere, Flow!Next4, Plus,
                OldestIncomplete, At, Goto
  <2>2. Flow!Edit
    BY <1>2 DEF Edits, Flow!Edit, Level
  <2>3. QED
    BY <2>1, <2>2 DEF Flow!Next
<1>3. CASE Decides(cpu')
  <2>1. /\ Level(cpu') = Level(cpu)
        /\ cpu'.EPC = cpu.EPC /\ cpu'.BD = cpu.BD /\ cpu'.ErrorEPC = cpu.ErrorEPC
    BY <1>3 DEF Decides, Unedited, Resumption
  <2>2. Flow!Decide
    BY <1>3, <2>1 DEF Decides, Flow!Decide, Flow!Nowhere, Flow!Next4, Plus,
                      OldestIncomplete, At, Goto, Level
  <2>3. QED
    BY <2>2 DEF Flow!Next
<1>4. CASE Skips(cpu')
  <2>1. /\ Level(cpu') = Level(cpu)
        /\ cpu'.EPC = cpu.EPC /\ cpu'.BD = cpu.BD /\ cpu'.ErrorEPC = cpu.ErrorEPC
    BY <1>4 DEF Skips, Unedited, Resumption
  <2>2. Flow!SkipSlot
    BY <1>4, <2>1 DEF Skips, Flow!SkipSlot, Flow!Nowhere, Flow!Next4, Plus,
                      OldestIncomplete, At, Goto, Level
  <2>3. QED
    BY <2>2 DEF Flow!Next
<1>5. CASE Traps(cpu')
  <2>1. Flow!Trap
    BY <1>5 DEF Traps, Flow!Trap, Flow!Nowhere, OldestIncomplete, At, Goto, Level
  <2>2. QED
    BY <2>1 DEF Flow!Next
<1>6. CASE Returns(cpu')
  <2>1. cpu'.EPC = cpu.EPC /\ cpu'.BD = cpu.BD /\ cpu'.ErrorEPC = cpu.ErrorEPC
    BY <1>6 DEF Returns, Resumption
  <2>2. Flow!Return
    BY <1>6, <2>1 DEF Returns, Flow!Return, Flow!Nowhere, OldestIncomplete, At, Goto, Level
  <2>3. QED
    BY <2>2 DEF Flow!Next
<1>7. QED
  BY <1>1, <1>2, <1>3, <1>4, <1>5, <1>6 DEF Flows

LEMMA HostFlow ==
  ASSUME CpuTypeOK, Host
  PROVE  [Flow!Next]_(Flow!flow_vars)
<1>1. cpu \in Registers
  BY DEF CpuTypeOK
<1>2. CASE UartChanges
  <2>1. UNCHANGED Flow!flow_vars
    BY <1>2 DEF UartChanges, Flow!flow_vars, OldestIncomplete
  <2>2. QED
    BY <2>1
<1>3. CASE ColdReset \/ BoardReset
  <2>1. /\ At(cpu') \in Addr /\ Goto(cpu') = -1
        /\ Level(cpu') \in [exception : {FALSE}, error : BOOLEAN]
        /\ cpu'.EPC \in Addr /\ cpu'.ErrorEPC \in Addr /\ cpu'.BD = FALSE
    BY <1>3, RestartView DEF ColdReset, BoardReset
  <2>2. Flow!StartOver
    BY <2>1 DEF Flow!StartOver, Flow!Nowhere, Flow!Here, Addr, OldestIncomplete, At, Goto,
                Level
  <2>3. QED
    BY <2>2 DEF Flow!Next
<1>4. CASE SoftReset
  <2>1. /\ At(cpu') = RESET_VECTOR /\ Goto(cpu') = -1
        /\ Level(cpu') = [Level(cpu) EXCEPT !.error = TRUE]
        /\ cpu'.EPC = cpu.EPC /\ cpu'.BD = (cpu.BD /\ cpu.Status.EXL)
        /\ cpu'.ErrorEPC = At(cpu)
    BY <1>1, <1>4, SoftResetView DEF SoftReset
  <2>2. Flow!SoftReset
    BY <2>1 DEF Flow!SoftReset, Flow!Nowhere, OldestIncomplete, At, Goto, Level
  <2>3. QED
    BY <2>2 DEF Flow!Next
<1>5. CASE MonitorSetPc
  <2>1. PICK a \in Targets : cpu' = [cpu EXCEPT !.pc = a, !.next_pc = Plus(a, 4),
                                              !.bds = FALSE, !.exception_pending = FALSE]
    BY <1>5 DEF MonitorSetPc
  <2>2. /\ cpu'.pc = a /\ cpu'.bds = FALSE /\ cpu'.Status = cpu.Status
        /\ cpu'.EPC = cpu.EPC /\ cpu'.BD = cpu.BD /\ cpu'.ErrorEPC = cpu.ErrorEPC
    BY <1>1, <2>1 DEF Registers
  <2>3. Flow!Move
    BY <2>2 DEF Flow!Move, Flow!Nowhere, OldestIncomplete
  <2>4. QED
    BY <2>3 DEF Flow!Next
<1>6. CASE MonitorCp0Write
  <2>1. /\ At(cpu') = At(cpu) /\ Goto(cpu') = Goto(cpu) /\ Edits(cpu')
    BY <1>1, <1>6, Cp0WriteView DEF MonitorCp0Write, Edits
  <2>2. Flow!Edit
    BY <2>1 DEF Edits, Flow!Edit, Level
  <2>3. OldestIncomplete' = OldestIncomplete
    BY <2>1 DEF OldestIncomplete, At
  <2>4. QED
    BY <2>1, <2>2, <2>3 DEF Flow!Next, Goto
<1>7. QED
  BY <1>2, <1>3, <1>4, <1>5, <1>6 DEF Host

LEMMA InitFlow == CpuInit => Flow!Init
<1>1. SUFFICES ASSUME CpuInit PROVE Flow!Init
  OBVIOUS
<1>2. /\ At(cpu) \in Addr /\ Goto(cpu) = -1
      /\ Level(cpu) \in [exception : {FALSE}, error : BOOLEAN]
      /\ cpu.EPC \in Addr /\ cpu.ErrorEPC \in Addr /\ cpu.BD = FALSE
  BY <1>1, RestartView DEF CpuInit
<1>3. QED
  BY <1>2 DEF Flow!Init, Flow!Nowhere, Flow!Here, Addr, OldestIncomplete, At, Goto, Level

LEMMA NextFlow ==
  ASSUME CpuTypeOK, PipelineConsistent, [CpuNext]_cpu_vars
  PROVE  [Flow!Next]_(Flow!flow_vars)
<1>1. CASE mipsel_emu_step
  <2>1. PICK s \in Registers : Flows(s) /\ EndStep(s)
    BY <1>1, StepFlows
  <2>2. cpu' = update_cycle(s)
    BY <2>1 DEF EndStep
  <2>3. Flows(cpu')
    BY <2>1, <2>2, ClockView, FlowsView
  <2>4. QED
    BY <2>3, FlowsIsFlow
<1>2. CASE Host
  BY <1>2, HostFlow
<1>3. CASE UNCHANGED cpu_vars
  <2>1. UNCHANGED Flow!flow_vars
    BY <1>3 DEF cpu_vars, Flow!flow_vars, OldestIncomplete
  <2>2. QED
    BY <2>1
<1>4. QED
  BY <1>1, <1>2, <1>3 DEF CpuNext

(* The two-register pipeline, with its delay-slot flag and pending resets,  *)
(* implements precise exceptions over delay slots for every guest.          *)
THEOREM CpuRefinesFlow == CpuSpec => CpuImplementsFlow
<1>1. CpuTypeOK /\ PipelineConsistent /\ [CpuNext]_cpu_vars => [Flow!Next]_(Flow!flow_vars)
  BY NextFlow
<1>2. QED
  BY InitFlow, CpuTypeCorrect, CpuPipelineConsistent, <1>1, PTL
  DEF CpuSpec, CpuImplementsFlow, Flow!Spec
=============================================================================

------------------------------- MODULE CpuEdit -------------------------------
(***************************************************************************)
(* The processor of Cpu with the one debugger command that breaks its      *)
(* pipeline: the monitor's "reg next_pc", which sets next_pc and leaves    *)
(* pc, the branch delay slot and a scheduled exception as they are         *)
(* (console.c, set_register()).  It may come at any time between two       *)
(* steps: before a branch, between a branch and its slot, before a         *)
(* scheduled reset, several times.                                         *)
(***************************************************************************)
EXTENDS Cpu

VARIABLE edited     \* ghost: next_pc was set and no step has followed

edit_vars == <<cpu_vars, edited>>

MonitorSetNextPc ==
  /\ \E a \in Targets : cpu' = [cpu EXCEPT !.next_pc = a]
  /\ edited' = TRUE
  /\ UNCHANGED uart_irq

\* "reg pc" and the resets overwrite next_pc; the other commands do not.
HostBetween ==
  /\ Host
  /\ edited' = (edited /\ cpu'.next_pc = cpu.next_pc)

EditNext ==
  \/ mipsel_emu_step /\ edited' = FALSE
  \/ HostBetween
  \/ MonitorSetNextPc

EditSpec == CpuInit /\ edited = FALSE /\ [][EditNext]_edit_vars

(* What the debugger does to next_pc alone lasts for one step: whatever     *)
(* that is, an instruction, a branch taken or not, a fault, an interrupt or *)
(* the entry into a scheduled exception, the two program counters agree     *)
(* behind it, so that the next EPC and the next slot are right again.       *)
EditHeals == CpuTypeOK /\ (~edited => PipelineConsistent)
=============================================================================

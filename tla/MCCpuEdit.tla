----------------------------- MODULE MCCpuEdit -----------------------------
(* The small processors of MCCpu under a debugger that edits next_pc.       *)
EXTENDS MCCpu, CpuEdit
=============================================================================

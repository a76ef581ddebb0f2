------------------------------- MODULE MCCpu -------------------------------
(* Small processors: a handful of program addresses, the vectors at the     *)
(* bottom of the address space.                                             *)
EXTENDS Cpu

VectorMap ==
  [v \in BOOLEAN \X VectorKinds |->
     CASE v[2] = "refill"    -> 0
       [] v[2] = "general"   -> 4 % ADDR_SPACE
       [] v[2] = "interrupt" -> 8 % ADDR_SPACE]

SupervisorStatus ==
  [IE |-> TRUE, EXL |-> FALSE, ERL |-> FALSE, BEV |-> FALSE,
   User |-> FALSE, CU0 |-> FALSE, IM |-> {IRQ_LINE, TIMER_LINE}]

(* For the flow of control: UART interrupts only, handlers may drop EXL.    *)
FlowStatus ==
  {[SupervisorStatus EXCEPT !.IM = {IRQ_LINE}, !.EXL = exl] : exl \in BOOLEAN}

(* For interrupts and modes: user programs with and without CU0.            *)
ModeStatus ==
  {[SupervisorStatus EXCEPT !.User = user, !.CU0 = cu0] : user, cu0 \in BOOLEAN}

TwoCauses == {[IV |-> FALSE, IP |-> {}], [IV |-> TRUE, IP |-> {0}]}

ClockStatus == {SupervisorStatus}
=============================================================================

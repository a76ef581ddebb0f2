------------------------------ MODULE UartMode ------------------------------
(***************************************************************************)
(* What the two rings of the 16550 (uart16550.c) share: the alphabet and   *)
(* FCR bit 0.  With FIFOs disabled a ring holds one byte, as the holding   *)
(* register of a 16450 does; with FIFOs enabled it holds its array size.   *)
(***************************************************************************)
EXTENDS Integers

CONSTANT Bytes            \* the values a data register may carry

ASSUME BytesAssumption == Bytes # {}

VARIABLE fifo_enabled     \* FCR.ENABLE

\* The number of bytes a ring of the given array size accepts.
Capacity(size) == IF fifo_enabled THEN size ELSE 1

\* Every index the code steps is reduced modulo the size of its array.
Wrap(index, size) == index % size
=============================================================================

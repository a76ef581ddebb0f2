---------------------------- MODULE MCUartRings ----------------------------
(***************************************************************************)
(* The UART.  Its two rings share no state but the FIFO mode, so most      *)
(* behaviours exercise one of them and leave the other empty: the state    *)
(* space is a sum instead of a product, and larger rings fit.  The others  *)
(* exercise the whole device through its registers (Uart16550), with one   *)
(* byte value and few bytes, since the order of bytes is the subject of    *)
(* the rings.  The bytes are model values.                                 *)
(*                                                                         *)
(* Two more kinds of behaviour are about the bus that leads to the device: *)
(* a program that stores to memory on both sides of the aperture's edges,  *)
(* and a driver that programs the registers.                               *)
(***************************************************************************)
EXTENDS Uart16550, Bus

\* Bytes that the guest sends, and that wait for it, in the latter.
CONSTANTS MaxRegisterOut, MaxRegisterIn

VARIABLE exercised   \* what this behaviour is about: "rx", "tx", "registers",
                     \* "memory", "driver"

OneByte == CHOOSE b \in Bytes : TRUE

RxParked == RxInit /\ rx_fifo = [s \in Slot |-> OneByte]

TxParked == TxInit /\ tx_fifo = [s \in TxSlot |-> OneByte]

\* A ring that is exercised alone belongs to a driver that has enabled just the
\* transmitter's interrupt.
RingsInit ==
  /\ exercised \in {"rx", "tx", "registers", "memory", "driver"}
  /\ IF exercised = "rx" THEN RxInit ELSE RxParked
  /\ IF exercised = "tx" THEN TxInit ELSE TxParked
  /\ exercised \in {"rx", "memory", "driver"} => tx_callback = FALSE
  /\ dlab = FALSE
  /\ BusInit
  /\ ier = IF exercised = "registers" THEN {} ELSE {"THR_EMPTY"}

FewBytes ==
  /\ rx_fifo' = rx_fifo /\ tx_fifo' = tx_fifo
  /\ Len(out') + tx_count' <= MaxRegisterOut /\ rx_count' <= MaxRegisterIn

\* All bytes differ.  The first has DLAB set; the second has the lines on which
\* a driver tests the loopback.
FirstValue == [i \in 0 .. 3 |-> IF i = 0 THEN 128 + 3 ELSE 17 * i]
SecondValue == [i \in 0 .. 3 |-> IF i = 0 THEN 16 + 8 + 2 ELSE 68 + 17 * i]

Behind == UART_BASE + REGISTER_COUNT * REG_STRIDE

MemoryStores ==
  {s \in ((0 .. UART_BASE - 1) \union {Behind}) \X {1, 2, 4} \X {FirstValue, SecondValue} :
     s[1] % s[2] = 0}

\* Bytes at each register but those that ignore them; words, and the padding.
DriverStores ==
  LET At(places, values) ==
        {<<UART_BASE + p[1], p[2], value>> : p \in places, value \in values}
  IN  At({<<4 * reg, 1>> : reg \in {0, 1, 3, 4, 6, 7}}, {FirstValue, SecondValue})
        \union At({<<0, 4>>, <<12, 4>>, <<1, 1>>, <<14, 2>>}, {FirstValue})

\* A program that has made its stores idles.
Idle == exercised \in {"memory", "driver"} /\ UNCHANGED <<uart_vars, bus_vars>>

RingsNext ==
  /\ UNCHANGED exercised
  /\ \/ /\ exercised = "rx" /\ RxNext
        /\ UNCHANGED <<tx_only, ier, dlab, bus_vars>>
     \/ /\ exercised = "tx" /\ TxNext
        /\ UNCHANGED <<rx_only, ier, dlab, bus_vars>>
     \/ /\ exercised = "registers" /\ UartNext /\ FewBytes
        /\ UNCHANGED bus_vars
     \/ /\ \/ exercised = "memory" /\ Len(log) < MAX_STORES - 1 /\ BusNext(MemoryStores)
           \/ exercised = "driver" /\ BusNext(DriverStores)
        /\ UNCHANGED uart_vars
     \/ Idle

rings_vars == <<exercised, uart_vars, bus_vars>>

RingsSpec == RingsInit /\ [][RingsNext]_rings_vars /\ TxFairness
=============================================================================

----------------------------- MODULE Uart16550 ------------------------------
(***************************************************************************)
(* The whole 16550 model (uart16550.c): both rings, the interrupt enable   *)
(* register, DLAB and the interrupt identification a guest driver sees.    *)
(* One action per guest register access that changes state and per host    *)
(* call.  The registers that only store a value (DLL, DLM, MCR, SCR), the  *)
(* modem status and the decoding of addresses are in Bus.                  *)
(***************************************************************************)
EXTENDS UartRx, UartTx

\* The interrupt sources of IER bits 0..2; the modem status bit enables
\* nothing because the model has no modem inputs.
Sources == {"RX_AVAILABLE", "THR_EMPTY", "LINE_STATUS"}

VARIABLES
  ier,    \* the enabled sources
  dlab    \* LCR.DLAB: offsets 0 and 1 address the divisor latches

uart_vars == <<rx_vars, tx_vars, ier, dlab>>

rx_only == <<rx_ring, overrun, dma>>
tx_only == <<tx_ring, thre_irq_pending, tx_host>>

UartInit == RxInit /\ TxInit /\ ier = {} /\ dlab = FALSE

\* The interrupt identification, highest priority first.
Iir ==
  IF "LINE_STATUS" \in ier /\ overrun THEN "LINE_STATUS"
  ELSE IF "RX_AVAILABLE" \in ier /\ rx_count # 0 THEN "RX_AVAILABLE"
  ELSE IF "THR_EMPTY" \in ier /\ thre_irq_pending THEN "THR_EMPTY"
  ELSE "NO_PENDING"

IrqPending == Iir # "NO_PENDING"

-----------------------------------------------------------------------------
(* Guest register accesses.                                                *)

ReadRbr ==
  ~draining /\ ~dlab /\ RxPop /\ UNCHANGED <<tx_only, ier, dlab>>

WriteThr(b) ==
  /\ ~dlab
  /\ PushTx(b) \/ PushTxAndDrain(b)
  /\ UNCHANGED <<rx_only, ier, dlab>>

\* Mutant: any IIR read acknowledges the transmitter.
ReadIir_AlwaysAcknowledges ==
  /\ Iir # "NO_PENDING"
  /\ AcknowledgeThre
  /\ UNCHANGED <<rx_only, ier, dlab>>

\* Mutant: reading IIR reports the transmitter and leaves its request up.
ReadIir_ReportsOnly == Iir = "THR_EMPTY" /\ ~draining /\ UNCHANGED uart_vars

\* Reading IIR acknowledges the transmitter only when that is what it reports.
ReadIir ==
  /\ Iir = "THR_EMPTY"
  /\ AcknowledgeThre
  /\ UNCHANGED <<rx_only, ier, dlab>>

ReadLsr == ~draining /\ RxReadLsr /\ UNCHANGED <<tx_only, ier, dlab>>

\* A 0-to-1 change of the THRE enable re-raises it if the ring is empty.
WriteIer(enabled) ==
  /\ ~dlab
  /\ ier' = enabled
  /\ IF "THR_EMPTY" \in enabled \ ier /\ tx_count = 0
     THEN RearmThre
     ELSE ~draining /\ UNCHANGED <<tx_only, fifo_enabled>>
  /\ UNCHANGED <<rx_only, dlab>>

\* Mutant: a mode switch reaches the receiver only.
WriteFcr_ReceiverOnly(enable, clear_rx, clear_tx) ==
  /\ ~draining
  /\ RxWriteFcr(enable, clear_rx)
  /\ IF clear_tx THEN ClearTxFifo /\ thre_irq_pending' = TRUE
     ELSE UNCHANGED <<tx_head, tx_count, tx_peeked, thre_irq_pending>>
  /\ UNCHANGED <<tx_fifo, tx_host, ier, dlab>>

WriteFcr(enable, clear_rx, clear_tx) ==
  /\ RxWriteFcr(enable, clear_rx)
  /\ TxWriteFcr(enable, clear_tx)
  /\ UNCHANGED <<ier, dlab>>

WriteLcr(latch) ==
  /\ ~draining
  /\ dlab' = latch
  /\ UNCHANGED <<rx_only, tx_only, fifo_enabled, ier>>

\* uart16550_reset(): every register and both rings, not the callback.
UartReset == RxReset /\ TxReset /\ ier' = {} /\ dlab' = FALSE

-----------------------------------------------------------------------------
\* Calls of the host program; the two directions are independent of each
\* other, and either may be used from within the transmit callback.
HostReceive == RxHost /\ UNCHANGED <<tx_only, ier, dlab>>

HostTransmit == TxHost /\ UNCHANGED <<rx_only, ier, dlab>>

Guest ==
  \/ ReadRbr
  \/ \E b \in Bytes : WriteThr(b)
  \/ ReadIir
  \/ ReadLsr
  \/ \E enabled \in SUBSET Sources : WriteIer(enabled)
  \/ \E enable, clear_rx, clear_tx \in BOOLEAN : WriteFcr(enable, clear_rx, clear_tx)
  \/ \E latch \in BOOLEAN : WriteLcr(latch)

UartNext == Guest \/ UartReset \/ HostReceive \/ HostTransmit

UartSpec == UartInit /\ [][UartNext]_uart_vars

-----------------------------------------------------------------------------
UartTypeOK ==
  /\ RxTypeOK /\ TxTypeOK
  /\ ier \subseteq Sources
  /\ dlab \in BOOLEAN

(* A latched transmitter interrupt is withdrawn only when the guest gives   *)
(* the transmitter a byte or reads it from IIR; reading IIR for another     *)
(* cause (uart16550_iir() reports one cause at a time) must not lose it.    *)
ThreNotStolen ==
  [][thre_irq_pending /\ ~thre_irq_pending' =>
       tx_count' > tx_count \/ Iir = "THR_EMPTY"]_uart_vars

(* A driver that masks the transmitter interrupt while idle and enables it  *)
(* to start sending is interrupted at once if there is room to send into.   *)
UnmaskingIdleInterrupts ==
  [][("THR_EMPTY" \in ier' \ ier) /\ tx_count = 0 => IrqPending']_uart_vars

(* Only the guest takes an interrupt request back: nothing the host does on *)
(* either direction, callbacks included, withdraws a request that the CPU   *)
(* may be about to accept.                                                  *)
HostNeverWithdraws ==
  [][HostReceive \/ HostTransmit => (IrqPending => IrqPending')]_uart_vars

(* What each ring promises to those who use it: a completion of a span that *)
(* is no longer lent changes nothing, an overrun means a full ring, lent    *)
(* bytes stay put, and however the transmitter is emptied the guest hears   *)
(* of it.                                                                   *)
PromisesKept == RxPromisesKept /\ TxPromisesKept

(* An interrupt request reaches the guest it is for: the transmitter's is   *)
(* neither consumed by another cause nor missed by a late enable, and the   *)
(* host withdraws none.                                                     *)
RequestsKept == ThreNotStolen /\ UnmaskingIdleInterrupts /\ HostNeverWithdraws

-----------------------------------------------------------------------------
\* A driver's handler: it asks IIR for the cause and answers that one.
AnswerInterrupt ==
  \/ Iir = "LINE_STATUS" /\ ReadLsr
  \/ Iir = "RX_AVAILABLE" /\ ReadRbr
  \/ ReadIir

(* The request is a level, and a handler returns when it is down.  A driver *)
(* that keeps answering the reported cause, with DLAB clear, gets out of    *)
(* its handler for good once no more input arrives: whichever causes stand  *)
(* together, whatever hides what, and although the host goes on taking      *)
(* bytes meanwhile, which raises a cause anew when the last one is gone.    *)
HandlerReturns ==
  /\ WF_uart_vars(AnswerInterrupt)
  /\ <>[][AnswerInterrupt \/ HostTransmit]_uart_vars
  /\ <>[]~dlab
  => <>[]~IrqPending

\* What is left to answer: waiting bytes, an error, and the transmitter, which
\* is empty and says so or will be and say so.
One(cause) == IF cause THEN 1 ELSE 0

Work == rx_count + One(overrun) + One(thre_irq_pending \/ tx_count # 0)

(* Why a handler returns: each answer leaves exactly one thing less, in the *)
(* order of the causes that IIR reports, and nothing the host does about    *)
(* the transmitter, callbacks included, adds to them.                       *)
WorkFalls ==
  [][/\ AnswerInterrupt => Work' = Work - 1
     /\ HostTransmit => Work' <= Work]_uart_vars
=============================================================================

------------------------------- MODULE UartRx -------------------------------
(***************************************************************************)
(* The receive ring of the 16550 model (uart16550.c).  The guest pops      *)
(* bytes through RBR while the host either pushes single bytes or, as a    *)
(* DMA engine would, reserves a contiguous span of the ring, fills it      *)
(* through the returned pointer and publishes a prefix of it later.  Guest *)
(* accesses happen between the reservation and its completion, and one of  *)
(* them may be a FIFO reset.                                               *)
(*                                                                         *)
(* The host obeys the contract stated in uart16550.h: one producer, no     *)
(* rx_push() while a span is outstanding, and no DMA into a span that a    *)
(* reset has invalidated.  It is not told about the reset: its completion  *)
(* call may still arrive.                                                  *)
(***************************************************************************)
EXTENDS UartMode

CONSTANT RX_FIFO_SIZE

ASSUME RxSizeAssumption == RX_FIFO_SIZE \in Nat \ {0}

VARIABLES
  rx_fifo,      \* the ring's array
  rx_head,      \* index of the oldest unread byte
  rx_count,     \* unread bytes
  rx_reserved,  \* length of the span lent to the host, 0 for none
  overrun,      \* LSR bit 1, the only line-status error the model raises
  dma           \* the span the host believes it holds: [start, len]

rx_ring == <<rx_fifo, rx_head, rx_count, rx_reserved>>
rx_vars == <<rx_ring, overrun, dma, fifo_enabled>>

Slot == 0 .. RX_FIFO_SIZE - 1
NoSpan == [start |-> 0, len |-> 0]

\* The array is not cleared by init or reset, so it starts arbitrary.
RxInit ==
  /\ rx_fifo \in [Slot -> Bytes]
  /\ rx_head = 0 /\ rx_count = 0 /\ rx_reserved = 0
  /\ overrun = FALSE
  /\ dma = NoSpan
  /\ fifo_enabled = FALSE

RxTail == Wrap(rx_head + rx_count, RX_FIFO_SIZE)

RxCapacity == Capacity(RX_FIFO_SIZE)

-----------------------------------------------------------------------------
(* The host side.                                                          *)

\* Mutant: the span runs past the end of the array.
ReservableSpan_NoWrapLimit ==
  IF rx_reserved # 0 THEN 0 ELSE RxCapacity - rx_count

\* What uart16550_rx_reserve() would lend: the contiguous free run at the
\* tail, or nothing while a span is already out.
ReservableSpan ==
  LET available  == RxCapacity - rx_count
      contiguous == RX_FIFO_SIZE - RxTail
  IN  IF rx_reserved # 0 THEN 0
      ELSE IF contiguous > available THEN available ELSE contiguous

RxReserve ==
  /\ dma.len = 0
  /\ ReservableSpan > 0
  /\ rx_reserved' = ReservableSpan
  /\ dma' = [start |-> RxTail, len |-> ReservableSpan]
  /\ UNCHANGED <<rx_fifo, rx_head, rx_count, overrun, fifo_enabled>>

\* The host stores a byte through the pointer it was given.  It does so only
\* while the device still honours the span.
DmaWrite(i, b) ==
  /\ rx_reserved # 0
  /\ i < dma.len
  /\ rx_fifo' = [rx_fifo EXCEPT ![dma.start + i] = b]
  /\ UNCHANGED <<rx_head, rx_count, rx_reserved, overrun, dma, fifo_enabled>>

\* Mutant: the completion trusts the caller's idea of the span.
RxProduce_AnyLength(length) ==
  /\ dma.len # 0
  /\ IF length > dma.len
     THEN UNCHANGED <<rx_count, rx_reserved, dma>>
     ELSE /\ rx_count' = rx_count + length
          /\ rx_reserved' = 0
          /\ dma' = NoSpan
  /\ UNCHANGED <<rx_fifo, rx_head, overrun, fifo_enabled>>

\* Mutant: the completion sets the count instead of adding to it.
RxProduce_SetsCount(length) ==
  /\ dma.len # 0
  /\ length <= rx_reserved
  /\ rx_count' = length
  /\ rx_reserved' = 0
  /\ dma' = NoSpan
  /\ UNCHANGED <<rx_fifo, rx_head, overrun, fifo_enabled>>

\* uart16550_rx_produce(): length 0 cancels, a length that is not covered by
\* the device's own record of the span is refused.  A host whose span has
\* been invalidated gives it up on the refusal; one that merely asked for too
\* much still holds it.
RxProduce(length) ==
  /\ dma.len # 0
  /\ IF length > rx_reserved
     THEN /\ UNCHANGED <<rx_count, rx_reserved>>
          /\ dma' = IF rx_reserved = 0 THEN NoSpan ELSE dma
     ELSE /\ rx_count' = rx_count + length
          /\ rx_reserved' = 0
          /\ dma' = NoSpan
  /\ UNCHANGED <<rx_fifo, rx_head, overrun, fifo_enabled>>

\* uart16550_rx_push(): reserve, store one byte, produce(1); a push that finds
\* no room is an overrun.  rx_push_bytes() repeats it up to the first refusal.
RxPush(b) ==
  /\ dma.len = 0
  /\ IF ReservableSpan = 0
     THEN /\ overrun' = TRUE
          /\ UNCHANGED <<rx_fifo, rx_count>>
     ELSE /\ rx_fifo' = [rx_fifo EXCEPT ![RxTail] = b]
          /\ rx_count' = rx_count + 1
          /\ UNCHANGED overrun
  /\ UNCHANGED <<rx_head, rx_reserved, dma, fifo_enabled>>

-----------------------------------------------------------------------------
(* The guest side.                                                         *)

\* A read of RBR.  On an empty ring it returns 0 and changes nothing.
RxPop ==
  /\ rx_count # 0
  /\ rx_head' = Wrap(rx_head + 1, RX_FIFO_SIZE)
  /\ rx_count' = rx_count - 1
  /\ UNCHANGED <<rx_fifo, rx_reserved, overrun, dma, fifo_enabled>>

\* A read of LSR acknowledges the errors it reports.
RxReadLsr ==
  /\ overrun' = FALSE
  /\ UNCHANGED <<rx_ring, dma, fifo_enabled>>

\* Mutant: a FIFO reset leaves the reservation standing.
ClearRxFifo_KeepsSpan == rx_head' = 0 /\ rx_count' = 0 /\ UNCHANGED rx_reserved

ClearRxFifo == rx_head' = 0 /\ rx_count' = 0 /\ rx_reserved' = 0

\* Mutant: a mode switch does not empty the ring.
RxWriteFcr_ClearBitOnly(enable, clear) ==
  /\ fifo_enabled' = enable
  /\ IF clear
     THEN ClearRxFifo /\ overrun' = FALSE
     ELSE UNCHANGED <<rx_head, rx_count, rx_reserved, overrun>>
  /\ UNCHANGED <<rx_fifo, dma>>

\* The receive half of write_fcr(): toggling FCR.ENABLE or setting CLEAR_RX
\* empties the ring, forgets the span and drops a pending error.
RxWriteFcr(enable, clear) ==
  /\ fifo_enabled' = enable
  /\ IF enable # fifo_enabled \/ clear
     THEN ClearRxFifo /\ overrun' = FALSE
     ELSE UNCHANGED <<rx_head, rx_count, rx_reserved, overrun>>
  /\ UNCHANGED <<rx_fifo, dma>>

\* The receive half of uart16550_reset().
RxReset ==
  /\ fifo_enabled' = FALSE
  /\ overrun' = FALSE
  /\ ClearRxFifo
  /\ UNCHANGED <<rx_fifo, dma>>

-----------------------------------------------------------------------------
RxHost ==
  \/ RxReserve
  \/ \E i \in Slot, b \in Bytes : DmaWrite(i, b)
  \/ \E length \in 0 .. RX_FIFO_SIZE : RxProduce(length)
  \/ \E b \in Bytes : RxPush(b)

RxGuest ==
  \/ RxPop
  \/ RxReadLsr
  \/ \E enable, clear \in BOOLEAN : RxWriteFcr(enable, clear)
  \/ RxReset

RxNext == RxHost \/ RxGuest

RxSpec == RxInit /\ [][RxNext]_rx_vars

-----------------------------------------------------------------------------
(* The fields hold what their C types and the host interface allow.        *)
RxTypeOK ==
  /\ fifo_enabled \in BOOLEAN
  /\ rx_fifo \in [Slot -> Bytes]
  /\ rx_head \in Slot
  /\ rx_count \in 0 .. RX_FIFO_SIZE
  /\ rx_reserved \in 0 .. RX_FIFO_SIZE
  /\ overrun \in BOOLEAN
  /\ dma \in [start : Slot, len : 0 .. RX_FIFO_SIZE]

(* The ring never promises more than it has: unread and lent bytes together *)
(* fit the capacity of the current FIFO mode, also across mode switches     *)
(* (rx_reserve() subtracts unsigned counts on the strength of this).        *)
RxNeverOvercommitted == rx_count + rx_reserved <= RxCapacity

(* A span the device still honours is the one the host holds: its pointer   *)
(* is at the ring's tail however many bytes the guest has popped since, and *)
(* it does not run past the array.                                          *)
RxSpanIsTail ==
  rx_reserved # 0 =>
    /\ dma.len = rx_reserved
    /\ dma.start = RxTail
    /\ dma.start + dma.len <= RX_FIFO_SIZE

(* The cells of the host's live span are disjoint from the unread bytes, so *)
(* DMA cannot change a byte the guest has been promised.                    *)
UnreadSlots == {Wrap(rx_head + k, RX_FIFO_SIZE) : k \in 0 .. rx_count - 1}

RxSpanDisjoint ==
  rx_reserved # 0 => UnreadSlots \cap (dma.start .. dma.start + dma.len - 1) = {}

(* A completion that arrives after a FIFO reset or a UART reset publishes   *)
(* nothing: with no span on record the unread count never grows while the   *)
(* host still has the old one.                                              *)
RxStaleSpanRefused ==
  [][rx_reserved = 0 /\ dma.len # 0 => rx_count' <= rx_count]_rx_vars

(* A host that keeps to the contract loses a byte only to a full ring: OE   *)
(* is never raised by an outstanding reservation or by the end of the array.*)
RxOverrunOnlyWhenFull ==
  [][~overrun /\ overrun' => rx_count = RxCapacity]_rx_vars

(* In every state the receive ring is well formed and keeps its promises    *)
(* within its capacity, and the span it lent out is the one the host holds, *)
(* clear of the unread bytes.                                               *)
RxRingSafe == RxTypeOK /\ RxNeverOvercommitted /\ RxSpanIsTail /\ RxSpanDisjoint

(* What the ring does to a host that keeps the contract of uart16550.h: a   *)
(* late completion publishes nothing, and only a full ring loses a byte.    *)
RxPromisesKept == RxStaleSpanRefused /\ RxOverrunOnlyWhenFull

(* The unread bytes, oldest first.                                          *)
RxQueue == [k \in 1 .. rx_count |-> rx_fifo[Wrap(rx_head + k - 1, RX_FIFO_SIZE)]]

(* The ring implements a bounded byte queue that reports what it drops.     *)
Queue == INSTANCE ByteQueue WITH
           Size <- RX_FIFO_SIZE, q <- RxQueue, wide <- fifo_enabled, lost <- overrun

RxImplementsQueue == Queue!Spec
=============================================================================

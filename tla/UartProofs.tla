----------------------------- MODULE UartProofs -----------------------------
(***************************************************************************)
(* The receive ring, the transmit ring and the whole 16550, for every size *)
(* of the rings and every alphabet: the invariants of each ring, that they *)
(* implement the bounded queue and the byte stream, and that the composed  *)
(* device keeps what each ring and the interrupt identification promise;   *)
(* and the bus in front of the device, for every program and every place   *)
(* of the windows.                                                         *)
(***************************************************************************)
EXTENDS Uart16550, Bus, UartRx, SequenceTheorems, FiniteSetTheorems, NaturalsInduction,
        WellFoundedInduction, TLAPS

-----------------------------------------------------------------------------
(* The receive ring.                                                       *)

(* Reducing an index that has passed the end of the array at most once.     *)
LEMMA WrapStep ==
  ASSUME NEW N \in Nat \ {0}, NEW i \in Nat, i < 2 * N
  PROVE  Wrap(i, N) = IF i < N THEN i ELSE i - N
  BY DEF Wrap

LEMMA WrapSum ==
  ASSUME NEW N \in Nat \ {0}, NEW head \in 0 .. N - 1, NEW count \in 0 .. N
  PROVE  Wrap(head + count, N) =
           IF head + count < N THEN head + count ELSE head + count - N
  BY WrapStep

(* s holds the n bytes of a ring array from head on.                        *)
IsRing(s, fifo, head, n, N) ==
  /\ s \in Seq(Bytes) /\ Len(s) = n
  /\ \A k \in 1 .. n : s[k] = fifo[Wrap(head + k - 1, N)]

LEMMA RingCell ==
  ASSUME NEW N \in Nat \ {0}, NEW head \in 0 .. N - 1, NEW k \in 1 .. N
  PROVE  /\ Wrap(head + k - 1, N) \in 0 .. N - 1
         /\ Wrap(head + k - 1, N) =
              IF head + k - 1 < N THEN head + k - 1 ELSE head + k - 1 - N
  BY WrapStep

LEMMA RingIsSeq ==
  ASSUME NEW N \in Nat \ {0}, NEW fifo \in [0 .. N - 1 -> Bytes],
         NEW head \in 0 .. N - 1, NEW n \in 0 .. N
  PROVE  IsRing([k \in 1 .. n |-> fifo[Wrap(head + k - 1, N)]], fifo, head, n, N)
<1>1. \A k \in 1 .. n : Wrap(head + k - 1, N) \in 0 .. N - 1
  BY RingCell
<1>2. [k \in 1 .. n |-> fifo[Wrap(head + k - 1, N)]] \in [1 .. n -> Bytes]
  BY <1>1
<1>3. n \in Nat
  OBVIOUS
<1> DEFINE s == [k \in 1 .. n |-> fifo[Wrap(head + k - 1, N)]]
<1>4. \A k \in 1 .. n : s[k] = fifo[Wrap(head + k - 1, N)]
  OBVIOUS
<1>5. s \in [1 .. n -> Bytes]
  BY <1>2
<1> HIDE DEF s
<1>6. s \in Seq(Bytes) /\ Len(s) = n
  BY <1>5, <1>3
<1>7. IsRing(s, fifo, head, n, N)
  BY <1>4, <1>6 DEF IsRing
<1>8. QED
  BY <1>7 DEF s

LEMMA RingUnique ==
  ASSUME NEW N, NEW fifo, NEW head, NEW n,
         NEW s, IsRing(s, fifo, head, n, N), NEW t, IsRing(t, fifo, head, n, N)
  PROVE  s = t
  BY SeqEqual DEF IsRing

LEMMA RingPut ==
  ASSUME NEW N \in Nat \ {0}, NEW fifo \in [0 .. N - 1 -> Bytes],
         NEW head \in 0 .. N - 1, NEW n \in 0 .. N - 1, NEW b \in Bytes,
         NEW s, IsRing(s, fifo, head, n, N)
  PROVE  IsRing(Append(s, b), [fifo EXCEPT ![Wrap(head + n, N)] = b], head, n + 1, N)
<1> DEFINE after == [fifo EXCEPT ![Wrap(head + n, N)] = b]
<1>1. /\ Append(s, b) \in Seq(Bytes) /\ Len(Append(s, b)) = n + 1
      /\ \A k \in 1 .. n : Append(s, b)[k] = s[k]
      /\ Append(s, b)[n + 1] = b
  BY AppendProperties DEF IsRing
<1>2. /\ Wrap(head + n, N) \in 0 .. N - 1
      /\ Wrap(head + n, N) = IF head + n < N THEN head + n ELSE head + n - N
  BY WrapStep
<1>3. ASSUME NEW k \in 1 .. n + 1
      PROVE  Append(s, b)[k] = after[Wrap(head + k - 1, N)]
  <2>1. k \in 1 .. N
    OBVIOUS
  <2>2. /\ Wrap(head + k - 1, N) \in 0 .. N - 1
        /\ Wrap(head + k - 1, N) =
              IF head + k - 1 < N THEN head + k - 1 ELSE head + k - 1 - N
    BY <2>1, RingCell
  <2>3. CASE k = n + 1
    <3>1. Wrap(head + k - 1, N) = Wrap(head + n, N)
      BY <2>3
    <3>2. after[Wrap(head + n, N)] = b
      BY <1>2
    <3>3. QED
      BY <3>1, <3>2, <2>3, <1>1
  <2>4. CASE k \in 1 .. n
    <3>1. Wrap(head + k - 1, N) # Wrap(head + n, N)
      BY <1>2, <2>2, <2>4
    <3>2. after[Wrap(head + k - 1, N)] = fifo[Wrap(head + k - 1, N)]
      BY <3>1, <2>2
    <3>3. s[k] = fifo[Wrap(head + k - 1, N)]
      BY <2>4 DEF IsRing
    <3>4. Append(s, b)[k] = s[k]
      BY <2>4, <1>1
    <3>5. QED
      BY <3>2, <3>3, <3>4
  <2>5. k = n + 1 \/ k \in 1 .. n
    OBVIOUS
  <2>6. QED
    BY <2>3, <2>4, <2>5
<1>4. QED
  BY <1>1, <1>3 DEF IsRing

LEMMA RingDrop ==
  ASSUME NEW N \in Nat \ {0}, NEW fifo \in [0 .. N - 1 -> Bytes],
         NEW head \in 0 .. N - 1, NEW n \in 0 .. N, NEW m \in 0 .. n,
         NEW s, IsRing(s, fifo, head, n, N)
  PROVE  IsRing(SubSeq(s, m + 1, n), fifo, Wrap(head + m, N), n - m, N)
<1>1. /\ Wrap(head + m, N) \in 0 .. N - 1
      /\ Wrap(head + m, N) = IF head + m < N THEN head + m ELSE head + m - N
  BY WrapStep
<1>2. /\ SubSeq(s, m + 1, n) \in Seq(Bytes)
      /\ Len(SubSeq(s, m + 1, n)) = n - m
      /\ \A k \in 1 .. n - m : SubSeq(s, m + 1, n)[k] = s[m + k]
  <2>1. \A k \in m + 1 .. n : s[k] \in Bytes
    BY ElementOfSeq DEF IsRing
  <2>2. m + 1 \in Int /\ n \in Int
    OBVIOUS
  <2>3. /\ SubSeq(s, m + 1, n) \in Seq(Bytes)
        /\ Len(SubSeq(s, m + 1, n)) = IF m + 1 <= n THEN n - (m + 1) + 1 ELSE 0
        /\ \A k \in 1 .. n - (m + 1) + 1 : SubSeq(s, m + 1, n)[k] = s[m + 1 + k - 1]
    BY <2>1, <2>2, SubSeqProperties
  <2>4. (IF m + 1 <= n THEN n - (m + 1) + 1 ELSE 0) = n - m /\ n - (m + 1) + 1 = n - m
    OBVIOUS
  <2>5. ASSUME NEW k \in 1 .. n - m PROVE SubSeq(s, m + 1, n)[k] = s[m + k]
    <3>1. m + 1 + k - 1 = m + k
      OBVIOUS
    <3>2. SubSeq(s, m + 1, n)[k] = s[m + 1 + k - 1]
      BY <2>3, <2>4
    <3>3. QED
      BY <3>1, <3>2
  <2>6. QED
    BY <2>3, <2>4, <2>5
<1>3. ASSUME NEW k \in 1 .. n - m
      PROVE  SubSeq(s, m + 1, n)[k] = fifo[Wrap(Wrap(head + m, N) + k - 1, N)]
  <2>1. m + k \in 1 .. n /\ m + k \in 1 .. N /\ k \in 1 .. N
    OBVIOUS
  <2>2. Wrap(head + (m + k) - 1, N) =
          IF head + (m + k) - 1 < N THEN head + (m + k) - 1 ELSE head + (m + k) - 1 - N
    BY <2>1, RingCell
  <2>3. Wrap(Wrap(head + m, N) + k - 1, N) =
          IF Wrap(head + m, N) + k - 1 < N THEN Wrap(head + m, N) + k - 1
          ELSE Wrap(head + m, N) + k - 1 - N
    BY <2>1, <1>1, RingCell
  <2>4. Wrap(Wrap(head + m, N) + k - 1, N) = Wrap(head + (m + k) - 1, N)
    BY <2>1, <2>2, <2>3, <1>1
  <2>5. s[m + k] = fifo[Wrap(head + (m + k) - 1, N)]
    BY <2>1 DEF IsRing
  <2>6. QED
    BY <2>4, <2>5, <1>2
<1>4. QED
  BY <1>2, <1>3 DEF IsRing

LEMMA RingJoin ==
  ASSUME NEW N \in Nat \ {0}, NEW fifo \in [0 .. N - 1 -> Bytes],
         NEW head \in 0 .. N - 1, NEW n \in 0 .. N, NEW m \in 0 .. N - n,
         NEW s, IsRing(s, fifo, head, n, N),
         NEW t, IsRing(t, fifo, Wrap(head + n, N), m, N)
  PROVE  IsRing(s \o t, fifo, head, n + m, N)
<1>1. /\ s \o t \in Seq(Bytes) /\ Len(s \o t) = n + m
      /\ \A k \in 1 .. n + m : (s \o t)[k] = IF k <= n THEN s[k] ELSE t[k - n]
  <2>1. s \in Seq(Bytes) /\ t \in Seq(Bytes) /\ Len(s) = n /\ Len(t) = m
    BY DEF IsRing
  <2>2. QED
    BY <2>1, ConcatProperties
<1>2. /\ Wrap(head + n, N) \in 0 .. N - 1
      /\ Wrap(head + n, N) = IF head + n < N THEN head + n ELSE head + n - N
  BY WrapStep
<1>3. ASSUME NEW k \in 1 .. n + m
      PROVE  (s \o t)[k] = fifo[Wrap(head + k - 1, N)]
  <2>1. CASE k <= n
    BY <2>1, <1>1 DEF IsRing
  <2>2. CASE k > n
    <3>1. k - n \in 1 .. m /\ k - n \in 1 .. N /\ k \in 1 .. N
      BY <2>2
    <3>2. (s \o t)[k] = fifo[Wrap(Wrap(head + n, N) + (k - n) - 1, N)]
      <4>1. (s \o t)[k] = t[k - n]
        <5>1. ~(k <= n)
          BY <2>2
        <5>2. QED
          BY <5>1, <1>1
      <4>2. t[k - n] = fifo[Wrap(Wrap(head + n, N) + (k - n) - 1, N)]
        BY <3>1 DEF IsRing
      <4>3. QED
        BY <4>1, <4>2
    <3>3. Wrap(head + k - 1, N) =
            IF head + k - 1 < N THEN head + k - 1 ELSE head + k - 1 - N
      BY <3>1, RingCell
    <3>4. Wrap(Wrap(head + n, N) + (k - n) - 1, N) =
            IF Wrap(head + n, N) + (k - n) - 1 < N THEN Wrap(head + n, N) + (k - n) - 1
            ELSE Wrap(head + n, N) + (k - n) - 1 - N
      BY <3>1, <1>2, RingCell
    <3>5. Wrap(Wrap(head + n, N) + (k - n) - 1, N) = Wrap(head + k - 1, N)
      BY <3>1, <3>3, <3>4, <1>2
    <3>6. QED
      BY <3>2, <3>5
  <2>3. k <= n \/ k > n
    OBVIOUS
  <2>4. QED
    BY <2>1, <2>2, <2>3
<1>4. QED
  BY <1>1, <1>3 DEF IsRing

(* Only the cells that hold the bytes matter.                               *)
LEMMA RingSame ==
  ASSUME NEW N, NEW fifo, NEW after, NEW head, NEW n,
         NEW s, IsRing(s, fifo, head, n, N),
         \A k \in 1 .. n : after[Wrap(head + k - 1, N)] = fifo[Wrap(head + k - 1, N)]
  PROVE  IsRing(s, after, head, n, N)
  BY DEF IsRing

(* The typing of the counters and spans, and of the flags.  They are kept    *)
(* apart because they follow by different reasoning.                         *)
RxCountersOK ==
  /\ rx_fifo \in [Slot -> Bytes]
  /\ rx_head \in Slot
  /\ rx_count \in 0 .. RX_FIFO_SIZE
  /\ rx_reserved \in 0 .. RX_FIFO_SIZE
  /\ dma \in [start : Slot, len : 0 .. RX_FIFO_SIZE]

RxFlagsOK == fifo_enabled \in BOOLEAN /\ overrun \in BOOLEAN

LEMMA RxTypeSplit == RxTypeOK <=> RxCountersOK /\ RxFlagsOK
  BY DEF RxTypeOK, RxCountersOK, RxFlagsOK

(* The strengthening that makes the ring's invariants inductive.            *)
RxRingInv == RxCountersOK /\ RxNeverOvercommitted /\ RxSpanIsTail

RxInv == RxRingInv /\ RxFlagsOK

(* The write position is a slot, and popping a byte does not move it.       *)
LEMMA TailInSlots ==
  ASSUME RxCountersOK
  PROVE  /\ RxTail \in Slot
         /\ RxTail = IF rx_head + rx_count < RX_FIFO_SIZE
                     THEN rx_head + rx_count
                     ELSE rx_head + rx_count - RX_FIFO_SIZE
<1>1. /\ rx_head + rx_count \in Nat
      /\ rx_head + rx_count < 2 * RX_FIFO_SIZE
  BY RxSizeAssumption DEF RxCountersOK, Slot
<1>2. QED
  BY <1>1, WrapStep, RxSizeAssumption DEF RxTail, RxCountersOK, Slot

LEMMA CapacityBounds == RxCapacity \in 1 .. RX_FIFO_SIZE
  BY RxSizeAssumption DEF RxCapacity, Capacity

(* What the host may be lent is free, contiguous and inside the array.      *)
LEMMA SpanBounds ==
  ASSUME RxRingInv
  PROVE  /\ ReservableSpan \in 0 .. RX_FIFO_SIZE
         /\ rx_count + ReservableSpan <= RxCapacity
         /\ RxTail + ReservableSpan <= RX_FIFO_SIZE
<1> DEFINE available == RxCapacity - rx_count
<1> DEFINE contiguous == RX_FIFO_SIZE - RxTail
<1>1. /\ RX_FIFO_SIZE \in Nat
      /\ RxCapacity \in 1 .. RX_FIFO_SIZE
      /\ rx_count \in Nat
      /\ rx_count <= RxCapacity
      /\ RxTail \in 0 .. RX_FIFO_SIZE - 1
  BY CapacityBounds, TailInSlots, RxSizeAssumption
     DEF RxRingInv, RxCountersOK, RxNeverOvercommitted, Slot
<1>2. ReservableSpan \in {0, available, contiguous}
  BY DEF ReservableSpan
<1>3. ReservableSpan = 0 \/ (ReservableSpan <= available /\ ReservableSpan <= contiguous)
  BY <1>1 DEF ReservableSpan
<1>4. QED
  BY <1>1, <1>2, <1>3

(* The initial state satisfies the invariant.                               *)
LEMMA RxInitInv == RxInit => RxInv
<1> SUFFICES ASSUME RxInit PROVE RxInv
  OBVIOUS
<1>1. RxFlagsOK
  BY DEF RxInit, RxFlagsOK
<1>2. /\ rx_fifo \in [Slot -> Bytes]
      /\ rx_head = 0 /\ rx_count = 0 /\ rx_reserved = 0
      /\ dma = NoSpan
  BY DEF RxInit
<1>3. RxRingInv
  BY <1>2, CapacityBounds, RxSizeAssumption
     DEF RxRingInv, RxCountersOK, RxNeverOvercommitted, RxSpanIsTail, NoSpan, Slot
<1>4. QED
  BY <1>1, <1>3 DEF RxInv

(* The flags stay Boolean.                                                  *)
LEMMA RxFlagsStep == RxFlagsOK /\ [RxNext]_rx_vars => RxFlagsOK'
<1> SUFFICES ASSUME RxFlagsOK, [RxNext]_rx_vars
             PROVE  RxFlagsOK'
  OBVIOUS
<1> USE DEF RxFlagsOK
<1>1. CASE RxReserve
  BY <1>1 DEF RxReserve
<1>2. ASSUME NEW i \in Slot, NEW b \in Bytes, DmaWrite(i, b)
      PROVE  RxFlagsOK'
  BY <1>2 DEF DmaWrite
<1>3. ASSUME NEW length \in 0 .. RX_FIFO_SIZE, RxProduce(length)
      PROVE  RxFlagsOK'
  BY <1>3 DEF RxProduce
<1>4. ASSUME NEW b \in Bytes, RxPush(b)
      PROVE  RxFlagsOK'
  BY <1>4 DEF RxPush
<1>5. CASE RxPop
  BY <1>5 DEF RxPop
<1>6. CASE RxReadLsr
  BY <1>6 DEF RxReadLsr
<1>7. ASSUME NEW enable \in BOOLEAN, NEW clear \in BOOLEAN, RxWriteFcr(enable, clear)
      PROVE  RxFlagsOK'
  BY <1>7 DEF RxWriteFcr
<1>8. CASE RxReset
  BY <1>8 DEF RxReset
<1>9. CASE UNCHANGED rx_vars
  BY <1>9 DEF rx_vars
<1>10. QED
  BY <1>1, <1>2, <1>3, <1>4, <1>5, <1>6, <1>7, <1>8, <1>9
     DEF RxNext, RxHost, RxGuest

(* Without a change of mode the capacity stays, and while neither index nor *)
(* count changes so does the tail.                                          *)
LEMMA SameCapacity == fifo_enabled' = fifo_enabled => RxCapacity' = RxCapacity
  BY DEF RxCapacity, Capacity

LEMMA SameTail == rx_head' = rx_head /\ rx_count' = rx_count => RxTail' = RxTail
  BY DEF RxTail

(* An emptied ring satisfies the invariant in either mode.                  *)
LEMMA EmptiedRing ==
  ASSUME RxCountersOK, ClearRxFifo, UNCHANGED <<rx_fifo, dma>>
  PROVE  RxRingInv'
<1>1. RxCapacity' \in 1 .. RX_FIFO_SIZE
  BY RxSizeAssumption DEF RxCapacity, Capacity
<1>2. QED
  BY <1>1, RxSizeAssumption
     DEF RxRingInv, RxCountersOK, RxNeverOvercommitted, RxSpanIsTail, ClearRxFifo, Slot

(* Each step of host and guest preserves the ring's invariant.              *)
LEMMA RxRingStep == RxRingInv /\ [RxNext]_rx_vars => RxRingInv'
<1> SUFFICES ASSUME RxRingInv, [RxNext]_rx_vars
             PROVE  RxRingInv'
  OBVIOUS
<1> USE RxSizeAssumption
    DEF RxRingInv, RxCountersOK, RxNeverOvercommitted, RxSpanIsTail, Slot
<1>1. CASE RxReserve
  <2>1. /\ rx_reserved = 0
        /\ UNCHANGED <<rx_fifo, rx_head, rx_count>>
        /\ rx_reserved' = ReservableSpan
        /\ dma' = [start |-> RxTail, len |-> ReservableSpan]
        /\ RxTail' = RxTail
        /\ RxCapacity' = RxCapacity
    BY <1>1, SameCapacity, SameTail DEF RxReserve
  <2>2. QED
    BY <2>1, SpanBounds, TailInSlots
<1>2. ASSUME NEW i \in Slot, NEW b \in Bytes, DmaWrite(i, b)
      PROVE  RxRingInv'
  <2>1. /\ UNCHANGED <<rx_head, rx_count, rx_reserved, dma>>
        /\ rx_fifo' = [rx_fifo EXCEPT ![dma.start + i] = b]
        /\ RxTail' = RxTail
        /\ RxCapacity' = RxCapacity
    BY <1>2, SameCapacity, SameTail DEF DmaWrite
  <2>2. QED
    BY <2>1
<1>3. ASSUME NEW length \in 0 .. RX_FIFO_SIZE, RxProduce(length)
      PROVE  RxRingInv'
  <2>1. UNCHANGED <<rx_fifo, rx_head>> /\ RxCapacity' = RxCapacity
    BY <1>3, SameCapacity DEF RxProduce
  <2>2. CASE length > rx_reserved
    <3>1. /\ UNCHANGED <<rx_count, rx_reserved>>
          /\ dma' = IF rx_reserved = 0 THEN NoSpan ELSE dma
          /\ RxTail' = RxTail
      BY <1>3, <2>1, <2>2, SameTail DEF RxProduce
    <3>2. QED
      BY <2>1, <3>1 DEF NoSpan
  <2>3. CASE ~(length > rx_reserved)
    <3>1. /\ rx_count' = rx_count + length
          /\ rx_reserved' = 0
          /\ dma' = NoSpan
      BY <1>3, <2>3 DEF RxProduce
    <3>2. QED
      BY <2>1, <2>3, <3>1, CapacityBounds DEF NoSpan
  <2>4. QED
    BY <2>2, <2>3
<1>4. ASSUME NEW b \in Bytes, RxPush(b)
      PROVE  RxRingInv'
  <2>1. /\ UNCHANGED <<rx_head, rx_reserved, dma>>
        /\ RxCapacity' = RxCapacity
        /\ rx_reserved = 0
    BY <1>4, SameCapacity DEF RxPush
  <2>2. CASE ReservableSpan = 0
    <3>1. UNCHANGED <<rx_fifo, rx_count>>
      BY <1>4, <2>2 DEF RxPush
    <3>2. QED
      BY <2>1, <3>1
  <2>3. CASE ReservableSpan # 0
    <3>1. /\ rx_fifo' = [rx_fifo EXCEPT ![RxTail] = b]
          /\ rx_count' = rx_count + 1
      BY <1>4, <2>3 DEF RxPush
    <3>2. rx_fifo' \in [Slot -> Bytes]
      BY <3>1
    <3>3. rx_count + 1 <= RxCapacity
      BY <2>3, SpanBounds, CapacityBounds
    <3>4. QED
      BY <2>1, <3>1, <3>2, <3>3, CapacityBounds
  <2>4. QED
    BY <2>2, <2>3
<1>5. CASE RxPop
  <2>1. /\ UNCHANGED <<rx_fifo, rx_reserved, dma>>
        /\ rx_count # 0
        /\ rx_count' = rx_count - 1
        /\ RxCapacity' = RxCapacity
    BY <1>5, SameCapacity DEF RxPop
  <2>2. rx_head' = IF rx_head + 1 < RX_FIFO_SIZE THEN rx_head + 1 ELSE 0
    BY <1>5, WrapStep DEF RxPop
  <2>3. RxCountersOK'
    BY <2>1, <2>2
  <2>4. RxTail' = RxTail
    <3>1. RxTail' = Wrap(rx_head' + rx_count', RX_FIFO_SIZE)
      BY DEF RxTail
    <3>2. /\ rx_head' \in 0 .. RX_FIFO_SIZE - 1
          /\ rx_count' \in 0 .. RX_FIFO_SIZE
      BY <2>1, <2>2
    <3>3. RxTail' = IF rx_head' + rx_count' < RX_FIFO_SIZE
                    THEN rx_head' + rx_count'
                    ELSE rx_head' + rx_count' - RX_FIFO_SIZE
      BY <3>1, <3>2, WrapSum
    <3>4. QED
      BY <2>1, <2>2, <3>3, TailInSlots
  <2>5. RxNeverOvercommitted'
    BY <2>1, CapacityBounds
  <2>6. RxSpanIsTail'
    BY <2>1, <2>4
  <2>7. QED
    BY <2>3, <2>5, <2>6
<1>6. CASE RxReadLsr
  <2>1. UNCHANGED rx_ring /\ dma' = dma /\ RxTail' = RxTail /\ RxCapacity' = RxCapacity
    BY <1>6, SameCapacity, SameTail DEF RxReadLsr, rx_ring
  <2>2. QED
    BY <2>1 DEF rx_ring
<1>7. ASSUME NEW enable \in BOOLEAN, NEW clear \in BOOLEAN, RxWriteFcr(enable, clear)
      PROVE  RxRingInv'
  <2>1. CASE enable # fifo_enabled \/ clear
    <3>1. ClearRxFifo /\ UNCHANGED <<rx_fifo, dma>>
      BY <1>7, <2>1 DEF RxWriteFcr
    <3>2. QED
      BY <3>1, EmptiedRing
  <2>2. CASE ~(enable # fifo_enabled \/ clear)
    <3>1. /\ UNCHANGED <<rx_fifo, rx_head, rx_count, rx_reserved, dma>>
          /\ fifo_enabled' = fifo_enabled
      BY <1>7, <2>2 DEF RxWriteFcr
    <3>2. QED
      BY <3>1, SameCapacity, SameTail
  <2>3. QED
    BY <2>1, <2>2
<1>8. CASE RxReset
  BY <1>8, EmptiedRing DEF RxReset
<1>9. CASE UNCHANGED rx_vars
  <2>1. UNCHANGED rx_ring /\ dma' = dma /\ RxTail' = RxTail /\ RxCapacity' = RxCapacity
    BY <1>9, SameCapacity, SameTail DEF rx_vars, rx_ring
  <2>2. QED
    BY <2>1 DEF rx_ring
<1>10. QED
  BY <1>1, <1>2, <1>3, <1>4, <1>5, <1>6, <1>7, <1>8, <1>9
     DEF RxNext, RxHost, RxGuest

(* The strengthened invariant holds in every reachable state.               *)
THEOREM RxInvariance == RxSpec => []RxInv
<1>1. RxInv /\ [RxNext]_rx_vars => RxInv'
  BY RxFlagsStep, RxRingStep DEF RxInv
<1>2. QED
  BY RxInitInv, <1>1, PTL DEF RxSpec

(* The typing part of the invariant, for every ring size.                   *)
THEOREM RxTypeCorrect == RxSpec => []RxTypeOK
<1>1. RxInv => RxTypeOK
  BY RxTypeSplit DEF RxInv, RxRingInv
<1>2. QED
  BY <1>1, RxInvariance, PTL

(* Unread and lent bytes together always fit the current FIFO mode.         *)
THEOREM RxNoOvercommit == RxSpec => []RxNeverOvercommitted
<1>1. RxInv => RxNeverOvercommitted
  BY DEF RxInv, RxRingInv
<1>2. QED
  BY <1>1, RxInvariance, PTL

(* A live span always is the tail the device will publish.                  *)
THEOREM RxSpanTracksTail == RxSpec => []RxSpanIsTail
<1>1. RxInv => RxSpanIsTail
  BY DEF RxInv, RxRingInv
<1>2. QED
  BY <1>1, RxInvariance, PTL

(* The unread cells and the cells of a live span do not meet: the span      *)
(* begins where the unread bytes end, and both fit into the array.          *)
LEMMA SpanClearOfUnread == RxInv => RxSpanDisjoint
<1> SUFFICES ASSUME RxInv, rx_reserved # 0,
                    NEW k \in 0 .. rx_count - 1,
                    Wrap(rx_head + k, RX_FIFO_SIZE) \in dma.start .. dma.start + dma.len - 1
             PROVE  FALSE
  BY DEF RxSpanDisjoint, UnreadSlots
<1>1. /\ RX_FIFO_SIZE \in Nat \ {0} /\ rx_head \in 0 .. RX_FIFO_SIZE - 1
      /\ rx_count \in 0 .. RX_FIFO_SIZE /\ rx_reserved \in 0 .. RX_FIFO_SIZE
  BY RxSizeAssumption DEF RxInv, RxRingInv, RxCountersOK, Slot
<1>2. rx_count + rx_reserved <= RX_FIFO_SIZE
  BY <1>1, CapacityBounds DEF RxInv, RxRingInv, RxNeverOvercommitted
<1>3. dma.len = rx_reserved /\ dma.start = RxTail /\ RxTail + rx_reserved <= RX_FIFO_SIZE
  BY DEF RxInv, RxRingInv, RxSpanIsTail
<1>4. RxTail = IF rx_head + rx_count < RX_FIFO_SIZE
               THEN rx_head + rx_count ELSE rx_head + rx_count - RX_FIFO_SIZE
  BY TailInSlots DEF RxInv, RxRingInv
<1>5. k \in 0 .. RX_FIFO_SIZE /\ k < rx_count
  BY <1>1
<1>6. Wrap(rx_head + k, RX_FIFO_SIZE) =
        IF rx_head + k < RX_FIFO_SIZE THEN rx_head + k ELSE rx_head + k - RX_FIFO_SIZE
  BY <1>1, <1>5, WrapSum
<1>7. QED
  BY <1>1, <1>2, <1>3, <1>4, <1>5, <1>6

(* The ring is well formed, within its capacity and clear of its span, for  *)
(* every size of the ring and every alphabet.                               *)
THEOREM RxRingIsSafe == RxSpec => []RxRingSafe
<1>1. RxInv => RxRingSafe
  BY RxTypeSplit, SpanClearOfUnread DEF RxInv, RxRingInv, RxRingSafe
<1>2. QED
  BY <1>1, RxInvariance, PTL

-----------------------------------------------------------------------------
(* What the ring promises a host that keeps the contract.                   *)

(* With no span on record while the host still has one, nothing a host or   *)
(* a guest can do makes the unread count grow.                              *)
LEMMA StaleSpanStep ==
  ASSUME RxInv, [RxNext]_rx_vars, rx_reserved = 0, dma.len # 0
  PROVE  rx_count' <= rx_count
<1>1. rx_count \in 0 .. RX_FIFO_SIZE /\ RX_FIFO_SIZE \in Nat
  BY RxSizeAssumption DEF RxInv, RxRingInv, RxCountersOK
<1>2. CASE RxReserve
  BY <1>2 DEF RxReserve
<1>3. ASSUME NEW i \in Slot, NEW b \in Bytes, DmaWrite(i, b)
      PROVE  rx_count' <= rx_count
  BY <1>3 DEF DmaWrite
<1>4. ASSUME NEW length \in 0 .. RX_FIFO_SIZE, RxProduce(length)
      PROVE  rx_count' <= rx_count
  BY <1>1, <1>4 DEF RxProduce
<1>5. ASSUME NEW b \in Bytes, RxPush(b)
      PROVE  rx_count' <= rx_count
  BY <1>5 DEF RxPush
<1>6. CASE RxPop
  BY <1>1, <1>6 DEF RxPop
<1>7. CASE RxReadLsr
  BY <1>1, <1>7 DEF RxReadLsr, rx_ring
<1>8. ASSUME NEW enable \in BOOLEAN, NEW clear \in BOOLEAN, RxWriteFcr(enable, clear)
      PROVE  rx_count' <= rx_count
  BY <1>1, <1>8 DEF RxWriteFcr, ClearRxFifo
<1>9. CASE RxReset
  BY <1>1, <1>9 DEF RxReset, ClearRxFifo
<1>10. CASE UNCHANGED rx_vars
  BY <1>1, <1>10 DEF rx_vars, rx_ring
<1>11. QED
  BY <1>2, <1>3, <1>4, <1>5, <1>6, <1>7, <1>8, <1>9, <1>10 DEF RxNext, RxHost, RxGuest

(* A push that finds no room with no span outstanding found a full ring: a  *)
(* span is never refused for the end of the array alone.                    *)
LEMMA OverrunStep ==
  ASSUME RxInv, [RxNext]_rx_vars, ~overrun, overrun'
  PROVE  rx_count = RxCapacity
<1>1. ASSUME NEW b \in Bytes, RxPush(b)
      PROVE  rx_count = RxCapacity
  <2>1. ReservableSpan = 0 /\ dma.len = 0
    BY <1>1 DEF RxPush
  <2>2. rx_reserved = 0
    BY <2>1 DEF RxInv, RxRingInv, RxSpanIsTail
  <2>3. /\ RX_FIFO_SIZE \in Nat /\ rx_count \in Nat /\ RxTail \in 0 .. RX_FIFO_SIZE - 1
        /\ RxCapacity \in 1 .. RX_FIFO_SIZE
        /\ rx_count <= RxCapacity
    BY <2>2, TailInSlots, CapacityBounds, RxSizeAssumption
       DEF RxInv, RxRingInv, RxCountersOK, RxNeverOvercommitted, Slot
  <2>4. QED
    BY <2>1, <2>2, <2>3 DEF ReservableSpan
<1>2. CASE RxReserve
  BY <1>2 DEF RxReserve
<1>3. ASSUME NEW i \in Slot, NEW b \in Bytes, DmaWrite(i, b)
      PROVE  FALSE
  BY <1>3 DEF DmaWrite
<1>4. ASSUME NEW length \in 0 .. RX_FIFO_SIZE, RxProduce(length)
      PROVE  FALSE
  BY <1>4 DEF RxProduce
<1>5. CASE RxPop
  BY <1>5 DEF RxPop
<1>6. CASE RxReadLsr
  BY <1>6 DEF RxReadLsr
<1>7. ASSUME NEW enable \in BOOLEAN, NEW clear \in BOOLEAN, RxWriteFcr(enable, clear)
      PROVE  FALSE
  BY <1>7 DEF RxWriteFcr
<1>8. CASE RxReset
  BY <1>8 DEF RxReset
<1>9. CASE UNCHANGED rx_vars
  BY <1>9 DEF rx_vars
<1>10. QED
  BY <1>1, <1>2, <1>3, <1>4, <1>5, <1>6, <1>7, <1>8, <1>9 DEF RxNext, RxHost, RxGuest

(* A completion that comes after a reset publishes nothing, and OE is       *)
(* raised by a full ring only, for every size of the ring.                  *)
THEOREM RxKeepsPromises == RxSpec => RxPromisesKept
<1>1. RxInv /\ [RxNext]_rx_vars =>
        [rx_reserved = 0 /\ dma.len # 0 => rx_count' <= rx_count]_rx_vars
  BY StaleSpanStep
<1>2. RxInv /\ [RxNext]_rx_vars =>
        [~overrun /\ overrun' => rx_count = RxCapacity]_rx_vars
  BY OverrunStep
<1>3. QED
  BY <1>1, <1>2, RxInvariance, PTL
     DEF RxSpec, RxPromisesKept, RxStaleSpanRefused, RxOverrunOnlyWhenFull

-----------------------------------------------------------------------------
(* The ring implements the byte queue, step by step.                        *)

LEMMA QueueIsRing ==
  ASSUME RxCountersOK
  PROVE  IsRing(RxQueue, rx_fifo, rx_head, rx_count, RX_FIFO_SIZE)
  BY RingIsSeq, RxSizeAssumption DEF RxCountersOK, Slot, RxQueue

LEMMA QueueIsRingNext ==
  ASSUME RxCountersOK'
  PROVE  IsRing(RxQueue', rx_fifo', rx_head', rx_count', RX_FIFO_SIZE)
  BY RingIsSeq, RxSizeAssumption DEF RxCountersOK, Slot, RxQueue

LEMMA QueueFrame ==
  UNCHANGED <<rx_fifo, rx_head, rx_count>> => RxQueue' = RxQueue
  BY DEF RxQueue

LEMMA EmptyQueue == rx_count = 0 => RxQueue = <<>>
  BY DEF RxQueue

LEMMA EmptyQueueNext == rx_count' = 0 => RxQueue' = <<>>
  BY DEF RxQueue

LEMMA QueueLength == RxCountersOK => Len(RxQueue) = rx_count
  BY QueueIsRing DEF IsRing

(* The limit of the queue is the ring's capacity.                           *)
LEMMA LimitIsCapacity == Queue!Limit = RxCapacity
  BY DEF Queue!Limit, RxCapacity, Capacity

(* Bytes that become unread behind the others are put into the queue.       *)
LEMMA PublishIsPut ==
  ASSUME RxRingInv, RxRingInv', rx_head' = rx_head,
         NEW length \in 1 .. RX_FIFO_SIZE,
         rx_count' = rx_count + length,
         rx_count + length <= RxCapacity,
         IsRing(RxQueue, rx_fifo', rx_head, rx_count, RX_FIFO_SIZE),
         UNCHANGED <<overrun, fifo_enabled>>
  PROVE  Queue!Put
<1>1. /\ RX_FIFO_SIZE \in Nat \ {0}
      /\ rx_fifo' \in [0 .. RX_FIFO_SIZE - 1 -> Bytes]
      /\ rx_head \in 0 .. RX_FIFO_SIZE - 1
      /\ rx_count \in 0 .. RX_FIFO_SIZE
      /\ length \in 0 .. RX_FIFO_SIZE - rx_count
      /\ length \in 0 .. RX_FIFO_SIZE
      /\ RxTail \in 0 .. RX_FIFO_SIZE - 1
  BY RxSizeAssumption, CapacityBounds, TailInSlots DEF RxRingInv, RxCountersOK, Slot
<1> DEFINE s == [k \in 1 .. length |-> rx_fifo'[Wrap(RxTail + k - 1, RX_FIFO_SIZE)]]
<1>2. s \in [1 .. length -> Bytes]
  <2>1. \A k \in 1 .. length : Wrap(RxTail + k - 1, RX_FIFO_SIZE) \in 0 .. RX_FIFO_SIZE - 1
    BY <1>1, RingCell
  <2>2. QED
    BY <2>1, <1>1
<1>3. IsRing(s, rx_fifo', RxTail, length, RX_FIFO_SIZE)
  BY <1>1, RingIsSeq
<1> HIDE DEF s
<1>4. IsRing(RxQueue \o s, rx_fifo', rx_head, rx_count + length, RX_FIFO_SIZE)
  BY <1>1, <1>3, RingJoin DEF RxTail
<1>5. IsRing(RxQueue', rx_fifo', rx_head, rx_count + length, RX_FIFO_SIZE)
  BY QueueIsRingNext DEF RxRingInv
<1>6. RxQueue' = RxQueue \o s
  BY <1>4, <1>5, RingUnique
<1>7. Len(RxQueue) + length <= Queue!Limit
  BY QueueLength, LimitIsCapacity DEF RxRingInv
<1>8. QED
  BY <1>2, <1>6, <1>7 DEF Queue!Put

(* The guest takes the oldest byte.                                         *)
LEMMA PopIsTake ==
  ASSUME RxRingInv, RxRingInv', RxPop
  PROVE  Queue!Take
<1>1. /\ rx_count # 0 /\ rx_count' = rx_count - 1
      /\ rx_fifo' = rx_fifo
      /\ rx_head' = Wrap(rx_head + 1, RX_FIFO_SIZE)
      /\ UNCHANGED <<overrun, fifo_enabled>>
  BY DEF RxPop
<1>2. /\ RX_FIFO_SIZE \in Nat \ {0}
      /\ rx_fifo \in [0 .. RX_FIFO_SIZE - 1 -> Bytes]
      /\ rx_head \in 0 .. RX_FIFO_SIZE - 1
      /\ rx_count \in 0 .. RX_FIFO_SIZE
      /\ 1 \in 0 .. rx_count
  BY <1>1, RxSizeAssumption DEF RxRingInv, RxCountersOK, Slot
<1>3. IsRing(RxQueue, rx_fifo, rx_head, rx_count, RX_FIFO_SIZE)
  BY QueueIsRing DEF RxRingInv
<1>4. IsRing(SubSeq(RxQueue, 1 + 1, rx_count), rx_fifo, Wrap(rx_head + 1, RX_FIFO_SIZE),
             rx_count - 1, RX_FIFO_SIZE)
  BY <1>2, <1>3, RingDrop
<1>5. RxQueue \in Seq(Bytes) /\ Len(RxQueue) = rx_count /\ RxQueue # <<>>
  BY <1>2, <1>1, <1>3 DEF IsRing
<1>6. Tail(RxQueue) = SubSeq(RxQueue, 1 + 1, rx_count)
  BY <1>5, TailIsSubSeq
<1>7. IsRing(RxQueue', rx_fifo, Wrap(rx_head + 1, RX_FIFO_SIZE), rx_count - 1, RX_FIFO_SIZE)
  BY <1>1, QueueIsRingNext DEF RxRingInv
<1>8. RxQueue' = Tail(RxQueue)
  BY <1>4, <1>6, <1>7, RingUnique
<1>9. QED
  BY <1>1, <1>5, <1>8 DEF Queue!Take

(* A byte stored into the live span is not one of the unread bytes.         *)
LEMMA DmaKeepsQueue ==
  ASSUME RxInv, RxInv', NEW i \in Slot, NEW b \in Bytes, DmaWrite(i, b)
  PROVE  RxQueue' = RxQueue
<1>1. /\ UNCHANGED <<rx_head, rx_count>> /\ rx_reserved # 0 /\ i < dma.len
      /\ rx_fifo' = [rx_fifo EXCEPT ![dma.start + i] = b]
  BY DEF DmaWrite
<1>2. /\ RX_FIFO_SIZE \in Nat \ {0} /\ rx_fifo \in [0 .. RX_FIFO_SIZE - 1 -> Bytes]
      /\ rx_head \in 0 .. RX_FIFO_SIZE - 1 /\ rx_count \in 0 .. RX_FIFO_SIZE
      /\ dma.start \in Nat /\ dma.len \in Nat /\ i \in Nat
  BY RxSizeAssumption DEF RxInv, RxRingInv, RxCountersOK, Slot
<1>3. dma.start + i \in dma.start .. dma.start + dma.len - 1
  BY <1>1, <1>2
<1>4. ASSUME NEW k \in 1 .. rx_count
      PROVE  rx_fifo'[Wrap(rx_head + k - 1, RX_FIFO_SIZE)]
               = rx_fifo[Wrap(rx_head + k - 1, RX_FIFO_SIZE)]
  <2>1. /\ k \in 1 .. RX_FIFO_SIZE /\ k - 1 \in 0 .. rx_count - 1
        /\ rx_head + k - 1 = rx_head + (k - 1)
    BY <1>2
  <2>2. Wrap(rx_head + k - 1, RX_FIFO_SIZE) \in 0 .. RX_FIFO_SIZE - 1
    BY <1>2, <2>1, RingCell
  <2>3. Wrap(rx_head + k - 1, RX_FIFO_SIZE) \in UnreadSlots
    BY <2>1 DEF UnreadSlots
  <2>4. Wrap(rx_head + k - 1, RX_FIFO_SIZE) # dma.start + i
    BY <1>1, <1>3, <2>3, SpanClearOfUnread DEF RxSpanDisjoint
  <2>5. QED
    BY <1>1, <1>2, <2>2, <2>4
<1>5. QED
  BY <1>1, <1>4 DEF RxQueue

(* Every step of the ring is a step of the queue or leaves it alone.        *)
LEMMA RxStepIsQueueStep ==
  ASSUME RxInv, RxInv', [RxNext]_rx_vars
  PROVE  [Queue!Next]_(Queue!vars)
<1> USE DEF Queue!vars
<1>1. RxRingInv /\ RxRingInv' /\ RxCountersOK /\ RxCountersOK'
  BY DEF RxInv, RxRingInv
<1>2. CASE RxReserve
  BY <1>2, QueueFrame DEF RxReserve
<1>3. ASSUME NEW i \in Slot, NEW b \in Bytes, DmaWrite(i, b)
      PROVE  UNCHANGED Queue!vars
  BY <1>3, DmaKeepsQueue DEF DmaWrite
<1>4. ASSUME NEW length \in 0 .. RX_FIFO_SIZE, RxProduce(length)
      PROVE  Queue!Put \/ UNCHANGED Queue!vars
  <2>1. UNCHANGED <<rx_fifo, rx_head, overrun, fifo_enabled>>
    BY <1>4 DEF RxProduce
  <2>2. /\ rx_count \in Nat /\ rx_reserved \in Nat
        /\ rx_count + rx_reserved <= RxCapacity /\ RxCapacity \in Nat
    BY <1>1, CapacityBounds DEF RxRingInv, RxCountersOK, RxNeverOvercommitted
  <2>3. CASE rx_count' = rx_count
    BY <2>1, <2>3, QueueFrame
  <2>4. CASE rx_count' # rx_count
    <3>1. ~(length > rx_reserved) /\ rx_count' = rx_count + length
      BY <1>4, <2>4 DEF RxProduce
    <3>2. length \in 1 .. RX_FIFO_SIZE /\ rx_count + length <= RxCapacity
      BY <2>2, <2>4, <3>1
    <3>3. IsRing(RxQueue, rx_fifo', rx_head, rx_count, RX_FIFO_SIZE)
      BY <1>1, <2>1, QueueIsRing
    <3>4. QED
      BY <1>1, <2>1, <3>1, <3>2, <3>3, PublishIsPut
  <2>5. QED
    BY <2>3, <2>4
<1>5. ASSUME NEW b \in Bytes, RxPush(b)
      PROVE  Queue!Put \/ Queue!Drop
  <2>1. UNCHANGED <<rx_head, fifo_enabled>>
    BY <1>5 DEF RxPush
  <2>2. CASE ReservableSpan = 0
    <3>1. overrun' = TRUE /\ RxQueue' = RxQueue
      BY <1>5, <2>1, <2>2, QueueFrame DEF RxPush
    <3>2. rx_reserved = 0
      BY <1>1, <1>5 DEF RxPush, RxRingInv, RxSpanIsTail
    <3>3. /\ RX_FIFO_SIZE \in Nat /\ rx_count \in Nat /\ RxTail \in 0 .. RX_FIFO_SIZE - 1
          /\ RxCapacity \in 1 .. RX_FIFO_SIZE
          /\ rx_count <= RxCapacity
      BY <1>1, <3>2, TailInSlots, CapacityBounds, RxSizeAssumption
         DEF RxRingInv, RxCountersOK, RxNeverOvercommitted, Slot
    <3>4. rx_count = RxCapacity
      BY <2>2, <3>2, <3>3 DEF ReservableSpan
    <3>5. Len(RxQueue) = Queue!Limit
      BY <1>1, <3>4, QueueLength, LimitIsCapacity
    <3>6. QED
      BY <2>1, <3>1, <3>5 DEF Queue!Drop
  <2>3. CASE ReservableSpan # 0
    <3>1. /\ rx_fifo' = [rx_fifo EXCEPT ![RxTail] = b]
          /\ rx_count' = rx_count + 1
          /\ UNCHANGED overrun
      BY <1>5, <2>3 DEF RxPush
    <3>2. rx_count + 1 <= RxCapacity /\ 1 \in 1 .. RX_FIFO_SIZE
      BY <1>1, <2>3, SpanBounds, CapacityBounds, RxSizeAssumption DEF RxCountersOK
    <3>3. /\ RX_FIFO_SIZE \in Nat \ {0} /\ rx_fifo \in [0 .. RX_FIFO_SIZE - 1 -> Bytes]
          /\ rx_head \in 0 .. RX_FIFO_SIZE - 1
          /\ rx_count \in 0 .. RX_FIFO_SIZE - 1
      BY <1>1, <3>2, CapacityBounds, RxSizeAssumption DEF RxCountersOK, Slot
    <3>4. ASSUME NEW k \in 1 .. rx_count
          PROVE  rx_fifo'[Wrap(rx_head + k - 1, RX_FIFO_SIZE)]
                   = rx_fifo[Wrap(rx_head + k - 1, RX_FIFO_SIZE)]
      <4>1. k \in 1 .. RX_FIFO_SIZE
        BY <3>3
      <4>2. /\ Wrap(rx_head + k - 1, RX_FIFO_SIZE) \in 0 .. RX_FIFO_SIZE - 1
            /\ Wrap(rx_head + k - 1, RX_FIFO_SIZE) =
                 IF rx_head + k - 1 < RX_FIFO_SIZE THEN rx_head + k - 1
                 ELSE rx_head + k - 1 - RX_FIFO_SIZE
        BY <3>3, <4>1, RingCell
      <4>3. Wrap(rx_head + k - 1, RX_FIFO_SIZE) # RxTail
        BY <1>1, <3>3, <4>2, TailInSlots
      <4>4. QED
        BY <3>1, <3>3, <4>2, <4>3
    <3>5. IsRing(RxQueue, rx_fifo', rx_head, rx_count, RX_FIFO_SIZE)
      BY <1>1, <3>4, QueueIsRing, RingSame
    <3>6. QED
      BY <1>1, <2>1, <3>1, <3>2, <3>5, PublishIsPut
  <2>4. QED
    BY <2>2, <2>3
<1>6. CASE RxPop
  BY <1>1, <1>6, PopIsTake DEF Queue!Next
<1>7. CASE RxReadLsr
  <2>1. UNCHANGED <<rx_fifo, rx_head, rx_count, fifo_enabled>> /\ overrun' = FALSE
    BY <1>7 DEF RxReadLsr, rx_ring
  <2>2. Queue!Acknowledge
    BY <2>1, QueueFrame DEF Queue!Acknowledge
  <2>3. QED
    BY <2>2 DEF Queue!Next
<1>8. ASSUME NEW enable \in BOOLEAN, NEW clear \in BOOLEAN, RxWriteFcr(enable, clear)
      PROVE  Queue!Flush \/ UNCHANGED Queue!vars
  <2>1. CASE enable # fifo_enabled \/ clear
    <3>1. rx_count' = 0 /\ overrun' = FALSE /\ fifo_enabled' \in BOOLEAN
      BY <1>8, <2>1 DEF RxWriteFcr, ClearRxFifo
    <3>2. QED
      BY <3>1, EmptyQueueNext DEF Queue!Flush
  <2>2. CASE ~(enable # fifo_enabled \/ clear)
    <3>1. UNCHANGED <<rx_fifo, rx_head, rx_count, overrun, fifo_enabled>>
      BY <1>8, <2>2 DEF RxWriteFcr
    <3>2. QED
      BY <3>1, QueueFrame
  <2>3. QED
    BY <2>1, <2>2
<1>9. CASE RxReset
  <2>1. rx_count' = 0 /\ overrun' = FALSE /\ fifo_enabled' \in BOOLEAN
    BY <1>9 DEF RxReset, ClearRxFifo
  <2>2. Queue!Flush
    BY <2>1, EmptyQueueNext DEF Queue!Flush
  <2>3. QED
    BY <2>2 DEF Queue!Next
<1>10. CASE UNCHANGED rx_vars
  BY <1>10, QueueFrame DEF rx_vars, rx_ring
<1>11. QED
  BY <1>2, <1>3, <1>4, <1>5, <1>6, <1>7, <1>8, <1>9, <1>10
     DEF RxNext, RxHost, RxGuest, Queue!Next

(* The receive ring, with its spans, resets and changes of mode, implements *)
(* the byte queue of ByteQueue: nothing is read twice or out of order, and  *)
(* nothing is lost but by a flush or with a mark.                           *)
THEOREM RxIsQueue == RxSpec => RxImplementsQueue
<1>1. RxInit => Queue!Init
  BY EmptyQueue DEF RxInit, Queue!Init
<1>2. RxInv /\ RxInv' /\ [RxNext]_rx_vars => [Queue!Next]_(Queue!vars)
  BY RxStepIsQueueStep
<1>3. QED
  BY <1>1, <1>2, RxInvariance, PTL DEF RxSpec, RxImplementsQueue, Queue!Spec

-----------------------------------------------------------------------------
(* The transmit ring.                                                      *)

(* The typing of the ring, kept apart from that of the flags and the record *)
(* of sent bytes because they follow by different reasoning.                *)
TxCountersOK ==
  /\ tx_fifo \in [TxSlot -> Bytes]
  /\ tx_head \in TxSlot
  /\ tx_count \in 0 .. TX_FIFO_SIZE
  /\ tx_peeked \in 0 .. TX_FIFO_SIZE
  /\ span \in [start : TxSlot, len : 0 .. TX_FIFO_SIZE]

TxFlagsOK ==
  /\ fifo_enabled \in BOOLEAN
  /\ thre_irq_pending \in BOOLEAN
  /\ tx_callback \in BOOLEAN
  /\ draining \in BOOLEAN

OutOK == out \in Seq(Bytes)

LEMMA TxTypeSplit == TxTypeOK <=> TxCountersOK /\ TxFlagsOK /\ OutOK
  BY DEF TxTypeOK, TxCountersOK, TxFlagsOK, OutOK

TxRingInv == TxCountersOK /\ TxSpanSafe

TxInv == TxRingInv /\ TxFlagsOK /\ OutOK /\ ThreMeansEmpty /\ CallbackDrains

LEMMA TxCapacityBounds == TxCapacity \in 1 .. TX_FIFO_SIZE
  BY TxSizeAssumption DEF TxCapacity, Capacity

LEMMA SameTxCapacity == fifo_enabled' = fifo_enabled => TxCapacity' = TxCapacity
  BY DEF TxCapacity, Capacity

LEMMA TxTailInSlots ==
  ASSUME TxCountersOK
  PROVE  /\ TxTail \in TxSlot
         /\ TxTail = IF tx_head + tx_count < TX_FIFO_SIZE THEN tx_head + tx_count
                     ELSE tx_head + tx_count - TX_FIFO_SIZE
<1>1. /\ TX_FIFO_SIZE \in Nat \ {0} /\ tx_head \in 0 .. TX_FIFO_SIZE - 1
      /\ tx_count \in 0 .. TX_FIFO_SIZE
  BY TxSizeAssumption DEF TxCountersOK, TxSlot
<1>2. TxTail = IF tx_head + tx_count < TX_FIFO_SIZE THEN tx_head + tx_count
               ELSE tx_head + tx_count - TX_FIFO_SIZE
  BY <1>1, WrapSum DEF TxTail
<1>3. QED
  BY <1>1, <1>2 DEF TxSlot

(* What peek() lends is queued, contiguous and not empty.                   *)
LEMMA PeekBounds ==
  ASSUME TxRingInv, tx_count # 0
  PROVE  /\ PeekLength \in 1 .. TX_FIFO_SIZE
         /\ PeekLength <= tx_count
         /\ tx_head + PeekLength <= TX_FIFO_SIZE
         /\ tx_peeked # 0 => PeekLength = tx_peeked
  BY TxSizeAssumption DEF TxRingInv, TxCountersOK, TxSpanSafe, PeekLength, TxSlot

(* Releasing queued bytes leaves a well-formed ring with no span out.       *)
LEMMA ReleaseKeeps ==
  ASSUME TxRingInv, NEW length \in 0 .. TX_FIFO_SIZE, length <= tx_count,
         Release(length), tx_fifo' = tx_fifo,
         span' \in [start : TxSlot, len : 0 .. TX_FIFO_SIZE],
         fifo_enabled' = fifo_enabled
  PROVE  TxRingInv'
<1>1. /\ tx_head' = Wrap(tx_head + length, TX_FIFO_SIZE)
      /\ tx_count' = tx_count - length /\ tx_peeked' = 0
  BY DEF Release
<1>2. tx_head' \in TxSlot
  <2>1. /\ TX_FIFO_SIZE \in Nat \ {0} /\ tx_head \in 0 .. TX_FIFO_SIZE - 1
    BY TxSizeAssumption DEF TxRingInv, TxCountersOK, TxSlot
  <2>2. tx_head' = IF tx_head + length < TX_FIFO_SIZE THEN tx_head + length
                   ELSE tx_head + length - TX_FIFO_SIZE
    BY <1>1, <2>1, WrapSum
  <2>3. QED
    BY <2>1, <2>2 DEF TxSlot
<1>3. /\ tx_count' \in 0 .. TX_FIFO_SIZE /\ tx_count' <= TxCapacity'
      /\ tx_peeked' \in 0 .. TX_FIFO_SIZE
  BY <1>1, SameTxCapacity, TxCapacityBounds, TxSizeAssumption
     DEF TxRingInv, TxCountersOK, TxSpanSafe
<1>4. TxCountersOK'
  BY <1>2, <1>3 DEF TxRingInv, TxCountersOK, TxSlot
<1>5. TxSpanSafe'
  BY <1>1, <1>2, <1>3, TxSizeAssumption DEF TxSpanSafe, TxSlot
<1>6. QED
  BY <1>4, <1>5 DEF TxRingInv

(* An emptied ring is well formed in either mode.                           *)
LEMMA EmptiedTxRing ==
  ASSUME TxRingInv, ClearTxFifo, UNCHANGED <<tx_fifo, span>>
  PROVE  TxRingInv'
<1>1. TxCapacity' \in 1 .. TX_FIFO_SIZE
  BY TxSizeAssumption DEF TxCapacity, Capacity
<1>2. QED
  BY <1>1, TxSizeAssumption DEF TxRingInv, TxCountersOK, TxSpanSafe, ClearTxFifo, TxSlot

(* The initial state satisfies the invariant.                               *)
LEMMA TxInitInv == TxInit => TxInv
<1> SUFFICES ASSUME TxInit PROVE TxInv
  OBVIOUS
<1>1. TxFlagsOK /\ OutOK /\ CallbackDrains /\ ThreMeansEmpty
  <2>1. TxFlagsOK /\ CallbackDrains /\ ThreMeansEmpty
    BY DEF TxInit, TxFlagsOK, CallbackDrains, ThreMeansEmpty
  <2>2. out = <<>> /\ <<>> \in Seq(Bytes)
    BY DEF TxInit
  <2>3. QED
    BY <2>1, <2>2 DEF OutOK
<1>2. /\ tx_fifo \in [TxSlot -> Bytes] /\ span = NoTxSpan
      /\ tx_head = 0 /\ tx_count = 0 /\ tx_peeked = 0
  BY DEF TxInit
<1>3. TxCountersOK
  <2>1. 0 \in TxSlot /\ 0 \in 0 .. TX_FIFO_SIZE
    BY TxSizeAssumption DEF TxSlot
  <2>2. NoTxSpan \in [start : TxSlot, len : 0 .. TX_FIFO_SIZE]
    BY <2>1 DEF NoTxSpan
  <2>3. QED
    BY <1>2, <2>1, <2>2 DEF TxCountersOK
<1>4. TxSpanSafe
  BY <1>2, TxCapacityBounds, TxSizeAssumption DEF TxSpanSafe
<1>5. QED
  BY <1>1, <1>3, <1>4 DEF TxInv, TxRingInv

(* The flags stay Boolean.                                                  *)
LEMMA TxFlagsStep ==
  ASSUME TxFlagsOK, [TxNext]_tx_vars
  PROVE  TxFlagsOK'
<1> USE DEF TxFlagsOK
<1>1. CASE TxPeek
  BY <1>1 DEF TxPeek
<1>2. ASSUME NEW length \in 0 .. TX_FIFO_SIZE, TxConsume(length)
      PROVE  TxFlagsOK'
  <2>1. thre_irq_pending' \in BOOLEAN
    BY <1>2, Zenon DEF TxConsume, Release
  <2>2. QED
    BY <1>2, <2>1 DEF TxConsume
<1>3. CASE CallbackReturns
  <2>1. thre_irq_pending' \in BOOLEAN
    BY <1>3, Zenon DEF CallbackReturns, DrainOne, Release
  <2>2. QED
    BY <1>3, <2>1 DEF CallbackReturns, DrainOne
<1>4. CASE InstallCallback
  <2>1. thre_irq_pending' \in BOOLEAN
    BY <1>4, Zenon DEF InstallCallback, DrainOne, Release
  <2>2. QED
    BY <1>4, <2>1 DEF InstallCallback, DrainOne
<1>5. CASE RemoveCallback
  BY <1>5 DEF RemoveCallback
<1>6. ASSUME NEW b \in Bytes, PushTx(b)
      PROVE  TxFlagsOK'
  BY <1>6 DEF PushTx, tx_host
<1>7. ASSUME NEW b \in Bytes, PushTxAndDrain(b)
      PROVE  TxFlagsOK'
  <2>1. thre_irq_pending' \in BOOLEAN
    BY <1>7, Zenon DEF PushTxAndDrain
  <2>2. QED
    BY <1>7, <2>1 DEF PushTxAndDrain
<1>8. ASSUME NEW enable \in BOOLEAN, NEW clear \in BOOLEAN, TxWriteFcr(enable, clear)
      PROVE  TxFlagsOK'
  BY <1>8 DEF TxWriteFcr, tx_host
<1>9. CASE TxReset
  BY <1>9 DEF TxReset, tx_host
<1>10. CASE AcknowledgeThre
  BY <1>10 DEF AcknowledgeThre, tx_host
<1>11. CASE RearmThre
  BY <1>11 DEF RearmThre, tx_host
<1>12. CASE UNCHANGED tx_vars
  BY <1>12 DEF tx_vars, tx_host
<1>13. QED
  BY <1>1, <1>2, <1>3, <1>4, <1>5, <1>6, <1>7, <1>8, <1>9, <1>10, <1>11, <1>12
     DEF TxNext, TxHost, TxGuest

(* What the ring's invariant says in plain numbers.                         *)
LEMMA TxNumbers ==
  ASSUME TxRingInv
  PROVE  /\ TX_FIFO_SIZE \in Nat \ {0}
         /\ tx_fifo \in [0 .. TX_FIFO_SIZE - 1 -> Bytes]
         /\ tx_head \in 0 .. TX_FIFO_SIZE - 1
         /\ tx_count \in 0 .. TX_FIFO_SIZE
         /\ tx_peeked \in 0 .. tx_count
         /\ tx_head + tx_peeked <= TX_FIFO_SIZE
         /\ tx_count <= TxCapacity /\ TxCapacity \in 1 .. TX_FIFO_SIZE
  BY TxSizeAssumption, TxCapacityBounds DEF TxRingInv, TxCountersOK, TxSpanSafe, TxSlot

(* One iteration of the drain keeps the ring well formed.                   *)
LEMMA DrainKeeps ==
  ASSUME TxRingInv, tx_count # 0, DrainOne, UNCHANGED <<tx_fifo, span, fifo_enabled>>
  PROVE  TxRingInv'
<1>1. 1 \in 0 .. TX_FIFO_SIZE /\ 1 <= tx_count /\ Release(1)
  BY TxNumbers DEF DrainOne
<1>2. span' \in [start : TxSlot, len : 0 .. TX_FIFO_SIZE]
  BY DEF TxRingInv, TxCountersOK
<1>3. QED
  BY <1>1, <1>2, ReleaseKeeps

(* A byte stored at the tail goes to a cell outside the span.               *)
LEMMA PushKeeps ==
  ASSUME TxRingInv, NEW b \in Bytes, TxCanAccept,
         tx_fifo' = [tx_fifo EXCEPT ![TxTail] = b],
         tx_count' = tx_count + 1,
         UNCHANGED <<tx_head, tx_peeked, span, fifo_enabled>>
  PROVE  TxRingInv'
<1>1. TxCapacity' = TxCapacity
  BY SameTxCapacity
<1>2. tx_count + 1 <= TxCapacity
  BY TxNumbers DEF TxCanAccept
<1>3. tx_fifo' \in [TxSlot -> Bytes]
  BY TxNumbers DEF TxSlot
<1>4. TxCountersOK'
  BY <1>2, <1>3, TxNumbers DEF TxRingInv, TxCountersOK, TxSlot
<1>5. TxSpanSafe'
  BY <1>1, <1>2, TxNumbers DEF TxRingInv, TxSpanSafe
<1>6. QED
  BY <1>4, <1>5 DEF TxRingInv

(* A drain that begins with the guest's write also stores at the tail.      *)
LEMMA PushAndDrainKeeps ==
  ASSUME TxRingInv, NEW b \in Bytes, PushTxAndDrain(b)
  PROVE  TxRingInv'
<1>1. /\ tx_fifo' = [tx_fifo EXCEPT ![TxTail] = b]
      /\ tx_head' = Wrap(tx_head + 1, TX_FIFO_SIZE)
      /\ tx_count' = tx_count /\ tx_peeked' = 0
      /\ UNCHANGED <<span, fifo_enabled>>
  BY DEF PushTxAndDrain
<1>2. TxCapacity' = TxCapacity
  BY <1>1, SameTxCapacity
<1>3. tx_fifo' \in [TxSlot -> Bytes]
  BY <1>1, TxNumbers DEF TxSlot
<1>4. tx_head' \in TxSlot
  <2>1. tx_head' = IF tx_head + 1 < TX_FIFO_SIZE THEN tx_head + 1
                   ELSE tx_head + 1 - TX_FIFO_SIZE
    BY <1>1, TxNumbers, WrapSum
  <2>2. QED
    BY <2>1, TxNumbers DEF TxSlot
<1>5. TxCountersOK'
  BY <1>1, <1>3, <1>4, TxNumbers DEF TxRingInv, TxCountersOK
<1>6. TxSpanSafe'
  BY <1>1, <1>2, <1>4, TxNumbers DEF TxSpanSafe, TxSlot
<1>7. QED
  BY <1>5, <1>6 DEF TxRingInv

(* Each step of host and guest preserves the ring's invariant.              *)
LEMMA TxRingStep ==
  ASSUME TxRingInv, [TxNext]_tx_vars
  PROVE  TxRingInv'
<1>1. CASE TxPeek
  <2>1. /\ tx_count # 0 /\ tx_peeked' = PeekLength
        /\ span' = [start |-> tx_head, len |-> PeekLength]
        /\ UNCHANGED <<tx_fifo, tx_head, tx_count, fifo_enabled>>
        /\ TxCapacity' = TxCapacity
    BY <1>1, SameTxCapacity DEF TxPeek
  <2>2. TxCountersOK'
    BY <2>1, PeekBounds, TxNumbers DEF TxRingInv, TxCountersOK, TxSlot
  <2>3. TxSpanSafe'
    BY <2>1, PeekBounds, TxNumbers DEF TxRingInv, TxSpanSafe
  <2>4. QED
    BY <2>2, <2>3 DEF TxRingInv
<1>2. ASSUME NEW length \in 0 .. TX_FIFO_SIZE, TxConsume(length)
      PROVE  TxRingInv'
  <2>1. /\ span' = NoTxSpan /\ UNCHANGED <<tx_fifo, fifo_enabled>>
        /\ NoTxSpan \in [start : TxSlot, len : 0 .. TX_FIFO_SIZE]
        /\ TxCapacity' = TxCapacity
    BY <1>2, SameTxCapacity, TxSizeAssumption DEF TxConsume, NoTxSpan, TxSlot
  <2>2. CASE length # 0 /\ Consumable(length)
    <3>1. Release(length) /\ length <= tx_count
      BY <1>2, <2>2, TxNumbers DEF TxConsume, Consumable
    <3>2. QED
      BY <2>1, <3>1, ReleaseKeeps
  <2>3. CASE length = 0
    <3>1. tx_peeked' = 0 /\ UNCHANGED <<tx_head, tx_count>>
      BY <1>2, <2>3 DEF TxConsume
    <3>2. QED
      BY <2>1, <3>1, TxNumbers DEF TxRingInv, TxCountersOK, TxSpanSafe, TxSlot
  <2>4. CASE length # 0 /\ ~Consumable(length)
    <3>1. UNCHANGED <<tx_head, tx_count, tx_peeked>>
      BY <1>2, <2>4 DEF TxConsume
    <3>2. tx_peeked = 0
      BY <1>2, <2>4, TxNumbers DEF TxConsume, Consumable, TxRingInv, TxSpanSafe
    <3>3. QED
      BY <2>1, <3>1, <3>2, TxNumbers DEF TxRingInv, TxCountersOK, TxSpanSafe, TxSlot
  <2>5. QED
    BY <2>2, <2>3, <2>4
<1>3. CASE CallbackReturns
  <2>1. UNCHANGED <<tx_fifo, span, fifo_enabled>> /\ TxCapacity' = TxCapacity
    BY <1>3, SameTxCapacity DEF CallbackReturns
  <2>2. CASE tx_callback /\ tx_count # 0
    BY <1>3, <2>1, <2>2, DrainKeeps DEF CallbackReturns
  <2>3. CASE ~(tx_callback /\ tx_count # 0)
    <3>1. UNCHANGED <<tx_head, tx_count, tx_peeked>>
      BY <1>3, <2>3 DEF CallbackReturns
    <3>2. QED
      BY <2>1, <3>1 DEF TxRingInv, TxCountersOK, TxSpanSafe
  <2>4. QED
    BY <2>2, <2>3
<1>4. CASE InstallCallback
  <2>1. UNCHANGED <<tx_fifo, span, fifo_enabled>> /\ TxCapacity' = TxCapacity
    BY <1>4, SameTxCapacity DEF InstallCallback
  <2>2. CASE tx_count # 0
    BY <1>4, <2>1, <2>2, DrainKeeps DEF InstallCallback
  <2>3. CASE tx_count = 0
    <3>1. UNCHANGED <<tx_head, tx_count, tx_peeked>>
      BY <1>4, <2>3 DEF InstallCallback
    <3>2. QED
      BY <2>1, <3>1 DEF TxRingInv, TxCountersOK, TxSpanSafe
  <2>4. QED
    BY <2>2, <2>3
<1>5. CASE RemoveCallback \/ AcknowledgeThre \/ RearmThre \/ UNCHANGED tx_vars
  <2>1. UNCHANGED <<tx_fifo, tx_head, tx_count, tx_peeked, span, fifo_enabled>>
        /\ TxCapacity' = TxCapacity
    BY <1>5, SameTxCapacity
       DEF RemoveCallback, AcknowledgeThre, RearmThre, tx_vars, tx_ring, tx_host
  <2>2. QED
    BY <2>1 DEF TxRingInv, TxCountersOK, TxSpanSafe
<1>6. ASSUME NEW b \in Bytes, PushTx(b)
      PROVE  TxRingInv'
  BY <1>6, PushKeeps DEF PushTx, tx_host
<1>7. ASSUME NEW b \in Bytes, PushTxAndDrain(b)
      PROVE  TxRingInv'
  BY <1>7, PushAndDrainKeeps
<1>8. ASSUME NEW enable \in BOOLEAN, NEW clear \in BOOLEAN, TxWriteFcr(enable, clear)
      PROVE  TxRingInv'
  <2>1. UNCHANGED <<tx_fifo, span>>
    BY <1>8 DEF TxWriteFcr, tx_host
  <2>2. CASE enable # fifo_enabled \/ clear
    BY <1>8, <2>1, <2>2, EmptiedTxRing DEF TxWriteFcr
  <2>3. CASE ~(enable # fifo_enabled \/ clear)
    <3>1. UNCHANGED <<tx_head, tx_count, tx_peeked, fifo_enabled>>
      BY <1>8, <2>3 DEF TxWriteFcr
    <3>2. QED
      BY <2>1, <3>1, SameTxCapacity DEF TxRingInv, TxCountersOK, TxSpanSafe
  <2>4. QED
    BY <2>2, <2>3
<1>9. CASE TxReset
  BY <1>9, EmptiedTxRing DEF TxReset, tx_host
<1>10. QED
  BY <1>1, <1>2, <1>3, <1>4, <1>5, <1>6, <1>7, <1>8, <1>9
     DEF TxNext, TxHost, TxGuest

(* The bytes the host has taken stay a sequence of bytes.                   *)
LEMMA OutStep ==
  ASSUME TxInv, [TxNext]_tx_vars
  PROVE  OutOK'
<1> USE DEF OutOK
<1>0. out \in Seq(Bytes) /\ TxRingInv
  BY DEF TxInv
<1>1. ASSUME DrainOne
      PROVE  out' \in Seq(Bytes)
  <2>1. tx_fifo[tx_head] \in Bytes
    BY <1>0, TxNumbers
  <2>2. QED
    BY <1>0, <1>1, <2>1 DEF DrainOne
<1>2. ASSUME NEW length \in 0 .. TX_FIFO_SIZE, TxConsume(length)
      PROVE  OutOK'
  <2>1. CASE length # 0 /\ Consumable(length)
    <3>1. out' = out \o Copied(length)
      BY <1>2, <2>1 DEF TxConsume
    <3>2. /\ span.start = tx_head /\ length <= tx_peeked
      BY <1>0, <2>1, TxNumbers DEF Consumable, TxRingInv, TxSpanSafe
    <3>3. \A k \in 1 .. length : span.start + k - 1 \in 0 .. TX_FIFO_SIZE - 1
      BY <1>0, <3>2, TxNumbers
    <3>4. Copied(length) \in [1 .. length -> Bytes] /\ length \in Nat
      BY <1>0, <3>3, TxNumbers DEF Copied
    <3>5. Copied(length) \in Seq(Bytes)
      BY <3>4
    <3>6. QED
      BY <1>0, <3>1, <3>5
  <2>2. CASE ~(length # 0 /\ Consumable(length))
    BY <1>0, <1>2, <2>2 DEF TxConsume
  <2>3. QED
    BY <2>1, <2>2
<1>3. CASE TxPeek
  BY <1>0, <1>3 DEF TxPeek
<1>4. CASE CallbackReturns
  BY <1>0, <1>1, <1>4 DEF CallbackReturns
<1>5. CASE InstallCallback
  BY <1>0, <1>1, <1>5 DEF InstallCallback
<1>6. CASE RemoveCallback \/ AcknowledgeThre \/ RearmThre \/ TxReset \/ UNCHANGED tx_vars
  BY <1>0, <1>6 DEF RemoveCallback, AcknowledgeThre, RearmThre, TxReset, tx_vars, tx_host
<1>7. ASSUME NEW b \in Bytes, PushTx(b)
      PROVE  OutOK'
  BY <1>0, <1>7 DEF PushTx, tx_host
<1>8. ASSUME NEW b \in Bytes, PushTxAndDrain(b)
      PROVE  OutOK'
  <2>1. TxRingInv'
    BY <1>0, <1>8, PushAndDrainKeeps
  <2>2. tx_fifo'[tx_head] \in Bytes
    BY <1>0, <2>1, TxNumbers DEF TxRingInv, TxCountersOK, TxSlot
  <2>3. QED
    BY <1>0, <1>8, <2>2 DEF PushTxAndDrain
<1>9. ASSUME NEW enable \in BOOLEAN, NEW clear \in BOOLEAN, TxWriteFcr(enable, clear)
      PROVE  OutOK'
  BY <1>0, <1>9 DEF TxWriteFcr, tx_host
<1>10. QED
  BY <1>2, <1>3, <1>4, <1>5, <1>6, <1>7, <1>8, <1>9 DEF TxNext, TxHost, TxGuest

(* THRE means empty: only a byte from the guest fills the ring, and it      *)
(* withdraws THRE; every release computes it from what is left.             *)
LEMMA ThreStep ==
  ASSUME TxInv, [TxNext]_tx_vars
  PROVE  ThreMeansEmpty'
<1> USE DEF ThreMeansEmpty
<1>0. TxRingInv /\ (thre_irq_pending => tx_count = 0)
  BY DEF TxInv
<1>1. ASSUME NEW length \in 1 .. TX_FIFO_SIZE, length <= tx_count, Release(length)
      PROVE  thre_irq_pending' => tx_count' = 0
  <2>1. tx_count # 0 /\ tx_count' = tx_count - length
    BY <1>0, <1>1, TxNumbers DEF Release
  <2>2. thre_irq_pending' => thre_irq_pending \/ tx_count = length
    BY <1>1, Zenon DEF Release
  <2>3. QED
    BY <1>0, <2>1, <2>2, TxNumbers
<1>2. ASSUME tx_count # 0, DrainOne
      PROVE  thre_irq_pending' => tx_count' = 0
  <2>1. 1 \in 1 .. TX_FIFO_SIZE /\ 1 <= tx_count /\ Release(1)
    BY <1>0, <1>2, TxNumbers DEF DrainOne
  <2>2. QED
    BY <1>1, <2>1
<1>3. ASSUME NEW length \in 0 .. TX_FIFO_SIZE, TxConsume(length)
      PROVE  ThreMeansEmpty'
  <2>1. CASE length # 0 /\ Consumable(length)
    <3>1. length \in 1 .. TX_FIFO_SIZE /\ length <= tx_count /\ Release(length)
      BY <1>0, <1>3, <2>1, TxNumbers DEF TxConsume, Consumable
    <3>2. QED
      BY <1>1, <3>1
  <2>2. CASE ~(length # 0 /\ Consumable(length))
    BY <1>0, <1>3, <2>2 DEF TxConsume
  <2>3. QED
    BY <2>1, <2>2
<1>4. CASE TxPeek
  BY <1>0, <1>4 DEF TxPeek
<1>5. CASE CallbackReturns
  BY <1>0, <1>2, <1>5 DEF CallbackReturns
<1>6. CASE InstallCallback
  BY <1>0, <1>2, <1>6 DEF InstallCallback
<1>7. CASE RemoveCallback \/ AcknowledgeThre \/ RearmThre \/ TxReset \/ UNCHANGED tx_vars
  BY <1>0, <1>7 DEF RemoveCallback, AcknowledgeThre, RearmThre, TxReset, ClearTxFifo,
                    tx_vars, tx_ring
<1>8. ASSUME NEW b \in Bytes, PushTx(b)
      PROVE  ThreMeansEmpty'
  BY <1>8 DEF PushTx
<1>9. ASSUME NEW b \in Bytes, PushTxAndDrain(b)
      PROVE  ThreMeansEmpty'
  BY <1>9 DEF PushTxAndDrain
<1>10. ASSUME NEW enable \in BOOLEAN, NEW clear \in BOOLEAN, TxWriteFcr(enable, clear)
      PROVE  ThreMeansEmpty'
  BY <1>0, <1>10 DEF TxWriteFcr, ClearTxFifo
<1>11. QED
  BY <1>3, <1>4, <1>5, <1>6, <1>7, <1>8, <1>9, <1>10 DEF TxNext, TxHost, TxGuest

(* The guest never runs with a callback installed and bytes waiting: the    *)
(* drain loop, once entered, leaves only when either is gone.               *)
LEMMA CallbackStep ==
  ASSUME TxInv, [TxNext]_tx_vars
  PROVE  CallbackDrains'
<1> USE DEF CallbackDrains
<1>0. TxRingInv /\ (tx_callback /\ ~draining => tx_count = 0)
  BY DEF TxInv
<1>1. CASE TxPeek
  BY <1>0, <1>1 DEF TxPeek
<1>2. ASSUME NEW length \in 0 .. TX_FIFO_SIZE, TxConsume(length)
      PROVE  CallbackDrains'
  <2>1. UNCHANGED <<tx_callback, draining>>
    BY <1>2 DEF TxConsume
  <2>2. CASE length # 0 /\ Consumable(length)
    <3>1. length \in 1 .. tx_count /\ tx_count' = tx_count - length
      BY <1>0, <1>2, <2>2, TxNumbers DEF TxConsume, Consumable, Release
    <3>2. tx_count # 0
      BY <1>0, <3>1, TxNumbers
    <3>3. QED
      BY <1>0, <2>1, <3>2
  <2>3. CASE ~(length # 0 /\ Consumable(length))
    BY <1>0, <1>2, <2>1, <2>3 DEF TxConsume
  <2>4. QED
    BY <2>2, <2>3
<1>3. CASE CallbackReturns
  BY <1>3 DEF CallbackReturns, DrainOne
<1>4. CASE InstallCallback
  BY <1>0, <1>4 DEF InstallCallback, DrainOne
<1>5. CASE RemoveCallback
  BY <1>5 DEF RemoveCallback
<1>6. CASE AcknowledgeThre \/ RearmThre \/ TxReset \/ UNCHANGED tx_vars
  BY <1>0, <1>6 DEF AcknowledgeThre, RearmThre, TxReset, ClearTxFifo, tx_vars, tx_ring, tx_host
<1>7. ASSUME NEW b \in Bytes, PushTx(b)
      PROVE  CallbackDrains'
  BY <1>7 DEF PushTx, tx_host
<1>8. ASSUME NEW b \in Bytes, PushTxAndDrain(b)
      PROVE  CallbackDrains'
  BY <1>8 DEF PushTxAndDrain
<1>9. ASSUME NEW enable \in BOOLEAN, NEW clear \in BOOLEAN, TxWriteFcr(enable, clear)
      PROVE  CallbackDrains'
  BY <1>0, <1>9 DEF TxWriteFcr, ClearTxFifo, tx_host
<1>10. QED
  BY <1>1, <1>2, <1>3, <1>4, <1>5, <1>6, <1>7, <1>8, <1>9 DEF TxNext, TxHost, TxGuest

(* The transmit ring's invariant holds in every reachable state.            *)
THEOREM TxInvariance == TxSpec => []TxInv
<1>1. TxInv /\ [TxNext]_tx_vars => TxInv'
  BY TxFlagsStep, TxRingStep, OutStep, ThreStep, CallbackStep DEF TxInv
<1>2. QED
  BY TxInitInv, <1>1, PTL DEF TxSpec

LEMMA TxInvIsSafe == TxInv => TxRingSafe
  BY TxTypeSplit DEF TxInv, TxRingInv, TxRingSafe

(* The transmit ring is well formed, its span is the one the host holds,    *)
(* THRE means empty and a callback leaves nothing behind, for every size of *)
(* the ring and every alphabet.                                             *)
THEOREM TxRingIsSafe == TxSpec => []TxRingSafe
  BY TxInvIsSafe, TxInvariance, PTL

-----------------------------------------------------------------------------
(* What each step of the transmit ring keeps.                               *)

LEMMA DrainForgetsSpan ==
  ASSUME DrainOne
  PROVE  tx_peeked' = 0
  BY DEF DrainOne, Release

(* Lent bytes neither move nor change while the span is on record.          *)
LEMMA LentStep ==
  ASSUME TxInv, [TxNext]_tx_vars, tx_peeked # 0, tx_peeked' # 0
  PROVE  /\ tx_head' = tx_head
         /\ \A k \in 0 .. tx_peeked - 1 : tx_fifo'[tx_head + k] = tx_fifo[tx_head + k]
<1> DEFINE Stable == /\ tx_head' = tx_head
                     /\ \A k \in 0 .. tx_peeked - 1 :
                          tx_fifo'[tx_head + k] = tx_fifo[tx_head + k]
<1> SUFFICES Stable
  OBVIOUS
<1>0. TxRingInv
  BY DEF TxInv
<1>1. ASSUME UNCHANGED <<tx_fifo, tx_head>>
      PROVE  Stable
  BY <1>1
<1>2. ASSUME NEW b \in Bytes, PushTx(b)
      PROVE  Stable
  <2>1. /\ tx_head' = tx_head /\ tx_fifo' = [tx_fifo EXCEPT ![TxTail] = b]
        /\ tx_count < TxCapacity
    BY <1>2 DEF PushTx, TxCanAccept
  <2>2. ASSUME NEW k \in 0 .. tx_peeked - 1
        PROVE  tx_fifo'[tx_head + k] = tx_fifo[tx_head + k]
    <3>1. TxTail = IF tx_head + tx_count < TX_FIFO_SIZE THEN tx_head + tx_count
                   ELSE tx_head + tx_count - TX_FIFO_SIZE
      BY <1>0, TxTailInSlots DEF TxRingInv
    <3>2. tx_head + k \in 0 .. TX_FIFO_SIZE - 1 /\ tx_head + k # TxTail
      BY <1>0, <2>1, <3>1, TxNumbers
    <3>3. QED
      BY <1>0, <2>1, <3>2, TxNumbers
  <2>3. QED
    BY <2>1, <2>2
<1>3. ASSUME NEW length \in 0 .. TX_FIFO_SIZE, TxConsume(length)
      PROVE  Stable
  BY <1>1, <1>3 DEF TxConsume, Release
<1>4. CASE TxPeek
  BY <1>1, <1>4 DEF TxPeek
<1>5. CASE CallbackReturns
  BY <1>1, <1>5, DrainForgetsSpan DEF CallbackReturns
<1>6. CASE InstallCallback
  BY <1>1, <1>6, DrainForgetsSpan DEF InstallCallback
<1>7. CASE RemoveCallback \/ AcknowledgeThre \/ RearmThre \/ TxReset \/ UNCHANGED tx_vars
  BY <1>1, <1>7 DEF RemoveCallback, AcknowledgeThre, RearmThre, TxReset, ClearTxFifo,
                    tx_vars, tx_ring
<1>8. ASSUME NEW b \in Bytes, PushTxAndDrain(b)
      PROVE  Stable
  BY <1>8 DEF PushTxAndDrain
<1>9. ASSUME NEW enable \in BOOLEAN, NEW clear \in BOOLEAN, TxWriteFcr(enable, clear)
      PROVE  Stable
  BY <1>1, <1>9 DEF TxWriteFcr, ClearTxFifo
<1> HIDE DEF Stable
<1>10. QED
  BY <1>2, <1>3, <1>4, <1>5, <1>6, <1>7, <1>8, <1>9 DEF TxNext, TxHost, TxGuest

(* However the ring is emptied, THRE is latched in the same step.           *)
LEMMA EmptyingStep ==
  ASSUME TxInv, [TxNext]_tx_vars, tx_count # 0, tx_count' = 0
  PROVE  thre_irq_pending'
<1>0. TxRingInv
  BY DEF TxInv
<1>1. ASSUME NEW length \in 0 .. TX_FIFO_SIZE, Release(length)
      PROVE  thre_irq_pending'
  <2>1. tx_count = length
    BY <1>0, <1>1, TxNumbers DEF Release
  <2>2. tx_count = length => thre_irq_pending'
    BY <1>1, Zenon DEF Release
  <2>3. QED
    BY <2>1, <2>2
<1>2. ASSUME DrainOne
      PROVE  thre_irq_pending'
  <2>1. 1 \in 0 .. TX_FIFO_SIZE /\ Release(1)
    BY <1>0, <1>2, TxNumbers DEF DrainOne
  <2>2. QED
    BY <1>1, <2>1
<1>3. ASSUME NEW length \in 0 .. TX_FIFO_SIZE, TxConsume(length)
      PROVE  thre_irq_pending'
  BY <1>1, <1>3 DEF TxConsume
<1>4. CASE TxPeek
  BY <1>4 DEF TxPeek
<1>5. CASE CallbackReturns
  BY <1>2, <1>5 DEF CallbackReturns
<1>6. CASE InstallCallback
  BY <1>2, <1>6 DEF InstallCallback
<1>7. CASE RemoveCallback \/ AcknowledgeThre \/ RearmThre \/ TxReset \/ UNCHANGED tx_vars
  BY <1>7 DEF RemoveCallback, AcknowledgeThre, RearmThre, TxReset, tx_vars, tx_ring
<1>8. ASSUME NEW b \in Bytes, PushTx(b)
      PROVE  thre_irq_pending'
  BY <1>0, <1>8, TxNumbers DEF PushTx
<1>9. ASSUME NEW b \in Bytes, PushTxAndDrain(b)
      PROVE  thre_irq_pending'
  BY <1>9 DEF PushTxAndDrain
<1>10. ASSUME NEW enable \in BOOLEAN, NEW clear \in BOOLEAN, TxWriteFcr(enable, clear)
       PROVE  thre_irq_pending'
  BY <1>10 DEF TxWriteFcr
<1>11. QED
  BY <1>3, <1>4, <1>5, <1>6, <1>7, <1>8, <1>9, <1>10 DEF TxNext, TxHost, TxGuest

(* Lent bytes stay put, and the guest hears of an emptied transmitter.      *)
THEOREM TxKeepsPromises == TxSpec => TxPromisesKept
<1>1. TxInv /\ [TxNext]_tx_vars =>
        [tx_peeked # 0 /\ tx_peeked' # 0 =>
           /\ tx_head' = tx_head
           /\ \A k \in 0 .. tx_peeked - 1 :
                tx_fifo'[tx_head + k] = tx_fifo[tx_head + k]]_tx_vars
  BY LentStep
<1>2. TxInv /\ [TxNext]_tx_vars =>
        [tx_count # 0 /\ tx_count' = 0 => thre_irq_pending']_tx_vars
  BY EmptyingStep
<1>3. QED
  BY <1>1, <1>2, TxInvariance, PTL DEF TxSpec, TxPromisesKept, LentBytesStable, EmptyingRaisesThre

-----------------------------------------------------------------------------
(* The ring with its two host interfaces implements the byte stream.        *)

LEMMA StreamIsRing ==
  ASSUME TxRingInv
  PROVE  IsRing(TxQueue, tx_fifo, tx_head, tx_count, TX_FIFO_SIZE)
  BY RingIsSeq, TxNumbers DEF TxQueue

LEMMA StreamIsRingNext ==
  ASSUME TxRingInv'
  PROVE  IsRing(TxQueue', tx_fifo', tx_head', tx_count', TX_FIFO_SIZE)
<1>1. /\ TX_FIFO_SIZE \in Nat \ {0}
      /\ tx_fifo' \in [0 .. TX_FIFO_SIZE - 1 -> Bytes]
      /\ tx_head' \in 0 .. TX_FIFO_SIZE - 1
      /\ tx_count' \in 0 .. TX_FIFO_SIZE
  BY TxSizeAssumption DEF TxRingInv, TxCountersOK, TxSlot
<1>2. QED
  BY <1>1, RingIsSeq DEF TxQueue

LEMMA StreamFrame ==
  UNCHANGED <<tx_fifo, tx_head, tx_count>> => TxQueue' = TxQueue
  BY DEF TxQueue

LEMMA EmptyStream == tx_count = 0 => TxQueue = <<>>
  BY DEF TxQueue

LEMMA EmptyStreamNext == tx_count' = 0 => TxQueue' = <<>>
  BY DEF TxQueue

LEMMA StreamLength == TxRingInv => TxQueue \in Seq(Bytes) /\ Len(TxQueue) = tx_count
  BY StreamIsRing DEF IsRing

LEMMA StreamLimit == Stream!Limit = TxCapacity
  BY DEF Stream!Limit, TxCapacity, Capacity

(* Whatever number of bytes a step releases, it takes them off the front.   *)
LEMMA ReleaseDrops ==
  ASSUME TxRingInv, TxRingInv', tx_fifo' = tx_fifo,
         NEW length \in 0 .. TX_FIFO_SIZE, length <= tx_count, Release(length)
  PROVE  TxQueue' = SubSeq(TxQueue, length + 1, Len(TxQueue))
<1>1. /\ tx_head' = Wrap(tx_head + length, TX_FIFO_SIZE)
      /\ tx_count' = tx_count - length
  BY DEF Release
<1>2. length \in 0 .. tx_count
  BY TxNumbers
<1>3. IsRing(SubSeq(TxQueue, length + 1, tx_count), tx_fifo,
             Wrap(tx_head + length, TX_FIFO_SIZE), tx_count - length, TX_FIFO_SIZE)
  BY <1>2, StreamIsRing, TxNumbers, RingDrop
<1>4. IsRing(TxQueue', tx_fifo, Wrap(tx_head + length, TX_FIFO_SIZE),
             tx_count - length, TX_FIFO_SIZE)
  BY <1>1, StreamIsRingNext
<1>5. Len(TxQueue) = tx_count
  BY StreamLength
<1>6. QED
  BY <1>3, <1>4, <1>5, RingUnique

(* The bytes the host copies from its span are the oldest ones queued.      *)
LEMMA CopiedIsFront ==
  ASSUME TxRingInv, NEW length \in 1 .. TX_FIFO_SIZE, length <= tx_peeked
  PROVE  Copied(length) = SubSeq(TxQueue, 1, length)
<1>1. span.start = tx_head /\ length \in 1 .. tx_count
  BY TxNumbers DEF TxRingInv, TxSpanSafe
<1>2. IsRing(TxQueue, tx_fifo, tx_head, tx_count, TX_FIFO_SIZE)
  BY StreamIsRing
<1>3. ASSUME NEW k \in 1 .. length
      PROVE  Copied(length)[k] = TxQueue[k] /\ TxQueue[k] \in Bytes
  <2>1. k \in 1 .. tx_count /\ k \in 1 .. TX_FIFO_SIZE /\ tx_head + k - 1 < TX_FIFO_SIZE
    BY <1>1, TxNumbers
  <2>2. /\ Wrap(tx_head + k - 1, TX_FIFO_SIZE) = tx_head + k - 1
        /\ Wrap(tx_head + k - 1, TX_FIFO_SIZE) \in 0 .. TX_FIFO_SIZE - 1
    BY <2>1, TxNumbers, RingCell
  <2>3. TxQueue[k] = tx_fifo[tx_head + k - 1]
    BY <1>2, <2>1, <2>2 DEF IsRing
  <2>4. Copied(length)[k] = tx_fifo[tx_head + k - 1]
    BY <1>1 DEF Copied
  <2>5. QED
    BY <2>2, <2>3, <2>4, TxNumbers
<1>4. /\ SubSeq(TxQueue, 1, length) \in Seq(Bytes)
      /\ Len(SubSeq(TxQueue, 1, length)) = length
      /\ \A k \in 1 .. length : SubSeq(TxQueue, 1, length)[k] = TxQueue[k]
  <2>1. \A k \in 1 .. length : TxQueue[k] \in Bytes
    BY <1>3
  <2>2. 1 \in Int /\ length \in Int
    OBVIOUS
  <2>3. /\ SubSeq(TxQueue, 1, length) \in Seq(Bytes)
        /\ Len(SubSeq(TxQueue, 1, length)) = IF 1 <= length THEN length - 1 + 1 ELSE 0
        /\ \A k \in 1 .. length - 1 + 1 : SubSeq(TxQueue, 1, length)[k] = TxQueue[1 + k - 1]
    BY <2>1, <2>2, SubSeqProperties
  <2>4. (IF 1 <= length THEN length - 1 + 1 ELSE 0) = length /\ length - 1 + 1 = length
    OBVIOUS
  <2>5. ASSUME NEW k \in 1 .. length PROVE SubSeq(TxQueue, 1, length)[k] = TxQueue[k]
    <3>1. 1 + k - 1 = k
      OBVIOUS
    <3>2. SubSeq(TxQueue, 1, length)[k] = TxQueue[1 + k - 1]
      BY <2>3, <2>4
    <3>3. QED
      BY <3>1, <3>2
  <2>6. QED
    BY <2>3, <2>4, <2>5
<1>5. Copied(length) \in Seq(Bytes) /\ Len(Copied(length)) = length
  <2>1. Copied(length) = [k \in 1 .. length |-> tx_fifo[span.start + k - 1]]
    BY DEF Copied
  <2>2. \A k \in 1 .. length : tx_fifo[span.start + k - 1] \in Bytes
    BY <1>3, <2>1
  <2>3. Copied(length) \in [1 .. length -> Bytes] /\ length \in Nat
    BY <2>1, <2>2
  <2>4. DOMAIN Copied(length) = 1 .. length
    BY <2>1
  <2>5. QED
    BY <2>3, <2>4
<1>6. QED
  BY <1>3, <1>4, <1>5, SeqEqual

LEMMA OneByteFront ==
  ASSUME NEW s \in Seq(Bytes), Len(s) # 0
  PROVE  SubSeq(s, 1, 1) = <<s[1]>>
<1>1. Len(s) \in Nat /\ 1 \in 1 .. Len(s)
  BY LenProperties
<1>2. s[1] \in Bytes
  BY <1>1, ElementOfSeq
<1>3. \A k \in 1 .. 1 : s[k] \in Bytes
  BY <1>2
<1>4. /\ SubSeq(s, 1, 1) \in Seq(Bytes)
      /\ Len(SubSeq(s, 1, 1)) = IF 1 <= 1 THEN 1 - 1 + 1 ELSE 0
      /\ \A k \in 1 .. 1 - 1 + 1 : SubSeq(s, 1, 1)[k] = s[1 + k - 1]
  BY <1>3, SubSeqProperties
<1>5. Len(SubSeq(s, 1, 1)) = 1 /\ SubSeq(s, 1, 1)[1] = s[1]
  BY <1>4
<1>6. <<s[1]>> \in Seq(Bytes) /\ Len(<<s[1]>>) = 1 /\ <<s[1]>>[1] = s[1]
  BY <1>2
<1>7. \A k \in 1 .. 1 : SubSeq(s, 1, 1)[k] = <<s[1]>>[k]
  BY <1>5, <1>6
<1>8. QED
  BY <1>4, <1>5, <1>6, <1>7, SeqEqual

(* One byte of the ring is its front.                                       *)
LEMMA FrontByte ==
  ASSUME TxRingInv, tx_count # 0
  PROVE  /\ SubSeq(TxQueue, 1, 1) = <<tx_fifo[tx_head]>>
         /\ tx_fifo[tx_head] \in Bytes
<1>1. IsRing(TxQueue, tx_fifo, tx_head, tx_count, TX_FIFO_SIZE)
  BY StreamIsRing
<1>2. 1 \in 1 .. tx_count /\ 1 \in 1 .. TX_FIFO_SIZE /\ tx_head + 1 - 1 = tx_head
  BY TxNumbers
<1>3. Wrap(tx_head + 1 - 1, TX_FIFO_SIZE) = tx_head
  <2>1. TX_FIFO_SIZE \in Nat \ {0} /\ tx_head \in Nat /\ tx_head < 2 * TX_FIFO_SIZE
        /\ tx_head < TX_FIFO_SIZE
    BY TxNumbers
  <2>2. Wrap(tx_head, TX_FIFO_SIZE) = tx_head
    BY <2>1, WrapStep
  <2>3. QED
    BY <1>2, <2>2
<1>4. TxQueue[1] = tx_fifo[tx_head]
  BY <1>1, <1>2, <1>3 DEF IsRing
<1>5. TxQueue \in Seq(Bytes) /\ Len(TxQueue) = tx_count
  BY <1>1 DEF IsRing
<1>6. SubSeq(TxQueue, 1, 1) = <<TxQueue[1]>>
  BY <1>2, <1>5, TxNumbers, OneByteFront
<1>7. QED
  BY <1>4, <1>6, TxNumbers

LEMMA DrainIsSend ==
  ASSUME TxInv, TxRingInv', tx_count # 0, DrainOne,
         UNCHANGED <<tx_fifo, fifo_enabled>>
  PROVE  Stream!Send(1)
<1>1. TxRingInv /\ out \in Seq(Bytes)
  BY DEF TxInv, OutOK
<1>2. 1 \in 0 .. TX_FIFO_SIZE /\ 1 <= tx_count /\ Release(1)
  BY <1>1, TxNumbers DEF DrainOne
<1>3. TxQueue' = SubSeq(TxQueue, 1 + 1, Len(TxQueue))
  BY <1>1, <1>2, ReleaseDrops
<1>4. out' = Append(out, tx_fifo[tx_head])
  BY DEF DrainOne
<1>5. Append(out, tx_fifo[tx_head]) = out \o <<tx_fifo[tx_head]>>
  BY <1>1, FrontByte, AppendIsConcat
<1>6. out' = out \o SubSeq(TxQueue, 1, 1)
  BY <1>1, <1>4, <1>5, FrontByte
<1>7. 1 <= Len(TxQueue)
  BY <1>1, <1>2, StreamLength
<1>8. QED
  BY <1>3, <1>6, <1>7 DEF Stream!Send

(* A byte that waits goes behind those already queued.                      *)
LEMMA PushIsPut ==
  ASSUME TxInv, TxRingInv', NEW b \in Bytes, PushTx(b)
  PROVE  Stream!Put(b)
<1>1. TxRingInv
  BY DEF TxInv
<1>2. /\ tx_count < TxCapacity /\ tx_count' = tx_count + 1
      /\ tx_fifo' = [tx_fifo EXCEPT ![TxTail] = b]
      /\ UNCHANGED <<tx_head, out, fifo_enabled>>
  BY DEF PushTx, TxCanAccept, tx_host
<1>3. tx_count \in 0 .. TX_FIFO_SIZE - 1
  BY <1>1, <1>2, TxNumbers
<1>4. IsRing(Append(TxQueue, b), [tx_fifo EXCEPT ![Wrap(tx_head + tx_count, TX_FIFO_SIZE)] = b],
             tx_head, tx_count + 1, TX_FIFO_SIZE)
  BY <1>1, <1>3, StreamIsRing, TxNumbers, RingPut
<1>5. IsRing(Append(TxQueue, b), tx_fifo', tx_head, tx_count + 1, TX_FIFO_SIZE)
  BY <1>2, <1>4 DEF TxTail
<1>6. IsRing(TxQueue', tx_fifo', tx_head, tx_count + 1, TX_FIFO_SIZE)
  BY <1>2, StreamIsRingNext
<1>7. TxQueue' = Append(TxQueue, b)
  BY <1>5, <1>6, RingUnique
<1>8. Len(TxQueue) < Stream!Limit
  BY <1>1, <1>2, StreamLength, StreamLimit
<1>9. QED
  BY <1>2, <1>7, <1>8 DEF Stream!Put

(* With a callback installed the ring is empty when the guest writes, so    *)
(* the byte that leaves at once is the one just written.                    *)
LEMMA PushIsPutAndSend ==
  ASSUME TxInv, TxRingInv', NEW b \in Bytes, PushTxAndDrain(b)
  PROVE  Stream!PutAndSend(b)
<1>1. TxRingInv /\ out \in Seq(Bytes)
  BY DEF TxInv, OutOK
<1>2. /\ tx_count = 0 /\ tx_count' = 0
      /\ tx_fifo' = [tx_fifo EXCEPT ![TxTail] = b]
      /\ out' = Append(out, tx_fifo'[tx_head])
      /\ UNCHANGED fifo_enabled
  BY DEF TxInv, CallbackDrains, PushTxAndDrain
<1>3. TxTail = tx_head
  BY <1>1, <1>2, TxTailInSlots, TxNumbers DEF TxRingInv
<1>4. tx_fifo'[tx_head] = b
  BY <1>1, <1>2, <1>3, TxNumbers
<1>5. TxQueue = <<>> /\ TxQueue' = <<>>
  BY <1>2, EmptyStream, EmptyStreamNext
<1>6. Append(TxQueue, b) = <<b>>
  BY <1>5
<1>7. Head(<<b>>) = b /\ Tail(<<b>>) = <<>>
  OBVIOUS
<1>8. Len(TxQueue) < Stream!Limit
  BY <1>1, <1>2, StreamLength, StreamLimit, TxCapacityBounds
<1>9. QED
  BY <1>2, <1>4, <1>5, <1>6, <1>7, <1>8 DEF Stream!PutAndSend

(* Every step of the transmit ring is a step of the stream or leaves it     *)
(* alone.                                                                   *)
LEMMA TxStepIsStreamStep ==
  ASSUME TxInv, TxInv', [TxNext]_tx_vars
  PROVE  [Stream!Next]_(Stream!vars)
<1> USE DEF Stream!vars
<1>0. /\ TxRingInv /\ TxRingInv' /\ 1 \in 1 .. TX_FIFO_SIZE
  BY TxNumbers DEF TxInv
<1>1. ASSUME UNCHANGED <<tx_fifo, tx_head, tx_count, out, fifo_enabled>>
      PROVE  UNCHANGED Stream!vars
  BY <1>1, StreamFrame
<1>2. CASE TxPeek
  BY <1>1, <1>2 DEF TxPeek
<1>3. ASSUME NEW length \in 0 .. TX_FIFO_SIZE, TxConsume(length)
      PROVE  Stream!Next \/ UNCHANGED Stream!vars
  <2>1. CASE length # 0 /\ Consumable(length)
    <3>1. /\ length \in 1 .. TX_FIFO_SIZE /\ length <= tx_peeked /\ length <= tx_count
          /\ Release(length) /\ out' = out \o Copied(length)
          /\ UNCHANGED <<tx_fifo, fifo_enabled>>
      BY <1>0, <1>3, <2>1, TxNumbers DEF TxConsume, Consumable
    <3>2. TxQueue' = SubSeq(TxQueue, length + 1, Len(TxQueue))
      BY <1>0, <3>1, ReleaseDrops
    <3>3. out' = out \o SubSeq(TxQueue, 1, length)
      BY <1>0, <3>1, CopiedIsFront
    <3>4. length <= Len(TxQueue)
      BY <1>0, <3>1, StreamLength
    <3>5. Stream!Send(length)
      BY <3>1, <3>2, <3>3, <3>4 DEF Stream!Send
    <3>6. QED
      BY <3>1, <3>5 DEF Stream!Next
  <2>2. CASE ~(length # 0 /\ Consumable(length))
    BY <1>1, <1>3, <2>2 DEF TxConsume
  <2>3. QED
    BY <2>1, <2>2
<1>4. ASSUME tx_count # 0, DrainOne, UNCHANGED <<tx_fifo, fifo_enabled>>
      PROVE  Stream!Next
  BY <1>0, <1>4, DrainIsSend DEF Stream!Next
<1>5. CASE CallbackReturns
  BY <1>1, <1>4, <1>5 DEF CallbackReturns
<1>6. CASE InstallCallback
  BY <1>1, <1>4, <1>6 DEF InstallCallback
<1>7. CASE RemoveCallback \/ AcknowledgeThre \/ RearmThre \/ UNCHANGED tx_vars
  BY <1>1, <1>7 DEF RemoveCallback, AcknowledgeThre, RearmThre, tx_vars, tx_ring, tx_host
<1>8. ASSUME NEW b \in Bytes, PushTx(b)
      PROVE  Stream!Next
  BY <1>0, <1>8, PushIsPut DEF Stream!Next
<1>9. ASSUME NEW b \in Bytes, PushTxAndDrain(b)
      PROVE  Stream!Next
  BY <1>0, <1>9, PushIsPutAndSend DEF Stream!Next
<1>10. ASSUME ClearTxFifo, fifo_enabled' \in BOOLEAN, out' = out
       PROVE  Stream!Next
  BY <1>10, EmptyStreamNext DEF ClearTxFifo, Stream!Flush, Stream!Next
<1>11. ASSUME NEW enable \in BOOLEAN, NEW clear \in BOOLEAN, TxWriteFcr(enable, clear)
       PROVE  Stream!Next \/ UNCHANGED Stream!vars
  <2>1. CASE enable # fifo_enabled \/ clear
    BY <1>10, <1>11, <2>1 DEF TxWriteFcr, tx_host
  <2>2. CASE ~(enable # fifo_enabled \/ clear)
    BY <1>1, <1>11, <2>2 DEF TxWriteFcr, tx_host
  <2>3. QED
    BY <2>1, <2>2
<1>12. CASE TxReset
  BY <1>10, <1>12 DEF TxReset, tx_host
<1>13. QED
  BY <1>2, <1>3, <1>5, <1>6, <1>7, <1>8, <1>9, <1>11, <1>12 DEF TxNext, TxHost, TxGuest

(* The transmit ring, through spans, callbacks, resets and changes of mode, *)
(* implements the byte stream of ByteStream: each byte the guest wrote      *)
(* reaches the host once and in order unless it is flushed.                 *)
THEOREM TxIsStream == TxSpec => TxImplementsStream
<1>1. TxInit => Stream!Init
  BY EmptyStream DEF TxInit, Stream!Init
<1>2. TxInv /\ TxInv' /\ [TxNext]_tx_vars => [Stream!Next]_(Stream!vars)
  BY TxStepIsStreamStep
<1>3. QED
  BY <1>1, <1>2, TxInvariance, PTL DEF TxSpec, TxImplementsStream, Stream!Spec

-----------------------------------------------------------------------------
(* The whole device: each ring sees only its own steps.                     *)

LEMMA UartStepIsRxStep == [UartNext]_uart_vars => [RxNext]_rx_vars
<1> SUFFICES ASSUME [UartNext]_uart_vars
             PROVE  RxNext \/ UNCHANGED rx_vars
  OBVIOUS
<1>1. ASSUME UNCHANGED <<rx_only, fifo_enabled>>
      PROVE  UNCHANGED rx_vars
  BY <1>1 DEF rx_only, rx_vars
<1>2. CASE ReadRbr
  BY <1>2 DEF ReadRbr, RxNext, RxGuest
<1>3. ASSUME NEW b \in Bytes, WriteThr(b)
      PROVE  UNCHANGED rx_vars
  BY <1>1, <1>3 DEF WriteThr, PushTx, PushTxAndDrain
<1>4. CASE ReadIir
  BY <1>1, <1>4 DEF ReadIir, AcknowledgeThre
<1>5. CASE ReadLsr
  BY <1>5 DEF ReadLsr, RxNext, RxGuest
<1>6. ASSUME NEW enabled \in SUBSET Sources, WriteIer(enabled)
      PROVE  UNCHANGED rx_vars
  BY <1>1, <1>6 DEF WriteIer, RearmThre
<1>7. ASSUME NEW enable \in BOOLEAN, NEW clear_rx \in BOOLEAN, NEW clear_tx \in BOOLEAN,
             WriteFcr(enable, clear_rx, clear_tx)
      PROVE  RxNext
  BY <1>7 DEF WriteFcr, RxNext, RxGuest
<1>8. ASSUME NEW on \in BOOLEAN, WriteLcr(on)
      PROVE  UNCHANGED rx_vars
  BY <1>1, <1>8 DEF WriteLcr
<1>9. CASE UartReset
  BY <1>9 DEF UartReset, RxNext, RxGuest
<1>10. CASE HostReceive
  BY <1>10 DEF HostReceive, RxNext
<1>11. CASE HostTransmit
  <2>1. fifo_enabled' = fifo_enabled
    BY <1>11 DEF HostTransmit, TxHost, TxPeek, TxConsume, CallbackReturns,
                 InstallCallback, RemoveCallback
  <2>2. QED
    BY <1>1, <1>11, <2>1 DEF HostTransmit
<1>12. CASE UNCHANGED uart_vars
  BY <1>12 DEF uart_vars
<1>13. QED
  BY <1>2, <1>3, <1>4, <1>5, <1>6, <1>7, <1>8, <1>9, <1>10, <1>11, <1>12 DEF UartNext, Guest

LEMMA UartStepIsTxStep == [UartNext]_uart_vars => [TxNext]_tx_vars
<1> SUFFICES ASSUME [UartNext]_uart_vars
             PROVE  TxNext \/ UNCHANGED tx_vars
  OBVIOUS
<1>1. ASSUME UNCHANGED <<tx_only, fifo_enabled>>
      PROVE  UNCHANGED tx_vars
  BY <1>1 DEF tx_only, tx_vars
<1>2. CASE ReadRbr
  BY <1>1, <1>2 DEF ReadRbr, RxPop
<1>3. ASSUME NEW b \in Bytes, WriteThr(b)
      PROVE  TxNext
  BY <1>3 DEF WriteThr, TxNext, TxGuest
<1>4. CASE ReadIir
  BY <1>4 DEF ReadIir, TxNext, TxGuest
<1>5. CASE ReadLsr
  BY <1>1, <1>5 DEF ReadLsr, RxReadLsr
<1>6. ASSUME NEW enabled \in SUBSET Sources, WriteIer(enabled)
      PROVE  TxNext \/ UNCHANGED tx_vars
  BY <1>1, <1>6 DEF WriteIer, TxNext, TxGuest
<1>7. ASSUME NEW enable \in BOOLEAN, NEW clear_rx \in BOOLEAN, NEW clear_tx \in BOOLEAN,
             WriteFcr(enable, clear_rx, clear_tx)
      PROVE  TxNext
  BY <1>7 DEF WriteFcr, TxNext, TxGuest
<1>8. ASSUME NEW on \in BOOLEAN, WriteLcr(on)
      PROVE  UNCHANGED tx_vars
  BY <1>1, <1>8 DEF WriteLcr
<1>9. CASE UartReset
  BY <1>9 DEF UartReset, TxNext, TxGuest
<1>10. CASE HostReceive
  <2>1. fifo_enabled' = fifo_enabled
    BY <1>10 DEF HostReceive, RxHost, RxReserve, DmaWrite, RxProduce, RxPush
  <2>2. QED
    BY <1>1, <1>10, <2>1 DEF HostReceive
<1>11. CASE HostTransmit
  BY <1>11 DEF HostTransmit, TxNext
<1>12. CASE UNCHANGED uart_vars
  BY <1>12 DEF uart_vars
<1>13. QED
  BY <1>2, <1>3, <1>4, <1>5, <1>6, <1>7, <1>8, <1>9, <1>10, <1>11, <1>12 DEF UartNext, Guest

(* The composed device implements each of its halves: whatever is proved of *)
(* a ring alone holds in the device.                                        *)
THEOREM UartIsBothRings == UartSpec => RxSpec /\ TxSpec
<1>1. UartInit => RxInit /\ TxInit
  BY DEF UartInit
<1>2. QED
  BY <1>1, UartStepIsRxStep, UartStepIsTxStep, PTL DEF UartSpec, RxSpec, TxSpec

RegistersOK == ier \subseteq Sources /\ dlab \in BOOLEAN

LEMMA RegistersStep == RegistersOK /\ [UartNext]_uart_vars => RegistersOK'
<1> SUFFICES ASSUME RegistersOK, [UartNext]_uart_vars
             PROVE  RegistersOK'
  OBVIOUS
<1> USE DEF RegistersOK
<1>1. ASSUME UNCHANGED <<ier, dlab>>
      PROVE  RegistersOK'
  BY <1>1
<1>2. ASSUME NEW b \in Bytes, WriteThr(b)
      PROVE  RegistersOK'
  BY <1>1, <1>2 DEF WriteThr
<1>3. CASE ReadRbr \/ ReadIir \/ ReadLsr \/ HostReceive \/ HostTransmit
  BY <1>1, <1>3 DEF ReadRbr, ReadIir, ReadLsr, HostReceive, HostTransmit
<1>4. ASSUME NEW enabled \in SUBSET Sources, WriteIer(enabled)
      PROVE  RegistersOK'
  BY <1>4 DEF WriteIer
<1>5. ASSUME NEW enable \in BOOLEAN, NEW clear_rx \in BOOLEAN, NEW clear_tx \in BOOLEAN,
             WriteFcr(enable, clear_rx, clear_tx)
      PROVE  RegistersOK'
  BY <1>1, <1>5 DEF WriteFcr
<1>6. ASSUME NEW on \in BOOLEAN, WriteLcr(on)
      PROVE  RegistersOK'
  BY <1>6 DEF WriteLcr
<1>7. CASE UartReset
  BY <1>7 DEF UartReset
<1>8. CASE UNCHANGED uart_vars
  BY <1>1, <1>8 DEF uart_vars
<1>9. QED
  BY <1>2, <1>3, <1>4, <1>5, <1>6, <1>7, <1>8 DEF UartNext, Guest

UartInv == RxInv /\ TxInv /\ RegistersOK

THEOREM UartInvariance == UartSpec => []UartInv
<1>1. UartInit => RegistersOK
  BY DEF UartInit, RegistersOK
<1>2. UartSpec => []RegistersOK
  BY <1>1, RegistersStep, PTL DEF UartSpec
<1>3. QED
  BY <1>2, UartIsBothRings, RxInvariance, TxInvariance, PTL DEF UartInv

(* The registers of the device hold what their C types allow.               *)
THEOREM UartIsTyped == UartSpec => []UartTypeOK
<1>1. UartInv => UartTypeOK
  BY RxTypeSplit, TxTypeSplit
     DEF UartInv, RxInv, RxRingInv, TxInv, TxRingInv, RegistersOK, UartTypeOK
<1>2. QED
  BY <1>1, UartInvariance, PTL

(* In the composed device the rings still implement their specifications    *)
(* and keep what they promise.                                              *)
THEOREM UartRefines == UartSpec => RxImplementsQueue /\ TxImplementsStream
  BY UartIsBothRings, RxIsQueue, TxIsStream, PTL

THEOREM UartKeepsPromises == UartSpec => PromisesKept
  BY UartIsBothRings, RxKeepsPromises, TxKeepsPromises, PTL DEF PromisesKept

-----------------------------------------------------------------------------
(* Interrupt requests.                                                      *)

LEMMA RequestCauses ==
  IrqPending <=> \/ "LINE_STATUS" \in ier /\ overrun
                 \/ "RX_AVAILABLE" \in ier /\ rx_count # 0
                 \/ "THR_EMPTY" \in ier /\ thre_irq_pending
  BY DEF IrqPending, Iir

LEMMA RequestCausesNext ==
  IrqPending' <=> \/ "LINE_STATUS" \in ier' /\ overrun'
                  \/ "RX_AVAILABLE" \in ier' /\ rx_count' # 0
                  \/ "THR_EMPTY" \in ier' /\ thre_irq_pending'
  BY DEF IrqPending, Iir

(* A host call on the transmitter never withdraws THRE.                     *)
LEMMA TxHostKeepsThre ==
  ASSUME TxHost, thre_irq_pending
  PROVE  thre_irq_pending'
<1>1. ASSUME NEW length, Release(length)
      PROVE  thre_irq_pending'
  BY <1>1, Zenon DEF Release
<1>2. ASSUME DrainOne
      PROVE  thre_irq_pending'
  BY <1>1, <1>2 DEF DrainOne
<1>3. CASE TxPeek
  BY <1>3 DEF TxPeek
<1>4. ASSUME NEW length \in 0 .. TX_FIFO_SIZE, TxConsume(length)
      PROVE  thre_irq_pending'
  BY <1>1, <1>4 DEF TxConsume
<1>5. CASE CallbackReturns
  BY <1>2, <1>5 DEF CallbackReturns
<1>6. CASE InstallCallback
  BY <1>2, <1>6 DEF InstallCallback
<1>7. CASE RemoveCallback
  BY <1>7 DEF RemoveCallback
<1>8. QED
  BY <1>3, <1>4, <1>5, <1>6, <1>7 DEF TxHost

(* A host call on the receiver takes neither a byte nor an error away.      *)
LEMMA RxHostKeepsRequests ==
  ASSUME UartInv, RxHost
  PROVE  /\ overrun => overrun'
         /\ rx_count # 0 => rx_count' # 0
<1>0. rx_count \in Nat /\ RX_FIFO_SIZE \in Nat
  BY RxSizeAssumption DEF UartInv, RxInv, RxRingInv, RxCountersOK
<1>1. CASE RxReserve
  BY <1>1 DEF RxReserve
<1>2. ASSUME NEW i \in Slot, NEW b \in Bytes, DmaWrite(i, b)
      PROVE  UNCHANGED <<overrun, rx_count>>
  BY <1>2 DEF DmaWrite
<1>3. ASSUME NEW length \in 0 .. RX_FIFO_SIZE, RxProduce(length)
      PROVE  UNCHANGED overrun /\ (rx_count # 0 => rx_count' # 0)
  BY <1>0, <1>3 DEF RxProduce
<1>4. ASSUME NEW b \in Bytes, RxPush(b)
      PROVE  (overrun => overrun') /\ (rx_count # 0 => rx_count' # 0)
  BY <1>0, <1>4 DEF RxPush
<1>5. QED
  BY <1>1, <1>2, <1>3, <1>4 DEF RxHost

LEMMA HostStep ==
  ASSUME UartInv, HostReceive \/ HostTransmit, IrqPending
  PROVE  IrqPending'
<1>1. CASE HostReceive
  <2>1. RxHost /\ UNCHANGED <<ier, thre_irq_pending>>
    BY <1>1 DEF HostReceive, tx_only
  <2>2. QED
    BY <2>1, RxHostKeepsRequests, RequestCauses, RequestCausesNext
<1>2. CASE HostTransmit
  <2>1. TxHost /\ UNCHANGED <<ier, overrun, rx_count>>
    BY <1>2 DEF HostTransmit, rx_only, rx_ring
  <2>2. QED
    BY <2>1, TxHostKeepsThre, RequestCauses, RequestCausesNext
<1>3. QED
  BY <1>1, <1>2

(* A latched THRE goes only by a byte to send or by the IIR read that       *)
(* reports it.                                                              *)
LEMMA ThreWithdrawn ==
  ASSUME UartInv, [UartNext]_uart_vars, thre_irq_pending, ~thre_irq_pending'
  PROVE  tx_count' > tx_count \/ Iir = "THR_EMPTY"
<1>0. TxRingInv /\ tx_count = 0
  BY DEF UartInv, TxInv, ThreMeansEmpty
<1>1. CASE ReadRbr \/ ReadLsr \/ HostReceive \/ UNCHANGED uart_vars
  BY <1>1 DEF ReadRbr, ReadLsr, HostReceive, uart_vars, tx_vars, tx_only
<1>2. ASSUME NEW b \in Bytes, WriteThr(b)
      PROVE  tx_count' > tx_count
  <2>1. ASSUME PushTxAndDrain(b)
        PROVE  thre_irq_pending'
    <3>1. tx_count = 0 => thre_irq_pending'
      BY <2>1, Zenon DEF PushTxAndDrain
    <3>2. QED
      BY <1>0, <3>1
  <2>2. PushTx(b)
    BY <1>2, <2>1 DEF WriteThr
  <2>3. QED
    BY <1>0, <2>2 DEF PushTx
<1>3. CASE ReadIir
  BY <1>3 DEF ReadIir
<1>4. ASSUME NEW enabled \in SUBSET Sources, WriteIer(enabled)
      PROVE  FALSE
  BY <1>4 DEF WriteIer, RearmThre, tx_only
<1>5. ASSUME NEW enable \in BOOLEAN, NEW clear_rx \in BOOLEAN, NEW clear_tx \in BOOLEAN,
             WriteFcr(enable, clear_rx, clear_tx)
      PROVE  FALSE
  BY <1>5 DEF WriteFcr, TxWriteFcr
<1>6. ASSUME NEW on \in BOOLEAN, WriteLcr(on)
      PROVE  FALSE
  BY <1>6 DEF WriteLcr, tx_only
<1>7. CASE UartReset
  BY <1>7 DEF UartReset, TxReset
<1>8. CASE HostTransmit
  BY <1>8, TxHostKeepsThre DEF HostTransmit
<1>9. QED
  BY <1>1, <1>2, <1>3, <1>4, <1>5, <1>6, <1>7, <1>8 DEF UartNext, Guest

(* Enabling the THRE source while the transmitter idles requests at once.   *)
LEMMA UnmaskStep ==
  ASSUME [UartNext]_uart_vars, "THR_EMPTY" \in ier' \ ier, tx_count = 0
  PROVE  IrqPending'
<1>1. ASSUME UNCHANGED ier
      PROVE  FALSE
  BY <1>1
<1>2. ASSUME NEW enabled \in SUBSET Sources, WriteIer(enabled)
      PROVE  IrqPending'
  <2>1. ier' = enabled /\ RearmThre
    BY <1>2 DEF WriteIer
  <2>2. thre_irq_pending'
    BY <2>1 DEF RearmThre
  <2>3. QED
    BY <2>2, RequestCausesNext
<1>3. CASE ReadRbr \/ ReadIir \/ ReadLsr \/ HostReceive \/ HostTransmit
  BY <1>1, <1>3 DEF ReadRbr, ReadIir, ReadLsr, HostReceive, HostTransmit
<1>4. ASSUME NEW b \in Bytes, WriteThr(b)
      PROVE  FALSE
  BY <1>1, <1>4 DEF WriteThr
<1>5. ASSUME NEW enable \in BOOLEAN, NEW clear_rx \in BOOLEAN, NEW clear_tx \in BOOLEAN,
             WriteFcr(enable, clear_rx, clear_tx)
      PROVE  FALSE
  BY <1>1, <1>5 DEF WriteFcr
<1>6. ASSUME NEW on \in BOOLEAN, WriteLcr(on)
      PROVE  FALSE
  BY <1>1, <1>6 DEF WriteLcr
<1>7. CASE UartReset
  BY <1>7 DEF UartReset
<1>8. CASE UNCHANGED uart_vars
  BY <1>1, <1>8 DEF uart_vars
<1>9. QED
  BY <1>2, <1>3, <1>4, <1>5, <1>6, <1>7, <1>8 DEF UartNext, Guest

(* An interrupt request reaches the guest it is for: no other cause and no  *)
(* host call takes it back, and a late enable does not miss it.             *)
THEOREM UartKeepsRequests == UartSpec => RequestsKept
<1>1. UartInv /\ [UartNext]_uart_vars =>
        [thre_irq_pending /\ ~thre_irq_pending' =>
           tx_count' > tx_count \/ Iir = "THR_EMPTY"]_uart_vars
  BY ThreWithdrawn
<1>2. [UartNext]_uart_vars =>
        [("THR_EMPTY" \in ier' \ ier) /\ tx_count = 0 => IrqPending']_uart_vars
  BY UnmaskStep
<1>3. UartInv /\ [UartNext]_uart_vars =>
        [HostReceive \/ HostTransmit => (IrqPending => IrqPending')]_uart_vars
  BY HostStep
<1>4. QED
  BY <1>1, <1>2, <1>3, UartInvariance, PTL
     DEF UartSpec, RequestsKept, ThreNotStolen, UnmaskingIdleInterrupts, HostNeverWithdraws

-----------------------------------------------------------------------------
(* Answering.                                                               *)

LEMMA AnswerStep ==
  ASSUME UartInv, AnswerInterrupt
  PROVE  Work' = Work - 1
<1>0. rx_count \in Nat /\ (thre_irq_pending => tx_count = 0)
  BY DEF UartInv, RxInv, RxRingInv, RxCountersOK, TxInv, ThreMeansEmpty
<1> DEFINE waiting == thre_irq_pending \/ tx_count # 0
<1>1. CASE Iir = "LINE_STATUS" /\ ReadLsr
  <2>1. overrun
    BY <1>1 DEF Iir
  <2>2. ~overrun' /\ rx_count' = rx_count /\ waiting' = waiting
    BY <1>1 DEF ReadLsr, RxReadLsr, rx_ring, tx_only, tx_ring
  <2>3. QED BY <1>0, <2>1, <2>2 DEF Work, One
<1>2. CASE Iir = "RX_AVAILABLE" /\ ReadRbr
  <2>1. rx_count' = rx_count - 1 /\ overrun' = overrun /\ waiting' = waiting
    BY <1>2 DEF ReadRbr, RxPop, tx_only, tx_ring
  <2>2. QED BY <1>0, <2>1 DEF Work, One
<1>3. CASE ReadIir
  <2>1. thre_irq_pending
    BY <1>3 DEF ReadIir, Iir
  <2>2. ~thre_irq_pending' /\ tx_count' = tx_count /\ rx_count' = rx_count /\ overrun' = overrun
    BY <1>3 DEF ReadIir, AcknowledgeThre, tx_ring, rx_only, rx_ring
  <2>3. waiting /\ ~waiting'
    BY <1>0, <2>1, <2>2
  <2>4. QED BY <1>0, <2>2, <2>3 DEF Work, One
<1>4. QED BY <1>1, <1>2, <1>3 DEF AnswerInterrupt

(* The host finds nothing to send where nothing waits: an idle transmitter  *)
(* that has been acknowledged stays silent.                                 *)
LEMMA IdleStaysSilent ==
  ASSUME UartInv, TxHost, ~thre_irq_pending, tx_count = 0
  PROVE  ~thre_irq_pending' /\ tx_count' = 0
<1>1. CASE TxPeek
  BY <1>1 DEF TxPeek
<1>2. ASSUME NEW length \in 0 .. TX_FIFO_SIZE, TxConsume(length)
      PROVE  UNCHANGED <<thre_irq_pending, tx_count>>
  <2>1. tx_peeked \in Nat /\ tx_peeked <= tx_count
    BY DEF UartInv, TxInv, TxRingInv, TxCountersOK, TxSpanSafe
  <2>2. Consumable(length) => length = 0
    BY <2>1, TxSizeAssumption DEF Consumable
  <2>3. QED BY <1>2, <2>2 DEF TxConsume
<1>3. CASE CallbackReturns
  BY <1>3 DEF CallbackReturns
<1>4. CASE InstallCallback
  BY <1>4 DEF InstallCallback
<1>5. CASE RemoveCallback
  BY <1>5 DEF RemoveCallback, tx_ring
<1>6. QED
  BY <1>1, <1>2, <1>3, <1>4, <1>5 DEF TxHost

LEMMA TransmitStep ==
  ASSUME UartInv, HostTransmit
  PROVE  Work' <= Work
<1>0. rx_count \in Nat
  BY DEF UartInv, RxInv, RxRingInv, RxCountersOK
<1>1. TxHost /\ rx_count' = rx_count /\ overrun' = overrun
  BY DEF HostTransmit, rx_only, rx_ring
<1> DEFINE waiting == thre_irq_pending \/ tx_count # 0
<1>2. waiting' => waiting
  BY <1>1, IdleStaysSilent
<1>3. One(waiting)' <= One(waiting)
  BY <1>2 DEF One
<1>4. One(overrun)' = One(overrun) /\ One(overrun) \in Nat /\ One(waiting) \in Nat
  BY <1>1 DEF One
<1>5. One(waiting)' \in Nat
  BY DEF One
<1>6. QED
  BY <1>0, <1>1, <1>3, <1>4, <1>5 DEF Work

(* A handler that answers the reported cause, one after the other, has one  *)
(* thing less to answer each time, and the host's side of the transmitter   *)
(* adds nothing: for every size of the rings a request is down after as     *)
(* many answers as there was work.                                          *)
THEOREM UartWorkFalls == UartSpec => [](Work \in Nat) /\ WorkFalls
<1>1. UartInv => Work \in Nat
  BY DEF UartInv, RxInv, RxRingInv, RxCountersOK, Work, One
<1>2. UartInv /\ [UartNext]_uart_vars =>
        [/\ AnswerInterrupt => Work' = Work - 1
         /\ HostTransmit => Work' <= Work]_uart_vars
  BY AnswerStep, TransmitStep
<1>3. QED
  BY <1>1, <1>2, UartInvariance, PTL DEF UartSpec, WorkFalls

-----------------------------------------------------------------------------
(* The bus.  Histories: what was last stored, as functions of the log.      *)

Value == [0 .. 3 -> 0 .. 255]
LogEntries == [op : {"store"}, a : Nat, w : {1, 2, 4}, value : Value] \union [op : {"reset"}]

Address(reg) == UART_BASE + reg * REG_STRIDE

Hits(lg, x) == {i \in DOMAIN lg : lg[i].op = "store" /\ x - lg[i].a \in 0 .. lg[i].w - 1}
ByteIn(lg, x) ==
  IF Hits(lg, x) = {} THEN 0 ELSE lg[Max(Hits(lg, x))].value[x - lg[Max(Hits(lg, x))].a]

ResetsIn(lg) == {i \in DOMAIN lg : lg[i].op = "reset"}
BootedIn(lg) == IF ResetsIn(lg) = {} THEN 0 ELSE Max(ResetsIn(lg))
ToIn(lg, reg) == {i \in BootedIn(lg) + 1 .. Len(lg) : lg[i].a = Address(reg)}
LastByte(lg, S) == IF S = {} THEN 0 ELSE lg[Max(S)].value[0]
DlabIn(lg, i) == LastByte(lg, {k \in ToIn(lg, 3) : k < i}) >= 128
DivisorsIn(lg, reg) == {i \in ToIn(lg, reg) : DlabIn(lg, i)}
GivenIn(lg, reg) == {i \in ToIn(lg, reg) : ~DlabIn(lg, i)}

LEMMA MaxOfSome ==
  ASSUME NEW n \in Nat, NEW S \in SUBSET (1 .. n), S # {}
  PROVE  Max(S) \in S /\ \A y \in S : Max(S) >= y
<1> DEFINE gaps == {n - k : k \in S}
<1>1. gaps \subseteq Nat /\ gaps # {}
  <2>1. \A k \in S : n - k \in Nat
    OBVIOUS
  <2>2. gaps \subseteq Nat
    BY <2>1
  <2>3. PICK k : k \in S
    OBVIOUS
  <2>4. n - k \in gaps
    BY <2>3
  <2>5. QED BY <2>2, <2>4
<1>2. PICK least \in gaps : \A g \in gaps : ~ (<<g, least>> \in OpToRel(<, Nat))
  BY <1>1, NatLessThanWellFounded, WFMin
<1>3. PICK t \in S : least = n - t
  OBVIOUS
<1>4. ASSUME NEW y \in S PROVE t >= y
  <2>1. n - y \in gaps /\ n - y \in Nat /\ least \in Nat /\ y \in 1 .. n /\ t \in 1 .. n
    BY <1>1
  <2>2. n - y < least => <<n - y, least>> \in OpToRel(<, Nat)
    BY <2>1 DEF OpToRel
  <2>3. ~ (n - y < least)
    BY <1>2, <2>1, <2>2
  <2>4. QED BY <1>3, <2>1, <2>3
<1>5. \E x \in S : \A y \in S : x >= y
  BY <1>4
<1>6. QED BY <1>5, Zenon DEF Max

LEMMA MaxOfAdded ==
  ASSUME NEW n \in Nat, NEW S \in SUBSET (1 .. n)
  PROVE  Max(S \union {n + 1}) = n + 1
<1>1. S \union {n + 1} \in SUBSET (1 .. n + 1) /\ S \union {n + 1} # {}
  OBVIOUS
<1>2. PICK m : m = Max(S \union {n + 1})
  OBVIOUS
<1>3. m \in S \union {n + 1} /\ m >= n + 1
  BY <1>1, <1>2, MaxOfSome
<1>4. QED BY <1>2, <1>3

LEMMA EntryIsOne ==
  ASSUME NEW e \in LogEntries
  PROVE  \/ /\ e.op = "store" /\ e.a \in Nat /\ e.w \in {1, 2, 4} /\ e.value \in Value
         \/ e.op = "reset"
BY DEF LogEntries

LEMMA AppendIs ==
  ASSUME NEW lg \in Seq(LogEntries), NEW e \in LogEntries
  PROVE  /\ Append(lg, e) \in Seq(LogEntries) /\ Len(Append(lg, e)) = Len(lg) + 1
         /\ DOMAIN lg = 1 .. Len(lg) /\ DOMAIN Append(lg, e) = 1 .. Len(lg) + 1
         /\ Len(lg) \in Nat /\ Append(lg, e)[Len(lg) + 1] = e
         /\ \A i \in 1 .. Len(lg) : Append(lg, e)[i] = lg[i]
OBVIOUS

LEMMA ByteGrows ==
  ASSUME NEW lg \in Seq(LogEntries), NEW e \in LogEntries, NEW x \in Nat
  PROVE  ByteIn(Append(lg, e), x) =
           IF e.op = "store" /\ x - e.a \in 0 .. e.w - 1 THEN e.value[x - e.a] ELSE ByteIn(lg, x)
<1>1. PICK l, n : l = Append(lg, e) /\ n = Len(lg)
  OBVIOUS
<1>2. /\ n \in Nat /\ DOMAIN lg = 1 .. n /\ DOMAIN l = 1 .. n + 1 /\ l[n + 1] = e
      /\ \A i \in 1 .. n : l[i] = lg[i]
  BY <1>1, AppendIs
<1>3. PICK S : S = Hits(lg, x)
  OBVIOUS
<1>4. S \in SUBSET (1 .. n)
  BY <1>2, <1>3 DEF Hits
<1>5. CASE e.op = "store" /\ x - e.a \in 0 .. e.w - 1
  <2>1. Hits(l, x) = S \union {n + 1}
    BY <1>2, <1>3, <1>5 DEF Hits
  <2>2. Max(Hits(l, x)) = n + 1
    BY <1>2, <1>4, <2>1, MaxOfAdded
  <2>3. Hits(l, x) # {}
    BY <2>1
  <2>4. ByteIn(l, x) = l[n + 1].value[x - l[n + 1].a]
    BY <2>2, <2>3, Zenon DEF ByteIn
  <2>5. QED BY <1>1, <1>2, <1>5, <2>4
<1>6. CASE ~(e.op = "store" /\ x - e.a \in 0 .. e.w - 1)
  <2>1. Hits(l, x) = S
    BY <1>2, <1>3, <1>6 DEF Hits
  <2>2. CASE S = {}
    BY <1>1, <1>3, <1>6, <2>1, <2>2 DEF ByteIn
  <2>3. CASE S # {}
    <3>1. Max(S) \in 1 .. n
      BY <1>2, <1>4, <2>3, MaxOfSome
    <3>2. l[Max(S)] = lg[Max(S)]
      BY <1>2, <3>1
    <3>3. ByteIn(l, x) = lg[Max(S)].value[x - lg[Max(S)].a]
      BY <2>1, <2>3, <3>2, Zenon DEF ByteIn
    <3>4. ByteIn(lg, x) = lg[Max(S)].value[x - lg[Max(S)].a]
      BY <1>3, <2>3, Zenon DEF ByteIn
    <3>5. QED BY <1>1, <1>6, <3>3, <3>4
  <2>4. QED BY <2>2, <2>3
<1>7. QED BY <1>5, <1>6

LEMMA BootedIsBehind ==
  ASSUME NEW lg \in Seq(LogEntries)
  PROVE  /\ BootedIn(lg) \in 0 .. Len(lg)
         /\ \A i \in BootedIn(lg) + 1 .. Len(lg) :
              /\ lg[i].op = "store" /\ lg[i].a \in Nat /\ lg[i].w \in {1, 2, 4}
              /\ lg[i].value \in Value
<1>1. PICK n, S : n = Len(lg) /\ S = ResetsIn(lg)
  OBVIOUS
<1>2. n \in Nat /\ DOMAIN lg = 1 .. n /\ \A i \in 1 .. n : lg[i] \in LogEntries
  BY <1>1
<1>3. S \in SUBSET (1 .. n)
  BY <1>1, <1>2 DEF ResetsIn
<1>4. BootedIn(lg) \in 0 .. n /\ \A i \in BootedIn(lg) + 1 .. n : i \notin S
  <2>1. CASE S = {}
    BY <1>1, <1>2, <2>1 DEF BootedIn
  <2>2. CASE S # {}
    <3>1. PICK m : m = Max(S)
      OBVIOUS
    <3>2. m \in S /\ \A y \in S : m >= y
      BY <1>2, <1>3, <2>2, <3>1, MaxOfSome
    <3>3. BootedIn(lg) = m
      BY <1>1, <2>2, <3>1 DEF BootedIn
    <3>4. QED BY <1>2, <1>3, <3>2, <3>3
  <2>3. QED BY <2>1, <2>2
<1>5. ASSUME NEW i \in BootedIn(lg) + 1 .. n
      PROVE  lg[i].op = "store" /\ lg[i].a \in Nat /\ lg[i].w \in {1, 2, 4} /\ lg[i].value \in Value
  <2>1. i \in 1 .. n /\ i \notin S
    BY <1>2, <1>4
  <2>2. lg[i].op # "reset" /\ lg[i] \in LogEntries
    BY <1>1, <1>2, <2>1 DEF ResetsIn
  <2>3. QED BY <2>2, EntryIsOne
<1>6. QED BY <1>1, <1>4, <1>5

LEMMA ToIsPart ==
  ASSUME NEW lg \in Seq(LogEntries), NEW reg
  PROVE  ToIn(lg, reg) \in SUBSET (1 .. Len(lg))
<1>1. BootedIn(lg) \in 0 .. Len(lg) /\ Len(lg) \in Nat
  BY BootedIsBehind
<1>2. QED BY <1>1 DEF ToIn

\* A reset forgets all of it; ...
LEMMA ResetForgets ==
  ASSUME NEW lg \in Seq(LogEntries), NEW e \in LogEntries, e.op = "reset", NEW reg
  PROVE  ToIn(Append(lg, e), reg) = {}
<1>1. PICK l, n, S : l = Append(lg, e) /\ n = Len(lg) /\ S = ResetsIn(lg)
  OBVIOUS
<1>2. /\ n \in Nat /\ DOMAIN lg = 1 .. n /\ DOMAIN l = 1 .. n + 1 /\ Len(l) = n + 1
      /\ l[n + 1] = e /\ \A i \in 1 .. n : l[i] = lg[i]
  BY <1>1, AppendIs
<1>3. S \in SUBSET (1 .. n) /\ ResetsIn(l) = S \union {n + 1}
  BY <1>1, <1>2 DEF ResetsIn
<1>4. Max(ResetsIn(l)) = n + 1 /\ ResetsIn(l) # {}
  BY <1>2, <1>3, MaxOfAdded
<1>5. BootedIn(l) = n + 1
  BY <1>4 DEF BootedIn
<1>6. BootedIn(l) + 1 .. Len(l) = {}
  BY <1>2, <1>5
<1>7. QED BY <1>1, <1>6, Zenon DEF ToIn

\* ... a store adds itself.
LEMMA StoreAdds ==
  ASSUME NEW lg \in Seq(LogEntries), NEW e \in LogEntries, e.op = "store", NEW reg
  PROVE  ToIn(Append(lg, e), reg) =
           ToIn(lg, reg) \union (IF e.a = Address(reg) THEN {Len(lg) + 1} ELSE {})
<1>1. PICK l, n, S : l = Append(lg, e) /\ n = Len(lg) /\ S = ResetsIn(lg)
  OBVIOUS
<1>2. /\ n \in Nat /\ DOMAIN lg = 1 .. n /\ DOMAIN l = 1 .. n + 1 /\ Len(l) = n + 1
      /\ l[n + 1] = e /\ \A i \in 1 .. n : l[i] = lg[i]
  BY <1>1, AppendIs
<1>3. ResetsIn(l) = S
  BY <1>1, <1>2 DEF ResetsIn
<1>4. PICK b : b = BootedIn(lg)
  OBVIOUS
<1>5. BootedIn(l) = b /\ b \in 0 .. n
  BY <1>1, <1>3, <1>4, BootedIsBehind DEF BootedIn
<1>6. ToIn(l, reg) = {i \in b + 1 .. n + 1 : l[i].a = Address(reg)}
  BY <1>2, <1>5 DEF ToIn
<1>7. ToIn(lg, reg) = {i \in b + 1 .. n : lg[i].a = Address(reg)}
  BY <1>1, <1>4 DEF ToIn
<1>8. b + 1 .. n + 1 = (b + 1 .. n) \union {n + 1} /\ b + 1 .. n \subseteq 1 .. n
  BY <1>2, <1>5
<1>9. \A i \in b + 1 .. n : l[i] = lg[i]
  BY <1>2, <1>8
<1>10. {i \in b + 1 .. n + 1 : l[i].a = Address(reg)} =
         {i \in b + 1 .. n : lg[i].a = Address(reg)}
           \union (IF e.a = Address(reg) THEN {n + 1} ELSE {})
  BY <1>2, <1>8, <1>9
<1>11. QED BY <1>1, <1>6, <1>7, <1>10

LEMMA LastStays ==
  ASSUME NEW lg \in Seq(LogEntries), NEW e \in LogEntries, NEW S \in SUBSET (1 .. Len(lg))
  PROVE  LastByte(Append(lg, e), S) = LastByte(lg, S)
<1>1. PICK n : n = Len(lg)
  OBVIOUS
<1>2. CASE S = {}
  BY <1>2 DEF LastByte
<1>3. CASE S # {}
  <2>1. Max(S) \in 1 .. n
    <3>1. n \in Nat /\ S \in SUBSET (1 .. n)
      BY <1>1
    <3>2. QED BY <1>3, <3>1, MaxOfSome
  <2>2. Append(lg, e)[Max(S)] = lg[Max(S)]
    BY <1>1, <2>1, AppendIs
  <2>3. QED BY <2>2 DEF LastByte
<1>4. QED BY <1>2, <1>3

LEMMA LastIsNew ==
  ASSUME NEW lg \in Seq(LogEntries), NEW e \in LogEntries, NEW S \in SUBSET (1 .. Len(lg))
  PROVE  LastByte(Append(lg, e), S \union {Len(lg) + 1}) = e.value[0]
<1>1. Max(S \union {Len(lg) + 1}) = Len(lg) + 1 /\ S \union {Len(lg) + 1} # {}
  <2>1. Len(lg) \in Nat
    OBVIOUS
  <2>2. QED BY <2>1, MaxOfAdded
<1>2. Append(lg, e)[Len(lg) + 1] = e
  BY AppendIs
<1>3. QED BY <1>1, <1>2, Zenon DEF LastByte

LEMMA DlabStays ==
  ASSUME NEW lg \in Seq(LogEntries), NEW e \in LogEntries, e.op = "store",
         NEW i \in 1 .. Len(lg) + 1
  PROVE  DlabIn(Append(lg, e), i) = DlabIn(lg, i)
<1>1. PICK n, S : n = Len(lg) /\ S = ToIn(lg, 3)
  OBVIOUS
<1>2. n \in Nat /\ S \in SUBSET (1 .. n)
  BY <1>1, ToIsPart
<1>3. ToIn(Append(lg, e), 3) = S \/ ToIn(Append(lg, e), 3) = S \union {n + 1}
  <2>1. ToIn(Append(lg, e), 3) = S \union (IF e.a = Address(3) THEN {n + 1} ELSE {})
    BY <1>1, StoreAdds
  <2>2. QED BY <2>1
<1>4. {k \in ToIn(Append(lg, e), 3) : k < i} = {k \in S : k < i}
  BY <1>1, <1>2, <1>3
<1>5. {k \in S : k < i} \in SUBSET (1 .. Len(lg))
  BY <1>1, <1>2
<1>6. LastByte(Append(lg, e), {k \in S : k < i}) = LastByte(lg, {k \in S : k < i})
  BY <1>5, LastStays
<1>7. QED BY <1>1, <1>4, <1>6 DEF DlabIn

\* DLAB as the next store will find it.
LEMMA DlabNow ==
  ASSUME NEW lg \in Seq(LogEntries)
  PROVE  DlabIn(lg, Len(lg) + 1) <=> LastByte(lg, ToIn(lg, 3)) >= 128
<1>1. ToIn(lg, 3) \in SUBSET (1 .. Len(lg)) /\ Len(lg) \in Nat
  BY ToIsPart
<1>2. {k \in ToIn(lg, 3) : k < Len(lg) + 1} = ToIn(lg, 3)
  BY <1>1
<1>3. QED BY <1>2 DEF DlabIn

LEMMA SelectionGrows ==
  ASSUME NEW lg \in Seq(LogEntries), NEW e \in LogEntries, e.op = "store", NEW reg
  PROVE  LET hides == DlabIn(lg, Len(lg) + 1)
             here == e.a = Address(reg)
         IN  /\ DivisorsIn(Append(lg, e), reg) =
                  DivisorsIn(lg, reg) \union (IF here /\ hides THEN {Len(lg) + 1} ELSE {})
             /\ GivenIn(Append(lg, e), reg) =
                  GivenIn(lg, reg) \union (IF here /\ ~hides THEN {Len(lg) + 1} ELSE {})
<1>1. PICK l, n, S, T : /\ l = Append(lg, e) /\ n = Len(lg) /\ S = ToIn(lg, reg)
                        /\ T = ToIn(l, reg)
  OBVIOUS
<1>2. n \in Nat /\ S \in SUBSET (1 .. n)
  BY <1>1, ToIsPart
<1>3. T = S \union (IF e.a = Address(reg) THEN {n + 1} ELSE {})
  BY <1>1, StoreAdds
<1>4. \A i \in 1 .. n + 1 : DlabIn(l, i) = DlabIn(lg, i)
  BY <1>1, DlabStays
<1>5. \A i \in T : DlabIn(l, i) = DlabIn(lg, i)
  BY <1>2, <1>3, <1>4
<1>6. DivisorsIn(l, reg) = {i \in T : DlabIn(l, i)} /\ GivenIn(l, reg) = {i \in T : ~DlabIn(l, i)}
  BY <1>1 DEF DivisorsIn, GivenIn
<1>7. DivisorsIn(lg, reg) = {i \in S : DlabIn(lg, i)} /\ GivenIn(lg, reg) = {i \in S : ~DlabIn(lg, i)}
  BY <1>1 DEF DivisorsIn, GivenIn
<1>8. QED BY <1>1, <1>3, <1>5, <1>6, <1>7
\* What a set of stores last wrote, one store later.
LEMMA LastGrows ==
  ASSUME NEW lg \in Seq(LogEntries), NEW e \in LogEntries, NEW S \in SUBSET (1 .. Len(lg)),
         NEW c \in BOOLEAN
  PROVE  LastByte(Append(lg, e), S \union (IF c THEN {Len(lg) + 1} ELSE {})) =
           IF c THEN e.value[0] ELSE LastByte(lg, S)
<1>1. CASE c
  BY <1>1, LastIsNew
<1>2. CASE ~c
  <2>1. S \union (IF c THEN {Len(lg) + 1} ELSE {}) = S
    BY <1>2
  <2>2. LastByte(Append(lg, e), S) = LastByte(lg, S)
    BY LastStays
  <2>3. QED BY <1>2, <2>1, <2>2
<1>3. QED BY <1>1, <1>2

-----------------------------------------------------------------------------
(* The windows.                                                             *)

Aperture == FB_BASE .. FB_BASE + FB_CAPACITY - 1
RamBytes == 0 .. MEMORY_SIZE - 1

\* An aligned access lies in a window or outside it, never across an edge.
LEMMA AccessIsWhole ==
  ASSUME NEW a \in Nat, NEW w \in {1, 2, 4}, a % w = 0, NEW i \in 0 .. w - 1
  PROVE  /\ framebuffer_range_valid(a, w) <=> a + i \in Aperture
         /\ address_range_valid(a, w) <=> a + i \in RamBytes
         /\ uart16550_mmio_contains(a, w) =>
              a + i \notin Aperture /\ a + i \notin RamBytes
<1>1. PICK base, size, memory : base = FB_BASE /\ size = FB_CAPACITY /\ memory = MEMORY_SIZE
  OBVIOUS
<1>2. /\ base \in Nat /\ size \in Nat /\ memory \in Nat
      /\ base % 4 = 0 /\ size % 4 = 0 /\ memory % 4 = 0 /\ size > 0 /\ memory > 0
  BY <1>1, BusAssumption
<1>3. /\ (a >= base /\ a - base <= size - w) <=> (a + i >= base /\ a + i <= base + size - 1)
      /\ (w <= memory /\ a <= memory - w) <=> (a + i <= memory - 1)
  <2>1. CASE w = 1
    BY <1>2, <2>1
  <2>2. CASE w = 2
    BY <1>2, <2>2
  <2>3. CASE w = 4
    BY <1>2, <2>3
  <2>4. QED BY <2>1, <2>2, <2>3
<1>4. framebuffer_range_valid(a, w) <=> a + i \in Aperture
  BY <1>1, <1>2, <1>3 DEF framebuffer_range_valid, Aperture
<1>5. address_range_valid(a, w) <=> a + i \in RamBytes
  BY <1>1, <1>2, <1>3 DEF address_range_valid, RamBytes
<1>6. uart16550_mmio_contains(a, w) => a + i \notin Aperture /\ a + i \notin RamBytes
  <2> SUFFICES ASSUME uart16550_mmio_contains(a, w)
               PROVE  a + i \notin Aperture /\ a + i \notin RamBytes
    OBVIOUS
  <2>1. UART_BASE \in Nat /\ UART_BASE <= a + i /\ a + i < UART_BASE + 32
    BY BusAssumption DEF uart16550_mmio_contains, REGISTER_COUNT, REG_STRIDE
  <2>2. MEMORY_SIZE <= UART_BASE /\ (UART_BASE + 32 <= FB_BASE \/ FB_BASE + FB_CAPACITY <= UART_BASE)
    BY BusAssumption DEF REGISTER_COUNT, REG_STRIDE
  <2>3. QED BY <1>1, <1>2, <2>1, <2>2 DEF Aperture, RamBytes
<1>7. QED BY <1>4, <1>5, <1>6

\* The four bytes of a register: only the first counts.
LEMMA AtRegister ==
  ASSUME NEW reg \in 0 .. 7, NEW w \in {1, 2, 4}
  PROVE  /\ Address(reg) \in Nat /\ Address(reg) % w = 0 /\ Address(reg) - UART_BASE = 4 * reg
         /\ uart16550_mmio_contains(Address(reg), w)
         /\ ~framebuffer_range_valid(Address(reg), w)
         /\ \A other \in 0 .. 7 : Address(other) = Address(reg) <=> other = reg
<1>1. PICK base : base = UART_BASE
  OBVIOUS
<1>2. base \in Nat /\ base % 4 = 0
  BY <1>1, BusAssumption
<1>3. /\ Address(reg) = base + 4 * reg
      /\ \A other \in 0 .. 7 : Address(other) = base + 4 * other
  BY <1>1, <1>2 DEF Address, REG_STRIDE
<1>4. Address(reg) \in Nat /\ Address(reg) % w = 0
  <2>1. CASE w = 1
    BY <1>2, <1>3, <2>1
  <2>2. CASE w = 2
    BY <1>2, <1>3, <2>2
  <2>3. CASE w = 4
    BY <1>2, <1>3, <2>3
  <2>4. QED BY <2>1, <2>2, <2>3
<1>5. uart16550_mmio_contains(Address(reg), w)
  BY <1>1, <1>2, <1>3 DEF uart16550_mmio_contains, REGISTER_COUNT, REG_STRIDE
<1>6. ~framebuffer_range_valid(Address(reg), w)
  <2>1. 0 \in 0 .. w - 1 /\ Address(reg) + 0 = Address(reg)
    BY <1>4
  <2>2. QED BY <1>4, <1>5, <2>1, AccessIsWhole
<1>7. QED BY <1>1, <1>2, <1>3, <1>4, <1>5, <1>6

\* An aligned store reaches one register or none.
LEMMA StoreReaches ==
  ASSUME NEW a \in Nat, NEW w \in {1, 2, 4}, a % w = 0, NEW value,
         platform_bus_write(a, w, value)
  PROVE  \/ \E reg \in 0 .. 7 : a = Address(reg) /\ write_register(reg, value[0])
         \/ (\A reg \in 0 .. 7 : a # Address(reg)) /\ UNCHANGED <<latch, thr>>
<1>1. PICK base, offset : base = UART_BASE /\ offset = a - UART_BASE
  OBVIOUS
<1>2. base \in Nat /\ base % 4 = 0
  BY <1>1, BusAssumption
<1>3. CASE \E reg \in 0 .. 7 : a = Address(reg)
  <2>1. PICK reg \in 0 .. 7 : a = Address(reg)
    BY <1>3
  <2>2. /\ uart16550_mmio_contains(a, w) /\ ~framebuffer_range_valid(a, w)
        /\ a - UART_BASE = 4 * reg
    BY <2>1, AtRegister
  <2>3. uart16550_mmio_write(a, value)
    BY <2>2 DEF platform_bus_write
  <2>4. (4 * reg) % 4 = 0 /\ (4 * reg) \div 4 = reg
    OBVIOUS
  <2>5. (a - UART_BASE) % REG_STRIDE = 0 /\ (a - UART_BASE) \div REG_STRIDE = reg
    BY <2>2, <2>4, Zenon DEF REG_STRIDE
  <2>6. write_register(reg, value[0])
    BY <2>3, <2>5, Zenon DEF uart16550_mmio_write
  <2>7. QED BY <2>1, <2>6
<1>4. CASE \A reg \in 0 .. 7 : a # Address(reg)
  <2>1. CASE ~uart16550_mmio_contains(a, w)
    BY <1>4, <2>1 DEF platform_bus_write
  <2>2. CASE framebuffer_range_valid(a, w)
    BY <1>4, <2>2 DEF platform_bus_write
  <2>3. CASE uart16550_mmio_contains(a, w) /\ ~framebuffer_range_valid(a, w)
    <3>1. offset \in 0 .. 31
      BY <1>1, <1>2, <2>3 DEF uart16550_mmio_contains, REGISTER_COUNT, REG_STRIDE
    <3>2. offset % 4 # 0
      <4>1. SUFFICES ASSUME offset % 4 = 0 PROVE FALSE
        OBVIOUS
      <4>2. offset \div 4 \in 0 .. 7 /\ offset = (offset \div 4) * 4
        BY <3>1, <4>1
      <4>3. a = Address(offset \div 4)
        BY <1>1, <1>2, <4>2 DEF Address, REG_STRIDE
      <4>4. QED BY <1>4, <4>2, <4>3
    <3>3. uart16550_mmio_write(a, value)
      BY <2>3 DEF platform_bus_write
    <3>4. UNCHANGED <<latch, thr>>
      BY <1>1, <3>2, <3>3 DEF uart16550_mmio_write, REG_STRIDE
    <3>5. QED BY <1>4, <3>4
  <2>4. QED BY <2>1, <2>2, <2>3
<1>5. QED BY <1>3, <1>4

-----------------------------------------------------------------------------
(* The invariant: memory and registers hold what the history says.          *)

Fields == {"divisor_latch_low", "divisor_latch_high", "ier", "lcr", "mcr", "scr"}

BusTyped ==
  /\ ram \in [RamBytes -> 0 .. 255]
  /\ framebuffer \in [0 .. FB_CAPACITY - 1 -> 0 .. 255]
  /\ latch \in [Fields -> 0 .. 255]
  /\ thr \in Seq(0 .. 255)
  /\ log \in Seq(LogEntries)

MemoryHolds(lg) ==
  /\ \A x \in Aperture : framebuffer[x - FB_BASE] = ByteIn(lg, x)
  /\ \A x \in RamBytes \ Aperture : ram[x] = ByteIn(lg, x)

LatchHolds(lg) ==
  /\ latch.divisor_latch_low = LastByte(lg, DivisorsIn(lg, 0))
  /\ latch.divisor_latch_high = LastByte(lg, DivisorsIn(lg, 1))
  /\ latch.ier = LastByte(lg, GivenIn(lg, 1)) % 16
  /\ latch.lcr = LastByte(lg, ToIn(lg, 3))
  /\ latch.mcr = LastByte(lg, ToIn(lg, 4)) % 32
  /\ latch.scr = LastByte(lg, ToIn(lg, 7))

Sent(t, lg, S) ==
  /\ Len(t) = Cardinality(S)
  /\ \A i \in S : t[Cardinality({k \in S : k <= i})] = lg[i].value[0]

BusInv == BusTyped /\ MemoryHolds(log) /\ LatchHolds(log) /\ Sent(thr, log, GivenIn(log, 0))

LEMMA SelectionIsPart ==
  ASSUME NEW lg \in Seq(LogEntries), NEW reg
  PROVE  /\ DivisorsIn(lg, reg) \in SUBSET (1 .. Len(lg))
         /\ GivenIn(lg, reg) \in SUBSET (1 .. Len(lg))
<1>1. ToIn(lg, reg) \in SUBSET (1 .. Len(lg))
  BY ToIsPart
<1>2. QED BY <1>1 DEF DivisorsIn, GivenIn

LEMMA BusStart == BusInit => BusInv
<1> SUFFICES ASSUME BusInit PROVE BusInv
  OBVIOUS
<1>1. PICK lg : lg = log
  OBVIOUS
<1>2. lg = <<>> /\ lg \in Seq(LogEntries) /\ Len(lg) = 0 /\ DOMAIN lg = {}
  BY <1>1 DEF BusInit
<1>3. \A x : ByteIn(lg, x) = 0
  BY <1>2 DEF ByteIn, Hits
<1>4. \A reg : ToIn(lg, reg) = {} /\ DivisorsIn(lg, reg) = {} /\ GivenIn(lg, reg) = {}
  <2>1. \A reg : ToIn(lg, reg) = {}
    <3> TAKE reg
    <3>1. ToIn(lg, reg) \in SUBSET (1 .. Len(lg))
      BY <1>2, ToIsPart
    <3>2. QED BY <1>2, <3>1
  <2>2. QED BY <2>1 DEF DivisorsIn, GivenIn
<1>5. BusTyped
  BY <1>1, <1>2, BusAssumption DEF BusInit, BusTyped, ResetLatch, Fields, RamBytes
<1>6. MemoryHolds(log)
  BY <1>1, <1>3, BusAssumption DEF BusInit, MemoryHolds, Aperture, RamBytes
<1>7. LatchHolds(log)
  BY <1>1, <1>4 DEF BusInit, LatchHolds, LastByte, ResetLatch
<1>8. Sent(thr, log, GivenIn(log, 0))
  BY <1>1, <1>4, FS_EmptySet DEF BusInit, Sent
<1>9. QED BY <1>5, <1>6, <1>7, <1>8 DEF BusInv
LEMMA StoreEntry ==
  ASSUME NEW a \in Nat, NEW w \in {1, 2, 4}, NEW value \in Value
  PROVE  LET e == [op |-> "store", a |-> a, w |-> w, value |-> value]
         IN  /\ e \in LogEntries /\ e.op = "store" /\ e.a = a /\ e.w = w /\ e.value = value
BY DEF LogEntries

LEMMA MemoryKept ==
  ASSUME BusTyped, MemoryHolds(log), NEW s \in Stores, Store(s[1], s[2], s[3])
  PROVE  ram' \in [RamBytes -> 0 .. 255] /\ framebuffer' \in [0 .. FB_CAPACITY - 1 -> 0 .. 255]
         /\ MemoryHolds(log)'
<1>1. PICK a, w, value, e : /\ a = s[1] /\ w = s[2] /\ value = s[3]
                            /\ e = [op |-> "store", a |-> a, w |-> w, value |-> value]
  OBVIOUS
<1>2. a \in Nat /\ w \in {1, 2, 4} /\ value \in Value /\ a % w = 0
  BY <1>1 DEF Stores, Value
<1>3. e \in LogEntries /\ e.op = "store" /\ e.a = a /\ e.w = w /\ e.value = value
  BY <1>1, <1>2, StoreEntry
<1>4. log' = Append(log, e) /\ platform_bus_write(a, w, value)
  BY <1>1 DEF Store
<1>5. ASSUME NEW x \in Nat
      PROVE  ByteIn(log', x) = IF x - a \in 0 .. w - 1 THEN value[x - a] ELSE ByteIn(log, x)
  BY <1>3, <1>4, ByteGrows DEF BusTyped
<1>6. PICK base, size, in_aperture, in_ram :
        /\ base = FB_BASE /\ size = FB_CAPACITY
        /\ in_aperture = framebuffer_range_valid(a, w)
        /\ in_ram = (~in_aperture /\ ~uart16550_mmio_contains(a, w) /\ address_range_valid(a, w))
  OBVIOUS
<1>7. base \in Nat /\ size \in Nat /\ MEMORY_SIZE \in Nat
  BY <1>6, BusAssumption
<1>8. framebuffer' = IF in_aperture THEN Stored(framebuffer, a - base, w, value) ELSE framebuffer
  BY <1>4, <1>6, Zenon DEF platform_bus_write
<1>9. ram' = IF in_ram THEN Stored(ram, a, w, value) ELSE ram
  BY <1>4, <1>6 DEF platform_bus_write
<1>10. value \in [0 .. 3 -> 0 .. 255]
  BY <1>2 DEF Value
<1>11. framebuffer' \in [0 .. FB_CAPACITY - 1 -> 0 .. 255]
  <2>1. CASE in_aperture
    <3>1. a - base \in Nat
      <4>1. a >= base
        BY <1>6, <2>1, Zenon DEF framebuffer_range_valid
      <4>2. QED BY <1>2, <1>7, <4>1
    <3>2. \A i \in 0 .. FB_CAPACITY - 1 : i - (a - base) \in 0 .. w - 1 => i - (a - base) \in 0 .. 3
      BY <1>2, <3>1
    <3>3. QED BY <1>8, <1>10, <2>1, <3>2 DEF Stored, BusTyped
  <2>2. CASE ~in_aperture
    BY <1>8, <2>2 DEF BusTyped
  <2>3. QED BY <2>1, <2>2
<1>12. ram' \in [RamBytes -> 0 .. 255]
  <2>1. CASE in_ram
    <3>1. \A i \in RamBytes : i - a \in 0 .. w - 1 => i - a \in 0 .. 3
      BY <1>2
    <3>2. QED BY <1>9, <1>10, <2>1, <3>1 DEF Stored, BusTyped
  <2>2. CASE ~in_ram
    BY <1>9, <2>2 DEF BusTyped
  <2>3. QED BY <2>1, <2>2
<1>13. ASSUME NEW x \in Aperture PROVE framebuffer'[x - FB_BASE] = ByteIn(log', x)
  <2>1. x \in Nat /\ x - base \in 0 .. FB_CAPACITY - 1 /\ framebuffer[x - base] = ByteIn(log, x)
    BY <1>6, <1>7 DEF Aperture, MemoryHolds
  <2>2. CASE x - a \in 0 .. w - 1
    <3>1. a + (x - a) = x /\ (x - base) - (a - base) = x - a
      BY <1>2, <1>7, <2>1
    <3>2. in_aperture
      BY <1>2, <1>6, <2>2, <3>1, AccessIsWhole
    <3>3. framebuffer'[x - base] = value[x - a]
      BY <1>8, <2>1, <2>2, <3>1, <3>2 DEF Stored, BusTyped
    <3>4. QED BY <1>5, <1>6, <2>1, <2>2, <3>3
  <2>3. CASE x - a \notin 0 .. w - 1
    <3>1. (x - base) - (a - base) = x - a
      BY <1>2, <1>7, <2>1
    <3>2. framebuffer'[x - base] = framebuffer[x - base]
      BY <1>8, <2>1, <2>3, <3>1 DEF Stored, BusTyped
    <3>3. QED BY <1>5, <1>6, <2>1, <2>3, <3>2
  <2>4. QED BY <2>2, <2>3
<1>14. ASSUME NEW x \in RamBytes \ Aperture PROVE ram'[x] = ByteIn(log', x)
  <2>1. x \in Nat /\ x \in RamBytes /\ x \notin Aperture /\ ram[x] = ByteIn(log, x)
    BY <1>7 DEF RamBytes, MemoryHolds
  <2>2. CASE x - a \in 0 .. w - 1
    <3>1. a + (x - a) = x
      BY <1>2, <2>1
    <3>2. in_ram
      BY <1>2, <1>6, <2>1, <2>2, <3>1, AccessIsWhole
    <3>3. ram'[x] = value[x - a]
      BY <1>9, <2>1, <2>2, <3>2 DEF Stored, BusTyped
    <3>4. QED BY <1>5, <2>1, <2>2, <3>3
  <2>3. CASE x - a \notin 0 .. w - 1
    <3>1. ram'[x] = ram[x]
      BY <1>9, <2>1, <2>3 DEF Stored, BusTyped
    <3>2. QED BY <1>5, <2>1, <2>3, <3>1
  <2>4. QED BY <2>2, <2>3
<1>15. QED BY <1>11, <1>12, <1>13, <1>14 DEF MemoryHolds

\* A write to a register, by field.
LEMMA RegisterWritten ==
  ASSUME latch \in [Fields -> 0 .. 255], thr \in Seq(0 .. 255),
         NEW reg \in 0 .. 7, NEW byte \in 0 .. 255, write_register(reg, byte)
  PROVE  /\ latch' \in [Fields -> 0 .. 255] /\ thr' \in Seq(0 .. 255)
         /\ latch'.divisor_latch_low = IF reg = 0 /\ Dlab THEN byte ELSE latch.divisor_latch_low
         /\ latch'.divisor_latch_high = IF reg = 1 /\ Dlab THEN byte ELSE latch.divisor_latch_high
         /\ latch'.ier = IF reg = 1 /\ ~Dlab THEN byte % 16 ELSE latch.ier
         /\ latch'.lcr = IF reg = 3 THEN byte ELSE latch.lcr
         /\ latch'.mcr = IF reg = 4 THEN byte % 32 ELSE latch.mcr
         /\ latch'.scr = IF reg = 7 THEN byte ELSE latch.scr
         /\ thr' = IF reg = 0 /\ ~Dlab THEN Append(thr, byte) ELSE thr
<1>1. PICK field : field = Selected(reg)
  OBVIOUS
<1>2. /\ latch' = IF field \in Fields THEN [latch EXCEPT ![field] = Kept(field, byte)] ELSE latch
      /\ thr' = IF field = "thr" THEN Append(thr, byte) ELSE thr
  <2>1. DOMAIN latch = Fields
    OBVIOUS
  <2>2. QED BY <1>1, <2>1, Zenon DEF write_register
<1>3. Kept(field, byte) = IF field = "ier" THEN byte % 16 ELSE IF field = "mcr" THEN byte % 32 ELSE byte
  BY DEF Kept
<1>4. byte % 16 \in 0 .. 255 /\ byte % 32 \in 0 .. 255
  OBVIOUS
<1>5. latch' \in [Fields -> 0 .. 255] /\ thr' \in Seq(0 .. 255)
  <2>1. Kept(field, byte) \in 0 .. 255
    BY <1>3, <1>4
  <2>2. latch' \in [Fields -> 0 .. 255]
    BY <1>2, <2>1
  <2>3. Append(thr, byte) \in Seq(0 .. 255)
    OBVIOUS
  <2>4. QED BY <1>2, <2>2, <2>3
<1>6. /\ field = "divisor_latch_low" <=> reg = 0 /\ Dlab
      /\ field = "divisor_latch_high" <=> reg = 1 /\ Dlab
      /\ field = "ier" <=> reg = 1 /\ ~Dlab
      /\ field = "lcr" <=> reg = 3
      /\ field = "mcr" <=> reg = 4
      /\ field = "scr" <=> reg = 7
      /\ field = "thr" <=> reg = 0 /\ ~Dlab
  BY <1>1 DEF Selected
<1>7. \A f \in Fields : latch'[f] = IF f = field THEN Kept(field, byte) ELSE latch[f]
  BY <1>2
<1>8. QED
  BY <1>2, <1>3, <1>5, <1>6, <1>7 DEF Fields

\* What is behind the transmitter's register, one byte more.
LEMMA SentGrows ==
  ASSUME NEW t \in Seq(0 .. 255), NEW lg \in Seq(LogEntries), NEW e \in LogEntries,
         NEW S \in SUBSET (1 .. Len(lg)), Sent(t, lg, S), NEW byte \in 0 .. 255,
         e.value[0] = byte
  PROVE  Sent(Append(t, byte), Append(lg, e), S \union {Len(lg) + 1})
<1>1. PICK n, l, m, T : /\ n = Len(lg) /\ l = Append(lg, e) /\ m = Len(t)
                        /\ T = S \union {n + 1}
  OBVIOUS
<1>2. n \in Nat /\ m \in Nat /\ S \in SUBSET (1 .. n) /\ l[n + 1] = e /\ \A i \in 1 .. n : l[i] = lg[i]
  BY <1>1, AppendIs
<1>3. IsFiniteSet(S) /\ m = Cardinality(S)
  <2>1. IsFiniteSet(1 .. n)
    BY <1>2, FS_Interval
  <2>2. IsFiniteSet(S)
    BY <1>2, <2>1, FS_Subset
  <2>3. QED BY <1>1, <2>2 DEF Sent
<1>4. Cardinality(T) = m + 1
  <2>1. n + 1 \notin S
    BY <1>2
  <2>2. QED BY <1>1, <1>3, <2>1, FS_AddElement
<1>5. Len(Append(t, byte)) = m + 1 /\ Append(t, byte)[m + 1] = byte
      /\ \A i \in 1 .. m : Append(t, byte)[i] = t[i]
  BY <1>1
<1>6. ASSUME NEW i \in S
      PROVE  Append(t, byte)[Cardinality({k \in T : k <= i})] = l[i].value[0]
  <2>1. i \in 1 .. n
    BY <1>2
  <2>2. PICK U : U = {k \in S : k <= i}
    OBVIOUS
  <2>3. {k \in T : k <= i} = U
    BY <1>1, <1>2, <2>1, <2>2
  <2>4. U \in SUBSET S /\ U # {}
    BY <2>1, <2>2
  <2>5. Cardinality(U) \in 1 .. m
    <3>1. IsFiniteSet(U) /\ Cardinality(U) <= m
      BY <1>3, <2>4, FS_Subset
    <3>2. Cardinality(U) \in Nat /\ Cardinality(U) # 0
      BY <2>4, <3>1, FS_CardinalityType, FS_EmptySet
    <3>3. QED BY <1>2, <3>1, <3>2
  <2>6. t[Cardinality(U)] = lg[i].value[0]
    BY <2>2 DEF Sent
  <2>7. QED BY <1>2, <1>5, <2>1, <2>3, <2>5, <2>6
<1>7. Append(t, byte)[Cardinality({k \in T : k <= n + 1})] = l[n + 1].value[0]
  <2>1. {k \in T : k <= n + 1} = T
    <3>1. ASSUME NEW k \in T PROVE k <= n + 1
      <4>1. k \in S \/ k = n + 1
        BY <1>1
      <4>2. k \in S => k \in 1 .. n
        BY <1>2
      <4>3. n + 1 <= n + 1 /\ \A j \in 1 .. n : j <= n + 1
        BY <1>2
      <4>4. QED BY <4>1, <4>2, <4>3, Zenon
    <3>2. QED BY <3>1
  <2>2. QED BY <1>2, <1>4, <1>5, <2>1
<1>8. \A i \in T : Append(t, byte)[Cardinality({k \in T : k <= i})] = l[i].value[0]
  BY <1>1, <1>6, <1>7
<1>9. QED BY <1>1, <1>4, <1>5, <1>8 DEF Sent

LEMMA SentStays ==
  ASSUME NEW t, NEW lg \in Seq(LogEntries), NEW e \in LogEntries,
         NEW S \in SUBSET (1 .. Len(lg)), Sent(t, lg, S)
  PROVE  Sent(t, Append(lg, e), S)
<1>1. \A i \in S : Append(lg, e)[i] = lg[i]
  BY AppendIs
<1>2. QED BY <1>1 DEF Sent
LEMMA RegistersKept ==
  ASSUME BusTyped, LatchHolds(log), Sent(thr, log, GivenIn(log, 0)),
         NEW s \in Stores, Store(s[1], s[2], s[3])
  PROVE  /\ latch' \in [Fields -> 0 .. 255] /\ thr' \in Seq(0 .. 255)
         /\ log' \in Seq(LogEntries)
         /\ LatchHolds(log)' /\ Sent(thr, log, GivenIn(log, 0))'
<1>1. PICK a, w, value, e, byte, lg, l :
        /\ a = s[1] /\ w = s[2] /\ value = s[3] /\ byte = value[0] /\ lg = log /\ l = log'
        /\ e = [op |-> "store", a |-> a, w |-> w, value |-> value]
  OBVIOUS
<1>2. a \in Nat /\ w \in {1, 2, 4} /\ value \in Value /\ a % w = 0 /\ byte \in 0 .. 255
  BY <1>1 DEF Stores, Value
<1>3. e \in LogEntries /\ e.op = "store" /\ e.a = a /\ e.value[0] = byte
  BY <1>1, <1>2, StoreEntry
<1>4. l = Append(lg, e) /\ platform_bus_write(a, w, value)
  BY <1>1 DEF Store
<1>5. lg \in Seq(LogEntries) /\ l \in Seq(LogEntries)
  BY <1>1, <1>3, <1>4, AppendIs DEF BusTyped
<1>6. PICK next, d : next = Len(lg) + 1 /\ d = DlabIn(lg, next)
  OBVIOUS
<1>7. Dlab <=> d
  BY <1>1, <1>5, <1>6, DlabNow DEF Dlab, LatchHolds
\* What the history says afterwards.
<1>8. ASSUME NEW reg
      PROVE  /\ LastByte(l, ToIn(l, reg)) =
                  IF a = Address(reg) THEN byte ELSE LastByte(lg, ToIn(lg, reg))
             /\ LastByte(l, DivisorsIn(l, reg)) =
                  IF a = Address(reg) /\ d THEN byte ELSE LastByte(lg, DivisorsIn(lg, reg))
             /\ LastByte(l, GivenIn(l, reg)) =
                  IF a = Address(reg) /\ ~d THEN byte ELSE LastByte(lg, GivenIn(lg, reg))
  <2>1. ASSUME NEW S \in SUBSET (1 .. Len(lg)), NEW T, NEW c \in BOOLEAN,
               T = S \union (IF c THEN {next} ELSE {})
        PROVE  LastByte(l, T) = IF c THEN byte ELSE LastByte(lg, S)
    BY <1>3, <1>4, <1>5, <1>6, <2>1, LastGrows
  <2>2. ToIn(l, reg) = ToIn(lg, reg) \union (IF a = Address(reg) THEN {next} ELSE {})
    BY <1>3, <1>4, <1>5, <1>6, StoreAdds
  <2>3. /\ DivisorsIn(l, reg) =
             DivisorsIn(lg, reg) \union (IF a = Address(reg) /\ d THEN {next} ELSE {})
        /\ GivenIn(l, reg) =
             GivenIn(lg, reg) \union (IF a = Address(reg) /\ ~d THEN {next} ELSE {})
    BY <1>3, <1>4, <1>5, <1>6, SelectionGrows
  <2>4. /\ ToIn(lg, reg) \in SUBSET (1 .. Len(lg))
        /\ DivisorsIn(lg, reg) \in SUBSET (1 .. Len(lg))
        /\ GivenIn(lg, reg) \in SUBSET (1 .. Len(lg))
    BY <1>5, ToIsPart, SelectionIsPart
  <2>5. LastByte(l, ToIn(l, reg)) =
          IF a = Address(reg) THEN byte ELSE LastByte(lg, ToIn(lg, reg))
    <3>1. (a = Address(reg)) \in BOOLEAN
      OBVIOUS
    <3>2. QED BY <2>1, <2>2, <2>4, <3>1, Zenon
  <2>6. LastByte(l, DivisorsIn(l, reg)) =
          IF a = Address(reg) /\ d THEN byte ELSE LastByte(lg, DivisorsIn(lg, reg))
    <3>1. (a = Address(reg) /\ d) \in BOOLEAN
      OBVIOUS
    <3>2. QED BY <2>1, <2>3, <2>4, <3>1, Zenon
  <2>7. LastByte(l, GivenIn(l, reg)) =
          IF a = Address(reg) /\ ~d THEN byte ELSE LastByte(lg, GivenIn(lg, reg))
    <3>1. (a = Address(reg) /\ ~d) \in BOOLEAN
      OBVIOUS
    <3>2. QED BY <2>1, <2>3, <2>4, <3>1, Zenon
  <2>8. QED BY <2>5, <2>6, <2>7
\* What the registers hold afterwards.
<1>9. /\ latch' \in [Fields -> 0 .. 255] /\ thr' \in Seq(0 .. 255)
      /\ latch'.divisor_latch_low =
           IF a = Address(0) /\ d THEN byte ELSE latch.divisor_latch_low
      /\ latch'.divisor_latch_high =
           IF a = Address(1) /\ d THEN byte ELSE latch.divisor_latch_high
      /\ latch'.ier = IF a = Address(1) /\ ~d THEN byte % 16 ELSE latch.ier
      /\ latch'.lcr = IF a = Address(3) THEN byte ELSE latch.lcr
      /\ latch'.mcr = IF a = Address(4) THEN byte % 32 ELSE latch.mcr
      /\ latch'.scr = IF a = Address(7) THEN byte ELSE latch.scr
      /\ thr' = IF a = Address(0) /\ ~d THEN Append(thr, byte) ELSE thr
  <2>1. latch \in [Fields -> 0 .. 255] /\ thr \in Seq(0 .. 255)
    BY DEF BusTyped
  <2>2. CASE \E reg \in 0 .. 7 : a = Address(reg) /\ write_register(reg, value[0])
    <3>1. PICK reg \in 0 .. 7 : a = Address(reg) /\ write_register(reg, byte)
      BY <1>1, <2>2
    <3>2. \A other \in 0 .. 7 : a = Address(other) <=> reg = other
      BY <3>1, AtRegister
    <3>3. /\ a = Address(0) <=> reg = 0
          /\ a = Address(1) <=> reg = 1
          /\ a = Address(3) <=> reg = 3
          /\ a = Address(4) <=> reg = 4
          /\ a = Address(7) <=> reg = 7
      BY <3>2
    <3>4. /\ latch' \in [Fields -> 0 .. 255] /\ thr' \in Seq(0 .. 255)
          /\ latch'.divisor_latch_low = IF reg = 0 /\ Dlab THEN byte ELSE latch.divisor_latch_low
          /\ latch'.divisor_latch_high = IF reg = 1 /\ Dlab THEN byte ELSE latch.divisor_latch_high
          /\ latch'.ier = IF reg = 1 /\ ~Dlab THEN byte % 16 ELSE latch.ier
          /\ latch'.lcr = IF reg = 3 THEN byte ELSE latch.lcr
          /\ latch'.mcr = IF reg = 4 THEN byte % 32 ELSE latch.mcr
          /\ latch'.scr = IF reg = 7 THEN byte ELSE latch.scr
          /\ thr' = IF reg = 0 /\ ~Dlab THEN Append(thr, byte) ELSE thr
      BY <1>2, <2>1, <3>1, RegisterWritten, ZenonT(60)
    <3>5. QED BY <1>7, <3>3, <3>4
  <2>3. CASE (\A reg \in 0 .. 7 : a # Address(reg)) /\ UNCHANGED <<latch, thr>>
    <3>1. a # Address(0) /\ a # Address(1) /\ a # Address(3) /\ a # Address(4) /\ a # Address(7)
      BY <2>3
    <3>2. QED BY <2>1, <2>3, <3>1
  <2>4. \/ \E reg \in 0 .. 7 : a = Address(reg) /\ write_register(reg, value[0])
        \/ (\A reg \in 0 .. 7 : a # Address(reg)) /\ UNCHANGED <<latch, thr>>
    BY <1>2, <1>4, StoreReaches
  <2>5. QED BY <2>2, <2>3, <2>4
<1>10. LatchHolds(log)'
  <2>1. /\ latch'.divisor_latch_low = LastByte(l, DivisorsIn(l, 0))
        /\ latch'.divisor_latch_high = LastByte(l, DivisorsIn(l, 1))
    BY <1>1, <1>8, <1>9 DEF LatchHolds
  <2>2. latch'.ier = LastByte(l, GivenIn(l, 1)) % 16
    BY <1>1, <1>8, <1>9 DEF LatchHolds
  <2>3. /\ latch'.lcr = LastByte(l, ToIn(l, 3)) /\ latch'.scr = LastByte(l, ToIn(l, 7))
        /\ latch'.mcr = LastByte(l, ToIn(l, 4)) % 32
    BY <1>1, <1>8, <1>9 DEF LatchHolds
  <2>4. QED BY <1>1, <2>1, <2>2, <2>3 DEF LatchHolds
<1>11. Sent(thr, log, GivenIn(log, 0))'
  <2>1. PICK S, T : S = GivenIn(lg, 0) /\ T = GivenIn(l, 0)
    OBVIOUS
  <2>2. S \in SUBSET (1 .. Len(lg)) /\ Sent(thr, lg, S)
    BY <1>1, <1>5, <2>1, SelectionIsPart
  <2>3. T = S \union (IF a = Address(0) /\ ~d THEN {next} ELSE {})
    BY <1>3, <1>4, <1>5, <1>6, <2>1, SelectionGrows
  <2>4. CASE a = Address(0) /\ ~d
    <3>1. thr' = Append(thr, byte) /\ T = S \union {Len(lg) + 1} /\ thr \in Seq(0 .. 255)
      BY <1>6, <1>9, <2>3, <2>4 DEF BusTyped
    <3>2. Sent(thr', l, T)
      <4>1. Sent(Append(thr, byte), Append(lg, e), S \union {Len(lg) + 1})
        <5>1. PICK t : t = thr
          OBVIOUS
        <5>2. /\ t \in Seq(0 .. 255) /\ Sent(t, lg, S) /\ e.value[0] = byte /\ byte \in 0 .. 255
              /\ lg \in Seq(LogEntries) /\ e \in LogEntries /\ S \in SUBSET (1 .. Len(lg))
          BY <1>2, <1>3, <1>5, <2>2, <3>1, <5>1
        <5>3. Sent(Append(t, byte), Append(lg, e), S \union {Len(lg) + 1})
          BY <5>2, SentGrows, ZenonT(60)
        <5>4. QED BY <5>1, <5>3
      <4>2. QED BY <1>4, <3>1, <4>1
    <3>3. QED BY <1>1, <2>1, <3>2
  <2>5. CASE ~(a = Address(0) /\ ~d)
    <3>1. thr' = thr /\ T = S
      BY <1>9, <2>3, <2>5
    <3>2. Sent(thr', l, T)
      BY <1>3, <1>4, <1>5, <2>2, <3>1, SentStays
    <3>3. QED BY <1>1, <2>1, <3>2
  <2>6. QED BY <2>4, <2>5
<1>12. QED BY <1>1, <1>5, <1>9, <1>10, <1>11

LEMMA ResetKeeps == BusInv /\ platform_reset => BusInv'
<1> SUFFICES ASSUME BusInv, platform_reset PROVE BusInv'
  OBVIOUS
<1>1. PICK lg, l, e : lg = log /\ l = log' /\ e = [op |-> "reset"]
  OBVIOUS
<1>2. /\ lg \in Seq(LogEntries) /\ l = Append(lg, e) /\ e \in LogEntries /\ e.op = "reset"
      /\ latch' = ResetLatch /\ thr' = <<>> /\ ram' = ram /\ framebuffer' = framebuffer
  BY <1>1 DEF BusInv, BusTyped, platform_reset, LogEntries
<1>3. l \in Seq(LogEntries)
  BY <1>2
<1>4. \A reg : ToIn(l, reg) = {} /\ DivisorsIn(l, reg) = {} /\ GivenIn(l, reg) = {}
  <2>1. \A reg : ToIn(l, reg) = {}
    BY <1>2, ResetForgets
  <2>2. QED BY <2>1 DEF DivisorsIn, GivenIn
<1>5. \A x \in Nat : ByteIn(l, x) = ByteIn(lg, x)
  BY <1>2, ByteGrows
<1>6. BusTyped'
  <2>1. ResetLatch \in [Fields -> 0 .. 255] /\ <<>> \in Seq(0 .. 255)
    BY DEF ResetLatch, Fields
  <2>2. ram \in [RamBytes -> 0 .. 255] /\ framebuffer \in [0 .. FB_CAPACITY - 1 -> 0 .. 255]
    BY DEF BusInv, BusTyped
  <2>3. QED BY <1>1, <1>2, <1>3, <2>1, <2>2, Zenon DEF BusTyped
<1>7. MemoryHolds(log)'
  <2>1. Aperture \subseteq Nat /\ RamBytes \subseteq Nat
    BY BusAssumption DEF Aperture, RamBytes
  <2>2. QED BY <1>1, <1>2, <1>5, <2>1 DEF BusInv, MemoryHolds
<1>8. LatchHolds(log)'
  BY <1>1, <1>2, <1>4 DEF LatchHolds, LastByte, ResetLatch
<1>9. Sent(thr, log, GivenIn(log, 0))'
  BY <1>1, <1>2, <1>4, FS_EmptySet DEF Sent
<1>10. QED BY <1>6, <1>7, <1>8, <1>9 DEF BusInv

THEOREM BusInvariance == BusSpec => []BusInv
<1>1. BusInv /\ [BusNext(Stores)]_bus_vars => BusInv'
  <2> SUFFICES ASSUME BusInv, [BusNext(Stores)]_bus_vars PROVE BusInv'
    OBVIOUS
  <2>1. CASE platform_reset
    BY <2>1, ResetKeeps
  <2>2. ASSUME NEW s \in Stores, Store(s[1], s[2], s[3]) PROVE BusInv'
    BY <2>2, MemoryKept, RegistersKept DEF BusInv, BusTyped
  <2>3. CASE UNCHANGED bus_vars
    BY <2>3 DEF bus_vars, BusInv, BusTyped, MemoryHolds, LatchHolds
  <2>4. QED BY <2>1, <2>2, <2>3 DEF BusNext
<1>2. QED BY <1>1, BusStart, PTL DEF BusSpec
-----------------------------------------------------------------------------
(* What the history says, as Bus.tla states it.                             *)

LEMMA HistoryIs ==
  /\ \A x : ByteAt(x) = ByteIn(log, x)
  /\ \A reg : To(reg) = ToIn(log, reg)
  /\ \A S : Programmed(S) = LastByte(log, S)
  /\ \A i : DlabBefore(i) <=> DlabIn(log, i)
  /\ \A reg : Divisor(reg) = LastByte(log, DivisorsIn(log, reg))
  /\ \A reg : Given(reg) = GivenIn(log, reg)
<1>1. \A x : ByteAt(x) = ByteIn(log, x)
  BY Zenon DEF ByteAt, Last, ByteIn, Hits
<1>2. Booted = BootedIn(log)
  BY Zenon DEF Booted, Last, BootedIn, ResetsIn
<1>3. \A reg : To(reg) = ToIn(log, reg)
  BY <1>2, Zenon DEF To, ToIn, Address
<1>4. \A S : Programmed(S) = LastByte(log, S)
  BY Zenon DEF Programmed, Last, LastByte, LowByte
<1>5. \A i : DlabBefore(i) <=> DlabIn(log, i)
  <2> TAKE i
  <2>1. PICK S : S = {k \in ToIn(log, 3) : k < i}
    OBVIOUS
  <2>2. {k \in To(3) : k < i} = S
    BY <1>3, <2>1
  <2>3. DlabBefore(i) = IF S = {} THEN FALSE ELSE LowByte(Max(S)) >= 128
    BY <2>2, Zenon DEF DlabBefore, Last
  <2>4. DlabIn(log, i) <=> LastByte(log, S) >= 128
    BY <2>1, Zenon DEF DlabIn
  <2>5. CASE S = {}
    <3>1. LastByte(log, S) = 0
      BY <2>5 DEF LastByte
    <3>2. QED BY <2>3, <2>4, <2>5, <3>1
  <2>6. CASE S # {}
    <3>1. LastByte(log, S) = LowByte(Max(S))
      BY <2>6, Zenon DEF LastByte, LowByte
    <3>2. QED BY <2>3, <2>4, <2>6, <3>1
  <2>7. QED BY <2>5, <2>6
<1>6. \A reg : Divisor(reg) = LastByte(log, DivisorsIn(log, reg))
  <2> TAKE reg
  <2>1. {i \in To(reg) : DlabBefore(i)} = DivisorsIn(log, reg)
    BY <1>3, <1>5 DEF DivisorsIn
  <2>2. QED BY <1>4, <2>1, Zenon DEF Divisor
<1>7. \A reg : Given(reg) = GivenIn(log, reg)
  BY <1>3, <1>5 DEF Given, GivenIn
<1>8. QED BY <1>1, <1>3, <1>4, <1>5, <1>6, <1>7

LEMMA RegisterRead ==
  ASSUME NEW reg \in 0 .. 7
  PROVE  Register(reg) = read_register(reg)
<1>1. /\ uart16550_mmio_contains(Address(reg), 4) /\ ~framebuffer_range_valid(Address(reg), 4)
      /\ Address(reg) - UART_BASE = 4 * reg
  BY AtRegister
<1>2. Register(reg) = uart16550_mmio_read(Address(reg))[0]
  BY <1>1, Zenon DEF Register, Address, platform_bus_read
<1>3. (4 * reg) % 4 = 0 /\ (4 * reg) \div 4 = reg
  OBVIOUS
<1>4. (Address(reg) - UART_BASE) % REG_STRIDE = 0 /\ (Address(reg) - UART_BASE) \div REG_STRIDE = reg
  BY <1>1, <1>3, Zenon DEF REG_STRIDE
<1>5. uart16550_mmio_read(Address(reg)) = [Zero EXCEPT ![0] = read_register(reg)]
  BY <1>4, Zenon DEF uart16550_mmio_read
<1>6. QED BY <1>2, <1>5 DEF Zero

LEMMA FlatFromInv == BusInv => MemoryIsFlat
<1> SUFFICES ASSUME BusInv, NEW p \in Aligned, NEW i \in 0 .. p[2] - 1
             PROVE  platform_bus_read(p[1], p[2])[i] = ByteAt(p[1] + i)
  BY DEF MemoryIsFlat
<1>1. PICK a, w : a = p[1] /\ w = p[2]
  OBVIOUS
<1>2. /\ a \in Nat /\ w \in {1, 2, 4} /\ a % w = 0 /\ i \in 0 .. w - 1 /\ i \in 0 .. 3
      /\ a + 0 \in RamBytes \/ a + 0 \in Aperture
  <2>1. a \in Memory /\ w \in {1, 2, 4} /\ a % w = 0 /\ i \in 0 .. w - 1
    BY <1>1 DEF Aligned
  <2>2. i \in 0 .. 3
    BY <2>1
  <2>3. a \in RamBytes \/ a \in Aperture
    BY <2>1 DEF Memory, RamBytes, Aperture
  <2>4. a \in Nat
    BY <2>3, BusAssumption DEF RamBytes, Aperture
  <2>5. a + 0 = a
    BY <2>4
  <2>6. QED BY <2>1, <2>2, <2>3, <2>4, <2>5
<1>3. PICK x : x = a + i
  OBVIOUS
<1>4. ByteAt(x) = ByteIn(log, x)
  BY HistoryIs
<1>5. CASE framebuffer_range_valid(a, w)
  <2>1. x \in Aperture
    BY <1>2, <1>3, <1>5, AccessIsWhole
  <2>2. platform_bus_read(a, w)[i] = framebuffer[(a - FB_BASE) + i]
    BY <1>2, <1>5 DEF platform_bus_read, Loaded
  <2>3. (a - FB_BASE) + i = x - FB_BASE
    BY <1>2, <1>3, BusAssumption
  <2>4. QED BY <1>1, <1>3, <1>4, <2>1, <2>2, <2>3 DEF BusInv, MemoryHolds
<1>6. CASE ~framebuffer_range_valid(a, w)
  <2>1. 0 \in 0 .. w - 1 /\ a + 0 = a
    BY <1>2
  <2>2. a + 0 \notin Aperture /\ a + 0 \in RamBytes
    BY <1>2, <1>6, <2>1, AccessIsWhole
  <2>3. address_range_valid(a, w) /\ ~uart16550_mmio_contains(a, w)
    BY <1>2, <2>1, <2>2, AccessIsWhole
  <2>4. x \in RamBytes /\ x \notin Aperture
    BY <1>2, <1>3, <1>6, <2>3, AccessIsWhole
  <2>5. platform_bus_read(a, w)[i] = ram[x]
    BY <1>2, <1>3, <1>6, <2>3 DEF platform_bus_read, Loaded
  <2>6. QED BY <1>1, <1>3, <1>4, <2>4, <2>5 DEF BusInv, MemoryHolds
<1>7. QED BY <1>5, <1>6

LEMMA ApartFromInv == BusInv => RegistersAreApart
<1> SUFFICES ASSUME BusInv PROVE RegistersAreApart
  OBVIOUS
<1>1. /\ latch.divisor_latch_low = Divisor(0) /\ latch.divisor_latch_high = Divisor(1)
      /\ latch.ier = Programmed(Given(1)) % 16
      /\ latch.lcr = Programmed(To(3)) /\ latch.scr = Programmed(To(7))
  BY HistoryIs DEF BusInv, LatchHolds
<1>2. /\ Len(thr) = Cardinality(Given(0))
      /\ \A i \in Given(0) : thr[Cardinality({k \in Given(0) : k <= i})] = LowByte(i)
  BY HistoryIs DEF BusInv, Sent, LowByte
<1>3. Dlab = DlabBefore(Len(log) + 1)
  <2>1. DlabIn(log, Len(log) + 1) <=> latch.lcr >= 128
    BY DlabNow DEF BusInv, BusTyped, LatchHolds
  <2>2. DlabBefore(Len(log) + 1) <=> latch.lcr >= 128
    BY <2>1, HistoryIs
  <2>3. Dlab \in BOOLEAN /\ DlabBefore(Len(log) + 1) \in BOOLEAN
    <3>1. PICK S : S = {k \in To(3) : k < Len(log) + 1}
      OBVIOUS
    <3>2. DlabBefore(Len(log) + 1) = IF S = {} THEN FALSE ELSE LowByte(Max(S)) >= 128
      BY <3>1, Zenon DEF DlabBefore, Last
    <3>3. (LowByte(Max(S)) >= 128) \in BOOLEAN /\ (latch.lcr >= 128) \in BOOLEAN
      OBVIOUS
    <3>4. QED BY <3>2, <3>3, Zenon DEF Dlab
  <2>4. QED BY <2>2, <2>3 DEF Dlab
<1>4. Dlab => Register(0) = Divisor(0) /\ Register(1) = Divisor(1)
  <2> SUFFICES ASSUME Dlab PROVE Register(0) = Divisor(0) /\ Register(1) = Divisor(1)
    OBVIOUS
  <2>1. Selected(0) = "divisor_latch_low" /\ Selected(1) = "divisor_latch_high"
    BY DEF Selected
  <2>2. read_register(0) = latch.divisor_latch_low /\ read_register(1) = latch.divisor_latch_high
    BY <2>1 DEF read_register
  <2>3. QED BY <1>1, <2>2, RegisterRead
<1>5. Register(3) = Programmed(To(3)) /\ Register(7) = Programmed(To(7))
  <2>1. Selected(3) = "lcr" /\ Selected(7) = "scr"
    BY DEF Selected
  <2>2. read_register(3) = latch.lcr /\ read_register(7) = latch.scr
    BY <2>1 DEF read_register
  <2>3. QED BY <1>1, <2>2, RegisterRead
<1>6. QED BY <1>1, <1>2, <1>3, <1>4, <1>5 DEF RegistersAreApart

LEMMA LoopbackFromInv == BusInv => LoopbackAnswers
<1> SUFFICES ASSUME BusInv PROVE LoopbackAnswers
  OBVIOUS
<1>1. PICK mcr : mcr = Programmed(To(4)) % 32
  OBVIOUS
<1>2. latch.mcr = mcr /\ mcr \in 0 .. 255
  BY <1>1, HistoryIs DEF BusInv, BusTyped, LatchHolds, Fields
<1>3. Register(6) = modem_status
  BY RegisterRead DEF read_register
<1>4. mcr = 26 => modem_status = 144
  BY <1>2 DEF modem_status, Line
<1>5. mcr < 16 => modem_status = 176
  BY <1>2 DEF modem_status, Line
<1>6. QED BY <1>1, <1>3, <1>4, <1>5 DEF LoopbackAnswers

(* Memory is flat and the registers keep what they were given: whatever     *)
(* program stores what where, for every size and place of the windows in    *)
(* which no register lies in memory.                                        *)
THEOREM BusIsExact == BusSpec => []BusExact
<1>1. BusInv => BusExact
  BY FlatFromInv, ApartFromInv, LoopbackFromInv DEF BusExact
<1>2. QED BY <1>1, BusInvariance, PTL
=============================================================================

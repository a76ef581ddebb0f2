------------------------------- MODULE UartTx -------------------------------
(***************************************************************************)
(* The transmit ring of the 16550 model (uart16550.c).  The guest writes   *)
(* THR; the host takes bytes away either through a callback, invoked for   *)
(* each byte before the guest's write returns, or through peek/consume,    *)
(* which lend it a contiguous span that it copies and releases later.      *)
(* The callback is foreign code: while it runs it may call peek, consume   *)
(* and set_tx_callback again, so the drain loop is modelled one iteration  *)
(* at a time.  The guest does not run while the callback does.             *)
(*                                                                         *)
(* out records the bytes the host has taken, in the order it took them;    *)
(* MaxOut bounds how many the guest sends.                                 *)
(***************************************************************************)
EXTENDS UartMode, Sequences

CONSTANTS TX_FIFO_SIZE, MaxOut

ASSUME TxSizeAssumption == TX_FIFO_SIZE \in Nat \ {0}
ASSUME MaxOutAssumption == MaxOut \in Nat

VARIABLES
  tx_fifo,           \* the ring's array
  tx_head,           \* index of the oldest queued byte
  tx_count,          \* queued bytes
  tx_peeked,         \* length of the span lent to the host, 0 for none
  thre_irq_pending,  \* the latched "transmitter holding register empty"
  tx_callback,       \* a callback is installed
  draining,          \* the callback is running inside drain_tx_callback()
  span,              \* the span the host believes it holds: [start, len]
  out                \* bytes taken by the host

tx_ring == <<tx_fifo, tx_head, tx_count, tx_peeked>>
tx_host == <<tx_callback, draining, span, out>>
tx_vars == <<tx_ring, thre_irq_pending, tx_host, fifo_enabled>>

TxSlot == 0 .. TX_FIFO_SIZE - 1
NoTxSpan == [start |-> 0, len |-> 0]

TxInit ==
  /\ tx_fifo \in [TxSlot -> Bytes]
  /\ tx_head = 0 /\ tx_count = 0 /\ tx_peeked = 0
  /\ thre_irq_pending = TRUE
  /\ tx_callback \in BOOLEAN
  /\ draining = FALSE
  /\ span = NoTxSpan
  /\ out = <<>>
  /\ fifo_enabled = FALSE

TxTail == Wrap(tx_head + tx_count, TX_FIFO_SIZE)

TxCapacity == Capacity(TX_FIFO_SIZE)

TxCanAccept == tx_count < TxCapacity

-----------------------------------------------------------------------------
(* The host's span interface.                                              *)

\* Mutant: the span runs past the end of the array.
PeekLength_NoWrapLimit == IF tx_peeked # 0 THEN tx_peeked ELSE tx_count

\* What uart16550_tx_peek() lends when the ring is not empty: the span that
\* is already out, or the contiguous run of queued bytes at the head.
PeekLength ==
  LET contiguous == TX_FIFO_SIZE - tx_head
  IN  IF tx_peeked # 0 THEN tx_peeked
      ELSE IF tx_count < contiguous THEN tx_count ELSE contiguous

TxPeek ==
  /\ tx_count # 0
  /\ tx_peeked' = PeekLength
  /\ span' = [start |-> tx_head, len |-> PeekLength]
  /\ UNCHANGED <<tx_fifo, tx_head, tx_count, thre_irq_pending, tx_callback,
                 draining, out, fifo_enabled>>

\* uart16550_tx_consume() accepts any prefix of the span it has on record.
Consumable(length) == length <= tx_peeked

\* Mutant: THRE is not raised by the host.
Release_NoThre(length) ==
  /\ tx_head' = Wrap(tx_head + length, TX_FIFO_SIZE)
  /\ tx_count' = tx_count - length
  /\ tx_peeked' = 0
  /\ UNCHANGED thre_irq_pending

\* The effect of a successful tx_consume(length) with length > 0.
Release(length) ==
  /\ tx_head' = Wrap(tx_head + length, TX_FIFO_SIZE)
  /\ tx_count' = tx_count - length
  /\ tx_peeked' = 0
  /\ thre_irq_pending' = (thre_irq_pending \/ tx_count = length)

\* The bytes the host reads through the pointer peek() returned.
Copied(length) == [k \in 1 .. length |-> tx_fifo[span.start + k - 1]]

\* The host has copied a prefix of its span and releases it; what the device
\* refuses, it does not count as sent.  A length of 0 cancels the span.
TxConsume(length) ==
  /\ length <= span.len
  /\ span.len # 0
  /\ span' = NoTxSpan
  /\ IF length = 0
     THEN /\ tx_peeked' = 0
          /\ UNCHANGED <<tx_head, tx_count, thre_irq_pending, out>>
     ELSE IF Consumable(length)
     THEN Release(length) /\ out' = out \o Copied(length)
     ELSE UNCHANGED <<tx_head, tx_count, tx_peeked, thre_irq_pending, out>>
  /\ UNCHANGED <<tx_fifo, tx_callback, draining, fifo_enabled>>

-----------------------------------------------------------------------------
(* The callback interface.                                                 *)

\* Mutant: the callback is given the byte before the ring lets go of it.
DrainOne_CallbackFirst ==
  /\ tx_peeked' = PeekLength
  /\ UNCHANGED <<tx_head, tx_count, thre_irq_pending>>
  /\ out' = Append(out, tx_fifo[tx_head])
  /\ draining' = TRUE

\* One iteration of drain_tx_callback(): peek (which may return a span the
\* host already holds), release one byte, hand it to the callback.
DrainOne ==
  /\ Release(1)
  /\ out' = Append(out, tx_fifo[tx_head])
  /\ draining' = TRUE

\* The callback returns to the loop.  While a callback is installed and bytes
\* remain it is called again; otherwise the drain, and with it the guest's
\* write or the host's set_tx_callback(), is over.
CallbackReturns ==
  /\ draining
  /\ IF tx_callback /\ tx_count # 0
     THEN DrainOne
     ELSE /\ draining' = FALSE
          /\ UNCHANGED <<tx_head, tx_count, tx_peeked, thre_irq_pending, out>>
  /\ UNCHANGED <<tx_fifo, tx_callback, span, fifo_enabled>>

\* set_tx_callback(f): what is queued is drained at once.  Called from within
\* the callback it runs a nested drain; both loops have the same condition, so
\* one flag stands for the whole nest.
InstallCallback ==
  /\ tx_callback' = TRUE
  /\ IF tx_count # 0
     THEN DrainOne
     ELSE UNCHANGED <<tx_head, tx_count, tx_peeked, thre_irq_pending, draining, out>>
  /\ UNCHANGED <<tx_fifo, span, fifo_enabled>>

\* set_tx_callback(NULL), also from within the callback itself.
RemoveCallback ==
  /\ tx_callback' = FALSE
  /\ UNCHANGED <<tx_ring, thre_irq_pending, draining, span, out, fifo_enabled>>

-----------------------------------------------------------------------------
(* The guest side.                                                         *)

\* push_tx() with no callback: the byte waits in the ring.  A full ring
\* refuses it without a trace.
PushTx(b) ==
  /\ ~draining
  /\ Len(out) + tx_count < MaxOut
  /\ ~tx_callback
  /\ TxCanAccept
  /\ tx_fifo' = [tx_fifo EXCEPT ![TxTail] = b]
  /\ tx_count' = tx_count + 1
  /\ thre_irq_pending' = FALSE
  /\ UNCHANGED <<tx_head, tx_peeked, tx_host, fifo_enabled>>

\* push_tx() with a callback: the byte is stored and the drain starts, which
\* releases the oldest byte and calls out with it.
PushTxAndDrain(b) ==
  /\ ~draining
  /\ Len(out) + tx_count < MaxOut
  /\ tx_callback
  /\ TxCanAccept
  /\ tx_fifo' = [tx_fifo EXCEPT ![TxTail] = b]
  /\ tx_head' = Wrap(tx_head + 1, TX_FIFO_SIZE)
  /\ tx_count' = tx_count
  /\ tx_peeked' = 0
  /\ thre_irq_pending' = (tx_count = 0)
  /\ out' = Append(out, tx_fifo'[tx_head])
  /\ draining' = TRUE
  /\ UNCHANGED <<tx_callback, span, fifo_enabled>>

ClearTxFifo == tx_head' = 0 /\ tx_count' = 0 /\ tx_peeked' = 0

\* The transmit half of write_fcr().
TxWriteFcr(enable, clear) ==
  /\ ~draining
  /\ fifo_enabled' = enable
  /\ IF enable # fifo_enabled \/ clear
     THEN ClearTxFifo /\ thre_irq_pending' = TRUE
     ELSE UNCHANGED <<tx_head, tx_count, tx_peeked, thre_irq_pending>>
  /\ UNCHANGED <<tx_fifo, tx_host>>

\* The transmit half of uart16550_reset(); the callback wiring survives.
TxReset ==
  /\ ~draining
  /\ fifo_enabled' = FALSE
  /\ ClearTxFifo
  /\ thre_irq_pending' = TRUE
  /\ UNCHANGED <<tx_fifo, tx_host>>

\* An IIR read that reports the transmitter empty acknowledges it.
AcknowledgeThre ==
  /\ ~draining
  /\ thre_irq_pending' = FALSE
  /\ UNCHANGED <<tx_ring, tx_host, fifo_enabled>>

\* Enabling the THRE interrupt with an empty transmitter latches it again.
RearmThre ==
  /\ ~draining
  /\ tx_count = 0
  /\ thre_irq_pending' = TRUE
  /\ UNCHANGED <<tx_ring, tx_host, fifo_enabled>>

-----------------------------------------------------------------------------
TxHost ==
  \/ TxPeek
  \/ \E length \in 0 .. TX_FIFO_SIZE : TxConsume(length)
  \/ CallbackReturns
  \/ InstallCallback
  \/ RemoveCallback

TxGuest ==
  \/ \E b \in Bytes : PushTx(b) \/ PushTxAndDrain(b)
  \/ \E enable, clear \in BOOLEAN : TxWriteFcr(enable, clear)
  \/ TxReset
  \/ AcknowledgeThre
  \/ RearmThre

TxNext == TxHost \/ TxGuest

TxSpec == TxInit /\ [][TxNext]_tx_vars

(* The host keeps its side going: whenever bytes wait it asks for a span,   *)
(* it does not refuse forever to release what it was lent, and callbacks    *)
(* return.  Release needs strong fairness: a guest's FIFO reset or a        *)
(* cancelled span disables it again and again.                              *)
TxFairness ==
  /\ WF_tx_vars(TxPeek)
  /\ SF_tx_vars(\E length \in 1 .. TX_FIFO_SIZE : Consumable(length) /\ TxConsume(length))
  /\ WF_tx_vars(CallbackReturns)

TxFairSpec == TxSpec /\ TxFairness

-----------------------------------------------------------------------------
(* The fields hold what their C types and the host interface allow.         *)
TxTypeOK ==
  /\ fifo_enabled \in BOOLEAN
  /\ tx_fifo \in [TxSlot -> Bytes]
  /\ tx_head \in TxSlot
  /\ tx_count \in 0 .. TX_FIFO_SIZE
  /\ tx_peeked \in 0 .. TX_FIFO_SIZE
  /\ thre_irq_pending \in BOOLEAN
  /\ tx_callback \in BOOLEAN
  /\ draining \in BOOLEAN
  /\ span \in [start : TxSlot, len : 0 .. TX_FIFO_SIZE]
  /\ out \in Seq(Bytes)

(* The ring respects the capacity of the current FIFO mode, and a span on   *)
(* record covers queued bytes only, does not run past the array and is the  *)
(* one the host holds, whatever the guest has queued since and however the  *)
(* span and callback interfaces were mixed.                                 *)
TxSpanSafe ==
  /\ tx_count <= TxCapacity
  /\ tx_peeked <= tx_count
  /\ tx_head + tx_peeked <= TX_FIFO_SIZE
  /\ tx_peeked # 0 => span = [start |-> tx_head, len |-> tx_peeked]

(* THRE is never latched while bytes wait: a guest that answers the         *)
(* interrupt finds the transmitter empty.                                   *)
ThreMeansEmpty == thre_irq_pending => tx_count = 0

(* "Emptying the FIFO asserts THRE" (uart16550.h), however it is emptied:   *)
(* by consume(), by the callback, by a FIFO reset or by a UART reset.       *)
EmptyingRaisesThre == [][tx_count # 0 /\ tx_count' = 0 => thre_irq_pending']_tx_vars

(* The guest runs only when an installed callback has taken every byte.     *)
CallbackDrains == tx_callback /\ ~draining => tx_count = 0

(* Bytes lent to the host do not move or change until it releases them or   *)
(* the span is invalidated.                                                 *)
LentBytesStable ==
  [][tx_peeked # 0 /\ tx_peeked' # 0 =>
       /\ tx_head' = tx_head
       /\ \A k \in 0 .. tx_peeked - 1 : tx_fifo'[tx_head + k] = tx_fifo[tx_head + k]]_tx_vars

(* In every state the transmit ring is well formed, the span it lent out is *)
(* the one the host holds, THRE is latched only when nothing waits, and the *)
(* guest never runs while an installed callback still has bytes to take.    *)
TxRingSafe == TxTypeOK /\ TxSpanSafe /\ ThreMeansEmpty /\ CallbackDrains

(* What every step keeps: lent bytes stay put, and however the ring is      *)
(* emptied the guest hears of it.                                           *)
TxPromisesKept == LentBytesStable /\ EmptyingRaisesThre

(* The queued bytes, oldest first.                                          *)
TxQueue == [k \in 1 .. tx_count |-> tx_fifo[Wrap(tx_head + k - 1, TX_FIFO_SIZE)]]

(* The ring and its two host interfaces implement a byte stream: each byte  *)
(* the guest wrote reaches the host once and in order unless it is flushed. *)
Stream == INSTANCE ByteStream WITH
            Size <- TX_FIFO_SIZE, q <- TxQueue, wide <- fifo_enabled

TxImplementsStream == Stream!Spec

(* A guest that has stopped writing and waits for the transmitter gets its  *)
(* interrupt condition.                                                     *)
GuestTransmits == \E b \in Bytes : PushTx(b) \/ PushTxAndDrain(b)

WaitingGuestSeesThre ==
  <>[][~GuestTransmits]_tx_vars => (tx_count # 0 ~> thre_irq_pending)
=============================================================================

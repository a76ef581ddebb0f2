----------------------------- MODULE ByteStream -----------------------------
(***************************************************************************)
(* What a transmit FIFO promises: every byte accepted from the guest is    *)
(* handed to the host exactly once and in the order of the writes, except  *)
(* for the bytes an explicit flush discards.  The queue holds Size bytes   *)
(* in wide mode and one byte otherwise; out is what the host has received. *)
(***************************************************************************)
EXTENDS Integers, Sequences

CONSTANTS Bytes, Size

VARIABLES q, out, wide

vars == <<q, out, wide>>

Limit == IF wide THEN Size ELSE 1

Init == q = <<>> /\ out = <<>> /\ wide = FALSE

Put(b) ==
  /\ Len(q) < Limit
  /\ q' = Append(q, b)
  /\ UNCHANGED <<out, wide>>

\* A write that makes the oldest byte, possibly itself, leave at once.
PutAndSend(b) ==
  /\ Len(q) < Limit
  /\ LET queued == Append(q, b)
     IN  /\ out' = Append(out, Head(queued))
         /\ q' = Tail(queued)
  /\ UNCHANGED wide

Send(n) ==
  /\ n <= Len(q)
  /\ out' = out \o SubSeq(q, 1, n)
  /\ q' = SubSeq(q, n + 1, Len(q))
  /\ UNCHANGED wide

\* A flush may change the mode; a change of mode is always a flush.
Flush ==
  /\ q' = <<>>
  /\ wide' \in BOOLEAN
  /\ UNCHANGED out

Next ==
  \/ \E b \in Bytes : Put(b) \/ PutAndSend(b)
  \/ \E n \in 1 .. Size : Send(n)
  \/ Flush

Spec == Init /\ [][Next]_vars
=============================================================================

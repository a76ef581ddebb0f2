----------------------------- MODULE ByteQueue ------------------------------
(***************************************************************************)
(* What a receive FIFO promises its reader: bytes leave in the order they  *)
(* were put, none appears twice, none disappears except by an explicit     *)
(* flush, and a byte that found no room leaves a mark.  The queue holds    *)
(* Size bytes in wide mode and one byte otherwise.                         *)
(***************************************************************************)
EXTENDS Integers, Sequences

CONSTANTS Bytes, Size

VARIABLES q, wide, lost

vars == <<q, wide, lost>>

Limit == IF wide THEN Size ELSE 1

Init == q = <<>> /\ wide = FALSE /\ lost = FALSE

\* One or more bytes become readable at once, behind those already there.
Put ==
  \E n \in 1 .. Size : \E s \in [1 .. n -> Bytes] :
    /\ Len(q) + n <= Limit
    /\ q' = q \o s
    /\ UNCHANGED <<wide, lost>>

Take ==
  /\ q # <<>>
  /\ q' = Tail(q)
  /\ UNCHANGED <<wide, lost>>

Drop ==
  /\ Len(q) = Limit
  /\ lost' = TRUE
  /\ UNCHANGED <<q, wide>>

Acknowledge ==
  /\ lost' = FALSE
  /\ UNCHANGED <<q, wide>>

\* A flush may change the mode; a change of mode is always a flush.
Flush ==
  /\ q' = <<>>
  /\ lost' = FALSE
  /\ wide' \in BOOLEAN

Next == Put \/ Take \/ Drop \/ Acknowledge \/ Flush

Spec == Init /\ [][Next]_vars
=============================================================================

------------------------------ MODULE LineRing ------------------------------
(***************************************************************************)
(* The rings of lines behind the panes of the terminal interface           *)
(* (debugger.c, ring_add() and draw_ring()): a fixed number of slots, the  *)
(* slot that is written next, and the number of valid ones.                *)
(***************************************************************************)
EXTENDS Integers, Sequences

EmptyRing(capacity) == [lines |-> [slot \in 0 .. capacity - 1 |-> <<>>], head |-> 0, count |-> 0]

\* What the lines look like to a reader: oldest first.
Contents(ring, capacity) ==
  [i \in 1 .. ring.count |-> ring.lines[(ring.head + capacity - ring.count + i - 1) % capacity]]

ring_add(ring, capacity, line) ==
  [lines |-> [ring.lines EXCEPT ![ring.head] = line],
   head |-> (ring.head + 1) % capacity,
   count |-> IF ring.count < capacity THEN ring.count + 1 ELSE ring.count]

\* Clearing a page forgets the lines and leaves them in their slots.
Cleared(ring) == [ring EXCEPT !.head = 0, !.count = 0]

\* The lines put on the screen: `visible` of them, the last `scroll` skipped.
draw_ring(ring, capacity, visible, scroll) ==
  LET end == IF ring.count > scroll THEN ring.count - scroll ELSE 0
      start == IF end > visible THEN end - visible ELSE 0
      oldest == (ring.head + capacity - ring.count) % capacity
  IN  [i \in 1 .. end - start |-> ring.lines[(oldest + start + i - 1) % capacity]]

-----------------------------------------------------------------------------
\* The last n elements of a sequence, or all of a shorter one.
Tail_n(s, n) == IF Len(s) <= n THEN s ELSE SubSeq(s, Len(s) - n + 1, Len(s))

\* Without the last n elements.
Without_n(s, n) == SubSeq(s, 1, Len(s) - n)
=============================================================================

--------------------------- MODULE TerminalProofs ---------------------------
(***************************************************************************)
(* Theorems about the terminal interface: the instruction trace behind two *)
(* of its panes, for every size of the rings and every history; its two    *)
(* panes of text, for every length of a line and height of the terminal;   *)
(* and the life of the program around it, from its options to its last     *)
(* free().                                                                 *)
(***************************************************************************)
EXTENDS HostProofs, Trace, Panes, Session

-----------------------------------------------------------------------------
(* Rings of lines.                                                          *)

RingOK(r, n, Lines) ==
  /\ r.lines \in [0 .. n - 1 -> Lines]
  /\ r.head \in 0 .. n - 1
  /\ r.count \in 0 .. n

LEMMA SlotIs ==
  ASSUME NEW n \in Nat \ {0}, NEW place \in 0 .. 2 * n - 1
  PROVE  place % n = (IF place < n THEN place ELSE place - n)
<1>1. CASE place < n
  BY <1>1
<1>2. CASE place >= n
  <2>1. place - n \in 0 .. n - 1 /\ place = 1 * n + (place - n)
    BY <1>2
  <2>2. QED BY <1>2, <2>1
<1>3. QED BY <1>1, <1>2

LEMMA ContentsIs ==
  ASSUME NEW n \in Nat \ {0}, NEW Lines, NEW r, RingOK(r, n, Lines)
  PROVE  /\ Contents(r, n) \in Seq(Lines)
         /\ Len(Contents(r, n)) = r.count
         /\ \A i \in 1 .. r.count :
              /\ (r.head + n - r.count + i - 1) % n \in 0 .. n - 1
              /\ Contents(r, n)[i] = r.lines[(r.head + n - r.count + i - 1) % n]
<1>1. \A i \in 1 .. r.count : (r.head + n - r.count + i - 1) % n \in 0 .. n - 1
  BY DEF RingOK
<1>2. Contents(r, n) \in [1 .. r.count -> Lines] /\ r.count \in Nat
  BY <1>1 DEF Contents, RingOK
<1>3. \A i \in 1 .. r.count :
        Contents(r, n)[i] = r.lines[(r.head + n - r.count + i - 1) % n]
  BY DEF Contents
<1> DEFINE s == Contents(r, n)
<1> HIDE DEF s
<1>4. s \in Seq(Lines) /\ Len(s) = r.count
  BY <1>2 DEF s
<1>5. QED BY <1>1, <1>3, <1>4 DEF s

(* A line more in the ring: the oldest goes when the ring is full.          *)
LEMMA RingAdds ==
  ASSUME NEW n \in Nat \ {0}, NEW Lines, NEW r, RingOK(r, n, Lines), NEW added \in Lines
  PROVE  LET a == ring_add(r, n, added)
         IN  /\ RingOK(a, n, Lines)
             /\ a.count = IF r.count < n THEN r.count + 1 ELSE n
             /\ \A i \in 1 .. a.count :
                  Contents(a, n)[i] = IF i = a.count THEN added
                                      ELSE Contents(r, n)[i + r.count + 1 - a.count]
<1> DEFINE a == ring_add(r, n, added)
<1>1. PICK h, c : h = r.head /\ c = r.count
  OBVIOUS
<1>2. h \in 0 .. n - 1 /\ c \in 0 .. n /\ r.lines \in [0 .. n - 1 -> Lines]
  BY <1>1 DEF RingOK
<1>3. a.lines = [r.lines EXCEPT ![h] = added] /\ a.head = (h + 1) % n
      /\ a.count = IF c < n THEN c + 1 ELSE c
  BY <1>1 DEF ring_add
<1>4. (h + 1) % n = IF h + 1 < n THEN h + 1 ELSE 0
  <2>1. h + 1 \in 0 .. 2 * n - 1
    BY <1>2
  <2>2. (h + 1) % n = IF h + 1 < n THEN h + 1 ELSE (h + 1) - n
    BY <2>1, SlotIs
  <2>3. QED BY <1>2, <2>2
<1>5. RingOK(a, n, Lines)
  BY <1>2, <1>3, <1>4 DEF RingOK
<1>6. ASSUME NEW i \in 1 .. a.count
      PROVE  Contents(a, n)[i] = IF i = a.count THEN added
                                 ELSE Contents(r, n)[i + r.count + 1 - a.count]
  <2> DEFINE k == (a.head + n - a.count + i - 1)
             j == (h + n - c + (i + c + 1 - a.count) - 1)
  <2>0. a.count \in Nat /\ a.head \in 0 .. n - 1 /\ i \in 1 .. n
    BY <1>2, <1>3, <1>4
  <2>1. Contents(a, n)[i] = a.lines[k % n] /\ k % n \in 0 .. n - 1
    BY <1>5, ContentsIs
  <2> HIDE DEF a
  <2>2. CASE i = a.count
    <3>1. k = a.head + n - 1
      BY <2>0, <2>2
    <3>2. k \in 0 .. 2 * n - 1
      BY <2>0, <3>1
    <3>3. k % n = IF k < n THEN k ELSE k - n
      BY <3>2, SlotIs
    <3>4. a.head = IF h + 1 < n THEN h + 1 ELSE 0
      BY <1>3, <1>4
    <3>5. k % n = h
      BY <1>2, <3>1, <3>3, <3>4
    <3>6. QED BY <1>2, <1>3, <2>1, <2>2, <3>5
  <2>3. CASE i # a.count
    <3>1. i + c + 1 - a.count \in 1 .. c
      BY <1>2, <1>3, <2>0, <2>3
    <3>2. Contents(r, n)[i + c + 1 - a.count] = r.lines[j % n] /\ j % n \in 0 .. n - 1
      BY <1>1, <3>1, ContentsIs
    <3>3. k \in 0 .. 2 * n - 1 /\ j \in 0 .. 2 * n - 1
      <4>1. PICK p, q : p = a.head /\ q = a.count
        OBVIOUS
      <4>2. /\ p \in 0 .. n - 1 /\ q = (IF c < n THEN c + 1 ELSE c) /\ i \in 1 .. q - 1
            /\ q \in 0 .. n
        BY <1>2, <1>3, <2>0, <2>3, <4>1
      <4>3. k = p + n - q + i - 1 /\ j = h + n + i - q
        BY <1>2, <2>0, <4>1, <4>2
      <4> HIDE DEF k, j
      <4>4. k \in 0 .. 2 * n - 1
        BY <4>2, <4>3
      <4>5. j \in 0 .. 2 * n - 1
        BY <1>2, <4>2, <4>3
      <4>6. QED BY <4>4, <4>5
    <3>4. k % n = (IF k < n THEN k ELSE k - n) /\ j % n = (IF j < n THEN j ELSE j - n)
      BY <3>3, SlotIs
    <3>5. j % n = k % n /\ k % n # h
      <4>1. PICK p, q : p = a.head /\ q = a.count
        OBVIOUS
      <4>2. p = (IF h + 1 < n THEN h + 1 ELSE 0) /\ q = (IF c < n THEN c + 1 ELSE c)
            /\ i \in 1 .. q - 1
        BY <1>3, <1>4, <2>0, <2>3, <4>1
      <4>3. k = p + n - q + i - 1 /\ j = h + n + i - q
        BY <1>2, <2>0, <4>1, <4>2
      <4> HIDE DEF k, j
      <4>4. CASE c < n /\ h + 1 < n
        BY <1>2, <3>4, <4>2, <4>3, <4>4
      <4>5. CASE c < n /\ h + 1 = n
        BY <1>2, <3>4, <4>2, <4>3, <4>5
      <4>6. CASE c = n /\ h + 1 < n
        BY <1>2, <3>4, <4>2, <4>3, <4>6
      <4>7. CASE c = n /\ h + 1 = n
        BY <1>2, <3>4, <4>2, <4>3, <4>7
      <4>8. QED BY <1>2, <4>4, <4>5, <4>6, <4>7
    <3>6. a.lines[k % n] = r.lines[k % n]
      BY <1>2, <1>3, <2>1, <3>5
    <3>7. QED BY <1>1, <2>1, <2>3, <3>2, <3>5, <3>6
  <2>4. QED BY <2>2, <2>3
<1>7. a.count = IF r.count < n THEN r.count + 1 ELSE n
  BY <1>1, <1>2, <1>3
<1>8. QED BY <1>5, <1>6, <1>7

LEMMA TailIs ==
  ASSUME NEW Lines, NEW s \in Seq(Lines), NEW n \in Nat
  PROVE  LET t == Tail_n(s, n)
         IN  /\ t \in Seq(Lines)
             /\ Len(t) = IF Len(s) <= n THEN Len(s) ELSE n
             /\ \A i \in 1 .. Len(t) : t[i] = s[i + Len(s) - Len(t)]
<1>1. Len(s) \in Nat
  OBVIOUS
<1>2. CASE Len(s) <= n
  BY <1>1, <1>2 DEF Tail_n
<1>3. CASE Len(s) > n
  <2>1. Tail_n(s, n) = SubSeq(s, Len(s) - n + 1, Len(s))
    BY <1>1, <1>3 DEF Tail_n
  <2>2. \A i \in Len(s) - n + 1 .. Len(s) : s[i] \in Lines
    BY <1>1, <1>3
  <2>3. /\ Tail_n(s, n) \in Seq(Lines)
        /\ Len(Tail_n(s, n)) = n
        /\ \A i \in 1 .. n : Tail_n(s, n)[i] = s[Len(s) - n + 1 + i - 1]
    BY <1>1, <1>3, <2>1, <2>2, SubSeqProperties
  <2>4. QED BY <1>1, <1>3, <2>3
<1>4. QED BY <1>1, <1>2, <1>3

(* A ring that holds the newest of a sequence goes on doing so.             *)
LEMMA AddedToNewest ==
  ASSUME NEW n \in Nat \ {0}, NEW Lines, NEW r, RingOK(r, n, Lines), NEW added \in Lines,
         NEW s \in Seq(Lines), Contents(r, n) = Tail_n(s, n)
  PROVE  Contents(ring_add(r, n, added), n) = Tail_n(Append(s, added), n)
<1> DEFINE a == ring_add(r, n, added)
           t == Tail_n(Append(s, added), n)
<1>1. /\ Append(s, added) \in Seq(Lines) /\ Len(Append(s, added)) = Len(s) + 1 /\ Len(s) \in Nat
      /\ Append(s, added)[Len(s) + 1] = added
      /\ \A i \in 1 .. Len(s) : Append(s, added)[i] = s[i]
  BY AppendProperties
<1>2. /\ t \in Seq(Lines)
      /\ Len(t) = IF Len(s) + 1 <= n THEN Len(s) + 1 ELSE n
      /\ \A i \in 1 .. Len(t) : t[i] = Append(s, added)[i + (Len(s) + 1) - Len(t)]
  <2> DEFINE e == Append(s, added)
  <2> HIDE DEF e
  <2>1. e \in Seq(Lines) /\ Len(e) = Len(s) + 1 /\ n \in Nat
    BY <1>1 DEF e
  <2>2. /\ Tail_n(e, n) \in Seq(Lines)
        /\ Len(Tail_n(e, n)) = IF Len(e) <= n THEN Len(e) ELSE n
        /\ \A i \in 1 .. Len(Tail_n(e, n)) :
             Tail_n(e, n)[i] = e[i + Len(e) - Len(Tail_n(e, n))]
    BY <2>1, TailIs
  <2>3. QED BY <2>1, <2>2 DEF e
<1>3. /\ Len(Contents(r, n)) = r.count /\ r.count \in 0 .. n
      /\ r.count = IF Len(s) <= n THEN Len(s) ELSE n
      /\ \A i \in 1 .. r.count : Contents(r, n)[i] = s[i + Len(s) - r.count]
  <2>1. Len(Contents(r, n)) = r.count /\ r.count \in 0 .. n
    BY ContentsIs DEF RingOK
  <2>2. /\ Len(Tail_n(s, n)) = IF Len(s) <= n THEN Len(s) ELSE n
        /\ \A i \in 1 .. Len(Tail_n(s, n)) : Tail_n(s, n)[i] = s[i + Len(s) - Len(Tail_n(s, n))]
    BY TailIs
  <2>3. QED BY <2>1, <2>2
<1>4. /\ RingOK(a, n, Lines)
      /\ a.count = IF r.count < n THEN r.count + 1 ELSE n
      /\ \A i \in 1 .. a.count :
           Contents(a, n)[i] = IF i = a.count THEN added
                               ELSE Contents(r, n)[i + r.count + 1 - a.count]
  BY RingAdds
<1>5. Contents(a, n) \in Seq(Lines) /\ Len(Contents(a, n)) = a.count
  BY <1>4, ContentsIs
<1> HIDE DEF a, t
<1>6. a.count = Len(t) /\ a.count \in Nat
  BY <1>1, <1>2, <1>3, <1>4
<1>7. ASSUME NEW i \in 1 .. a.count
      PROVE  Contents(a, n)[i] = t[i]
  <2>0. PICK c, d, l : c = r.count /\ d = a.count /\ l = Len(s)
    OBVIOUS
  <2>a. /\ l \in Nat /\ c = (IF l <= n THEN l ELSE n) /\ d = (IF l + 1 <= n THEN l + 1 ELSE n)
        /\ c \in Nat /\ d \in Nat /\ i \in Nat /\ 1 <= i /\ i <= d
    BY <1>1, <1>2, <1>3, <1>6, <2>0
  <2>b. t[i] = Append(s, added)[i + (l + 1) - d]
    BY <1>2, <1>6, <2>0
  <2>1. CASE i = a.count
    <3>0. i = d
      BY <2>0, <2>1
    <3>1. i + (l + 1) - d = l + 1
      BY <2>a, <3>0
    <3>2. QED BY <1>1, <1>4, <2>0, <2>b, <2>1, <3>1
  <2>2. CASE i # a.count
    <3>1. PICK p, q : p = i + c + 1 - d /\ q = i + (l + 1) - d
      OBVIOUS
    <3>0. i < d
      BY <2>0, <2>a, <2>2
    <3>2. p \in 1 .. c /\ q \in 1 .. l /\ p + l - c = q
      BY <2>a, <3>0, <3>1
    <3>3. Contents(a, n)[i] = s[q]
      BY <1>3, <1>4, <2>0, <2>2, <3>1, <3>2
    <3>4. t[i] = s[q]
      BY <1>1, <2>0, <2>b, <3>1, <3>2
    <3>5. QED BY <3>3, <3>4
  <2>3. QED BY <2>1, <2>2
<1>8. QED BY <1>2, <1>5, <1>6, <1>7, SeqEqual DEF a, t

(* What is drawn: the newest lines in front of those that are scrolled      *)
(* away.                                                                    *)
LEMMA DrawnIs ==
  ASSUME NEW n \in Nat \ {0}, NEW Lines, NEW r, RingOK(r, n, Lines),
         NEW visible \in Nat, NEW scroll \in Nat, scroll <= r.count
  PROVE  /\ draw_ring(r, n, visible, scroll)
              = Tail_n(Without_n(Contents(r, n), scroll), visible)
         /\ Len(draw_ring(r, n, visible, scroll))
              = IF r.count - scroll > visible THEN visible ELSE r.count - scroll
         /\ draw_ring(r, n, visible, scroll) \in Seq(Lines)
<1> DEFINE end == IF r.count > scroll THEN r.count - scroll ELSE 0
           start == IF end > visible THEN end - visible ELSE 0
           oldest == (r.head + n - r.count) % n
           d == draw_ring(r, n, visible, scroll)
           w == Without_n(Contents(r, n), scroll)
           t == Tail_n(w, visible)
<1>1. d = [i \in 1 .. end - start |-> r.lines[(oldest + start + i - 1) % n]]
  BY DEF draw_ring
<1>2. PICK h, c : h = r.head /\ c = r.count
  OBVIOUS
<1>3. h \in 0 .. n - 1 /\ c \in 0 .. n /\ r.lines \in [0 .. n - 1 -> Lines]
  BY <1>2 DEF RingOK
<1>4. end = c - scroll /\ end \in Nat /\ start \in 0 .. end
      /\ start = IF end > visible THEN end - visible ELSE 0
  BY <1>2, <1>3
<1>5. /\ Contents(r, n) \in Seq(Lines) /\ Len(Contents(r, n)) = c
      /\ \A i \in 1 .. c : Contents(r, n)[i] = r.lines[(h + n - c + i - 1) % n]
  BY <1>2, ContentsIs
<1>6. w \in Seq(Lines) /\ Len(w) = end /\ \A i \in 1 .. end : w[i] = Contents(r, n)[i]
  <2>1. w = SubSeq(Contents(r, n), 1, end)
    BY <1>4, <1>5 DEF Without_n
  <2> HIDE DEF end, w
  <2>2. 1 \in Int /\ end \in Int /\ \A i \in 1 .. end : Contents(r, n)[i] \in Lines
    BY <1>3, <1>4, <1>5
  <2>3. /\ SubSeq(Contents(r, n), 1, end) \in Seq(Lines)
        /\ Len(SubSeq(Contents(r, n), 1, end)) = IF 1 <= end THEN end - 1 + 1 ELSE 0
        /\ \A i \in 1 .. end - 1 + 1 : SubSeq(Contents(r, n), 1, end)[i] = Contents(r, n)[1 + i - 1]
    BY <2>2, SubSeqProperties
  <2>4. QED BY <1>4, <2>1, <2>3
<1>7. /\ t \in Seq(Lines) /\ Len(t) = end - start
      /\ \A i \in 1 .. end - start : t[i] = Contents(r, n)[start + i]
  <2> HIDE DEF w, end, start
  <2>1. /\ t \in Seq(Lines)
        /\ Len(t) = IF Len(w) <= visible THEN Len(w) ELSE visible
        /\ \A i \in 1 .. Len(t) : t[i] = w[i + Len(w) - Len(t)]
    BY <1>6, TailIs
  <2> HIDE DEF t
  <2>2. Len(t) = end - start
    BY <1>4, <1>6, <2>1
  <2>3. \A i \in 1 .. end - start : i + Len(w) - Len(t) = start + i /\ start + i \in 1 .. end
    BY <1>4, <1>6, <2>2
  <2>4. QED BY <1>6, <2>1, <2>2, <2>3
<1> HIDE DEF end, start, oldest, w, t, d
<1>8. ASSUME NEW i \in 1 .. end - start
      PROVE  /\ (oldest + start + i - 1) % n = (h + n - c + (start + i) - 1) % n
             /\ (oldest + start + i - 1) % n \in 0 .. n - 1
             /\ start + i \in 1 .. c
  <2>1. PICK o, one, two : /\ o = h + n - c /\ one = oldest + start + i - 1
                           /\ two = h + n - c + (start + i) - 1
    OBVIOUS
  <2>2. oldest = IF o < n THEN o ELSE o - n
    <3>1. o \in 0 .. 2 * n - 1
      BY <1>3, <2>1
    <3>2. oldest = o % n
      BY <1>2, <2>1 DEF oldest
    <3>3. QED BY <3>1, <3>2, SlotIs
  <2>3. oldest \in 0 .. n - 1 /\ start + i \in 1 .. c
    BY <1>3, <1>4, <2>1, <2>2
  <2>4. one \in 0 .. 2 * n - 1 /\ two \in 0 .. 2 * n - 1
    BY <1>3, <1>4, <2>1, <2>2, <2>3
  <2>5. one % n = (IF one < n THEN one ELSE one - n) /\ two % n = (IF two < n THEN two ELSE two - n)
    BY <2>4, SlotIs
  <2>6. one % n = two % n /\ one % n \in 0 .. n - 1
    BY <1>3, <1>4, <2>1, <2>2, <2>3, <2>4, <2>5
  <2>7. QED BY <2>1, <2>3, <2>6
<1>9. d \in [1 .. end - start -> Lines] /\ end - start \in Nat
      /\ \A i \in 1 .. end - start : d[i] = Contents(r, n)[start + i]
  <2>1. end - start \in Nat
    BY <1>4
  <2>2. d \in [1 .. end - start -> Lines]
    BY <1>1, <1>3, <1>8
  <2>3. \A i \in 1 .. end - start : d[i] = Contents(r, n)[start + i]
    BY <1>1, <1>5, <1>8
  <2>4. QED BY <2>1, <2>2, <2>3
<1>10. d \in Seq(Lines) /\ Len(d) = end - start
  BY <1>9
<1>11. d = t
  BY <1>7, <1>9, <1>10, SeqEqual
<1>12. end - start = IF r.count - scroll > visible THEN visible ELSE r.count - scroll
  BY <1>2, <1>3, <1>4
<1>13. QED BY <1>10, <1>11, <1>12 DEF d, t, w

-----------------------------------------------------------------------------
(* The records expected of a history.                                       *)

RecordLines == [number : Nat, kind : Kinds \union {"header"}, event : Nat] \union {<<>>}
EventLines == Nat \union {<<>>}

Skipped(from) == IF from < 0 THEN 0 ELSE from
ExpectedFront(from) == IF from < 0 THEN <<Header>> ELSE <<>>
ExpectedOf(from, n, lg) ==
  ExpectedFront(from)
    \o [i \in 1 .. n - Skipped(from) |->
          Record(i + Skipped(from), lg[i + Skipped(from)], i + Skipped(from))]
ExceptionsOf(from, lg) == {ev \in from + 1 .. Len(lg) : lg[ev] = "exception"}

LEMMA ExpectedIs == \A from : Expected(from) = ExpectedOf(from, Complete, log)
BY DEF Expected, ExpectedOf, ExpectedFront, Skipped

LEMMA ExpectedIsNext == \A from : Expected(from)' = ExpectedOf(from, Complete', log')
BY DEF Expected, ExpectedOf, ExpectedFront, Skipped

LEMMA RecordIsLine ==
  ASSUME NEW n \in Nat, NEW k \in Kinds
  PROVE  Record(n, k, n) \in RecordLines
BY DEF Record, RecordLines

LEMMA ExpectedElements ==
  ASSUME NEW n \in Nat, NEW from \in -1 .. n, NEW lg \in Seq(Kinds), n <= Len(lg)
  PROVE  /\ ExpectedOf(from, n, lg) \in Seq(RecordLines)
         /\ ExpectedFront(from) \in Seq(RecordLines)
         /\ Len(ExpectedOf(from, n, lg)) = Len(ExpectedFront(from)) + (n - Skipped(from))
         /\ Skipped(from) \in 0 .. n
         /\ \A i \in 1 .. Len(ExpectedOf(from, n, lg)) :
              ExpectedOf(from, n, lg)[i] =
                IF i <= Len(ExpectedFront(from)) THEN ExpectedFront(from)[i]
                ELSE Record(i - Len(ExpectedFront(from)) + Skipped(from),
                            lg[i - Len(ExpectedFront(from)) + Skipped(from)],
                            i - Len(ExpectedFront(from)) + Skipped(from))
<1> DEFINE k == Skipped(from)
           front == ExpectedFront(from)
           rest == [i \in 1 .. n - k |-> Record(i + k, lg[i + k], i + k)]
<1>1. k \in 0 .. n
  BY DEF Skipped
<1>2. front \in Seq(RecordLines)
  <2>1. Header \in RecordLines
    BY DEF Header, RecordLines
  <2>2. <<Header>> \in Seq(RecordLines) /\ <<>> \in Seq(RecordLines)
    BY <2>1
  <2>3. QED BY <2>2 DEF ExpectedFront
<1>3. \A i \in 1 .. n - k : rest[i] = Record(i + k, lg[i + k], i + k) /\ rest[i] \in RecordLines
  <2> HIDE DEF k
  <2> TAKE i \in 1 .. n - k
  <2>1. i + k \in 1 .. n
    BY <1>1
  <2>2. i + k \in Nat /\ lg[i + k] \in Kinds
    BY <2>1
  <2>3. QED BY <2>2, RecordIsLine
<1>4. rest \in Seq(RecordLines) /\ Len(rest) = n - k
  <2>1. n - k \in Nat
    BY <1>1
  <2> HIDE DEF k
  <2>2. rest \in [1 .. n - k -> RecordLines]
    BY <1>3
  <2> HIDE DEF rest
  <2>3. QED BY <2>1, <2>2
<1>5. ExpectedOf(from, n, lg) = front \o rest
  BY DEF ExpectedOf
<1> HIDE DEF k, front, rest
<1>6. /\ front \o rest \in Seq(RecordLines)
      /\ Len(front \o rest) = Len(front) + Len(rest)
      /\ \A i \in 1 .. Len(front) + Len(rest) :
           (front \o rest)[i] = IF i <= Len(front) THEN front[i] ELSE rest[i - Len(front)]
  BY <1>2, <1>4, ConcatProperties
<1>7. ASSUME NEW i \in 1 .. Len(front \o rest)
      PROVE  (front \o rest)[i] =
                IF i <= Len(front) THEN front[i]
                ELSE Record(i - Len(front) + k, lg[i - Len(front) + k], i - Len(front) + k)
  <2>1. Len(front) \in Nat /\ n - k \in Nat
    BY <1>1, <1>2
  <2>2. CASE i <= Len(front)
    BY <1>4, <1>6, <2>1, <2>2
  <2>3. CASE ~(i <= Len(front))
    <3>1. i - Len(front) \in 1 .. n - k
      BY <1>4, <1>6, <2>1, <2>3
    <3>2. QED BY <1>3, <1>4, <1>6, <2>1, <2>3, <3>1
  <2>4. QED BY <2>2, <2>3
<1>8. QED BY <1>1, <1>2, <1>4, <1>5, <1>6, <1>7 DEF k, front

LEMMA ExpectedGrows ==
  ASSUME NEW n \in Nat, NEW from \in -1 .. n, NEW lg \in Seq(Kinds), n + 1 <= Len(lg)
  PROVE  ExpectedOf(from, n + 1, lg)
           = Append(ExpectedOf(from, n, lg), Record(n + 1, lg[n + 1], n + 1))
<1> DEFINE a == ExpectedOf(from, n, lg)
           b == ExpectedOf(from, n + 1, lg)
           added == Record(n + 1, lg[n + 1], n + 1)
           k == Skipped(from)
           front == ExpectedFront(from)
<1>1. /\ a \in Seq(RecordLines) /\ front \in Seq(RecordLines)
      /\ Len(a) = Len(front) + (n - k) /\ k \in 0 .. n
      /\ \A i \in 1 .. Len(a) :
           a[i] = IF i <= Len(front) THEN front[i]
                  ELSE Record(i - Len(front) + k, lg[i - Len(front) + k], i - Len(front) + k)
  <2>1. n <= Len(lg)
    OBVIOUS
  <2>2. QED BY <2>1, ExpectedElements
<1>2. /\ b \in Seq(RecordLines) /\ Len(b) = Len(front) + (n + 1 - k)
      /\ \A i \in 1 .. Len(b) :
           b[i] = IF i <= Len(front) THEN front[i]
                  ELSE Record(i - Len(front) + k, lg[i - Len(front) + k], i - Len(front) + k)
  <2>1. PICK m : m = n + 1
    OBVIOUS
  <2>2. m \in Nat /\ from \in -1 .. m /\ m <= Len(lg)
    BY <2>1
  <2>3. /\ ExpectedOf(from, m, lg) \in Seq(RecordLines)
        /\ Len(ExpectedOf(from, m, lg)) = Len(front) + (m - k)
        /\ \A i \in 1 .. Len(ExpectedOf(from, m, lg)) :
             ExpectedOf(from, m, lg)[i] =
                IF i <= Len(front) THEN front[i]
                ELSE Record(i - Len(front) + k, lg[i - Len(front) + k], i - Len(front) + k)
    BY <2>2, ExpectedElements
  <2>4. QED BY <1>1, <2>1, <2>3
<1>3. added \in RecordLines
  BY RecordIsLine
<1> HIDE DEF a, b, added, k, front
<1>4. /\ Append(a, added) \in Seq(RecordLines) /\ Len(Append(a, added)) = Len(a) + 1
      /\ \A i \in 1 .. Len(a) : Append(a, added)[i] = a[i]
      /\ Append(a, added)[Len(a) + 1] = added
  BY <1>1, <1>3, AppendProperties
<1>5. Len(front) \in Nat /\ Len(a) \in Nat /\ Len(b) = Len(a) + 1
  BY <1>1, <1>2
<1>6. ASSUME NEW i \in 1 .. Len(b)
      PROVE  b[i] = Append(a, added)[i]
  <2>1. CASE i = Len(b)
    <3>1. ~(i <= Len(front)) /\ i - Len(front) + k = n + 1
      BY <1>1, <1>2, <1>5, <2>1
    <3>2. QED BY <1>2, <1>4, <1>5, <2>1, <3>1 DEF added
  <2>2. CASE i # Len(b)
    <3>1. i \in 1 .. Len(a)
      BY <1>5, <2>2
    <3>2. QED BY <1>1, <1>2, <1>4, <3>1
  <2>3. QED BY <2>1, <2>2
<1>7. QED BY <1>2, <1>4, <1>5, <1>6, SeqEqual DEF a, b, added

LEMMA ExpectedSame ==
  ASSUME NEW n \in Nat, NEW from \in -1 .. n, NEW lg, NEW lg2,
         \A i \in 1 .. n : lg[i] = lg2[i]
  PROVE  ExpectedOf(from, n, lg) = ExpectedOf(from, n, lg2)
<1> DEFINE k == Skipped(from)
<1>1. k \in 0 .. n
  BY DEF Skipped
<1>2. \A i \in 1 .. n - k : i + k \in 1 .. n
  BY <1>1
<1>3. \A i \in 1 .. n - k : lg[i + k] = lg2[i + k]
  BY <1>2
<1>4. [i \in 1 .. n - k |-> Record(i + k, lg[i + k], i + k)]
        = [i \in 1 .. n - k |-> Record(i + k, lg2[i + k], i + k)]
  BY <1>3
<1>5. QED BY <1>4 DEF ExpectedOf

LEMMA ExpectedNone ==
  ASSUME NEW n \in Nat, NEW lg \in Seq(Kinds), n <= Len(lg)
  PROVE  ExpectedOf(n, n, lg) = <<>>
<1>1. Len(ExpectedFront(n)) = 0 /\ Skipped(n) = n
  BY DEF ExpectedFront, Skipped
<1>2. n \in -1 .. n
  OBVIOUS
<1>3. ExpectedOf(n, n, lg) \in Seq(RecordLines) /\ Len(ExpectedOf(n, n, lg)) = 0
  BY <1>1, <1>2, ExpectedElements
<1>4. QED BY <1>3, EmptySeq

(* An exception more.                                                       *)
LEMMA ExceptionsGrow ==
  ASSUME NEW lg \in Seq(Kinds), NEW from \in Nat, from <= Len(lg), NEW k \in Kinds
  PROVE  ExceptionsOf(from, Append(lg, k))
           = ExceptionsOf(from, lg) \union (IF k = "exception" THEN {Len(lg) + 1} ELSE {})
<1>1. /\ Len(lg) \in Nat /\ Len(Append(lg, k)) = Len(lg) + 1
      /\ \A i \in 1 .. Len(lg) : Append(lg, k)[i] = lg[i]
      /\ Append(lg, k)[Len(lg) + 1] = k
  BY AppendProperties
<1>2. QED BY <1>1 DEF ExceptionsOf

LEMMA NewestAdds ==
  ASSUME NEW n \in Nat \ {0}, NEW r, RingOK(r, n, EventLines), NEW m \in Nat,
         NEW events \in SUBSET (1 .. m), NewestOf(Contents(r, n), events, n)
  PROVE  NewestOf(Contents(ring_add(r, n, m + 1), n), events \union {m + 1}, n)
<1> DEFINE a == ring_add(r, n, m + 1)
           s == Contents(r, n)
           t == Contents(a, n)
<1>1. m + 1 \in EventLines
  BY DEF EventLines
<1>2. PICK c, d : c = r.count /\ d = a.count
  OBVIOUS
<1>3. /\ RingOK(a, n, EventLines) /\ c \in 0 .. n
      /\ d = (IF c < n THEN c + 1 ELSE n)
      /\ \A i \in 1 .. d : t[i] = IF i = d THEN m + 1 ELSE s[i + c + 1 - d]
  <2>1. /\ RingOK(a, n, EventLines)
        /\ a.count = IF r.count < n THEN r.count + 1 ELSE n
        /\ \A i \in 1 .. a.count :
             Contents(a, n)[i] = IF i = a.count THEN m + 1
                                 ELSE Contents(r, n)[i + r.count + 1 - a.count]
    BY <1>1, RingAdds
  <2>2. r.count \in 0 .. n
    BY DEF RingOK
  <2> HIDE DEF a
  <2>3. QED BY <1>2, <2>1, <2>2
<1>4. s \in Seq(EventLines) /\ Len(s) = c /\ t \in Seq(EventLines) /\ Len(t) = d
  BY <1>2, <1>3, ContentsIs
<1>5. /\ \A i \in 1 .. c : s[i] \in 1 .. m /\ s[i] \in events
      /\ \A i, j \in 1 .. c : i < j => s[i] < s[j]
      /\ \A ev \in events : (\E i \in 1 .. c : s[i] = ev) \/ (c = n /\ ev < s[1])
  <2>1. DOMAIN s = 1 .. c
    BY <1>4
  <2>2. /\ \A i \in 1 .. c : s[i] \in events
        /\ \A i, j \in 1 .. c : i < j => s[i] < s[j]
        /\ \A ev \in events : (\E i \in 1 .. c : s[i] = ev) \/ (Len(s) = n /\ ev < s[1])
    BY <2>1 DEF NewestOf
  <2>3. QED BY <1>4, <2>2
<1> HIDE DEF a, s, t
<1>6. \A i \in 1 .. d : i # d => i + c + 1 - d \in 1 .. c
  BY <1>3
<1>7. \A i \in 1 .. d : t[i] \in events \union {m + 1}
  BY <1>3, <1>5, <1>6
<1>8. ASSUME NEW i \in 1 .. d, NEW j \in 1 .. d, i < j
      PROVE  t[i] < t[j]
  <2>0. PICK p, q : p = i + c + 1 - d /\ q = j + c + 1 - d
    OBVIOUS
  <2>1. i # d /\ p \in 1 .. c /\ t[i] = s[p]
    BY <1>3, <1>6, <1>8, <2>0
  <2>2. CASE j = d
    BY <1>3, <1>5, <2>1, <2>2
  <2>3. CASE j # d
    <3>1. q \in 1 .. c /\ t[j] = s[q]
      BY <1>3, <1>6, <2>0, <2>3
    <3>2. p < q
      BY <1>3, <1>8, <2>0
    <3>3. QED BY <1>5, <2>1, <3>1, <3>2
  <2>4. QED BY <2>2, <2>3
<1>9. ASSUME NEW ev \in events \union {m + 1}
      PROVE  (\E i \in 1 .. d : t[i] = ev) \/ (d = n /\ ev < t[1])
  <2>1. CASE ev = m + 1
    <3>1. d \in 1 .. d /\ t[d] = m + 1
      BY <1>3
    <3>2. QED BY <2>1, <3>1
  <2>2. CASE ev \in events /\ (\E i \in 1 .. c : s[i] = ev) /\ c < n
    <3>1. PICK i \in 1 .. c : s[i] = ev
      BY <2>2
    <3>2. i \in 1 .. d /\ i # d /\ i + c + 1 - d = i
      BY <1>3, <2>2
    <3>3. t[i] = ev
      BY <1>3, <3>1, <3>2
    <3>4. QED BY <3>2, <3>3
  <2>3. CASE ev \in events /\ (\E i \in 2 .. c : s[i] = ev) /\ c = n
    <3>1. PICK i \in 2 .. c : s[i] = ev
      BY <2>3
    <3>2. PICK k : k = i - 1
      OBVIOUS
    <3>3. k \in 1 .. d /\ k # d /\ k + c + 1 - d = i
      BY <1>3, <2>3, <3>2
    <3>4. t[k] = ev
      BY <1>3, <3>1, <3>3
    <3>5. QED BY <3>3, <3>4
  <2>4. CASE ev \in events /\ ev <= s[1] /\ c = n
    <3>1. d = n /\ 1 \in 1 .. d /\ 1 \in 1 .. c /\ ev \in 1 .. m
      BY <1>3, <2>4
    <3>2. ev < t[1]
      <4>1. CASE n = 1
        BY <1>3, <3>1, <4>1
      <4>2. CASE n # 1
        <5>1. t[1] = s[2] /\ 2 \in 1 .. c
          BY <1>3, <2>4, <3>1, <4>2
        <5>2. s[1] < s[2] /\ s[1] \in 1 .. m /\ s[2] \in 1 .. m
          BY <1>5, <3>1, <5>1
        <5>3. QED BY <2>4, <3>1, <5>1, <5>2
      <4>3. QED BY <4>1, <4>2
    <3>3. QED BY <3>1, <3>2
  <2>5. CASE ev \in events
    <3>1. CASE \E i \in 1 .. c : s[i] = ev
      <4>1. PICK i \in 1 .. c : s[i] = ev
        BY <3>1
      <4>2. CASE c < n
        BY <2>2, <2>5, <3>1, <4>2
      <4>3. CASE c = n /\ i = 1
        <5>1. ev <= s[1]
          BY <1>5, <4>1, <4>3
        <5>2. QED BY <2>4, <2>5, <4>3, <5>1
      <4>4. CASE c = n /\ i # 1
        <5>1. i \in 2 .. c
          BY <1>3, <4>4
        <5>2. QED BY <2>3, <2>5, <4>1, <4>4, <5>1
      <4>5. QED BY <1>3, <4>2, <4>3, <4>4
    <3>2. CASE c = n /\ ev < s[1]
      <4>1. 1 \in 1 .. c
        BY <3>2
      <4>2. s[1] \in 1 .. m /\ ev \in 1 .. m
        BY <1>5, <2>5, <4>1
      <4>3. ev <= s[1]
        BY <3>2, <4>2
      <4>4. QED BY <2>4, <2>5, <3>2, <4>3
    <3>3. QED BY <1>5, <2>5, <3>1, <3>2
  <2>6. QED BY <2>1, <2>5
<1>10. DOMAIN t = 1 .. d /\ Len(t) = d
  BY <1>4
<1>11. NewestOf(t, events \union {m + 1}, n)
  BY <1>7, <1>8, <1>9, <1>10 DEF NewestOf
<1>12. QED BY <1>11 DEF a, t

-----------------------------------------------------------------------------
(* The trace.                                                               *)

TraceTyped ==
  /\ sinks \subseteq {"tui", "file"}
  /\ sequence \in Nat
  /\ RingOK(trace, TRACE_CAPACITY, RecordLines)
  /\ RingOK(exceptions, EXCEPTION_CAPACITY, EventLines)
  /\ file \in Seq(RecordLines)
  /\ in_instruction \in BOOLEAN
  /\ instruction \in 0 .. Len(log) /\ pending \in 0 .. Len(log)
  /\ active_page \in 0 .. 3
  /\ trace_scroll \in Nat
  /\ log \in Seq(Kinds) /\ Len(log) <= MAX_EVENTS
  /\ DOMAIN forgotten = {"trace", "exceptions"}

(* While an instruction runs it is the last event but for its exception,    *)
(* which waits for its record.                                              *)
InstructionOpen ==
  IF in_instruction
  THEN /\ capture_events
       /\ instruction \in 1 .. Len(log) /\ log[instruction] = "instruction"
       /\ \/ pending = 0 /\ Len(log) = instruction
          \/ pending = instruction + 1 /\ Len(log) = pending /\ log[pending] = "exception"
  ELSE pending = 0

TraceNumbers ==
  /\ sequence = IF capture_events THEN Complete ELSE 0
  /\ forgotten.trace \in -1 .. Complete /\ forgotten.exceptions \in 0 .. Len(log)
  /\ trace_scroll = 0 \/ trace_scroll < trace.count

PaneHolds(r, n, lg) ==
  /\ RingOK(r, TRACE_CAPACITY, RecordLines)
  /\ Contents(r, TRACE_CAPACITY) = Tail_n(ExpectedOf(forgotten.trace, n, lg), TRACE_CAPACITY)

ExceptionsHold(r, lg) ==
  /\ RingOK(r, EXCEPTION_CAPACITY, EventLines)
  /\ NewestOf(Contents(r, EXCEPTION_CAPACITY),
              ExceptionsOf(forgotten.exceptions, lg), EXCEPTION_CAPACITY)

RecordsHold ==
  /\ "file" \in sinks => file = ExpectedOf(-1, Complete, log)
  /\ capture_events => PaneHolds(trace, Complete, log) /\ ExceptionsHold(exceptions, log)
  /\ ~capture_events => trace.count = 0 /\ exceptions.count = 0

TraceInv == TraceTyped /\ InstructionOpen /\ TraceNumbers /\ RecordsHold

LEMMA CompleteIs == TraceTyped /\ InstructionOpen => Complete \in 0 .. Len(log)
BY DEF TraceTyped, InstructionOpen, Complete

(* One record more, behind the n that are there.                            *)
LEMMA PaneGrows ==
  ASSUME NEW n \in Nat, NEW lg \in Seq(Kinds), n + 1 <= Len(lg), forgotten.trace \in -1 .. n,
         NEW r, PaneHolds(r, n, lg),
         NEW added, added = Record(n + 1, lg[n + 1], n + 1)
  PROVE  /\ PaneHolds(ring_add(r, TRACE_CAPACITY, added), n + 1, lg)
         /\ ring_add(r, TRACE_CAPACITY, added).count >= r.count
         /\ added \in RecordLines
<1>1. lg[n + 1] \in Kinds /\ n + 1 \in Nat /\ n <= Len(lg)
  OBVIOUS
<1>2. added \in RecordLines
  BY <1>1, RecordIsLine
<1>3. ExpectedOf(forgotten.trace, n, lg) \in Seq(RecordLines)
  BY <1>1, ExpectedElements
<1>4. TRACE_CAPACITY \in Nat \ {0}
  BY TraceAssumption
<1>5. Contents(ring_add(r, TRACE_CAPACITY, added), TRACE_CAPACITY)
        = Tail_n(Append(ExpectedOf(forgotten.trace, n, lg), added), TRACE_CAPACITY)
  BY <1>2, <1>3, <1>4, AddedToNewest DEF PaneHolds
<1>6. ExpectedOf(forgotten.trace, n + 1, lg) = Append(ExpectedOf(forgotten.trace, n, lg), added)
  BY ExpectedGrows
<1>7. /\ RingOK(ring_add(r, TRACE_CAPACITY, added), TRACE_CAPACITY, RecordLines)
      /\ ring_add(r, TRACE_CAPACITY, added).count
           = IF r.count < TRACE_CAPACITY THEN r.count + 1 ELSE TRACE_CAPACITY
  BY <1>2, <1>4, RingAdds DEF PaneHolds
<1>8. r.count \in 0 .. TRACE_CAPACITY
  BY DEF PaneHolds, RingOK
<1>9. ring_add(r, TRACE_CAPACITY, added).count >= r.count
  BY <1>4, <1>7, <1>8
<1>10. QED BY <1>2, <1>5, <1>6, <1>7, <1>9 DEF PaneHolds

(* Events that are not recorded yet change no record.                       *)
LEMMA PaneSame ==
  ASSUME NEW lg \in Seq(Kinds), NEW k \in Kinds, NEW n \in 0 .. Len(lg),
         forgotten.trace \in -1 .. n, NEW r, PaneHolds(r, n, lg)
  PROVE  PaneHolds(r, n, Append(lg, k))
<1>1. \A i \in 1 .. n : lg[i] = Append(lg, k)[i]
  OBVIOUS
<1>2. n \in Nat
  OBVIOUS
<1>3. ExpectedOf(forgotten.trace, n, lg) = ExpectedOf(forgotten.trace, n, Append(lg, k))
  BY <1>1, <1>2, ExpectedSame
<1>4. QED BY <1>3 DEF PaneHolds

LEMMA FileSame ==
  ASSUME NEW lg \in Seq(Kinds), NEW k \in Kinds, NEW n \in 0 .. Len(lg)
  PROVE  ExpectedOf(-1, n, Append(lg, k)) = ExpectedOf(-1, n, lg)
<1>1. \A i \in 1 .. n : lg[i] = Append(lg, k)[i]
  OBVIOUS
<1>2. n \in Nat /\ -1 \in -1 .. n
  OBVIOUS
<1>3. QED BY <1>1, <1>2, ExpectedSame

LEMMA FileGrows ==
  ASSUME NEW n \in Nat, NEW lg \in Seq(Kinds), n + 1 <= Len(lg)
  PROVE  ExpectedOf(-1, n + 1, lg)
           = Append(ExpectedOf(-1, n, lg), Record(n + 1, lg[n + 1], n + 1))
<1>1. -1 \in -1 .. n
  OBVIOUS
<1>2. QED BY <1>1, ExpectedGrows

LEMMA ExceptionsSame ==
  ASSUME NEW lg \in Seq(Kinds), NEW k \in Kinds, k # "exception",
         forgotten.exceptions \in 0 .. Len(lg), NEW r, ExceptionsHold(r, lg)
  PROVE  ExceptionsHold(r, Append(lg, k))
<1>1. forgotten.exceptions \in Nat /\ forgotten.exceptions <= Len(lg)
  OBVIOUS
<1>2. ExceptionsOf(forgotten.exceptions, Append(lg, k))
        = ExceptionsOf(forgotten.exceptions, lg) \union {}
  BY <1>1, ExceptionsGrow
<1>3. ExceptionsOf(forgotten.exceptions, Append(lg, k)) = ExceptionsOf(forgotten.exceptions, lg)
  BY <1>2
<1>4. QED BY <1>3 DEF ExceptionsHold

LEMMA ExceptionsMore ==
  ASSUME NEW lg \in Seq(Kinds), forgotten.exceptions \in 0 .. Len(lg),
         NEW r, ExceptionsHold(r, lg)
  PROVE  ExceptionsHold(ring_add(r, EXCEPTION_CAPACITY, Len(lg) + 1), Append(lg, "exception"))
<1> DEFINE n == EXCEPTION_CAPACITY
           m == Len(lg)
           events == ExceptionsOf(forgotten.exceptions, lg)
<1>1. n \in Nat \ {0} /\ m \in Nat
  BY TraceAssumption
<1>2. events \in SUBSET (1 .. m)
  BY DEF ExceptionsOf
<1>3. m + 1 \in EventLines
  BY <1>1 DEF EventLines
<1>4. RingOK(r, n, EventLines) /\ NewestOf(Contents(r, n), events, n)
  BY DEF ExceptionsHold
<1>5. ExceptionsOf(forgotten.exceptions, Append(lg, "exception")) = events \union {m + 1}
  <2>1. forgotten.exceptions \in Nat /\ forgotten.exceptions <= Len(lg) /\ "exception" \in Kinds
    BY DEF Kinds
  <2>2. QED BY <2>1, ExceptionsGrow
<1> HIDE DEF n, m, events
<1>6. RingOK(ring_add(r, n, m + 1), n, EventLines)
  BY <1>1, <1>3, <1>4, RingAdds
<1>7. NewestOf(Contents(ring_add(r, n, m + 1), n), events \union {m + 1}, n)
  BY <1>1, <1>2, <1>4, NewestAdds
<1>8. QED BY <1>5, <1>6, <1>7 DEF ExceptionsHold, n, m

LEMMA HeldNext ==
  ASSUME sinks' = sinks, forgotten' = forgotten,
         "file" \in sinks => file' = ExpectedOf(-1, Complete', log'),
         capture_events => PaneHolds(trace', Complete', log') /\ ExceptionsHold(exceptions', log'),
         ~capture_events => trace'.count = 0 /\ exceptions'.count = 0
  PROVE  RecordsHold'
BY DEF RecordsHold, PaneHolds, ExceptionsHold, capture_events

(* An event that is recorded at once: a reset, an exception between         *)
(* instructions.                                                            *)
LEMMA RecordedAtOnce ==
  ASSUME TraceInv, capture_events, ~in_instruction, in_instruction' = FALSE,
         NEW k \in Kinds, log' = Append(log, k), sinks' = sinks,
         trace_add(Record(sequence + 1, k, Len(log) + 1))
  PROVE  /\ Complete' = Len(log') /\ Complete' = sequence + 1 /\ Complete' \in Nat
         /\ PaneHolds(trace', Complete', log') /\ trace'.count >= trace.count
         /\ file' \in Seq(RecordLines)
         /\ "file" \in sinks => file' = ExpectedOf(-1, Complete', log')
<1> DEFINE n == Len(log)
           added == Record(sequence + 1, k, Len(log) + 1)
<1>1. log \in Seq(Kinds) /\ n \in Nat /\ file \in Seq(RecordLines)
  BY DEF TraceInv, TraceTyped
<1>2. log' \in Seq(Kinds) /\ Len(log') = n + 1 /\ log'[n + 1] = k
  BY <1>1, AppendProperties
<1>3. Complete = n /\ sequence = n /\ forgotten.trace \in -1 .. n
  BY DEF TraceInv, TraceNumbers, Complete
<1>4. Complete' = n + 1
  BY <1>2 DEF Complete
<1>5. PaneHolds(trace, n, log) /\ ("file" \in sinks => file = ExpectedOf(-1, n, log))
  BY <1>3 DEF TraceInv, RecordsHold
<1>6. n \in 0 .. Len(log)
  BY <1>1
<1>7. PaneHolds(trace, n, log') /\ ("file" \in sinks => file = ExpectedOf(-1, n, log'))
  BY <1>1, <1>3, <1>5, <1>6, PaneSame, FileSame
<1>8. added = Record(n + 1, log'[n + 1], n + 1)
  BY <1>2, <1>3
<1>9. /\ PaneHolds(ring_add(trace, TRACE_CAPACITY, added), n + 1, log')
      /\ ring_add(trace, TRACE_CAPACITY, added).count >= trace.count
      /\ added \in RecordLines
  <2> HIDE DEF n, added
  <2>1. n + 1 <= Len(log')
    BY <1>1, <1>2
  <2>2. QED BY <1>1, <1>2, <1>3, <1>7, <1>8, <2>1, PaneGrows
<1>10. ExpectedOf(-1, n + 1, log') = Append(ExpectedOf(-1, n, log'), added)
  <2> HIDE DEF n, added
  <2>1. n + 1 <= Len(log')
    BY <1>1, <1>2
  <2>2. QED BY <1>1, <1>2, <1>8, <2>1, FileGrows
<1>11. trace' = ring_add(trace, TRACE_CAPACITY, added)
       /\ file' = IF "file" \in sinks THEN Append(file, added) ELSE file
  BY DEF trace_add
<1> HIDE DEF n, added
<1>12. PaneHolds(trace', n + 1, log') /\ trace'.count >= trace.count
  BY <1>9, <1>11
<1>13. file' \in Seq(RecordLines)
  BY <1>1, <1>9, <1>11
<1>14. "file" \in sinks => file' = ExpectedOf(-1, n + 1, log')
  BY <1>7, <1>10, <1>11
<1>15. QED BY <1>1, <1>2, <1>3, <1>4, <1>12, <1>13, <1>14

LEMMA BeginStep ==
  ASSUME TraceInv, debugger_instruction_begin
  PROVE  TraceInv'
<1>1. /\ log \in Seq(Kinds) /\ Len(log) \in Nat /\ "instruction" \in Kinds
      /\ log' = Append(log, "instruction") /\ Len(log) < MAX_EVENTS /\ ~in_instruction
      /\ sinks' = sinks /\ forgotten' = forgotten /\ file' = file /\ trace' = trace
      /\ exceptions' = exceptions /\ sequence' = sequence /\ trace_scroll' = trace_scroll
      /\ active_page' = active_page /\ MAX_EVENTS \in Nat
  BY TraceAssumption DEF TraceInv, TraceTyped, debugger_instruction_begin, Happens, Kinds
<1>2. /\ log' \in Seq(Kinds) /\ Len(log') = Len(log) + 1
      /\ log'[Len(log) + 1] = "instruction"
  BY <1>1, AppendProperties
<1>3. Complete = Len(log) /\ forgotten.trace \in -1 .. Len(log)
      /\ forgotten.exceptions \in 0 .. Len(log)
  BY <1>1 DEF TraceInv, TraceNumbers, Complete
<1>4. CASE capture_events
  <2>1. in_instruction' = TRUE /\ instruction' = Len(log) + 1 /\ pending' = 0
    BY <1>4 DEF debugger_instruction_begin, ThisEvent
  <2>2. Complete' = Len(log)
    BY <1>1, <2>1 DEF Complete
  <2>3. TraceTyped'
    BY <1>1, <1>2, <2>1 DEF TraceInv, TraceTyped
  <2>4. InstructionOpen'
    BY <1>1, <1>2, <1>4, <2>1 DEF InstructionOpen, capture_events
  <2>5. TraceNumbers'
    BY <1>1, <1>2, <1>3, <1>4, <2>2 DEF TraceInv, TraceNumbers, capture_events
  <2>6. PaneHolds(trace, Len(log), log) /\ ExceptionsHold(exceptions, log)
        /\ ("file" \in sinks => file = ExpectedOf(-1, Len(log), log))
    BY <1>3, <1>4 DEF TraceInv, RecordsHold
  <2>7. Len(log) \in 0 .. Len(log) /\ "instruction" # "exception"
    BY <1>1
  <2>8. PaneHolds(trace, Len(log), log') /\ ExceptionsHold(exceptions, log')
        /\ ("file" \in sinks => file = ExpectedOf(-1, Len(log), log'))
    BY <1>1, <1>3, <2>6, <2>7, PaneSame, ExceptionsSame, FileSame
  <2>9. RecordsHold'
    BY <1>1, <1>4, <2>2, <2>8, HeldNext
  <2>10. QED BY <2>3, <2>4, <2>5, <2>9 DEF TraceInv
<1>5. CASE ~capture_events
  <2>1. in_instruction' = in_instruction /\ instruction' = instruction /\ pending' = pending
    BY <1>5 DEF debugger_instruction_begin
  <2>2. Complete' = Len(log) + 1
    BY <1>1, <1>2, <2>1 DEF Complete
  <2>3. TraceTyped'
    BY <1>1, <1>2, <2>1 DEF TraceInv, TraceTyped
  <2>4. InstructionOpen'
    BY <1>1, <2>1 DEF TraceInv, InstructionOpen
  <2>5. TraceNumbers'
    BY <1>1, <1>2, <1>3, <1>5, <2>2 DEF TraceInv, TraceNumbers, capture_events
  <2>6. RecordsHold'
    BY <1>1, <1>5 DEF TraceInv, RecordsHold, capture_events
  <2>7. QED BY <2>3, <2>4, <2>5, <2>6 DEF TraceInv
<1>6. QED BY <1>4, <1>5

LEMMA ResetStep ==
  ASSUME TraceInv, debugger_board_reset
  PROVE  TraceInv'
<1>1. /\ log \in Seq(Kinds) /\ Len(log) \in Nat /\ "reset" \in Kinds
      /\ log' = Append(log, "reset") /\ Len(log) < MAX_EVENTS /\ ~in_instruction
      /\ sinks' = sinks /\ forgotten' = forgotten /\ instruction' = instruction
      /\ exceptions' = exceptions /\ trace_scroll' = trace_scroll
      /\ active_page' = active_page /\ MAX_EVENTS \in Nat
      /\ in_instruction' = FALSE /\ pending' = 0
  BY TraceAssumption DEF TraceInv, TraceTyped, debugger_board_reset, Happens, Kinds
<1>2. log' \in Seq(Kinds) /\ Len(log') = Len(log) + 1
  BY <1>1, AppendProperties
<1>3. Complete = Len(log) /\ forgotten.trace \in -1 .. Len(log)
      /\ forgotten.exceptions \in 0 .. Len(log) /\ Complete' = Len(log) + 1
  BY <1>1, <1>2 DEF TraceInv, TraceNumbers, Complete
<1>a. /\ instruction' \in 0 .. Len(log') /\ pending' \in 0 .. Len(log')
      /\ Len(log') <= MAX_EVENTS
  BY <1>1, <1>2 DEF TraceInv, TraceTyped
<1>4. InstructionOpen'
  BY <1>1 DEF InstructionOpen
<1>5. CASE capture_events
  <2>1. trace_add(Record(sequence + 1, "reset", Len(log) + 1)) /\ sequence' = sequence + 1
    BY <1>5 DEF debugger_board_reset, ThisEvent
  <2>2. /\ Complete' = Len(log') /\ Complete' = sequence + 1 /\ Complete' \in Nat
        /\ PaneHolds(trace', Complete', log') /\ trace'.count >= trace.count
        /\ file' \in Seq(RecordLines)
        /\ "file" \in sinks => file' = ExpectedOf(-1, Complete', log')
    BY <1>1, <1>5, <2>1, RecordedAtOnce
  <2>3. TraceTyped'
    <3>1. sequence' \in Nat
      BY <2>1 DEF TraceInv, TraceTyped
    <3>2. QED BY <1>1, <1>2, <1>a, <2>2, <3>1 DEF TraceInv, TraceTyped, PaneHolds
  <2>4. TraceNumbers'
    <3>1. trace.count \in Nat /\ trace'.count \in Nat /\ trace_scroll \in Nat
      BY <2>2 DEF TraceInv, TraceTyped, PaneHolds, RingOK
    <3>2. trace_scroll' = 0 \/ trace_scroll' < trace'.count
      BY <1>1, <2>2, <3>1 DEF TraceInv, TraceNumbers
    <3>3. QED BY <1>1, <1>2, <1>3, <1>5, <2>1, <2>2, <3>2 DEF TraceNumbers, capture_events
  <2>5. ExceptionsHold(exceptions, log')
    <3>1. ExceptionsHold(exceptions, log) /\ "reset" # "exception"
      BY <1>5 DEF TraceInv, RecordsHold
    <3>2. QED BY <1>1, <1>3, <3>1, ExceptionsSame
  <2>6. RecordsHold'
    BY <1>1, <1>5, <2>2, <2>5, HeldNext
  <2>7. QED BY <1>4, <2>3, <2>4, <2>6 DEF TraceInv
<1>6. CASE ~capture_events
  <2>1. trace' = trace /\ file' = file /\ sequence' = sequence
    BY <1>6 DEF debugger_board_reset
  <2>2. TraceTyped'
    BY <1>1, <1>2, <1>a, <2>1 DEF TraceInv, TraceTyped
  <2>3. TraceNumbers'
    BY <1>1, <1>2, <1>3, <1>6, <2>1 DEF TraceInv, TraceNumbers, capture_events
  <2>4. RecordsHold'
    BY <1>1, <1>6, <2>1 DEF TraceInv, RecordsHold, capture_events
  <2>5. QED BY <1>4, <2>2, <2>3, <2>4 DEF TraceInv
<1>7. QED BY <1>5, <1>6

LEMMA ExceptionStep ==
  ASSUME TraceInv, debugger_exception
  PROVE  TraceInv'
<1>1. /\ log \in Seq(Kinds) /\ Len(log) \in Nat /\ "exception" \in Kinds
      /\ log' = Append(log, "exception") /\ Len(log) < MAX_EVENTS /\ pending = 0
      /\ sinks' = sinks /\ forgotten' = forgotten /\ instruction' = instruction
      /\ in_instruction' = in_instruction /\ trace_scroll' = trace_scroll
      /\ active_page' = active_page /\ MAX_EVENTS \in Nat
  BY TraceAssumption DEF TraceInv, TraceTyped, debugger_exception, Happens, Kinds
<1>2. /\ log' \in Seq(Kinds) /\ Len(log') = Len(log) + 1
      /\ log'[Len(log) + 1] = "exception" /\ \A i \in 1 .. Len(log) : log'[i] = log[i]
  BY <1>1, AppendProperties
<1>3. /\ instruction' \in 0 .. Len(log') /\ Len(log') <= MAX_EVENTS
  BY <1>1, <1>2 DEF TraceInv, TraceTyped
<1>4. forgotten.exceptions \in 0 .. Len(log) /\ forgotten.exceptions \in 0 .. Len(log')
  BY <1>1, <1>2 DEF TraceInv, TraceNumbers
<1>5. CASE ~capture_events
  <2>1. trace' = trace /\ file' = file /\ sequence' = sequence /\ pending' = pending
        /\ exceptions' = exceptions
    BY <1>5 DEF debugger_exception
  <2>2. ~in_instruction
    BY <1>5 DEF TraceInv, InstructionOpen
  <2>3. Complete = Len(log) /\ Complete' = Len(log) + 1
    BY <1>1, <1>2, <2>2 DEF Complete
  <2>4. InstructionOpen'
    BY <1>1, <2>1, <2>2 DEF TraceInv, InstructionOpen
  <2>5. pending' \in 0 .. Len(log')
    BY <1>1, <1>2, <2>1
  <2>6. TraceTyped'
    BY <1>1, <1>2, <1>3, <2>1, <2>5 DEF TraceInv, TraceTyped
  <2>7. TraceNumbers'
    BY <1>1, <1>2, <1>4, <1>5, <2>1, <2>3 DEF TraceInv, TraceNumbers, capture_events
  <2>8. RecordsHold'
    BY <1>1, <1>5, <2>1 DEF TraceInv, RecordsHold, capture_events
  <2>9. QED BY <2>4, <2>6, <2>7, <2>8 DEF TraceInv
<1>6. CASE capture_events
  <2>1. exceptions' = ring_add(exceptions, EXCEPTION_CAPACITY, Len(log) + 1)
    BY <1>6 DEF debugger_exception, ThisEvent
  <2>2. ExceptionsHold(exceptions', log')
    <3>1. ExceptionsHold(exceptions, log)
      BY <1>6 DEF TraceInv, RecordsHold
    <3>2. QED BY <1>1, <1>4, <2>1, <3>1, ExceptionsMore
  <2>3. CASE in_instruction
    <3>1. trace' = trace /\ file' = file /\ sequence' = sequence /\ pending' = Len(log) + 1
      BY <1>6, <2>3 DEF debugger_exception, ThisEvent
    <3>2. instruction \in 1 .. Len(log) /\ log[instruction] = "instruction"
          /\ Len(log) = instruction
      BY <1>1, <2>3 DEF TraceInv, InstructionOpen
    <3>3. Complete = instruction - 1 /\ Complete' = instruction - 1
          /\ instruction - 1 \in 0 .. Len(log) /\ instruction - 1 \in 0 .. Len(log')
      BY <1>1, <1>2, <2>3, <3>2 DEF Complete
    <3>4. InstructionOpen'
      <4>1. pending' = instruction' + 1 /\ Len(log') = pending' /\ log'[pending'] = "exception"
            /\ instruction' \in 1 .. Len(log') /\ log'[instruction'] = "instruction"
        BY <1>1, <1>2, <3>1, <3>2
      <4>2. QED BY <1>1, <1>6, <2>3, <4>1 DEF InstructionOpen, capture_events
    <3>5. pending' \in 0 .. Len(log')
      BY <1>1, <1>2, <3>1
    <3>6. TraceTyped'
      BY <1>1, <1>2, <1>3, <2>2, <3>1, <3>5 DEF TraceInv, TraceTyped, ExceptionsHold
    <3>7. TraceNumbers'
      BY <1>1, <1>4, <1>6, <3>1, <3>3 DEF TraceInv, TraceNumbers, capture_events
    <3>8. PaneHolds(trace, instruction - 1, log) /\ forgotten.trace \in -1 .. instruction - 1
          /\ ("file" \in sinks => file = ExpectedOf(-1, instruction - 1, log))
      BY <1>6, <3>3 DEF TraceInv, RecordsHold, TraceNumbers
    <3>9. PaneHolds(trace, instruction - 1, log')
          /\ ("file" \in sinks => file = ExpectedOf(-1, instruction - 1, log'))
      BY <1>1, <3>3, <3>8, PaneSame, FileSame
    <3>10. RecordsHold'
      BY <1>1, <1>6, <2>2, <3>1, <3>3, <3>9, HeldNext
    <3>11. QED BY <3>4, <3>6, <3>7, <3>10 DEF TraceInv
  <2>4. CASE ~in_instruction
    <3>1. trace_add(Record(sequence + 1, "exception", Len(log) + 1)) /\ sequence' = sequence + 1
          /\ pending' = pending /\ in_instruction' = FALSE
      BY <1>1, <1>6, <2>4 DEF debugger_exception, ThisEvent, TraceInv, TraceTyped
    <3>2. /\ Complete' = Len(log') /\ Complete' = sequence + 1 /\ Complete' \in Nat
          /\ PaneHolds(trace', Complete', log') /\ trace'.count >= trace.count
          /\ file' \in Seq(RecordLines)
          /\ "file" \in sinks => file' = ExpectedOf(-1, Complete', log')
      BY <1>1, <1>6, <2>4, <3>1, RecordedAtOnce
    <3>3. InstructionOpen'
      BY <1>1, <3>1 DEF InstructionOpen
    <3>4. pending' \in 0 .. Len(log') /\ sequence' \in Nat
      BY <1>1, <1>2, <3>1 DEF TraceInv, TraceTyped
    <3>5. TraceTyped'
      BY <1>1, <1>2, <1>3, <2>2, <3>1, <3>2, <3>4 DEF TraceInv, TraceTyped, PaneHolds, ExceptionsHold
    <3>6. Complete = Len(log) /\ forgotten.trace \in -1 .. Complete
      BY <2>4 DEF TraceInv, TraceNumbers, Complete
    <3>7. trace_scroll' = 0 \/ trace_scroll' < trace'.count
      <4>1. trace.count \in Nat /\ trace'.count \in Nat /\ trace_scroll \in Nat
        BY <3>2 DEF TraceInv, TraceTyped, PaneHolds, RingOK
      <4>2. QED BY <1>1, <3>2, <4>1 DEF TraceInv, TraceNumbers
    <3>8. TraceNumbers'
      BY <1>1, <1>2, <1>4, <1>6, <3>1, <3>2, <3>6, <3>7 DEF TraceNumbers, capture_events
    <3>9. RecordsHold'
      BY <1>1, <1>6, <2>2, <3>2, HeldNext
    <3>10. QED BY <3>3, <3>5, <3>8, <3>9 DEF TraceInv
  <2>5. QED BY <2>3, <2>4
<1>7. QED BY <1>5, <1>6

(* The instruction's record, and its exception's behind it.                 *)
LEMMA EndStep ==
  ASSUME TraceInv, debugger_instruction_end
  PROVE  TraceInv'
<1>1. /\ log \in Seq(Kinds) /\ Len(log) \in Nat /\ log' = log /\ in_instruction
      /\ sinks' = sinks /\ forgotten' = forgotten /\ instruction' = instruction
      /\ in_instruction' = FALSE /\ trace_scroll' = trace_scroll /\ pending' = 0
      /\ active_page' = active_page /\ exceptions' = exceptions
      /\ file \in Seq(RecordLines)
  BY DEF TraceInv, TraceTyped, debugger_instruction_end
<1>2. /\ capture_events /\ instruction \in 1 .. Len(log) /\ log[instruction] = "instruction"
      /\ \/ pending = 0 /\ Len(log) = instruction
         \/ pending = instruction + 1 /\ Len(log) = pending /\ log[pending] = "exception"
  BY <1>1 DEF TraceInv, InstructionOpen
<1>3. PICK n : n = instruction - 1
  OBVIOUS
<1>4. n \in Nat /\ n + 1 = instruction /\ n + 1 <= Len(log)
  BY <1>1, <1>2, <1>3
<1>5. Complete = n /\ sequence = n /\ forgotten.trace \in -1 .. n
      /\ forgotten.exceptions \in 0 .. Len(log)
  BY <1>1, <1>2, <1>3 DEF TraceInv, TraceNumbers, Complete
<1>6. /\ PaneHolds(trace, n, log) /\ ExceptionsHold(exceptions, log)
      /\ ("file" \in sinks => file = ExpectedOf(-1, n, log))
  BY <1>2, <1>5 DEF TraceInv, RecordsHold
<1> DEFINE first == Record(sequence + 1, "instruction", instruction)
           once == ring_add(trace, TRACE_CAPACITY, first)
<1>7. first = Record(n + 1, log[n + 1], n + 1)
  BY <1>2, <1>4, <1>5
<1>8. PaneHolds(once, n + 1, log) /\ once.count >= trace.count /\ first \in RecordLines
  <2> HIDE DEF first
  <2>1. QED BY <1>1, <1>4, <1>5, <1>6, <1>7, PaneGrows
<1>9. ExpectedOf(-1, n + 1, log) = Append(ExpectedOf(-1, n, log), first)
  <2> HIDE DEF first
  <2>1. QED BY <1>1, <1>4, <1>7, FileGrows
<1>10. trace.count \in Nat /\ once.count \in Nat
  BY <1>6, <1>8 DEF PaneHolds, RingOK
<1>11. Complete' = Len(log)
  BY <1>1 DEF Complete
<1>12. InstructionOpen'
  BY <1>1 DEF InstructionOpen
<1>13. ASSUME sequence' = Len(log), PaneHolds(trace', Len(log), log), trace'.count >= trace.count,
              file' \in Seq(RecordLines),
              "file" \in sinks => file' = ExpectedOf(-1, Len(log), log)
       PROVE  TraceInv'
  <2>1. pending' \in 0 .. Len(log') /\ sequence' \in Nat
    BY <1>1, <1>13
  <2>2. TraceTyped'
    BY <1>1, <1>13, <2>1 DEF TraceInv, TraceTyped, PaneHolds
  <2>3. trace_scroll' = 0 \/ trace_scroll' < trace'.count
    <3>1. trace'.count \in Nat /\ trace_scroll \in Nat
      BY <1>13 DEF TraceInv, TraceTyped, PaneHolds, RingOK
    <3>2. QED BY <1>1, <1>10, <1>13, <3>1 DEF TraceInv, TraceNumbers
  <2>4. forgotten.trace \in -1 .. Len(log)
    BY <1>1, <1>4, <1>5
  <2>5. TraceNumbers'
    BY <1>1, <1>2, <1>5, <1>11, <1>13, <2>3, <2>4 DEF TraceNumbers, capture_events
  <2>6. RecordsHold'
    BY <1>1, <1>2, <1>6, <1>11, <1>13, HeldNext
  <2>7. QED BY <1>12, <2>2, <2>5, <2>6 DEF TraceInv
<1>14. CASE pending = 0
  <2>1. trace' = once /\ sequence' = sequence + 1
        /\ file' = IF "file" \in sinks THEN Append(file, first) ELSE file
    BY <1>14 DEF debugger_instruction_end, trace_add
  <2> HIDE DEF first, once
  <2>2. Len(log) = n + 1
    BY <1>2, <1>4, <1>14
  <2>3. file' \in Seq(RecordLines) /\ ("file" \in sinks => file' = ExpectedOf(-1, n + 1, log))
    <3>1. Append(file, first) \in Seq(RecordLines)
      BY <1>1, <1>8, AppendProperties
    <3>2. "file" \in sinks => Append(file, first) = ExpectedOf(-1, n + 1, log)
      BY <1>6, <1>9
    <3>3. QED BY <1>1, <2>1, <3>1, <3>2
  <2>4. QED BY <1>5, <1>8, <1>13, <2>1, <2>2, <2>3
<1>15. CASE pending # 0
  <2> DEFINE second == Record(sequence + 2, "exception", pending)
             twice == ring_add(once, TRACE_CAPACITY, second)
  <2>1. trace' = twice /\ sequence' = sequence + 2
        /\ file' = IF "file" \in sinks THEN file \o <<first, second>> ELSE file
    BY <1>15 DEF debugger_instruction_end, trace_add_both
  <2>2. pending = n + 2 /\ Len(log) = n + 2 /\ log[n + 2] = "exception"
    BY <1>2, <1>4, <1>15
  <2>3. second = Record(n + 2, log[n + 2], n + 2)
    BY <1>5, <2>2
  <2> HIDE DEF first, once, second
  <2>4. PICK m : m = n + 1
    OBVIOUS
  <2>5. m \in Nat /\ m + 1 = n + 2 /\ m + 1 <= Len(log) /\ forgotten.trace \in -1 .. m
    BY <1>4, <1>5, <2>2, <2>4
  <2>6. second = Record(m + 1, log[m + 1], m + 1)
    BY <2>3, <2>5
  <2>7. PaneHolds(once, m, log)
    BY <1>8, <2>4
  <2>8. PaneHolds(twice, m + 1, log) /\ twice.count >= once.count /\ second \in RecordLines
    BY <1>1, <2>5, <2>6, <2>7, PaneGrows
  <2>9. ExpectedOf(-1, m + 1, log) = Append(ExpectedOf(-1, m, log), second)
    BY <1>1, <2>5, <2>6, FileGrows
  <2>10. Append(Append(file, first), second) = file \o <<first, second>>
         /\ file \o <<first, second>> \in Seq(RecordLines)
    BY <1>1, <1>8, <2>8
  <2>11. file' \in Seq(RecordLines) /\ ("file" \in sinks => file' = ExpectedOf(-1, m + 1, log))
    BY <1>1, <1>6, <1>9, <2>1, <2>4, <2>9, <2>10
  <2>12. twice.count \in Nat
    BY <2>8 DEF PaneHolds, RingOK
  <2> HIDE DEF twice
  <2>13. PaneHolds(trace', Len(log), log) /\ trace'.count >= trace.count
    BY <1>8, <1>10, <2>1, <2>2, <2>5, <2>8, <2>12
  <2>14. sequence' = Len(log)
    BY <1>4, <1>5, <2>1, <2>2
  <2>15. QED BY <1>13, <2>2, <2>5, <2>11, <2>13, <2>14
<1>16. QED BY <1>14, <1>15

LEMMA ClearedRing ==
  ASSUME NEW n \in Nat \ {0}, NEW Lines, NEW r, RingOK(r, n, Lines)
  PROVE  /\ RingOK(Cleared(r), n, Lines)
         /\ Contents(Cleared(r), n) = <<>> /\ Cleared(r).count = 0
<1>1. RingOK(Cleared(r), n, Lines) /\ Cleared(r).count = 0
  BY DEF RingOK, Cleared
<1>2. Contents(Cleared(r), n) \in Seq(Lines) /\ Len(Contents(Cleared(r), n)) = 0
  BY <1>1, ContentsIs
<1>3. QED BY <1>1, <1>2, EmptySeq

LEMMA TailOfEmpty == \A n \in Nat : Tail_n(<<>>, n) = <<>>
BY DEF Tail_n

LEMMA KeyStep ==
  ASSUME TraceInv, KeyTab \/ KeyUp \/ KeyDown \/ clear_active_page
  PROVE  TraceInv'
<1>1. /\ sinks' = sinks /\ sequence' = sequence /\ file' = file
      /\ in_instruction' = in_instruction /\ instruction' = instruction
      /\ pending' = pending /\ log' = log /\ ~in_instruction /\ "tui" \in sinks
  BY DEF KeyTab, KeyUp, KeyDown, clear_active_page, NotAKey, AtKeys
<1>2. Complete' = Complete /\ Complete = Len(log) /\ InstructionOpen'
  BY <1>1 DEF Complete, InstructionOpen, TraceInv, capture_events
<1>3. capture_events
  BY <1>1 DEF capture_events
<1>4. trace.count \in Nat /\ trace_scroll \in Nat /\ active_page \in 0 .. 3
      /\ log \in Seq(Kinds) /\ Len(log) \in Nat
  BY DEF TraceInv, TraceTyped, RingOK
<1>5. CASE KeyTab \/ KeyUp \/ KeyDown
  <2>1. trace' = trace /\ exceptions' = exceptions /\ forgotten' = forgotten
    BY <1>5 DEF KeyTab, KeyUp, KeyDown
  <2>2. active_page' \in 0 .. 3 /\ trace_scroll' \in Nat
        /\ (trace_scroll' = 0 \/ trace_scroll' < trace.count)
    <3>1. CASE KeyTab
      BY <1>4, <3>1 DEF KeyTab, TraceInv, TraceNumbers
    <3>2. CASE KeyUp
      BY <1>4, <3>2 DEF KeyUp, TraceInv, TraceNumbers
    <3>3. CASE KeyDown
      BY <1>4, <3>3 DEF KeyDown, TraceInv, TraceNumbers
    <3>4. QED BY <1>5, <3>1, <3>2, <3>3
  <2>3. TraceTyped'
    BY <1>1, <2>1, <2>2 DEF TraceInv, TraceTyped
  <2>4. TraceNumbers'
    BY <1>1, <1>2, <2>1, <2>2 DEF TraceInv, TraceNumbers, capture_events
  <2>5. RecordsHold'
    BY <1>1, <1>2, <2>1 DEF TraceInv, RecordsHold, PaneHolds, ExceptionsHold, capture_events
  <2>6. QED BY <1>2, <2>3, <2>4, <2>5 DEF TraceInv
<1>6. CASE clear_active_page
  <2>1. active_page' = active_page
    BY <1>6 DEF clear_active_page
  <2>2. /\ PaneHolds(trace, Len(log), log) /\ ExceptionsHold(exceptions, log)
        /\ ("file" \in sinks => file = ExpectedOf(-1, Len(log), log))
        /\ RingOK(trace, TRACE_CAPACITY, RecordLines)
        /\ RingOK(exceptions, EXCEPTION_CAPACITY, EventLines)
        /\ forgotten.trace \in -1 .. Len(log) /\ forgotten.exceptions \in 0 .. Len(log)
        /\ DOMAIN forgotten = {"trace", "exceptions"}
        /\ TRACE_CAPACITY \in Nat \ {0} /\ EXCEPTION_CAPACITY \in Nat \ {0}
    BY <1>2, <1>3, TraceAssumption DEF TraceInv, TraceTyped, TraceNumbers, RecordsHold
  <2>3. CASE active_page = 1
    <3>1. trace' = Cleared(trace) /\ trace_scroll' = 0 /\ exceptions' = exceptions
          /\ forgotten' = [forgotten EXCEPT !.trace = Len(log)]
      BY <1>6, <2>3 DEF clear_active_page
    <3>2. forgotten'.trace = Len(log) /\ forgotten'.exceptions = forgotten.exceptions
          /\ DOMAIN forgotten' = {"trace", "exceptions"}
      BY <2>2, <3>1
    <3>3. RingOK(trace', TRACE_CAPACITY, RecordLines) /\ Contents(trace', TRACE_CAPACITY) = <<>>
      BY <2>2, <3>1, ClearedRing
    <3>4. ExpectedOf(Len(log), Len(log), log) = <<>>
      BY <1>4, ExpectedNone
    <3>5. RecordsHold'
      <4>1. Tail_n(<<>>, TRACE_CAPACITY) = <<>>
        BY <2>2, TailOfEmpty
      <4>2. Contents(trace', TRACE_CAPACITY)
              = Tail_n(ExpectedOf(forgotten'.trace, Complete', log'), TRACE_CAPACITY)
        BY <1>1, <1>2, <3>2, <3>3, <3>4, <4>1
      <4>3. PaneHolds(trace, Complete, log)'
        BY <3>3, <4>2 DEF PaneHolds
      <4>4. ExceptionsHold(exceptions, log)'
        BY <1>1, <2>2, <3>1, <3>2 DEF ExceptionsHold
      <4>5. QED BY <1>1, <1>2, <1>3, <2>2, <4>3, <4>4 DEF RecordsHold, capture_events
    <3>6. TraceTyped'
      BY <1>1, <2>1, <3>1, <3>2, <3>3 DEF TraceInv, TraceTyped
    <3>7. TraceNumbers'
      BY <1>1, <1>2, <1>4, <2>2, <3>1, <3>2 DEF TraceInv, TraceNumbers, capture_events
    <3>8. QED BY <1>2, <3>5, <3>6, <3>7 DEF TraceInv
  <2>4. CASE active_page = 2
    <3>1. trace' = trace /\ trace_scroll' = trace_scroll /\ exceptions' = Cleared(exceptions)
          /\ forgotten' = [forgotten EXCEPT !.exceptions = Len(log)]
      BY <1>6, <2>4 DEF clear_active_page
    <3>2. forgotten'.exceptions = Len(log) /\ forgotten'.trace = forgotten.trace
          /\ DOMAIN forgotten' = {"trace", "exceptions"}
      BY <2>2, <3>1
    <3>3. RingOK(exceptions', EXCEPTION_CAPACITY, EventLines)
          /\ Contents(exceptions', EXCEPTION_CAPACITY) = <<>>
      BY <2>2, <3>1, ClearedRing
    <3>4. ExceptionsOf(Len(log), log) = {}
      BY <1>4 DEF ExceptionsOf
    <3>5. RecordsHold'
      <4>1. NewestOf(<<>>, {}, EXCEPTION_CAPACITY)
        BY DEF NewestOf
      <4>2. ExceptionsHold(exceptions, log)'
        BY <1>1, <3>2, <3>3, <3>4, <4>1 DEF ExceptionsHold
      <4>3. PaneHolds(trace, Complete, log)'
        BY <1>1, <1>2, <2>2, <3>1, <3>2 DEF PaneHolds
      <4>4. QED BY <1>1, <1>2, <1>3, <2>2, <4>2, <4>3 DEF RecordsHold, capture_events
    <3>6. TraceTyped'
      BY <1>1, <2>1, <3>1, <3>2, <3>3 DEF TraceInv, TraceTyped
    <3>7. TraceNumbers'
      BY <1>1, <1>2, <1>4, <2>2, <3>1, <3>2 DEF TraceInv, TraceNumbers, capture_events
    <3>8. QED BY <1>2, <3>5, <3>6, <3>7 DEF TraceInv
  <2>5. CASE active_page # 1 /\ active_page # 2
    <3>1. trace' = trace /\ trace_scroll' = trace_scroll /\ exceptions' = exceptions
          /\ forgotten' = forgotten
      BY <1>6, <2>5 DEF clear_active_page
    <3>2. TraceTyped'
      BY <1>1, <2>1, <3>1 DEF TraceInv, TraceTyped
    <3>3. TraceNumbers'
      BY <1>1, <1>2, <3>1 DEF TraceInv, TraceNumbers, capture_events
    <3>4. RecordsHold'
      BY <1>1, <1>2, <3>1 DEF TraceInv, RecordsHold, PaneHolds, ExceptionsHold, capture_events
    <3>5. QED BY <1>2, <3>2, <3>3, <3>4 DEF TraceInv
  <2>6. QED BY <2>3, <2>4, <2>5
<1>7. QED BY <1>5, <1>6

LEMMA TraceInitInv == TraceInit => TraceInv
<1> SUFFICES ASSUME TraceInit
             PROVE  TraceInv
  OBVIOUS
<1>1. TRACE_CAPACITY \in Nat \ {0} /\ EXCEPTION_CAPACITY \in Nat \ {0} /\ MAX_EVENTS \in Nat
  BY TraceAssumption
<1>2. /\ sinks \subseteq {"tui", "file"} /\ sequence = 0 /\ log = <<>> /\ ~in_instruction
      /\ in_instruction = FALSE /\ instruction = 0 /\ pending = 0
      /\ active_page = 0 /\ trace_scroll = 0 /\ exceptions = EmptyRing(EXCEPTION_CAPACITY)
      /\ forgotten = [trace |-> -1, exceptions |-> 0]
      /\ file = IF "file" \in sinks THEN <<Header>> ELSE <<>>
      /\ trace = IF capture_events
                 THEN ring_add(EmptyRing(TRACE_CAPACITY), TRACE_CAPACITY, Header)
                 ELSE EmptyRing(TRACE_CAPACITY)
  BY DEF TraceInit
<1>3. log \in Seq(Kinds) /\ Len(log) = 0
  BY <1>2
<1>4. Header \in RecordLines
  BY DEF Header, RecordLines
<1>5. /\ RingOK(EmptyRing(TRACE_CAPACITY), TRACE_CAPACITY, RecordLines)
      /\ EmptyRing(TRACE_CAPACITY).count = 0
  BY <1>1 DEF EmptyRing, RingOK, RecordLines
<1>6. RingOK(exceptions, EXCEPTION_CAPACITY, EventLines) /\ exceptions.count = 0
  BY <1>1, <1>2 DEF EmptyRing, RingOK, EventLines
<1>7. Contents(EmptyRing(TRACE_CAPACITY), TRACE_CAPACITY) = <<>>
      /\ Contents(exceptions, EXCEPTION_CAPACITY) = <<>>
  <2>1. /\ Contents(EmptyRing(TRACE_CAPACITY), TRACE_CAPACITY) \in Seq(RecordLines)
        /\ Len(Contents(EmptyRing(TRACE_CAPACITY), TRACE_CAPACITY)) = 0
    <3> DEFINE e == EmptyRing(TRACE_CAPACITY)
    <3> HIDE DEF e
    <3>1. RingOK(e, TRACE_CAPACITY, RecordLines) /\ e.count = 0
      BY <1>5 DEF e
    <3>2. Contents(e, TRACE_CAPACITY) \in Seq(RecordLines) /\ Len(Contents(e, TRACE_CAPACITY)) = 0
      BY <1>1, <3>1, ContentsIs
    <3>3. QED BY <3>2 DEF e
  <2>2. /\ Contents(exceptions, EXCEPTION_CAPACITY) \in Seq(EventLines)
        /\ Len(Contents(exceptions, EXCEPTION_CAPACITY)) = 0
    BY <1>1, <1>6, ContentsIs
  <2>3. QED BY <2>1, <2>2, EmptySeq
<1>8. Complete = 0
  BY <1>2, <1>3 DEF Complete
<1>9. ExpectedOf(-1, 0, log) = <<Header>>
  <2>1. /\ ExpectedOf(-1, 0, log) \in Seq(RecordLines)
        /\ ExpectedFront(-1) = <<Header>> /\ Len(ExpectedFront(-1)) = 1 /\ Skipped(-1) = 0
        /\ Len(ExpectedOf(-1, 0, log)) = 1
        /\ ExpectedOf(-1, 0, log)[1] = Header
    <3>1. 0 \in Nat /\ -1 \in -1 .. 0 /\ 0 <= Len(log)
      BY <1>3
    <3>2. ExpectedFront(-1) = <<Header>> /\ Skipped(-1) = 0
      BY DEF ExpectedFront, Skipped
    <3>3. /\ ExpectedOf(-1, 0, log) \in Seq(RecordLines)
          /\ Len(ExpectedOf(-1, 0, log)) = Len(ExpectedFront(-1)) + (0 - Skipped(-1))
          /\ \A i \in 1 .. Len(ExpectedOf(-1, 0, log)) :
               i <= Len(ExpectedFront(-1)) => ExpectedOf(-1, 0, log)[i] = ExpectedFront(-1)[i]
      BY <1>3, <3>1, ExpectedElements
    <3>4. QED BY <3>2, <3>3
  <2>2. <<Header>> \in Seq(RecordLines) /\ Len(<<Header>>) = 1 /\ <<Header>>[1] = Header
    BY <1>4
  <2>3. QED BY <2>1, <2>2, SeqEqual
<1>10. file \in Seq(RecordLines) /\ ("file" \in sinks => file = ExpectedOf(-1, 0, log))
  BY <1>2, <1>4, <1>9
<1>11. /\ RingOK(trace, TRACE_CAPACITY, RecordLines)
       /\ capture_events => Contents(trace, TRACE_CAPACITY)
                              = Tail_n(ExpectedOf(-1, 0, log), TRACE_CAPACITY)
       /\ ~capture_events => trace.count = 0
  <2>1. CASE capture_events
    <3>1. trace = ring_add(EmptyRing(TRACE_CAPACITY), TRACE_CAPACITY, Header)
      BY <1>2, <2>1
    <3>2. RingOK(trace, TRACE_CAPACITY, RecordLines)
      BY <1>1, <1>4, <1>5, <3>1, RingAdds
    <3>3. <<>> \in Seq(RecordLines)
          /\ Contents(EmptyRing(TRACE_CAPACITY), TRACE_CAPACITY) = Tail_n(<<>>, TRACE_CAPACITY)
      BY <1>1, <1>7, TailOfEmpty
    <3>4. Contents(trace, TRACE_CAPACITY) = Tail_n(Append(<<>>, Header), TRACE_CAPACITY)
      BY <1>1, <1>4, <1>5, <3>1, <3>3, AddedToNewest
    <3>5. Append(<<>>, Header) = <<Header>>
      OBVIOUS
    <3>6. QED BY <1>9, <2>1, <3>2, <3>4, <3>5
  <2>2. CASE ~capture_events
    BY <1>2, <1>5, <2>2
  <2>3. QED BY <2>1, <2>2
<1>12. ExceptionsOf(0, log) = {}
  BY <1>3 DEF ExceptionsOf
<1>13. NewestOf(<<>>, {}, EXCEPTION_CAPACITY)
  BY DEF NewestOf
<1>14. TraceTyped
  <2>1. sequence \in Nat /\ instruction \in 0 .. Len(log) /\ pending \in 0 .. Len(log)
        /\ active_page \in 0 .. 3 /\ trace_scroll \in Nat /\ Len(log) <= MAX_EVENTS
    BY <1>1, <1>2, <1>3
  <2>2. in_instruction \in BOOLEAN
    BY <1>2
  <2>3. DOMAIN forgotten = {"trace", "exceptions"}
    BY <1>2
  <2>4. QED BY <1>2, <1>3, <1>6, <1>10, <1>11, <2>1, <2>2, <2>3 DEF TraceTyped
<1>15. InstructionOpen
  BY <1>2 DEF InstructionOpen
<1>16. TraceNumbers
  BY <1>2, <1>3, <1>8 DEF TraceNumbers
<1>17. RecordsHold
  BY <1>2, <1>6, <1>7, <1>8, <1>10, <1>11, <1>12, <1>13 DEF RecordsHold, PaneHolds, ExceptionsHold
<1>18. QED BY <1>14, <1>15, <1>16, <1>17 DEF TraceInv

THEOREM TraceInvariance == TraceSpec => []TraceInv
<1>1. TraceInv /\ [TraceNext]_trace_vars => TraceInv'
  <2> SUFFICES ASSUME TraceInv, [TraceNext]_trace_vars
               PROVE  TraceInv'
    OBVIOUS
  <2>1. CASE debugger_instruction_begin
    BY <2>1, BeginStep
  <2>2. CASE debugger_instruction_end
    BY <2>2, EndStep
  <2>3. CASE debugger_exception
    BY <2>3, ExceptionStep
  <2>4. CASE debugger_board_reset
    BY <2>4, ResetStep
  <2>5. CASE KeyTab \/ KeyUp \/ KeyDown \/ clear_active_page
    BY <2>5, KeyStep
  <2>6. CASE UNCHANGED trace_vars
    BY <2>6 DEF TraceInv, TraceTyped, InstructionOpen, TraceNumbers, RecordsHold, PaneHolds,
                ExceptionsHold, Complete, capture_events, trace_vars
  <2>7. QED BY <2>1, <2>2, <2>3, <2>4, <2>5, <2>6 DEF TraceNext
<1>2. QED BY <1>1, TraceInitInv, PTL DEF TraceSpec

LEMMA TraceInvIsSafe == TraceInv => TraceSafe
<1> SUFFICES ASSUME TraceInv
             PROVE  TraceSafe
  OBVIOUS
<1>1. /\ TRACE_CAPACITY \in Nat \ {0} /\ MAX_EVENTS \in Nat /\ log \in Seq(Kinds)
      /\ Len(log) \in Nat /\ Len(log) <= MAX_EVENTS
      /\ RingOK(trace, TRACE_CAPACITY, RecordLines) /\ trace.count \in 0 .. TRACE_CAPACITY
      /\ trace_scroll \in Nat /\ (trace_scroll = 0 \/ trace_scroll < trace.count)
      /\ sequence = IF capture_events THEN Complete ELSE 0
  BY TraceAssumption DEF TraceInv, TraceTyped, TraceNumbers, RingOK
<1>2. Complete \in 0 .. Len(log)
  BY CompleteIs DEF TraceInv
<1>3. TraceTypeOK
  <2>1. sequence \in 0 .. MAX_EVENTS
    BY <1>1, <1>2
  <2>2. trace_scroll \in 0 .. TRACE_CAPACITY - 1
    BY <1>1
  <2>3. instruction \in 0 .. MAX_EVENTS /\ pending \in 0 .. MAX_EVENTS
    BY <1>1 DEF TraceInv, TraceTyped
  <2>4. pending # 0 => in_instruction
    BY DEF TraceInv, InstructionOpen
  <2>5. QED BY <2>1, <2>2, <2>3, <2>4 DEF TraceInv, TraceTyped, TraceTypeOK
<1>4. RecordsExact
  <2>1. \A from : ExceptionsSince(from) = ExceptionsOf(from, log)
    BY DEF ExceptionsSince, ExceptionsOf
  <2>2. QED BY <2>1, ExpectedIs DEF TraceInv, RecordsHold, PaneHolds, ExceptionsHold, RecordsExact
<1>5. WindowExact
  <2>1. SUFFICES ASSUME NEW visible \in 1 .. TRACE_CAPACITY + 1
                 PROVE  LET shown == draw_ring(trace, TRACE_CAPACITY, visible, trace_scroll)
                        IN  /\ trace.count > 0 => shown # <<>>
                            /\ trace.count > 0 =>
                                 shown = Tail_n(Without_n(Contents(trace, TRACE_CAPACITY),
                                                          trace_scroll), visible)
                            /\ trace.count = 0 => shown = <<>>
    BY DEF WindowExact
  <2> DEFINE shown == draw_ring(trace, TRACE_CAPACITY, visible, trace_scroll)
  <2>2. visible \in Nat /\ trace_scroll <= trace.count
    BY <1>1
  <2>3. /\ shown = Tail_n(Without_n(Contents(trace, TRACE_CAPACITY), trace_scroll), visible)
        /\ Len(shown) = IF trace.count - trace_scroll > visible THEN visible
                        ELSE trace.count - trace_scroll
        /\ shown \in Seq(RecordLines)
    BY <1>1, <2>2, DrawnIs
  <2> HIDE DEF shown
  <2>4. trace.count > 0 => Len(shown) > 0
    BY <1>1, <2>3
  <2>5. trace.count = 0 => Len(shown) = 0
    BY <1>1, <2>3
  <2>6. shown = <<>> <=> Len(shown) = 0
    BY <2>3, EmptySeq
  <2>7. trace.count > 0 => shown # <<>>
    <3>1. Len(shown) > 0 => Len(shown) # 0
      BY <2>3
    <3>2. QED BY <2>4, <2>6, <3>1
  <2>8. QED BY <2>3, <2>5, <2>6, <2>7 DEF shown
<1>6. QED BY <1>3, <1>4, <1>5 DEF TraceSafe

(* For every capacity of the rings and every history, the file and the two  *)
(* rings hold the records of what has happened, in its order and numbered   *)
(* without a gap, and the pane shows a run of them that ends where it is    *)
(* scrolled to.                                                             *)
THEOREM TraceIsSafe == TraceSpec => []TraceSafe
BY TraceInvariance, TraceInvIsSafe, PTL

-----------------------------------------------------------------------------
(* Remainders.                                                              *)

LEMMA RemainderIs ==
  ASSUME NEW w \in Nat \ {0}, NEW q \in Nat, NEW r \in 0 .. w - 1, NEW a, a = w * q + r
  PROVE  a % w = r
OBVIOUS

LEMMA RemainderNext ==
  ASSUME NEW w \in Nat \ {0}, NEW a \in Nat
  PROVE  (a + 1) % w = IF a % w = w - 1 THEN 0 ELSE (a % w) + 1
<1>1. PICK q, r : q = a \div w /\ r = a % w
  OBVIOUS
<1>2. q \in Nat /\ r \in 0 .. w - 1 /\ a = w * q + r
  BY <1>1
<1>3. CASE r = w - 1
  <2>1. a + 1 = w * (q + 1) + 0 /\ q + 1 \in Nat /\ 0 \in 0 .. w - 1
    BY <1>2, <1>3
  <2>2. (a + 1) % w = 0
    <3>1. ASSUME NEW p \in Nat, NEW c, c = w * p + 0 PROVE c % w = 0
      BY <3>1, <2>1, RemainderIs
    <3>2. QED BY <2>1, <3>1
  <2>3. QED BY <1>1, <1>3, <2>2
<1>4. CASE r # w - 1
  <2>1. a + 1 = w * q + (r + 1) /\ r + 1 \in 0 .. w - 1
    BY <1>2, <1>4
  <2>2. (a + 1) % w = r + 1
    BY <1>2, <2>1, RemainderIs
  <2>3. QED BY <1>1, <1>4, <2>2
<1>5. QED BY <1>3, <1>4

LEMMA RemainderGone ==
  ASSUME NEW w \in Nat \ {0}, NEW a \in Nat
  PROVE  a % w \in 0 .. w - 1 /\ a % w <= a /\ (a - (a % w)) % w = 0
<1>1. PICK q, r : q = a \div w /\ r = a % w
  OBVIOUS
<1>2. q \in Nat /\ r \in 0 .. w - 1 /\ a = w * q + r
  BY <1>1
<1>3. w * q \in Nat
  BY <1>2
<1>4. a - r = w * q + 0 /\ r <= a
  BY <1>2, <1>3
<1>5. (w * q + 0) % w = 0
  BY <1>2, RemainderIs
<1>6. QED BY <1>1, <1>2, <1>4, <1>5

LEMMA MultipleIs ==
  ASSUME NEW w \in Nat \ {0}, NEW a \in Nat, NEW b \in Nat, b % w = 0, b <= a, a < b + w
  PROVE  b = a - (a % w)
<1>1. PICK q : q = b \div w
  OBVIOUS
<1>2. q \in Nat /\ b = w * q
  BY <1>1
<1>3. PICK r : r = a - b
  OBVIOUS
<1>4. r \in 0 .. w - 1 /\ a = w * q + r
  BY <1>2, <1>3
<1>5. a % w = r
  BY <1>2, <1>4, RemainderIs
<1>6. QED BY <1>3, <1>4, <1>5


-----------------------------------------------------------------------------
(* The members of a finite set of numbers, in their order.                  *)

Below(H, i) == {j \in H : j < i}

Nth(H, k) == CHOOSE i \in H : Cardinality(Below(H, i)) = k - 1

LEMMA BelowGrows ==
  ASSUME NEW n \in Nat, NEW H \in SUBSET (1 .. n)
  PROVE  /\ IsFiniteSet(H) /\ Cardinality(H) \in Nat
         /\ \A i \in H : IsFiniteSet(Below(H, i)) /\ Cardinality(Below(H, i)) \in Nat
                           /\ Cardinality(Below(H, i)) < Cardinality(H)
         /\ \A i \in H, j \in H : i < j => Cardinality(Below(H, i)) < Cardinality(Below(H, j))
<1>1. IsFiniteSet(1 .. n)
  BY FS_Interval
<1>2. IsFiniteSet(H)
  BY <1>1, FS_Subset
<1>3. ASSUME NEW G, NEW B, IsFiniteSet(G), B \subseteq G, B # G
      PROVE  Cardinality(B) < Cardinality(G) /\ IsFiniteSet(B) /\ Cardinality(B) \in Nat
  <2>1. IsFiniteSet(B)
    BY <1>3, FS_Subset
  <2>2. Cardinality(B) \in Nat /\ Cardinality(G) \in Nat
    BY <1>3, <2>1, FS_CardinalityType
  <2>3. Cardinality(B) <= Cardinality(G) /\ (Cardinality(B) = Cardinality(G) => B = G)
    BY <1>3, FS_Subset
  <2>4. QED BY <1>3, <2>1, <2>2, <2>3
<1>4. ASSUME NEW i \in H
      PROVE  /\ IsFiniteSet(Below(H, i)) /\ Cardinality(Below(H, i)) \in Nat
             /\ Cardinality(Below(H, i)) < Cardinality(H)
  <2>1. Below(H, i) \subseteq H /\ i \notin Below(H, i)
    BY DEF Below
  <2>2. QED BY <1>2, <1>3, <2>1
<1>5. ASSUME NEW i \in H, NEW j \in H, i < j
      PROVE  Cardinality(Below(H, i)) < Cardinality(Below(H, j))
  <2>1. i \in Int /\ j \in Int /\ \A k \in H : k \in Int
    OBVIOUS
  <2>2. i \in Below(H, j) /\ i \notin Below(H, i)
    BY <1>5, <2>1 DEF Below
  <2>3. ASSUME NEW k \in Below(H, i) PROVE k \in Below(H, j)
    <3>1. k \in H /\ k \in Int /\ k < i
      BY <2>1 DEF Below
    <3>2. k < j
      BY <1>5, <2>1, <3>1
    <3>3. QED BY <3>1, <3>2 DEF Below
  <2>4. IsFiniteSet(Below(H, j)) /\ Below(H, i) \subseteq Below(H, j)
    BY <1>4, <2>3
  <2>5. QED BY <1>3, <2>2, <2>4
<1>6. QED BY <1>2, <1>4, <1>5, FS_CardinalityType

LEMMA NthOf ==
  ASSUME NEW n \in Nat, NEW H \in SUBSET (1 .. n), NEW i \in H, NEW k \in Int,
         Cardinality(Below(H, i)) = k - 1
  PROVE  Nth(H, k) = i
<1>1. PICK j \in H : j = Nth(H, k) /\ Cardinality(Below(H, j)) = k - 1
  BY DEF Nth
<1>2. ~ (i < j) /\ ~ (j < i)
  <2>1. \A a \in H, b \in H : a < b => Cardinality(Below(H, a)) < Cardinality(Below(H, b))
    BY BelowGrows
  <2>2. ASSUME NEW a \in H, NEW b \in H, a < b,
               Cardinality(Below(H, a)) = k - 1, Cardinality(Below(H, b)) = k - 1
        PROVE  FALSE
    <3>1. k - 1 < k - 1
      BY <2>1, <2>2
    <3>2. QED BY <3>1
  <2>3. QED BY <1>1, <2>2
<1>3. i \in Int /\ j \in Int
  OBVIOUS
<1>4. QED BY <1>1, <1>2, <1>3

(* One more, greater than the others.                                       *)
LEMMA OneMore ==
  ASSUME NEW n \in Nat, NEW H \in SUBSET (1 .. n)
  PROVE  LET G == H \union {n + 1}
         IN  /\ G \in SUBSET (1 .. n + 1)
             /\ Cardinality(G) = Cardinality(H) + 1
             /\ Below(G, n + 1) = H
             /\ \A i \in H : Below(G, i) = Below(H, i)
<1> DEFINE G == H \union {n + 1}
<1>1. n + 1 \notin H /\ \A i \in H : i \in Int /\ i < n + 1
  OBVIOUS
<1>2. Cardinality(G) = Cardinality(H) + 1
  <2>1. IsFiniteSet(H)
    BY BelowGrows
  <2>2. QED BY <1>1, <2>1, FS_AddElement
<1>3. Below(G, n + 1) = H
  <2>1. ~ (n + 1 < n + 1)
    OBVIOUS
  <2>2. QED BY <1>1, <2>1 DEF Below
<1>4. ASSUME NEW i \in H PROVE Below(G, i) = Below(H, i)
  <2>1. i \in Int /\ ~ (n + 1 < i)
    BY <1>1
  <2>2. QED BY <2>1 DEF Below
<1>5. G \in SUBSET (1 .. n + 1)
  OBVIOUS
<1>6. QED BY <1>2, <1>3, <1>4, <1>5

LEMMA EveryNth ==
  ASSUME NEW n \in Nat, NEW H \in SUBSET (1 .. n), NEW k \in 1 .. Cardinality(H)
  PROVE  Nth(H, k) \in H /\ Cardinality(Below(H, Nth(H, k))) = k - 1
<1> DEFINE Reached(G) == \A l \in 1 .. Cardinality(G) :
                           \E i \in G : Cardinality(Below(G, i)) = l - 1
           good == {m \in 0 .. n : \A G \in SUBSET (1 .. m) : Reached(G)}
<1>1. 0 \in good
  <2>1. ASSUME NEW G \in SUBSET (1 .. 0) PROVE Reached(G)
    <3>1. G = {}
      OBVIOUS
    <3>2. Cardinality(G) = 0
      BY <3>1, FS_EmptySet
    <3>3. QED BY <3>2
  <2>2. QED BY <2>1
<1>2. ASSUME NEW m \in 1 .. n, m - 1 \in good
      PROVE  m \in good
  <2>1. ASSUME NEW G \in SUBSET (1 .. m) PROVE Reached(G)
    <3>1. CASE m \notin G
      <4>1. G \in SUBSET (1 .. m - 1)
        BY <3>1
      <4>2. QED BY <1>2, <4>1
    <3>2. CASE m \in G
      <4> DEFINE F == G \ {m}
      <4>1. F \in SUBSET (1 .. m - 1) /\ m - 1 \in Nat
        OBVIOUS
      <4>2. Reached(F)
        BY <1>2, <4>1
      <4>3. F \union {(m - 1) + 1} = G /\ (m - 1) + 1 = m
        BY <3>2
      <4> HIDE DEF F
      <4>4. /\ Cardinality(G) = Cardinality(F) + 1 /\ Below(G, m) = F
            /\ \A i \in F : Below(G, i) = Below(F, i)
        <5>1. PICK l \in Nat : l = m - 1
          BY <4>1
        <5>2. F \in SUBSET (1 .. l) /\ F \union {l + 1} = G /\ l + 1 = m
          BY <4>1, <4>3, <5>1
        <5>3. QED BY <5>2, OneMore
      <4>5. Cardinality(F) \in Nat
        BY <4>1, BelowGrows
      <4>6. ASSUME NEW l \in 1 .. Cardinality(G)
            PROVE  \E i \in G : Cardinality(Below(G, i)) = l - 1
        <5>1. CASE l = Cardinality(F) + 1
          BY <3>2, <4>4, <4>5, <5>1
        <5>2. CASE l # Cardinality(F) + 1
          <6>1. l \in 1 .. Cardinality(F)
            BY <4>4, <4>5, <5>2
          <6>2. PICK i \in F : Cardinality(Below(F, i)) = l - 1
            BY <4>2, <6>1
          <6>3. i \in G
            BY <4>3, <6>2
          <6>4. QED BY <4>4, <6>2, <6>3
        <5>3. QED BY <5>1, <5>2
      <4>7. QED BY <4>6
    <3>3. QED BY <3>1, <3>2
  <2>2. QED BY <2>1
<1>3. n \in good
  <2> HIDE DEF good
  <2>1. QED BY <1>1, <1>2, UpwardsTo
<1>4. PICK i \in H : Cardinality(Below(H, i)) = k - 1
  BY <1>3
<1>5. QED BY <1>4 DEF Nth

(* The greatest comes last, and one more comes behind it.                   *)
LEMMA NthGrows ==
  ASSUME NEW n \in Nat, NEW H \in SUBSET (1 .. n)
  PROVE  LET G == H \union {n + 1}
         IN  /\ Cardinality(G) = Cardinality(H) + 1
             /\ Nth(G, Cardinality(H) + 1) = n + 1
             /\ \A k \in 1 .. Cardinality(H) : Nth(G, k) = Nth(H, k)
<1> DEFINE G == H \union {n + 1}
<1>1. /\ G \in SUBSET (1 .. n + 1) /\ Cardinality(G) = Cardinality(H) + 1
      /\ Below(G, n + 1) = H /\ \A i \in H : Below(G, i) = Below(H, i)
  BY OneMore
<1>2. Cardinality(H) \in Nat
  BY BelowGrows
<1>3. n + 1 \in G /\ H \subseteq G /\ n + 1 \in Nat
  OBVIOUS
<1> HIDE DEF G
<1>4. Nth(G, Cardinality(H) + 1) = n + 1
  <2>1. Cardinality(Below(G, n + 1)) = (Cardinality(H) + 1) - 1 /\ Cardinality(H) + 1 \in Int
    BY <1>1, <1>2
  <2>2. QED BY <1>1, <1>3, <2>1, NthOf
<1>5. ASSUME NEW k \in 1 .. Cardinality(H) PROVE Nth(G, k) = Nth(H, k)
  <2>1. Nth(H, k) \in H /\ Cardinality(Below(H, Nth(H, k))) = k - 1
    BY <1>2, EveryNth
  <2>2. Nth(H, k) \in G /\ Cardinality(Below(G, Nth(H, k))) = k - 1
    BY <1>1, <1>3, <2>1
  <2>3. k \in Int
    OBVIOUS
  <2>4. QED BY <1>1, <1>3, <2>2, <2>3, NthOf
<1>6. QED BY <1>1, <1>4, <1>5 DEF G

LEMMA LastIsGreatest ==
  ASSUME NEW n \in Nat, NEW H \in SUBSET (1 .. n), NEW h \in H, \A i \in H : i <= h
  PROVE  /\ Cardinality(H) \in Nat \ {0}
         /\ Nth(H, Cardinality(H)) = h
         /\ \A k \in 1 .. Cardinality(H) - 1 : Nth(H, k) \in H /\ Nth(H, k) # h
<1>1. Cardinality(H) \in Nat /\ IsFiniteSet(H)
  BY BelowGrows
<1>2. Below(H, h) = H \ {h}
  <2>1. \A i \in H : i \in Int /\ (i < h <=> i # h)
    OBVIOUS
  <2>2. QED BY <2>1 DEF Below
<1>3. Cardinality(H \ {h}) = Cardinality(H) - 1
  BY <1>1, FS_RemoveElement
<1>4. Cardinality(H) # 0
  BY <1>1, FS_EmptySet
<1>5. Nth(H, Cardinality(H)) = h
  BY <1>1, <1>2, <1>3, NthOf
<1>6. ASSUME NEW k \in 1 .. Cardinality(H) - 1
      PROVE  Nth(H, k) \in H /\ Nth(H, k) # h
  <2>1. Nth(H, k) \in H /\ Cardinality(Below(H, Nth(H, k))) = k - 1
    <3>1. k \in 1 .. Cardinality(H)
      BY <1>1
    <3>2. QED BY <3>1, EveryNth
  <2>2. k - 1 # Cardinality(H) - 1
    BY <1>1
  <2>3. QED BY <1>2, <1>3, <2>1, <2>2
<1>7. QED BY <1>1, <1>4, <1>5, <1>6


-----------------------------------------------------------------------------
(* A text that grows by one character.                                      *)

LEMMA TextGrows ==
  ASSUME NEW C, NEW t \in Seq(C), NEW c \in C
  PROVE  /\ Append(t, c) \in Seq(C) /\ Len(Append(t, c)) = Len(t) + 1 /\ Len(t) \in Nat
         /\ Append(t, c)[Len(t) + 1] = c
         /\ \A i \in 1 .. Len(t) : Append(t, c)[i] = t[i]
BY AppendProperties

(* The breaks: the last end of a line in front of a character.              *)
Breaks(t, i) == {0} \union {j \in 1 .. i - 1 : t[j] = NL}

LEMMA LineStartIs ==
  ASSUME NEW t, NEW i \in Nat \ {0}
  PROVE  /\ LineStart(t, i) \in 0 .. i - 1
         /\ LineStart(t, i) # 0 => t[LineStart(t, i)] = NL
         /\ \A j \in LineStart(t, i) + 1 .. i - 1 : t[j] # NL
<1>1. Breaks(t, i) \in SUBSET (0 .. i - 1) /\ Breaks(t, i) # {} /\ i - 1 \in Nat
  BY DEF Breaks
<1>2. PICK m \in Breaks(t, i) : \A k \in Breaks(t, i) : m >= k
  BY <1>1, GreatestExists
<1>3. LineStart(t, i) = m
  <2>1. Breaks(t, i) \in SUBSET Int
    BY <1>1
  <2>2. Max(Breaks(t, i)) = m
    BY <1>2, <2>1, MaxIs
  <2>3. QED BY <2>2 DEF LineStart, Breaks
<1>4. m \in 0 .. i - 1 /\ (m # 0 => t[m] = NL)
  BY <1>1, <1>2 DEF Breaks
<1>5. ASSUME NEW j \in m + 1 .. i - 1, t[j] = NL PROVE FALSE
  <2>1. j \in Breaks(t, i)
    BY <1>4, <1>5 DEF Breaks
  <2>2. m >= j
    BY <1>2, <2>1
  <2>3. QED BY <1>4, <2>2
<1>6. QED BY <1>3, <1>4, <1>5

LEMMA LineStartAt ==
  ASSUME NEW t, NEW i \in Nat \ {0}, NEW m \in 0 .. i - 1, m # 0 => t[m] = NL,
         \A j \in m + 1 .. i - 1 : t[j] # NL
  PROVE  LineStart(t, i) = m
<1>1. Breaks(t, i) \in SUBSET Int /\ m \in Breaks(t, i)
  BY DEF Breaks
<1>2. ASSUME NEW k \in Breaks(t, i) PROVE m >= k
  BY DEF Breaks
<1>3. Max(Breaks(t, i)) = m
  BY <1>1, <1>2, MaxIs
<1>4. QED BY <1>3 DEF LineStart, Breaks

LEMMA LineStartKept ==
  ASSUME NEW C, NEW t \in Seq(C), NEW c \in C, NEW i \in 1 .. Len(t) + 1
  PROVE  LineStart(Append(t, c), i) = LineStart(t, i)
<1>1. \A j \in 1 .. i - 1 : Append(t, c)[j] = t[j]
  BY TextGrows
<1>2. {j \in 1 .. i - 1 : Append(t, c)[j] = NL} = {j \in 1 .. i - 1 : t[j] = NL}
  BY <1>1
<1>3. QED BY <1>2 DEF LineStart

(* Where a line stops.                                                      *)
Stops(t, w, i) == {j \in i .. Len(t) : t[j] = NL} \union {Len(t) + 1, i + w}

IsStop(t, w, i, e) ==
  /\ e \in i .. Len(t) + 1 /\ e <= i + w
  /\ e = Len(t) + 1 \/ e = i + w \/ t[e] = NL
  /\ \A j \in i .. e - 1 : t[j] # NL

LEMMA LineAtStop ==
  ASSUME NEW C, NEW t \in Seq(C), NEW w \in Nat \ {0}, NEW i \in 1 .. Len(t),
         NEW e, IsStop(t, w, i, e)
  PROVE  LineAt(t, w, i) = SubSeq(t, i, e - 1)
<1>1. Len(t) \in Nat /\ e \in i .. Len(t) + 1 /\ e <= i + w
      /\ (e = Len(t) + 1 \/ e = i + w \/ t[e] = NL) /\ \A j \in i .. e - 1 : t[j] # NL
  BY DEF IsStop
<1>2. Stops(t, w, i) \in SUBSET Int
  BY <1>1 DEF Stops
<1>3. e \in Stops(t, w, i)
  BY <1>1 DEF Stops
<1>4. ASSUME NEW k \in Stops(t, w, i) PROVE e =< k
  <2>1. CASE k = Len(t) + 1 \/ k = i + w
    BY <1>1, <2>1
  <2>2. CASE k \in i .. Len(t) /\ t[k] = NL
    <3>1. k \notin i .. e - 1
      BY <1>1, <2>2
    <3>2. QED BY <1>1, <2>2, <3>1
  <2>3. QED BY <2>1, <2>2 DEF Stops
<1>5. Min(Stops(t, w, i)) = e
  BY <1>2, <1>3, <1>4, MinIs
<1>6. QED BY <1>5 DEF LineAt, Stops

LEMMA StopExists ==
  ASSUME NEW C, NEW t \in Seq(C), NEW w \in Nat \ {0}, NEW i \in 1 .. Len(t)
  PROVE  \E e : IsStop(t, w, i, e)
<1>1. Len(t) \in Nat
  OBVIOUS
<1>2. Stops(t, w, i) \in SUBSET Nat /\ Stops(t, w, i) # {}
  BY <1>1 DEF Stops
<1>3. PICK e \in Stops(t, w, i) : \A k \in Stops(t, w, i) : e =< k
  BY <1>2, LeastExists
<1>4. e <= Len(t) + 1 /\ e <= i + w /\ e >= i
  <2>1. Len(t) + 1 \in Stops(t, w, i) /\ i + w \in Stops(t, w, i)
    BY DEF Stops
  <2>2. \A k \in Stops(t, w, i) : k >= i
    BY <1>1 DEF Stops
  <2>3. QED BY <1>3, <2>1, <2>2
<1>5. e = Len(t) + 1 \/ e = i + w \/ t[e] = NL
  BY <1>3 DEF Stops
<1>6. e \in Nat
  BY <1>2
<1>7. ASSUME NEW j \in i .. e - 1, t[j] = NL PROVE FALSE
  <2>1. j \in Stops(t, w, i)
    BY <1>1, <1>4, <1>6, <1>7 DEF Stops
  <2>2. QED BY <1>3, <1>6, <2>1
<1>8. QED BY <1>1, <1>4, <1>5, <1>6, <1>7 DEF IsStop

(* A part of a text.                                                        *)
LEMMA PartKept ==
  ASSUME NEW C, NEW t \in Seq(C), NEW c \in C, NEW i \in 1 .. Len(t) + 1,
         NEW m \in i - 1 .. Len(t)
  PROVE  /\ SubSeq(t, i, m) \in Seq(C) /\ Len(SubSeq(t, i, m)) = m - i + 1
         /\ SubSeq(Append(t, c), i, m) = SubSeq(t, i, m)
         /\ m = Len(t) => SubSeq(Append(t, c), i, m + 1) = Append(SubSeq(t, i, m), c)
<1> DEFINE u == Append(t, c)
<1>0. Len(t) \in Nat /\ i \in Int /\ m \in Int
  OBVIOUS
<1>1. /\ u \in Seq(C) /\ Len(u) = Len(t) + 1 /\ u[Len(t) + 1] = c
      /\ \A j \in 1 .. Len(t) : u[j] = t[j]
  BY TextGrows
<1> HIDE DEF u
<1>2. ASSUME NEW s \in Seq(C), NEW l \in i - 1 .. Len(s)
      PROVE  /\ SubSeq(s, i, l) \in Seq(C) /\ Len(SubSeq(s, i, l)) = l - i + 1
             /\ \A j \in 1 .. l - i + 1 : SubSeq(s, i, l)[j] = s[i + j - 1]
  <2>1. \A j \in i .. l : s[j] \in C
    BY <1>0
  <2>2. l \in Int
    BY <1>0
  <2>3. QED BY <1>0, <2>1, <2>2, SubSeqProperties
<1>3. /\ SubSeq(t, i, m) \in Seq(C) /\ Len(SubSeq(t, i, m)) = m - i + 1
      /\ \A j \in 1 .. m - i + 1 : SubSeq(t, i, m)[j] = t[i + j - 1]
  BY <1>2
<1>4. /\ SubSeq(u, i, m) \in Seq(C) /\ Len(SubSeq(u, i, m)) = m - i + 1
      /\ \A j \in 1 .. m - i + 1 : SubSeq(u, i, m)[j] = u[i + j - 1]
  <2>1. m \in i - 1 .. Len(u)
    BY <1>0, <1>1
  <2>2. QED BY <1>1, <1>2, <2>1
<1>5. SubSeq(u, i, m) = SubSeq(t, i, m)
  <2>1. \A j \in 1 .. m - i + 1 : i + j - 1 \in 1 .. Len(t)
    BY <1>0
  <2>2. QED BY <1>0, <1>1, <1>3, <1>4, <2>1, SeqEqual
<1>6. ASSUME m = Len(t)
      PROVE  SubSeq(u, i, m + 1) = Append(SubSeq(t, i, m), c)
  <2>1. m + 1 \in i - 1 .. Len(u)
    BY <1>0, <1>1, <1>6
  <2>2. /\ SubSeq(u, i, m + 1) \in Seq(C) /\ Len(SubSeq(u, i, m + 1)) = (m + 1) - i + 1
        /\ \A j \in 1 .. (m + 1) - i + 1 : SubSeq(u, i, m + 1)[j] = u[i + j - 1]
    BY <1>1, <1>2, <2>1
  <2> DEFINE part == SubSeq(t, i, m)
             more == Append(part, c)
  <2>3. part \in Seq(C) /\ Len(part) = m - i + 1
        /\ \A j \in 1 .. m - i + 1 : part[j] = t[i + j - 1]
    BY <1>3
  <2> HIDE DEF part
  <2>4. /\ more \in Seq(C) /\ Len(more) = Len(part) + 1 /\ more[Len(part) + 1] = c
        /\ \A j \in 1 .. Len(part) : more[j] = part[j]
    BY <2>3, TextGrows
  <2> HIDE DEF more
  <2>5. ASSUME NEW j \in 1 .. (m + 1) - i + 1
        PROVE  SubSeq(u, i, m + 1)[j] = more[j]
    <3>1. CASE j = (m + 1) - i + 1
      <4>1. i + j - 1 = Len(t) + 1 /\ j = Len(part) + 1
        BY <1>0, <1>6, <2>3, <3>1
      <4>2. QED BY <1>1, <2>2, <2>4, <4>1
    <3>2. CASE j # (m + 1) - i + 1
      <4>0. PICK l : l = Len(part)
        OBVIOUS
      <4>1. l = m - i + 1 /\ j \in Int /\ 1 <= j /\ j <= l + 1 /\ j # l + 1 /\ l \in Int
        BY <1>0, <2>3, <3>2, <4>0
      <4>2. j \in 1 .. l /\ j \in 1 .. m - i + 1
        BY <4>1
      <4>3. i + j - 1 \in 1 .. Len(t)
        BY <1>0, <1>6, <4>1
      <4>4. QED BY <1>1, <2>2, <2>3, <2>4, <4>0, <4>2, <4>3
    <3>3. QED BY <3>1, <3>2
  <2>6. Len(more) = (m + 1) - i + 1
    BY <1>0, <2>3, <2>4
  <2>7. SubSeq(u, i, m + 1) = more
    BY <2>2, <2>4, <2>5, <2>6, SeqEqual
  <2>8. QED BY <2>7 DEF more, part
<1>7. QED BY <1>3, <1>5, <1>6 DEF u


(* A line that was at the end of the text may take the character.           *)
LEMMA LineGrows ==
  ASSUME NEW C, NEW t \in Seq(C), NEW c \in C, NEW w \in Nat \ {0}, NEW i \in 1 .. Len(t)
  PROVE  /\ LineAt(t, w, i) \in Seq(C)
         /\ LineAt(Append(t, c), w, i) =
              IF c # NL /\ Len(t) + 1 < i + w /\ \A j \in i .. Len(t) : t[j] # NL
              THEN Append(LineAt(t, w, i), c) ELSE LineAt(t, w, i)
         /\ (Len(t) + 1 <= i + w /\ \A j \in i .. Len(t) : t[j] # NL) =>
              Len(LineAt(t, w, i)) = Len(t) - i + 1
<1> DEFINE u == Append(t, c)
<1>1. /\ u \in Seq(C) /\ Len(u) = Len(t) + 1 /\ u[Len(t) + 1] = c /\ Len(t) \in Nat
      /\ \A j \in 1 .. Len(t) : u[j] = t[j]
  BY TextGrows
<1>2. PICK e : IsStop(t, w, i, e)
  BY StopExists
<1>3. /\ e \in i .. Len(t) + 1 /\ e <= i + w /\ (e = Len(t) + 1 \/ e = i + w \/ t[e] = NL)
      /\ \A j \in i .. e - 1 : t[j] # NL
  BY <1>2 DEF IsStop
<1>4. LineAt(t, w, i) = SubSeq(t, i, e - 1)
  BY <1>2, LineAtStop
<1>5. i \in 1 .. Len(t) + 1 /\ e - 1 \in i - 1 .. Len(t) /\ i \in 1 .. Len(u)
  BY <1>1, <1>3
<1>6. /\ SubSeq(t, i, e - 1) \in Seq(C) /\ Len(SubSeq(t, i, e - 1)) = (e - 1) - i + 1
      /\ SubSeq(u, i, e - 1) = SubSeq(t, i, e - 1)
      /\ e - 1 = Len(t) => SubSeq(u, i, (e - 1) + 1) = Append(SubSeq(t, i, e - 1), c)
  <2>1. PICK m \in i - 1 .. Len(t) : m = e - 1
    BY <1>5
  <2>2. /\ SubSeq(t, i, m) \in Seq(C) /\ Len(SubSeq(t, i, m)) = m - i + 1
        /\ SubSeq(u, i, m) = SubSeq(t, i, m)
        /\ m = Len(t) => SubSeq(u, i, m + 1) = Append(SubSeq(t, i, m), c)
    <3>1. i \in 1 .. Len(t) + 1
      BY <1>5
    <3>2. QED BY <3>1, PartKept DEF u
  <2>3. QED BY <2>1, <2>2
<1> HIDE DEF u
<1>7. CASE e <= Len(t)
  <2>1. e \in 1 .. Len(t) /\ e < Len(t) + 1
    BY <1>1, <1>3, <1>7
  <2>2. ~ (Len(t) + 1 <= i + w /\ \A j \in i .. Len(t) : t[j] # NL)
    BY <1>1, <1>3, <2>1
  <2>3. IsStop(u, w, i, e)
    <3>1. \A j \in i .. e - 1 : j \in 1 .. Len(t)
      BY <1>1, <2>1
    <3>2. QED BY <1>1, <1>3, <2>1, <3>1 DEF IsStop
  <2>4. LineAt(u, w, i) = SubSeq(u, i, e - 1)
    BY <1>1, <1>5, <2>3, LineAtStop
  <2>5. ~ (Len(t) + 1 < i + w /\ \A j \in i .. Len(t) : t[j] # NL)
    BY <1>1, <2>2
  <2>6. QED BY <1>4, <1>6, <2>2, <2>4, <2>5 DEF u
<1>8. CASE e = Len(t) + 1
  <2>1. (\A j \in i .. Len(t) : t[j] # NL) /\ Len(t) + 1 <= i + w /\ e - 1 = Len(t)
    BY <1>1, <1>3, <1>8
  <2>2. Len(LineAt(t, w, i)) = Len(t) - i + 1
    BY <1>1, <1>4, <1>6, <2>1
  <2>3. CASE c # NL /\ Len(t) + 1 < i + w
    <3>1. IsStop(u, w, i, e + 1)
      <4>1. e + 1 \in i .. Len(u) + 1 /\ e + 1 <= i + w /\ e + 1 = Len(u) + 1
        BY <1>1, <1>3, <1>8, <2>3
      <4>2. \A j \in i .. (e + 1) - 1 : u[j] # NL
        BY <1>1, <1>8, <2>1, <2>3
      <4>3. QED BY <4>1, <4>2 DEF IsStop
    <3>2. LineAt(u, w, i) = SubSeq(u, i, (e + 1) - 1)
      BY <1>1, <1>5, <3>1, LineAtStop
    <3>3. (e + 1) - 1 = (e - 1) + 1
      BY <1>1, <1>8
    <3>4. LineAt(u, w, i) = Append(LineAt(t, w, i), c)
      BY <1>4, <1>6, <2>1, <3>2, <3>3
    <3>5. QED BY <1>4, <1>6, <2>1, <2>2, <2>3, <3>4 DEF u
  <2>4. CASE ~ (c # NL /\ Len(t) + 1 < i + w)
    <3>1. IsStop(u, w, i, e)
      <4>1. e \in i .. Len(u) + 1 /\ e <= i + w
        BY <1>1, <1>3, <1>8
      <4>2. u[e] = NL \/ e = i + w
        BY <1>1, <1>8, <2>1, <2>4
      <4>3. \A j \in i .. e - 1 : u[j] # NL
        BY <1>1, <1>8, <2>1
      <4>4. QED BY <4>1, <4>2, <4>3 DEF IsStop
    <3>2. LineAt(u, w, i) = SubSeq(u, i, e - 1)
      BY <1>1, <1>5, <3>1, LineAtStop
    <3>3. QED BY <1>4, <1>6, <2>2, <2>4, <3>2 DEF u
  <2>5. QED BY <2>3, <2>4
<1>9. QED BY <1>1, <1>3, <1>7, <1>8

LEMMA LineBegins ==
  ASSUME NEW C, NEW t \in Seq(C), NEW c \in C, NEW w \in Nat \ {0}
  PROVE  LineAt(Append(t, c), w, Len(t) + 1) = IF c = NL THEN <<>> ELSE <<c>>
<1> DEFINE u == Append(t, c)
           i == Len(t) + 1
<1>1. /\ u \in Seq(C) /\ Len(u) = i /\ u[i] = c /\ i \in Nat \ {0} /\ i \in 1 .. Len(u)
  BY TextGrows
<1> HIDE DEF u, i
<1>2. CASE c = NL
  <2>1. IsStop(u, w, i, i)
    BY <1>1, <1>2 DEF IsStop
  <2>2. LineAt(u, w, i) = SubSeq(u, i, i - 1)
    BY <1>1, <2>1, LineAtStop
  <2>3. SubSeq(u, i, i - 1) = <<>>
    BY <1>1
  <2>4. QED BY <1>2, <2>2, <2>3 DEF u, i
<1>3. CASE c # NL
  <2>1. IsStop(u, w, i, i + 1)
    BY <1>1, <1>3 DEF IsStop
  <2>2. LineAt(u, w, i) = SubSeq(u, i, (i + 1) - 1)
    BY <1>1, <2>1, LineAtStop
  <2>3. SubSeq(u, i, (i + 1) - 1) = <<c>>
    <3>1. (i + 1) - 1 = i /\ \A j \in i .. i : u[j] \in C
      BY <1>1
    <3>2. /\ SubSeq(u, i, i) \in Seq(C) /\ Len(SubSeq(u, i, i)) = 1
          /\ SubSeq(u, i, i)[1] = u[i]
      BY <1>1, <3>1, SubSeqProperties
    <3>3. <<c>> \in Seq(C) /\ Len(<<c>>) = 1 /\ <<c>>[1] = c
      OBVIOUS
    <3>4. \A j \in 1 .. 1 : SubSeq(u, i, i)[j] = <<c>>[j]
      BY <1>1, <3>2, <3>3
    <3>5. QED BY <3>1, <3>2, <3>3, <3>4, SeqEqual
  <2>4. QED BY <1>3, <2>2, <2>3 DEF u, i
<1>4. QED BY <1>2, <1>3


-----------------------------------------------------------------------------
(* Where the lines of a text start.                                         *)

LastHead(t, w) == Len(t) - ((Len(t) - LineStart(t, Len(t) + 1) - 1) % w)

LEMMA HeadsAre ==
  ASSUME NEW C, NEW t \in Seq(C), NEW w \in Nat \ {0}
  PROVE  Heads(t, w) \in SUBSET (1 .. Len(t)) /\ Len(t) \in Nat
BY DEF Heads

LEMMA ClosedEnd ==
  ASSUME NEW C, NEW t \in Seq(C), ~Open(t)
  PROVE  /\ LineStart(t, Len(t) + 1) = Len(t)
         /\ \A i \in 1 .. Len(t) : t[Len(t)] = NL /\ Len(t) \in i .. Len(t)
<1>1. Len(t) \in Nat /\ (Len(t) # 0 => t[Len(t)] = NL)
  BY EmptySeq DEF Open
<1>2. PICK n, i : n = Len(t) /\ i = n + 1
  OBVIOUS
<1>3. i \in Nat \ {0} /\ n \in 0 .. i - 1 /\ (n # 0 => t[n] = NL) /\ n + 1 .. i - 1 = {}
  BY <1>1, <1>2
<1>4. LineStart(t, i) = n
  BY <1>3, LineStartAt
<1>5. QED BY <1>1, <1>2, <1>4

(* The line that is still growing.                                          *)
LEMMA OpenEnd ==
  ASSUME NEW C, NEW t \in Seq(C), NEW w \in Nat \ {0}, Open(t)
  PROVE  LET h == LastHead(t, w)
             n == Len(t)
         IN  /\ h \in 1 .. n /\ n < h + w /\ h \in Heads(t, w)
             /\ \A j \in h .. n : t[j] # NL
             /\ \A i \in Heads(t, w) : i <= h
             /\ \A i \in Heads(t, w) :
                  i # h => ~ (n + 1 <= i + w /\ \A j \in i .. n : t[j] # NL)
             /\ n + 1 = h + w <=> (n - LineStart(t, n + 1)) % w = 0
             /\ LineStart(t, n + 1) # n
<1>1. PICK n, b : n = Len(t) /\ b = LineStart(t, n + 1)
  OBVIOUS
<1>2. n \in Nat \ {0} /\ t[n] # NL
  BY <1>1, EmptySeq DEF Open
<1>3. b \in 0 .. n /\ (b # 0 => t[b] = NL) /\ \A j \in b + 1 .. n : t[j] # NL
  <2>1. PICK i : i = n + 1
    OBVIOUS
  <2>2. i \in Nat \ {0} /\ i - 1 = n
    BY <1>2, <2>1
  <2>3. /\ LineStart(t, i) \in 0 .. i - 1
        /\ LineStart(t, i) # 0 => t[LineStart(t, i)] = NL
        /\ \A j \in LineStart(t, i) + 1 .. i - 1 : t[j] # NL
    BY <2>2, LineStartIs
  <2>4. QED BY <1>1, <2>1, <2>2, <2>3
<1>4. b # n
  BY <1>2, <1>3
<1>5. PICK a, r, h : a = n - b - 1 /\ r = a % w /\ h = n - r
  OBVIOUS
<1>6. a \in Nat /\ a + 1 = n - b
  BY <1>2, <1>3, <1>4, <1>5
<1>7. r \in 0 .. w - 1 /\ r <= a /\ (a - r) % w = 0
  BY <1>5, <1>6, RemainderGone
<1>8. h = LastHead(t, w)
  BY <1>1, <1>5 DEF LastHead
<1>9. /\ h \in 1 .. n /\ n < h + w /\ b < h /\ h - b - 1 = a - r /\ h - b - 1 \in Nat
      /\ (n + 1 = h + w <=> r = w - 1)
  BY <1>2, <1>3, <1>5, <1>6, <1>7
<1>10. \A j \in h .. n : t[j] # NL
  BY <1>3, <1>9
<1>11. n + 1 = h + w <=> (n - b) % w = 0
  <2>1. (a + 1) % w = IF a % w = w - 1 THEN 0 ELSE (a % w) + 1
    BY <1>6, RemainderNext
  <2>2. a + 1 = n - b /\ a % w = r
    BY <1>5, <1>6
  <2>3. (n - b) % w = IF r = w - 1 THEN 0 ELSE r + 1
    BY <2>1, <2>2
  <2>4. r + 1 # 0
    BY <1>7
  <2>5. QED BY <1>9, <2>3, <2>4
<1>12. ASSUME NEW i \in 1 .. n, b < i
       PROVE  LineStart(t, i) = b /\ t[i] # NL
  <2>1. i \in Nat \ {0} /\ b \in 0 .. i - 1 /\ \A j \in b + 1 .. i - 1 : t[j] # NL
    BY <1>2, <1>3, <1>12
  <2>2. t[i] # NL
    BY <1>2, <1>3, <1>12
  <2>3. QED BY <1>3, <2>1, <2>2, LineStartAt
<1>13. h \in Heads(t, w)
  <2>1. (h - b - 1) % w = 0
    BY <1>7, <1>9
  <2>2. QED BY <1>1, <1>9, <1>12, <2>1 DEF Heads
<1>14. ASSUME NEW i \in Heads(t, w), b < i, n < i + w
       PROVE  i = h
  <2>1. i \in 1 .. n
    BY <1>1 DEF Heads
  <2>2. LineStart(t, i) = b /\ t[i] # NL
    BY <1>12, <1>14, <2>1
  <2>3. PICK d : d = i - b - 1
    OBVIOUS
  <2>4. d % w = 0
    BY <2>2, <2>3 DEF Heads
  <2>5. d \in Nat /\ d <= a /\ a < d + w
    BY <1>2, <1>3, <1>5, <1>14, <2>1, <2>3
  <2>6. d = a - r
    BY <1>5, <1>6, <2>4, <2>5, MultipleIs
  <2>7. QED BY <1>3, <1>9, <2>1, <2>3, <2>6
<1>15. ASSUME NEW i \in Heads(t, w) PROVE i <= h
  <2>1. i \in 1 .. n
    BY <1>1 DEF Heads
  <2>2. CASE i > h
    <3>0. h \in Int /\ i \in Int /\ n \in Int /\ b \in Int
      BY <1>2, <1>3, <1>9, <2>1
    <3>1. b < i /\ n < i + w
      BY <1>9, <2>2, <3>0
    <3>2. QED BY <1>14, <2>2, <3>1, <1>9
  <2>3. QED BY <1>9, <2>1, <2>2
<1>16. ASSUME NEW i \in Heads(t, w), i # h, n + 1 <= i + w, \A j \in i .. n : t[j] # NL
       PROVE  FALSE
  <2>1. i \in 1 .. n
    BY <1>1 DEF Heads
  <2>2. b < i
    <3>1. CASE b # 0 /\ i <= b
      <4>1. b \in i .. n
        BY <1>3, <2>1, <3>1
      <4>2. QED BY <1>3, <1>16, <3>1, <4>1
    <3>2. CASE b = 0 \/ b < i
      BY <2>1, <3>2
    <3>3. QED BY <1>3, <2>1, <3>1, <3>2
  <2>3. QED BY <1>2, <1>14, <1>16, <2>1, <2>2
<1>17. QED BY <1>1, <1>4, <1>8, <1>9, <1>10, <1>11, <1>13, <1>15, <1>16

LEMMA HeadsGrow ==
  ASSUME NEW C, NEW t \in Seq(C), NEW c \in C, NEW w \in Nat \ {0}
  PROVE  LET n == Len(t)
             b == LineStart(t, n + 1)
             new == IF c = NL THEN b = n ELSE (n - b) % w = 0
         IN  Heads(Append(t, c), w) = IF new THEN Heads(t, w) \union {n + 1} ELSE Heads(t, w)
<1> DEFINE u == Append(t, c)
<1>1. PICK n, b : n = Len(t) /\ b = LineStart(t, n + 1)
  OBVIOUS
<1>2. /\ Len(u) = n + 1 /\ n \in Nat /\ u[n + 1] = c /\ \A i \in 1 .. n : u[i] = t[i]
  BY <1>1, TextGrows
<1>3. \A i \in 1 .. n + 1 : LineStart(u, i) = LineStart(t, i)
  BY <1>1, LineStartKept
<1> HIDE DEF u
<1>4. PICK yes \in BOOLEAN : yes <=> IF c = NL THEN b = n ELSE (n - b) % w = 0
  OBVIOUS
<1>5. ASSUME NEW i \in 1 .. n PROVE i \in Heads(u, w) <=> i \in Heads(t, w)
  BY <1>1, <1>2, <1>3 DEF Heads
<1>6. n + 1 \in Heads(u, w) <=> yes
  <2>1. n + 1 \in 1 .. n + 1 /\ LineStart(u, n + 1) = b
    BY <1>1, <1>2, <1>3
  <2>2. (n + 1) - 1 = n /\ (n + 1) - b - 1 = n - b
    <3>1. b \in Int
      <4>1. n + 1 \in Nat \ {0}
        BY <1>2
      <4>2. LineStart(t, n + 1) \in 0 .. (n + 1) - 1
        BY <4>1, LineStartIs
      <4>3. QED BY <1>1, <4>2
    <3>2. QED BY <1>2, <3>1
  <2>3. n + 1 \in Heads(u, w)
          <=> IF u[n + 1] = NL THEN LineStart(u, n + 1) = (n + 1) - 1
              ELSE ((n + 1) - LineStart(u, n + 1) - 1) % w = 0
    BY <1>2, <2>1 DEF Heads
  <2>4. QED BY <1>2, <1>4, <2>1, <2>2, <2>3
<1>7. Heads(u, w) \subseteq 1 .. n + 1 /\ Heads(t, w) \subseteq 1 .. n
  BY <1>1, <1>2 DEF Heads
<1>8. \A i \in 1 .. n + 1 : i \in 1 .. n \/ i = n + 1
  BY <1>2
<1>9. CASE yes
  <2>1. Heads(u, w) = Heads(t, w) \union {n + 1}
    <3>1. n + 1 \in Heads(u, w) /\ n + 1 \in 1 .. n + 1
      BY <1>2, <1>6, <1>9
    <3>2. ASSUME NEW i \in Heads(u, w) PROVE i \in Heads(t, w) \/ i = n + 1
      BY <1>5, <1>7, <1>8
    <3>3. ASSUME NEW i \in Heads(t, w) PROVE i \in Heads(u, w)
      BY <1>5, <1>7
    <3>4. QED BY <3>1, <3>2, <3>3
  <2>2. QED BY <1>1, <1>4, <1>9, <2>1 DEF u
<1>10. CASE ~yes
  <2>1. Heads(u, w) = Heads(t, w)
    <3>1. ASSUME NEW i \in Heads(u, w) PROVE i \in Heads(t, w)
      BY <1>5, <1>6, <1>7, <1>8, <1>10
    <3>2. ASSUME NEW i \in Heads(t, w) PROVE i \in Heads(u, w)
      BY <1>5, <1>7
    <3>3. QED BY <3>1, <3>2
  <2>2. QED BY <1>1, <1>4, <1>10, <2>1 DEF u
<1>11. QED BY <1>9, <1>10


-----------------------------------------------------------------------------
(* The lines of a text: the one that is growing, and the complete ones.     *)

Growing(t, w) == IF Open(t) THEN LinesOf(t, w)[Len(LinesOf(t, w))] ELSE <<>>

Completed(t, w) == IF Open(t) THEN Without_n(LinesOf(t, w), 1) ELSE LinesOf(t, w)

LEMMA LinesAre ==
  ASSUME NEW C, NEW t \in Seq(C), NEW w \in Nat \ {0}
  PROVE  /\ Cardinality(Heads(t, w)) \in Nat
         /\ LinesOf(t, w) \in Seq(Seq(C)) /\ Len(LinesOf(t, w)) = Cardinality(Heads(t, w))
         /\ \A k \in 1 .. Cardinality(Heads(t, w)) :
              /\ Nth(Heads(t, w), k) \in Heads(t, w)
              /\ LinesOf(t, w)[k] = LineAt(t, w, Nth(Heads(t, w), k))
<1>1. PICK H, m, n : H = Heads(t, w) /\ m = Cardinality(H) /\ n = Len(t)
  OBVIOUS
<1>2. n \in Nat /\ H \in SUBSET (1 .. n)
  BY <1>1, HeadsAre
<1>3. m \in Nat
  BY <1>1, <1>2, BelowGrows
<1>4. ASSUME NEW k \in 1 .. m PROVE Nth(H, k) \in H
  BY <1>1, <1>2, EveryNth
<1>5. ASSUME NEW i \in H PROVE LineAt(t, w, i) \in Seq(C)
  <2>1. i \in 1 .. Len(t)
    BY <1>1, <1>2
  <2>2. t[i] \in C
    BY <2>1
  <2>3. QED BY <2>1, <2>2, LineGrows
<1>6. LinesOf(t, w) = [k \in 1 .. m |-> LineAt(t, w, Nth(H, k))]
  BY <1>1 DEF LinesOf, Nth, Below
<1>7. [k \in 1 .. m |-> LineAt(t, w, Nth(H, k))] \in [1 .. m -> Seq(C)]
  BY <1>4, <1>5
<1> DEFINE L == LinesOf(t, w)
<1>8. L \in [1 .. m -> Seq(C)] /\ \A k \in 1 .. m : L[k] = LineAt(t, w, Nth(H, k))
  BY <1>6, <1>7
<1> HIDE DEF L
<1>9. L \in Seq(Seq(C)) /\ Len(L) = m
  BY <1>3, <1>8
<1>10. QED BY <1>1, <1>3, <1>4, <1>8, <1>9 DEF L

(* A sequence without its last element.                                     *)
LEMMA WithoutLast ==
  ASSUME NEW Lines, NEW s \in Seq(Lines), NEW m \in Nat \ {0}, Len(s) = m
  PROVE  /\ Without_n(s, 1) \in Seq(Lines) /\ Len(Without_n(s, 1)) = m - 1
         /\ \A k \in 1 .. m - 1 : Without_n(s, 1)[k] = s[k]
<1>1. Without_n(s, 1) = SubSeq(s, 1, m - 1)
  BY DEF Without_n
<1>2. \A k \in 1 .. m - 1 : s[k] \in Lines
  OBVIOUS
<1>3. /\ SubSeq(s, 1, m - 1) \in Seq(Lines)
      /\ Len(SubSeq(s, 1, m - 1)) = IF 1 <= m - 1 THEN (m - 1) - 1 + 1 ELSE 0
      /\ \A k \in 1 .. (m - 1) - 1 + 1 : SubSeq(s, 1, m - 1)[k] = s[1 + k - 1]
  BY <1>2, SubSeqProperties
<1>4. Len(SubSeq(s, 1, m - 1)) = m - 1
  BY <1>3
<1>5. \A k \in 1 .. m - 1 : k \in 1 .. (m - 1) - 1 + 1 /\ 1 + k - 1 = k
  OBVIOUS
<1>6. \A k \in 1 .. m - 1 : SubSeq(s, 1, m - 1)[k] = s[k]
  BY ONLY <1>3, <1>5
<1>7. QED BY ONLY <1>1, <1>3, <1>4, <1>6, Zenon

LEMMA SplitLast ==
  ASSUME NEW Lines, NEW s \in Seq(Lines), NEW m \in Nat \ {0}, Len(s) = m
  PROVE  s = Append(Without_n(s, 1), s[m])
<1> DEFINE f == Without_n(s, 1)
           a == Append(f, s[m])
<1>1. f \in Seq(Lines) /\ Len(f) = m - 1 /\ \A k \in 1 .. m - 1 : f[k] = s[k]
  BY WithoutLast
<1>2. s[m] \in Lines
  OBVIOUS
<1> HIDE DEF f
<1>3. /\ a \in Seq(Lines) /\ Len(a) = Len(f) + 1 /\ a[Len(f) + 1] = s[m]
      /\ \A k \in 1 .. Len(f) : a[k] = f[k]
  BY <1>1, <1>2, TextGrows
<1> HIDE DEF a
<1>4. Len(a) = m /\ a[m] = s[m] /\ \A k \in 1 .. m - 1 : a[k] = s[k]
  BY <1>1, <1>3
<1>5. \A k \in 1 .. m : k = m \/ k \in 1 .. m - 1
  OBVIOUS
<1>6. \A k \in 1 .. m : a[k] = s[k]
  BY <1>4, <1>5
<1>7. a = s
  BY <1>3, <1>4, <1>6, SeqEqual
<1>8. QED BY <1>7 DEF a, f

LEMMA AppendUndone ==
  ASSUME NEW Lines, NEW s \in Seq(Lines), NEW e \in Lines
  PROVE  /\ Without_n(Append(s, e), 1) = s
         /\ Append(s, e)[Len(Append(s, e))] = e
<1> DEFINE a == Append(s, e)
           f == Without_n(a, 1)
<1>1. /\ a \in Seq(Lines) /\ Len(a) = Len(s) + 1 /\ a[Len(s) + 1] = e /\ Len(s) \in Nat
      /\ \A k \in 1 .. Len(s) : a[k] = s[k]
  BY TextGrows
<1> HIDE DEF a
<1>2. Len(s) + 1 \in Nat \ {0} /\ (Len(s) + 1) - 1 = Len(s)
  BY <1>1
<1>3. /\ f \in Seq(Lines) /\ Len(f) = (Len(s) + 1) - 1
      /\ \A k \in 1 .. (Len(s) + 1) - 1 : f[k] = a[k]
  BY <1>1, <1>2, WithoutLast
<1> HIDE DEF f
<1>4. f = s
  BY <1>1, <1>2, <1>3, SeqEqual
<1>5. QED BY <1>1, <1>4 DEF a, f


LEMMA LinesExtend ==
  ASSUME NEW C, NEW t \in Seq(C), NEW c \in C, NEW w \in Nat \ {0},
         Heads(Append(t, c), w) = Heads(t, w) \union {Len(t) + 1},
         \A i \in Heads(t, w) : LineAt(Append(t, c), w, i) = LineAt(t, w, i)
  PROVE  LinesOf(Append(t, c), w)
           = Append(LinesOf(t, w), IF c = NL THEN <<>> ELSE <<c>>)
<1> DEFINE u == Append(t, c)
           H == Heads(t, w)
           L == LinesOf(t, w)
           M == LinesOf(u, w)
           e == IF c = NL THEN <<>> ELSE <<c>>
           A == Append(L, e)
<1>1. PICK n, m : n = Len(t) /\ m = Cardinality(H)
  OBVIOUS
<1>2. u \in Seq(C) /\ n \in Nat /\ H \in SUBSET (1 .. n)
  BY <1>1, TextGrows, HeadsAre
<1>3. /\ m \in Nat /\ L \in Seq(Seq(C)) /\ Len(L) = m
      /\ \A k \in 1 .. m : Nth(H, k) \in H /\ L[k] = LineAt(t, w, Nth(H, k))
  BY <1>1, LinesAre
<1>4. /\ Cardinality(Heads(u, w)) = m + 1 /\ Nth(Heads(u, w), m + 1) = n + 1
      /\ \A k \in 1 .. m : Nth(Heads(u, w), k) = Nth(H, k)
  <2>1. Heads(u, w) = H \union {n + 1}
    BY <1>1
  <2> HIDE DEF u, H
  <2>2. /\ Cardinality(H \union {n + 1}) = Cardinality(H) + 1
        /\ Nth(H \union {n + 1}, Cardinality(H) + 1) = n + 1
        /\ \A k \in 1 .. Cardinality(H) : Nth(H \union {n + 1}, k) = Nth(H, k)
    BY <1>2, NthGrows
  <2>3. QED BY <1>1, <2>1, <2>2
<1>5. /\ M \in Seq(Seq(C)) /\ Len(M) = m + 1
      /\ \A k \in 1 .. m + 1 : M[k] = LineAt(u, w, Nth(Heads(u, w), k))
  BY <1>2, <1>4, LinesAre
<1>6. \A k \in 1 .. m : LineAt(u, w, Nth(H, k)) = LineAt(t, w, Nth(H, k))
  BY <1>3
<1>7. LineAt(u, w, n + 1) = e
  BY <1>1, LineBegins
<1>8. e \in Seq(C)
  OBVIOUS
<1> HIDE DEF u, H, L, M, e, A
<1>9. /\ A \in Seq(Seq(C)) /\ Len(A) = m + 1 /\ A[m + 1] = e
      /\ \A k \in 1 .. m : A[k] = L[k]
  BY <1>3, <1>8, TextGrows DEF A
<1>10. ASSUME NEW k \in 1 .. m + 1 PROVE M[k] = A[k]
  <2>1. CASE k = m + 1
    BY <1>4, <1>5, <1>7, <1>9, <2>1
  <2>2. CASE k # m + 1
    <3>1. k \in 1 .. m
      BY <1>3, <2>2
    <3>2. QED BY <1>3, <1>4, <1>5, <1>6, <1>9, <3>1
  <2>3. QED BY <2>1, <2>2
<1>11. M = A
  BY <1>5, <1>9, <1>10, SeqEqual
<1>12. QED BY <1>11 DEF u, M, A, L, e

NoLine == <<>>

(* A character ends the growing line, starts the next one behind it, or     *)
(* joins it.                                                                *)
LEMMA LinesGrow ==
  ASSUME NEW C, NEW t \in Seq(C), NEW c \in C, NEW w \in Nat \ {0}
  PROVE  LET u == Append(t, c)
             g == Growing(t, w)
         IN  /\ g \in Seq(C) /\ Len(g) <= w /\ Completed(t, w) \in Seq(Seq(C))
             /\ Completed(u, w) = IF c # NL /\ Len(g) # w THEN Completed(t, w)
                                  ELSE Append(Completed(t, w), g)
             /\ Growing(u, w) = IF c = NL THEN NoLine
                                ELSE Append(IF Len(g) = w THEN NoLine ELSE g, c)
<1> DEFINE u == Append(t, c)
           H == Heads(t, w)
           L == LinesOf(t, w)
           M == LinesOf(u, w)
           g == Growing(t, w)
           h == LastHead(t, w)
           b == LineStart(t, Len(t) + 1)
<1>1. PICK n, m : n = Len(t) /\ m = Cardinality(H)
  OBVIOUS
<1>2. u \in Seq(C) /\ n \in Nat /\ Len(u) = n + 1 /\ u[n + 1] = c
  BY <1>1, TextGrows
<1>3. /\ m \in Nat /\ L \in Seq(Seq(C)) /\ Len(L) = m
      /\ \A k \in 1 .. m : Nth(H, k) \in H /\ L[k] = LineAt(t, w, Nth(H, k))
  BY <1>1, LinesAre
<1>4. H \in SUBSET (1 .. n)
  BY <1>1, HeadsAre
<1>5. Open(u) <=> c # NL
  <2>1. u # <<>>
    BY <1>2
  <2>2. QED BY <1>2, <2>1 DEF Open
<1>6. ASSUME NEW i \in H
      PROVE  LineAt(u, w, i) = IF c # NL /\ n + 1 < i + w /\ \A j \in i .. n : t[j] # NL
                               THEN Append(LineAt(t, w, i), c) ELSE LineAt(t, w, i)
  <2>1. i \in 1 .. Len(t)
    BY <1>1, <1>4
  <2>2. QED BY <1>1, <2>1, LineGrows
<1>7. Heads(u, w) = IF (IF c = NL THEN b = n ELSE (n - b) % w = 0) THEN H \union {n + 1} ELSE H
  BY <1>1, HeadsGrow
<1> HIDE DEF u, H, L, M, h, b
<1>8. ASSUME Heads(u, w) = H \union {n + 1}, \A i \in H : LineAt(u, w, i) = LineAt(t, w, i)
      PROVE  /\ M = Append(L, IF c = NL THEN <<>> ELSE <<c>>)
             /\ c = NL => Completed(u, w) = Append(L, <<>>) /\ Growing(u, w) = <<>>
             /\ c # NL => Completed(u, w) = L /\ Growing(u, w) = <<c>>
  <2>1. M = Append(L, IF c = NL THEN <<>> ELSE <<c>>)
    BY <1>1, <1>8, LinesExtend DEF u, H, L, M
  <2>2. <<c>> \in Seq(C)
    OBVIOUS
  <2>3. c # NL => Without_n(M, 1) = L /\ M[Len(M)] = <<c>>
    <3>1. /\ Without_n(Append(L, <<c>>), 1) = L
          /\ Append(L, <<c>>)[Len(Append(L, <<c>>))] = <<c>>
      BY <1>3, <2>2, AppendUndone
    <3>2. QED BY <2>1, <3>1
  <2>4. QED BY <1>5, <2>1, <2>3 DEF Completed, Growing, M
<1>9. CASE ~Open(t)
  <2>1. g = <<>> /\ Completed(t, w) = L
    BY <1>9 DEF Growing, Completed, L
  <2>2. b = n /\ \A i \in 1 .. n : t[n] = NL /\ n \in i .. n
    BY <1>1, <1>9, ClosedEnd DEF b
  <2>3. (n - n) % w = 0
    BY <1>2
  <2>4. Heads(u, w) = H \union {n + 1}
    BY <1>7, <2>2, <2>3
  <2>5. \A i \in H : LineAt(u, w, i) = LineAt(t, w, i)
    BY <1>4, <1>6, <2>2
  <2>6. Len(<<>>) = 0 /\ <<>> \in Seq(C) /\ Append(<<>>, c) = <<c>>
    OBVIOUS
  <2>7. QED BY <1>3, <1>8, <2>1, <2>4, <2>5, <2>6 DEF u, NoLine
<1>10. CASE Open(t)
  <2>1. /\ h \in 1 .. n /\ n < h + w /\ h \in H
        /\ \A j \in h .. n : t[j] # NL
        /\ \A i \in H : i <= h
        /\ \A i \in H : i # h => ~ (n + 1 <= i + w /\ \A j \in i .. n : t[j] # NL)
        /\ n + 1 = h + w <=> (n - b) % w = 0
        /\ b # n
    BY <1>1, <1>10, OpenEnd DEF h, H, b
  <2>2. /\ m \in Nat \ {0} /\ Nth(H, m) = h
        /\ \A k \in 1 .. m - 1 : Nth(H, k) \in H /\ Nth(H, k) # h
    BY <1>1, <1>2, <1>4, <2>1, LastIsGreatest
  <2>3. g = L[m] /\ Completed(t, w) = Without_n(L, 1)
    BY <1>3, <1>10 DEF Growing, Completed, L
  <2>4. g = LineAt(t, w, h) /\ g \in Seq(C)
    BY <1>3, <2>2, <2>3
  <2>5. Len(g) = n - h + 1
    <3>1. h \in 1 .. Len(t) /\ Len(t) + 1 <= h + w /\ \A j \in h .. Len(t) : t[j] # NL
      BY <1>1, <1>2, <2>1
    <3>2. t[h] \in C
      BY <3>1
    <3>3. QED BY <1>1, <2>4, <3>1, <3>2, LineGrows
  <2>6. Len(g) <= w /\ (Len(g) = w <=> n + 1 = h + w)
    BY <1>2, <2>1, <2>5
  <2>7. /\ Without_n(L, 1) \in Seq(Seq(C)) /\ Len(Without_n(L, 1)) = m - 1
        /\ \A k \in 1 .. m - 1 : Without_n(L, 1)[k] = L[k]
        /\ L = Append(Without_n(L, 1), g)
    BY <1>3, <2>2, <2>3, WithoutLast, SplitLast
  <2>8. ASSUME NEW i \in H, i # h PROVE LineAt(u, w, i) = LineAt(t, w, i)
    <3>1. i \in Int
      BY <1>4
    <3>2. ~ (n + 1 < i + w /\ \A j \in i .. n : t[j] # NL)
      BY <1>2, <2>1, <2>8, <3>1
    <3>3. QED BY <1>6, <3>2
  <2>9. LineAt(u, w, h) = IF c # NL /\ n + 1 # h + w THEN Append(g, c) ELSE g
    <3>1. n + 1 < h + w <=> n + 1 # h + w
      BY <1>2, <2>1
    <3>2. QED BY <1>6, <2>1, <2>4, <3>1
  <2>10. CASE c # NL /\ n + 1 = h + w
    <3>1. Heads(u, w) = H \union {n + 1}
      BY <1>7, <2>1, <2>10
    <3>2. \A i \in H : LineAt(u, w, i) = LineAt(t, w, i)
      BY <2>4, <2>8, <2>9, <2>10
    <3>3. Completed(u, w) = L /\ Growing(u, w) = <<c>>
      BY <1>8, <2>10, <3>1, <3>2
    <3>4. <<c>> = Append(NoLine, c)
      BY DEF NoLine
    <3>5. QED BY <2>3, <2>4, <2>6, <2>7, <2>10, <3>3, <3>4 DEF u
  <2>11. CASE ~ (c # NL /\ n + 1 = h + w)
    <3>1. Heads(u, w) = H
      BY <1>7, <2>1, <2>11
    <3>2. /\ M \in Seq(Seq(C)) /\ Len(M) = m
          /\ \A k \in 1 .. m : M[k] = LineAt(u, w, Nth(H, k))
      BY <1>1, <1>2, <3>1, LinesAre DEF M
    <3>3. \A k \in 1 .. m - 1 : M[k] = L[k]
      <4>1. \A k \in 1 .. m - 1 : k \in 1 .. m
        BY <1>3
      <4>2. QED BY <1>3, <2>2, <2>8, <3>2, <4>1
    <3>4. M[m] = IF c # NL THEN Append(g, c) ELSE g
      <4>1. m \in 1 .. m
        BY <2>2
      <4>2. M[m] = LineAt(u, w, h)
        BY <2>2, <3>2, <4>1
      <4>3. QED BY <2>9, <2>11, <4>2
    <3>5. CASE c = NL
      <4>1. \A k \in 1 .. m : k = m \/ k \in 1 .. m - 1
        BY <2>2
      <4>2. \A k \in 1 .. m : M[k] = L[k]
        BY <2>3, <3>3, <3>4, <3>5, <4>1
      <4>3. M = L
        BY <1>3, <3>2, <4>2, SeqEqual
      <4>4. Completed(u, w) = L /\ Growing(u, w) = <<>>
        BY <1>5, <3>5, <4>3 DEF Completed, Growing, M
      <4>5. QED BY <2>3, <2>4, <2>6, <2>7, <3>5, <4>4 DEF u, NoLine
    <3>6. CASE c # NL
      <4>1. /\ Without_n(M, 1) \in Seq(Seq(C)) /\ Len(Without_n(M, 1)) = m - 1
            /\ \A k \in 1 .. m - 1 : Without_n(M, 1)[k] = M[k]
        BY <2>2, <3>2, WithoutLast
      <4>2. \A k \in 1 .. m - 1 : Without_n(M, 1)[k] = Without_n(L, 1)[k]
        BY <2>7, <3>3, <4>1
      <4>3. Without_n(M, 1) = Without_n(L, 1)
        BY <2>7, <4>1, <4>2, SeqEqual
      <4>4. Completed(u, w) = Completed(t, w) /\ Growing(u, w) = Append(g, c)
        BY <1>5, <2>3, <3>2, <3>4, <3>6, <4>3 DEF Completed, Growing, M
      <4>5. QED BY <2>3, <2>4, <2>6, <2>7, <2>11, <3>6, <4>4 DEF u, NoLine
    <3>7. QED BY <3>5, <3>6
  <2>12. QED BY <2>10, <2>11
<1>11. QED BY <1>9, <1>10


-----------------------------------------------------------------------------
(* A pane and the text it was given.                                        *)

Bytes == {Printable, Bell, NL, CR, Command}
Characters == {Shown(byte) : byte \in Bytes}
TextLines == Seq(Characters)

PaneOK(pane, capacity, length, text) ==
  /\ pane = [ring |-> pane.ring, current |-> pane.current]
  /\ RingOK(pane.ring, capacity, TextLines)
  /\ text \in TextLines
  /\ pane.current = Growing(text, length - 1)
  /\ Contents(pane.ring, capacity) = Tail_n(Completed(text, length - 1), capacity)

LEMMA PaneIsExact ==
  ASSUME NEW pane, NEW capacity, NEW length, NEW text, PaneOK(pane, capacity, length, text)
  PROVE  PaneExact(pane, capacity, length, text)
BY DEF PaneOK, PaneExact, Growing, Completed

LEMMA ShownIs ==
  ASSUME NEW byte \in Bytes
  PROVE  Shown(byte) \in Characters /\ (Shown(byte) = NL <=> byte = NL)
BY DEF Bytes, Characters, Shown, Printable, Bell, NL, CR, Command

(* No text, no line.                                                        *)
LEMMA EmptyText ==
  ASSUME NEW w \in Nat \ {0}
  PROVE  Growing(<<>>, w) = <<>> /\ Completed(<<>>, w) = <<>>
<1>1. ~Open(<<>>)
  BY DEF Open
<1>2. <<>> \in Seq({0})
  OBVIOUS
<1>3. Heads(<<>>, w) = {}
  BY DEF Heads
<1>4. LinesOf(<<>>, w) \in Seq(Seq({0})) /\ Len(LinesOf(<<>>, w)) = 0
  BY <1>2, <1>3, LinesAre, FS_EmptySet
<1>5. LinesOf(<<>>, w) = <<>>
  BY <1>4
<1>6. QED BY <1>1, <1>5 DEF Growing, Completed

LEMMA EmptyRingIs ==
  ASSUME NEW capacity \in Nat \ {0}, NEW ring, RingOK(ring, capacity, TextLines), ring.count = 0
  PROVE  Contents(ring, capacity) = Tail_n(<<>>, capacity)
<1>1. Contents(ring, capacity) \in Seq(TextLines) /\ Len(Contents(ring, capacity)) = 0
  BY ContentsIs
<1>2. Contents(ring, capacity) = <<>>
  BY <1>1
<1>3. Tail_n(<<>>, capacity) = <<>>
  BY DEF Tail_n
<1>4. QED BY <1>2, <1>3

LEMMA NewPane ==
  ASSUME NEW capacity \in Nat \ {0}, NEW length \in Nat, length >= 2
  PROVE  PaneOK(Pane(capacity), capacity, length, <<>>)
<1> DEFINE ring == EmptyRing(capacity)
<1>1. <<>> \in TextLines
  BY DEF TextLines
<1>2. RingOK(ring, capacity, TextLines) /\ ring.count = 0
  BY <1>1 DEF EmptyRing, RingOK
<1>3. Contents(ring, capacity) = Tail_n(<<>>, capacity)
  BY <1>2, EmptyRingIs
<1>4. length - 1 \in Nat \ {0}
  OBVIOUS
<1>5. Growing(<<>>, length - 1) = <<>> /\ Completed(<<>>, length - 1) = <<>>
  BY <1>4, EmptyText
<1>6. Pane(capacity) = [ring |-> ring, current |-> <<>>]
  BY DEF Pane
<1> HIDE DEF ring
<1>7. QED BY <1>1, <1>2, <1>3, <1>5, <1>6 DEF PaneOK

LEMMA ClearedPane ==
  ASSUME NEW capacity \in Nat \ {0}, NEW length \in Nat, length >= 2, NEW pane, NEW text,
         PaneOK(pane, capacity, length, text)
  PROVE  PaneOK([ring |-> Cleared(pane.ring), current |-> <<>>], capacity, length, <<>>)
<1> DEFINE ring == Cleared(pane.ring)
<1>1. <<>> \in TextLines
  BY DEF TextLines
<1>2. RingOK(pane.ring, capacity, TextLines)
  BY DEF PaneOK
<1>3. RingOK(ring, capacity, TextLines) /\ ring.count = 0
  BY <1>2 DEF Cleared, RingOK
<1>4. Contents(ring, capacity) = Tail_n(<<>>, capacity)
  BY <1>3, EmptyRingIs
<1>5. length - 1 \in Nat \ {0}
  OBVIOUS
<1>6. Growing(<<>>, length - 1) = <<>> /\ Completed(<<>>, length - 1) = <<>>
  BY <1>5, EmptyText
<1> HIDE DEF ring
<1>7. PICK p : p = [ring |-> ring, current |-> <<>>]
  OBVIOUS
<1>8. p = [ring |-> p.ring, current |-> p.current] /\ p.ring = ring /\ p.current = <<>>
  BY <1>7
<1>9. PaneOK(p, capacity, length, <<>>)
  BY <1>1, <1>3, <1>4, <1>6, <1>8 DEF PaneOK
<1>10. QED BY <1>7, <1>9 DEF ring

LEMMA GrowingIs ==
  ASSUME NEW t \in TextLines, NEW w \in Nat \ {0}
  PROVE  /\ Growing(t, w) \in TextLines /\ Len(Growing(t, w)) <= w
         /\ Completed(t, w) \in Seq(TextLines)
<1>1. PICK c : c \in Characters
  BY ShownIs DEF Bytes
<1>2. QED BY <1>1, LinesGrow DEF TextLines

LEMMA CommitIs ==
  ASSUME NEW capacity \in Nat \ {0}, NEW length \in Nat, length >= 2, NEW pane, NEW text,
         PaneOK(pane, capacity, length, text), NEW more \in TextLines,
         Completed(more, length - 1) = Append(Completed(text, length - 1), pane.current),
         Growing(more, length - 1) = <<>>
  PROVE  PaneOK(Commit(pane, capacity), capacity, length, more)
<1> DEFINE ring == ring_add(pane.ring, capacity, pane.current)
           done == Completed(text, length - 1)
<1>1. length - 1 \in Nat \ {0}
  OBVIOUS
<1>2. pane.current \in TextLines /\ done \in Seq(TextLines)
  BY <1>1, GrowingIs DEF PaneOK
<1>3. /\ RingOK(pane.ring, capacity, TextLines)
      /\ Contents(pane.ring, capacity) = Tail_n(done, capacity)
  BY DEF PaneOK
<1> HIDE DEF done
<1>4. Contents(ring, capacity) = Tail_n(Append(done, pane.current), capacity)
  BY <1>2, <1>3, AddedToNewest
<1>5. RingOK(ring, capacity, TextLines)
  BY <1>2, <1>3, RingAdds
<1> HIDE DEF ring
<1>6. Commit(pane, capacity) = [ring |-> ring, current |-> <<>>]
  BY DEF Commit, ring
<1>7. PICK p : p = Commit(pane, capacity)
  OBVIOUS
<1>8. p = [ring |-> p.ring, current |-> p.current] /\ p.ring = ring /\ p.current = <<>>
  BY <1>6, <1>7
<1>9. Contents(p.ring, capacity) = Tail_n(Completed(more, length - 1), capacity)
  BY <1>4, <1>8 DEF done
<1>10. QED BY <1>5, <1>7, <1>8, <1>9 DEF PaneOK


(* How the growing line and the complete ones go on.                        *)
NextCompleted(t, w, c) ==
  IF c # NL /\ Len(Growing(t, w)) # w THEN Completed(t, w)
  ELSE Append(Completed(t, w), Growing(t, w))

NextGrowing(t, w, c) ==
  IF c = NL THEN NoLine ELSE Append(IF Len(Growing(t, w)) = w THEN NoLine ELSE Growing(t, w), c)

LEMMA CutNext ==
  ASSUME NEW t \in Seq(Characters), NEW c \in Characters, NEW w \in Nat \ {0}
  PROVE  /\ Completed(Append(t, c), w) = NextCompleted(t, w, c)
         /\ Growing(Append(t, c), w) = NextGrowing(t, w, c)
<1>1. Completed(Append(t, c), w) =
        IF c # NL /\ Len(Growing(t, w)) # w THEN Completed(t, w)
        ELSE Append(Completed(t, w), Growing(t, w))
  BY LinesGrow
<1>2. Growing(Append(t, c), w) =
        IF c = NL THEN NoLine
        ELSE Append(IF Len(Growing(t, w)) = w THEN NoLine ELSE Growing(t, w), c)
  BY LinesGrow
<1>3. QED BY <1>1, <1>2 DEF NextCompleted, NextGrowing

(* One byte: the carriage return is no character, an end of line commits    *)
(* the growing line, and so does a character that does not fit it.          *)
LEMMA PutIs ==
  ASSUME NEW capacity \in Nat \ {0}, NEW length \in Nat, length >= 2, NEW pane, NEW text,
         PaneOK(pane, capacity, length, text), NEW byte \in Bytes
  PROVE  PaneOK(Put(pane, capacity, length, byte), capacity, length, Given(text, byte))
<1>1. PICK w \in Nat \ {0} : w = length - 1
  OBVIOUS
<1>2. PICK c \in Characters : c = Shown(byte) /\ (c = NL <=> byte = NL)
  BY ShownIs
<1>3. PICK g, more : g = pane.current /\ more = Append(text, c)
  OBVIOUS
<1>4. /\ text \in Seq(Characters) /\ g = Growing(text, w) /\ more \in TextLines
      /\ RingOK(pane.ring, capacity, TextLines) /\ g \in TextLines
  BY <1>1, <1>3, TextGrows, GrowingIs DEF PaneOK, TextLines
<1>5. /\ Len(g) \in Nat /\ Len(g) <= w
      /\ c = NL => Completed(more, w) = Append(Completed(text, w), g) /\ Growing(more, w) = <<>>
      /\ c # NL /\ Len(g) = w =>
           Completed(more, w) = Append(Completed(text, w), g) /\ Growing(more, w) = <<c>>
      /\ c # NL /\ Len(g) # w =>
           Completed(more, w) = Completed(text, w) /\ Growing(more, w) = Append(g, c)
  <2>1. g \in Seq(Characters)
    BY <1>4 DEF TextLines
  <2>2. Len(g) \in Nat /\ Len(g) <= w
    BY <1>4, <2>1, GrowingIs DEF TextLines
  <2>3. Completed(more, w) = NextCompleted(text, w, c) /\ Growing(more, w) = NextGrowing(text, w, c)
    BY <1>3, <1>4, CutNext
  <2>4. <<c>> = Append(NoLine, c) /\ NoLine = <<>>
    BY DEF NoLine
  <2>5. QED BY <1>4, <2>2, <2>3, <2>4 DEF NextCompleted, NextGrowing
<1>6. Full(pane.current, length) <=> Len(g) = w
  BY <1>1, <1>3, <1>5 DEF Full
<1>7. CASE byte = CR
  <2>1. Put(pane, capacity, length, byte) = pane /\ Given(text, byte) = text
    BY <1>7 DEF Put, Given, CR, NL
  <2>2. QED BY <2>1
<1>8. CASE byte = NL
  <2>1. Put(pane, capacity, length, byte) = Commit(pane, capacity) /\ Given(text, byte) = more
    BY <1>2, <1>3, <1>8 DEF Put, Given, CR, NL
  <2>2. Completed(more, length - 1) = Append(Completed(text, length - 1), pane.current)
        /\ Growing(more, length - 1) = <<>>
    BY <1>1, <1>2, <1>3, <1>5, <1>8
  <2>3. PaneOK(Commit(pane, capacity), capacity, length, more)
    BY <1>4, <2>2, CommitIs
  <2>4. QED BY <2>1, <2>3
<1>9. CASE byte # CR /\ byte # NL
  <2>1. PICK room : room = IF Len(g) = w THEN Commit(pane, capacity) ELSE pane
    OBVIOUS
  <2>2. Given(text, byte) = more
    BY <1>2, <1>3, <1>9 DEF Given
  <2>3. Put(pane, capacity, length, byte) = [room EXCEPT !.current = Append(@, c)]
    BY <1>2, <1>6, <1>9, <2>1 DEF Put
  <2>4. PICK p : p = [room EXCEPT !.current = Append(@, c)]
    OBVIOUS
  <2>5. CASE Len(g) = w
    <3>1. room = [ring |-> ring_add(pane.ring, capacity, g), current |-> <<>>]
      BY <1>3, <2>1, <2>5 DEF Commit
    <3>2. /\ p = [ring |-> p.ring, current |-> p.current]
          /\ p.ring = ring_add(pane.ring, capacity, g) /\ p.current = <<c>>
      BY <2>4, <3>1
    <3>3. /\ RingOK(p.ring, capacity, TextLines)
          /\ Contents(p.ring, capacity) = Tail_n(Append(Completed(text, w), g), capacity)
      <4>1. Contents(pane.ring, capacity) = Tail_n(Completed(text, w), capacity)
        BY <1>1 DEF PaneOK
      <4>2. Completed(text, w) \in Seq(TextLines)
        BY <1>4, GrowingIs DEF TextLines
      <4>3. QED BY <1>4, <3>2, <4>1, <4>2, AddedToNewest, RingAdds
    <3>4. Completed(more, w) = Append(Completed(text, w), g) /\ Growing(more, w) = <<c>>
      BY <1>2, <1>5, <1>9, <2>5
    <3>5. PaneOK(p, capacity, length, more)
      BY <1>1, <1>4, <3>2, <3>3, <3>4 DEF PaneOK
    <3>6. QED BY <2>2, <2>3, <2>4, <3>5
  <2>6. CASE Len(g) # w
    <3>1. room = [ring |-> pane.ring, current |-> g]
      BY <1>3, <2>1, <2>6 DEF PaneOK
    <3>2. /\ p = [ring |-> p.ring, current |-> p.current]
          /\ p.ring = pane.ring /\ p.current = Append(g, c)
      BY <2>4, <3>1
    <3>3. Completed(more, w) = Completed(text, w) /\ Growing(more, w) = Append(g, c)
      BY <1>2, <1>5, <1>9, <2>6
    <3>4. Contents(p.ring, capacity) = Tail_n(Completed(more, w), capacity)
      BY <1>1, <3>2, <3>3 DEF PaneOK
    <3>5. PaneOK(p, capacity, length, more)
      BY <1>1, <1>4, <3>2, <3>3, <3>4 DEF PaneOK
    <3>6. QED BY <2>2, <2>3, <2>4, <3>5
  <2>7. QED BY <2>5, <2>6
<1>10. QED BY <1>7, <1>8, <1>9


(* An answer goes into the pane byte after byte, and so does its text.      *)
LEMMA OutputRun ==
  ASSUME NEW pane, NEW bytes, Len(bytes) \in Nat
  PROVE  \E run : /\ run[0] = pane
                  /\ \A i \in 1 .. Len(bytes) : run[i] = MonitorPut(run[i - 1], bytes[i])
                  /\ monitor_output(pane, bytes) = run[Len(bytes)]
<1> DEFINE n == Len(bytes)
           Runs(m, g) == g = [i \in 0 .. m |->
                                IF i = 0 THEN pane ELSE MonitorPut(g[i - 1], bytes[i])]
           good == {m \in 0 .. n : \E g : Runs(m, g)}
<1>1. 0 \in good
  <2>1. PICK g : g = [i \in 0 .. 0 |-> pane]
    OBVIOUS
  <2>2. g = [i \in 0 .. 0 |-> IF i = 0 THEN pane ELSE MonitorPut(g[i - 1], bytes[i])]
    BY <2>1
  <2>3. QED BY <2>2
<1>2. ASSUME NEW m \in 1 .. n, m - 1 \in good
      PROVE  m \in good
  <2>1. PICK g : Runs(m - 1, g)
    BY <1>2
  <2>2. PICK h : h = [i \in 0 .. m |-> IF i = m THEN MonitorPut(g[m - 1], bytes[m]) ELSE g[i]]
    OBVIOUS
  <2>3. ASSUME NEW i \in 0 .. m
        PROVE  h[i] = IF i = 0 THEN pane ELSE MonitorPut(h[i - 1], bytes[i])
    <3>1. CASE i = m
      <4>1. i # 0 /\ i - 1 \in 0 .. m /\ i - 1 # m
        BY <3>1
      <4>2. h[i] = MonitorPut(g[m - 1], bytes[m]) /\ h[i - 1] = g[i - 1]
        BY <2>2, <3>1, <4>1
      <4>3. QED BY <3>1, <4>1, <4>2
    <3>2. CASE i # m
      <4>1. i \in 0 .. m - 1 /\ h[i] = g[i]
        BY <2>2, <3>2
      <4>2. g[i] = IF i = 0 THEN pane ELSE MonitorPut(g[i - 1], bytes[i])
        BY <2>1, <4>1
      <4>3. i # 0 => h[i - 1] = g[i - 1]
        BY <2>2, <4>1
      <4>4. QED BY <4>1, <4>2, <4>3
    <3>3. QED BY <3>1, <3>2
  <2>4. Runs(m, h)
    BY <2>2, <2>3
  <2>5. QED BY <2>4
<1>3. n \in good
  <2> HIDE DEF good
  <2>1. QED BY <1>1, <1>2, UpwardsTo
<1>4. PICK run : run = CHOOSE g : Runs(n, g)
  OBVIOUS
<1>5. Runs(n, run)
  BY <1>3, <1>4
<1>6. monitor_output(pane, bytes) = run[n]
  BY <1>4 DEF monitor_output
<1>7. run[0] = pane
  BY <1>5
<1>8. ASSUME NEW i \in 1 .. n
      PROVE  run[i] = MonitorPut(run[i - 1], bytes[i])
  BY <1>5
<1>9. QED BY <1>6, <1>7, <1>8

LEMMA GivenRun ==
  ASSUME NEW text, NEW bytes, Len(bytes) \in Nat
  PROVE  \E run : /\ run[0] = text
                  /\ \A i \in 1 .. Len(bytes) : run[i] = Given(run[i - 1], bytes[i])
                  /\ GivenAll(text, bytes) = run[Len(bytes)]
<1> DEFINE n == Len(bytes)
           Runs(m, g) == g = [i \in 0 .. m |-> IF i = 0 THEN text ELSE Given(g[i - 1], bytes[i])]
           good == {m \in 0 .. n : \E g : Runs(m, g)}
<1>1. 0 \in good
  <2>1. PICK g : g = [i \in 0 .. 0 |-> text]
    OBVIOUS
  <2>2. g = [i \in 0 .. 0 |-> IF i = 0 THEN text ELSE Given(g[i - 1], bytes[i])]
    BY <2>1
  <2>3. QED BY <2>2
<1>2. ASSUME NEW m \in 1 .. n, m - 1 \in good
      PROVE  m \in good
  <2>1. PICK g : Runs(m - 1, g)
    BY <1>2
  <2>2. PICK h : h = [i \in 0 .. m |-> IF i = m THEN Given(g[m - 1], bytes[m]) ELSE g[i]]
    OBVIOUS
  <2>3. ASSUME NEW i \in 0 .. m
        PROVE  h[i] = IF i = 0 THEN text ELSE Given(h[i - 1], bytes[i])
    <3>1. CASE i = m
      <4>1. i # 0 /\ i - 1 \in 0 .. m /\ i - 1 # m
        BY <3>1
      <4>2. h[i] = Given(g[m - 1], bytes[m]) /\ h[i - 1] = g[i - 1]
        BY <2>2, <3>1, <4>1
      <4>3. QED BY <3>1, <4>1, <4>2
    <3>2. CASE i # m
      <4>1. i \in 0 .. m - 1 /\ h[i] = g[i]
        BY <2>2, <3>2
      <4>2. g[i] = IF i = 0 THEN text ELSE Given(g[i - 1], bytes[i])
        BY <2>1, <4>1
      <4>3. i # 0 => h[i - 1] = g[i - 1]
        BY <2>2, <4>1
      <4>4. QED BY <4>1, <4>2, <4>3
    <3>3. QED BY <3>1, <3>2
  <2>4. Runs(m, h)
    BY <2>2, <2>3
  <2>5. QED BY <2>4
<1>3. n \in good
  <2> HIDE DEF good
  <2>1. QED BY <1>1, <1>2, UpwardsTo
<1>4. PICK run : run = CHOOSE g : Runs(n, g)
  OBVIOUS
<1>5. Runs(n, run)
  BY <1>3, <1>4
<1>6. GivenAll(text, bytes) = run[n]
  BY <1>4 DEF GivenAll
<1>7. run[0] = text
  BY <1>5
<1>8. ASSUME NEW i \in 1 .. n
      PROVE  run[i] = Given(run[i - 1], bytes[i])
  BY <1>5
<1>9. QED BY <1>6, <1>7, <1>8

MonitorOK(pane, text) == PaneOK(pane, MONITOR_LINE_CAPACITY, DEBUG_LINE_LENGTH, text)

LEMMA PaneSizes ==
  /\ UART_LINE_CAPACITY \in Nat \ {0} /\ MONITOR_LINE_CAPACITY \in Nat \ {0}
  /\ UART_LINE_LENGTH \in Nat /\ UART_LINE_LENGTH >= 2
  /\ DEBUG_LINE_LENGTH \in Nat /\ DEBUG_LINE_LENGTH >= 2
  /\ PAGE \in Nat \ {0} /\ ROWS \subseteq Nat
BY PanesAssumption

LEMMA OutputIs ==
  ASSUME NEW pane, NEW text, MonitorOK(pane, text), NEW bytes \in Seq(Bytes)
  PROVE  MonitorOK(monitor_output(pane, bytes), GivenAll(text, bytes))
<1>1. PICK n \in Nat : n = Len(bytes)
  OBVIOUS
<1>2. PICK run : /\ run[0] = pane
                 /\ \A i \in 1 .. n : run[i] = MonitorPut(run[i - 1], bytes[i])
                 /\ monitor_output(pane, bytes) = run[n]
  <2>1. Len(bytes) \in Nat
    BY <1>1
  <2>2. \E run : /\ run[0] = pane
                 /\ \A i \in 1 .. Len(bytes) : run[i] = MonitorPut(run[i - 1], bytes[i])
                 /\ monitor_output(pane, bytes) = run[Len(bytes)]
    BY ONLY <2>1, OutputRun
  <2>3. QED BY <1>1, <2>2
<1>3. PICK given : /\ given[0] = text
                   /\ \A i \in 1 .. n : given[i] = Given(given[i - 1], bytes[i])
                   /\ GivenAll(text, bytes) = given[n]
  BY <1>1, GivenRun
<1> DEFINE good == {i \in 0 .. n : MonitorOK(run[i], given[i])}
<1>4. 0 \in good
  BY <1>2, <1>3
<1>5. ASSUME NEW i \in 1 .. n, i - 1 \in good
      PROVE  i \in good
  <2>1. MonitorOK(run[i - 1], given[i - 1]) /\ bytes[i] \in Bytes
    BY <1>1, <1>5
  <2>2. MonitorOK(MonitorPut(run[i - 1], bytes[i]), Given(given[i - 1], bytes[i]))
    BY <2>1, PutIs, PaneSizes DEF MonitorOK, MonitorPut
  <2>3. QED BY <1>2, <1>3, <2>2
<1>6. n \in good
  <2> HIDE DEF good
  <2>1. QED BY <1>4, <1>5, UpwardsTo
<1>7. QED BY <1>2, <1>3, <1>6


-----------------------------------------------------------------------------
(* The panes' actions.                                                      *)

UartOK(pane, text) == PaneOK(pane, UART_LINE_CAPACITY, UART_LINE_LENGTH, text)

(* While the monitor's window is shown it is not scrolled past its oldest   *)
(* line.                                                                    *)
ScrollOK ==
  /\ {monitor_focus, monitor_input} \subseteq BOOLEAN /\ rows \in ROWS
  /\ monitor_scroll \in 0 .. MONITOR_LINE_CAPACITY
  /\ monitor_input => monitor_focus
  /\ monitor_focus /\ MonitorShown => monitor_scroll <= MonitorMaximum

PanesInv == UartOK(uart, uart_text) /\ MonitorOK(monitor, monitor_text) /\ ScrollOK

(* The command, on a line of its own.                                       *)
LEMMA RepeatedIs ==
  ASSUME NEW pane, NEW text, MonitorOK(pane, text), pane.current = <<>>
  PROVE  MonitorOK([pane EXCEPT !.ring = ring_add(@, MONITOR_LINE_CAPACITY, <<Command>>)],
                   text \o <<Command, NL>>)
<1>1. PICK p, q, s : /\ p = MonitorPut(pane, Command) /\ q = MonitorPut(p, NL)
                     /\ s = Given(Given(text, Command), NL)
  OBVIOUS
<1>2. Command \in Bytes /\ NL \in Bytes
  BY DEF Bytes
<1>3. MonitorOK(p, Given(text, Command))
  BY <1>1, <1>2, PutIs, PaneSizes DEF MonitorOK, MonitorPut
<1>4. MonitorOK(q, s)
  BY <1>1, <1>2, <1>3, PutIs, PaneSizes DEF MonitorOK, MonitorPut
<1>5. pane = [ring |-> pane.ring, current |-> <<>>] /\ text \in TextLines
  BY DEF MonitorOK, PaneOK
<1>6. p = [ring |-> pane.ring, current |-> <<Command>>]
  <2>1. ~ Full(pane.current, DEBUG_LINE_LENGTH)
    BY PaneSizes DEF Full
  <2>2. p = [pane EXCEPT !.current = Append(@, Shown(Command))]
    BY <1>1, <2>1 DEF MonitorPut, Put, Command, CR, NL
  <2>3. Shown(Command) = Command /\ Append(<<>>, Command) = <<Command>>
    BY DEF Shown, Command, Bell
  <2>4. QED BY <1>5, <2>2, <2>3
<1>7. q = [ring |-> ring_add(pane.ring, MONITOR_LINE_CAPACITY, <<Command>>), current |-> <<>>]
  <2>1. q = Commit(p, MONITOR_LINE_CAPACITY)
    BY <1>1 DEF MonitorPut, Put, NL, CR
  <2>2. QED BY <1>6, <2>1 DEF Commit
<1>8. q = [pane EXCEPT !.ring = ring_add(@, MONITOR_LINE_CAPACITY, <<Command>>)]
  BY <1>5, <1>7
<1>9. s = text \o <<Command, NL>>
  <2>1. s = Append(Append(text, Command), NL)
    BY <1>1 DEF Given, Shown, Command, NL, CR, Bell
  <2>2. \A C : \A t \in Seq(C), c \in C, d \in C : Append(Append(t, c), d) = t \o <<c, d>>
    OBVIOUS
  <2>3. Command \in Characters /\ NL \in Characters
    BY <1>2, ShownIs DEF Shown, Command, NL, Bell
  <2>4. QED BY <1>5, <2>1, <2>2, <2>3 DEF TextLines
<1>10. QED BY <1>4, <1>8, <1>9


LEMMA EnterIs ==
  ASSUME MonitorOK(monitor, monitor_text), MonitorEnter
  PROVE  MonitorOK(monitor', monitor_text')
<1>1. PICK answer \in (IF monitor_input THEN Answers ELSE {<<>>}) :
        LET partial == monitor.current # <<>>
            asked == IF partial THEN Commit(monitor, MONITOR_LINE_CAPACITY) ELSE monitor
            repeated == IF monitor_input
                        THEN [asked EXCEPT !.ring =
                                ring_add(@, MONITOR_LINE_CAPACITY, <<Command>>)]
                        ELSE monitor
        IN  /\ monitor' = monitor_output(repeated, answer)
            /\ monitor_text' =
                 GivenAll(IF ~monitor_input THEN monitor_text
                          ELSE monitor_text \o (IF partial THEN <<NL>> ELSE <<>>)
                                 \o <<Command, NL>>, answer)
  BY DEF MonitorEnter
<1>2. answer \in Seq(Bytes)
  <2>1. answer \in Answers
    BY DEF Answers
  <2>2. Printable \in Bytes /\ CR \in Bytes /\ NL \in Bytes /\ Bell \in Bytes
    BY DEF Bytes
  <2>3. /\ \A a, b \in Bytes : <<a, b>> \in Seq(Bytes)
        /\ \A a, b, c \in Bytes : <<a, b, c>> \in Seq(Bytes)
        /\ \A a, b, c, d \in Bytes : <<a, b, c, d>> \in Seq(Bytes)
    OBVIOUS
  <2>4. /\ <<Printable, CR, NL>> \in Seq(Bytes)
        /\ <<Printable, NL, Bell, NL>> \in Seq(Bytes)
        /\ <<Printable, Bell, Printable, NL>> \in Seq(Bytes)
        /\ <<>> \in Seq(Bytes)
    <3>1. <<>> \in Seq(Bytes)
      OBVIOUS
    <3>2. QED BY ONLY <2>2, <2>3, <3>1, Zenon
  <2>5. QED BY ONLY <2>1, <2>4, Zenon DEF Answers
<1>3. CASE ~monitor_input
  <2>1. /\ monitor' = monitor_output(monitor, answer)
        /\ monitor_text' = GivenAll(monitor_text, answer)
    BY <1>1, <1>3
  <2>2. QED BY <1>2, <2>1, OutputIs
<1>4. CASE monitor_input
  <2>1. PICK asked, text :
          /\ asked = IF monitor.current # <<>> THEN Commit(monitor, MONITOR_LINE_CAPACITY)
                     ELSE monitor
          /\ text = monitor_text \o (IF monitor.current # <<>> THEN <<NL>> ELSE <<>>)
    OBVIOUS
  <2>2. /\ monitor' = monitor_output([asked EXCEPT !.ring =
                                        ring_add(@, MONITOR_LINE_CAPACITY, <<Command>>)], answer)
        /\ monitor_text' = GivenAll(text \o <<Command, NL>>, answer)
    BY <1>1, <1>4, <2>1
  <2>3. MonitorOK(asked, text) /\ asked.current = <<>>
    <3>1. monitor_text \in TextLines
      BY DEF MonitorOK, PaneOK
    <3>2. CASE monitor.current # <<>>
      <4>1. asked = MonitorPut(monitor, NL) /\ asked.current = <<>>
        BY <2>1, <3>2 DEF MonitorPut, Put, NL, CR, Commit
      <4>2. Given(monitor_text, NL) = Append(monitor_text, NL) /\ NL \in Bytes
        BY DEF Given, Shown, NL, CR, Bell, Bytes
      <4>3. text = Append(monitor_text, NL)
        <5>1. \A C : \A t \in Seq(C), c \in C : Append(t, c) = t \o <<c>>
          OBVIOUS
        <5>2. NL \in Characters
          BY <4>2, ShownIs DEF Shown, NL, Bell
        <5>3. QED BY <2>1, <3>1, <3>2, <5>1, <5>2 DEF TextLines
      <4>4. MonitorOK(MonitorPut(monitor, NL), Given(monitor_text, NL))
        BY <4>2, PutIs, PaneSizes DEF MonitorOK, MonitorPut
      <4>5. QED BY <4>1, <4>2, <4>3, <4>4
    <3>3. CASE monitor.current = <<>>
      <4>1. \A C : \A t \in Seq(C) : t \o <<>> = t
        OBVIOUS
      <4>2. asked = monitor /\ text = monitor_text
        BY <2>1, <3>1, <3>3, <4>1 DEF TextLines
      <4>3. QED BY <3>3, <4>2
    <3>4. QED BY <3>2, <3>3
  <2>4. MonitorOK([asked EXCEPT !.ring = ring_add(@, MONITOR_LINE_CAPACITY, <<Command>>)],
                  text \o <<Command, NL>>)
    BY <2>3, RepeatedIs
  <2>5. QED BY <1>2, <2>2, <2>4, OutputIs
<1>5. QED BY <1>3, <1>4

LEMMA GreetingIs ==
  ASSUME NEW pane, NEW text, MonitorOK(pane, text)
  PROVE  MonitorOK(monitor_output(pane, <<Printable, NL>>), GivenAll(text, <<Printable, NL>>))
<1>1. <<Printable, NL>> \in Seq(Bytes)
  BY DEF Bytes
<1>2. QED BY <1>1, OutputIs

LEMMA CountIs ==
  ASSUME MonitorOK(monitor, monitor_text)
  PROVE  monitor.ring.count \in 0 .. MONITOR_LINE_CAPACITY
BY DEF MonitorOK, PaneOK, RingOK

LEMMA PanesStart == PanesInit => PanesInv
<1> SUFFICES ASSUME PanesInit PROVE PanesInv
  OBVIOUS
<1>1. UartOK(uart, uart_text)
  BY NewPane, PaneSizes DEF PanesInit, UartOK
<1>2. MonitorOK(Pane(MONITOR_LINE_CAPACITY), <<>>)
  BY NewPane, PaneSizes DEF MonitorOK
<1>3. MonitorOK(monitor, GivenAll(<<>>, <<Printable, NL>>))
  BY <1>2, GreetingIs DEF PanesInit
<1>4. GivenAll(<<>>, <<Printable, NL>>) = <<Printable, NL>>
  <2>1. PICK bytes : bytes = <<Printable, NL>>
    OBVIOUS
  <2>2. Len(bytes) = 2 /\ bytes[1] = Printable /\ bytes[2] = NL
    BY <2>1
  <2>3. PICK run : /\ run[0] = <<>>
                   /\ \A i \in 1 .. 2 : run[i] = Given(run[i - 1], bytes[i])
                   /\ GivenAll(<<>>, bytes) = run[2]
    <3>1. PICK run : /\ run[0] = <<>>
                     /\ \A i \in 1 .. Len(bytes) : run[i] = Given(run[i - 1], bytes[i])
                     /\ GivenAll(<<>>, bytes) = run[Len(bytes)]
      <4>1. PICK text : text = <<>>
        OBVIOUS
      <4>2. Len(bytes) \in Nat
        BY <2>2
      <4>3. PICK run : /\ run[0] = text
                       /\ \A i \in 1 .. Len(bytes) : run[i] = Given(run[i - 1], bytes[i])
                       /\ GivenAll(text, bytes) = run[Len(bytes)]
        BY ONLY <4>2, GivenRun
      <4>4. QED BY ONLY <4>1, <4>3, Zenon
    <3>2. QED BY ONLY <2>2, <3>1, Zenon
  <2>4. run[1] = Given(run[0], bytes[1]) /\ run[2] = Given(run[1], bytes[2])
    BY <2>3
  <2>5. run[2] = Given(Given(<<>>, Printable), NL)
    BY <2>2, <2>3, <2>4
  <2>6. Given(Given(<<>>, Printable), NL) = <<Printable, NL>>
    <3>1. Given(Given(<<>>, Printable), NL) = Append(Append(<<>>, Printable), NL)
      BY Zenon DEF Given, Shown, Printable, NL, CR, Bell
    <3>2. \A C : \A c \in C, d \in C : Append(Append(<<>>, c), d) = <<c, d>>
      <4>1. ASSUME NEW C, NEW c \in C
            PROVE  Append(<<>>, c) = <<c>>
        <5>1. PICK t, e, u : t = <<>> /\ e = Append(t, c) /\ u = <<c>>
          OBVIOUS
        <5>2. t \in Seq(C) /\ Len(t) = 0 /\ u \in Seq(C) /\ Len(u) = 1 /\ u[1] = c
          BY <5>1
        <5>3. e \in Seq(C) /\ Len(e) = 1 /\ e[1] = c
          BY <5>1, <5>2
        <5>4. e = u
          BY <5>2, <5>3, SeqEqual
        <5>5. QED BY <5>1, <5>4
      <4>2. ASSUME NEW C, NEW c \in C, NEW d \in C
            PROVE  Append(<<c>>, d) = <<c, d>>
        <5>1. PICK t, e, u : t = <<c>> /\ e = Append(t, d) /\ u = <<c, d>>
          OBVIOUS
        <5>2. /\ t \in Seq(C) /\ Len(t) = 1 /\ t[1] = c
              /\ u \in Seq(C) /\ Len(u) = 2 /\ u[1] = c /\ u[2] = d
          BY <5>1
        <5>3. e \in Seq(C) /\ Len(e) = 2 /\ e[1] = c /\ e[2] = d
          BY <5>1, <5>2
        <5>4. e = u
          BY <5>2, <5>3, SeqEqual
        <5>5. QED BY <5>1, <5>4
      <4>3. QED BY ONLY <4>1, <4>2, Zenon
    <3>3. Printable \in {Printable, NL} /\ NL \in {Printable, NL}
      OBVIOUS
    <3>4. QED BY ONLY <3>1, <3>2, <3>3, Zenon
  <2>7. QED BY <2>1, <2>3, <2>5, <2>6
<1>5. ScrollOK
  <2>1. monitor_focus \in BOOLEAN /\ monitor_input \in BOOLEAN /\ ~monitor_focus /\ ~monitor_input
    BY DEF PanesInit
  <2>2. rows \in ROWS /\ monitor_scroll \in 0 .. MONITOR_LINE_CAPACITY
    BY PaneSizes DEF PanesInit
  <2>3. QED BY <2>1, <2>2 DEF ScrollOK
<1>6. QED BY <1>1, <1>3, <1>4, <1>5 DEF PanesInit, PanesInv

LEMMA PanesStep == PanesInv /\ [PanesNext]_panes_vars => PanesInv'
<1> SUFFICES ASSUME PanesInv, [PanesNext]_panes_vars PROVE PanesInv'
  OBVIOUS
<1>1. UartOK(uart, uart_text) /\ MonitorOK(monitor, monitor_text) /\ ScrollOK
  BY DEF PanesInv
<1>2. monitor.ring.count \in 0 .. MONITOR_LINE_CAPACITY
  BY <1>1, CountIs
<1>3. MonitorMaximum \in 0 .. MONITOR_LINE_CAPACITY
  BY <1>1, <1>2, PaneSizes DEF MonitorMaximum, monitor_visible_line_count, ScrollOK
<1>4. ASSUME UNCHANGED <<monitor, monitor_focus, monitor_input, monitor_scroll, rows>>
      PROVE  ScrollOK'
  BY <1>1, <1>4 DEF ScrollOK, MonitorShown, MonitorMaximum, monitor_visible_line_count
<1>5. CASE \E byte \in {Printable, Bell, NL, CR} : debugger_uart_tx(byte)
  <2>1. PICK byte \in {Printable, Bell, NL, CR} : debugger_uart_tx(byte)
    BY <1>5
  <2>2. byte \in Bytes
    BY DEF Bytes
  <2>3. UartOK(Put(uart, UART_LINE_CAPACITY, UART_LINE_LENGTH, byte), Given(uart_text, byte))
    BY <1>1, <2>2, PutIs, PaneSizes DEF UartOK
  <2>4. UartOK(uart', uart_text')
    BY <2>1, <2>3 DEF debugger_uart_tx
  <2>5. QED BY <1>1, <1>4, <2>1, <2>4 DEF debugger_uart_tx, PanesInv, UartOK, MonitorOK
<1>6. CASE ClearUart
  <2>1. UartOK([ring |-> Cleared(uart.ring), current |-> <<>>], <<>>)
    BY <1>1, ClearedPane, PaneSizes DEF UartOK
  <2>2. UartOK(uart', uart_text')
    BY <1>6, <2>1 DEF ClearUart
  <2>3. QED BY <1>1, <1>4, <1>6, <2>2 DEF ClearUart, PanesInv, UartOK, MonitorOK
<1>7. ASSUME UNCHANGED <<uart, uart_text>>, MonitorOK(monitor', monitor_text'), ScrollOK'
      PROVE  PanesInv'
  BY <1>1, <1>7 DEF PanesInv, UartOK, MonitorOK
<1>8. ASSUME UNCHANGED <<uart, uart_text, monitor, monitor_text>>, ScrollOK'
      PROVE  PanesInv'
  BY <1>1, <1>8 DEF PanesInv, UartOK, MonitorOK
<1>20. ASSUME monitor_focus' \in BOOLEAN, monitor_input' \in BOOLEAN, rows' \in ROWS,
              monitor_scroll' \in 0 .. MONITOR_LINE_CAPACITY, monitor_input' => monitor_focus',
              monitor_focus' /\ MonitorShown' => monitor_scroll' <= MonitorMaximum'
       PROVE  ScrollOK'
  BY <1>20 DEF ScrollOK
<1>21. 0 \in 0 .. MONITOR_LINE_CAPACITY
  BY PaneSizes
<1>22. rows \in ROWS /\ monitor_focus \in BOOLEAN /\ monitor_input \in BOOLEAN
  BY <1>1 DEF ScrollOK
<1>9. CASE MonitorChar
  <2>1. ScrollOK'
    BY <1>1, <1>9 DEF MonitorChar, ScrollOK, MonitorShown, MonitorMaximum,
                      monitor_visible_line_count
  <2>2. QED BY <1>8, <1>9, <2>1 DEF MonitorChar
<1>10. CASE MonitorEnter
  <2>1. MonitorOK(monitor', monitor_text')
    BY <1>1, <1>10, EnterIs
  <2>2. monitor'.ring.count \in 0 .. MONITOR_LINE_CAPACITY
    BY <2>1 DEF MonitorOK, PaneOK, RingOK
  <2>3. MonitorMaximum' \in Nat
    <3>1. rows' \in Nat
      BY <1>10, <1>22, PaneSizes DEF MonitorEnter
    <3>2. QED BY <2>2, <3>1, PaneSizes DEF MonitorMaximum, monitor_visible_line_count
  <2>4. ScrollOK'
    <3>1. monitor_focus' \in BOOLEAN /\ monitor_input' \in BOOLEAN /\ ~monitor_input'
      BY <1>10, <1>22 DEF MonitorEnter
    <3>2. rows' \in ROWS /\ monitor_scroll' = 0
      BY <1>10, <1>22 DEF MonitorEnter
    <3>3. monitor_scroll' <= MonitorMaximum'
      BY <2>3, <3>2
    <3>4. QED BY <1>20, <1>21, <3>1, <3>2, <3>3
  <2>5. QED BY <1>7, <1>10, <2>1, <2>4 DEF MonitorEnter
<1>11. CASE \E amount \in {1, PAGE} : MonitorUp(amount) \/ MonitorDown(amount)
  <2>1. PICK amount \in {1, PAGE} : MonitorUp(amount) \/ MonitorDown(amount)
    BY <1>11
  <2>2. amount \in Nat \ {0}
    BY PaneSizes
  <2>3. /\ UNCHANGED <<uart, uart_text, monitor, monitor_text, rows, monitor_focus, monitor_input>>
        /\ monitor_focus /\ MonitorShown
    BY <2>1 DEF MonitorUp, MonitorDown
  <2>4. MonitorMaximum' = MonitorMaximum
    BY <2>3 DEF MonitorMaximum, monitor_visible_line_count
  <2>5. monitor_scroll \in 0 .. MONITOR_LINE_CAPACITY /\ monitor_scroll <= MonitorMaximum
    BY <1>1, <2>3 DEF ScrollOK
  <2>6. monitor_scroll' \in 0 .. MONITOR_LINE_CAPACITY /\ monitor_scroll' <= MonitorMaximum
    <3>1. PICK cap \in Nat, maximum \in Nat, scroll \in Nat, by \in Nat :
            /\ maximum <= cap /\ cap = MONITOR_LINE_CAPACITY /\ maximum = MonitorMaximum
            /\ scroll = monitor_scroll /\ by = amount /\ scroll <= maximum
      BY <1>3, <2>2, <2>5, PaneSizes
    <3>2. \/ monitor_scroll' = IF scroll + by > maximum THEN maximum ELSE scroll + by
          \/ monitor_scroll' = IF scroll > by THEN scroll - by ELSE 0
      BY <2>1, <3>1 DEF MonitorUp, MonitorDown
    <3>3. monitor_scroll' \in 0 .. cap /\ monitor_scroll' <= maximum
      BY <3>1, <3>2
    <3>4. QED BY <3>1, <3>3
  <2>7. ScrollOK'
    BY <1>1, <2>3, <2>4, <2>6 DEF ScrollOK
  <2>8. QED BY <1>8, <2>3, <2>7
<1>12. CASE MonitorOpen
  <2>1. MonitorMaximum' = MonitorMaximum
    BY <1>12 DEF MonitorOpen, MonitorMaximum, monitor_visible_line_count
  <2>2. ScrollOK'
    <3>1. monitor_focus' \in BOOLEAN /\ monitor_input' \in BOOLEAN /\ ~monitor_input'
      BY <1>12 DEF MonitorOpen
    <3>2. rows' \in ROWS /\ monitor_scroll' = 0
      BY <1>12, <1>22 DEF MonitorOpen
    <3>3. monitor_scroll' <= MonitorMaximum'
      BY <1>3, <2>1, <3>2, PaneSizes
    <3>4. QED BY <1>20, <1>21, <3>1, <3>2, <3>3
  <2>3. QED BY <1>8, <1>12, <2>2 DEF MonitorOpen
<1>13. CASE MonitorClose
  BY <1>1, <1>8, <1>13 DEF MonitorClose, ScrollOK
<1>14. CASE \E height \in ROWS : Resize(height)
  <2>1. PICK height \in ROWS : Resize(height)
    BY <1>14
  <2>2. height \in Nat /\ rows' = height
    BY <2>1, PaneSizes DEF Resize
  <2>3. UNCHANGED <<uart, uart_text, monitor, monitor_text, monitor_focus>>
    BY <2>1 DEF Resize
  <2>4. MonitorShown' <=> height >= 6
    BY <2>2 DEF MonitorShown
  <2>5. MonitorMaximum' = (IF monitor.ring.count > (IF height > 5 THEN height - 5 ELSE 0)
                           THEN monitor.ring.count - (IF height > 5 THEN height - 5 ELSE 0)
                           ELSE 0)
    BY <2>2, <2>3 DEF MonitorMaximum, monitor_visible_line_count
  <2>6. MonitorMaximum' \in 0 .. MONITOR_LINE_CAPACITY
    <3>1. PICK cap \in Nat, count \in Nat, tall \in Nat :
            /\ count <= cap /\ cap = MONITOR_LINE_CAPACITY
            /\ count = monitor.ring.count /\ tall = height
      BY <1>2, <2>2, PaneSizes
    <3>2. MonitorMaximum' = (IF count > (IF tall > 5 THEN tall - 5 ELSE 0)
                             THEN count - (IF tall > 5 THEN tall - 5 ELSE 0) ELSE 0)
      BY <2>5, <3>1
    <3>3. QED BY <3>1, <3>2
  <2>7. CASE monitor_focus /\ height >= 6
    <3>1. /\ monitor_scroll' = IF monitor_scroll > MonitorMaximum' THEN MonitorMaximum'
                               ELSE monitor_scroll
          /\ UNCHANGED monitor_input
      BY <2>1, <2>5, <2>7 DEF Resize
    <3>2. monitor_scroll' \in 0 .. MONITOR_LINE_CAPACITY /\ monitor_scroll' <= MonitorMaximum'
      BY <1>1, <2>6, <3>1 DEF ScrollOK
    <3>3. ScrollOK'
      BY <1>1, <2>2, <2>3, <3>1, <3>2 DEF ScrollOK
    <3>4. QED BY <1>8, <2>3, <3>3
  <2>8. CASE ~ (monitor_focus /\ height >= 6)
    <3>1. monitor_input' = (monitor_input /\ ~monitor_focus) /\ UNCHANGED monitor_scroll
      BY <2>1, <2>8 DEF Resize
    <3>2. ScrollOK'
      BY <1>1, <2>2, <2>3, <2>4, <2>8, <3>1 DEF ScrollOK
    <3>3. QED BY <1>8, <2>3, <3>2
  <2>9. QED BY <2>7, <2>8
<1>15. CASE MonitorReset
  <2>1. MonitorOK(monitor', monitor_text')
    BY <1>1, <1>15, GreetingIs DEF MonitorReset
  <2>2. ScrollOK'
    <3>1. /\ monitor_focus' \in BOOLEAN /\ monitor_input' \in BOOLEAN
          /\ ~monitor_input' /\ ~monitor_focus'
      BY <1>15 DEF MonitorReset
    <3>2. rows' \in ROWS /\ monitor_scroll' = 0
      BY <1>15, <1>22 DEF MonitorReset
    <3>3. QED BY <1>20, <1>21, <3>1, <3>2
  <2>3. QED BY <1>7, <1>15, <2>1, <2>2 DEF MonitorReset
<1>16. CASE UNCHANGED panes_vars
  BY <1>4, <1>8, <1>16 DEF panes_vars
<1>17. QED BY <1>5, <1>6, <1>9, <1>10, <1>11, <1>12, <1>13, <1>14, <1>15, <1>16 DEF PanesNext


(* The rows of the UART's window.                                           *)
LEMMA UartWindow ==
  ASSUME UartOK(uart, uart_text)
  PROVE  UartWindowExact
<1> SUFFICES ASSUME NEW visible \in 1 .. UART_LINE_CAPACITY + 1
             PROVE  draw_uart(visible)
                      = Tail_n(Contents(uart.ring, UART_LINE_CAPACITY)
                                 \o (IF uart.current # <<>> THEN <<uart.current>> ELSE <<>>),
                               visible)
  BY DEF UartWindowExact
<1>1. PICK n, r, g : n = UART_LINE_CAPACITY /\ r = uart.ring /\ g = uart.current
  OBVIOUS
<1>2. n \in Nat \ {0} /\ RingOK(r, n, TextLines) /\ g \in TextLines
  <2>1. n \in Nat \ {0} /\ RingOK(r, n, TextLines)
    BY <1>1, PaneSizes DEF UartOK, PaneOK
  <2>2. PICK w : w = UART_LINE_LENGTH - 1
    OBVIOUS
  <2>3. w \in Nat \ {0} /\ uart_text \in TextLines /\ g = Growing(uart_text, w)
    BY <1>1, <2>2, PaneSizes DEF UartOK, PaneOK
  <2>4. g \in TextLines
    BY <2>3, GrowingIs DEF TextLines
  <2>5. QED BY <2>1, <2>4
<1>3. PICK C : C = Contents(r, n)
  OBVIOUS
<1>4. C \in Seq(TextLines) /\ Len(C) = r.count /\ r.count \in 0 .. n
  BY <1>2, <1>3, ContentsIs DEF RingOK
<1>5. PICK c \in Nat, v \in Nat : c = r.count /\ v = visible /\ c <= n /\ v >= 1
  BY <1>2, <1>4
<1>6. ASSUME NEW k \in 0 .. c
      PROVE  /\ [i \in 1 .. k |->
                   r.lines[(((r.head + n - r.count) % n) + (r.count - k) + i - 1) % n]]
                  = Tail_n(C, k)
             /\ Tail_n(C, k) \in Seq(TextLines) /\ Len(Tail_n(C, k)) = k
             /\ \A i \in 1 .. k : Tail_n(C, k)[i] = C[i + c - k]
  <2>1. draw_ring(r, n, k, 0) = Tail_n(Without_n(C, 0), k)
    BY <1>2, <1>3, <1>4, <1>5, DrawnIs
  <2>2. Without_n(C, 0) = C
    BY <1>4 DEF Without_n
  <2>3. PICK end, start : /\ end = (IF r.count > 0 THEN r.count - 0 ELSE 0)
                          /\ start = (IF end > k THEN end - k ELSE 0)
    OBVIOUS
  <2>4. end = r.count /\ start = r.count - k /\ end - start = k
    BY <1>5, <2>3
  <2>5. draw_ring(r, n, k, 0)
          = [i \in 1 .. end - start |-> r.lines[(((r.head + n - r.count) % n) + start + i - 1) % n]]
    BY <2>3 DEF draw_ring
  <2>6. /\ Tail_n(C, k) \in Seq(TextLines)
        /\ Len(Tail_n(C, k)) = IF Len(C) <= k THEN Len(C) ELSE k
        /\ \A i \in 1 .. Len(Tail_n(C, k)) : Tail_n(C, k)[i] = C[i + Len(C) - Len(Tail_n(C, k))]
    <3>1. C \in Seq(TextLines) /\ k \in Nat
      BY <1>4
    <3>2. QED BY ONLY <3>1, TailIs
  <2>7. Len(Tail_n(C, k)) = k
    BY <1>4, <1>5, <2>6
  <2>8. QED BY <1>4, <1>5, <2>1, <2>2, <2>4, <2>5, <2>6, <2>7
<1>7. CASE g # <<>>
  <2>1. PICK k : k = (IF c >= v THEN v - 1 ELSE c)
    OBVIOUS
  <2>2. k \in 0 .. c /\ k + 1 = (IF c + 1 <= v THEN c + 1 ELSE v)
    BY <1>5, <2>1
  <2>3. PICK t : t = Tail_n(C, k)
    OBVIOUS
  <2>4. draw_uart(visible) = t \o <<g>>
    <3>1. (IF g # <<>> /\ r.count >= visible THEN visible - 1
           ELSE IF r.count > visible THEN visible ELSE r.count) = k
      BY <1>5, <1>7, <2>1
    <3>2. draw_uart(visible)
            = [i \in 1 .. k |->
                 r.lines[(((r.head + n - r.count) % n) + (r.count - k) + i - 1) % n]]
              \o (IF g # <<>> THEN <<g>> ELSE <<>>)
      BY <1>1, <3>1 DEF draw_uart
    <3>3. QED BY <1>6, <1>7, <2>2, <2>3, <3>2
  <2>5. PICK all : all = C \o <<g>>
    OBVIOUS
  <2>6. /\ all \in Seq(TextLines) /\ Len(all) = c + 1
        /\ all[c + 1] = g
        /\ \A i \in 1 .. c : all[i] = C[i]
    BY <1>2, <1>4, <1>5, <2>5
  <2>7. /\ t \in Seq(TextLines) /\ Len(t) = k
        /\ \A i \in 1 .. k : t[i] = C[i + c - k]
    BY <1>6, <2>2, <2>3
  <2>8. PICK shown : shown = t \o <<g>>
    OBVIOUS
  <2>9. /\ shown \in Seq(TextLines) /\ Len(shown) = k + 1
        /\ shown[k + 1] = g
        /\ \A i \in 1 .. k : shown[i] = t[i]
    <3>1. \A D : \A s \in Seq(D), d \in D :
            /\ s \o <<d>> \in Seq(D) /\ Len(s \o <<d>>) = Len(s) + 1
            /\ (s \o <<d>>)[Len(s) + 1] = d
            /\ \A i \in 1 .. Len(s) : (s \o <<d>>)[i] = s[i]
      OBVIOUS
    <3>2. /\ shown \in Seq(TextLines) /\ Len(shown) = Len(t) + 1
          /\ shown[Len(t) + 1] = g
          /\ \A i \in 1 .. Len(t) : shown[i] = t[i]
      BY ONLY <1>2, <2>7, <2>8, <3>1
    <3>3. QED BY ONLY <2>7, <3>2
  <2>10. PICK want : want = Tail_n(all, v)
    OBVIOUS
  <2>11. /\ want \in Seq(TextLines) /\ Len(want) = k + 1
         /\ \A i \in 1 .. k + 1 : want[i] = all[i + (c + 1) - (k + 1)]
    <3>1. /\ Tail_n(all, v) \in Seq(TextLines)
          /\ Len(Tail_n(all, v)) = IF Len(all) <= v THEN Len(all) ELSE v
          /\ \A i \in 1 .. Len(Tail_n(all, v)) :
               Tail_n(all, v)[i] = all[i + Len(all) - Len(Tail_n(all, v))]
      BY <1>5, <2>6, TailIs
    <3>2. Len(want) = k + 1
      BY <2>2, <2>6, <2>10, <3>1
    <3>3. QED BY <2>6, <2>10, <3>1, <3>2
  <2>12. ASSUME NEW i \in 1 .. k + 1
         PROVE  shown[i] = want[i]
    <3>1. CASE i = k + 1
      <4>1. i + (c + 1) - (k + 1) = c + 1
        BY <2>2, <3>1
      <4>2. QED BY <2>6, <2>9, <2>11, <3>1, <4>1
    <3>2. CASE i # k + 1
      <4>1. PICK j : j = i + c - k
        OBVIOUS
      <4>2. i \in 1 .. k /\ j \in 1 .. c /\ i + (c + 1) - (k + 1) = j
        BY <2>2, <3>2, <4>1
      <4>3. shown[i] = C[j]
        BY <2>7, <2>9, <4>1, <4>2
      <4>4. want[i] = C[j]
        BY <2>6, <2>11, <4>2
      <4>5. QED BY <4>3, <4>4
    <3>3. QED BY <3>1, <3>2
  <2>13. shown = want
    BY <2>2, <2>9, <2>11, <2>12, SeqEqual
  <2>14. QED BY <1>1, <1>3, <1>5, <1>7, <2>4, <2>5, <2>8, <2>10, <2>13
<1>8. CASE g = <<>>
  <2>1. PICK k : k = (IF c > v THEN v ELSE c)
    OBVIOUS
  <2>2. k \in 0 .. c
    BY <1>5, <2>1
  <2>3. \A D : \A s \in Seq(D) : s \o <<>> = s
    OBVIOUS
  <2>4. draw_uart(visible) = Tail_n(C, k)
    <3>1. (IF g # <<>> /\ r.count >= visible THEN visible - 1
           ELSE IF r.count > visible THEN visible ELSE r.count) = k
      BY <1>5, <1>8, <2>1
    <3>2. draw_uart(visible)
            = [i \in 1 .. k |->
                 r.lines[(((r.head + n - r.count) % n) + (r.count - k) + i - 1) % n]]
              \o (IF g # <<>> THEN <<g>> ELSE <<>>)
      BY <1>1, <3>1 DEF draw_uart
    <3>3. QED BY <1>6, <1>8, <2>2, <2>3, <3>2
  <2>5. Tail_n(C, k) = Tail_n(C, v)
    BY <1>4, <1>5, <2>1 DEF Tail_n
  <2>6. C \o <<>> = C
    BY <1>4, <2>3
  <2>7. QED BY <1>1, <1>3, <1>5, <1>8, <2>4, <2>5, <2>6
<1>9. QED BY <1>7, <1>8

(* The rows of the monitor's window.                                        *)
LEMMA MonitorWindow ==
  ASSUME MonitorOK(monitor, monitor_text), ScrollOK
  PROVE  MonitorWindowExact
<1> SUFFICES ASSUME monitor_focus, MonitorShown
             PROVE  Len(draw_ring(monitor.ring, MONITOR_LINE_CAPACITY,
                                  monitor_visible_line_count, monitor_scroll))
                      = Min({monitor.ring.count, monitor_visible_line_count})
  BY DEF MonitorWindowExact
<1>1. PICK c \in Nat, v \in Nat, scroll \in Nat :
        /\ c = monitor.ring.count /\ v = monitor_visible_line_count /\ scroll = monitor_scroll
        /\ scroll <= (IF c > v THEN c - v ELSE 0)
  <2>1. monitor.ring.count \in Nat
    BY CountIs
  <2>2. rows \in Nat /\ monitor_scroll \in Nat /\ monitor_scroll <= MonitorMaximum
    BY PaneSizes DEF ScrollOK
  <2>3. monitor_visible_line_count \in Nat
    BY <2>2 DEF monitor_visible_line_count
  <2>4. QED BY <2>1, <2>2, <2>3 DEF MonitorMaximum
<1>2. RingOK(monitor.ring, MONITOR_LINE_CAPACITY, TextLines)
  BY DEF MonitorOK, PaneOK
<1>3. scroll <= c
  BY <1>1
<1>4. Len(draw_ring(monitor.ring, MONITOR_LINE_CAPACITY, v, scroll))
        = IF c - scroll > v THEN v ELSE c - scroll
  <2>1. PICK r : r = monitor.ring
    OBVIOUS
  <2>2. PICK n \in Nat \ {0} : n = MONITOR_LINE_CAPACITY
    BY PaneSizes
  <2>3. r.count = c /\ RingOK(r, n, TextLines) /\ scroll <= r.count
    BY <1>1, <1>2, <1>3, <2>1, <2>2
  <2>4. Len(draw_ring(r, n, v, scroll)) = IF r.count - scroll > v THEN v ELSE r.count - scroll
    <3>1. n \in Nat \ {0} /\ v \in Nat /\ scroll \in Nat
      OBVIOUS
    <3>2. /\ draw_ring(r, n, v, scroll) = Tail_n(Without_n(Contents(r, n), scroll), v)
          /\ Len(draw_ring(r, n, v, scroll))
               = IF r.count - scroll > v THEN v ELSE r.count - scroll
          /\ draw_ring(r, n, v, scroll) \in Seq(TextLines)
      BY ONLY <2>3, <3>1, DrawnIs
    <3>3. QED BY ONLY <3>2
  <2>5. QED BY <2>1, <2>2, <2>3, <2>4
<1>5. (IF c - scroll > v THEN v ELSE c - scroll) = (IF c > v THEN v ELSE c)
  BY <1>1
<1>6. Min({c, v}) = (IF c > v THEN v ELSE c)
  <2>1. PICK S : S = {c, v}
    OBVIOUS
  <2>2. PICK m : m = (IF c > v THEN v ELSE c)
    OBVIOUS
  <2>3. S \in SUBSET Int /\ m \in S /\ \A k \in S : m =< k
    BY <1>1, <2>1, <2>2
  <2>4. QED BY <2>1, <2>2, <2>3, MinIs
<1>7. QED BY <1>1, <1>4, <1>5, <1>6

LEMMA PanesInvIsSafe == PanesInv => PanesSafe
<1> SUFFICES ASSUME PanesInv PROVE PanesSafe
  OBVIOUS
<1>1. UartOK(uart, uart_text) /\ MonitorOK(monitor, monitor_text) /\ ScrollOK
  BY DEF PanesInv
<1>2. PanesTypeOK
  BY <1>1, CountIs DEF PanesTypeOK, ScrollOK, UartOK, PaneOK, RingOK
<1>3. /\ PaneExact(uart, UART_LINE_CAPACITY, UART_LINE_LENGTH, uart_text)
      /\ PaneExact(monitor, MONITOR_LINE_CAPACITY, DEBUG_LINE_LENGTH, monitor_text)
  BY <1>1, PaneIsExact DEF UartOK, MonitorOK
<1>4. UartWindowExact /\ MonitorWindowExact
  BY <1>1, UartWindow, MonitorWindow
<1>5. QED BY <1>2, <1>3, <1>4 DEF PanesSafe

(* In every state both panes hold exactly what was written to them, cut     *)
(* into lines, and show the part of it that they should                     *)
(* (debugger.c, debugger_uart_tx(), monitor_output(), draw_uart()).         *)
THEOREM PanesIsSafe == PanesSpec => []PanesSafe
<1>1. PanesInit => PanesInv
  BY PanesStart
<1>2. PanesInv /\ [PanesNext]_panes_vars => PanesInv'
  BY PanesStep
<1>3. PanesInv => PanesSafe
  BY PanesInvIsSafe
<1>4. QED BY <1>1, <1>2, <1>3, PTL DEF PanesSpec

-----------------------------------------------------------------------------
(* The life of a hosted program.  What it holds is told by where it is.     *)

Display == {"sdl", "surface", "window", "renderer", "texture"}
Terminal == {"curses", "raw"}
SettledPlaces == {"options", "memory"}
BootPlaces == {"clear", "open", "read", "patch", "enter"}
SetUpPlaces == {"handlers", "trace", "terminal", "modes", "observe"}
WayOut == {"leave", "shutdown", "free", "ended"}
LivePlaces == SettledPlaces \union BootPlaces \union SetUpPlaces \union {"begin", "window", "run"}

(* Nothing held lacks what it needs, thing by thing.                        *)
Closed(h) ==
  /\ "curses" \in h \/ "raw" \in h => {"SIGINT", "SIGTERM", "SIGPIPE", "debugger"} \subseteq h
  /\ "SIGPIPE" \in h => "SIGTERM" \in h
  /\ "SIGTERM" \in h => "SIGINT" \in h
  /\ "SIGINT" \in h \/ "trace" \in h \/ "observer" \in h => "debugger" \in h
  /\ "debugger" \in h => "memory" \in h
  /\ "service" \in h => "texture" \in h /\ "surface" \in h /\ "debugger" \in h
  /\ "texture" \in h => "renderer" \in h
  /\ "renderer" \in h => "window" \in h
  /\ "window" \in h => "sdl" \in h

(* The terminal is taken as the options ask for it.                         *)
TerminalTaken ==
  /\ wants.tui => "curses" \in held
  /\ wants.tty => "curses" \in held \/ "raw" \in held

SetUp ==
  /\ {"memory", "debugger", "observer", "SIGINT", "SIGTERM", "SIGPIPE"} \subseteq held
  /\ TerminalTaken

HeldOK ==
  /\ "image" \in held => at = "read"
  /\ at \in SettledPlaces => held = {} /\ ~caught
  /\ at \in BootPlaces =>
       /\ program = "emulator" /\ "memory" \in held
       /\ "debugger" \in held => SetUp /\ (wants.sdl => "service" \in held)
       /\ "debugger" \notin held => held \subseteq {"memory", "image"} /\ ~caught
  /\ at = "begin" => held = {"memory"} /\ ~caught
  /\ at \in SetUpPlaces =>
       /\ "debugger" \in held
       /\ held \intersect (Display \union {"observer", "service"}) = {}
  /\ at \in SetUpPlaces \ {"handlers"} => {"SIGINT", "SIGTERM", "SIGPIPE"} \subseteq held
  /\ at = "modes" => "curses" \in held
  /\ at = "observe" => TerminalTaken
  /\ at = "window" => "service" \notin held
  /\ at \in {"window", "run"} =>
       IF program = "player" THEN held \subseteq Display ELSE SetUp
  /\ at = "run" /\ program = "emulator" /\ wants.sdl => "service" \in held
  /\ at = "shutdown" => held \intersect (Display \union {"service"}) = {}
  /\ at = "free" => held \subseteq {"memory"}
  /\ at = "ended" => held = {}
  /\ at = "killed" => held = {}

MachineOK ==
  /\ at \in SetUpPlaces \union {"memory", "begin"} => program = "emulator"
  /\ at \in SetUpPlaces \union {"begin", "window", "run"} /\ program = "emulator"
       => machine = "ready"
  /\ at \in {"open", "read"} => image <= wants.images

ResultOK ==
  /\ at \in LivePlaces \union WayOut \union {"killed"}
  /\ at \in LivePlaces => result = "failure" /\ ~trouble
  /\ at \in WayOut => (result = "success" <=> ~trouble)
  /\ caught => signal_quit

SessionInv == SessionTypeOK /\ Closed(held) /\ HeldOK /\ MachineOK /\ ResultOK

LEMMA ThingsAre ==
  Things = {"memory", "image", "debugger", "trace", "curses", "raw", "observer", "service",
            "SIGINT", "SIGTERM", "SIGPIPE", "sdl", "surface", "window", "renderer", "texture"}
<1>1. Signals = {"SIGINT", "SIGTERM", "SIGPIPE"}
  BY DEF Signals, handled_signals
<1>2. {DisplayOrder[i] : i \in 1 .. 5} = Display
  BY DEF DisplayOrder, Display
<1>3. QED BY <1>1, <1>2 DEF Things, Display

LEMMA SignalsAre == Signals = {"SIGINT", "SIGTERM", "SIGPIPE"}
BY DEF Signals, handled_signals

LEMMA ClosedIs == Closed(held) => \A thing \in held : Needs(thing) \subseteq held
<1> SUFFICES ASSUME Closed(held), NEW thing \in held
             PROVE  Needs(thing) \subseteq held
  OBVIOUS
<1>1. CASE thing \in {"curses", "raw"}
  BY <1>1, SignalsAre DEF Needs, Closed
<1>2. CASE thing = "SIGTERM"
  BY <1>2 DEF Needs, Closed
<1>3. CASE thing = "SIGPIPE"
  BY <1>3 DEF Needs, Closed
<1>4. CASE thing \in {"SIGINT", "trace", "observer"}
  BY <1>4 DEF Needs, Closed
<1>5. CASE thing = "debugger"
  BY <1>5 DEF Needs, Closed
<1>6. CASE thing = "service"
  BY <1>6 DEF Needs, Closed
<1>7. CASE thing = "texture"
  BY <1>7 DEF Needs, Closed
<1>8. CASE thing = "renderer"
  BY <1>8 DEF Needs, Closed
<1>9. CASE thing = "window"
  BY <1>9 DEF Needs, Closed
<1>10. CASE thing \notin {"curses", "raw", "SIGTERM", "SIGPIPE", "SIGINT", "trace", "observer",
                          "debugger", "service", "texture", "renderer", "window"}
  BY <1>10 DEF Needs
<1>11. QED BY <1>1, <1>2, <1>3, <1>4, <1>5, <1>6, <1>7, <1>8, <1>9, <1>10

(* The first of an order that is held, or lacking.                          *)
Least(S) == CHOOSE k \in S : \A j \in S : k <= j

LEMMA LeastOf ==
  ASSUME NEW n \in Nat, NEW S \in SUBSET (1 .. n), S # {}
  PROVE  Least(S) \in S /\ \A j \in S : Least(S) <= j
<1>1. S \subseteq Nat
  OBVIOUS
<1>2. PICK least \in S : \A j \in S : ~ (<<j, least>> \in OpToRel(<, Nat))
  BY <1>1, NatLessThanWellFounded, WFMin
<1>3. \A j \in S : least <= j
  <2>1. ASSUME NEW j \in S, j < least PROVE FALSE
    BY <1>1, <1>2, <2>1 DEF OpToRel
  <2>2. QED BY <1>1, <2>1
<1>4. QED BY <1>3 DEF Least

LEMMA FirstHeldIs ==
  ASSUME NEW order, Len(order) \in Nat, HoldsAny(order)
  PROVE  \E i \in 1 .. Len(order) :
           /\ FirstHeld(order) = order[i] /\ order[i] \in held
           /\ \A j \in 1 .. i - 1 : order[j] \notin held
<1> DEFINE S == {i \in 1 .. Len(order) : order[i] \in held}
<1>1. S \in SUBSET (1 .. Len(order)) /\ S # {}
  BY DEF HoldsAny
<1>2. FirstHeld(order) = order[Least(S)]
  BY DEF FirstHeld, Least
<1>3. Least(S) \in S /\ \A j \in S : Least(S) <= j
  BY <1>1, LeastOf
<1>4. \A j \in 1 .. Least(S) - 1 : j \notin S
  BY <1>1, <1>3
<1>5. /\ order[Least(S)] \in held /\ Least(S) \in 1 .. Len(order)
      /\ \A j \in 1 .. Least(S) - 1 : order[j] \notin held
  <2>1. \A j \in 1 .. Least(S) - 1 : j \in 1 .. Len(order)
    BY <1>3
  <2>2. QED BY <1>3, <1>4, <2>1
<1> HIDE DEF S
<1>6. QED BY <1>2, <1>5

LEMMA FirstLackingIs ==
  ASSUME NEW order, Len(order) \in Nat, ~HoldsAll(order)
  PROVE  \E i \in 1 .. Len(order) :
           /\ FirstLacking(order) = order[i] /\ order[i] \notin held
           /\ \A j \in 1 .. i - 1 : order[j] \in held
<1> DEFINE S == {i \in 1 .. Len(order) : order[i] \notin held}
<1>1. S \in SUBSET (1 .. Len(order)) /\ S # {}
  BY DEF HoldsAll
<1>2. FirstLacking(order) = order[Least(S)]
  BY DEF FirstLacking, Least
<1>3. Least(S) \in S /\ \A j \in S : Least(S) <= j
  BY <1>1, LeastOf
<1>4. \A j \in 1 .. Least(S) - 1 : j \notin S
  BY <1>1, <1>3
<1>5. /\ order[Least(S)] \notin held /\ Least(S) \in 1 .. Len(order)
      /\ \A j \in 1 .. Least(S) - 1 : order[j] \in held
  <2>1. \A j \in 1 .. Least(S) - 1 : j \in 1 .. Len(order)
    BY <1>3
  <2>2. QED BY <1>3, <1>4, <2>1
<1> HIDE DEF S
<1>6. QED BY <1>2, <1>5

LEMMA NextSignal ==
  ASSUME ~HoldsAll(handled_signals)
  PROVE  LET s == FirstLacking(handled_signals)
         IN  \/ s = "SIGINT"
             \/ s = "SIGTERM" /\ "SIGINT" \in held
             \/ s = "SIGPIPE" /\ "SIGINT" \in held /\ "SIGTERM" \in held
<1>1. /\ Len(handled_signals) = 3
      /\ handled_signals[1] = "SIGINT" /\ handled_signals[2] = "SIGTERM"
      /\ handled_signals[3] = "SIGPIPE"
  BY DEF handled_signals
<1>2. PICK i \in 1 .. 3 :
         /\ FirstLacking(handled_signals) = handled_signals[i]
         /\ \A j \in 1 .. i - 1 : handled_signals[j] \in held
  BY <1>1, FirstLackingIs
<1>3. CASE i = 1
  BY <1>1, <1>2, <1>3
<1>4. CASE i = 2
  BY <1>1, <1>2, <1>4
<1>5. CASE i = 3
  BY <1>1, <1>2, <1>5
<1>6. QED BY <1>3, <1>4, <1>5

LEMMA NextOfDisplay ==
  ASSUME ~HoldsAll(DisplayOrder)
  PROVE  LET s == FirstLacking(DisplayOrder)
         IN  \/ s = "sdl"
             \/ s = "surface"
             \/ s = "window" /\ "sdl" \in held
             \/ s = "renderer" /\ "window" \in held
             \/ s = "texture" /\ "renderer" \in held
<1>1. /\ Len(DisplayOrder) = 5
      /\ DisplayOrder[1] = "sdl" /\ DisplayOrder[2] = "surface" /\ DisplayOrder[3] = "window"
      /\ DisplayOrder[4] = "renderer" /\ DisplayOrder[5] = "texture"
  BY DEF DisplayOrder
<1>2. PICK i \in 1 .. 5 :
         /\ FirstLacking(DisplayOrder) = DisplayOrder[i]
         /\ \A j \in 1 .. i - 1 : DisplayOrder[j] \in held
  BY <1>1, FirstLackingIs
<1>3. CASE i = 1
  BY <1>1, <1>2, <1>3
<1>4. CASE i = 2
  BY <1>1, <1>2, <1>4
<1>5. CASE i = 3
  BY <1>1, <1>2, <1>5
<1>6. CASE i = 4
  BY <1>1, <1>2, <1>6
<1>7. CASE i = 5
  BY <1>1, <1>2, <1>7
<1>8. QED BY <1>3, <1>4, <1>5, <1>6, <1>7

LEMMA AllOfThem ==
  /\ HoldsAll(handled_signals) => {"SIGINT", "SIGTERM", "SIGPIPE"} \subseteq held
  /\ HoldsAll(DisplayOrder) => Display \subseteq held
  /\ ~HoldsAny(DestroyOrder) => held \intersect (Display \union {"service"}) = {}
  /\ ~HoldsAny(ShutdownOrder) =>
       held \intersect {"observer", "curses", "raw", "trace", "SIGPIPE", "SIGTERM", "SIGINT",
                        "debugger"} = {}
<1>1. HoldsAll(handled_signals) => {"SIGINT", "SIGTERM", "SIGPIPE"} \subseteq held
  BY DEF HoldsAll, handled_signals
<1>2. HoldsAll(DisplayOrder) => Display \subseteq held
  BY DEF HoldsAll, DisplayOrder, Display
<1>3. ~HoldsAny(DestroyOrder) => held \intersect (Display \union {"service"}) = {}
  BY DEF HoldsAny, DestroyOrder, Display
<1>4. ~HoldsAny(ShutdownOrder) =>
       held \intersect {"observer", "curses", "raw", "trace", "SIGPIPE", "SIGTERM", "SIGINT",
                        "debugger"} = {}
  BY DEF HoldsAny, ShutdownOrder
<1>5. QED BY <1>1, <1>2, <1>3, <1>4

(* What goes first on the way out is needed by nothing that is still held.  *)
LEMMA NextDestroyed ==
  ASSUME HoldsAny(DestroyOrder), Closed(held)
  PROVE  LET thing == FirstHeld(DestroyOrder)
         IN  thing \in Display \union {"service"} /\ thing \in held /\ Closed(held \ {thing})
<1> DEFINE o == DestroyOrder
<1>1. /\ Len(o) = 6 /\ o[1] = "service" /\ o[2] = "texture" /\ o[3] = "renderer"
      /\ o[4] = "window" /\ o[5] = "surface" /\ o[6] = "sdl"
  BY DEF DestroyOrder
<1>2. PICK i \in 1 .. 6 :
         /\ FirstHeld(o) = o[i] /\ o[i] \in held /\ \A j \in 1 .. i - 1 : o[j] \notin held
  BY <1>1, FirstHeldIs
<1> HIDE DEF o
<1>3. CASE i = 1
  BY <1>1, <1>2, <1>3 DEF Closed, Display, o
<1>4. CASE i = 2
  <2>1. "service" \notin held
    BY <1>1, <1>2, <1>4
  <2>2. QED BY <1>1, <1>2, <1>4, <2>1 DEF Closed, Display, o
<1>5. CASE i = 3
  <2>1. "service" \notin held /\ "texture" \notin held
    BY <1>1, <1>2, <1>5
  <2>2. QED BY <1>1, <1>2, <1>5, <2>1 DEF Closed, Display, o
<1>6. CASE i = 4
  <2>1. "service" \notin held /\ "texture" \notin held /\ "renderer" \notin held
    BY <1>1, <1>2, <1>6
  <2>2. QED BY <1>1, <1>2, <1>6, <2>1 DEF Closed, Display, o
<1>7. CASE i = 5
  <2>1. "service" \notin held
    BY <1>1, <1>2, <1>7
  <2>2. QED BY <1>1, <1>2, <1>7, <2>1 DEF Closed, Display, o
<1>8. CASE i = 6
  <2>1. "window" \notin held
    BY <1>1, <1>2, <1>8
  <2>2. QED BY <1>1, <1>2, <1>8, <2>1 DEF Closed, Display, o
<1>9. QED BY <1>2, <1>3, <1>4, <1>5, <1>6, <1>7, <1>8

LEMMA NextShutDown ==
  ASSUME HoldsAny(ShutdownOrder), Closed(held), "service" \notin held
  PROVE  LET thing == FirstHeld(ShutdownOrder)
         IN  /\ thing \in held /\ Closed(held \ {thing})
             /\ thing \notin {"memory", "image"}
<1> DEFINE o == ShutdownOrder
<1>1. /\ Len(o) = 8 /\ o[1] = "observer" /\ o[2] = "curses" /\ o[3] = "raw" /\ o[4] = "trace"
      /\ o[5] = "SIGPIPE" /\ o[6] = "SIGTERM" /\ o[7] = "SIGINT" /\ o[8] = "debugger"
  BY DEF ShutdownOrder
<1>2. PICK i \in 1 .. 8 :
         /\ FirstHeld(o) = o[i] /\ o[i] \in held /\ \A j \in 1 .. i - 1 : o[j] \notin held
  BY <1>1, FirstHeldIs
<1> HIDE DEF o
<1>3. CASE i \in 1 .. 4
  <2>1. o[i] \in {"observer", "curses", "raw", "trace"}
    BY <1>1, <1>3
  <2>2. QED BY <1>2, <2>1 DEF Closed, o
<1>4. CASE i = 5
  <2>1. "curses" \notin held /\ "raw" \notin held
    BY <1>1, <1>2, <1>4
  <2>2. QED BY <1>1, <1>2, <1>4, <2>1 DEF Closed, o
<1>5. CASE i = 6
  <2>1. "curses" \notin held /\ "raw" \notin held /\ "SIGPIPE" \notin held
    BY <1>1, <1>2, <1>5
  <2>2. QED BY <1>1, <1>2, <1>5, <2>1 DEF Closed, o
<1>6. CASE i = 7
  <2>1. "curses" \notin held /\ "raw" \notin held /\ "SIGTERM" \notin held
    BY <1>1, <1>2, <1>6
  <2>2. QED BY <1>1, <1>2, <1>6, <2>1 DEF Closed, o
<1>7. CASE i = 8
  <2>1. /\ "curses" \notin held /\ "raw" \notin held /\ "trace" \notin held
        /\ "observer" \notin held /\ "SIGINT" \notin held
    BY <1>1, <1>2, <1>7
  <2>2. QED BY <1>1, <1>2, <1>7, <2>1 DEF Closed, o
<1>8. QED BY <1>2, <1>3, <1>4, <1>5, <1>6, <1>7
LEMMA parse_options_keeps ==
  ASSUME SessionInv, parse_options
  PROVE  SessionInv'
<1> USE DEF SessionInv
<1>1. SessionTypeOK'
  BY ThingsAre DEF SessionTypeOK, Options, parse_options, SameOptions, Quiet, Goes, Fails, Display
<1>2. Closed(held')
  BY DEF Closed, HeldOK, parse_options, SameOptions, Quiet, Goes, Fails, LivePlaces, WayOut,
         SettledPlaces, BootPlaces, SetUpPlaces, Display, SetUp
<1>3. HeldOK'
  <2>1. held' = {} /\ ~caught' /\ at' \in {"memory", "window", "ended"}
    BY DEF HeldOK, SettledPlaces, parse_options, Quiet, Goes, Fails
  <2>2. at' = "window" => program' = "player"
    BY DEF parse_options, SameOptions, Goes, Fails, SessionTypeOK
  <2>3. QED BY <2>1, <2>2 DEF HeldOK, SettledPlaces, BootPlaces, SetUpPlaces, Display
<1>4. MachineOK'
  BY DEF MachineOK, HeldOK, SessionTypeOK, Options, parse_options, SameOptions, Quiet, Goes,
         Fails, LivePlaces, WayOut, SettledPlaces, BootPlaces, SetUpPlaces
<1>5. ResultOK'
  BY DEF ResultOK, HeldOK, parse_options, SameOptions, Quiet, Goes, Fails,
       LivePlaces, WayOut, SettledPlaces, BootPlaces, SetUpPlaces
<1>6. QED BY <1>1, <1>2, <1>3, <1>4, <1>5 DEF Closed

LEMMA Allocate_keeps ==
  ASSUME SessionInv, Allocate
  PROVE  SessionInv'
<1> USE DEF SessionInv
<1>1. SessionTypeOK'
  BY ThingsAre
  DEF SessionTypeOK, Options, Allocate, SameOptions, Quiet, Goes, Fails, Acquires, Lacks, Display
<1>2. Closed(held')
  BY DEF Closed, HeldOK, Allocate, SameOptions, Quiet, Goes, Fails, Acquires, Lacks, LivePlaces,
         WayOut, SettledPlaces, BootPlaces, SetUpPlaces, Display, SetUp
<1>3. HeldOK'
  <2>1. /\ held = {} /\ held' \in {{}, {"memory"}} /\ ~caught' /\ at' \in {"clear", "leave"}
        /\ at' = "clear" => held' = {"memory"}
    BY DEF HeldOK, SettledPlaces, Allocate, Quiet, Goes, Fails, Acquires, Lacks
  <2>2. program' = "emulator"
    BY DEF MachineOK, SetUpPlaces, Allocate, SameOptions
  <2>3. QED BY <2>1, <2>2 DEF HeldOK, SettledPlaces, BootPlaces, SetUpPlaces, Display
<1>4. MachineOK'
  BY DEF MachineOK, HeldOK, SessionTypeOK, Options, Allocate, SameOptions, Quiet, Goes, Fails,
         Acquires, Lacks, LivePlaces, WayOut, SettledPlaces, BootPlaces, SetUpPlaces
<1>5. ResultOK'
  BY DEF ResultOK, HeldOK, Allocate, SameOptions, Quiet, Goes, Fails, Acquires, Lacks,
       LivePlaces, WayOut, SettledPlaces, BootPlaces, SetUpPlaces
<1>6. QED BY <1>1, <1>2, <1>3, <1>4, <1>5 DEF Closed

LEMMA ClearMemory_keeps ==
  ASSUME SessionInv, ClearMemory
  PROVE  SessionInv'
<1> USE DEF SessionInv
<1>1. SessionTypeOK'
  <2>1. /\ program' = program /\ wants' = wants /\ held' = held /\ image' = 1
    BY DEF ClearMemory, SameOptions, KERNEL
  <2>2. machine' \in {"none", "partial", "ready"}
    BY DEF ClearMemory, SessionTypeOK
  <2>3. /\ signal_quit' = signal_quit /\ caught' = caught /\ result' = result
        /\ trouble' \in BOOLEAN
    BY DEF ClearMemory, Quiet, Goes, Fails, SessionTypeOK
  <2>4. QED BY <2>1, <2>2, <2>3 DEF SessionTypeOK
<1>2. Closed(held')
  BY DEF Closed, HeldOK, ClearMemory, SameOptions, Quiet, Goes, Fails, BootFails, KERNEL,
         LivePlaces, WayOut, SettledPlaces, BootPlaces, SetUpPlaces, Display, SetUp
<1>3. HeldOK'
  BY <1>2
  DEF HeldOK, Closed, SetUp, TerminalTaken, ResultOK, ClearMemory, SameOptions, Quiet, Goes,
      Fails, BootFails, KERNEL, LivePlaces, WayOut, SettledPlaces, BootPlaces, SetUpPlaces,
      Display
<1>4. MachineOK'
  BY DEF MachineOK, HeldOK, SessionTypeOK, Options, ClearMemory, SameOptions, Quiet, Goes, Fails,
         BootFails, KERNEL, LivePlaces, WayOut, SettledPlaces, BootPlaces, SetUpPlaces
<1>5. ResultOK'
  BY DEF ResultOK, HeldOK, ClearMemory, SameOptions, Quiet, Goes, Fails, BootFails, KERNEL,
       LivePlaces, WayOut, SettledPlaces, BootPlaces, SetUpPlaces
<1>6. QED BY <1>1, <1>2, <1>3, <1>4, <1>5 DEF Closed

LEMMA host_image_open_keeps ==
  ASSUME SessionInv, host_image_open
  PROVE  SessionInv'
<1> USE DEF SessionInv
<1>1. SessionTypeOK'
  BY ThingsAre
  DEF SessionTypeOK, Options, host_image_open, SameOptions, Quiet, Goes, Fails, Acquires, Lacks,
      BootFails, Display
<1>2. Closed(held')
  BY DEF Closed, HeldOK, host_image_open, SameOptions, Quiet, Goes, Fails, Acquires, Lacks,
         BootFails, LivePlaces, WayOut, SettledPlaces, BootPlaces, SetUpPlaces, Display, SetUp
<1>3. HeldOK'
  BY <1>2
  DEF HeldOK, Closed, SetUp, TerminalTaken, ResultOK, host_image_open, SameOptions, Quiet, Goes,
      Fails, Acquires, Lacks, BootFails, LivePlaces, WayOut, SettledPlaces, BootPlaces,
      SetUpPlaces, Display
<1>4. MachineOK'
  BY DEF MachineOK, HeldOK, SessionTypeOK, Options, host_image_open, SameOptions, Quiet, Goes,
         Fails, Acquires, Lacks, BootFails, LivePlaces, WayOut, SettledPlaces, BootPlaces,
         SetUpPlaces
<1>5. ResultOK'
  BY DEF ResultOK, HeldOK, host_image_open, SameOptions, Quiet, Goes, Fails, Acquires, Lacks,
         BootFails, LivePlaces, WayOut, SettledPlaces, BootPlaces, SetUpPlaces
<1>6. QED BY <1>1, <1>2, <1>3, <1>4, <1>5 DEF Closed

LEMMA LoadImage_keeps ==
  ASSUME SessionInv, LoadImage
  PROVE  SessionInv'
<1> USE DEF SessionInv
<1>1. SessionTypeOK'
  <2>1. /\ program' = program /\ wants' = wants
        /\ held' \subseteq held /\ image' \in {image, image + 1}
        /\ machine' = machine
    BY DEF LoadImage, SameOptions
  <2>2. /\ signal_quit' = signal_quit /\ caught' = caught
        /\ result' = result /\ trouble' \in {trouble, TRUE}
    BY DEF LoadImage, Quiet, Goes, Fails
  <2>3. image \in 1 .. 3
    BY DEF LoadImage, MachineOK, SessionTypeOK, Options
  <2>4. image' \in 1 .. 4
    BY <2>1, <2>3
  <2>5. QED BY <2>1, <2>2, <2>4 DEF SessionTypeOK
<1>2. Closed(held')
  BY DEF Closed, HeldOK, LoadImage, SameOptions, Quiet, Goes, Fails, BootFails, AfterImage,
         INITRAMFS, LivePlaces, WayOut, SettledPlaces, BootPlaces, SetUpPlaces, Display, SetUp
<1>3. HeldOK'
  BY <1>2
  DEF HeldOK, Closed, SetUp, TerminalTaken, ResultOK, LoadImage, SameOptions, Quiet, Goes, Fails,
      BootFails, AfterImage, INITRAMFS, LivePlaces, WayOut, SettledPlaces, BootPlaces,
      SetUpPlaces, Display
<1>4. MachineOK'
  BY DEF MachineOK, HeldOK, SessionTypeOK, Options, LoadImage, SameOptions, Quiet, Goes, Fails,
         BootFails, AfterImage, INITRAMFS, LivePlaces, WayOut, SettledPlaces, BootPlaces,
         SetUpPlaces
<1>5. ResultOK'
  BY DEF ResultOK, HeldOK, LoadImage, SameOptions, Quiet, Goes, Fails, BootFails, AfterImage,
         INITRAMFS, LivePlaces, WayOut, SettledPlaces, BootPlaces, SetUpPlaces
<1>6. QED BY <1>1, <1>2, <1>3, <1>4, <1>5 DEF Closed

LEMMA SetInitramfs_keeps ==
  ASSUME SessionInv, SetInitramfs
  PROVE  SessionInv'
<1> USE DEF SessionInv
<1>1. SessionTypeOK'
  BY ThingsAre
  DEF SessionTypeOK, Options, SetInitramfs, SameOptions, Quiet, Goes, Fails, BootFails, Display
<1>2. Closed(held')
  BY DEF Closed, HeldOK, SetInitramfs, SameOptions, Quiet, Goes, Fails, BootFails, LivePlaces,
         WayOut, SettledPlaces, BootPlaces, SetUpPlaces, Display, SetUp
<1>3. HeldOK'
  BY <1>2
  DEF HeldOK, Closed, SetUp, TerminalTaken, ResultOK, SetInitramfs, SameOptions, Quiet, Goes,
      Fails, BootFails, LivePlaces, WayOut, SettledPlaces, BootPlaces, SetUpPlaces, Display
<1>4. MachineOK'
  BY DEF MachineOK, HeldOK, SessionTypeOK, Options, SetInitramfs, SameOptions, Quiet, Goes, Fails,
         BootFails, LivePlaces, WayOut, SettledPlaces, BootPlaces, SetUpPlaces
<1>5. ResultOK'
  BY DEF ResultOK, HeldOK, SetInitramfs, SameOptions, Quiet, Goes, Fails, BootFails,
       LivePlaces, WayOut, SettledPlaces, BootPlaces, SetUpPlaces
<1>6. QED BY <1>1, <1>2, <1>3, <1>4, <1>5 DEF Closed

LEMMA EnterKernel_keeps ==
  ASSUME SessionInv, EnterKernel
  PROVE  SessionInv'
<1> USE DEF SessionInv
<1>1. SessionTypeOK'
  BY ThingsAre DEF SessionTypeOK, Options, EnterKernel, SameOptions, Quiet, Goes, Display
<1>2. Closed(held')
  BY DEF Closed, HeldOK, EnterKernel, SameOptions, Quiet, Goes, LivePlaces, WayOut, SettledPlaces,
         BootPlaces, SetUpPlaces, Display, SetUp
<1>3. HeldOK'
  BY <1>2
  DEF HeldOK, Closed, SetUp, TerminalTaken, ResultOK, EnterKernel, SameOptions, Quiet, Goes,
      LivePlaces, WayOut, SettledPlaces, BootPlaces, SetUpPlaces, Display
<1>4. MachineOK'
  BY DEF MachineOK, HeldOK, SessionTypeOK, Options, EnterKernel, SameOptions, Quiet, Goes,
       LivePlaces, WayOut, SettledPlaces, BootPlaces, SetUpPlaces
<1>5. ResultOK'
  BY DEF ResultOK, HeldOK, EnterKernel, SameOptions, Quiet, Goes,
       LivePlaces, WayOut, SettledPlaces, BootPlaces, SetUpPlaces
<1>6. QED BY <1>1, <1>2, <1>3, <1>4, <1>5 DEF Closed

LEMMA BeginDebugger_keeps ==
  ASSUME SessionInv, BeginDebugger
  PROVE  SessionInv'
<1> USE DEF SessionInv
<1>1. SessionTypeOK'
  BY ThingsAre DEF SessionTypeOK, Options, BeginDebugger, SameOptions, Goes, Fails, Display
<1>2. Closed(held')
  BY DEF Closed, HeldOK, BeginDebugger, SameOptions, Goes, Fails, LivePlaces, WayOut,
         SettledPlaces, BootPlaces, SetUpPlaces, Display, SetUp
<1>3. HeldOK'
  BY <1>2
  DEF HeldOK, Closed, SetUp, TerminalTaken, ResultOK, BeginDebugger, SameOptions, Goes, Fails,
      LivePlaces, WayOut, SettledPlaces, BootPlaces, SetUpPlaces, Display
<1>4. MachineOK'
  BY DEF MachineOK, HeldOK, SessionTypeOK, Options, BeginDebugger, SameOptions, Goes, Fails,
       LivePlaces, WayOut, SettledPlaces, BootPlaces, SetUpPlaces
<1>5. ResultOK'
  BY DEF ResultOK, HeldOK, BeginDebugger, SameOptions, Goes, Fails,
       LivePlaces, WayOut, SettledPlaces, BootPlaces, SetUpPlaces
<1>6. QED BY <1>1, <1>2, <1>3, <1>4, <1>5 DEF Closed

LEMMA install_signal_handlers_keeps ==
  ASSUME SessionInv, install_signal_handlers
  PROVE  SessionInv'
<1> USE DEF SessionInv
<1>1. SessionTypeOK'
  BY ThingsAre, AllOfThem, NextSignal
  DEF SessionTypeOK, Options, install_signal_handlers, SameOptions, Quiet, Goes, Fails, Acquires,
      Lacks, Display
<1>2. Closed(held')
  BY AllOfThem, NextSignal
  DEF Closed, HeldOK, install_signal_handlers, SameOptions, Quiet, Goes, Fails, Acquires, Lacks,
      LivePlaces, WayOut, SettledPlaces, BootPlaces, SetUpPlaces, Display, SetUp
<1>3. HeldOK'
  BY <1>2, AllOfThem, NextSignal
  DEF HeldOK, Closed, SetUp, TerminalTaken, ResultOK, install_signal_handlers, SameOptions, Quiet,
      Goes, Fails, Acquires, Lacks, LivePlaces, WayOut, SettledPlaces, BootPlaces, SetUpPlaces,
      Display
<1>4. MachineOK'
  BY DEF MachineOK, HeldOK, SessionTypeOK, Options, install_signal_handlers, SameOptions, Quiet,
         Goes, Fails, Acquires, Lacks, LivePlaces, WayOut, SettledPlaces, BootPlaces, SetUpPlaces
<1>5. ResultOK'
  BY DEF ResultOK, HeldOK, install_signal_handlers, SameOptions, Quiet, Goes, Fails, Acquires,
         Lacks, LivePlaces, WayOut, SettledPlaces, BootPlaces, SetUpPlaces
<1>6. QED BY <1>1, <1>2, <1>3, <1>4, <1>5 DEF Closed

LEMMA OpenTrace_keeps ==
  ASSUME SessionInv, OpenTrace
  PROVE  SessionInv'
<1> USE DEF SessionInv
<1>1. SessionTypeOK'
  BY ThingsAre
  DEF SessionTypeOK, Options, OpenTrace, SameOptions, Quiet, Goes, Fails, Acquires, Lacks, Display
<1>2. Closed(held')
  BY DEF Closed, HeldOK, OpenTrace, SameOptions, Quiet, Goes, Fails, Acquires, Lacks, LivePlaces,
         WayOut, SettledPlaces, BootPlaces, SetUpPlaces, Display, SetUp
<1>3. HeldOK'
  BY <1>2
  DEF HeldOK, Closed, SetUp, TerminalTaken, ResultOK, OpenTrace, SameOptions, Quiet, Goes, Fails,
      Acquires, Lacks, LivePlaces, WayOut, SettledPlaces, BootPlaces, SetUpPlaces, Display
<1>4. MachineOK'
  BY DEF MachineOK, HeldOK, SessionTypeOK, Options, OpenTrace, SameOptions, Quiet, Goes, Fails,
         Acquires, Lacks, LivePlaces, WayOut, SettledPlaces, BootPlaces, SetUpPlaces
<1>5. ResultOK'
  BY DEF ResultOK, HeldOK, OpenTrace, SameOptions, Quiet, Goes, Fails, Acquires, Lacks,
       LivePlaces, WayOut, SettledPlaces, BootPlaces, SetUpPlaces
<1>6. QED BY <1>1, <1>2, <1>3, <1>4, <1>5 DEF Closed

LEMMA TakeTerminal_keeps ==
  ASSUME SessionInv, TakeTerminal
  PROVE  SessionInv'
<1> USE DEF SessionInv
<1>1. SessionTypeOK'
  BY ThingsAre
  DEF SessionTypeOK, Options, TakeTerminal, SameOptions, Quiet, Goes, Fails, Acquires, Lacks,
      Display
<1>2. Closed(held')
  BY DEF Closed, HeldOK, TakeTerminal, SameOptions, Quiet, Goes, Fails, Acquires, Lacks,
         LivePlaces, WayOut, SettledPlaces, BootPlaces, SetUpPlaces, Display, SetUp
<1>3. HeldOK'
  BY <1>2
  DEF HeldOK, Closed, SetUp, TerminalTaken, ResultOK, TakeTerminal, SameOptions, Quiet, Goes,
      Fails, Acquires, Lacks, LivePlaces, WayOut, SettledPlaces, BootPlaces, SetUpPlaces, Display
<1>4. MachineOK'
  BY DEF MachineOK, HeldOK, SessionTypeOK, Options, TakeTerminal, SameOptions, Quiet, Goes, Fails,
         Acquires, Lacks, LivePlaces, WayOut, SettledPlaces, BootPlaces, SetUpPlaces
<1>5. ResultOK'
  BY DEF ResultOK, HeldOK, TakeTerminal, SameOptions, Quiet, Goes, Fails, Acquires, Lacks,
       LivePlaces, WayOut, SettledPlaces, BootPlaces, SetUpPlaces
<1>6. QED BY <1>1, <1>2, <1>3, <1>4, <1>5 DEF Closed

LEMMA TerminalModes_keeps ==
  ASSUME SessionInv, TerminalModes
  PROVE  SessionInv'
<1> USE DEF SessionInv
<1>1. SessionTypeOK'
  BY ThingsAre DEF SessionTypeOK, Options, TerminalModes, SameOptions, Quiet, Goes, Fails, Display
<1>2. Closed(held')
  BY DEF Closed, HeldOK, TerminalModes, SameOptions, Quiet, Goes, Fails, LivePlaces, WayOut,
         SettledPlaces, BootPlaces, SetUpPlaces, Display, SetUp
<1>3. HeldOK'
  BY <1>2
  DEF HeldOK, Closed, SetUp, TerminalTaken, ResultOK, TerminalModes, SameOptions, Quiet, Goes,
      Fails, LivePlaces, WayOut, SettledPlaces, BootPlaces, SetUpPlaces, Display
<1>4. MachineOK'
  BY DEF MachineOK, HeldOK, SessionTypeOK, Options, TerminalModes, SameOptions, Quiet, Goes,
         Fails, LivePlaces, WayOut, SettledPlaces, BootPlaces, SetUpPlaces
<1>5. ResultOK'
  BY DEF ResultOK, HeldOK, TerminalModes, SameOptions, Quiet, Goes, Fails,
       LivePlaces, WayOut, SettledPlaces, BootPlaces, SetUpPlaces
<1>6. QED BY <1>1, <1>2, <1>3, <1>4, <1>5 DEF Closed

LEMMA Observe_keeps ==
  ASSUME SessionInv, Observe
  PROVE  SessionInv'
<1> USE DEF SessionInv
<1>1. SessionTypeOK'
  BY ThingsAre DEF SessionTypeOK, Options, Observe, SameOptions, Quiet, Goes, Acquires, Display
<1>2. Closed(held')
  BY DEF Closed, HeldOK, Observe, SameOptions, Quiet, Goes, Acquires, LivePlaces, WayOut,
         SettledPlaces, BootPlaces, SetUpPlaces, Display, SetUp
<1>3. HeldOK'
  <2>1. /\ held' = held \union {"observer"} /\ at' \in {"window", "run"} /\ at = "observe"
        /\ (at' = "run" => ~wants.sdl) /\ wants' = wants /\ program' = "emulator"
    BY DEF Observe, Acquires, Goes, SameOptions, MachineOK, SetUpPlaces
  <2>2. /\ {"SIGINT", "SIGTERM", "SIGPIPE", "debugger"} \subseteq held /\ "image" \notin held
        /\ TerminalTaken /\ "service" \notin held
    BY <2>1 DEF HeldOK, SetUpPlaces
  <2>3. "memory" \in held
    BY <2>2 DEF Closed
  <2>4. SetUp'
    BY <2>1, <2>2, <2>3 DEF SetUp, TerminalTaken
  <2>5. QED BY <2>1, <2>2, <2>4 DEF HeldOK, SettledPlaces, BootPlaces, SetUpPlaces, Display
<1>4. MachineOK'
  BY DEF MachineOK, HeldOK, SessionTypeOK, Options, Observe, SameOptions, Quiet, Goes, Acquires,
       LivePlaces, WayOut, SettledPlaces, BootPlaces, SetUpPlaces
<1>5. ResultOK'
  BY DEF ResultOK, HeldOK, Observe, SameOptions, Quiet, Goes, Acquires,
       LivePlaces, WayOut, SettledPlaces, BootPlaces, SetUpPlaces
<1>6. QED BY <1>1, <1>2, <1>3, <1>4, <1>5 DEF Closed

LEMMA CreateDisplay_keeps ==
  ASSUME SessionInv, CreateDisplay
  PROVE  SessionInv'
<1> USE DEF SessionInv
<1>1. SessionTypeOK'
  BY ThingsAre, NextOfDisplay
  DEF SessionTypeOK, Options, CreateDisplay, SameOptions, Quiet, Goes, Fails, Acquires, Lacks,
      Display
<1>2. Closed(held')
  BY NextOfDisplay
  DEF Closed, HeldOK, CreateDisplay, SameOptions, Quiet, Goes, Fails, Acquires, Lacks, LivePlaces,
      WayOut, SettledPlaces, BootPlaces, SetUpPlaces, Display, SetUp
<1>3. HeldOK'
  BY <1>2, NextOfDisplay
  DEF HeldOK, Closed, SetUp, TerminalTaken, ResultOK, CreateDisplay, SameOptions, Quiet, Goes,
      Fails, Acquires, Lacks, LivePlaces, WayOut, SettledPlaces, BootPlaces, SetUpPlaces, Display
<1>4. MachineOK'
  BY DEF MachineOK, HeldOK, SessionTypeOK, Options, CreateDisplay, SameOptions, Quiet, Goes,
         Fails, Acquires, Lacks, LivePlaces, WayOut, SettledPlaces, BootPlaces, SetUpPlaces
<1>5. ResultOK'
  BY DEF ResultOK, HeldOK, CreateDisplay, SameOptions, Quiet, Goes, Fails, Acquires, Lacks,
       LivePlaces, WayOut, SettledPlaces, BootPlaces, SetUpPlaces
<1>6. QED BY <1>1, <1>2, <1>3, <1>4, <1>5 DEF Closed

LEMMA SetService_keeps ==
  ASSUME SessionInv, SetService
  PROVE  SessionInv'
<1> USE DEF SessionInv
<1>1. SessionTypeOK'
  BY ThingsAre, AllOfThem
  DEF SessionTypeOK, Options, SetService, SameOptions, Quiet, Goes, Acquires, Display
<1>2. Closed(held')
  BY AllOfThem
  DEF Closed, HeldOK, SetService, SameOptions, Quiet, Goes, Acquires, LivePlaces, WayOut,
      SettledPlaces, BootPlaces, SetUpPlaces, Display, SetUp
<1>3. HeldOK'
  BY <1>2, AllOfThem
  DEF HeldOK, Closed, SetUp, TerminalTaken, ResultOK, SetService, SameOptions, Quiet, Goes,
      Acquires, LivePlaces, WayOut, SettledPlaces, BootPlaces, SetUpPlaces, Display
<1>4. MachineOK'
  BY DEF MachineOK, HeldOK, SessionTypeOK, Options, SetService, SameOptions, Quiet, Goes,
         Acquires, LivePlaces, WayOut, SettledPlaces, BootPlaces, SetUpPlaces
<1>5. ResultOK'
  BY DEF ResultOK, HeldOK, SetService, SameOptions, Quiet, Goes, Acquires,
       LivePlaces, WayOut, SettledPlaces, BootPlaces, SetUpPlaces
<1>6. QED BY <1>1, <1>2, <1>3, <1>4, <1>5 DEF Closed

LEMMA demo_init_keeps ==
  ASSUME SessionInv, demo_init
  PROVE  SessionInv'
<1> USE DEF SessionInv
<1>1. SessionTypeOK'
  BY ThingsAre, AllOfThem
  DEF SessionTypeOK, Options, demo_init, SameOptions, Quiet, Goes, Fails, Display
<1>2. Closed(held')
  BY AllOfThem
  DEF Closed, HeldOK, demo_init, SameOptions, Quiet, Goes, Fails, LivePlaces, WayOut,
      SettledPlaces, BootPlaces, SetUpPlaces, Display, SetUp
<1>3. HeldOK'
  BY <1>2, AllOfThem
  DEF HeldOK, Closed, SetUp, TerminalTaken, ResultOK, demo_init, SameOptions, Quiet, Goes, Fails,
      LivePlaces, WayOut, SettledPlaces, BootPlaces, SetUpPlaces, Display
<1>4. MachineOK'
  BY DEF MachineOK, HeldOK, SessionTypeOK, Options, demo_init, SameOptions, Quiet, Goes, Fails,
       LivePlaces, WayOut, SettledPlaces, BootPlaces, SetUpPlaces
<1>5. ResultOK'
  BY DEF ResultOK, HeldOK, demo_init, SameOptions, Quiet, Goes, Fails,
       LivePlaces, WayOut, SettledPlaces, BootPlaces, SetUpPlaces
<1>6. QED BY <1>1, <1>2, <1>3, <1>4, <1>5 DEF Closed

LEMMA LoopReturns_keeps ==
  ASSUME SessionInv, LoopReturns
  PROVE  SessionInv'
<1> USE DEF SessionInv
<1>1. SessionTypeOK'
  BY ThingsAre DEF SessionTypeOK, Options, LoopReturns, SameOptions, Quiet, Fails, Display
<1>2. Closed(held')
  BY DEF Closed, HeldOK, LoopReturns, SameOptions, Quiet, Fails, LivePlaces, WayOut,
         SettledPlaces, BootPlaces, SetUpPlaces, Display, SetUp
<1>3. HeldOK'
  BY <1>2
  DEF HeldOK, Closed, SetUp, TerminalTaken, ResultOK, LoopReturns, SameOptions, Quiet, Fails,
      LivePlaces, WayOut, SettledPlaces, BootPlaces, SetUpPlaces, Display
<1>4. MachineOK'
  BY DEF MachineOK, HeldOK, SessionTypeOK, Options, LoopReturns, SameOptions, Quiet, Fails,
       LivePlaces, WayOut, SettledPlaces, BootPlaces, SetUpPlaces
<1>5. ResultOK'
  BY DEF ResultOK, HeldOK, LoopReturns, SameOptions, Quiet, Fails,
       LivePlaces, WayOut, SettledPlaces, BootPlaces, SetUpPlaces
<1>6. QED BY <1>1, <1>2, <1>3, <1>4, <1>5 DEF Closed

LEMMA ResetBoard_keeps ==
  ASSUME SessionInv, ResetBoard
  PROVE  SessionInv'
<1> USE DEF SessionInv
<1>1. SessionTypeOK'
  BY ThingsAre DEF SessionTypeOK, Options, ResetBoard, SameOptions, Quiet, Goes, Display
<1>2. Closed(held')
  BY DEF Closed, HeldOK, ResetBoard, SameOptions, Quiet, Goes, LivePlaces, WayOut, SettledPlaces,
         BootPlaces, SetUpPlaces, Display, SetUp
<1>3. HeldOK'
  BY <1>2
  DEF HeldOK, Closed, SetUp, TerminalTaken, ResultOK, ResetBoard, SameOptions, Quiet, Goes,
      LivePlaces, WayOut, SettledPlaces, BootPlaces, SetUpPlaces, Display
<1>4. MachineOK'
  BY DEF MachineOK, HeldOK, SessionTypeOK, Options, ResetBoard, SameOptions, Quiet, Goes,
       LivePlaces, WayOut, SettledPlaces, BootPlaces, SetUpPlaces
<1>5. ResultOK'
  BY DEF ResultOK, HeldOK, ResetBoard, SameOptions, Quiet, Goes,
       LivePlaces, WayOut, SettledPlaces, BootPlaces, SetUpPlaces
<1>6. QED BY <1>1, <1>2, <1>3, <1>4, <1>5 DEF Closed

LEMMA LeaveMain_keeps ==
  ASSUME SessionInv, LeaveMain
  PROVE  SessionInv'
<1> USE DEF SessionInv
<1>1. SessionTypeOK'
  BY ThingsAre, AllOfThem, NextDestroyed
  DEF SessionTypeOK, Options, LeaveMain, SameOptions, Quiet, Goes, Releases, Display
<1>2. Closed(held')
  BY AllOfThem, NextDestroyed
  DEF Closed, HeldOK, LeaveMain, SameOptions, Quiet, Goes, Releases, LivePlaces, WayOut,
      SettledPlaces, BootPlaces, SetUpPlaces, Display, SetUp
<1>3. HeldOK'
  <2>1. /\ at = "leave" /\ "image" \notin held /\ at' \in {"leave", "shutdown", "free"}
        /\ held' \subseteq held
    BY DEF LeaveMain, Releases, Goes, HeldOK
  <2>2. CASE at' = "leave"
    BY <2>1, <2>2 DEF HeldOK, SettledPlaces, BootPlaces, SetUpPlaces
  <2>3. CASE at' # "leave"
    <3>1. held' = held /\ ~HoldsAny(DestroyOrder)
      BY <2>3 DEF LeaveMain, Releases, Goes
    <3>2. held \intersect (Display \union {"service"}) = {}
      BY <3>1, AllOfThem
    <3>3. CASE at' = "shutdown"
      BY <3>1, <3>2, <3>3, <2>1 DEF HeldOK, SettledPlaces, BootPlaces, SetUpPlaces
    <3>4. CASE at' = "free"
      <4>1. "debugger" \notin held
        BY <3>1, <3>4 DEF LeaveMain, Releases, Goes
      <4>2. held \subseteq {"memory"}
        BY <4>1, <3>2, <2>1, ThingsAre DEF Closed, SessionTypeOK, Display
      <4>3. QED BY <4>2, <3>1, <3>4 DEF HeldOK, SettledPlaces, BootPlaces, SetUpPlaces
    <3>5. QED BY <3>3, <3>4, <2>1, <2>3
  <2>4. QED BY <2>2, <2>3
<1>4. MachineOK'
  BY DEF MachineOK, HeldOK, SessionTypeOK, Options, LeaveMain, SameOptions, Quiet, Goes, Releases,
       LivePlaces, WayOut, SettledPlaces, BootPlaces, SetUpPlaces
<1>5. ResultOK'
  BY DEF ResultOK, HeldOK, LeaveMain, SameOptions, Quiet, Goes, Releases,
       LivePlaces, WayOut, SettledPlaces, BootPlaces, SetUpPlaces
<1>6. QED BY <1>1, <1>2, <1>3, <1>4, <1>5 DEF Closed

LEMMA debugger_shutdown_keeps ==
  ASSUME SessionInv, debugger_shutdown
  PROVE  SessionInv'
<1> USE DEF SessionInv
<1>1. SessionTypeOK'
  BY ThingsAre, AllOfThem, NextShutDown
  DEF SessionTypeOK, Options, debugger_shutdown, SameOptions, Quiet, Goes, Releases, Display
<1>2. Closed(held')
  BY AllOfThem, NextShutDown
  DEF Closed, HeldOK, debugger_shutdown, SameOptions, Quiet, Goes, Releases, LivePlaces, WayOut,
      SettledPlaces, BootPlaces, SetUpPlaces, Display, SetUp
<1>3. HeldOK'
  BY <1>2, AllOfThem, NextShutDown
  DEF HeldOK, Closed, SetUp, TerminalTaken, ResultOK, debugger_shutdown, SameOptions, Quiet, Goes,
      Releases, LivePlaces, WayOut, SettledPlaces, BootPlaces, SetUpPlaces, Display
<1>4. MachineOK'
  BY DEF MachineOK, HeldOK, SessionTypeOK, Options, debugger_shutdown, SameOptions, Quiet, Goes,
         Releases, LivePlaces, WayOut, SettledPlaces, BootPlaces, SetUpPlaces
<1>5. ResultOK'
  BY DEF ResultOK, HeldOK, debugger_shutdown, SameOptions, Quiet, Goes, Releases,
       LivePlaces, WayOut, SettledPlaces, BootPlaces, SetUpPlaces
<1>6. QED BY <1>1, <1>2, <1>3, <1>4, <1>5 DEF Closed

LEMMA FreeMemory_keeps ==
  ASSUME SessionInv, FreeMemory
  PROVE  SessionInv'
<1> USE DEF SessionInv
<1>1. SessionTypeOK'
  BY ThingsAre DEF SessionTypeOK, Options, FreeMemory, SameOptions, Quiet, Goes, Display
<1>2. Closed(held')
  BY DEF Closed, HeldOK, FreeMemory, SameOptions, Quiet, Goes, LivePlaces, WayOut, SettledPlaces,
         BootPlaces, SetUpPlaces, Display, SetUp
<1>3. HeldOK'
  BY <1>2
  DEF HeldOK, Closed, SetUp, TerminalTaken, ResultOK, FreeMemory, SameOptions, Quiet, Goes,
      LivePlaces, WayOut, SettledPlaces, BootPlaces, SetUpPlaces, Display
<1>4. MachineOK'
  BY DEF MachineOK, HeldOK, SessionTypeOK, Options, FreeMemory, SameOptions, Quiet, Goes,
       LivePlaces, WayOut, SettledPlaces, BootPlaces, SetUpPlaces
<1>5. ResultOK'
  BY DEF ResultOK, HeldOK, FreeMemory, SameOptions, Quiet, Goes,
       LivePlaces, WayOut, SettledPlaces, BootPlaces, SetUpPlaces
<1>6. QED BY <1>1, <1>2, <1>3, <1>4, <1>5 DEF Closed

LEMMA Signal_keeps ==
  ASSUME SessionInv, Signal
  PROVE  SessionInv'
<1> USE DEF SessionInv
<1>1. PICK signo \in {"SIGINT", "SIGTERM", "SIGPIPE"} : handle_signal(signo) \/ Killed(signo)
  BY SignalsAre DEF Signal
<1>2. CASE handle_signal(signo)
  <2>1. "debugger" \in held
    BY <1>1, <1>2 DEF handle_signal, Closed
  <2>2. SessionTypeOK' /\ Closed(held')
    BY <1>2 DEF handle_signal, SessionTypeOK, Closed
  <2>3. HeldOK'
    BY <2>1, <1>2 DEF handle_signal, HeldOK, SetUp, TerminalTaken, SettledPlaces
  <2>4. MachineOK' /\ ResultOK'
    BY <1>2 DEF handle_signal, MachineOK, ResultOK
  <2>5. QED BY <2>2, <2>3, <2>4
<1>3. CASE Killed(signo)
  <2>1. held' = {} /\ at' = "killed"
    BY <1>1, <1>3 DEF Killed, Closed
  <2>2. SessionTypeOK' /\ Closed(held')
    BY <2>1, <1>3 DEF Killed, SessionTypeOK, Closed
  <2>3. HeldOK' /\ MachineOK'
    BY <2>1 DEF HeldOK, MachineOK, SettledPlaces, BootPlaces, SetUpPlaces
  <2>4. ResultOK'
    BY <2>1, <1>3 DEF Killed, ResultOK, LivePlaces, WayOut, SettledPlaces, BootPlaces, SetUpPlaces
  <2>5. QED BY <2>2, <2>3, <2>4
<1>4. QED BY <1>1, <1>2, <1>3

LEMMA SessionStarts == SessionInit => SessionInv
<1> SUFFICES ASSUME SessionInit PROVE SessionInv
  OBVIOUS
<1> USE DEF SessionInit, KERNEL
<1>1. SessionTypeOK
  <2>1. program \in {"emulator", "player"} /\ wants \in Options
    <3>1. CASE program = "emulator"
      BY <3>1
    <3>2. CASE program # "emulator"
      <4>1. wants = [tui |-> FALSE, tty |-> FALSE, trace |-> "none", sdl |-> TRUE, images |-> 1]
        BY <3>2
      <4>2. QED BY <4>1 DEF Options
    <3>3. QED BY <3>1, <3>2
  <2>2. /\ held \subseteq Things /\ image \in 1 .. 4 /\ machine \in {"none", "partial", "ready"}
        /\ result \in {"success", "failure"}
    OBVIOUS
  <2>3. {signal_quit, trouble, caught} \subseteq BOOLEAN
    OBVIOUS
  <2>4. QED BY <2>1, <2>2, <2>3 DEF SessionTypeOK
<1>2. Closed(held) /\ HeldOK /\ MachineOK
  BY DEF Closed, HeldOK, MachineOK, SettledPlaces, BootPlaces, SetUpPlaces
<1>3. ResultOK
  BY DEF ResultOK, LivePlaces, WayOut, SettledPlaces, BootPlaces, SetUpPlaces
<1>4. QED BY <1>1, <1>2, <1>3 DEF SessionInv

LEMMA SessionStays == SessionInv /\ UNCHANGED session_vars => SessionInv'
BY DEF session_vars, SessionInv, SessionTypeOK, Closed, HeldOK, MachineOK, ResultOK, SetUp,
       TerminalTaken

(* What the run checks of the state follows from what is held where.        *)
LEMMA SessionInvIsSafe == SessionInv => SessionSafe
<1> SUFFICES ASSUME SessionInv PROVE SessionSafe
  OBVIOUS
<1> USE DEF SessionInv
<1>1. NothingDangles
  BY ClosedIs DEF NothingDangles
<1>2. CleanExit
  BY DEF CleanExit, HeldOK, Over
<1>3. RunsComplete
  BY SignalsAre DEF RunsComplete, HeldOK, MachineOK, SetUp, TerminalTaken
<1>4. ResultHonest
  BY DEF ResultHonest, ResultOK, WayOut
<1>5. QED BY <1>1, <1>2, <1>3, <1>4 DEF SessionSafe

(* In every life of the program, whatever fails and whichever signal comes  *)
(* when (loader.c, debugger.c, sdl_display.c, main.c): nothing held lacks   *)
(* what it uses, the terminal is restored and everything given back at the  *)
(* end, the loop runs on a complete machine, and the exit status is honest. *)
THEOREM SessionIsSafe == SessionSpec => []SessionSafe
<1>1. SessionInv /\ [SessionNext]_session_vars => SessionInv'
  BY SessionStays, parse_options_keeps, Allocate_keeps, ClearMemory_keeps, host_image_open_keeps,
     LoadImage_keeps, SetInitramfs_keeps, EnterKernel_keeps, BeginDebugger_keeps,
     install_signal_handlers_keeps, OpenTrace_keeps, TakeTerminal_keeps, TerminalModes_keeps,
     Observe_keeps, CreateDisplay_keeps, SetService_keeps, demo_init_keeps, LoopReturns_keeps,
     ResetBoard_keeps, LeaveMain_keeps, debugger_shutdown_keeps, FreeMemory_keeps, Signal_keeps
  DEF SessionNext
<1>2. QED BY <1>1, SessionStarts, SessionInvIsSafe, PTL DEF SessionSpec
=============================================================================

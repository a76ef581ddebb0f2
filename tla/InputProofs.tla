---------------------------- MODULE InputProofs ----------------------------
(***************************************************************************)
(* What is typed, for every size of the queues, of the line and of a       *)
(* read(): the bytes that wait in front of the UART, and the commands of   *)
(* the monitor console.                                                    *)
(***************************************************************************)
EXTENDS UartInput, Console, NaturalsInduction, WellFoundedInduction, TLAPS

-----------------------------------------------------------------------------
(* Induction over an interval, stated of a set, and the runs of a loop.     *)

LEMMA Upwards ==
  ASSUME NEW n \in Nat, NEW S, 0 \in S, \A i \in 1 .. n : i - 1 \in S => i \in S
  PROVE  \A i \in 0 .. n : i \in S
<1> DEFINE bad == {i \in 0 .. n : i \notin S}
<1>1. SUFFICES ASSUME bad # {} PROVE FALSE
  OBVIOUS
<1>2. bad \subseteq Nat
  OBVIOUS
<1>3. PICK least \in bad : \A i \in bad : ~ (<<i, least>> \in OpToRel(<, Nat))
  BY <1>1, <1>2, NatLessThanWellFounded, WFMin
<1>4. least \in 1 .. n /\ least - 1 \in 0 .. n
  OBVIOUS
<1>5. <<least - 1, least>> \in OpToRel(<, Nat)
  BY <1>2, <1>4 DEF OpToRel
<1>6. least - 1 \in S
  BY <1>3, <1>4, <1>5
<1>7. QED BY <1>4, <1>6

(* The loop over the bytes that were read is a run from state to state.     *)
LEMMA TakenRun ==
  ASSUME NEW before, NEW bytes, Len(bytes) \in Nat
  PROVE  \E run : /\ run[0] = before
                  /\ \A i \in 1 .. Len(bytes) : run[i] = Take(run[i - 1], bytes[i])
                  /\ Taken(before, bytes) = run[Len(bytes)]
<1> DEFINE n == Len(bytes)
           Runs(m, g) == g = [i \in 0 .. m |->
                                IF i = 0 THEN before ELSE Take(g[i - 1], bytes[i])]
           good == {m \in 0 .. n : \E g : Runs(m, g)}
<1>1. 0 \in good
  <2>1. PICK g : g = [i \in 0 .. 0 |-> before]
    OBVIOUS
  <2>2. g = [i \in 0 .. 0 |-> IF i = 0 THEN before ELSE Take(g[i - 1], bytes[i])]
    BY <2>1
  <2>3. QED BY <2>2
<1>2. ASSUME NEW m \in 1 .. n, m - 1 \in good
      PROVE  m \in good
  <2>1. PICK g : Runs(m - 1, g)
    BY <1>2
  <2>2. PICK h : h = [i \in 0 .. m |-> IF i = m THEN Take(g[m - 1], bytes[m]) ELSE g[i]]
    OBVIOUS
  <2>3. ASSUME NEW i \in 0 .. m
        PROVE  h[i] = IF i = 0 THEN before ELSE Take(h[i - 1], bytes[i])
    <3>1. CASE i = m
      <4>1. i # 0 /\ i - 1 \in 0 .. m /\ i - 1 # m
        BY <3>1
      <4>2. h[i] = Take(g[m - 1], bytes[m]) /\ h[i - 1] = g[i - 1]
        BY <2>2, <3>1, <4>1
      <4>3. QED BY <3>1, <4>1, <4>2
    <3>2. CASE i # m
      <4>1. i \in 0 .. m - 1 /\ h[i] = g[i]
        BY <2>2, <3>2
      <4>2. g[i] = IF i = 0 THEN before ELSE Take(g[i - 1], bytes[i])
        BY <2>1, <4>1
      <4>3. i # 0 => h[i - 1] = g[i - 1]
        BY <2>2, <4>1
      <4>4. QED BY <4>1, <4>2, <4>3
    <3>3. QED BY <3>1, <3>2
  <2>4. Runs(m, h)
    BY <2>2, <2>3
  <2>5. QED BY <2>4
<1>3. n \in good
  BY <1>1, <1>2, Upwards
<1>4. PICK run : run = CHOOSE g : Runs(n, g)
  OBVIOUS
<1>5. Runs(n, run)
  BY <1>3, <1>4
<1>6. Taken(before, bytes) = run[n]
  BY <1>4 DEF Taken
<1>7. run[0] = before
  BY <1>5
<1>8. ASSUME NEW i \in 1 .. n
      PROVE  run[i] = Take(run[i - 1], bytes[i])
  BY <1>5
<1>9. QED BY <1>6, <1>7, <1>8

-----------------------------------------------------------------------------
(* Sequences of bytes.                                                      *)

LEMMA SameBytes ==
  ASSUME NEW s \in Seq(Nat), NEW t \in Seq(Nat), Len(s) = Len(t),
         \A k \in 1 .. Len(s) : s[k] = t[k]
  PROVE  s = t
OBVIOUS

LEMMA Joined ==
  ASSUME NEW s \in Seq(Nat), NEW t \in Seq(Nat)
  PROVE  /\ s \o t \in Seq(Nat) /\ Len(s \o t) = Len(s) + Len(t)
         /\ Len(s) \in Nat /\ Len(t) \in Nat
         /\ \A k \in 1 .. Len(s) + Len(t) : (s \o t)[k] = IF k <= Len(s) THEN s[k] ELSE t[k - Len(s)]
OBVIOUS

LEMMA Extended ==
  ASSUME NEW s \in Seq(Nat), NEW b \in Nat
  PROVE  /\ Append(s, b) \in Seq(Nat) /\ Len(Append(s, b)) = Len(s) + 1
         /\ \A k \in 1 .. Len(s) + 1 : Append(s, b)[k] = IF k <= Len(s) THEN s[k] ELSE b
OBVIOUS

LEMMA LesserOf ==
  ASSUME NEW a \in Int, NEW b \in Int
  PROVE  Min({a, b}) = IF a <= b THEN a ELSE b
<1>1. \A x \in {a, b} : (\A y \in {a, b} : x <= y) => x = IF a <= b THEN a ELSE b
  OBVIOUS
<1>2. \E x \in {a, b} : \A y \in {a, b} : x <= y
  OBVIOUS
<1>3. QED BY <1>1, <1>2 DEF Min

LEMMA GreaterOf ==
  ASSUME NEW a \in Int, NEW b \in Int
  PROVE  Max({a, b}) = IF a >= b THEN a ELSE b
<1>1. \A x \in {a, b} : (\A y \in {a, b} : x >= y) => x = IF a >= b THEN a ELSE b
  OBVIOUS
<1>2. \E x \in {a, b} : \A y \in {a, b} : x >= y
  OBVIOUS
<1>3. QED BY <1>1, <1>2 DEF Max

-----------------------------------------------------------------------------
(* The ring, and what waits: the FIFO, and behind it the ring.              *)

InputSizes ==
  /\ INITIAL_CAPACITY \in Nat \ {0} /\ MAX_CAPACITY \in Nat \ {0} /\ CHUNK \in Nat \ {0}
  /\ RX_FIFO_SIZE \in Nat \ {0} /\ INITIAL_CAPACITY <= MAX_CAPACITY /\ INPUT \in Nat

LEMMA InputSizesHold == InputSizes
BY InputAssumption DEF InputSizes

Waiting(h) == h.rx \o Queued(h)

Place(h, k) == (h.uart_input_head + k - 1) % h.uart_input_capacity

\* The queue h, in front of a FIFO that holds at most limit bytes.
IsHost(h, limit) ==
  /\ h \in [uart_input : {h.uart_input}, uart_input_capacity : Nat, uart_input_head : Nat,
            uart_input_count : Nat, rx : Seq(Nat), overrun : BOOLEAN, dropped : SUBSET Nat]
  /\ h.uart_input_capacity \in {0} \union INITIAL_CAPACITY .. MAX_CAPACITY
  /\ h.uart_input_count <= h.uart_input_capacity
  /\ DOMAIN h.uart_input =
       IF h.uart_input_capacity = 0 THEN {} ELSE 0 .. h.uart_input_capacity - 1
  /\ IF h.uart_input_capacity = 0 THEN h.uart_input_head = 0
     ELSE h.uart_input_head < h.uart_input_capacity
  /\ \A k \in 1 .. h.uart_input_count : h.uart_input[Place(h, k)] \in Nat
  /\ Len(h.rx) <= limit

LEMMA Wraps ==
  ASSUME NEW c \in Nat \ {0}, NEW x \in Nat, x < 2 * c
  PROVE  x % c = (IF x < c THEN x ELSE x - c) /\ x % c \in 0 .. c - 1
<1>1. CASE x < c
  BY <1>1
<1>2. CASE x >= c
  <2>1. x - c \in 0 .. c - 1 /\ x = 1 * c + (x - c)
    BY <1>2
  <2>2. QED BY <1>2, <2>1
<1>3. QED BY <1>1, <1>2

LEMMA Places ==
  ASSUME NEW head \in Nat, NEW c \in Nat \ {0}, head < c, NEW k \in 1 .. c
  PROVE  /\ (head + k - 1) % c \in 0 .. c - 1
         /\ (head + k - 1) % c = IF head + k - 1 < c THEN head + k - 1 ELSE head + k - 1 - c
<1>1. PICK x : x = head + k - 1
  OBVIOUS
<1>2. x \in Nat /\ x < 2 * c
  BY <1>1
<1>3. x % c = (IF x < c THEN x ELSE x - c) /\ x % c \in 0 .. c - 1
  BY <1>2, Wraps
<1>4. head + k - 1 - c = x - c
  BY <1>1
<1>5. QED BY <1>1, <1>3, <1>4

LEMMA QueuedIs ==
  ASSUME NEW h, NEW limit, IsHost(h, limit)
  PROVE  /\ Queued(h) \in Seq(Nat) /\ Len(Queued(h)) = h.uart_input_count
         /\ \A k \in 1 .. h.uart_input_count : Queued(h)[k] = h.uart_input[Place(h, k)]
         /\ h.uart_input_count \in Nat /\ h.rx \in Seq(Nat) /\ Waiting(h) \in Seq(Nat)
<1>1. h.uart_input_count \in Nat /\ h.rx \in Seq(Nat)
  BY DEF IsHost
<1>2. Queued(h) = [k \in 1 .. h.uart_input_count |-> h.uart_input[Place(h, k)]]
  BY DEF Queued, Place
<1>3. Queued(h) \in Seq(Nat) /\ Len(Queued(h)) = h.uart_input_count
  <2>1. PICK n : n = h.uart_input_count
    OBVIOUS
  <2>2. Queued(h) \in [1 .. n -> Nat] /\ n \in Nat
    BY <1>1, <1>2, <2>1 DEF IsHost
  <2>3. QED BY <2>1, <2>2
<1>4. \A k \in 1 .. h.uart_input_count : Queued(h)[k] = h.uart_input[Place(h, k)]
  BY <1>2
<1>5. QED BY <1>1, <1>3, <1>4, Joined DEF Waiting

(* Moving bytes from the ring to the FIFO changes nothing of what waits.    *)
LEMMA FlushedIs ==
  ASSUME NEW h, NEW limit \in Nat, IsHost(h, limit), NEW n \in 0 .. h.uart_input_count,
         Len(h.rx) + n <= limit
  PROVE  LET g == Flushed(h, n)
         IN  /\ IsHost(g, limit) /\ Waiting(g) = Waiting(h)
             /\ g.uart_input_count = h.uart_input_count - n
             /\ Len(g.rx) = Len(h.rx) + n
             /\ g.uart_input_capacity = h.uart_input_capacity
             /\ g.overrun = h.overrun /\ g.dropped = h.dropped
<1>1. CASE n = 0
  BY <1>1, QueuedIs DEF Flushed, IsHost
<1>2. CASE n # 0
  <2>1. PICK c, head, m : c = h.uart_input_capacity /\ head = h.uart_input_head /\ m = h.uart_input_count
    OBVIOUS
  <2>2. c \in Nat \ {0} /\ head \in Nat /\ head < c /\ m \in 1 .. c /\ n \in 1 .. m
    BY <1>2, <2>1 DEF IsHost
  <2>3. PICK sent : sent = SubSeq(Queued(h), 1, n)
    OBVIOUS
  <2>4. /\ Queued(h) \in Seq(Nat) /\ Len(Queued(h)) = m /\ h.rx \in Seq(Nat)
        /\ \A k \in 1 .. m : Queued(h)[k] = h.uart_input[Place(h, k)]
    BY <2>1, QueuedIs
  <2>5. sent \in Seq(Nat) /\ Len(sent) = n /\ \A k \in 1 .. n : sent[k] = Queued(h)[k]
    BY <2>2, <2>3, <2>4
  <2>6. PICK g : g = Flushed(h, n)
    OBVIOUS
  <2>7. /\ g = [h EXCEPT !.rx = h.rx \o sent, !.uart_input_head = (head + n) % c,
                         !.uart_input_count = m - n]
        /\ h \in [uart_input : {h.uart_input}, uart_input_capacity : Nat, uart_input_head : Nat,
                  uart_input_count : Nat, rx : Seq(Nat), overrun : BOOLEAN, dropped : SUBSET Nat]
    BY <1>2, <2>1, <2>3, <2>6 DEF Flushed, IsHost
  <2>8. /\ g.rx = h.rx \o sent /\ g.uart_input_head = (head + n) % c
        /\ g.uart_input_count = m - n /\ g.uart_input_capacity = c
        /\ g.uart_input = h.uart_input /\ g.overrun = h.overrun /\ g.dropped = h.dropped
    BY <2>1, <2>7
  <2>9. /\ (head + n) % c \in 0 .. c - 1
        /\ (head + n) % c = IF head + n < c THEN head + n ELSE head + n - c
    <3>1. PICK x : x = head + n
      OBVIOUS
    <3>2. x \in Nat /\ x < 2 * c
      BY <2>2, <3>1
    <3>3. PICK y : y = x % c
      OBVIOUS
    <3>4. y = (IF x < c THEN x ELSE x - c) /\ y \in 0 .. c - 1
      BY <2>2, <3>2, <3>3, Wraps
    <3>5. (head + n) % c = y
      BY <3>1, <3>3
    <3>6. QED BY <2>2, <3>1, <3>4, <3>5
  <2>10. ASSUME NEW k \in 1 .. m - n
         PROVE  Place(g, k) = Place(h, n + k) /\ n + k \in 1 .. m
    <3>1. n + k \in 1 .. c /\ k \in 1 .. c
      BY <2>2
    <3>2. PICK at : at = (head + n) % c
      OBVIOUS
    <3>3. at \in Nat /\ at < c /\ at = IF head + n < c THEN head + n ELSE head + n - c
      BY <2>2, <2>9, <3>2
    <3>4. Place(g, k) = (at + k - 1) % c /\ Place(h, n + k) = (head + (n + k) - 1) % c
      BY <2>1, <2>8, <3>2 DEF Place
    <3>5. (at + k - 1) % c = IF at + k - 1 < c THEN at + k - 1 ELSE at + k - 1 - c
      BY <2>2, <3>1, <3>3, Places
    <3>6. (head + (n + k) - 1) % c =
            IF head + (n + k) - 1 < c THEN head + (n + k) - 1 ELSE head + (n + k) - 1 - c
      BY <2>2, <3>1, Places
    <3>7. QED BY <2>2, <3>1, <3>3, <3>4, <3>5, <3>6
  <2>11. h.rx \o sent \in Seq(Nat) /\ Len(h.rx \o sent) = Len(h.rx) + n
    BY <2>4, <2>5, Joined
  <2>12. IsHost(g, limit)
    <3>1. g \in [uart_input : {g.uart_input}, uart_input_capacity : Nat, uart_input_head : Nat,
                 uart_input_count : Nat, rx : Seq(Nat), overrun : BOOLEAN, dropped : SUBSET Nat]
      <4>1. PICK r, at, d : r = h.rx \o sent /\ at = (head + n) % c /\ d = m - n
        OBVIOUS
      <4>2. r \in Seq(Nat) /\ at \in Nat /\ d \in Nat
        BY <2>2, <2>9, <2>11, <4>1
      <4>3. g = [h EXCEPT !.rx = r, !.uart_input_head = at, !.uart_input_count = d]
        BY <2>7, <4>1
      <4>4. QED BY <2>7, <4>2, <4>3
    <3>2. \A k \in 1 .. m - n : g.uart_input[Place(g, k)] \in Nat
      BY <2>1, <2>8, <2>10 DEF IsHost
    <3>3. /\ c \in {0} \union INITIAL_CAPACITY .. MAX_CAPACITY
          /\ DOMAIN h.uart_input = 0 .. c - 1
      BY <2>1, <2>2 DEF IsHost
    <3>4. m - n <= c
      BY <2>2
    <3>5. c # 0 /\ (head + n) % c < c
      BY <2>2, <2>9
    <3>6. Len(g.rx) <= limit
      BY <2>8, <2>11
    <3>7. /\ g.uart_input_capacity \in {0} \union INITIAL_CAPACITY .. MAX_CAPACITY
          /\ g.uart_input_count <= g.uart_input_capacity
      BY <2>8, <3>3, <3>4
    <3>8. /\ DOMAIN g.uart_input =
               IF g.uart_input_capacity = 0 THEN {} ELSE 0 .. g.uart_input_capacity - 1
          /\ IF g.uart_input_capacity = 0 THEN g.uart_input_head = 0
             ELSE g.uart_input_head < g.uart_input_capacity
      BY <2>8, <3>3, <3>5
    <3>9. \A k \in 1 .. g.uart_input_count : g.uart_input[Place(g, k)] \in Nat
      BY <2>8, <3>2
    <3>10. QED BY <3>1, <3>6, <3>7, <3>8, <3>9 DEF IsHost
  <2>13. /\ Queued(g) \in Seq(Nat) /\ Len(Queued(g)) = m - n
         /\ \A k \in 1 .. m - n : Queued(g)[k] = Queued(h)[n + k]
    <3>1. /\ Queued(g) \in Seq(Nat) /\ Len(Queued(g)) = m - n
          /\ \A k \in 1 .. m - n : Queued(g)[k] = h.uart_input[Place(g, k)]
      BY <2>8, <2>12, QueuedIs
    <3>2. QED BY <2>4, <2>10, <3>1
  <2>14. Waiting(g) = Waiting(h)
    <3>1. PICK r, q, p, l : r = h.rx /\ q = Queued(h) /\ p = Queued(g) /\ l = Len(r)
      OBVIOUS
    <3>2. /\ r \in Seq(Nat) /\ q \in Seq(Nat) /\ p \in Seq(Nat) /\ l \in Nat
          /\ Len(q) = m /\ Len(p) = m - n
      BY <2>4, <2>13, <3>1
    <3>3. /\ r \o sent \in Seq(Nat) /\ Len(r \o sent) = l + n
          /\ \A k \in 1 .. l + n : (r \o sent)[k] = IF k <= l THEN r[k] ELSE sent[k - l]
      <4>1. /\ r \o sent \in Seq(Nat) /\ Len(r \o sent) = Len(r) + Len(sent)
            /\ \A k \in 1 .. Len(r) + Len(sent) :
                 (r \o sent)[k] = IF k <= Len(r) THEN r[k] ELSE sent[k - Len(r)]
        BY <2>5, <3>2, Joined
      <4>2. QED BY <2>5, <3>1, <4>1
    <3>4. /\ r \o q \in Seq(Nat) /\ Len(r \o q) = l + m
          /\ \A k \in 1 .. l + m : (r \o q)[k] = IF k <= l THEN r[k] ELSE q[k - l]
      BY <3>1, <3>2, Joined
    <3>5. /\ (r \o sent) \o p \in Seq(Nat) /\ Len((r \o sent) \o p) = (l + n) + (m - n)
          /\ \A k \in 1 .. (l + n) + (m - n) :
               ((r \o sent) \o p)[k] = IF k <= l + n THEN (r \o sent)[k] ELSE p[k - (l + n)]
      <4>1. PICK z : z = r \o sent
        OBVIOUS
      <4>2. z \in Seq(Nat) /\ Len(z) = l + n
        BY <3>3, <4>1
      <4>3. /\ z \o p \in Seq(Nat) /\ Len(z \o p) = Len(z) + Len(p)
            /\ \A k \in 1 .. Len(z) + Len(p) : (z \o p)[k] = IF k <= Len(z) THEN z[k] ELSE p[k - Len(z)]
        BY <3>2, <4>2, Joined
      <4>4. QED BY <3>2, <4>1, <4>2, <4>3
    <3>6. (l + n) + (m - n) = l + m
      BY <2>2, <3>2
    <3>7. ASSUME NEW k \in 1 .. l + m
          PROVE  ((r \o sent) \o p)[k] = (r \o q)[k]
      <4>1. CASE k <= l
        <5>1. k \in 1 .. l + n /\ k <= l + n
          BY <2>2, <3>2, <4>1
        <5>2. ((r \o sent) \o p)[k] = r[k]
          BY <3>3, <3>5, <3>6, <4>1, <5>1
        <5>3. QED BY <3>4, <4>1, <5>2
      <4>2. CASE l < k /\ k <= l + n
        <5>1. k - l \in 1 .. n /\ k \in 1 .. l + n /\ ~ (k <= l)
          BY <2>2, <3>2, <4>2
        <5>2. ((r \o sent) \o p)[k] = sent[k - l]
          BY <3>3, <3>5, <3>6, <4>2, <5>1
        <5>3. (r \o q)[k] = q[k - l]
          BY <3>4, <5>1
        <5>4. QED BY <2>5, <3>1, <5>1, <5>2, <5>3
      <4>3. CASE l + n < k
        <5>1. k - (l + n) \in 1 .. m - n /\ ~ (k <= l) /\ ~ (k <= l + n) /\ n + (k - (l + n)) = k - l
          BY <2>2, <3>2, <4>3
        <5>2. ((r \o sent) \o p)[k] = p[k - (l + n)] /\ (r \o q)[k] = q[k - l]
          BY <3>4, <3>5, <3>6, <5>1
        <5>3. p[k - (l + n)] = q[n + (k - (l + n))]
          BY <2>13, <3>1, <5>1
        <5>4. QED BY <5>1, <5>2, <5>3
      <4>4. k <= l \/ (l < k /\ k <= l + n) \/ l + n < k
        BY <2>2, <3>2
      <4>5. QED BY <4>1, <4>2, <4>3, <4>4
    <3>8. (r \o sent) \o p = r \o q
      BY <3>4, <3>5, <3>6, <3>7, SameBytes
    <3>9. QED BY <2>8, <3>1, <3>8 DEF Waiting
  <2>15. QED BY <2>1, <2>6, <2>8, <2>11, <2>12, <2>14
<1>3. QED BY <1>1, <1>2

LEMMA JoinedThenOne ==
  ASSUME NEW s \in Seq(Nat), NEW t \in Seq(Nat), NEW b \in Nat
  PROVE  s \o Append(t, b) = Append(s \o t, b)
<1>1. PICK m, n, u, v, w : m = Len(s) /\ n = Len(t) /\ u = Append(t, b) /\ v = s \o t /\ w = s \o u
  OBVIOUS
<1>2. /\ u \in Seq(Nat) /\ Len(u) = n + 1 /\ m \in Nat /\ n \in Nat
      /\ \A k \in 1 .. n + 1 : u[k] = IF k <= n THEN t[k] ELSE b
  BY <1>1, Extended
<1>3. /\ v \in Seq(Nat) /\ Len(v) = m + n
      /\ \A k \in 1 .. m + n : v[k] = IF k <= m THEN s[k] ELSE t[k - m]
  BY <1>1, Joined
<1>4. /\ w \in Seq(Nat) /\ Len(w) = m + (n + 1)
      /\ \A k \in 1 .. m + (n + 1) : w[k] = IF k <= m THEN s[k] ELSE u[k - m]
  <2>1. /\ s \o u \in Seq(Nat) /\ Len(s \o u) = Len(s) + Len(u)
        /\ \A k \in 1 .. Len(s) + Len(u) : (s \o u)[k] = IF k <= Len(s) THEN s[k] ELSE u[k - Len(s)]
    BY <1>2, Joined
  <2>2. QED BY <1>1, <1>2, <2>1
<1>5. /\ Append(v, b) \in Seq(Nat) /\ Len(Append(v, b)) = (m + n) + 1
      /\ \A k \in 1 .. (m + n) + 1 : Append(v, b)[k] = IF k <= m + n THEN v[k] ELSE b
  BY <1>3, Extended
<1>6. ASSUME NEW k \in 1 .. (m + n) + 1
      PROVE  w[k] = Append(v, b)[k]
  <2>1. w[k] = IF k <= m THEN s[k] ELSE u[k - m]
    BY <1>2, <1>4
  <2>2. ~ (k <= m) => k - m \in 1 .. n + 1 /\ (k - m <= n <=> k <= m + n)
    BY <1>2
  <2>3. k <= m + n => k \in 1 .. m + n
    BY <1>2
  <2>4. k <= m => k <= m + n
    BY <1>2
  <2>5. QED BY <1>2, <1>3, <1>5, <2>1, <2>2, <2>3, <2>4
<1>7. (m + n) + 1 = m + (n + 1)
  BY <1>2
<1>8. w = Append(v, b)
  BY <1>4, <1>5, <1>6, <1>7, SameBytes
<1>9. QED BY <1>1, <1>8

LEMMA LimitIs == Limit \in Nat \ {0}
BY InputSizesHold DEF Limit, InputSizes

(* A byte that the ring has room for is the last of what waits; so is one   *)
(* that the UART takes while the ring is empty.                             *)
LEMMA EnqueueIs ==
  ASSUME NEW h, NEW limit, IsHost(h, limit), NEW b \in Nat,
         h.uart_input_count < h.uart_input_capacity
  PROVE  LET g == Enqueue(h, b)
         IN  /\ IsHost(g, limit) /\ Waiting(g) = Append(Waiting(h), b)
             /\ g.uart_input_count = h.uart_input_count + 1
             /\ g.overrun = h.overrun /\ g.dropped = h.dropped
<1>1. PICK c, head, m, at, g :
        /\ c = h.uart_input_capacity /\ head = h.uart_input_head /\ m = h.uart_input_count
        /\ at = (head + m) % c /\ g = Enqueue(h, b)
  OBVIOUS
<1>2. /\ c \in Nat \ {0} /\ head \in Nat /\ head < c /\ m \in 0 .. c - 1
      /\ DOMAIN h.uart_input = 0 .. c - 1
  BY <1>1 DEF IsHost
<1>3. at \in 0 .. c - 1 /\ at = IF head + m < c THEN head + m ELSE head + m - c
  <2>1. PICK x : x = head + m
    OBVIOUS
  <2>2. x \in Nat /\ x < 2 * c
    BY <1>2, <2>1
  <2>3. PICK y : y = x % c
    OBVIOUS
  <2>4. y = (IF x < c THEN x ELSE x - c) /\ y \in 0 .. c - 1
    BY <1>2, <2>2, <2>3, Wraps
  <2>5. at = y
    BY <1>1, <2>1, <2>3
  <2>6. QED BY <1>2, <2>1, <2>4, <2>5
<1>4. /\ g = [h EXCEPT !.uart_input = [h.uart_input EXCEPT ![at] = b], !.uart_input_count = m + 1]
      /\ h \in [uart_input : {h.uart_input}, uart_input_capacity : Nat, uart_input_head : Nat,
                uart_input_count : Nat, rx : Seq(Nat), overrun : BOOLEAN, dropped : SUBSET Nat]
  BY <1>1 DEF Enqueue, IsHost
<1>5. /\ g.uart_input = [h.uart_input EXCEPT ![at] = b] /\ g.uart_input_count = m + 1
      /\ g.uart_input_capacity = c /\ g.uart_input_head = head /\ g.rx = h.rx
      /\ g.overrun = h.overrun /\ g.dropped = h.dropped
  BY <1>1, <1>4
<1>6. /\ DOMAIN g.uart_input = 0 .. c - 1
      /\ \A i \in 0 .. c - 1 : g.uart_input[i] = IF i = at THEN b ELSE h.uart_input[i]
  BY <1>2, <1>3, <1>5
<1>7. ASSUME NEW k \in 1 .. m + 1
      PROVE  /\ Place(g, k) = Place(h, k) /\ Place(h, k) \in 0 .. c - 1
             /\ Place(h, k) = at <=> k = m + 1
  <2>1. Place(g, k) = (head + k - 1) % c /\ Place(h, k) = (head + k - 1) % c
    BY <1>1, <1>5 DEF Place
  <2>2. k \in 1 .. c
    BY <1>2
  <2>3. /\ (head + k - 1) % c \in 0 .. c - 1
        /\ (head + k - 1) % c = IF head + k - 1 < c THEN head + k - 1 ELSE head + k - 1 - c
    BY <1>2, <2>2, Places
  <2>4. (IF head + k - 1 < c THEN head + k - 1 ELSE head + k - 1 - c) = at <=> k = m + 1
    BY <1>2, <1>3
  <2>5. QED BY <2>1, <2>3, <2>4
<1>8. \A k \in 1 .. m + 1 : g.uart_input[Place(g, k)] = IF k = m + 1 THEN b ELSE h.uart_input[Place(h, k)]
  BY <1>6, <1>7
<1>9. \A k \in 1 .. m : h.uart_input[Place(h, k)] \in Nat
  BY <1>1 DEF IsHost
<1>10. IsHost(g, limit)
  <2>1. g \in [uart_input : {g.uart_input}, uart_input_capacity : Nat, uart_input_head : Nat,
               uart_input_count : Nat, rx : Seq(Nat), overrun : BOOLEAN, dropped : SUBSET Nat]
    <3>1. PICK f : f = [h.uart_input EXCEPT ![at] = b]
      OBVIOUS
    <3>2. g = [h EXCEPT !.uart_input = f, !.uart_input_count = m + 1] /\ g.uart_input = f
      BY <1>4, <1>5, <3>1
    <3>3. QED BY <1>2, <1>4, <3>2
  <2>2. \A k \in 1 .. g.uart_input_count : g.uart_input[Place(g, k)] \in Nat
    <3>1. \A k \in 1 .. m + 1 : k = m + 1 \/ k \in 1 .. m
      BY <1>2
    <3>2. QED BY <1>5, <1>8, <1>9, <3>1
  <2>3. g.uart_input_capacity \in {0} \union INITIAL_CAPACITY .. MAX_CAPACITY /\ Len(g.rx) <= limit
    BY <1>1, <1>5 DEF IsHost
  <2>4. /\ g.uart_input_count <= g.uart_input_capacity /\ g.uart_input_capacity # 0
        /\ g.uart_input_head < g.uart_input_capacity
    BY <1>2, <1>5
  <2>5. DOMAIN g.uart_input = 0 .. g.uart_input_capacity - 1
    BY <1>5, <1>6
  <2>6. QED BY <2>1, <2>2, <2>3, <2>4, <2>5 DEF IsHost
<1>11. PICK q, p : q = Queued(h) /\ p = Queued(g)
  OBVIOUS
<1>12. /\ q \in Seq(Nat) /\ Len(q) = m /\ h.rx \in Seq(Nat)
       /\ \A k \in 1 .. m : q[k] = h.uart_input[Place(h, k)]
  BY <1>1, <1>11, QueuedIs
<1>13. /\ p \in Seq(Nat) /\ Len(p) = m + 1
       /\ \A k \in 1 .. m + 1 : p[k] = g.uart_input[Place(g, k)]
  BY <1>5, <1>10, <1>11, QueuedIs
<1>14. p = Append(q, b)
  <2>1. /\ Append(q, b) \in Seq(Nat) /\ Len(Append(q, b)) = m + 1
        /\ \A k \in 1 .. m + 1 : Append(q, b)[k] = IF k <= m THEN q[k] ELSE b
    BY <1>12, Extended
  <2>2. ASSUME NEW k \in 1 .. m + 1
        PROVE  p[k] = Append(q, b)[k]
    <3>1. (k <= m => k \in 1 .. m /\ k # m + 1) /\ (~ (k <= m) => k = m + 1)
      BY <1>2
    <3>2. QED BY <1>8, <1>12, <1>13, <2>1, <3>1
  <2>3. QED BY <1>13, <2>1, <2>2, SameBytes
<1>15. Waiting(g) = Append(Waiting(h), b)
  <2>1. h.rx \o Append(q, b) = Append(h.rx \o q, b)
    BY <1>12, JoinedThenOne
  <2>2. Waiting(g) = g.rx \o p /\ Waiting(h) = h.rx \o q
    BY <1>11 DEF Waiting
  <2>3. QED BY <1>5, <1>14, <2>1, <2>2
<1>16. QED BY <1>1, <1>5, <1>10, <1>15

LEMMA ReceiveIs ==
  ASSUME NEW h, IsHost(h, Limit), NEW b \in Nat, h.uart_input_count = 0, platform_uart_can_receive(h)
  PROVE  LET g == platform_uart_receive(h, b)
         IN  /\ IsHost(g, Limit) /\ Waiting(g) = Append(Waiting(h), b)
             /\ g.uart_input_count = 0 /\ g.overrun = h.overrun /\ g.dropped = h.dropped
<1>1. PICK g, r : g = platform_uart_receive(h, b) /\ r = h.rx
  OBVIOUS
<1>2. /\ g = [h EXCEPT !.rx = Append(r, b)]
      /\ h \in [uart_input : {h.uart_input}, uart_input_capacity : Nat, uart_input_head : Nat,
                uart_input_count : Nat, rx : Seq(Nat), overrun : BOOLEAN, dropped : SUBSET Nat]
  BY <1>1 DEF platform_uart_receive, IsHost
<1>3. /\ g.rx = Append(r, b) /\ g.uart_input = h.uart_input /\ g.uart_input_count = 0
      /\ g.uart_input_capacity = h.uart_input_capacity /\ g.uart_input_head = h.uart_input_head
      /\ g.overrun = h.overrun /\ g.dropped = h.dropped
  BY <1>2
<1>4. /\ r \in Seq(Nat) /\ Append(r, b) \in Seq(Nat) /\ Len(Append(r, b)) = Len(r) + 1
      /\ Len(r) < Limit /\ Len(r) \in Nat
  BY <1>1, <1>2, Extended DEF platform_uart_can_receive
<1>5. IsHost(g, Limit)
  <2>1. g \in [uart_input : {g.uart_input}, uart_input_capacity : Nat, uart_input_head : Nat,
               uart_input_count : Nat, rx : Seq(Nat), overrun : BOOLEAN, dropped : SUBSET Nat]
    BY <1>2, <1>3, <1>4
  <2>2. Len(g.rx) <= Limit
    BY <1>3, <1>4, LimitIs
  <2>3. \A k \in 1 .. g.uart_input_count : g.uart_input[Place(g, k)] \in Nat
    BY <1>3
  <2>4. QED BY <1>3, <2>1, <2>2, <2>3 DEF IsHost
<1>6. PICK q, p : q = Queued(h) /\ p = Queued(g)
  OBVIOUS
<1>7. q \in Seq(Nat) /\ p \in Seq(Nat) /\ Len(q) = 0 /\ Len(p) = 0
  BY <1>3, <1>5, <1>6, QueuedIs
<1>8. Append(r, b) \o p = Append(r \o q, b)
  <2>1. q = <<>> /\ p = <<>>
    BY <1>7
  <2>2. r \o <<>> = r /\ Append(r, b) \o <<>> = Append(r, b)
    BY <1>4
  <2>3. QED BY <2>1, <2>2
<1>9. QED BY <1>1, <1>3, <1>5, <1>6, <1>8 DEF Waiting

(* A grown ring holds what the old one held.                                *)
LEMMA GrowIs ==
  ASSUME NEW h, NEW limit, IsHost(h, limit), CanGrow(h)
  PROVE  LET g == grow_uart_input(h)
         IN  /\ IsHost(g, limit) /\ Waiting(g) = Waiting(h)
             /\ g.uart_input_count = h.uart_input_count
             /\ g.uart_input_count < g.uart_input_capacity
             /\ g.overrun = h.overrun /\ g.dropped = h.dropped
<1>1. PICK c, m, n, g : /\ c = h.uart_input_capacity /\ m = h.uart_input_count
                        /\ n = NewCapacity(h) /\ g = grow_uart_input(h)
  OBVIOUS
<1>2. c \in Nat /\ m \in 0 .. c /\ (c # 0 => c \in INITIAL_CAPACITY .. MAX_CAPACITY) /\ c < n
  BY <1>1 DEF IsHost, CanGrow
<1>3. n \in INITIAL_CAPACITY .. MAX_CAPACITY
  <2>1. CASE c = 0
    BY <1>1, <2>1, InputSizesHold DEF NewCapacity, InputSizes
  <2>2. CASE c # 0
    <3>1. n = Min({2 * c, MAX_CAPACITY})
      BY <1>1, <2>2 DEF NewCapacity
    <3>2. n = IF 2 * c <= MAX_CAPACITY THEN 2 * c ELSE MAX_CAPACITY
      BY <1>2, <3>1, LesserOf, InputSizesHold DEF InputSizes
    <3>3. QED BY <1>2, <2>2, <3>2, InputSizesHold DEF InputSizes
  <2>3. QED BY <2>1, <2>2
<1>4. n \in Nat \ {0} /\ m < n
  BY <1>2, <1>3, InputSizesHold DEF InputSizes
<1>5. PICK q : q = Queued(h)
  OBVIOUS
<1>6. q \in Seq(Nat) /\ Len(q) = m /\ h.rx \in Seq(Nat)
  BY <1>1, <1>5, QueuedIs
<1>7. /\ g = [h EXCEPT !.uart_input_capacity = n, !.uart_input_head = 0,
                       !.uart_input = [i \in 0 .. n - 1 |-> IF i < m THEN q[i + 1] ELSE 0]]
      /\ h \in [uart_input : {h.uart_input}, uart_input_capacity : Nat, uart_input_head : Nat,
                uart_input_count : Nat, rx : Seq(Nat), overrun : BOOLEAN, dropped : SUBSET Nat]
  BY <1>1, <1>5 DEF grow_uart_input, IsHost
<1>8. /\ g.uart_input = [i \in 0 .. n - 1 |-> IF i < m THEN q[i + 1] ELSE 0]
      /\ g.uart_input_count = m /\ g.uart_input_capacity = n /\ g.uart_input_head = 0
      /\ g.rx = h.rx /\ g.overrun = h.overrun /\ g.dropped = h.dropped
  BY <1>1, <1>7
<1>9. ASSUME NEW k \in 1 .. m
      PROVE  g.uart_input[Place(g, k)] = q[k]
  <2>1. Place(g, k) = (0 + k - 1) % n
    BY <1>8 DEF Place
  <2>2. k \in 1 .. n /\ 0 \in Nat /\ 0 < n
    BY <1>2, <1>4
  <2>3. (0 + k - 1) % n = IF 0 + k - 1 < n THEN 0 + k - 1 ELSE 0 + k - 1 - n
    BY <1>4, <2>2, Places
  <2>4. 0 + k - 1 = k - 1 /\ k - 1 < n /\ k - 1 \in 0 .. n - 1 /\ k - 1 < m /\ (k - 1) + 1 = k
    BY <1>2, <1>4
  <2>5. Place(g, k) = k - 1
    BY <2>1, <2>3, <2>4
  <2>6. QED BY <1>8, <2>4, <2>5
<1>10. \A k \in 1 .. m : q[k] \in Nat
  BY <1>6
<1>11. IsHost(g, limit)
  <2>1. g \in [uart_input : {g.uart_input}, uart_input_capacity : Nat, uart_input_head : Nat,
               uart_input_count : Nat, rx : Seq(Nat), overrun : BOOLEAN, dropped : SUBSET Nat]
    BY <1>4, <1>7, <1>8
  <2>2. \A k \in 1 .. g.uart_input_count : g.uart_input[Place(g, k)] \in Nat
    BY <1>8, <1>9, <1>10
  <2>3. /\ g.uart_input_capacity \in {0} \union INITIAL_CAPACITY .. MAX_CAPACITY
        /\ Len(g.rx) <= limit
    BY <1>3, <1>8 DEF IsHost
  <2>4. /\ g.uart_input_count <= g.uart_input_capacity /\ g.uart_input_capacity # 0
        /\ g.uart_input_head < g.uart_input_capacity
    BY <1>2, <1>4, <1>8
  <2>5. DOMAIN g.uart_input = 0 .. g.uart_input_capacity - 1
    BY <1>8
  <2>6. QED BY <2>1, <2>2, <2>3, <2>4, <2>5 DEF IsHost
<1>12. Queued(g) = q
  <2>1. PICK p : p = Queued(g)
    OBVIOUS
  <2>2. p \in Seq(Nat) /\ Len(p) = m /\ \A k \in 1 .. m : p[k] = g.uart_input[Place(g, k)]
    <3>1. /\ Queued(g) \in Seq(Nat) /\ Len(Queued(g)) = g.uart_input_count
          /\ \A k \in 1 .. g.uart_input_count : Queued(g)[k] = g.uart_input[Place(g, k)]
      BY <1>11, QueuedIs
    <3>2. QED BY <1>8, <2>1, <3>1
  <2>3. p = q
    BY <1>6, <1>9, <2>2, SameBytes
  <2>4. QED BY <2>1, <2>3
<1>13. QED BY <1>1, <1>4, <1>5, <1>8, <1>11, <1>12 DEF Waiting

LEMMA FlushIs ==
  ASSUME NEW h, IsHost(h, Limit)
  PROVE  LET g == flush_uart_input(h)
         IN  /\ IsHost(g, Limit) /\ Waiting(g) = Waiting(h)
             /\ g.uart_input_count \in 0 .. h.uart_input_count
             /\ g.uart_input_count = 0 \/ ~ platform_uart_can_receive(g)
             /\ g.overrun = h.overrun /\ g.dropped = h.dropped
<1>1. PICK m, l, n : /\ m = h.uart_input_count /\ l = Len(h.rx)
                     /\ n = Min({m, Limit - l})
  OBVIOUS
<1>2. m \in Nat /\ l \in Nat /\ l <= Limit /\ Limit \in Nat
  <2>1. h.rx \in Seq(Nat) /\ Len(h.rx) <= Limit /\ h.uart_input_count \in Nat
    BY DEF IsHost
  <2>2. QED BY <1>1, <2>1, LimitIs
<1>3. n = IF m <= Limit - l THEN m ELSE Limit - l
  BY <1>1, <1>2, LesserOf
<1>4. n \in 0 .. m /\ l + n <= Limit
  BY <1>2, <1>3
<1>5. PICK g : g = Flushed(h, n)
  OBVIOUS
<1>6. /\ IsHost(g, Limit) /\ Waiting(g) = Waiting(h)
      /\ g.uart_input_count = m - n /\ Len(g.rx) = l + n
      /\ g.overrun = h.overrun /\ g.dropped = h.dropped
  BY <1>1, <1>2, <1>4, <1>5, FlushedIs
<1>7. g = flush_uart_input(h)
  BY <1>1, <1>5 DEF flush_uart_input
<1>8. m - n \in 0 .. m /\ (m - n = 0 \/ ~ (l + n < Limit))
  BY <1>2, <1>3, <1>4
<1>9. QED BY <1>1, <1>6, <1>7, <1>8 DEF platform_uart_can_receive

(* A byte of the host is the last of what waits, or it is dropped and the   *)
(* guest is told; with memory to grow into, only a ring of full size drops. *)
LEMMA QueueIs ==
  ASSUME NEW h, IsHost(h, Limit), NEW b \in Nat, memory \in Int
  PROVE  LET g == queue_uart_input(h, b)
         IN  /\ IsHost(g, Limit) /\ g.uart_input_count <= h.uart_input_count + 1
             /\ \/ /\ Waiting(g) = Append(Waiting(h), b)
                   /\ g.overrun = h.overrun /\ g.dropped = h.dropped
                \/ /\ Waiting(g) = Waiting(h)
                   /\ g.overrun /\ g.dropped = h.dropped \union {b}
                   /\ memory >= MAX_CAPACITY => h.uart_input_count >= MAX_CAPACITY
<1>1. PICK f, g : f = flush_uart_input(h) /\ g = queue_uart_input(h, b)
  OBVIOUS
<1>2. /\ IsHost(f, Limit) /\ Waiting(f) = Waiting(h)
      /\ f.uart_input_count \in 0 .. h.uart_input_count /\ h.uart_input_count \in Nat
      /\ f.uart_input_count = 0 \/ ~ platform_uart_can_receive(f)
      /\ f.overrun = h.overrun /\ f.dropped = h.dropped
  BY <1>1, FlushIs DEF IsHost
<1>3. f.uart_input_count <= f.uart_input_capacity /\ f.uart_input_capacity \in Nat
  BY <1>2 DEF IsHost
<1>4. CASE Direct(f)
  <2>1. g = platform_uart_receive(f, b) /\ f.uart_input_count = 0 /\ platform_uart_can_receive(f)
    BY <1>1, <1>4 DEF queue_uart_input, Direct
  <2>2. /\ IsHost(g, Limit) /\ Waiting(g) = Append(Waiting(f), b)
        /\ g.uart_input_count = 0 /\ g.overrun = f.overrun /\ g.dropped = f.dropped
    BY <1>2, <2>1, ReceiveIs
  <2>3. 0 <= h.uart_input_count + 1
    BY <1>2
  <2>4. QED BY <1>1, <1>2, <2>2, <2>3
<1>5. CASE ~ Direct(f) /\ Full(f) /\ ~ CanGrow(f)
  <2>1. g = Refuse(f, b) /\ ~ platform_uart_can_receive(f)
    BY <1>1, <1>2, <1>5 DEF queue_uart_input, Direct
  <2>2. /\ g = [[f EXCEPT !.overrun = TRUE] EXCEPT !.dropped = f.dropped \union {b}]
        /\ f \in [uart_input : {f.uart_input}, uart_input_capacity : Nat, uart_input_head : Nat,
                  uart_input_count : Nat, rx : Seq(Nat), overrun : BOOLEAN, dropped : SUBSET Nat]
    BY <1>2, <2>1 DEF Refuse, platform_uart_receive, IsHost
  <2>3. /\ g.rx = f.rx /\ g.uart_input = f.uart_input /\ g.uart_input_count = f.uart_input_count
        /\ g.uart_input_capacity = f.uart_input_capacity /\ g.uart_input_head = f.uart_input_head
        /\ g.overrun = TRUE /\ g.dropped = f.dropped \union {b}
    BY <2>2
  <2>4. g \in [uart_input : {g.uart_input}, uart_input_capacity : Nat, uart_input_head : Nat,
               uart_input_count : Nat, rx : Seq(Nat), overrun : BOOLEAN, dropped : SUBSET Nat]
    BY <2>2, <2>3
  <2>5. Queued(g) = Queued(f) /\ \A k : Place(g, k) = Place(f, k)
    BY <2>3 DEF Queued, Place
  <2>6. IsHost(g, Limit)
    BY <1>2, <2>3, <2>4, <2>5 DEF IsHost
  <2>7. memory >= MAX_CAPACITY => h.uart_input_count >= MAX_CAPACITY
    <3>1. SUFFICES ASSUME memory >= MAX_CAPACITY PROVE h.uart_input_count >= MAX_CAPACITY
      OBVIOUS
    <3>2. PICK c : c = f.uart_input_capacity
      OBVIOUS
    <3>3. /\ c \in {0} \union INITIAL_CAPACITY .. MAX_CAPACITY /\ f.uart_input_count = c
          /\ ~ (c < NewCapacity(f) /\ NewCapacity(f) <= memory)
      BY <1>2, <1>5, <3>2 DEF IsHost, Full, CanGrow
    <3>4. c # 0
      BY <3>1, <3>2, <3>3, InputSizesHold DEF NewCapacity, InputSizes
    <3>5. c \in INITIAL_CAPACITY .. MAX_CAPACITY
      BY <3>3, <3>4
    <3>6. NewCapacity(f) = IF 2 * c <= MAX_CAPACITY THEN 2 * c ELSE MAX_CAPACITY
      <4>1. 2 * c \in Int /\ MAX_CAPACITY \in Int
        BY <3>5, InputSizesHold DEF InputSizes
      <4>2. QED BY <3>2, <3>4, <4>1, LesserOf DEF NewCapacity
    <3>7. c = MAX_CAPACITY
      BY <3>1, <3>3, <3>5, <3>6, InputSizesHold DEF InputSizes
    <3>8. QED BY <1>2, <3>3, <3>7, InputSizesHold DEF InputSizes
  <2>8. f.uart_input_count <= h.uart_input_count + 1
    BY <1>2
  <2>9. QED BY <1>1, <1>2, <2>3, <2>5, <2>6, <2>7, <2>8 DEF Waiting
<1>6. CASE ~ Direct(f) /\ Full(f) /\ CanGrow(f)
  <2>1. PICK e : e = grow_uart_input(f)
    OBVIOUS
  <2>2. /\ IsHost(e, Limit) /\ Waiting(e) = Waiting(f)
        /\ e.uart_input_count = f.uart_input_count
        /\ e.uart_input_count < e.uart_input_capacity
        /\ e.overrun = f.overrun /\ e.dropped = f.dropped
    BY <1>2, <1>6, <2>1, GrowIs
  <2>3. g = Enqueue(e, b)
    BY <1>1, <1>6, <2>1 DEF queue_uart_input
  <2>4. /\ IsHost(g, Limit) /\ Waiting(g) = Append(Waiting(e), b)
        /\ g.uart_input_count = e.uart_input_count + 1
        /\ g.overrun = e.overrun /\ g.dropped = e.dropped
    BY <2>2, <2>3, EnqueueIs
  <2>5. f.uart_input_count + 1 <= h.uart_input_count + 1
    BY <1>2
  <2>6. QED BY <1>1, <1>2, <2>2, <2>4, <2>5
<1>7. CASE ~ Direct(f) /\ ~ Full(f)
  <2>1. g = Enqueue(f, b) /\ f.uart_input_count < f.uart_input_capacity
    BY <1>1, <1>2, <1>3, <1>7 DEF queue_uart_input, Full
  <2>2. /\ IsHost(g, Limit) /\ Waiting(g) = Append(Waiting(f), b)
        /\ g.uart_input_count = f.uart_input_count + 1
        /\ g.overrun = f.overrun /\ g.dropped = f.dropped
    BY <1>2, <2>1, EnqueueIs
  <2>3. f.uart_input_count + 1 <= h.uart_input_count + 1
    BY <1>2
  <2>4. QED BY <1>1, <1>2, <2>2, <2>3
<1>8. QED BY <1>4, <1>5, <1>6, <1>7

-----------------------------------------------------------------------------
(* The account of the input: what waits is in order, newer than the last    *)
(* byte read and than the last reset, and every byte is waiting or gone.    *)

Accounted(w, last, gone, n, first) ==
  /\ w \in Seq(Nat) /\ n \in Nat \ {0} /\ last \in 0 .. n - 1 /\ first \in 1 .. n
  /\ \A i, j \in 1 .. Len(w) : i < j => w[i] < w[j]
  /\ \A i \in 1 .. Len(w) : last < w[i] /\ first <= w[i] /\ w[i] \in 1 .. n - 1 /\ w[i] \notin gone
  /\ gone \subseteq 1 .. n - 1
  /\ \A x \in 1 .. n - 1 : x \in gone \/ \E i \in 1 .. Len(w) : w[i] = x

LEMMA NextWaits ==
  ASSUME NEW w, NEW last, NEW gone, NEW n, NEW first, Accounted(w, last, gone, n, first)
  PROVE  Accounted(Append(w, n), last, gone, n + 1, first)
<1>1. PICK v, l : v = Append(w, n) /\ l = Len(w)
  OBVIOUS
<1>2. /\ w \in Seq(Nat) /\ n \in Nat \ {0} /\ l \in Nat /\ last \in 0 .. n - 1 /\ first \in 1 .. n
      /\ gone \subseteq 1 .. n - 1
  BY <1>1 DEF Accounted
<1>3. /\ v \in Seq(Nat) /\ Len(v) = l + 1
      /\ \A k \in 1 .. l + 1 : v[k] = IF k <= l THEN w[k] ELSE n
  BY <1>1, <1>2, Extended
<1>4. \A i \in 1 .. l + 1 : (i \in 1 .. l /\ v[i] = w[i]) \/ (i = l + 1 /\ v[i] = n)
  BY <1>2, <1>3
<1>5. ASSUME NEW i \in 1 .. l + 1
      PROVE  last < v[i] /\ first <= v[i] /\ v[i] \in 1 .. n /\ v[i] \notin gone
  <2>1. CASE i \in 1 .. l /\ v[i] = w[i]
    <3>1. last < w[i] /\ first <= w[i] /\ w[i] \in 1 .. n - 1 /\ w[i] \notin gone
      BY <1>1, <2>1 DEF Accounted
    <3>2. QED BY <1>2, <2>1, <3>1
  <2>2. CASE i = l + 1 /\ v[i] = n
    BY <1>2, <2>2
  <2>3. QED BY <1>4, <2>1, <2>2
<1>6. ASSUME NEW i \in 1 .. l + 1, NEW j \in 1 .. l + 1, i < j
      PROVE  v[i] < v[j]
  <2>1. i \in 1 .. l /\ v[i] = w[i]
    BY <1>2, <1>4, <1>6
  <2>2. CASE j \in 1 .. l /\ v[j] = w[j]
    BY <1>1, <1>6, <2>1, <2>2 DEF Accounted
  <2>3. CASE j = l + 1 /\ v[j] = n
    <3>1. w[i] \in 1 .. n - 1
      BY <1>1, <2>1 DEF Accounted
    <3>2. QED BY <1>2, <2>1, <2>3, <3>1
  <2>4. QED BY <1>4, <2>2, <2>3
<1>7. ASSUME NEW x \in 1 .. n
      PROVE  x \in gone \/ \E i \in 1 .. l + 1 : v[i] = x
  <2>1. CASE x = n
    <3>1. l + 1 \in 1 .. l + 1 /\ v[l + 1] = n
      BY <1>2, <1>3
    <3>2. QED BY <2>1, <3>1
  <2>2. CASE x # n
    <3>1. x \in 1 .. n - 1
      BY <1>2, <2>2
    <3>2. x \in gone \/ \E i \in 1 .. l : w[i] = x
      BY <1>1, <3>1 DEF Accounted
    <3>3. ASSUME NEW i \in 1 .. l, w[i] = x
          PROVE  \E k \in 1 .. l + 1 : v[k] = x
      <4>1. i \in 1 .. l + 1 /\ v[i] = w[i]
        BY <1>2, <1>3
      <4>2. QED BY <3>3, <4>1
    <3>4. QED BY <3>2, <3>3
  <2>3. QED BY <2>1, <2>2
<1>8. n + 1 \in Nat \ {0} /\ last \in 0 .. (n + 1) - 1 /\ first \in 1 .. n + 1 /\ (n + 1) - 1 = n
  BY <1>2
<1>9. gone \subseteq 1 .. n
  BY <1>2
<1>10. QED BY <1>1, <1>3, <1>5, <1>6, <1>7, <1>8, <1>9 DEF Accounted

LEMMA NextIsGone ==
  ASSUME NEW w, NEW last, NEW gone, NEW n, NEW first, Accounted(w, last, gone, n, first)
  PROVE  Accounted(w, last, gone \union {n}, n + 1, first)
<1>1. PICK l : l = Len(w)
  OBVIOUS
<1>2. /\ w \in Seq(Nat) /\ n \in Nat \ {0} /\ l \in Nat /\ last \in 0 .. n - 1 /\ first \in 1 .. n
      /\ gone \subseteq 1 .. n - 1
  BY <1>1 DEF Accounted
<1>3. ASSUME NEW i \in 1 .. l
      PROVE  last < w[i] /\ first <= w[i] /\ w[i] \in 1 .. n /\ w[i] \notin gone \union {n}
  <2>1. last < w[i] /\ first <= w[i] /\ w[i] \in 1 .. n - 1 /\ w[i] \notin gone
    BY <1>1 DEF Accounted
  <2>2. QED BY <1>2, <2>1
<1>4. ASSUME NEW x \in 1 .. n
      PROVE  x \in gone \union {n} \/ \E i \in 1 .. l : w[i] = x
  <2>1. x = n \/ x \in 1 .. n - 1
    BY <1>2
  <2>2. QED BY <1>1, <2>1 DEF Accounted
<1>5. n + 1 \in Nat \ {0} /\ last \in 0 .. (n + 1) - 1 /\ first \in 1 .. n + 1 /\ (n + 1) - 1 = n
  BY <1>2
<1>6. gone \union {n} \subseteq 1 .. n
  BY <1>2
<1>7. \A i, j \in 1 .. Len(w) : i < j => w[i] < w[j]
  BY DEF Accounted
<1>8. QED BY <1>1, <1>2, <1>3, <1>4, <1>5, <1>6, <1>7 DEF Accounted

(* Taking the first byte away settles it.                                   *)
LEMMA FirstIsRead ==
  ASSUME NEW w, NEW last, NEW gone, NEW n, NEW first, Accounted(w, last, gone, n, first), w # <<>>
  PROVE  Accounted(Tail(w), Head(w), gone \union {Head(w)}, n, first)
<1>1. PICK v, l, x : v = Tail(w) /\ l = Len(w) /\ x = Head(w)
  OBVIOUS
<1>2. /\ w \in Seq(Nat) /\ n \in Nat \ {0} /\ l \in Nat \ {0} /\ first \in 1 .. n
      /\ gone \subseteq 1 .. n - 1 /\ x = w[1]
  BY <1>1 DEF Accounted
<1>3. v \in Seq(Nat) /\ Len(v) = l - 1 /\ \A k \in 1 .. l - 1 : v[k] = w[k + 1]
  BY <1>1, <1>2
<1>4. /\ \A i, j \in 1 .. l : i < j => w[i] < w[j]
      /\ \A i \in 1 .. l : last < w[i] /\ first <= w[i] /\ w[i] \in 1 .. n - 1 /\ w[i] \notin gone
      /\ \A y \in 1 .. n - 1 : y \in gone \/ \E i \in 1 .. l : w[i] = y
  BY <1>1 DEF Accounted
<1>5. x \in 1 .. n - 1
  BY <1>2, <1>4
<1>6. ASSUME NEW i \in 1 .. l - 1
      PROVE  x < v[i] /\ first <= v[i] /\ v[i] \in 1 .. n - 1 /\ v[i] \notin gone \union {x}
  <2>1. i + 1 \in 1 .. l /\ 1 \in 1 .. l /\ 1 < i + 1
    BY <1>2
  <2>2. w[1] < w[i + 1] /\ first <= w[i + 1] /\ w[i + 1] \in 1 .. n - 1 /\ w[i + 1] \notin gone
    BY <1>4, <2>1
  <2>3. v[i] = w[i + 1]
    BY <1>3
  <2>4. QED BY <1>2, <1>5, <2>2, <2>3
<1>7. ASSUME NEW i \in 1 .. l - 1, NEW j \in 1 .. l - 1, i < j
      PROVE  v[i] < v[j]
  <2>1. i + 1 \in 1 .. l /\ j + 1 \in 1 .. l /\ i + 1 < j + 1
    BY <1>2, <1>7
  <2>2. w[i + 1] < w[j + 1]
    BY <1>4, <2>1
  <2>3. QED BY <1>3, <2>2
<1>8. ASSUME NEW y \in 1 .. n - 1
      PROVE  y \in gone \union {x} \/ \E i \in 1 .. l - 1 : v[i] = y
  <2>1. CASE y \in gone
    BY <2>1
  <2>2. CASE \E i \in 1 .. l : w[i] = y
    <3>1. PICK i \in 1 .. l : w[i] = y
      BY <2>2
    <3>2. CASE i = 1
      BY <1>2, <3>1, <3>2
    <3>3. CASE i # 1
      <4>1. i - 1 \in 1 .. l - 1 /\ (i - 1) + 1 = i
        BY <1>2, <3>3
      <4>2. v[i - 1] = y
        BY <1>3, <3>1, <4>1
      <4>3. QED BY <4>1, <4>2
    <3>4. QED BY <3>2, <3>3
  <2>3. QED BY <1>4, <2>1, <2>2
<1>9. Accounted(v, x, gone \union {x}, n, first)
  <2>1. x \in 0 .. n - 1 /\ gone \union {x} \subseteq 1 .. n - 1
    <3>1. x \in 0 .. n - 1
      BY <1>2, <1>5
    <3>2. gone \union {x} \subseteq 1 .. n - 1
      BY <1>2, <1>5, Zenon
    <3>3. QED BY <3>1, <3>2
  <2>2. PICK all : all = gone \union {x}
    OBVIOUS
  <2>3. Accounted(v, x, all, n, first)
    BY <1>2, <1>3, <1>6, <1>7, <1>8, <2>1, <2>2 DEF Accounted
  <2>4. QED BY <2>2, <2>3
<1>10. QED BY <1>1, <1>9

(* A cleared FIFO settles what it held.                                     *)
LEMMA FrontIsGone ==
  ASSUME NEW r \in Seq(Nat), NEW q \in Seq(Nat), NEW last, NEW gone, NEW n, NEW first,
         Accounted(r \o q, last, gone, n, first)
  PROVE  Accounted(q, last, gone \union ToSet(r), n, first)
<1>1. PICK w, l, m, all : w = r \o q /\ l = Len(r) /\ m = Len(q) /\ all = gone \union ToSet(r)
  OBVIOUS
<1>2. /\ w \in Seq(Nat) /\ n \in Nat \ {0} /\ last \in 0 .. n - 1 /\ first \in 1 .. n
      /\ gone \subseteq 1 .. n - 1 /\ l \in Nat /\ m \in Nat
  BY <1>1 DEF Accounted
<1>3. Len(w) = l + m /\ \A k \in 1 .. l + m : w[k] = IF k <= l THEN r[k] ELSE q[k - l]
  BY <1>1, Joined
<1>4. /\ \A i, j \in 1 .. l + m : i < j => w[i] < w[j]
      /\ \A i \in 1 .. l + m : last < w[i] /\ first <= w[i] /\ w[i] \in 1 .. n - 1 /\ w[i] \notin gone
      /\ \A y \in 1 .. n - 1 : y \in gone \/ \E i \in 1 .. l + m : w[i] = y
  BY <1>1, <1>3 DEF Accounted
<1>5. ASSUME NEW k \in 1 .. l
      PROVE  k \in 1 .. l + m /\ w[k] = r[k]
  BY <1>2, <1>3
<1>6. ASSUME NEW k \in 1 .. m
      PROVE  l + k \in 1 .. l + m /\ w[l + k] = q[k] /\ l < l + k
  <2>1. l + k \in 1 .. l + m /\ ~ (l + k <= l) /\ (l + k) - l = k
    BY <1>2
  <2>2. QED BY <1>2, <1>3, <2>1
<1>7. \A y : y \in ToSet(r) <=> \E k \in 1 .. l : r[k] = y
  <2>1. DOMAIN r = 1 .. l
    BY <1>1
  <2>2. QED BY <2>1, Zenon DEF ToSet
<1>8. ASSUME NEW i \in 1 .. m
      PROVE  last < q[i] /\ first <= q[i] /\ q[i] \in 1 .. n - 1 /\ q[i] \notin all
  <2>1. last < q[i] /\ first <= q[i] /\ q[i] \in 1 .. n - 1 /\ q[i] \notin gone
    BY <1>4, <1>6
  <2>2. ASSUME NEW k \in 1 .. l, r[k] = q[i]
        PROVE  FALSE
    <3>1. /\ k \in 1 .. l + m /\ l + i \in 1 .. l + m /\ k < l + i
      BY <1>2, <1>5, <1>6
    <3>2. w[k] < w[l + i]
      BY <1>4, <3>1
    <3>3. w[k] = q[i] /\ w[l + i] = q[i]
      BY <1>5, <1>6, <2>2
    <3>4. QED BY <2>1, <3>2, <3>3
  <2>3. QED BY <1>1, <1>7, <2>1, <2>2
<1>9. ASSUME NEW i \in 1 .. m, NEW j \in 1 .. m, i < j
      PROVE  q[i] < q[j]
  <2>1. l + i < l + j
    BY <1>2, <1>9
  <2>2. w[l + i] < w[l + j]
    BY <1>4, <1>6, <2>1
  <2>3. QED BY <1>6, <2>2
<1>10. ASSUME NEW y \in 1 .. n - 1
       PROVE  y \in all \/ \E i \in 1 .. m : q[i] = y
  <2>1. CASE y \in gone
    BY <1>1, <2>1
  <2>2. CASE \E i \in 1 .. l + m : w[i] = y
    <3>1. PICK i \in 1 .. l + m : w[i] = y
      BY <2>2
    <3>2. CASE i <= l
      <4>1. i \in 1 .. l /\ r[i] = y
        BY <1>2, <1>3, <3>1, <3>2
      <4>2. QED BY <1>1, <1>7, <4>1
    <3>3. CASE ~ (i <= l)
      <4>1. i - l \in 1 .. m /\ q[i - l] = y
        BY <1>2, <1>3, <3>1, <3>3
      <4>2. QED BY <4>1
    <3>4. QED BY <3>2, <3>3
  <2>3. QED BY <1>4, <2>1, <2>2
<1>11. all \subseteq 1 .. n - 1
  <2>1. \A k \in 1 .. l : r[k] \in 1 .. n - 1
    BY <1>4, <1>5
  <2>2. ASSUME NEW y \in all PROVE y \in 1 .. n - 1
    <3>1. y \in gone \/ \E k \in 1 .. l : r[k] = y
      BY <1>1, <1>7, Zenon
    <3>2. QED BY <1>2, <2>1, <3>1, Zenon
  <2>3. QED BY <2>2
<1>12. Accounted(q, last, all, n, first)
  BY <1>1, <1>2, <1>8, <1>9, <1>10, <1>11 DEF Accounted
<1>13. QED BY <1>1, <1>12

(* A reset of the board leaves nothing of before behind.                    *)
LEMMA NothingIsLeft ==
  ASSUME NEW r \in Seq(Nat), NEW q \in Seq(Nat), NEW last, NEW gone, NEW n, NEW first,
         Accounted(r \o q, last, gone, n, first)
  PROVE  Accounted(<<>>, last, (gone \union ToSet(r)) \union ToSet(q), n, n)
<1>1. PICK some, all : some = gone \union ToSet(r) /\ all = some \union ToSet(q)
  OBVIOUS
<1>2. Accounted(q, last, some, n, first)
  BY <1>1, FrontIsGone
<1>3. q \o <<>> = q /\ <<>> \in Seq(Nat)
  OBVIOUS
<1>4. Accounted(<<>>, last, all, n, first)
  BY <1>1, <1>2, <1>3, FrontIsGone
<1>5. Len(<<>>) = 0 /\ n \in Nat \ {0} /\ n \in 1 .. n
  BY <1>2 DEF Accounted
<1>6. Accounted(<<>>, last, all, n, n)
  BY <1>4, <1>5 DEF Accounted
<1>7. QED BY <1>1, <1>6

-----------------------------------------------------------------------------
(* One byte of a read(), and all of them.                                   *)

\* The step i of the loop: bytes up to n - 1 are waiting or gone; count0 is
\* what the ring held before the loop.
Looping(s, n, i, count0) ==
  /\ s \in [host : {s.host}, escape : BOOLEAN, quit : BOOLEAN, stop : BOOLEAN,
            swallowed : SUBSET Nat]
  /\ IsHost(s.host, Limit)
  /\ Accounted(Waiting(s.host), read, (settled \union s.host.dropped) \union s.swallowed, n, born)
  /\ host.overrun \/ s.host.dropped # {} => s.host.overrun
  /\ source = "pipe" /\ memory >= MAX_CAPACITY =>
       s.host.dropped = {} /\ s.host.uart_input_count <= count0 + i

LEMMA TakeIs ==
  ASSUME NEW s, NEW i \in Nat, NEW n, NEW count0 \in Nat, Looping(s, n, i, count0), memory \in Int,
         NEW b, b.number = n,
         source = "pipe" => count0 + i < MAX_CAPACITY
  PROVE  Looping(Take(s, b), n + 1, i + 1, count0)
<1>1. PICK t, w, gone : /\ t = Take(s, b) /\ w = Waiting(s.host)
                        /\ gone = (settled \union s.host.dropped) \union s.swallowed
  OBVIOUS
<1>2. /\ s \in [host : {s.host}, escape : BOOLEAN, quit : BOOLEAN, stop : BOOLEAN,
                swallowed : SUBSET Nat]
      /\ IsHost(s.host, Limit) /\ Accounted(w, read, gone, n, born)
  BY <1>1 DEF Looping
<1>3. n \in Nat
  BY <1>2 DEF Accounted
<1>4. CASE /\ t.host = s.host /\ t.swallowed = s.swallowed \union {n}
           /\ t \in [host : {s.host}, escape : BOOLEAN, quit : BOOLEAN, stop : BOOLEAN,
                     swallowed : SUBSET Nat]
  <2>1. Accounted(w, read, gone \union {n}, n + 1, born)
    BY <1>2, NextIsGone
  <2>2. gone \union {n} = (settled \union t.host.dropped) \union t.swallowed
    BY <1>1, <1>4
  <2>3. t \in [host : {t.host}, escape : BOOLEAN, quit : BOOLEAN, stop : BOOLEAN,
               swallowed : SUBSET Nat]
    BY <1>4
  <2>4. Accounted(Waiting(t.host), read, (settled \union t.host.dropped) \union t.swallowed, n + 1, born)
    BY <1>1, <1>4, <2>1, <2>2
  <2>5. source = "pipe" /\ memory >= MAX_CAPACITY =>
          s.host.dropped = {} /\ s.host.uart_input_count <= count0 + (i + 1)
    <3>1. s.host.uart_input_count \in Nat
      BY <1>2 DEF IsHost
    <3>2. QED BY <3>1 DEF Looping
  <2>6. host.overrun \/ s.host.dropped # {} => s.host.overrun
    BY DEF Looping
  <2>7. IsHost(t.host, Limit)
    BY <1>2, <1>4
  <2>8. /\ host.overrun \/ t.host.dropped # {} => t.host.overrun
        /\ source = "pipe" /\ memory >= MAX_CAPACITY =>
             t.host.dropped = {} /\ t.host.uart_input_count <= count0 + (i + 1)
    BY <1>4, <2>5, <2>6
  <2>9. QED BY <1>1, <2>3, <2>4, <2>7, <2>8 DEF Looping
<1>5. CASE /\ t.host = queue_uart_input(s.host, n) /\ t.swallowed = s.swallowed
           /\ t \in [host : {t.host}, escape : BOOLEAN, quit : BOOLEAN, stop : BOOLEAN,
                     swallowed : SUBSET Nat]
  <2>1. PICK h, g : h = s.host /\ g = t.host
    OBVIOUS
  <2>2. /\ IsHost(g, Limit) /\ g.uart_input_count <= h.uart_input_count + 1
        /\ \/ /\ Waiting(g) = Append(Waiting(h), n)
              /\ g.overrun = h.overrun /\ g.dropped = h.dropped
           \/ /\ Waiting(g) = Waiting(h)
              /\ g.overrun /\ g.dropped = h.dropped \union {n}
              /\ memory >= MAX_CAPACITY => h.uart_input_count >= MAX_CAPACITY
    BY <1>2, <1>3, <1>5, <2>1, QueueIs
  <2>3. /\ host.overrun \/ h.dropped # {} => h.overrun
        /\ source = "pipe" /\ memory >= MAX_CAPACITY =>
             h.dropped = {} /\ h.uart_input_count <= count0 + i
    BY <2>1 DEF Looping
  <2>4. h.uart_input_count \in Nat /\ g.uart_input_count \in Nat
    BY <1>2, <2>1, <2>2 DEF IsHost
  <2>5. Accounted(Waiting(g), read, (settled \union g.dropped) \union t.swallowed, n + 1, born)
    <3>1. CASE Waiting(g) = Append(Waiting(h), n) /\ g.dropped = h.dropped
      <4>1. Accounted(Append(w, n), read, gone, n + 1, born)
        BY <1>2, NextWaits
      <4>2. gone = (settled \union g.dropped) \union t.swallowed
        BY <1>1, <1>5, <2>1, <3>1
      <4>3. Waiting(g) = Append(w, n)
        BY <1>1, <2>1, <3>1
      <4>4. QED BY <4>1, <4>2, <4>3
    <3>2. CASE Waiting(g) = Waiting(h) /\ g.dropped = h.dropped \union {n}
      <4>1. Accounted(w, read, gone \union {n}, n + 1, born)
        BY <1>2, NextIsGone
      <4>2. gone \union {n} = (settled \union g.dropped) \union t.swallowed
        BY <1>1, <1>5, <2>1, <3>2
      <4>3. Waiting(g) = w
        BY <1>1, <2>1, <3>2
      <4>4. QED BY <4>1, <4>2, <4>3
    <3>3. QED BY <2>2, <3>1, <3>2
  <2>6. host.overrun \/ g.dropped # {} => g.overrun
    BY <2>2, <2>3
  <2>7. source = "pipe" /\ memory >= MAX_CAPACITY =>
          g.dropped = {} /\ g.uart_input_count <= count0 + (i + 1)
    <3>1. SUFFICES ASSUME source = "pipe", memory >= MAX_CAPACITY
                   PROVE  g.dropped = {} /\ g.uart_input_count <= count0 + (i + 1)
      OBVIOUS
    <3>2. h.dropped = {} /\ h.uart_input_count <= count0 + i /\ count0 + i < MAX_CAPACITY
      BY <2>3, <3>1
    <3>3. ~ (h.uart_input_count >= MAX_CAPACITY)
      BY <2>4, <3>2, InputSizesHold DEF InputSizes
    <3>4. g.dropped = {}
      BY <2>2, <3>1, <3>2, <3>3
    <3>5. g.uart_input_count <= count0 + (i + 1)
      BY <2>2, <2>4, <3>2
    <3>6. QED BY <3>4, <3>5
  <2>8. QED BY <1>1, <1>5, <2>1, <2>2, <2>5, <2>6, <2>7 DEF Looping
<1>6. QED
  <2>1. PICK q : q = queue_uart_input(s.host, n)
    OBVIOUS
  <2>2. PICK kept : kept = [s EXCEPT !.host = q, !.escape = FALSE,
                                     !.stop = source = "pipe" /\ n \in q.dropped]
    OBVIOUS
  <2>3. /\ kept.host = q /\ kept.swallowed = s.swallowed
        /\ kept \in [host : {q}, escape : BOOLEAN, quit : BOOLEAN, stop : BOOLEAN,
                     swallowed : SUBSET Nat]
    BY <1>2, <2>2
  <2>4. PICK passed : passed = [s EXCEPT !.swallowed = s.swallowed \union {n}]
    OBVIOUS
  <2>5. /\ passed.host = s.host /\ passed.swallowed = s.swallowed \union {n}
        /\ passed \in [host : {s.host}, escape : BOOLEAN, quit : BOOLEAN, stop : BOOLEAN,
                       swallowed : SUBSET Nat]
    BY <1>2, <1>3, <2>4
  <2>6. \/ t = kept \/ t = passed
        \/ t = [passed EXCEPT !.escape = FALSE, !.quit = TRUE, !.stop = TRUE]
        \/ t = [passed EXCEPT !.escape = TRUE]
    BY <1>1, <2>1, <2>2, <2>4 DEF Take
  <2>7. CASE t = kept
    BY <1>5, <2>1, <2>3, <2>7
  <2>8. CASE t = passed
    BY <1>4, <2>5, <2>8
  <2>9. CASE t = [passed EXCEPT !.escape = FALSE, !.quit = TRUE, !.stop = TRUE]
    <3>1. /\ t.host = s.host /\ t.swallowed = s.swallowed \union {n}
          /\ t \in [host : {s.host}, escape : BOOLEAN, quit : BOOLEAN, stop : BOOLEAN,
                    swallowed : SUBSET Nat]
      BY <2>5, <2>9
    <3>2. QED BY <1>4, <3>1
  <2>10. CASE t = [passed EXCEPT !.escape = TRUE]
    <3>1. /\ t.host = s.host /\ t.swallowed = s.swallowed \union {n}
          /\ t \in [host : {s.host}, escape : BOOLEAN, quit : BOOLEAN, stop : BOOLEAN,
                    swallowed : SUBSET Nat]
      BY <2>5, <2>10
    <3>2. QED BY <1>4, <3>1
  <2>11. QED BY <2>6, <2>7, <2>8, <2>9, <2>10

-----------------------------------------------------------------------------
(* The invariant.                                                           *)

InputInv ==
  /\ IsHost(host, Limit) /\ host.dropped = {}
  /\ memory \in Int /\ next \in 1 .. INPUT + 1 /\ headless_escape \in BOOLEAN
  /\ Accounted(Waiting(host), read, settled, next, born)
  /\ PipeIsLossless

\* What the host may do to the line status.
KeepsOverrun ==
  /\ lost' # lost => host'.overrun
  /\ host.overrun => host'.overrun

LEMMA InputInitially == InputInit => InputInv
<1> SUFFICES ASSUME InputInit PROVE InputInv
  OBVIOUS
<1>1. PICK h : h = HostInit
  OBVIOUS
<1>2. /\ h.uart_input = <<>> /\ h.uart_input_capacity = 0 /\ h.uart_input_head = 0
      /\ h.uart_input_count = 0 /\ h.rx = <<>> /\ h.overrun = FALSE /\ h.dropped = {}
      /\ h \in [uart_input : {h.uart_input}, uart_input_capacity : Nat, uart_input_head : Nat,
                uart_input_count : Nat, rx : Seq(Nat), overrun : BOOLEAN, dropped : SUBSET Nat]
  BY <1>1 DEF HostInit
<1>3. IsHost(h, Limit)
  <2>1. DOMAIN h.uart_input = {} /\ Len(h.rx) = 0 /\ 0 <= Limit
    BY <1>2, LimitIs
  <2>2. \A k \in 1 .. h.uart_input_count : FALSE
    BY <1>2
  <2>3. QED BY <1>2, <2>1, <2>2 DEF IsHost
<1>4. Waiting(h) = <<>>
  <2>1. Queued(h) \in Seq(Nat) /\ Len(Queued(h)) = 0
    BY <1>2, <1>3, QueuedIs
  <2>2. Queued(h) = <<>>
    BY <2>1
  <2>3. QED BY <1>2, <2>2 DEF Waiting
<1>5. Accounted(<<>>, 0, {}, 1, 1)
  <2>1. Len(<<>>) = 0 /\ <<>> \in Seq(Nat) /\ 1 .. 0 = {} /\ 1 - 1 = 0
    OBVIOUS
  <2>2. \A i \in 1 .. 0 : FALSE
    OBVIOUS
  <2>3. QED BY <2>1, <2>2 DEF Accounted
<1>6. memory \in Int /\ next \in 1 .. INPUT + 1 /\ headless_escape \in BOOLEAN
  <2>1. INITIAL_CAPACITY - 1 \in Int /\ INITIAL_CAPACITY \in Int /\ 2 * MAX_CAPACITY \in Int
    BY InputSizesHold DEF InputSizes
  <2>2. memory \in Int
    BY <2>1 DEF InputInit
  <2>3. next \in 1 .. INPUT + 1
    BY InputSizesHold DEF InputInit, InputSizes
  <2>4. QED BY <2>2, <2>3 DEF InputInit
<1>7. QED BY <1>1, <1>2, <1>3, <1>4, <1>5, <1>6 DEF InputInit, InputInv, PipeIsLossless

(* A host action that left the queue as in g.                               *)
LEMMA HostActs ==
  ASSUME InputInv, NEW g, NEW n \in 1 .. INPUT + 1, NEW swallowed,
         IsHost(g, Limit),
         Accounted(Waiting(g), read, (settled \union g.dropped) \union swallowed, n, born),
         host.overrun \/ g.dropped # {} => g.overrun,
         source = "pipe" /\ memory >= MAX_CAPACITY => g.dropped = {},
         Settle(g, swallowed), next' = n, headless_escape' \in BOOLEAN,
         UNCHANGED <<setup, wide, read, born>>
  PROVE  InputInv' /\ KeepsOverrun
<1>1. /\ g \in [uart_input : {g.uart_input}, uart_input_capacity : Nat, uart_input_head : Nat,
                uart_input_count : Nat, rx : Seq(Nat), overrun : BOOLEAN, dropped : SUBSET Nat]
      /\ host' = [g EXCEPT !.dropped = {}] /\ lost' = lost \union g.dropped
      /\ settled' = (settled \union g.dropped) \union swallowed
  BY DEF IsHost, Settle
<1>2. /\ host'.uart_input = g.uart_input /\ host'.uart_input_capacity = g.uart_input_capacity
      /\ host'.uart_input_head = g.uart_input_head /\ host'.uart_input_count = g.uart_input_count
      /\ host'.rx = g.rx /\ host'.overrun = g.overrun /\ host'.dropped = {}
      /\ host' \in [uart_input : {g.uart_input}, uart_input_capacity : Nat, uart_input_head : Nat,
                    uart_input_count : Nat, rx : Seq(Nat), overrun : BOOLEAN, dropped : SUBSET Nat]
  BY <1>1
<1>3. Queued(host') = Queued(g) /\ \A k : Place(host', k) = Place(g, k)
  BY <1>2 DEF Queued, Place
<1>4. Limit' = Limit
  BY DEF Limit
<1>5. IsHost(host, Limit)'
  BY <1>2, <1>3, <1>4 DEF IsHost
<1>6. Waiting(host)' = Waiting(g)
  BY <1>2, <1>3 DEF Waiting
<1>7. Accounted(Waiting(host), read, settled, next, born)'
  BY <1>1, <1>6 DEF Accounted
<1>8. PipeIsLossless'
  <2>1. source' = source /\ memory' = memory
    BY DEF setup
  <2>2. SUFFICES ASSUME source = "pipe", memory >= MAX_CAPACITY PROVE lost' = {}
    BY <2>1 DEF PipeIsLossless
  <2>3. lost = {} /\ g.dropped = {}
    BY <2>2 DEF InputInv, PipeIsLossless
  <2>4. QED BY <1>1, <2>3
<1>9. memory' \in Int
  BY DEF setup, InputInv
<1>10. InputInv'
  BY <1>2, <1>5, <1>7, <1>8, <1>9 DEF InputInv
<1>11. KeepsOverrun
  BY <1>1, <1>2 DEF KeepsOverrun
<1>12. QED BY <1>10, <1>11

LEMMA FlushHolds ==
  ASSUME InputInv
  PROVE  LET g == flush_uart_input(host)
         IN  /\ IsHost(g, Limit) /\ g.uart_input_count \in Nat /\ g.dropped = {}
             /\ Accounted(Waiting(g), read, settled, next, born)
             /\ host.overrun => g.overrun
<1>1. IsHost(host, Limit) /\ host.dropped = {} /\ Accounted(Waiting(host), read, settled, next, born)
  BY DEF InputInv
<1>2. PICK g : g = flush_uart_input(host)
  OBVIOUS
<1>3. IsHost(g, Limit) /\ Waiting(g) = Waiting(host) /\ g.overrun = host.overrun /\ g.dropped = host.dropped
  BY <1>1, <1>2, FlushIs
<1>4. g.uart_input_count \in Nat
  BY <1>3 DEF IsHost
<1>5. QED BY <1>1, <1>2, <1>3, <1>4

LEMMA FlushSettles ==
  ASSUME InputInv, Settle(flush_uart_input(host), {}), next' = next, headless_escape' = headless_escape,
         UNCHANGED <<setup, wide, read, born>>
  PROVE  InputInv' /\ KeepsOverrun
<1>1. PICK g : g = flush_uart_input(host)
  OBVIOUS
<1>2. /\ IsHost(g, Limit) /\ g.dropped = {} /\ Accounted(Waiting(g), read, settled, next, born)
      /\ host.overrun => g.overrun
  BY <1>1, FlushHolds
<1>3. settled = (settled \union g.dropped) \union {}
  BY <1>2
<1>4. Accounted(Waiting(g), read, (settled \union g.dropped) \union {}, next, born)
  BY <1>2, <1>3
<1>5. next \in 1 .. INPUT + 1 /\ headless_escape' \in BOOLEAN /\ Settle(g, {})
  BY <1>1 DEF InputInv
<1>6. QED BY <1>2, <1>4, <1>5, HostActs

LEMMA KeySettles == InputInv /\ KeyToUart => InputInv' /\ KeepsOverrun
<1> SUFFICES ASSUME InputInv, KeyToUart PROVE InputInv' /\ KeepsOverrun
  OBVIOUS
<1>1. PICK g : g = queue_uart_input(host, next)
  OBVIOUS
<1>2. /\ IsHost(host, Limit) /\ host.dropped = {} /\ Accounted(Waiting(host), read, settled, next, born)
      /\ memory \in Int /\ next \in 1 .. INPUT + 1 /\ headless_escape \in BOOLEAN /\ next \in Nat
  BY InputSizesHold DEF InputInv, InputSizes
<1>3. /\ IsHost(g, Limit)
      /\ \/ /\ Waiting(g) = Append(Waiting(host), next)
            /\ g.overrun = host.overrun /\ g.dropped = {}
         \/ /\ Waiting(g) = Waiting(host)
            /\ g.overrun /\ g.dropped = {next}
  <2>1. /\ IsHost(g, Limit)
        /\ \/ /\ Waiting(g) = Append(Waiting(host), next)
              /\ g.overrun = host.overrun /\ g.dropped = host.dropped
           \/ /\ Waiting(g) = Waiting(host)
              /\ g.overrun /\ g.dropped = host.dropped \union {next}
    BY <1>1, <1>2, QueueIs
  <2>2. {} \union {next} = {next}
    OBVIOUS
  <2>3. QED BY <1>2, <2>1, <2>2
<1>4. Accounted(Waiting(g), read, (settled \union g.dropped) \union {}, next + 1, born)
  <2>1. CASE Waiting(g) = Append(Waiting(host), next) /\ g.dropped = {}
    <3>1. Accounted(Waiting(g), read, settled, next + 1, born)
      BY <1>2, <2>1, NextWaits
    <3>2. (settled \union g.dropped) \union {} = settled
      BY <2>1
    <3>3. QED BY <3>1, <3>2
  <2>2. CASE Waiting(g) = Waiting(host) /\ g.dropped = {next}
    <3>1. Accounted(Waiting(g), read, settled \union {next}, next + 1, born)
      BY <1>2, <2>2, NextIsGone
    <3>2. (settled \union g.dropped) \union {} = settled \union {next}
      BY <2>2
    <3>3. QED BY <3>1, <3>2
  <2>3. QED BY <1>3, <2>1, <2>2
<1>5. next + 1 \in 1 .. INPUT + 1 /\ source # "pipe" /\ Settle(g, {}) /\ next' = next + 1
  BY <1>1, <1>2, InputSizesHold DEF KeyToUart, InputSizes
<1>6. headless_escape' \in BOOLEAN /\ UNCHANGED <<setup, wide, read, born>>
  BY <1>2 DEF KeyToUart
<1>7. host.overrun \/ g.dropped # {} => g.overrun
  BY <1>3
<1>8. QED BY <1>3, <1>4, <1>5, <1>6, <1>7, HostActs

LEMMA PollSettles == InputInv /\ poll_headless_uart_input => InputInv' /\ KeepsOverrun
<1> SUFFICES ASSUME InputInv, poll_headless_uart_input PROVE InputInv' /\ KeepsOverrun
  OBVIOUS
<1>1. PICK f : f = flush_uart_input(host)
  OBVIOUS
<1>2. PICK n \in 1 .. Min({Available(f), INPUT - next + 1}) :
        \E kind \in [1 .. n -> IF source = "terminal" THEN {Plain, CtrlBracket, Q} ELSE {Plain}] :
          LET bytes == [i \in 1 .. n |-> [number |-> next + i - 1, kind |-> kind[i]]]
              s == Taken([host |-> f, escape |-> headless_escape,
                          quit |-> FALSE, stop |-> FALSE, swallowed |-> {}], bytes)
          IN  /\ Settle(s.host, s.swallowed)
              /\ headless_escape' = s.escape /\ quit' = s.quit
              /\ next' = next + n
  BY <1>1 DEF poll_headless_uart_input
<1>3. PICK kind \in [1 .. n -> IF source = "terminal" THEN {Plain, CtrlBracket, Q} ELSE {Plain}] :
        LET bytes == [i \in 1 .. n |-> [number |-> next + i - 1, kind |-> kind[i]]]
            s == Taken([host |-> f, escape |-> headless_escape,
                        quit |-> FALSE, stop |-> FALSE, swallowed |-> {}], bytes)
        IN  /\ Settle(s.host, s.swallowed)
            /\ headless_escape' = s.escape /\ quit' = s.quit
            /\ next' = next + n
  BY <1>2
<1>4. PICK bytes, before : /\ bytes = [i \in 1 .. n |-> [number |-> next + i - 1, kind |-> kind[i]]]
                           /\ before = [host |-> f, escape |-> headless_escape,
                                        quit |-> FALSE, stop |-> FALSE, swallowed |-> {}]
  OBVIOUS
<1>5. PICK s : s = Taken(before, bytes)
  OBVIOUS
<1>6. Settle(s.host, s.swallowed) /\ headless_escape' = s.escape /\ next' = next + n
  BY <1>3, <1>4, <1>5
<1>7. UNCHANGED <<setup, wide, read, born>>
  BY DEF poll_headless_uart_input
<1>8. PICK c : c = f.uart_input_count
  OBVIOUS
<1>9. /\ IsHost(f, Limit) /\ c \in Nat /\ f.dropped = {}
      /\ Accounted(Waiting(f), read, settled, next, born)
      /\ host.overrun => f.overrun
  BY <1>1, <1>8, FlushHolds
<1>10. memory \in Int /\ next \in 1 .. INPUT + 1 /\ headless_escape \in BOOLEAN
  BY DEF InputInv
<1>11. /\ n \in Nat /\ n >= 1 /\ next + n \in 1 .. INPUT + 1
       /\ source = "pipe" => c + n <= MAX_CAPACITY
  <2>1. PICK a, m : a = Available(f) /\ m = Min({a, INPUT - next + 1})
    OBVIOUS
  <2>2. /\ a \in Int /\ INPUT - next + 1 \in Int
        /\ source = "pipe" => a <= MAX_CAPACITY - c
    <3>1. CASE source = "terminal"
      BY <1>10, <2>1, <3>1, InputSizesHold DEF Available, InputSizes
    <3>2. CASE source # "terminal"
      <4>1. a = Min({CHUNK, MAX_CAPACITY - c})
        BY <1>8, <2>1, <3>2 DEF Available
      <4>2. CHUNK \in Int /\ MAX_CAPACITY - c \in Int
        BY <1>9, InputSizesHold DEF InputSizes
      <4>3. a = IF CHUNK <= MAX_CAPACITY - c THEN CHUNK ELSE MAX_CAPACITY - c
        BY <4>1, <4>2, LesserOf
      <4>4. INPUT - next + 1 \in Int
        BY <1>10, InputSizesHold DEF InputSizes
      <4>5. QED BY <4>2, <4>3, <4>4
    <3>3. QED BY <3>1, <3>2
  <2>3. m = IF a <= INPUT - next + 1 THEN a ELSE INPUT - next + 1
    BY <2>1, <2>2, LesserOf
  <2>4. n \in 1 .. m
    BY <2>1
  <2>5. QED BY <1>9, <1>10, <2>2, <2>3, <2>4, InputSizesHold DEF InputSizes
<1>12. Len(bytes) = n /\ \A i \in 1 .. n : bytes[i].number = next + i - 1
  <2>1. PICK kinds : kinds = IF source = "terminal" THEN {Plain, CtrlBracket, Q} ELSE {Plain}
    OBVIOUS
  <2>2. \A i \in 1 .. n : next + i - 1 \in Int /\ kind[i] \in kinds
    BY <1>3, <1>10, <1>11, <2>1
  <2>3. bytes \in [1 .. n -> [number : Int, kind : kinds]]
    BY <1>4, <2>2
  <2>4. Len(bytes) = n
    BY <1>11, <2>3
  <2>5. QED BY <1>4, <2>4
<1>13. PICK run : /\ run[0] = before
                  /\ \A i \in 1 .. n : run[i] = Take(run[i - 1], bytes[i])
                  /\ s = run[n]
  BY <1>5, <1>11, <1>12, TakenRun
<1> DEFINE good == {i \in 0 .. n : Looping(run[i], next + i, i, c)}
<1>14. 0 \in good
  <2>1. /\ before.host = f /\ before.swallowed = {}
        /\ before \in [host : {f}, escape : BOOLEAN, quit : BOOLEAN, stop : BOOLEAN,
                       swallowed : SUBSET Nat]
    BY <1>4, <1>10
  <2>2. (settled \union f.dropped) \union {} = settled
    BY <1>9
  <2>3. Accounted(Waiting(f), read, (settled \union f.dropped) \union {}, next, born)
    BY <1>9, <2>2
  <2>4. next + 0 = next /\ c + 0 = c /\ c <= c
    BY <1>9, <1>10
  <2>5. Looping(before, next + 0, 0, c)
    BY <1>8, <1>9, <2>1, <2>3, <2>4 DEF Looping
  <2>6. QED BY <1>11, <1>13, <2>5
<1>15. ASSUME NEW i \in 1 .. n, i - 1 \in good
       PROVE  i \in good
  <2>1. PICK j, m, b : j = i - 1 /\ m = next + j /\ b = bytes[i]
    OBVIOUS
  <2>2. Looping(run[j], m, j, c)
    BY <1>15, <2>1
  <2>3. j \in Nat /\ m + 1 = next + i /\ j + 1 = i /\ c + j < c + n /\ next + i - 1 = m
    BY <1>9, <1>10, <1>11, <2>1
  <2>4. b.number = m
    BY <1>12, <2>1, <2>3
  <2>5. source = "pipe" => c + j < MAX_CAPACITY
    BY <1>9, <1>11, <2>3, InputSizesHold DEF InputSizes
  <2>6. Looping(Take(run[j], b), m + 1, j + 1, c)
    BY <1>9, <1>10, <2>2, <2>3, <2>4, <2>5, TakeIs
  <2>7. run[i] = Take(run[j], b)
    BY <1>13, <2>1
  <2>8. QED BY <2>3, <2>6, <2>7
<1>16. n \in good
  <2> HIDE DEF good
  <2>1. \A i \in 0 .. n : i \in good
    BY <1>11, <1>14, <1>15, Upwards
  <2>2. QED BY <1>11, <2>1
<1>17. Looping(s, next + n, n, c)
  BY <1>13, <1>16
<1>18. s.escape \in BOOLEAN
  BY <1>17 DEF Looping
<1>19. /\ IsHost(s.host, Limit)
       /\ Accounted(Waiting(s.host), read, (settled \union s.host.dropped) \union s.swallowed, next + n, born)
       /\ host.overrun \/ s.host.dropped # {} => s.host.overrun
       /\ source = "pipe" /\ memory >= MAX_CAPACITY => s.host.dropped = {}
  BY <1>17 DEF Looping
<1>20. QED BY <1>6, <1>7, <1>11, <1>18, <1>19, HostActs

-----------------------------------------------------------------------------
(* The guest's actions, and the theorems.                                   *)

LEMMA InputSteps == InputInv /\ [InputNext]_input_vars =>
  /\ InputInv'
  /\ lost' # lost => host'.overrun
  /\ host.overrun /\ ~ host'.overrun =>
       /\ UNCHANGED <<next, lost>>
       /\ host'.rx = <<>> \/ Waiting(host)' = Waiting(host)
<1> SUFFICES ASSUME InputInv, [InputNext]_input_vars
             PROVE  /\ InputInv'
                    /\ lost' # lost => host'.overrun
                    /\ host.overrun /\ ~ host'.overrun =>
                         /\ UNCHANGED <<next, lost>>
                         /\ host'.rx = <<>> \/ Waiting(host)' = Waiting(host)
  OBVIOUS
<1>1. CASE FlushOnPoll
  <2>1. /\ Settle(flush_uart_input(host), {}) /\ next' = next /\ headless_escape' = headless_escape
        /\ UNCHANGED <<setup, wide, read, born>>
    BY <1>1 DEF FlushOnPoll
  <2>2. QED BY <2>1, FlushSettles DEF KeepsOverrun
<1>2. CASE poll_headless_uart_input
  BY <1>2, PollSettles DEF KeepsOverrun
<1>3. CASE EndOfInput
  <2>1. /\ Settle(flush_uart_input(host), {}) /\ next' = next /\ headless_escape' = headless_escape
        /\ UNCHANGED <<setup, wide, read, born>>
    BY <1>3 DEF EndOfInput
  <2>2. QED BY <2>1, FlushSettles DEF KeepsOverrun
<1>4. CASE KeyToUart
  BY <1>4, KeySettles DEF KeepsOverrun
<1>5. PICK q, r, l : q = Queued(host) /\ r = host.rx /\ l = Len(r)
  OBVIOUS
<1>6. /\ IsHost(host, Limit) /\ host.dropped = {} /\ q \in Seq(Nat) /\ r \in Seq(Nat) /\ l \in Nat
      /\ l <= Limit
      /\ host \in [uart_input : {host.uart_input}, uart_input_capacity : Nat, uart_input_head : Nat,
                   uart_input_count : Nat, rx : Seq(Nat), overrun : BOOLEAN, dropped : SUBSET Nat]
      /\ Accounted(r \o q, read, settled, next, born)
  BY <1>5, QueuedIs DEF InputInv, IsHost, Waiting
<1>7. \A h : /\ h.uart_input = host.uart_input /\ h.uart_input_capacity = host.uart_input_capacity
             /\ h.uart_input_head = host.uart_input_head /\ h.uart_input_count = host.uart_input_count
             => Queued(h) = q /\ \A k : Place(h, k) = Place(host, k)
  BY <1>5 DEF Queued, Place
<1>8. CASE GuestRead
  <2>1. /\ r # <<>> /\ read' = Head(r) /\ host' = [host EXCEPT !.rx = Tail(r)]
        /\ settled' = settled \union {Head(r)}
        /\ UNCHANGED <<setup, wide, next, headless_escape, lost, born>>
    BY <1>5, <1>8 DEF GuestRead
  <2>2. Tail(r) \in Seq(Nat) /\ Len(Tail(r)) <= Limit
    BY <1>5, <1>6, <2>1, LimitIs
  <2>3. /\ host'.rx = Tail(r) /\ host'.overrun = host.overrun /\ host'.dropped = {}
        /\ host'.uart_input = host.uart_input /\ host'.uart_input_capacity = host.uart_input_capacity
        /\ host'.uart_input_head = host.uart_input_head
        /\ host'.uart_input_count = host.uart_input_count
        /\ host' \in [uart_input : {host.uart_input}, uart_input_capacity : Nat, uart_input_head : Nat,
                      uart_input_count : Nat, rx : Seq(Nat), overrun : BOOLEAN, dropped : SUBSET Nat]
    BY <1>6, <2>1, <2>2
  <2>4. Queued(host') = q /\ \A k : Place(host', k) = Place(host, k)
    BY <1>7, <2>3
  <2>5. Limit' = Limit
    BY <2>1 DEF Limit
  <2>6. IsHost(host, Limit)'
    BY <1>6, <2>2, <2>3, <2>4, <2>5 DEF IsHost
  <2>7. Accounted(Waiting(host), read, settled, next, born)'
    <3>1. PICK w : w = r \o q
      OBVIOUS
    <3>2. w # <<>> /\ Head(w) = Head(r) /\ Tail(w) = Tail(r) \o q
      BY <1>6, <2>1, <3>1
    <3>3. Accounted(Tail(w), Head(w), settled \union {Head(w)}, next, born)
      BY <1>6, <3>1, <3>2, FirstIsRead
    <3>4. Waiting(host)' = Tail(w)
      BY <2>3, <2>4, <3>2 DEF Waiting
    <3>5. QED BY <2>1, <3>2, <3>3, <3>4 DEF Accounted
  <2>8. InputInv'
    BY <2>1, <2>3, <2>6, <2>7 DEF InputInv, PipeIsLossless, setup
  <2>9. QED BY <2>1, <2>3, <2>8
<1>9. CASE GuestReadsLineStatus
  <2>1. /\ host' = [host EXCEPT !.overrun = FALSE]
        /\ UNCHANGED <<setup, wide, next, headless_escape, read, settled, lost, born>>
    BY <1>9 DEF GuestReadsLineStatus
  <2>2. /\ host'.rx = r /\ host'.dropped = {}
        /\ host'.uart_input = host.uart_input /\ host'.uart_input_capacity = host.uart_input_capacity
        /\ host'.uart_input_head = host.uart_input_head
        /\ host'.uart_input_count = host.uart_input_count
        /\ host' \in [uart_input : {host.uart_input}, uart_input_capacity : Nat, uart_input_head : Nat,
                      uart_input_count : Nat, rx : Seq(Nat), overrun : BOOLEAN, dropped : SUBSET Nat]
    BY <1>5, <1>6, <2>1
  <2>3. Queued(host') = q /\ \A k : Place(host', k) = Place(host, k)
    BY <1>7, <2>2
  <2>4. Limit' = Limit
    BY <2>1 DEF Limit
  <2>5. IsHost(host, Limit)'
    BY <1>5, <1>6, <2>2, <2>3, <2>4 DEF IsHost
  <2>6. Waiting(host)' = Waiting(host)
    BY <1>5, <2>2, <2>3 DEF Waiting
  <2>7. Accounted(Waiting(host), read, settled, next, born)'
    BY <2>1, <2>6 DEF InputInv, Accounted
  <2>8. InputInv'
    BY <2>1, <2>2, <2>5, <2>7 DEF InputInv, PipeIsLossless, setup
  <2>9. QED BY <2>1, <2>6, <2>8
<1>10. CASE GuestClearsFifo
  <2>1. /\ host' = [host EXCEPT !.rx = <<>>, !.overrun = FALSE]
        /\ settled' = settled \union ToSet(r)
        /\ UNCHANGED <<setup, next, headless_escape, read, lost, born>>
    BY <1>5, <1>10 DEF GuestClearsFifo
  <2>2. /\ host'.rx = <<>> /\ host'.dropped = {}
        /\ host'.uart_input = host.uart_input /\ host'.uart_input_capacity = host.uart_input_capacity
        /\ host'.uart_input_head = host.uart_input_head
        /\ host'.uart_input_count = host.uart_input_count
        /\ host' \in [uart_input : {host.uart_input}, uart_input_capacity : Nat, uart_input_head : Nat,
                      uart_input_count : Nat, rx : Seq(Nat), overrun : BOOLEAN, dropped : SUBSET Nat]
    <3>1. PICK empty : empty = <<>>
      OBVIOUS
    <3>2. empty \in Seq(Nat)
      BY <3>1
    <3>3. host' = [host EXCEPT !.rx = empty, !.overrun = FALSE]
      BY <2>1, <3>1
    <3>4. QED BY <1>6, <3>1, <3>2, <3>3
  <2>3. Queued(host') = q /\ \A k : Place(host', k) = Place(host, k)
    BY <1>7, <2>2
  <2>4. Limit' \in Nat
    BY InputSizesHold DEF Limit, InputSizes
  <2>5. Len(<<>>) <= Limit'
    BY <2>4
  <2>6. IsHost(host, Limit)'
    BY <1>6, <2>2, <2>3, <2>5 DEF IsHost
  <2>7. Waiting(host)' = q
    <3>1. <<>> \o q = q
      BY <1>6
    <3>2. QED BY <2>2, <2>3, <3>1 DEF Waiting
  <2>8. Accounted(q, read, settled \union ToSet(r), next, born)
    BY <1>6, FrontIsGone
  <2>9. Accounted(Waiting(host), read, settled, next, born)'
    BY <2>1, <2>7, <2>8 DEF Accounted
  <2>10. InputInv'
    BY <2>1, <2>2, <2>6, <2>9 DEF InputInv, PipeIsLossless, setup
  <2>11. QED BY <2>1, <2>2, <2>10
<1>11. CASE BoardReset
  <2>1. PICK g : g = debugger_board_reset
    OBVIOUS
  <2>2. /\ g = [host EXCEPT !.rx = <<>>, !.overrun = FALSE,
                            !.uart_input_head = 0, !.uart_input_count = 0]
        /\ host' = [g EXCEPT !.dropped = {}] /\ lost' = lost \union g.dropped
        /\ settled' = (settled \union g.dropped) \union (ToSet(r) \union ToSet(q))
        /\ born' = next /\ headless_escape' = FALSE
        /\ UNCHANGED <<setup, next, read>>
    BY <1>5, <1>11, <2>1 DEF BoardReset, Settle, debugger_board_reset
  <2>3. g.dropped = {}
    BY <1>6, <2>2
  <2>4. /\ host'.rx = <<>> /\ host'.dropped = {}
        /\ host'.uart_input = host.uart_input /\ host'.uart_input_capacity = host.uart_input_capacity
        /\ host'.uart_input_head = 0 /\ host'.uart_input_count = 0
        /\ host' \in [uart_input : {host.uart_input}, uart_input_capacity : Nat, uart_input_head : Nat,
                      uart_input_count : Nat, rx : Seq(Nat), overrun : BOOLEAN, dropped : SUBSET Nat]
    <3>1. PICK empty : empty = <<>>
      OBVIOUS
    <3>2. empty \in Seq(Nat) /\ g.dropped = {}
      BY <2>3, <3>1
    <3>3. g = [host EXCEPT !.rx = empty, !.overrun = FALSE,
                           !.uart_input_head = 0, !.uart_input_count = 0]
      BY <2>2, <3>1
    <3>4. host' = [g EXCEPT !.dropped = {}]
      BY <2>2
    <3>5. g \in [uart_input : {host.uart_input}, uart_input_capacity : Nat, uart_input_head : Nat,
                 uart_input_count : Nat, rx : Seq(Nat), overrun : BOOLEAN, dropped : SUBSET Nat]
      BY <1>6, <3>2, <3>3
    <3>6. QED BY <1>6, <3>1, <3>2, <3>3, <3>4, <3>5
  <2>5. Limit' \in Nat /\ Len(<<>>) = 0
    BY InputSizesHold DEF Limit, InputSizes
  <2>6. IsHost(host, Limit)'
    <3>1. \A k \in 1 .. host'.uart_input_count : FALSE
      BY <2>4
    <3>2. /\ Len(host'.rx) <= Limit' /\ host'.uart_input_count <= host'.uart_input_capacity
          /\ IF host'.uart_input_capacity = 0 THEN host'.uart_input_head = 0
             ELSE host'.uart_input_head < host'.uart_input_capacity
      <4>1. host.uart_input_capacity \in Nat
        BY <1>6
      <4>2. QED BY <2>4, <2>5, <4>1
    <3>3. /\ host'.uart_input_capacity \in {0} \union INITIAL_CAPACITY .. MAX_CAPACITY
          /\ DOMAIN host'.uart_input =
               IF host'.uart_input_capacity = 0 THEN {} ELSE 0 .. host'.uart_input_capacity - 1
      BY <1>6, <2>4 DEF IsHost
    <3>4. host' \in [uart_input : {host'.uart_input}, uart_input_capacity : Nat, uart_input_head : Nat,
                     uart_input_count : Nat, rx : Seq(Nat), overrun : BOOLEAN, dropped : SUBSET Nat]
      BY <2>4
    <3>5. QED BY <3>1, <3>2, <3>3, <3>4 DEF IsHost
  <2>7. Waiting(host)' = <<>>
    <3>1. 0 \in Nat /\ IsHost(host', Limit')
      BY <2>6
    <3>2. Queued(host') \in Seq(Nat) /\ Len(Queued(host')) = 0
      BY <2>4, <3>1, QueuedIs
    <3>3. Queued(host') = <<>>
      BY <3>2
    <3>4. QED BY <2>4, <3>3 DEF Waiting
  <2>8. Accounted(<<>>, read, (settled \union ToSet(r)) \union ToSet(q), next, next)
    BY <1>6, NothingIsLeft
  <2>9. settled' = (settled \union ToSet(r)) \union ToSet(q)
    BY <2>2, <2>3
  <2>10. Accounted(Waiting(host), read, settled, next, born)'
    BY <2>2, <2>7, <2>8, <2>9 DEF Accounted
  <2>11. lost' = lost
    BY <2>2, <2>3
  <2>12. InputInv'
    BY <2>2, <2>4, <2>6, <2>10, <2>11 DEF InputInv, PipeIsLossless, setup
  <2>13. QED BY <2>2, <2>4, <2>11, <2>12
<1>12. CASE UNCHANGED input_vars
  <2>1. /\ host' = host /\ wide' = wide /\ source' = source /\ memory' = memory /\ next' = next
        /\ headless_escape' = headless_escape /\ read' = read /\ settled' = settled
        /\ lost' = lost /\ born' = born
    BY <1>12 DEF input_vars
  <2>2. Limit' = Limit /\ Waiting(host)' = Waiting(host)
    BY <2>1 DEF Limit, Waiting, Queued
  <2>3. InputInv'
    BY <2>1, <2>2 DEF InputInv, IsHost, Place, Accounted, PipeIsLossless
  <2>4. QED BY <2>1, <2>2, <2>3
<1>13. QED BY <1>1, <1>2, <1>3, <1>4, <1>8, <1>9, <1>10, <1>11, <1>12 DEF InputNext

LEMMA InputInvIsSafe == InputInv => InputSafe
<1> SUFFICES ASSUME InputInv PROVE InputSafe
  OBVIOUS
<1>1. PICK w, l : w = Waiting(host) /\ l = Len(w)
  OBVIOUS
<1>2. Pending = w
  BY <1>1 DEF Pending, Waiting
<1>3. /\ w \in Seq(Nat) /\ l \in Nat /\ DOMAIN w = 1 .. l
      /\ next \in 1 .. INPUT + 1 /\ read \in 0 .. next - 1 /\ born \in 1 .. next
      /\ \A i, j \in 1 .. l : i < j => w[i] < w[j]
      /\ \A i \in 1 .. l : read < w[i] /\ born <= w[i] /\ w[i] \in 1 .. next - 1 /\ w[i] \notin settled
      /\ settled \subseteq 1 .. next - 1
      /\ \A x \in 1 .. next - 1 : x \in settled \/ \E i \in 1 .. l : w[i] = x
  BY <1>1 DEF InputInv, Accounted
<1>4. InOrder
  BY <1>2, <1>3 DEF InOrder
<1>5. NoneVanishes
  <2>1. \A x : x \in ToSet(w) <=> \E i \in 1 .. l : w[i] = x
    BY <1>3, Zenon DEF ToSet
  <2>2. \A x \in ToSet(w) : x \in 1 .. next - 1 /\ x \notin settled
    BY <1>3, <2>1, Zenon
  <2>3. 1 .. next - 1 \subseteq ToSet(w) \union settled
    BY <1>3, <2>1, Zenon
  <2>4. QED BY <1>2, <1>3, <2>2, <2>3, Zenon DEF NoneVanishes
<1>6. ResetForgets
  <2>1. \A i \in 1 .. l : w[i] >= born
    BY <1>3
  <2>2. QED BY <1>2, <1>3, <2>1 DEF ResetForgets
<1>7. InputTypeOK
  <2>1. PICK c, head : c = host.uart_input_capacity /\ head = host.uart_input_head
    OBVIOUS
  <2>2. /\ c \in Nat /\ head \in Nat /\ Len(host.rx) <= Limit /\ host.dropped = {}
        /\ host.uart_input_count <= c /\ c \in {0} \union INITIAL_CAPACITY .. MAX_CAPACITY
        /\ DOMAIN host.uart_input = IF c = 0 THEN {} ELSE 0 .. c - 1
        /\ IF c = 0 THEN head = 0 ELSE head < c
    BY <2>1 DEF InputInv, IsHost
  <2>3. Max({0, c - 1}) = IF 0 >= c - 1 THEN 0 ELSE c - 1
    BY <2>2, GreaterOf
  <2>4. head \in 0 .. Max({0, c - 1})
    BY <2>2, <2>3
  <2>5. read \in 0 .. INPUT
    BY <1>3, InputSizesHold DEF InputSizes
  <2>6. QED BY <1>3, <2>1, <2>2, <2>4, <2>5 DEF InputTypeOK
<1>8. QED BY <1>4, <1>5, <1>6, <1>7 DEF InputSafe, InputInv

(* Whatever the sizes of the ring, of the FIFO and of a read(), and however *)
(* little memory there is: the bytes of the host wait in order, none is     *)
(* lost without a record, a reset forgets them, and a pipe loses none.      *)
THEOREM InputIsSafe == InputSpec => []InputSafe
<1>1. InputInit => InputInv
  BY InputInitially
<1>2. InputInv /\ [InputNext]_input_vars => InputInv'
  BY InputSteps
<1>3. InputInv => InputSafe
  BY InputInvIsSafe
<1>4. QED BY <1>1, <1>2, <1>3, PTL DEF InputSpec

(* The guest is told of every loss, and only the guest or a reset takes the *)
(* mark away.                                                               *)
THEOREM InputSignalsLoss == InputSpec => LossIsSignalled
<1>1. InputInit => InputInv
  BY InputInitially
<1>2. InputInv /\ [InputNext]_input_vars => InputInv'
  BY InputSteps
<1>3. InputInv /\ [InputNext]_input_vars =>
        [/\ lost' # lost => host'.overrun
         /\ host.overrun /\ ~host'.overrun =>
              /\ UNCHANGED <<next, lost>>
              /\ host'.rx = <<>> \/ Pending' = Pending]_input_vars
  BY InputSteps DEF Pending, Waiting
<1>4. QED BY <1>1, <1>2, <1>3, PTL DEF InputSpec, LossIsSignalled

-----------------------------------------------------------------------------
(* The monitor's line: what is typed beyond its end is only counted.        *)

LEMMA SameText ==
  ASSUME NEW s \in Seq(Chars), NEW t \in Seq(Chars), Len(s) = Len(t),
         \A k \in 1 .. Len(s) : s[k] = t[k]
  PROVE  s = t
OBVIOUS

LEMMA Beginning ==
  ASSUME NEW t \in Seq(Chars), NEW m \in 0 .. Len(t)
  PROVE  /\ SubSeq(t, 1, m) \in Seq(Chars) /\ Len(SubSeq(t, 1, m)) = m
         /\ \A k \in 1 .. m : SubSeq(t, 1, m)[k] = t[k]
OBVIOUS

LEMMA OneMore ==
  ASSUME NEW t \in Seq(Chars), NEW ch \in Chars
  PROVE  /\ Append(t, ch) \in Seq(Chars) /\ Len(Append(t, ch)) = Len(t) + 1
         /\ \A k \in 1 .. Len(t) : Append(t, ch)[k] = t[k]
OBVIOUS

\* The buffer holds the beginning of what was typed.
Cut(buffer, missing, line) ==
  /\ line \in Seq(Chars) /\ buffer \in Seq(Chars) /\ missing = Len(line) - Len(buffer)
  /\ Len(buffer) <= LINE /\ missing \in Nat
  /\ missing > 0 => Len(buffer) = LINE
  /\ \A k \in 1 .. Len(buffer) : buffer[k] = line[k]

LEMMA CutIsBeginning ==
  ASSUME NEW buffer, NEW missing, NEW line \in Seq(Chars), buffer \in Seq(Chars)
  PROVE  (Len(buffer) <= LINE /\ missing \in Nat
            /\ buffer = SubSeq(line, 1, Min({LINE, Len(line)})) /\ missing = Len(line) - Len(buffer))
         <=> Cut(buffer, missing, line)
<1>1. PICK m, l : m = Min({LINE, Len(line)}) /\ l = Len(line)
  OBVIOUS
<1>2. LINE \in Nat /\ l \in Nat
  BY <1>1, ConsoleAssumption
<1>3. m = IF LINE <= l THEN LINE ELSE l
  BY <1>1, <1>2, LesserOf
<1>4. m \in 0 .. l
  BY <1>2, <1>3
<1>5. PICK front : front = SubSeq(line, 1, m)
  OBVIOUS
<1>6. front \in Seq(Chars) /\ Len(front) = m /\ \A k \in 1 .. m : front[k] = line[k]
  BY <1>1, <1>4, <1>5, Beginning
<1>7. ASSUME buffer = front, missing = l - Len(buffer)
      PROVE  Cut(buffer, missing, line)
  <2>1. Len(buffer) <= LINE /\ missing \in Nat /\ (missing > 0 => Len(buffer) = LINE)
    BY <1>2, <1>3, <1>6, <1>7
  <2>2. \A k \in 1 .. Len(buffer) : buffer[k] = line[k]
    BY <1>6, <1>7
  <2>3. QED BY <1>1, <1>7, <2>1, <2>2 DEF Cut
<1>8. ASSUME Cut(buffer, missing, line)
      PROVE  /\ Len(buffer) <= LINE /\ missing \in Nat
             /\ buffer = front /\ missing = l - Len(buffer)
  <2>1. PICK n : n = Len(buffer)
    OBVIOUS
  <2>2. /\ n \in Nat /\ n <= LINE /\ missing = l - n /\ missing \in Nat
        /\ missing > 0 => n = LINE
        /\ \A k \in 1 .. n : buffer[k] = line[k]
    BY <1>1, <1>8, <2>1 DEF Cut
  <2>3. n = m
    BY <1>2, <1>3, <2>2
  <2>4. \A k \in 1 .. n : buffer[k] = front[k]
    BY <1>6, <2>2, <2>3
  <2>5. buffer = front
    BY <1>6, <2>1, <2>3, <2>4, SameText
  <2>6. QED BY <2>1, <2>2, <2>5
<1>9. QED BY <1>1, <1>5, <1>7, <1>8

LEMMA CutInserts ==
  ASSUME NEW ch \in Chars, Cut(input, discarded_input, typed), Insert(ch), typed' = Append(typed, ch),
         discarded_input < EXCESS, discarded_input \in 0 .. EXCESS
  PROVE  Cut(input', discarded_input', typed') /\ discarded_input' \in 0 .. EXCESS
<1>1. PICK l, n, more : l = Len(typed) /\ n = Len(input) /\ more = Append(typed, ch)
  OBVIOUS
<1>2. /\ typed \in Seq(Chars) /\ input \in Seq(Chars) /\ l \in Nat /\ n \in Nat
      /\ discarded_input = l - n /\ n <= LINE /\ discarded_input \in Nat
      /\ discarded_input > 0 => n = LINE
      /\ \A k \in 1 .. n : input[k] = typed[k]
      /\ LINE \in Nat /\ EXCESS \in Nat
  BY <1>1, ConsoleAssumption DEF Cut
<1>3. more \in Seq(Chars) /\ Len(more) = l + 1 /\ \A k \in 1 .. l : more[k] = typed[k]
  BY <1>1, <1>2, OneMore
<1>4. CASE n < LINE /\ discarded_input = 0
  <2>1. input' = Append(input, ch) /\ discarded_input' = 0
    BY <1>1, <1>4 DEF Insert
  <2>2. n = l /\ input = typed
    <3>1. n = l
      BY <1>2, <1>4
    <3>2. QED BY <1>1, <1>2, <3>1, SameText
  <2>3. input' = more
    BY <1>1, <2>1, <2>2
  <2>4. l + 1 <= LINE /\ 0 = (l + 1) - (l + 1) /\ 0 \in Nat /\ ~ (0 > 0)
    BY <1>2, <1>4, <2>2
  <2>5. Cut(more, 0, more)
    BY <1>3, <2>4 DEF Cut
  <2>6. 0 \in 0 .. EXCESS
    BY <1>2
  <2>7. QED BY <1>1, <2>1, <2>3, <2>5, <2>6
<1>5. CASE ~ (n < LINE /\ discarded_input = 0)
  <2>1. input' = input /\ discarded_input' = discarded_input + 1
    BY <1>1, <1>5 DEF Insert
  <2>2. n = LINE /\ n <= l
    BY <1>2, <1>5
  <2>3. \A k \in 1 .. n : input[k] = more[k]
    BY <1>2, <1>3, <2>2
  <2>4. discarded_input + 1 = (l + 1) - n /\ discarded_input + 1 \in Nat /\ discarded_input + 1 \in 0 .. EXCESS
    BY <1>2
  <2>5. Cut(input, discarded_input + 1, more)
    BY <1>1, <1>2, <1>3, <2>2, <2>3, <2>4 DEF Cut
  <2>6. QED BY <1>1, <2>1, <2>4, <2>5
<1>6. QED BY <1>4, <1>5

LEMMA CutErases ==
  ASSUME Cut(input, discarded_input, typed), EraseOne, typed' = SubSeq(typed, 1, Len(typed) - 1),
         discarded_input \in 0 .. EXCESS
  PROVE  Cut(input', discarded_input', typed') /\ discarded_input' \in 0 .. EXCESS
<1>1. PICK l, n, less : l = Len(typed) /\ n = Len(input) /\ less = SubSeq(typed, 1, l - 1)
  OBVIOUS
<1>2. /\ typed \in Seq(Chars) /\ input \in Seq(Chars) /\ l \in Nat /\ n \in Nat
      /\ discarded_input = l - n /\ n <= LINE /\ discarded_input \in Nat
      /\ discarded_input > 0 => n = LINE
      /\ \A k \in 1 .. n : input[k] = typed[k]
      /\ LINE \in Nat /\ EXCESS \in Nat
  BY <1>1, ConsoleAssumption DEF Cut
<1>3. typed' = less
  BY <1>1
<1>4. CASE l = 0
  <2>0. n = 0 /\ discarded_input = 0
    BY <1>2, <1>4
  <2>1. n = 0 /\ discarded_input = 0 /\ typed = <<>> /\ input = <<>>
    <3>1. Len(typed) = 0 /\ Len(input) = 0
      BY <1>1, <1>4, <2>0
    <3>2. typed = <<>> /\ input = <<>>
      BY <1>2, <3>1
    <3>3. QED BY <2>0, <3>2
  <2>2. less = <<>>
    BY <1>1, <1>4, <2>1
  <2>3. input' = input /\ discarded_input' = discarded_input
    BY <2>1 DEF EraseOne, editor
  <2>4. QED BY <1>3, <2>1, <2>2, <2>3
<1>5. CASE l # 0
  <2>1. l - 1 \in 0 .. l
    BY <1>2, <1>5
  <2>2. less \in Seq(Chars) /\ Len(less) = l - 1 /\ \A k \in 1 .. l - 1 : less[k] = typed[k]
    BY <1>1, <1>2, <2>1, Beginning
  <2>3. CASE discarded_input # 0
    <3>1. discarded_input' = discarded_input - 1 /\ input' = input
      BY <2>3 DEF EraseOne
    <3>2. n <= l - 1 /\ discarded_input - 1 = (l - 1) - n /\ discarded_input - 1 \in Nat
          /\ n = LINE
      BY <1>2, <2>3
    <3>3. \A k \in 1 .. n : input[k] = less[k]
      BY <1>2, <2>2, <3>2
    <3>4. Cut(input, discarded_input - 1, less)
      BY <1>1, <1>2, <2>2, <3>2, <3>3 DEF Cut
    <3>5. discarded_input - 1 \in 0 .. EXCESS
      BY <1>2, <3>2
    <3>6. QED BY <1>3, <3>1, <3>4, <3>5
  <2>4. CASE discarded_input = 0
    <3>1. n = l /\ input = typed
      <4>1. n = l
        BY <1>2, <2>4
      <4>2. QED BY <1>1, <1>2, <4>1, SameText
    <3>2. input # <<>>
      BY <1>1, <1>5, <3>1
    <3>3. input' = Front(input) /\ discarded_input' = discarded_input
      BY <2>4, <3>2 DEF EraseOne
    <3>4. Front(input) = less
      BY <1>1, <3>1 DEF Front
    <3>5. l - 1 <= LINE /\ 0 = (l - 1) - (l - 1) /\ 0 \in Nat /\ ~ (0 > 0) /\ 0 \in 0 .. EXCESS
      BY <1>2, <3>1
    <3>6. Cut(less, 0, less)
      BY <2>2, <3>5 DEF Cut
    <3>7. QED BY <1>3, <2>4, <3>3, <3>4, <3>5, <3>6
  <2>5. QED BY <2>3, <2>4
<1>6. QED BY <1>4, <1>5

-----------------------------------------------------------------------------
(* What a line may do.                                                      *)

\* The words of the line, as the loop over its characters has found them.
LEMMA ScanRun ==
  ASSUME NEW line, Len(line) \in Nat
  PROVE  \E run : /\ run[0] = [words |-> <<>>, inside |-> FALSE]
                  /\ \A k \in 1 .. Len(line) : run[k] = Scan(run[k - 1], line[k])
                  /\ Tokens(line) = run[Len(line)].words
<1>0. PICK none : none = [words |-> <<>>, inside |-> FALSE]
  OBVIOUS
<1> DEFINE n == Len(line)
           Runs(m, g) == g = [k \in 0 .. m |-> IF k = 0 THEN none ELSE Scan(g[k - 1], line[k])]
           good == {m \in 0 .. n : \E g : Runs(m, g)}
<1>1. 0 \in good
  <2>1. PICK g : g = [k \in 0 .. 0 |-> none]
    OBVIOUS
  <2>2. g = [k \in 0 .. 0 |-> IF k = 0 THEN none ELSE Scan(g[k - 1], line[k])]
    BY <2>1
  <2>3. QED BY <2>2
<1>2. ASSUME NEW m \in 1 .. n, m - 1 \in good
      PROVE  m \in good
  <2>1. PICK g : Runs(m - 1, g)
    BY <1>2
  <2>2. PICK h : h = [k \in 0 .. m |-> IF k = m THEN Scan(g[m - 1], line[m]) ELSE g[k]]
    OBVIOUS
  <2>3. ASSUME NEW k \in 0 .. m
        PROVE  h[k] = IF k = 0 THEN none ELSE Scan(h[k - 1], line[k])
    <3>1. CASE k = m
      <4>1. k # 0 /\ k - 1 \in 0 .. m /\ k - 1 # m
        BY <3>1
      <4>2. h[k] = Scan(g[m - 1], line[m]) /\ h[k - 1] = g[k - 1]
        BY <2>2, <3>1, <4>1
      <4>3. QED BY <3>1, <4>1, <4>2
    <3>2. CASE k # m
      <4>1. k \in 0 .. m - 1 /\ h[k] = g[k]
        BY <2>2, <3>2
      <4>2. g[k] = IF k = 0 THEN none ELSE Scan(g[k - 1], line[k])
        BY <2>1, <4>1
      <4>3. k # 0 => h[k - 1] = g[k - 1]
        BY <2>2, <4>1
      <4>4. QED BY <4>1, <4>2, <4>3
    <3>3. QED BY <3>1, <3>2
  <2>4. Runs(m, h)
    BY <2>2, <2>3
  <2>5. QED BY <2>4
<1>3. n \in good
  <2> HIDE DEF good
  <2>1. \A m \in 0 .. n : m \in good
    BY <1>1, <1>2, Upwards
  <2>2. QED BY <2>1
<1>4. PICK run : run = CHOOSE g : Runs(n, g)
  OBVIOUS
<1>5. Runs(n, run)
  BY <1>3, <1>4
<1>6. Tokens(line) = run[n].words
  BY <1>0, <1>4 DEF Tokens
<1>7. run[0] = none
  BY <1>5
<1>8. ASSUME NEW k \in 1 .. n
      PROVE  run[k] = Scan(run[k - 1], line[k])
  BY <1>5
<1>9. QED BY <1>0, <1>6, <1>7, <1>8

LEMMA LeastIs ==
  ASSUME NEW S, S \subseteq Int, NEW x \in S, \A y \in S : x <= y
  PROVE  Min(S) = x
<1>1. \A z \in S : (\A y \in S : z <= y) => z = x
  OBVIOUS
<1>2. QED BY <1>1 DEF Min

LEMMA WordIs ==
  ASSUME NEW line \in Seq(Chars), NEW from \in 1 .. Len(line), NEW to \in from .. Len(line),
         \A k \in from .. to : line[k] # Space,
         from = 1 \/ line[from - 1] = Space, to = Len(line) \/ line[to + 1] = Space
  PROVE  SubSeq(line, from, to) \in Words(line)
<1> DEFINE Inside(i) == i \in DOMAIN line /\ line[i] # Space
           starts == {i \in DOMAIN line : Inside(i) /\ ~Inside(i - 1)}
           End(i) == Min({j \in i .. Len(line) : ~Inside(j + 1)})
<1>1. Words(line) = {SubSeq(line, i, End(i)) : i \in starts}
  BY DEF Words
<1>2. PICK n : n = Len(line)
  OBVIOUS
<1>3. DOMAIN line = 1 .. n /\ n \in Nat
  BY <1>2
<1>4. from \in starts
  <2>1. Inside(from)
    BY <1>2, <1>3
  <2>2. ~ Inside(from - 1)
    BY <1>2, <1>3
  <2>3. QED BY <1>2, <1>3, <2>1, <2>2
<1>5. End(from) = to
  <2>1. PICK S : S = {j \in from .. n : ~Inside(j + 1)}
    OBVIOUS
  <2>2. to \in S
    BY <1>2, <1>3, <2>1
  <2>3. ASSUME NEW j \in S, j < to
        PROVE  FALSE
    <3>1. j + 1 \in from .. to /\ j + 1 \in 1 .. n
      BY <1>2, <1>3, <2>1, <2>3
    <3>2. Inside(j + 1)
      BY <1>3, <3>1
    <3>3. QED BY <2>1, <3>2
  <2>4. S \subseteq Int /\ \A j \in S : to <= j
    BY <1>2, <2>1, <2>3
  <2>5. Min(S) = to
    BY <2>2, <2>4, LeastIs
  <2>6. QED BY <1>2, <2>1, <2>5
<1>6. QED BY <1>1, <1>4, <1>5

\* After n characters: every word but one that is still open is a word.
Scanned(line, n, s) ==
  /\ s \in [words : Seq(Seq(Chars)), inside : BOOLEAN]
  /\ s.inside =>
       /\ Len(s.words) > 0
       /\ \E from \in 1 .. n :
            /\ s.words[Len(s.words)] = SubSeq(line, from, n)
            /\ \A k \in from .. n : line[k] # Space
            /\ from = 1 \/ line[from - 1] = Space
  /\ ~ s.inside => n = 0 \/ line[n] = Space
  /\ \A w \in 1 .. Len(s.words) : (s.inside /\ w = Len(s.words)) \/ s.words[w] \in Words(line)

LEMMA LastIsReplaced ==
  ASSUME NEW S, NEW words \in Seq(S), Len(words) > 0, NEW word \in S
  PROVE  LET more == Append(Front(words), word)
         IN  /\ more \in Seq(S) /\ Len(more) = Len(words) /\ more[Len(words)] = word
             /\ \A w \in 1 .. Len(words) : w # Len(words) => more[w] = words[w]
<1>1. PICK l, front : l = Len(words) /\ front = SubSeq(words, 1, l - 1)
  OBVIOUS
<1>2. front \in Seq(S) /\ Len(front) = l - 1 /\ \A w \in 1 .. l - 1 : front[w] = words[w]
  BY <1>1
<1>3. PICK more : more = Append(front, word)
  OBVIOUS
<1>4. /\ more \in Seq(S) /\ Len(more) = l /\ more[l] = word
      /\ \A w \in 1 .. l - 1 : more[w] = front[w]
  BY <1>1, <1>2, <1>3
<1>5. \A w \in 1 .. l : w # l => w \in 1 .. l - 1
  BY <1>1
<1>6. Append(Front(words), word) = more
  BY <1>1, <1>3 DEF Front
<1>7. QED BY <1>1, <1>2, <1>4, <1>5, <1>6

LEMMA ScanIs ==
  ASSUME NEW line \in Seq(Chars), NEW n \in 1 .. Len(line), NEW s, Scanned(line, n - 1, s)
  PROVE  Scanned(line, n, Scan(s, line[n]))
<1>1. PICK words, l, ch, t : words = s.words /\ l = Len(words) /\ ch = line[n] /\ t = Scan(s, ch)
  OBVIOUS
<1>2. /\ words \in Seq(Seq(Chars)) /\ l \in Nat /\ s.inside \in BOOLEAN /\ ch \in Chars
      /\ s \in [words : Seq(Seq(Chars)), inside : BOOLEAN]
      /\ n \in Nat \ {0} /\ n - 1 \in Nat /\ n <= Len(line) /\ Len(line) \in Nat
  BY <1>1 DEF Scanned
<1>3. /\ ~ s.inside => n - 1 = 0 \/ line[n - 1] = Space
      /\ \A w \in 1 .. l : (s.inside /\ w = l) \/ words[w] \in Words(line)
  BY <1>1 DEF Scanned
<1>4. ASSUME s.inside
      PROVE  /\ l > 0 /\ words[l] \in Seq(Chars)
             /\ \E from \in 1 .. n - 1 :
                  /\ words[l] = SubSeq(line, from, n - 1)
                  /\ \A k \in from .. n - 1 : line[k] # Space
                  /\ from = 1 \/ line[from - 1] = Space
  <2>1. l > 0
    BY <1>1, <1>4 DEF Scanned
  <2>2. words[l] \in Seq(Chars)
    BY <1>2, <2>1, <1>1
  <2>3. QED BY <1>1, <1>4, <2>1, <2>2 DEF Scanned
<1>5. CASE ch = Space
  <2>1. t = [s EXCEPT !.inside = FALSE]
    BY <1>1, <1>5 DEF Scan
  <2>2. t.words = words /\ t.inside = FALSE /\ t \in [words : Seq(Seq(Chars)), inside : BOOLEAN]
    BY <1>1, <1>2, <2>1
  <2>3. ASSUME NEW w \in 1 .. l PROVE words[w] \in Words(line)
    <3>1. CASE s.inside /\ w = l
      <4>1. PICK from \in 1 .. n - 1 :
              /\ words[l] = SubSeq(line, from, n - 1)
              /\ \A k \in from .. n - 1 : line[k] # Space
              /\ from = 1 \/ line[from - 1] = Space
        BY <1>4, <3>1
      <4>2. /\ from \in 1 .. Len(line) /\ n - 1 \in from .. Len(line)
            /\ line[(n - 1) + 1] = Space
        <5>1. (n - 1) + 1 = n
          BY <1>2
        <5>2. line[(n - 1) + 1] = Space
          BY <1>1, <1>5, <5>1
        <5>3. from \in 1 .. Len(line) /\ n - 1 \in from .. Len(line)
          BY <1>2
        <5>4. QED BY <5>2, <5>3
      <4>3. SubSeq(line, from, n - 1) \in Words(line)
        BY <4>1, <4>2, WordIs
      <4>4. QED BY <3>1, <4>1, <4>3
    <3>2. QED BY <1>3, <3>1
  <2>4. line[n] = Space
    BY <1>1, <1>5
  <2>5. Scanned(line, n, t)
    BY <1>1, <2>2, <2>3, <2>4 DEF Scanned
  <2>6. QED BY <1>1, <2>5
<1>6. CASE ch # Space /\ s.inside
  <2>1. PICK from \in 1 .. n - 1 :
          /\ words[l] = SubSeq(line, from, n - 1)
          /\ \A k \in from .. n - 1 : line[k] # Space
          /\ from = 1 \/ line[from - 1] = Space
    BY <1>4, <1>6
  <2>2. l > 0 /\ words[l] \in Seq(Chars)
    BY <1>4, <1>6
  <2>3. PICK word : word = Append(words[l], ch)
    OBVIOUS
  <2>4. word \in Seq(Chars) /\ word = SubSeq(line, from, n)
    <3>1. PICK part, whole, m : /\ part = SubSeq(line, from, n - 1) /\ whole = SubSeq(line, from, n)
                                /\ m = n - from
      OBVIOUS
    <3>2. m \in Nat /\ m >= 1 /\ n - 1 <= Len(line) /\ from <= n /\ from >= 1
      BY <1>2, <3>1
    <3>3. part \in Seq(Chars) /\ Len(part) = m /\ \A k \in 1 .. m : part[k] = line[from + k - 1]
      BY <1>2, <3>1, <3>2
    <3>4. whole \in Seq(Chars) /\ Len(whole) = m + 1 /\ \A k \in 1 .. m + 1 : whole[k] = line[from + k - 1]
      BY <1>2, <3>1, <3>2
    <3>5. /\ word \in Seq(Chars) /\ Len(word) = m + 1 /\ word[m + 1] = ch
          /\ \A k \in 1 .. m : word[k] = part[k]
      BY <1>2, <2>1, <2>3, <3>1, <3>3, OneMore
    <3>6. ASSUME NEW k \in 1 .. m + 1 PROVE word[k] = whole[k]
      <4>1. k \in 1 .. m \/ (k = m + 1 /\ from + k - 1 = n)
        BY <3>1, <3>2
      <4>2. QED BY <1>1, <3>3, <3>4, <3>5, <4>1
    <3>7. word = whole
      BY <3>4, <3>5, <3>6, SameText
    <3>8. QED BY <3>1, <3>5, <3>7
  <2>5. PICK more : more = Append(Front(words), word)
    OBVIOUS
  <2>6. /\ more \in Seq(Seq(Chars)) /\ Len(more) = l /\ more[l] = word
        /\ \A w \in 1 .. l : w # l => more[w] = words[w]
    <3>1. PICK texts : texts = Seq(Chars)
      OBVIOUS
    <3>2. words \in Seq(texts) /\ word \in texts /\ Len(words) > 0
      BY <1>1, <1>2, <2>2, <2>4, <3>1
    <3>3. /\ more \in Seq(texts) /\ Len(more) = Len(words) /\ more[Len(words)] = word
          /\ \A w \in 1 .. Len(words) : w # Len(words) => more[w] = words[w]
      BY <2>5, <3>2, LastIsReplaced
    <3>4. QED BY <1>1, <3>1, <3>3
  <2>7. t = [s EXCEPT !.words = more]
    <3>1. Last(words) = words[l]
      BY <1>1 DEF Last
    <3>2. QED BY <1>1, <1>6, <2>3, <2>5, <3>1 DEF Scan
  <2>8. t.words = more /\ t.inside = s.inside /\ t \in [words : Seq(Seq(Chars)), inside : BOOLEAN]
    BY <1>2, <2>6, <2>7
  <2>9. from \in 1 .. n /\ \A k \in from .. n : line[k] # Space
    <3>1. from \in 1 .. n /\ \A k \in from .. n : k \in from .. n - 1 \/ k = n
      BY <1>2
    <3>2. QED BY <1>1, <1>6, <2>1, <3>1
  <2>10. \A w \in 1 .. l : w = l \/ more[w] \in Words(line)
    BY <1>3, <2>6
  <2>11. Scanned(line, n, t)
    BY <1>6, <2>1, <2>2, <2>4, <2>6, <2>8, <2>9, <2>10 DEF Scanned
  <2>12. QED BY <1>1, <2>11
<1>7. CASE ch # Space /\ ~ s.inside
  <2>1. t = [words |-> Append(words, <<ch>>), inside |-> TRUE]
    BY <1>1, <1>7 DEF Scan
  <2>2. PICK more : more = Append(words, <<ch>>)
    OBVIOUS
  <2>3. /\ more \in Seq(Seq(Chars)) /\ Len(more) = l + 1 /\ more[l + 1] = <<ch>>
        /\ \A w \in 1 .. l : more[w] = words[w]
    <3>1. <<ch>> \in Seq(Chars)
      BY <1>2
    <3>2. QED BY <1>1, <1>2, <2>2, <3>1
  <2>4. t.words = more /\ t.inside = TRUE /\ t \in [words : Seq(Seq(Chars)), inside : BOOLEAN]
    BY <2>1, <2>2, <2>3
  <2>5. SubSeq(line, n, n) = <<ch>>
    <3>1. PICK p, q : p = SubSeq(line, n, n) /\ q = <<ch>>
      OBVIOUS
    <3>2. p \in Seq(Chars) /\ Len(p) = 1 /\ p[1] = line[n]
      BY <1>2, <3>1
    <3>3. q \in Seq(Chars) /\ Len(q) = 1 /\ q[1] = ch
      BY <1>2, <3>1
    <3>4. \A k \in 1 .. 1 : p[k] = q[k]
      BY <1>1, <3>2, <3>3
    <3>5. p = q
      BY <3>2, <3>3, <3>4, SameText
    <3>6. QED BY <3>1, <3>5
  <2>6. n \in 1 .. n /\ (\A k \in n .. n : line[k] # Space) /\ (n = 1 \/ line[n - 1] = Space)
    <3>1. \A k \in n .. n : k = n
      BY <1>2
    <3>2. QED BY <1>1, <1>2, <1>3, <1>7, <3>1
  <2>7. \A w \in 1 .. l + 1 : w = l + 1 \/ more[w] \in Words(line)
    <3>1. \A w \in 1 .. l + 1 : w = l + 1 \/ w \in 1 .. l
      BY <1>2
    <3>2. QED BY <1>3, <1>7, <2>3, <3>1
  <2>8. l + 1 > 0
    BY <1>2
  <2>9. Scanned(line, n, t)
    BY <2>3, <2>4, <2>5, <2>6, <2>7, <2>8 DEF Scanned
  <2>10. QED BY <1>1, <2>9
<1>8. QED BY <1>5, <1>6, <1>7

(* What the loop finds are words of the line.                               *)
LEMMA TokensAreWords ==
  ASSUME NEW line \in Seq(Chars)
  PROVE  /\ Tokens(line) \in Seq(Seq(Chars))
         /\ \A w \in 1 .. Len(Tokens(line)) : Tokens(line)[w] \in Words(line)
<1>1. PICK n : n = Len(line)
  OBVIOUS
<1>2. n \in Nat
  BY <1>1
<1>3. PICK run : /\ run[0] = [words |-> <<>>, inside |-> FALSE]
                 /\ \A k \in 1 .. n : run[k] = Scan(run[k - 1], line[k])
                 /\ Tokens(line) = run[n].words
  BY <1>1, <1>2, ScanRun
<1> DEFINE good == {k \in 0 .. n : Scanned(line, k, run[k])}
<1>4. 0 \in good
  <2>1. Scanned(line, 0, [words |-> <<>>, inside |-> FALSE])
    <3>1. <<>> \in Seq(Seq(Chars)) /\ Len(<<>>) = 0 /\ \A w \in 1 .. 0 : FALSE
      OBVIOUS
    <3>2. QED BY <3>1 DEF Scanned
  <2>2. QED BY <1>2, <1>3, <2>1
<1>5. ASSUME NEW k \in 1 .. n, k - 1 \in good
      PROVE  k \in good
  <2>1. Scanned(line, k - 1, run[k - 1])
    BY <1>5
  <2>2. Scanned(line, k, Scan(run[k - 1], line[k]))
    BY <1>1, <2>1, ScanIs
  <2>3. QED BY <1>2, <1>3, <2>2
<1>6. n \in good
  <2> HIDE DEF good
  <2>1. \A k \in 0 .. n : k \in good
    BY <1>2, <1>4, <1>5, Upwards
  <2>2. QED BY <1>2, <2>1
<1>7. Scanned(line, n, run[n])
  BY <1>6
<1>8. PICK s, words, l : s = run[n] /\ words = s.words /\ l = Len(words)
  OBVIOUS
<1>9. words \in Seq(Seq(Chars)) /\ \A w \in 1 .. l : (s.inside /\ w = l) \/ words[w] \in Words(line)
  BY <1>7, <1>8 DEF Scanned
<1>10. ASSUME s.inside PROVE words[l] \in Words(line)
  <2>1. PICK from \in 1 .. n :
          /\ words[l] = SubSeq(line, from, n)
          /\ \A k \in from .. n : line[k] # Space
          /\ from = 1 \/ line[from - 1] = Space
    BY <1>7, <1>8, <1>10 DEF Scanned
  <2>2. from \in 1 .. Len(line) /\ n \in from .. Len(line)
    BY <1>1, <1>2
  <2>3. SubSeq(line, from, n) \in Words(line)
    BY <1>1, <2>1, <2>2, WordIs
  <2>4. QED BY <2>1, <2>3
<1>11. QED BY <1>3, <1>8, <1>9, <1>10

-----------------------------------------------------------------------------
(* The commands.                                                            *)

\* A command changes a register or a word of memory that its line names.
Named(line, new) ==
  \E name \in RegisterNames \union Addresses, n \in Numbers :
    /\ {name, n} \subseteq Words(line)
    /\ \/ Reg \in Words(line) /\ name \in RegisterNames \ ReadOnlyNames
          /\ new = [target EXCEPT !.registers = [@ EXCEPT ![name] = n]]
       \/ MemWrite \in Words(line) /\ name \in Addresses
          /\ new = [target EXCEPT !.memory = [@ EXCEPT ![name] = n]]

LEMMA ExecuteIs ==
  ASSUME NEW line \in Seq(Chars), NEW o \in mipsel_console_execute(line)
  PROVE  /\ o.result \in Results
         /\ o.result = "TARGET_NOT_HALTED" => ~ halted
         /\ o.result = "STATE_CHANGED" => halted
         /\ o.target = target \/ (halted /\ Named(line, o.target))
<1>1. PICK tokens, n : tokens = Tokens(line) /\ n = Len(tokens)
  OBVIOUS
<1>2. /\ tokens \in Seq(Seq(Chars)) /\ n \in Nat
      /\ \A w \in 1 .. n : tokens[w] \in Words(line)
  BY <1>1, TokensAreWords
<1>3. \A r : \A x \in Only(r) : x.result = r /\ x.target = target
  BY DEF Only
<1>4. {"OK", "ERROR", "TARGET_NOT_HALTED", "STATE_CHANGED"} \subseteq Results
  BY DEF Results
<1> DEFINE changesNothing ==
             o \in Only("OK") \/ o \in Only("ERROR") \/ (~ halted /\ o \in Only("TARGET_NOT_HALTED"))
<1>5. CASE changesNothing
  BY <1>3, <1>4, <1>5
<1>6. CASE halted /\ tokens # <<>> /\ tokens[1] = Reg /\ o \in command_register(tokens)
  <2>1. CASE o \in Only("OK") \/ o \in Only("ERROR")
    BY <1>4, <1>5, <2>1
  <2>2. CASE ~ (o \in Only("OK") \/ o \in Only("ERROR"))
    <3>1. /\ ~ (n = 1) /\ ~ (n > 3) /\ ~ (n = 2) /\ tokens[2] \in RegisterNames
          /\ tokens[3] \in Numbers /\ tokens[2] \notin ReadOnlyNames
          /\ o = [result |-> "STATE_CHANGED",
                  target |-> [target EXCEPT !.registers = [@ EXCEPT ![tokens[2]] = tokens[3]]]]
      BY <1>1, <1>6, <2>2 DEF command_register
    <3>2. n # 0
      BY <1>1, <1>2, <1>6
    <3>3. n = 3
      BY <1>2, <3>1, <3>2
    <3>4. {tokens[1], tokens[2], tokens[3]} \subseteq Words(line)
      BY <1>2, <3>3
    <3>5. /\ o.result = "STATE_CHANGED"
          /\ o.target = [target EXCEPT !.registers = [@ EXCEPT ![tokens[2]] = tokens[3]]]
      BY <3>1
    <3>6. Named(line, o.target)
      BY <1>6, <3>1, <3>4, <3>5 DEF Named
    <3>7. QED BY <1>4, <1>6, <3>5, <3>6
  <2>3. QED BY <2>1, <2>2
<1>7. CASE halted /\ tokens # <<>> /\ tokens[1] = MemWrite /\ o \in command_memory(tokens)
  <2>1. CASE o \in Only("ERROR")
    BY <1>4, <1>5, <2>1
  <2>2. CASE o \notin Only("ERROR")
    <3>1. /\ n = 3 /\ tokens[2] \in Addresses /\ tokens[3] \in Numbers
          /\ o = [result |-> "STATE_CHANGED",
                  target |-> [target EXCEPT !.memory = [@ EXCEPT ![tokens[2]] = tokens[3]]]]
      BY <1>1, <1>7, <2>2 DEF command_memory
    <3>2. {tokens[1], tokens[2], tokens[3]} \subseteq Words(line)
      BY <1>2, <3>1
    <3>3. /\ o.result = "STATE_CHANGED"
          /\ o.target = [target EXCEPT !.memory = [@ EXCEPT ![tokens[2]] = tokens[3]]]
      BY <3>1
    <3>4. Named(line, o.target)
      BY <1>7, <3>1, <3>2, <3>3 DEF Named
    <3>5. QED BY <1>4, <1>7, <3>3, <3>4
  <2>3. QED BY <2>1, <2>2
<1>8. \/ changesNothing
      \/ halted /\ tokens # <<>> /\ tokens[1] = Reg /\ o \in command_register(tokens)
      \/ halted /\ tokens # <<>> /\ tokens[1] = MemWrite /\ o \in command_memory(tokens)
  <2>1. CASE n > MAX_TOKENS
    BY <1>1, <1>4, <2>1 DEF mipsel_console_execute
  <2>2. CASE ~ (n > MAX_TOKENS) /\ tokens = <<>>
    BY <1>1, <1>4, <2>2 DEF mipsel_console_execute
  <2>3. CASE ~ (n > MAX_TOKENS) /\ tokens # <<>> /\ ~ halted
    BY <1>1, <1>4, <2>3 DEF mipsel_console_execute
  <2>4. CASE ~ (n > MAX_TOKENS) /\ tokens # <<>> /\ halted
    <3>1. o \in CASE tokens[1] = Reg -> command_register(tokens)
                  [] tokens[1] = MemWrite -> command_memory(tokens)
                  [] tokens[1] \in Readers -> command_that_reads
                  [] OTHER -> Only("ERROR")
      BY <1>1, <2>4 DEF mipsel_console_execute
    <3>2. Reg # MemWrite /\ Reg \notin Readers /\ MemWrite \notin Readers
      BY ConsoleAssumption
    <3>3. CASE tokens[1] = Reg
      BY <2>4, <3>1, <3>2, <3>3
    <3>4. CASE tokens[1] = MemWrite
      BY <2>4, <3>1, <3>2, <3>4
    <3>5. CASE tokens[1] \in Readers
      <4>1. o \in command_that_reads
        BY <3>1, <3>2, <3>5
      <4>2. QED BY <1>4, <4>1 DEF command_that_reads
    <3>6. CASE tokens[1] # Reg /\ tokens[1] # MemWrite /\ tokens[1] \notin Readers
      <4>1. o \in Only("ERROR")
        BY <3>1, <3>6
      <4>2. QED BY <1>4, <4>1
    <3>7. QED BY <3>3, <3>4, <3>5, <3>6
  <2>5. QED BY <2>1, <2>2, <2>3, <2>4
<1>9. QED BY <1>5, <1>6, <1>7, <1>8

LEMMA OutcomesAre ==
  ASSUME input \in Seq(Chars), NEW o \in Outcomes
  PROVE  /\ o.result \in Results
         /\ o.result = "TARGET_NOT_HALTED" => ~ halted
         /\ o.result = "STATE_CHANGED" => halted
         /\ o.target = target \/ (halted /\ discarded_input = 0 /\ Named(input, o.target))
<1>1. CASE discarded_input # 0
  BY <1>1 DEF Outcomes, Only, Results
<1>2. CASE discarded_input = 0
  BY <1>2, ExecuteIs DEF Outcomes
<1>3. QED BY <1>1, <1>2

-----------------------------------------------------------------------------
(* The invariant: the editor, and what is reported.                         *)

\* The target neither stops nor starts within a span.
OneMode ==
  feeding =>
    /\ aggregate = "TARGET_NOT_HALTED" => ~ halted
    /\ "STATE_CHANGED" \in results => halted

ConsoleInv == ConsoleTypeOK /\ LineIsTyped /\ ResultKept /\ OneMode

LEMMA LineIsCut == ConsoleInv => Cut(input, discarded_input, typed)
<1> SUFFICES ASSUME ConsoleInv PROVE Cut(input, discarded_input, typed)
  OBVIOUS
<1>1. /\ input \in Seq(Chars) /\ Len(input) <= LINE /\ typed \in Seq(Chars)
      /\ discarded_input \in 0 .. EXCESS /\ discarded_input \in Nat
  BY ConsoleAssumption DEF ConsoleInv, ConsoleTypeOK
<1>2. /\ input = SubSeq(typed, 1, Min({LINE, Len(typed)}))
      /\ discarded_input = Len(typed) - Len(input)
  BY DEF ConsoleInv, LineIsTyped
<1>3. QED BY <1>1, <1>2, CutIsBeginning

\* The editor and the report, each in the state after a step.
EditorKept ==
  /\ Cut(input', discarded_input', typed')
  /\ discarded_input' \in 0 .. EXCESS

ReportKept ==
  /\ aggregate' \in Results \union {"NO_COMMAND"} /\ results' \subseteq Results
  /\ ResultKept' /\ OneMode'

LEMMA InvFromParts ==
  ASSUME EditorKept, ReportKept, previous_was_cr' \in BOOLEAN, halted' \in BOOLEAN, feeding' \in BOOLEAN
  PROVE  ConsoleInv'
<1>1. /\ typed' \in Seq(Chars) /\ input' \in Seq(Chars)
      /\ Len(input') <= LINE /\ discarded_input' \in Nat
      /\ input' = SubSeq(typed', 1, Min({LINE, Len(typed')}))
      /\ discarded_input' = Len(typed') - Len(input')
  <2>1. typed' \in Seq(Chars) /\ input' \in Seq(Chars)
    BY DEF EditorKept, Cut
  <2>2. QED BY <2>1, CutIsBeginning DEF EditorKept
<1>2. ConsoleTypeOK'
  BY <1>1 DEF ConsoleTypeOK, EditorKept, ReportKept
<1>3. LineIsTyped'
  BY <1>1 DEF LineIsTyped
<1>4. QED BY <1>2, <1>3 DEF ConsoleInv, ReportKept

LEMMA EmptyLine == Cut(<<>>, 0, <<>>) /\ 0 \in 0 .. EXCESS
<1>1. <<>> \in Seq(Chars) /\ Len(<<>>) = 0 /\ 0 = 0 - 0 /\ 0 <= LINE /\ ~ (0 > 0) /\ 0 \in 0 .. EXCESS
  BY ConsoleAssumption
<1>2. \A k \in 1 .. 0 : FALSE
  OBVIOUS
<1>3. QED BY <1>1, <1>2 DEF Cut

LEMMA ConsoleInitially == ConsoleInit => ConsoleInv
<1> SUFFICES ASSUME ConsoleInit PROVE ConsoleInv
  OBVIOUS
<1>1. /\ input = <<>> /\ discarded_input = 0 /\ typed = <<>> /\ aggregate = "NO_COMMAND" /\ results = {}
      /\ previous_was_cr = FALSE /\ halted = FALSE /\ feeding = FALSE
  BY DEF ConsoleInit
<1>2. <<>> \in Seq(Chars) /\ 0 \in Nat /\ Len(<<>>) <= LINE
  BY ConsoleAssumption
<1>3. input \in Seq(Chars) /\ typed \in Seq(Chars) /\ Cut(input, discarded_input, typed)
  BY <1>1, <1>2, EmptyLine, Zenon
<1>4. ConsoleTypeOK /\ LineIsTyped
  <2>1. LineIsTyped
    BY <1>3, CutIsBeginning DEF LineIsTyped
  <2>2. /\ input \in Seq(Chars) /\ typed \in Seq(Chars) /\ Len(input) <= LINE
        /\ discarded_input \in 0 .. EXCESS
    BY <1>1, <1>2, EmptyLine
  <2>3. previous_was_cr \in BOOLEAN /\ halted \in BOOLEAN /\ feeding \in BOOLEAN
    BY <1>1
  <2>4. aggregate \in Results \union {"NO_COMMAND"} /\ results \subseteq Results
    BY <1>1
  <2>5. QED BY <2>1, <2>2, <2>3, <2>4 DEF ConsoleTypeOK
<1>5. ResultKept /\ OneMode
  BY <1>1 DEF ResultKept, OneMode
<1>6. QED BY <1>4, <1>5 DEF ConsoleInv

LEMMA ReportMerges ==
  ASSUME ConsoleInv, feeding, feeding' = feeding, halted' = halted, NEW r \in Results,
         r = "TARGET_NOT_HALTED" => ~ halted, r = "STATE_CHANGED" => halted,
         aggregate' = merge_feed_result(r), results' = results \union {r}
  PROVE  ReportKept
<1>1. /\ aggregate \in Results \union {"NO_COMMAND"} /\ results \subseteq Results
      /\ aggregate = "NO_COMMAND" <=> results = {}
      /\ "TARGET_NOT_HALTED" \in results => aggregate = "TARGET_NOT_HALTED"
      /\ "STATE_CHANGED" \in results => aggregate = "STATE_CHANGED"
      /\ "ERROR" \in results => aggregate \notin {"NO_COMMAND", "OK"}
  BY DEF ConsoleInv, ConsoleTypeOK, ResultKept
<1>2. /\ aggregate = "TARGET_NOT_HALTED" => ~ halted
      /\ "STATE_CHANGED" \in results => halted
  BY DEF ConsoleInv, OneMode
<1>3. r \in {"OK", "STATE_CHANGED", "ERROR", "TARGET_NOT_HALTED"}
  BY DEF Results
<1>4. PICK a : a = aggregate'
  OBVIOUS
<1>5. a = IF aggregate = "NO_COMMAND" THEN r
          ELSE IF "TARGET_NOT_HALTED" \in {aggregate, r} THEN "TARGET_NOT_HALTED"
          ELSE IF "STATE_CHANGED" \in {aggregate, r} THEN "STATE_CHANGED"
          ELSE IF "ERROR" \in {aggregate, r} THEN "ERROR"
          ELSE "OK"
  BY <1>4 DEF merge_feed_result
<1>6. /\ a \in {"OK", "STATE_CHANGED", "ERROR", "TARGET_NOT_HALTED"}
      /\ a = "TARGET_NOT_HALTED" <=> (aggregate = "TARGET_NOT_HALTED" \/ r = "TARGET_NOT_HALTED")
      /\ (a = "STATE_CHANGED" <=>
            /\ aggregate # "TARGET_NOT_HALTED" /\ r # "TARGET_NOT_HALTED"
            /\ aggregate = "STATE_CHANGED" \/ r = "STATE_CHANGED")
      /\ aggregate = "ERROR" \/ aggregate = "STATE_CHANGED" \/ aggregate = "TARGET_NOT_HALTED"
           \/ r = "ERROR" => a # "OK"
  BY <1>1, <1>3, <1>5 DEF Results
<1>7. OneMode'
  BY <1>1, <1>2, <1>4, <1>6 DEF OneMode
<1>8. ResultKept'
  <2>1. (a = "NO_COMMAND" <=> results \union {r} = {})
    BY <1>6
  <2>2. "TARGET_NOT_HALTED" \in results \union {r} => a = "TARGET_NOT_HALTED"
    BY <1>1, <1>6
  <2>3. "STATE_CHANGED" \in results \union {r} => a = "STATE_CHANGED"
    BY <1>1, <1>2, <1>6
  <2>4. "ERROR" \in results \union {r} => a \notin {"NO_COMMAND", "OK"}
    <3>1. "ERROR" \in results => aggregate \in {"ERROR", "STATE_CHANGED", "TARGET_NOT_HALTED"}
      BY <1>1 DEF Results
    <3>2. QED BY <1>6, <3>1
  <2>5. QED BY <1>4, <2>1, <2>2, <2>3, <2>4 DEF ResultKept
<1>9. aggregate' \in Results \union {"NO_COMMAND"} /\ results' \subseteq Results
  BY <1>1, <1>4, <1>6 DEF Results
<1>10. QED BY <1>7, <1>8, <1>9 DEF ReportKept

(* What is fed to the editor keeps it, and a change of the target is one    *)
(* that the line as typed asks for.                                         *)
LEMMA TerminateIs ==
  ASSUME ConsoleInv, feeding, feeding' = feeding, halted' = halted, Terminate
  PROVE  /\ EditorKept /\ ReportKept
         /\ target' # target => halted /\ Len(typed) <= LINE /\ Named(typed, target')
<1>1. PICK o \in Outcomes :
        /\ target' = o.target /\ aggregate' = merge_feed_result(o.result)
        /\ results' = results \union {o.result}
  BY DEF Terminate
<1>2. input' = <<>> /\ discarded_input' = 0 /\ typed' = <<>>
  BY DEF Terminate, ClearLine
<1>3. input \in Seq(Chars)
  BY DEF ConsoleInv, ConsoleTypeOK
<1>4. /\ o.result \in Results
      /\ o.result = "TARGET_NOT_HALTED" => ~ halted
      /\ o.result = "STATE_CHANGED" => halted
      /\ o.target = target \/ (halted /\ discarded_input = 0 /\ Named(input, o.target))
  BY <1>3, OutcomesAre
<1>5. ReportKept
  BY <1>1, <1>4, ReportMerges
<1>6. EditorKept
  BY <1>2, EmptyLine, Zenon DEF EditorKept
<1>7. ASSUME target' # target
      PROVE  halted /\ Len(typed) <= LINE /\ Named(typed, target')
  <2>1. halted /\ discarded_input = 0 /\ Named(input, target')
    BY <1>1, <1>4, <1>7
  <2>2. /\ typed \in Seq(Chars) /\ input \in Seq(Chars) /\ Len(typed) = Len(input)
        /\ Len(input) <= LINE /\ \A k \in 1 .. Len(input) : typed[k] = input[k]
    <3>1. Cut(input, 0, typed)
      BY <2>1, LineIsCut
    <3>2. QED BY <3>1 DEF Cut
  <2>3. typed = input
    BY <2>2, SameText
  <2>4. QED BY <2>1, <2>2, <2>3
<1>8. QED BY <1>5, <1>6, <1>7

LEMMA FeedIs ==
  ASSUME ConsoleInv, NEW byte \in Bytes, Feed(byte)
  PROVE  /\ ConsoleInv'
         /\ target' # target => halted /\ Len(typed) <= LINE /\ Named(typed, target')
<1>1. /\ feeding /\ feeding' = feeding /\ halted' = halted /\ previous_was_cr' \in BOOLEAN
      /\ halted' \in BOOLEAN /\ feeding' \in BOOLEAN
  BY DEF Feed, ConsoleInv, ConsoleTypeOK
<1>2. Cut(input, discarded_input, typed) /\ discarded_input \in 0 .. EXCESS
  BY LineIsCut DEF ConsoleInv, ConsoleTypeOK
<1>3. ASSUME Keeps PROVE ReportKept /\ target' = target
  <2>1. aggregate' = aggregate /\ results' = results /\ target' = target
    BY <1>3 DEF Keeps
  <2>2. QED BY <1>1, <2>1 DEF ReportKept, ConsoleInv, ConsoleTypeOK, ResultKept, OneMode
<1>4. ASSUME EditorKept, Keeps
      PROVE  /\ ConsoleInv'
             /\ target' # target => halted /\ Len(typed) <= LINE /\ Named(typed, target')
  BY <1>1, <1>3, <1>4, InvFromParts
<1>5. {CR, LF, Erase, Kill, Bell} \intersect Chars = {} /\ byte \in Chars \union {CR, LF, Erase, Kill, Bell}
  BY ConsoleAssumption DEF Controls, Bytes
<1>6. CASE Ends(byte)
  <2>1. byte # Erase /\ byte # Kill /\ byte \notin Chars
    BY <1>5, <1>6 DEF Ends, CR, LF, Erase, Kill
  <2>2. Terminate
    BY <1>6, <2>1 DEF Feed
  <2>3. /\ EditorKept /\ ReportKept
        /\ target' # target => halted /\ Len(typed) <= LINE /\ Named(typed, target')
    BY <1>1, <2>2, TerminateIs
  <2>4. QED BY <1>1, <2>3, InvFromParts
<1>7. CASE byte = Erase
  <2>1. ~ Ends(byte) /\ byte # Kill /\ byte \notin Chars
    BY <1>5, <1>7 DEF Ends, CR, LF, Erase, Kill
  <2>2. EraseOne /\ typed' = SubSeq(typed, 1, Len(typed) - 1) /\ Keeps
    BY <1>7, <2>1 DEF Feed
  <2>3. EditorKept
    BY <1>2, <2>2, CutErases DEF EditorKept
  <2>4. QED BY <1>4, <2>2, <2>3
<1>8. CASE byte = Kill
  <2>1. ~ Ends(byte) /\ byte # Erase /\ byte \notin Chars
    BY <1>5, <1>8 DEF Ends, CR, LF, Erase, Kill
  <2>2. ClearLine /\ typed' = <<>> /\ Keeps
    BY <1>8, <2>1 DEF Feed
  <2>3. EditorKept
    BY <2>2, EmptyLine, Zenon DEF EditorKept, ClearLine
  <2>4. QED BY <1>4, <2>2, <2>3
<1>9. CASE byte \in Chars
  <2>1. ~ Ends(byte) /\ byte # Erase /\ byte # Kill
    BY <1>5, <1>9 DEF Ends
  <2>2. discarded_input < EXCESS /\ Insert(byte) /\ typed' = Append(typed, byte) /\ Keeps
    BY <1>9, <2>1 DEF Feed
  <2>3. EditorKept
    BY <1>2, <1>9, <2>2, CutInserts DEF EditorKept
  <2>4. QED BY <1>4, <2>2, <2>3
<1>10. CASE ~ Ends(byte) /\ byte # Erase /\ byte # Kill /\ byte \notin Chars
  <2>1. UNCHANGED <<editor, typed>> /\ Keeps
    BY <1>10 DEF Feed
  <2>2. input' = input /\ discarded_input' = discarded_input /\ typed' = typed
    BY <2>1 DEF editor
  <2>3. EditorKept
    BY <1>2, <2>2 DEF EditorKept
  <2>4. QED BY <1>4, <2>1, <2>3
<1>11. QED BY <1>6, <1>7, <1>8, <1>9, <1>10

LEMMA ConsoleSteps ==
  ASSUME ConsoleInv, [ConsoleNext]_console_vars
  PROVE  /\ ConsoleInv'
         /\ target' # target => halted /\ Len(typed) <= LINE /\ Named(typed, target')
<1>1. CASE \E byte \in Bytes : Feed(byte)
  BY <1>1, FeedIs
<1>2. CASE BeginSpan
  BY <1>2 DEF BeginSpan, ConsoleInv, ConsoleTypeOK, LineIsTyped, ResultKept, OneMode, editor, Results
<1>3. CASE EndSpan
  BY <1>3 DEF EndSpan, ConsoleInv, ConsoleTypeOK, LineIsTyped, ResultKept, OneMode, editor, Results
<1>4. CASE mipsel_console_cancel_input
  <2>1. /\ input' = <<>> /\ discarded_input' = 0 /\ typed' = <<>> /\ previous_was_cr' = FALSE
        /\ aggregate' = aggregate /\ target' = target /\ halted' = halted /\ feeding' = feeding
        /\ results' = results
    BY <1>4 DEF mipsel_console_cancel_input, ClearLine
  <2>2. EditorKept
    BY <2>1, EmptyLine, Zenon DEF EditorKept
  <2>3. ReportKept
    BY <2>1 DEF ReportKept, ConsoleInv, ConsoleTypeOK, ResultKept, OneMode
  <2>4. previous_was_cr' \in BOOLEAN /\ halted' \in BOOLEAN /\ feeding' \in BOOLEAN
    BY <2>1 DEF ConsoleInv, ConsoleTypeOK
  <2>5. QED BY <2>1, <2>2, <2>3, <2>4, InvFromParts
<1>5. CASE PauseOrResume
  BY <1>5 DEF PauseOrResume, ConsoleInv, ConsoleTypeOK, LineIsTyped, ResultKept, OneMode, editor, Results
<1>6. CASE UNCHANGED console_vars
  BY <1>6 DEF console_vars, ConsoleInv, ConsoleTypeOK, LineIsTyped, ResultKept, OneMode
<1>7. QED BY <1>1, <1>2, <1>3, <1>4, <1>5, <1>6 DEF ConsoleNext

(* For every length of the line and every set of words: the buffer is the   *)
(* beginning of what was typed, and the result of a span covers its lines.  *)
THEOREM ConsoleIsSafe == ConsoleSpec => []ConsoleSafe
<1>1. ConsoleInit => ConsoleInv
  BY ConsoleInitially
<1>2. ConsoleInv /\ [ConsoleNext]_console_vars => ConsoleInv'
  BY ConsoleSteps
<1>3. ConsoleInv => ConsoleSafe
  BY DEF ConsoleInv, ConsoleSafe
<1>4. QED BY <1>1, <1>2, <1>3, PTL DEF ConsoleSpec

(* A change of the target is one that the words of a complete line, as it   *)
(* was typed, ask for, while the target is paused.                          *)
THEOREM ConsoleChangesAsTyped == ConsoleSpec => ChangesAsTyped
<1>1. ConsoleInit => ConsoleInv
  BY ConsoleInitially
<1>2. ConsoleInv /\ [ConsoleNext]_console_vars => ConsoleInv'
  BY ConsoleSteps
<1>3. ConsoleInv /\ [ConsoleNext]_console_vars =>
        [target' # target =>
           /\ halted /\ Len(typed) <= LINE
           /\ \E name \in RegisterNames \union Addresses, n \in Numbers :
                /\ {name, n} \subseteq Words(typed)
                /\ \/ Reg \in Words(typed) /\ name \in RegisterNames \ ReadOnlyNames
                      /\ target' = [target EXCEPT !.registers = [@ EXCEPT ![name] = n]]
                   \/ MemWrite \in Words(typed) /\ name \in Addresses
                      /\ target' = [target EXCEPT !.memory = [@ EXCEPT ![name] = n]]]_console_vars
  BY ConsoleSteps DEF Named
<1>4. QED BY <1>1, <1>2, <1>3, PTL DEF ConsoleSpec, ChangesAsTyped

=============================================================================

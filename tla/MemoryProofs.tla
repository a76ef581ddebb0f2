---------------------------- MODULE MemoryProofs ----------------------------
(***************************************************************************)
(* What lies between an instruction and memory, for every number of TLB    *)
(* entries, tasks, pages and words: TlbSafe, of the TLB under a kernel that *)
(* uses it as Linux does, by an invariant that says what kinds of entries  *)
(* there are and what the kernel knows in each of its phases; LlSafe, the  *)
(* atomicity of updates by LL and SC; and AccessesExact, that loads,       *)
(* stores and fills move exactly their bytes, by what each instruction of  *)
(* an access has moved so far.                                             *)
(***************************************************************************)
EXTENDS Tlb, LinkedLoad, LoadStore, FiniteSetTheorems, WellFoundedInduction, TLAPS

-----------------------------------------------------------------------------
(* The inductive invariant.                                                 *)

Halves == [pfn : Nat, v : BOOLEAN, d : BOOLEAN, g : BOOLEAN]
Entries == [span : Nat \ {0}, vpn : Nat, asid : Asids, lo0 : Halves, lo1 : Halves]
Phases == {"user", "refill", "fault", "update", "update write", "flush", "flush write",
           "restore", "wire", "flush all"}

TypesOK ==
  /\ tlb \in [Indexes -> Entries]
  /\ hi \in [vpn : Nat, asid : Asids]
  /\ index \in Indexes \union {NoEntry}
  /\ table \in [Asids -> [UserPages -> PTEs]]
  /\ current \in Asids
  /\ os \in [phase : Phases, page : Nat \union {NoPage}, asid : Asids, store : BOOLEAN]

CountersOK == random \in Indexes /\ wired \in {0, 1} /\ wired <= random

(* The kernel writes three kinds of entries: the wired one, ...             *)
WiredHalf(page) == [pfn |-> WiredFrame(page), v |-> TRUE, d |-> TRUE, g |-> TRUE]

IsWired(e) ==
  /\ e.span = WIRED_SPAN /\ e.vpn = WiredBase
  /\ e.lo0 = WiredHalf(WiredBase) /\ e.lo1 = WiredHalf(WiredBase + WIRED_SPAN)

(* ... those out of use, each parked at a place of its own, ...             *)
IsParked(e, i) == e.span = 1 /\ e.vpn = Unique(i) /\ e.lo0 = Nothing /\ e.lo1 = Nothing

(* ... and pairs of user pages, which give no more rights than the page     *)
(* table does, but for the page whose flush is under way.                   *)
Exempt(asid, page) ==
  os.phase \in {"flush", "flush write"} /\ os.page = page /\ os.asid = asid

HalfOK(lo, asid, page) ==
  /\ ~lo.g
  /\ lo.v => /\ page \in UserPages /\ lo.pfn = FrameOf(asid, page)
             /\ \/ Exempt(asid, page)
                \/ table[asid][page] # "absent" /\ (lo.d => table[asid][page] = "dirty")

IsUser(e) ==
  /\ e.span = 1 /\ \E page \in UserPages : e.vpn = Even(page)
  /\ HalfOK(e.lo0, e.asid, e.vpn) /\ HalfOK(e.lo1, e.asid, e.vpn + 1)

(* Wired is raised before the entry it protects is written.                 *)
WiredHere == wired = 1 /\ os.phase # "wire"

KindsOK ==
  \A i \in Indexes :
    \/ i = 0 /\ WiredHere /\ IsWired(tlb[i])
    \/ IsParked(tlb[i], i)
    \/ IsUser(tlb[i])

NoTwins ==
  \A i, j \in Indexes : tlb[i].vpn = tlb[j].vpn /\ tlb[i].asid = tlb[j].asid => i = j

EntriesOK == KindsOK /\ NoTwins /\ (WiredHere => IsWired(tlb[0]))

(* What the kernel knows: in particular, a miss and a probe that found      *)
(* nothing stay true until the entry is written.                            *)
Found(i, page, asid) == tlb[i].vpn = Even(page) /\ tlb[i].asid = asid
NotFound(page, asid) == \A i \in Indexes : ~Found(i, page, asid)

Probed ==
  /\ os.page \in UserPages /\ hi.vpn = Even(os.page) /\ hi.asid = os.asid
  /\ IF index = NoEntry THEN NotFound(os.page, os.asid) ELSE Found(index, os.page, os.asid)

UserOK ==
  /\ hi.asid = current /\ os.page \in UserPages \union {NoPage}
  /\ os.page # NoPage => \E i \in Indexes : Found(i, os.page, current)

RefillOK ==
  /\ os.page \in UserPages /\ os.asid = current
  /\ hi.vpn = Even(os.page) /\ hi.asid = current
  /\ NotFound(os.page, current)

FaultOK == os.page \in UserPages /\ os.asid = current /\ hi.asid = current

KernelOK ==
  /\ os.phase = "user" => UserOK
  /\ os.phase = "refill" => RefillOK
  /\ os.phase \in {"fault", "update"} => FaultOK
  /\ os.phase = "update write" => os.asid = current /\ Probed
  /\ os.phase = "flush" => os.page \in UserPages
  /\ os.phase = "flush write" => Probed
  /\ os.phase = "wire" => wired = 1
  /\ os.phase = "flush all" => wired = 1 /\ os.page \in 1 .. ENTRIES - 1

TlbInv == TypesOK /\ CountersOK /\ EntriesOK /\ KernelOK

-----------------------------------------------------------------------------
(* Numbers.                                                                 *)

LEMMA DivUnique ==
  ASSUME NEW n \in Nat \ {0}, NEW q \in Nat, NEW r \in 0 .. n - 1
  PROVE  (n * q + r) \div n = q /\ (n * q + r) % n = r
OBVIOUS

LEMMA DivMod ==
  ASSUME NEW n \in Nat \ {0}, NEW p \in Nat
  PROVE  /\ p \div n \in Nat /\ p % n \in 0 .. n - 1
         /\ p = n * (p \div n) + (p % n)
OBVIOUS

(* Equal quotients: a page in the span that starts at a multiple of it.     *)
LEMMA SameSpan ==
  ASSUME NEW n \in Nat \ {0}, NEW m \in Nat, NEW p \in Nat
  PROVE  p \div n = (n * m) \div n <=> p \in n * m .. n * m + n - 1
<1>1. (n * m + 0) \div n = m
  BY DivUnique
<1>2. p \div n \in Nat /\ p % n \in 0 .. n - 1 /\ p = n * (p \div n) + (p % n)
  BY DivMod
<1>3. n * m \in Nat
  OBVIOUS
<1>4. ASSUME p \div n = m PROVE p \in n * m .. n * m + n - 1
  BY <1>2, <1>3, <1>4
<1>5. ASSUME p \in n * m .. n * m + n - 1 PROVE p \div n = m
  <2>1. p - n * m \in 0 .. n - 1 /\ n * m + (p - n * m) = p
    BY <1>3, <1>5
  <2>2. (n * m + (p - n * m)) \div n = m
    BY <2>1, DivUnique
  <2>3. QED BY <2>1, <2>2
<1>6. QED BY <1>1, <1>3, <1>4, <1>5

LEMMA LeastOf ==
  ASSUME NEW S, S \subseteq Nat, S # {}
  PROVE  Min(S) \in S /\ \A x \in S : Min(S) <= x
<1>1. PICK least \in S : \A x \in S : ~ (<<x, least>> \in OpToRel(<, Nat))
  BY NatLessThanWellFounded, WFMin
<1>2. \A x \in S : least <= x
  <2> TAKE x \in S
  <2>1. x \in Nat /\ least \in Nat /\ ~ (x < least)
    BY <1>1 DEF OpToRel
  <2>2. QED BY <2>1
<1>3. \E y \in S : \A x \in S : y <= x
  BY <1>2
<1>4. QED BY <1>3, Zenon DEF Min

-----------------------------------------------------------------------------
(* Where the wired page and the parked entries are: behind the user pages,  *)
(* the former at a multiple of its size, the latter at even pages.          *)
LEMMA Layout ==
  /\ \E k \in Nat \ {0} : WiredBase = (2 * WIRED_SPAN) * k
  /\ \A page \in UserPages : page < WiredBase
<1>1. Max(UserPages) \in UserPages /\ \A page \in UserPages : page <= Max(UserPages)
  <2>1. \E x \in UserPages : \A y \in UserPages : x >= y
    BY PagesAssumption
  <2>2. Max(UserPages) \in UserPages /\ \A y \in UserPages : Max(UserPages) >= y
    BY <2>1, Zenon DEF Max
  <2>3. QED BY <2>2, PagesAssumption
<1> DEFINE n == 2 * WIRED_SPAN
           m == Max(UserPages)
<1>2. n \in Nat \ {0} /\ m \in Nat
  <2>1. UserPages \subseteq Nat
    BY PagesAssumption
  <2>2. m \in Nat
    BY <1>1, <2>1, Zenon
  <2>3. QED BY <2>2, PagesAssumption
<1> HIDE DEF n, m
<1>3. m \div n \in Nat /\ m % n \in 0 .. n - 1 /\ m = n * (m \div n) + (m % n)
  BY <1>2, DivMod
<1>4. WiredBase = n * (1 + m \div n)
  BY DEF WiredBase, n, m
<1>5. n * (1 + m \div n) = n + n * (m \div n)
  BY <1>2, <1>3
<1>6. 1 + m \div n \in Nat \ {0}
  BY <1>3
<1>7. m < WiredBase
  <2>1. n * (m \div n) \in Nat
    BY <1>2, <1>3
  <2>2. QED BY <1>2, <1>3, <1>4, <1>5, <2>1
<1>8. \A page \in UserPages : page <= m
  BY <1>1 DEF m
<1>9. WiredBase \in Int
  BY <1>2, <1>4, <1>6
<1>10. QED
  BY <1>2, <1>4, <1>6, <1>7, <1>8, <1>9, PagesAssumption DEF n

LEMMA WiredLayout ==
  /\ WiredBase \in Nat \ {0} /\ WiredBase % 2 = 0
  /\ \A i \in Nat : /\ Unique(i) \in Nat /\ Unique(i) % 2 = 0
                    /\ Unique(i) >= WiredBase + 2 * WIRED_SPAN
<1>1. PICK k \in Nat \ {0} : WiredBase = (2 * WIRED_SPAN) * k
  BY Layout
<1> DEFINE m == WIRED_SPAN * k
<1>2. m \in Nat \ {0} /\ WiredBase = 2 * m
  BY <1>1, PagesAssumption
<1> HIDE DEF m
<1>3. QED
  BY <1>2, PagesAssumption DEF Unique

(* The even page of a pair.                                                 *)
LEMMA Pairs ==
  ASSUME NEW page \in Nat
  PROVE  /\ Even(page) \in Nat /\ Even(page) % 2 = 0
         /\ page = IF page % 2 = 1 THEN Even(page) + 1 ELSE Even(page)
         /\ Even(Even(page)) = Even(page)
         /\ \A other \in Nat : page \div 2 = other \div 2 <=> Even(page) = Even(other)
         /\ \A other \in Nat : other % 2 = 0 => Even(other) = other
BY DEF Even

LEMMA UserPairs ==
  ASSUME NEW page \in UserPages
  PROVE  page \in Nat /\ Even(page) \in Nat /\ Even(page) + 1 < WiredBase
<1>1. page \in Nat /\ page < WiredBase /\ WiredBase \in Nat /\ WiredBase % 2 = 0
  BY Layout, WiredLayout, PagesAssumption
<1>2. QED
  BY <1>1 DEF Even

-----------------------------------------------------------------------------
(* What matches.                                                            *)

LEMMA ParkedMatch ==
  ASSUME NEW e \in Entries, NEW i \in Indexes, IsParked(e, i), NEW asid,
         NEW page \in Nat, page < WiredBase + 2 * WIRED_SPAN
  PROVE  ~Matches(e, page, asid)
<1>1. Unique(i) \in Nat /\ Unique(i) % 2 = 0 /\ Unique(i) >= WiredBase + 2 * WIRED_SPAN
  BY WiredLayout DEF Indexes
<1>2. Even(Unique(i)) = Unique(i)
  BY <1>1, Pairs
<1>3. WiredBase \in Nat /\ WIRED_SPAN \in Nat
  BY WiredLayout, PagesAssumption
<1>4. Even(page) <= page
  BY DEF Even
<1>5. Even(page) # Unique(i) /\ Even(page) \in Int
  BY <1>1, <1>3, <1>4, Pairs
<1>6. page \div 2 # Unique(i) \div 2
  BY <1>1, <1>2, <1>5, Pairs
<1>7. QED
  BY <1>6 DEF IsParked, Matches

LEMMA WiredMatch ==
  ASSUME NEW e \in Entries, IsWired(e), NEW page \in Nat, NEW asid
  PROVE  Matches(e, page, asid) <=> page \in WiredPages
<1>1. PICK k \in Nat \ {0} : WiredBase = (2 * WIRED_SPAN) * k
  BY Layout
<1> DEFINE n == 2 * WIRED_SPAN
<1>2. n \in Nat \ {0}
  BY PagesAssumption
<1>3. e.span = WIRED_SPAN /\ e.vpn = WiredBase /\ Global(e)
  BY DEF IsWired, WiredHalf, Global
<1>4. page \div n = (n * k) \div n <=> page \in n * k .. n * k + n - 1
  <2> HIDE DEF n
  <2>1. QED BY <1>2, SameSpan
<1>5. page \div n = WiredBase \div n <=> page \in WiredPages
  BY <1>1, <1>4 DEF WiredPages
<1>6. QED
  BY <1>3, <1>5 DEF Matches

LEMMA PairMatch ==
  ASSUME NEW e \in Entries, IsUser(e), NEW page \in Nat, NEW asid
  PROVE  /\ Matches(e, page, asid) <=> e.vpn = Even(page) /\ e.asid = asid
         /\ Matches(e, page, asid) => page < WiredBase
<1>1. PICK p \in UserPages : e.vpn = Even(p)
  BY DEF IsUser
<1>2. p \in Nat /\ Even(p) \in Nat /\ Even(p) + 1 < WiredBase
  BY UserPairs
<1>3. Even(p) % 2 = 0 /\ Even(Even(p)) = Even(p)
  BY <1>2, Pairs
<1>4. e.span = 1 /\ ~Global(e)
  BY DEF IsUser, HalfOK, Global
<1>5. page \div 2 = e.vpn \div 2 <=> e.vpn = Even(page)
  BY <1>1, <1>2, <1>3, Pairs
<1>6. Matches(e, page, asid) <=> e.vpn = Even(page) /\ e.asid = asid
  BY <1>4, <1>5 DEF Matches
<1>7. ASSUME e.vpn = Even(page) PROVE page < WiredBase
  BY <1>1, <1>2, <1>7, Pairs, WiredLayout
<1>8. QED
  BY <1>6, <1>7

(* A user page, or the even page of its pair, matches the entry that was    *)
(* written for the pair and nothing else, ...                               *)
LEMMA UserMatch ==
  ASSUME TypesOK, EntriesOK, NEW page \in UserPages, NEW asid, NEW i \in Indexes
  PROVE  /\ Matches(tlb[i], page, asid) <=> Found(i, page, asid)
         /\ Matches(tlb[i], Even(page), asid) <=> Found(i, page, asid)
         /\ Found(i, page, asid) => IsUser(tlb[i])
<1>1. /\ page \in Nat /\ Even(page) \in Nat /\ Even(Even(page)) = Even(page)
      /\ Even(page) < WiredBase /\ page < WiredBase
  BY UserPairs, Pairs, Layout, WiredLayout
<1>2. WiredBase \in Nat /\ WIRED_SPAN \in Nat /\ tlb[i] \in Entries
  BY WiredLayout, PagesAssumption DEF TypesOK
<1>3. CASE IsWired(tlb[i])
  <2>1. ~Matches(tlb[i], page, asid) /\ ~Matches(tlb[i], Even(page), asid)
    BY <1>1, <1>2, <1>3, WiredMatch DEF WiredPages
  <2>2. ~Found(i, page, asid)
    BY <1>1, <1>2, <1>3 DEF IsWired, Found
  <2>3. QED BY <2>1, <2>2
<1>4. CASE IsParked(tlb[i], i)
  <2>1. ~Matches(tlb[i], page, asid) /\ ~Matches(tlb[i], Even(page), asid)
    BY <1>1, <1>2, <1>4, ParkedMatch
  <2>2. Unique(i) >= WiredBase + 2 * WIRED_SPAN /\ Unique(i) \in Nat
    BY WiredLayout DEF Indexes
  <2>3. ~Found(i, page, asid)
    BY <1>1, <1>2, <1>4, <2>2 DEF IsParked, Found
  <2>4. QED BY <2>1, <2>3
<1>5. CASE IsUser(tlb[i])
  BY <1>1, <1>2, <1>5, PairMatch DEF Found
<1>6. QED
  BY <1>3, <1>4, <1>5 DEF EntriesOK, KindsOK

(* ... and a page of the wired one matches entry 0 once that is written.    *)
LEMMA WiredPageMatch ==
  ASSUME TypesOK, EntriesOK, NEW page \in WiredPages, NEW asid, NEW i \in Indexes
  PROVE  Matches(tlb[i], page, asid) <=> i = 0 /\ WiredHere
<1>1. WiredBase \in Nat /\ WIRED_SPAN \in Nat \ {0} /\ tlb[i] \in Entries
  BY WiredLayout, PagesAssumption DEF TypesOK
<1>2. page \in Nat /\ page >= WiredBase /\ page < WiredBase + 2 * WIRED_SPAN
  BY <1>1 DEF WiredPages
<1>3. CASE i = 0 /\ WiredHere
  BY <1>1, <1>2, <1>3, WiredMatch DEF EntriesOK
<1>4. CASE ~ (i = 0 /\ WiredHere)
  <2>1. IsParked(tlb[i], i) \/ IsUser(tlb[i])
    BY <1>4 DEF EntriesOK, KindsOK
  <2>2. ~Matches(tlb[i], page, asid)
    BY <1>1, <1>2, <2>1, ParkedMatch, PairMatch
  <2>3. QED BY <1>4, <2>2
<1>5. QED BY <1>3, <1>4

LEMMA FirstMatch ==
  ASSUME NEW page, NEW asid, Matching(page, asid) # {}
  PROVE  /\ Min(Matching(page, asid)) \in Indexes
         /\ Matches(tlb[Min(Matching(page, asid))], page, asid)
<1>1. Matching(page, asid) \subseteq Indexes /\ Indexes \subseteq Nat
  BY EntriesAssumption DEF Matching, Indexes
<1>2. Min(Matching(page, asid)) \in Matching(page, asid)
  BY <1>1, LeastOf
<1>3. QED BY <1>2 DEF Matching

-----------------------------------------------------------------------------
(* What the invariant says of translation.                                  *)

LEMMA InvUnambiguous == TlbInv => Unambiguous
<1>1. SUFFICES ASSUME TlbInv, NEW page \in Pages, NEW asid \in Asids
               PROVE  Cardinality(Matching(page, asid)) <= 1
  BY DEF Unambiguous
<1>2. \A i, j \in Indexes : Matches(tlb[i], page, asid) /\ Matches(tlb[j], page, asid) => i = j
  <2>1. CASE page \in UserPages
    BY <1>1, <2>1, UserMatch DEF TlbInv, EntriesOK, NoTwins, Found
  <2>2. CASE page \in WiredPages
    BY <1>1, <2>2, WiredPageMatch DEF TlbInv
  <2>3. QED BY <2>1, <2>2 DEF Pages
<1>3. CASE Matching(page, asid) = {}
  BY <1>3, FS_EmptySet
<1>4. CASE Matching(page, asid) # {}
  <2>1. PICK i \in Matching(page, asid) : TRUE
    BY <1>4
  <2>2. Matching(page, asid) = {i}
    BY <1>2, <2>1 DEF Matching
  <2>3. Cardinality({i}) = 1
    BY FS_Singleton
  <2>4. QED BY <2>2, <2>3
<1>5. QED BY <1>3, <1>4

(* A hit on a user page uses the half of the pair's entry that is for it.   *)
LEMMA UserTranslation ==
  ASSUME TypesOK, EntriesOK, NEW page \in UserPages, NEW asid \in Asids, NEW is_write \in BOOLEAN
  PROVE  LET t == pfn_translate(page, asid, is_write)
         IN  /\ t.result = "refill" <=> NotFound(page, asid)
             /\ t.result = "ok" =>
                  \E lo \in Halves : /\ HalfOK(lo, asid, page) /\ lo.v /\ (is_write => lo.d)
                                     /\ t.frame = lo.pfn
<1> DEFINE t == pfn_translate(page, asid, is_write)
           M == Matching(page, asid)
           e == tlb[Min(M)]
           lo == IF page % 2 = 1 THEN e.lo1 ELSE e.lo0
<1>1. M = {} <=> NotFound(page, asid)
  BY UserMatch DEF Matching, NotFound
<1>2. CASE M = {}
  <2>1. t = [result |-> "refill", frame |-> NoPage]
    BY <1>2 DEF pfn_translate
  <2>2. QED BY <1>1, <1>2, <2>1
<1>3. CASE M # {}
  <2>1. Min(M) \in Indexes /\ Matches(e, page, asid)
    BY <1>3, FirstMatch
  <2>2. e \in Entries /\ IsUser(e) /\ e.vpn = Even(page) /\ e.asid = asid
    BY <2>1, UserMatch DEF TypesOK, Found
  <2>3. page \in Nat /\ page = IF page % 2 = 1 THEN Even(page) + 1 ELSE Even(page)
    BY UserPairs, Pairs
  <2>4. lo \in Halves /\ HalfOK(lo, asid, page)
    <3>1. CASE page % 2 = 1
      BY <2>2, <2>3, <3>1 DEF IsUser, Entries
    <3>2. CASE ~(page % 2 = 1)
      BY <2>2, <2>3, <3>2 DEF IsUser, Entries
    <3>3. QED BY <3>1, <3>2
  <2>5. e.span = 1 /\ page \div 1 = page /\ page % 1 = 0 /\ lo.pfn \div 1 = lo.pfn
    BY <2>2, <2>3, <2>4 DEF IsUser, Halves
  <2>6. t = IF ~lo.v THEN [result |-> "invalid", frame |-> NoPage]
            ELSE IF is_write /\ ~lo.d THEN [result |-> "modified", frame |-> NoPage]
            ELSE [result |-> "ok", frame |-> 1 * lo.pfn + 0]
    BY <1>3, <2>5 DEF pfn_translate
  <2>7. 1 * lo.pfn + 0 = lo.pfn
    BY <2>4 DEF Halves
  <2> HIDE DEF t, lo, M, e
  <2>8. t.result # "refill"
    BY <2>6
  <2>9. t.result = "ok" => lo.v /\ (is_write => lo.d) /\ t.frame = lo.pfn
    BY <2>6, <2>7
  <2>10. t.result = "refill" <=> NotFound(page, asid)
    BY <1>1, <1>3, <2>8
  <2>11. QED
    BY <2>4, <2>9, <2>10 DEF t
<1>4. QED BY <1>2, <1>3

LEMMA InvTranslates == TlbInv => TranslatesByTable
<1>1. SUFFICES ASSUME TlbInv, os.phase \notin {"flush", "flush write"},
                      NEW page \in UserPages, NEW asid \in Asids, NEW is_write \in BOOLEAN,
                      pfn_translate(page, asid, is_write).result = "ok"
               PROVE  /\ pfn_translate(page, asid, is_write).frame = FrameOf(asid, page)
                      /\ table[asid][page] \in IF is_write THEN {"dirty"} ELSE {"clean", "dirty"}
  BY DEF TranslatesByTable
<1>2. PICK lo \in Halves : /\ HalfOK(lo, asid, page) /\ lo.v /\ (is_write => lo.d)
                           /\ pfn_translate(page, asid, is_write).frame = lo.pfn
  BY <1>1, UserTranslation DEF TlbInv
<1>3. ~Exempt(asid, page)
  BY <1>1 DEF Exempt
<1>4. /\ lo.pfn = FrameOf(asid, page)
      /\ table[asid][page] # "absent" /\ (is_write => table[asid][page] = "dirty")
  BY <1>2, <1>3 DEF HalfOK
<1>5. table[asid][page] \in PTEs
  <2>1. table \in [Asids -> [UserPages -> PTEs]]
    BY <1>1 DEF TlbInv, TypesOK
  <2>2. QED BY <2>1
<1>6. QED
  BY <1>2, <1>4, <1>5 DEF PTEs

LEMMA InvWiredStays == TlbInv => WiredStays
<1>1. SUFFICES ASSUME TlbInv, WiredHere, NEW page \in WiredPages, NEW asid \in Asids
               PROVE  pfn_translate(page, asid, TRUE) = [result |-> "ok", frame |-> WiredFrame(page)]
  BY DEF WiredStays, WiredHere
<1> DEFINE M == Matching(page, asid)
           e == tlb[0]
           w == WIRED_SPAN
<1>2. M = {0}
  <2>1. \A i \in Indexes : Matches(tlb[i], page, asid) <=> i = 0
    BY <1>1, WiredPageMatch DEF TlbInv
  <2>2. 0 \in Indexes
    BY EntriesAssumption DEF Indexes
  <2>3. QED BY <2>1, <2>2 DEF Matching
<1>3. Min(M) = 0
  <2>1. M # {}
    BY <1>2
  <2>2. Min(M) \in M
    BY <1>2, <2>1, LeastOf
  <2>3. QED BY <1>2, <2>2
<1>4. e.span = w /\ e.lo0 = WiredHalf(WiredBase) /\ e.lo1 = WiredHalf(WiredBase + w)
  BY <1>1 DEF TlbInv, EntriesOK, IsWired
<1>5. PICK k \in Nat \ {0} : WiredBase = (2 * w) * k
  BY Layout
<1>6. w \in Nat \ {0} /\ WiredBase \in Nat
  BY PagesAssumption, WiredLayout
<1> DEFINE o == page - WiredBase
<1>7. page \in Nat /\ o \in 0 .. 2 * w - 1
  BY <1>6 DEF WiredPages
<1> HIDE DEF w
<1> DEFINE q == 2 * k
<1>8. q \in Nat /\ q % 2 = 0 /\ (q + 1) % 2 = 1
  OBVIOUS
<1>9. WiredBase = w * q
  BY <1>5, <1>6
<1> HIDE DEF q, o
<1>10. w * (q + 1) = WiredBase + w /\ page = WiredBase + o /\ o \in Nat
  BY <1>6, <1>7, <1>8, <1>9 DEF o
<1>11. WiredBase \div w = q /\ (WiredBase + w) \div w = q + 1
  <2>1. (w * q + 0) \div w = q /\ (w * (q + 1) + 0) \div w = q + 1
    BY <1>6, <1>8, DivUnique
  <2>2. QED BY <2>1, <1>6, <1>9, <1>10
<1>12. ASSUME o < w
       PROVE  (page \div w) % 2 # 1 /\ w * (WiredBase \div w) + (page % w) = page
  <2>1. o \in 0 .. w - 1
    BY <1>6, <1>10, <1>12
  <2>2. (w * q + o) \div w = q /\ (w * q + o) % w = o
    BY <1>6, <1>8, <2>1, DivUnique
  <2>3. page \div w = q /\ page % w = o
    BY <2>2, <1>9, <1>10
  <2>4. QED BY <2>3, <1>8, <1>9, <1>10, <1>11
<1>13. ASSUME o >= w
       PROVE  (page \div w) % 2 = 1 /\ w * ((WiredBase + w) \div w) + (page % w) = page
  <2> DEFINE r == o - w
  <2>1. r \in 0 .. w - 1 /\ WiredBase + o = WiredBase + w + r
    BY <1>6, <1>7, <1>10, <1>13
  <2> HIDE DEF r
  <2>2. (w * (q + 1) + r) \div w = q + 1 /\ (w * (q + 1) + r) % w = r
    <3>1. q + 1 \in Nat
      BY <1>8
    <3>2. QED BY <1>6, <2>1, <3>1, DivUnique, Zenon
  <2>3. page \div w = q + 1 /\ page % w = r
    BY <2>2, <2>1, <1>10
  <2>4. QED BY <2>1, <2>3, <1>8, <1>10, <1>11
<1>14. o < w \/ o >= w
  BY <1>6, <1>10
<1>15. WIRED_SPAN = w
  BY DEF w
<1>16. QED
  BY <1>2, <1>3, <1>4, <1>12, <1>13, <1>14, <1>15 DEF pfn_translate, WiredHalf, WiredFrame

LEMMA InvRetryHits == TlbInv => RetryHits
<1>1. SUFFICES ASSUME TlbInv, os.phase = "user", os.page # NoPage
               PROVE  pfn_translate(os.page, hi.asid, FALSE).result # "refill"
  BY DEF RetryHits, Running
<1>2. os.page \in UserPages /\ hi.asid = current /\ ~NotFound(os.page, current)
  BY <1>1 DEF TlbInv, KernelOK, UserOK, NotFound
<1>3. current \in Asids
  BY <1>1 DEF TlbInv, TypesOK
<1>4. QED
  BY <1>1, <1>2, <1>3, UserTranslation DEF TlbInv

LEMMA InvTypes == TlbInv => TlbTypeOK
<1>1. SUFFICES ASSUME TlbInv PROVE TlbTypeOK
  OBVIOUS
<1>2. 0 \in Indexes /\ 1 \in Indexes
  BY EntriesAssumption DEF Indexes
<1>3. \A i \in Indexes : tlb[i].span \in {1, WIRED_SPAN} /\ tlb[i].asid \in Asids
  BY <1>1 DEF TlbInv, TypesOK, Entries, EntriesOK, KindsOK, IsWired, IsParked, IsUser
<1>4. QED
  BY <1>1, <1>2, <1>3 DEF TlbInv, TypesOK, CountersOK, TlbTypeOK

-----------------------------------------------------------------------------
(* What the steps do to the entries.                                        *)

LEMMA TickKeeps ==
  ASSUME CountersOK, Tick, wired' \in {0, 1}
  PROVE  CountersOK'
BY EntriesAssumption DEF CountersOK, Tick, NextRandom, Indexes

(* Nothing is written: what the entries may say must still be allowed.      *)
LEMMA EntriesKept ==
  ASSUME EntriesOK, UNCHANGED tlb, WiredHere' <=> WiredHere,
         \A i \in Indexes : \A e : e = tlb[i] /\ IsUser(e) => IsUser(e)'
  PROVE  EntriesOK'
<1>1. KindsOK'
  <2>1. SUFFICES ASSUME NEW i \in Indexes
                 PROVE  \/ i = 0 /\ WiredHere' /\ IsWired(tlb[i])'
                        \/ IsParked(tlb[i], i)' \/ IsUser(tlb[i])'
    BY DEF KindsOK
  <2>2. PICK e : e = tlb[i]
    OBVIOUS
  <2>3. e = tlb'[i] /\ (IsUser(e) => IsUser(e)')
    BY <2>2
  <2>4. (i = 0 /\ WiredHere /\ IsWired(e)) \/ IsParked(e, i) \/ IsUser(e)
    BY <2>2 DEF EntriesOK, KindsOK
  <2>5. QED
    BY <2>3, <2>4 DEF IsWired, IsParked, IsUser, HalfOK, Exempt
<1>2. NoTwins' /\ (WiredHere' => IsWired(tlb[0])')
  BY DEF EntriesOK, NoTwins, IsWired
<1>3. QED BY <1>1, <1>2 DEF EntriesOK

(* One entry is written: it must be of a kind of its own, without a twin,   *)
(* and not in the place of the wired one.                                   *)
LEMMA EntryWritten ==
  ASSUME TypesOK, EntriesOK, NEW k \in Indexes, NEW new,
         tlb' = [tlb EXCEPT ![k] = new], WiredHere' <=> WiredHere, WiredHere => k # 0,
         IsParked(new, k) \/ IsUser(new)',
         \A j \in Indexes \ {k} : ~ (tlb[j].vpn = new.vpn /\ tlb[j].asid = new.asid),
         \A i \in Indexes \ {k} : \A e : e = tlb[i] /\ IsUser(e) => IsUser(e)'
  PROVE  EntriesOK'
<1>1. tlb'[k] = new /\ \A i \in Indexes \ {k} : tlb'[i] = tlb[i]
  BY DEF TypesOK
<1>2. KindsOK'
  <2>1. SUFFICES ASSUME NEW i \in Indexes
                 PROVE  \/ i = 0 /\ WiredHere' /\ IsWired(tlb[i])'
                        \/ IsParked(tlb[i], i)' \/ IsUser(tlb[i])'
    BY DEF KindsOK
  <2>2. CASE i = k
    BY <1>1, <2>2 DEF IsParked, IsUser, HalfOK, Exempt
  <2>3. CASE i # k
    <3>1. PICK e : e = tlb[i]
      OBVIOUS
    <3>2. e = tlb'[i] /\ (IsUser(e) => IsUser(e)')
      BY <1>1, <2>3, <3>1
    <3>3. (i = 0 /\ WiredHere /\ IsWired(e)) \/ IsParked(e, i) \/ IsUser(e)
      BY <3>1 DEF EntriesOK, KindsOK
    <3>4. QED
      BY <3>2, <3>3 DEF IsWired, IsParked, IsUser, HalfOK, Exempt
  <2>4. QED BY <2>2, <2>3
<1>3. NoTwins'
  <2>1. SUFFICES ASSUME NEW i \in Indexes, NEW j \in Indexes,
                        tlb'[i].vpn = tlb'[j].vpn, tlb'[i].asid = tlb'[j].asid
                 PROVE  i = j
    BY DEF NoTwins
  <2>2. CASE i = k \/ j = k
    BY <1>1, <2>1, <2>2
  <2>3. CASE i # k /\ j # k
    BY <1>1, <2>1, <2>3 DEF EntriesOK, NoTwins
  <2>4. QED BY <2>2, <2>3
<1>4. WiredHere' => IsWired(tlb[0])'
  <2>1. 0 \in Indexes
    BY EntriesAssumption DEF Indexes
  <2>2. QED BY <1>1, <2>1 DEF EntriesOK, IsWired
<1>5. QED BY <1>2, <1>3, <1>4 DEF EntriesOK

(* Rights as before, and no flush that ends.                                *)
LEMMA RightsKept ==
  ASSUME UNCHANGED table, os.phase \in {"flush", "flush write"} =>
           /\ os'.phase \in {"flush", "flush write"}
           /\ os'.page = os.page /\ os'.asid = os.asid
  PROVE  \A e : IsUser(e) => IsUser(e)'
BY DEF IsUser, HalfOK, Exempt

(* The end of a flush: the entries of other pairs never needed it.          *)
LEMMA OthersKept ==
  ASSUME UNCHANGED table, NEW e \in Entries, IsUser(e),
         os.page \in UserPages, ~ (e.vpn = Even(os.page) /\ e.asid = os.asid)
  PROVE  IsUser(e)'
<1>1. PICK page \in UserPages : e.vpn = Even(page)
  BY DEF IsUser
<1>2. /\ os.page \in Nat /\ e.vpn \in Nat /\ e.vpn % 2 = 0
      /\ os.page = Even(os.page) \/ os.page = Even(os.page) + 1
      /\ Even(os.page) \in Nat /\ Even(os.page) % 2 = 0
  BY <1>1, UserPairs, Pairs
<1>3. ~Exempt(e.asid, e.vpn) /\ ~Exempt(e.asid, e.vpn + 1)
  <2>1. CASE e.asid # os.asid
    BY <2>1 DEF Exempt
  <2>2. CASE e.vpn # Even(os.page)
    <3>1. os.page # e.vpn /\ os.page # e.vpn + 1
      BY <1>2, <2>2
    <3>2. QED BY <3>1 DEF Exempt
  <2>3. QED BY <2>1, <2>2
<1>4. QED
  BY <1>3 DEF IsUser, HalfOK

LEMMA LoGood ==
  ASSUME TypesOK, NEW asid \in Asids, NEW page \in Nat
  PROVE  /\ Lo(asid, page) \in Halves /\ ~Lo(asid, page).g
         /\ Lo(asid, page).v =>
              /\ page \in UserPages /\ Lo(asid, page).pfn = FrameOf(asid, page)
              /\ table[asid][page] # "absent"
              /\ Lo(asid, page).d => table[asid][page] = "dirty"
<1>1. FrameOf(asid, page) \in Nat
  <2>1. asid + 1 \in Nat /\ Unique(ENTRIES) \in Nat
    BY PagesAssumption, EntriesAssumption, WiredLayout
  <2>2. (asid + 1) * Unique(ENTRIES) \in Nat
    BY <2>1
  <2>3. QED BY <2>2 DEF FrameOf
<1>2. QED
  BY <1>1 DEF Lo, Halves

(* The entry of a pair, written from the page table.                        *)
LEMMA PairWritten ==
  ASSUME TypesOK, NEW asid \in Asids, NEW page \in UserPages,
         hi.vpn = Even(page), hi.asid = asid, UNCHANGED <<hi, table>>,
         NEW new, new = Entry(1, Lo(asid, Even(page)), Lo(asid, Even(page) + 1))
  PROVE  /\ new \in Entries /\ new.vpn = Even(page) /\ new.asid = asid
         /\ IsUser(new)'
<1> DEFINE p == Even(page)
<1>1. p \in Nat /\ p + 1 \in Nat /\ Even(p) = p
  BY UserPairs, Pairs
<1>2. 2 * 1 * (p \div (2 * 1)) = p
  BY <1>1 DEF Even
<1>3. PICK lo0, lo1 : lo0 = Lo(asid, p) /\ lo1 = Lo(asid, p + 1)
  OBVIOUS
<1>4. /\ lo0 \in Halves /\ ~lo0.g
      /\ lo0.v => /\ p \in UserPages /\ lo0.pfn = FrameOf(asid, p)
                  /\ table[asid][p] # "absent" /\ (lo0.d => table[asid][p] = "dirty")
  BY <1>1, <1>3, LoGood
<1>5. /\ lo1 \in Halves /\ ~lo1.g
      /\ lo1.v => /\ p + 1 \in UserPages /\ lo1.pfn = FrameOf(asid, p + 1)
                  /\ table[asid][p + 1] # "absent" /\ (lo1.d => table[asid][p + 1] = "dirty")
  BY <1>1, <1>3, LoGood
<1>6. [lo0 EXCEPT !.g = FALSE] = lo0 /\ [lo1 EXCEPT !.g = FALSE] = lo1
  BY <1>4, <1>5 DEF Halves
<1>7. (lo0.g /\ lo1.g) = FALSE
  BY <1>4, <1>5
<1>8. new = [span |-> 1, vpn |-> p, asid |-> asid, lo0 |-> lo0, lo1 |-> lo1]
  <2>1. new = Entry(1, lo0, lo1) /\ hi' = hi
    BY <1>3
  <2>2. QED BY <1>2, <1>6, <1>7, <2>1 DEF Entry
<1> HIDE DEF p
<1>9. new \in Entries /\ new.vpn = p /\ new.asid = asid
  BY <1>1, <1>4, <1>5, <1>8 DEF Entries
<1>10. HalfOK(lo0, asid, p)' /\ HalfOK(lo1, asid, p + 1)'
  BY <1>4, <1>5 DEF HalfOK
<1>11. \E q \in UserPages : p = Even(q)
  BY DEF p
<1>12. IsUser(new)'
  BY <1>8, <1>10, <1>11 DEF IsUser
<1>13. QED BY <1>9, <1>12 DEF p

LEMMA EmptyWritten ==
  ASSUME TypesOK, NEW k \in Indexes, hi'.vpn = Unique(k), hi'.asid \in Asids,
         NEW new, new = Entry(1, Nothing, Nothing)
  PROVE  new \in Entries /\ IsParked(new, k)
<1>1. Unique(k) \in Nat /\ Unique(k) % 2 = 0
  BY WiredLayout DEF Indexes
<1>2. 2 * 1 * (Unique(k) \div (2 * 1)) = Unique(k)
  BY <1>1
<1>3. Nothing \in Halves /\ [Nothing EXCEPT !.g = FALSE] = Nothing /\ ~Nothing.g
  <2>1. PICK n : n = Nothing
    OBVIOUS
  <2>2. n \in Halves /\ n.g = FALSE
    BY <2>1 DEF Nothing, Halves
  <2>3. [n EXCEPT !.g = FALSE] = n
    BY <2>2 DEF Halves
  <2>4. QED BY <2>1, <2>2, <2>3
<1>4. (Nothing.g /\ Nothing.g) = FALSE
  BY <1>3
<1>5. new = [span |-> 1, vpn |-> Unique(k), asid |-> hi'.asid, lo0 |-> Nothing, lo1 |-> Nothing]
  BY <1>2, <1>3, <1>4 DEF Entry
<1>6. QED
  BY <1>1, <1>3, <1>5 DEF IsParked, Entries

LEMMA EmptyAlone ==
  ASSUME TypesOK, EntriesOK, NEW k \in Indexes, NEW j \in Indexes \ {k}
  PROVE  tlb[j].vpn # Unique(k)
<1>1. /\ Unique(k) \in Nat /\ Unique(k) >= WiredBase + 2 * WIRED_SPAN
      /\ WiredBase \in Nat /\ WIRED_SPAN \in Nat \ {0} /\ k \in Nat /\ j \in Nat
  BY WiredLayout, PagesAssumption DEF Indexes
<1>2. CASE IsWired(tlb[j])
  BY <1>1, <1>2 DEF IsWired
<1>3. CASE IsParked(tlb[j], j)
  <2>1. Unique(j) # Unique(k)
    BY <1>1 DEF Unique
  <2>2. QED BY <1>3, <2>1 DEF IsParked
<1>4. CASE IsUser(tlb[j])
  BY <1>1, <1>4, UserPairs DEF IsUser
<1>5. QED BY <1>2, <1>3, <1>4 DEF EntriesOK, KindsOK

(* A probe finds the entry of the pair, wherever it is.                     *)
LEMMA ProbeFinds ==
  ASSUME TypesOK, EntriesOK, NEW page \in UserPages, NEW asid \in Asids,
         hi' = [vpn |-> Even(page), asid |-> asid], op_tlbp
  PROVE  /\ index' \in Indexes \union {NoEntry}
         /\ IF index' = NoEntry THEN NotFound(page, asid) ELSE Found(index', page, asid)
<1> DEFINE M == Matching(Even(page), asid)
<1>1. hi'.vpn = Even(page) /\ hi'.asid = asid
  OBVIOUS
<1>2. index' = IF M = {} THEN NoEntry ELSE Min(M)
  BY <1>1 DEF op_tlbp
<1>3. \A i \in Indexes : i \in M <=> Found(i, page, asid)
  BY UserMatch DEF Matching
<1>4. CASE M = {}
  BY <1>2, <1>3, <1>4 DEF NotFound
<1>5. CASE M # {}
  <2>1. Min(M) \in Indexes /\ Min(M) \in M
    BY <1>5, FirstMatch DEF Matching
  <2>2. Min(M) # NoEntry
    BY <2>1, EntriesAssumption DEF Indexes, NoEntry
  <2>3. QED BY <1>2, <1>3, <1>5, <2>1, <2>2
<1>6. QED BY <1>4, <1>5

(* The entry of a user pair is not the wired one.                           *)
LEMMA PairNotWired ==
  ASSUME TypesOK, EntriesOK, NEW page \in UserPages, NEW asid, WiredHere,
         NEW k \in Indexes, Found(k, page, asid)
  PROVE  k # 0
BY UserPairs, WiredLayout DEF EntriesOK, IsWired, Found

-----------------------------------------------------------------------------
(* Each step keeps the invariant.                                           *)

LEMMA QuietEntries ==
  ASSUME EntriesOK, UNCHANGED <<tlb, table, wired>>,
         os.phase = "wire" <=> os'.phase = "wire",
         os.phase \in {"flush", "flush write"} =>
           /\ os'.phase \in {"flush", "flush write"}
           /\ os'.page = os.page /\ os'.asid = os.asid
  PROVE  EntriesOK'
<1>1. WiredHere' <=> WiredHere
  BY DEF WiredHere
<1>2. \A e : IsUser(e) => IsUser(e)'
  BY RightsKept
<1>3. QED BY <1>1, <1>2, EntriesKept

LEMMA FaultsStep ==
  ASSUME TlbInv, NEW page \in UserPages, NEW is_write \in BOOLEAN, Faults(page, is_write)
  PROVE  TlbInv'
<1> USE DEF TlbInv
<1> DEFINE result == pfn_translate(page, hi.asid, is_write).result
<1>1. /\ page \in Nat /\ Even(page) \in Nat /\ os.phase = "user" /\ UserOK
      /\ hi' = [hi EXCEPT !.vpn = Even(page)]
      /\ os' = [phase |-> IF result = "refill" THEN "refill" ELSE "fault",
                page |-> page, asid |-> current, store |-> is_write]
      /\ UNCHANGED <<tlb, index, wired, table, current>> /\ Tick
  BY UserPairs DEF Faults, Running, update_tlb_exception_state, KernelOK
<1>2. result = "refill" => NotFound(page, current)
  BY <1>1, UserTranslation DEF UserOK, TypesOK
<1> HIDE DEF result
<1>3. /\ os'.phase \in {"refill", "fault"} /\ os'.phase = "refill" => result = "refill"
      /\ os'.page = page /\ os'.asid = current
      /\ hi'.vpn = Even(page) /\ hi'.asid = current
  BY <1>1 DEF TypesOK, UserOK
<1>4. TypesOK'
  BY <1>1 DEF TypesOK, Phases
<1>5. CountersOK'
  BY <1>1, TickKeeps DEF CountersOK
<1>6. EntriesOK'
  BY <1>1, <1>3, QuietEntries
<1>7. KernelOK'
  BY <1>1, <1>2, <1>3 DEF KernelOK, RefillOK, FaultOK, NotFound, Found
<1>8. QED BY <1>4, <1>5, <1>6, <1>7

LEMMA OtherInstructionStep ==
  ASSUME TlbInv, OtherInstruction
  PROVE  TlbInv'
<1> USE DEF TlbInv, OtherInstruction
<1>1. TypesOK'
  BY DEF TypesOK
<1>2. CountersOK'
  BY TickKeeps DEF CountersOK
<1>3. EntriesOK'
  BY QuietEntries
<1>4. KernelOK'
  BY DEF KernelOK, UserOK, RefillOK, FaultOK, Probed, NotFound, Found
<1>5. QED BY <1>1, <1>2, <1>3, <1>4

(* A pair is written where TLBWR chooses or where the probe found it.       *)
LEMMA PairStep ==
  ASSUME TlbInv, NEW k \in Indexes, NEW page \in UserPages,
         hi.vpn = Even(page), hi.asid = current, UNCHANGED <<hi, index, wired, table, current>>,
         os.phase \in {"refill", "update write"},
         op_tlbwi(k, 1, Lo(current, Even(page)), Lo(current, Even(page) + 1)),
         WiredHere => k # 0,
         \A i \in Indexes : Found(i, page, current) => i = k,
         os' \in {User(page), User(NoPage)}, Tick
  PROVE  TlbInv'
<1>0. TypesOK /\ CountersOK /\ EntriesOK /\ current \in Asids
  BY DEF TlbInv, TypesOK
<1>1. PICK new : new = Entry(1, Lo(current, Even(page)), Lo(current, Even(page) + 1))
  OBVIOUS
<1>2. new \in Entries /\ new.vpn = Even(page) /\ new.asid = current /\ IsUser(new)'
  <2>1. UNCHANGED <<hi, table>>
    OBVIOUS
  <2>2. QED BY <1>0, <1>1, <2>1, PairWritten
<1>3. tlb' = [tlb EXCEPT ![k] = new]
  BY <1>1 DEF op_tlbwi
<1>4. /\ os' \in [phase : {"user"}, page : UserPages \union {NoPage}, asid : Asids,
                  store : BOOLEAN]
      /\ os'.phase = "user" /\ os'.page \in {page, NoPage}
  <2>1. PICK p \in {page, NoPage} : os' = User(p)
    OBVIOUS
  <2>2. os' = [phase |-> "user", page |-> p, asid |-> current, store |-> FALSE]
    BY <2>1 DEF User
  <2>3. QED BY <1>0, <2>2
<1>5. TypesOK'
  BY <1>0, <1>2, <1>3, <1>4, PagesAssumption DEF TypesOK, Phases
<1>6. CountersOK'
  BY <1>0, TickKeeps DEF CountersOK
<1>7. EntriesOK'
  <2>1. WiredHere' <=> WiredHere
    BY <1>4 DEF WiredHere
  <2>2. \A e : IsUser(e) => IsUser(e)'
    BY RightsKept
  <2>3. \A j \in Indexes \ {k} : ~ (tlb[j].vpn = new.vpn /\ tlb[j].asid = new.asid)
    BY <1>2 DEF Found
  <2>4. QED BY <1>0, <1>2, <1>3, <2>1, <2>2, <2>3, EntryWritten
<1>8. KernelOK'
  <2>1. Found(k, page, current)'
    BY <1>0, <1>2, <1>3 DEF Found, TypesOK
  <2>2. UserOK'
    BY <1>4, <2>1 DEF UserOK
  <2>3. QED BY <1>4, <2>2 DEF KernelOK
<1>9. QED BY <1>5, <1>6, <1>7, <1>8 DEF TlbInv

LEMMA RandomNotWired ==
  ASSUME TlbInv
  PROVE  random \in Indexes /\ (WiredHere => random # 0)
BY DEF TlbInv, CountersOK, WiredHere, Indexes

LEMMA RefillWriteStep ==
  ASSUME TlbInv, RefillWrite
  PROVE  TlbInv'
<1> DEFINE page == os.page
<1>1. page \in UserPages /\ hi.vpn = Even(page) /\ hi.asid = current /\ NotFound(page, current)
  BY DEF TlbInv, KernelOK, RefillOK, RefillWrite
<1>2. random \in Indexes /\ (WiredHere => random # 0)
  BY RandomNotWired
<1>3. /\ UNCHANGED <<hi, index, wired, table, current>> /\ os.phase = "refill"
      /\ op_tlbwi(random, 1, Lo(current, Even(page)), Lo(current, Even(page) + 1))
      /\ os' \in {User(page), User(NoPage)} /\ Tick
  BY DEF RefillWrite, op_tlbwr, op_tlbwi
<1>4. \A i \in Indexes : Found(i, page, current) => i = random
  BY <1>1 DEF NotFound
<1> HIDE DEF page
<1>5. QED BY <1>1, <1>2, <1>3, <1>4, PairStep

LEMMA UpdateWriteStep ==
  ASSUME TlbInv, UpdateWrite
  PROVE  TlbInv'
<1> DEFINE page == os.page
           lo0 == Lo(current, Even(page))
           lo1 == Lo(current, Even(page) + 1)
<1>1. /\ page \in UserPages /\ hi.vpn = Even(page) /\ hi.asid = current
      /\ IF index = NoEntry THEN NotFound(page, current) ELSE Found(index, page, current)
  BY DEF TlbInv, KernelOK, Probed, UpdateWrite
<1>2. /\ UNCHANGED <<hi, index, wired, table, current>> /\ os.phase = "update write"
      /\ IF index = NoEntry THEN op_tlbwr(1, lo0, lo1) ELSE op_tlbwi(index, 1, lo0, lo1)
      /\ os' \in {User(page), User(NoPage)} /\ Tick
  BY <1>1 DEF UpdateWrite
<1> HIDE DEF page
<1>3. CASE index = NoEntry
  <2>1. random \in Indexes /\ (WiredHere => random # 0)
    BY RandomNotWired
  <2>2. op_tlbwi(random, 1, lo0, lo1)
    BY <1>2, <1>3 DEF op_tlbwi, op_tlbwr
  <2>3. \A i \in Indexes : Found(i, page, current) => i = random
    BY <1>1, <1>3 DEF NotFound
  <2>4. QED BY <1>1, <1>2, <2>1, <2>2, <2>3, PairStep
<1>4. CASE index # NoEntry
  <2>1. index \in Indexes /\ Found(index, page, current) /\ op_tlbwi(index, 1, lo0, lo1)
    BY <1>1, <1>2, <1>4 DEF TlbInv, TypesOK
  <2>2. WiredHere => index # 0
    BY <1>1, <2>1, PairNotWired DEF TlbInv
  <2>3. \A i \in Indexes : Found(i, page, current) => i = index
    BY <2>1 DEF Found, TlbInv, EntriesOK, NoTwins
  <2>4. QED BY <1>1, <1>2, <2>1, <2>2, <2>3, PairStep
<1>5. QED BY <1>3, <1>4

(* A page table entry gains rights: no TLB entry becomes wrong.             *)
LEMMA FixTableStep ==
  ASSUME TlbInv, FixTable
  PROVE  TlbInv'
<1>0. /\ TypesOK /\ CountersOK /\ EntriesOK /\ os.phase = "fault" /\ Tick
      /\ os.page \in UserPages /\ os.asid = current /\ hi.asid = current /\ current \in Asids
      /\ UNCHANGED <<tlb, hi, index, wired, current>>
  BY DEF TlbInv, KernelOK, FaultOK, FixTable, TypesOK
<1>1. \/ /\ os' = [os EXCEPT !.phase = "update"]
         /\ table' = [table EXCEPT ![current][os.page] =
                        IF os.store \/ @ = "dirty" THEN "dirty" ELSE "clean"]
      \/ /\ os' = [phase |-> "user", page |-> NoPage, asid |-> current, store |-> FALSE]
         /\ UNCHANGED table
  BY DEF FixTable, Phase, Done, User
<1>2. /\ table' \in [Asids -> [UserPages -> PTEs]]
      /\ \A asid \in Asids, page \in UserPages :
           table[asid][page] # "absent" =>
             /\ table'[asid][page] # "absent"
             /\ table[asid][page] = "dirty" => table'[asid][page] = "dirty"
  <2>1. CASE UNCHANGED table
    BY <1>0, <2>1 DEF TypesOK
  <2>2. CASE ~UNCHANGED table
    <3>1. PICK pte \in {"clean", "dirty"} :
            /\ table' = [table EXCEPT ![current][os.page] = pte]
            /\ table[current][os.page] = "dirty" => pte = "dirty"
      BY <1>0, <1>1, <2>2 DEF TypesOK
    <3>2. QED BY <1>0, <3>1 DEF TypesOK, PTEs
  <2>3. QED BY <2>1, <2>2
<1>3. /\ os'.phase \in {"update", "user"}
      /\ os' \in [phase : Phases, page : Nat \union {NoPage}, asid : Asids, store : BOOLEAN]
      /\ os'.phase = "update" => os'.page = os.page /\ os'.asid = current
      /\ os'.phase = "user" => os'.page = NoPage
  <2>1. CASE os' = [os EXCEPT !.phase = "update"]
    BY <1>0, <2>1 DEF TypesOK, Phases
  <2>2. CASE os' = [phase |-> "user", page |-> NoPage, asid |-> current, store |-> FALSE]
    BY <1>0, <2>2 DEF TypesOK, Phases
  <2>3. QED BY <1>1, <2>1, <2>2
<1>4. TypesOK'
  BY <1>0, <1>2, <1>3 DEF TypesOK
<1>5. CountersOK'
  BY <1>0, TickKeeps DEF CountersOK
<1>6. EntriesOK'
  <2>1. WiredHere' <=> WiredHere
    BY <1>0, <1>3 DEF WiredHere
  <2>2. ASSUME NEW lo, NEW asid \in Asids, NEW page, HalfOK(lo, asid, page)
        PROVE  HalfOK(lo, asid, page)'
    BY <1>0, <1>2, <2>2 DEF HalfOK, Exempt
  <2>3. ASSUME NEW i \in Indexes, NEW e, e = tlb[i], IsUser(e)
        PROVE  IsUser(e)'
    <3>1. e.asid \in Asids
      BY <1>0, <2>3 DEF TypesOK, Entries
    <3>2. QED BY <2>2, <2>3, <3>1 DEF IsUser
  <2>4. QED BY <1>0, <2>1, <2>3, EntriesKept
<1>7. KernelOK'
  BY <1>0, <1>3 DEF KernelOK, FaultOK, UserOK
<1>8. QED BY <1>4, <1>5, <1>6, <1>7 DEF TlbInv

LEMMA UpdateProbeStep ==
  ASSUME TlbInv, UpdateProbe
  PROVE  TlbInv'
<1>0. /\ TypesOK /\ CountersOK /\ EntriesOK /\ os.phase = "update" /\ Tick
      /\ os.page \in UserPages /\ os.asid = current /\ current \in Asids
      /\ hi' = [vpn |-> Even(os.page), asid |-> current] /\ op_tlbp
      /\ os' = [os EXCEPT !.phase = "update write"]
      /\ UNCHANGED <<tlb, wired, table, current>>
  BY DEF TlbInv, KernelOK, FaultOK, UpdateProbe, TypesOK, Phase
<1>1. /\ os'.phase = "update write" /\ os'.page = os.page /\ os'.asid = current
      /\ Even(os.page) \in Nat
  BY <1>0, UserPairs DEF TypesOK
<1>2. /\ index' \in Indexes \union {NoEntry}
      /\ IF index' = NoEntry THEN NotFound(os.page, current) ELSE Found(index', os.page, current)
  BY <1>0, ProbeFinds
<1>3. TypesOK'
  BY <1>0, <1>1, <1>2 DEF TypesOK, Phases
<1>4. CountersOK'
  BY <1>0, TickKeeps DEF CountersOK
<1>5. EntriesOK'
  BY <1>0, <1>1, QuietEntries
<1>6. KernelOK'
  BY <1>0, <1>1, <1>2 DEF KernelOK, Probed, NotFound, Found
<1>7. QED BY <1>3, <1>4, <1>5, <1>6 DEF TlbInv

(* A page loses rights: its entry, if any, is the one about to be flushed.  *)
LEMMA RevokeStep ==
  ASSUME TlbInv, Revoke
  PROVE  TlbInv'
<1>0. /\ TypesOK /\ CountersOK /\ EntriesOK /\ os.phase = "user" /\ Tick
      /\ UNCHANGED <<tlb, hi, index, wired, current>>
  BY DEF TlbInv, Revoke, Running
<1>1. PICK asid \in Asids, page \in UserPages, pte \in {"absent", "clean"} :
        /\ table' = [table EXCEPT ![asid][page] = pte]
        /\ os' = [phase |-> "flush", page |-> page, asid |-> asid, store |-> FALSE]
  BY DEF Revoke
<1>2. /\ table' \in [Asids -> [UserPages -> PTEs]]
      /\ \A a \in Asids, p \in UserPages :
           ~ (a = asid /\ p = page) => table'[a][p] = table[a][p]
  BY <1>0, <1>1 DEF TypesOK, PTEs
<1>3. TypesOK'
  BY <1>0, <1>1, <1>2, PagesAssumption DEF TypesOK, Phases
<1>4. CountersOK'
  BY <1>0, TickKeeps DEF CountersOK
<1>5. EntriesOK'
  <2>1. WiredHere' <=> WiredHere
    BY <1>0, <1>1 DEF WiredHere
  <2>2. ASSUME NEW lo, NEW a \in Asids, NEW p, HalfOK(lo, a, p)
        PROVE  HalfOK(lo, a, p)'
    <3>1. CASE a = asid /\ p = page
      BY <1>1, <2>2, <3>1 DEF HalfOK, Exempt
    <3>2. CASE ~ (a = asid /\ p = page)
      <4>1. ~Exempt(a, p)
        BY <1>0 DEF Exempt
      <4>2. QED BY <1>2, <2>2, <3>2, <4>1 DEF HalfOK
    <3>3. QED BY <3>1, <3>2
  <2>3. ASSUME NEW i \in Indexes, NEW e, e = tlb[i], IsUser(e)
        PROVE  IsUser(e)'
    <3>1. e.asid \in Asids
      BY <1>0, <2>3 DEF TypesOK, Entries
    <3>2. QED BY <2>2, <2>3, <3>1 DEF IsUser
  <2>4. QED BY <1>0, <2>1, <2>3, EntriesKept
<1>6. KernelOK'
  BY <1>1 DEF KernelOK
<1>7. QED BY <1>3, <1>4, <1>5, <1>6 DEF TlbInv

LEMMA FlushProbeStep ==
  ASSUME TlbInv, FlushProbe
  PROVE  TlbInv'
<1>0. /\ TypesOK /\ CountersOK /\ EntriesOK /\ os.phase = "flush" /\ Tick
      /\ os.page \in UserPages /\ os.asid \in Asids
      /\ hi' = [vpn |-> Even(os.page), asid |-> os.asid] /\ op_tlbp
      /\ os' = [os EXCEPT !.phase = "flush write"]
      /\ UNCHANGED <<tlb, wired, table, current>>
  BY DEF TlbInv, KernelOK, FlushProbe, TypesOK, Phase
<1>1. /\ os'.phase = "flush write" /\ os'.page = os.page /\ os'.asid = os.asid
      /\ Even(os.page) \in Nat
  BY <1>0, UserPairs DEF TypesOK
<1>2. /\ index' \in Indexes \union {NoEntry}
      /\ IF index' = NoEntry THEN NotFound(os.page, os.asid) ELSE Found(index', os.page, os.asid)
  BY <1>0, ProbeFinds
<1>3. TypesOK'
  BY <1>0, <1>1, <1>2 DEF TypesOK, Phases
<1>4. CountersOK'
  BY <1>0, TickKeeps DEF CountersOK
<1>5. EntriesOK'
  BY <1>0, <1>1, QuietEntries
<1>6. KernelOK'
  BY <1>0, <1>1, <1>2 DEF KernelOK, Probed, NotFound, Found
<1>7. QED BY <1>3, <1>4, <1>5, <1>6 DEF TlbInv

LEMMA DoneOS ==
  ASSUME TypesOK, NEW phase \in Phases, os' = Done(phase)
  PROVE  /\ os' \in [phase : Phases, page : Nat \union {NoPage}, asid : Asids, store : BOOLEAN]
         /\ os'.phase = phase /\ os'.page = NoPage /\ os'.asid = current
<1>1. os' = [phase |-> phase, page |-> NoPage, asid |-> current, store |-> FALSE]
  BY DEF Done, User
<1>2. QED BY <1>1 DEF TypesOK

LEMMA FlushWriteStep ==
  ASSUME TlbInv, FlushWrite
  PROVE  TlbInv'
<1>0. /\ TypesOK /\ CountersOK /\ EntriesOK /\ os.phase = "flush write" /\ Tick
      /\ os.page \in UserPages /\ os.asid \in Asids
      /\ IF index = NoEntry THEN NotFound(os.page, os.asid) ELSE Found(index, os.page, os.asid)
      /\ IF index = NoEntry
         THEN UNCHANGED <<tlb, hi>>
         ELSE hi' = [hi EXCEPT !.vpn = Unique(index)] /\ op_tlbwi(index, 1, Nothing, Nothing)
      /\ os' = Done("restore")
      /\ UNCHANGED <<index, wired, table, current>>
  BY DEF TlbInv, KernelOK, Probed, FlushWrite, TypesOK
<1>1. /\ os'.phase = "restore"
      /\ os' \in [phase : Phases, page : Nat \union {NoPage}, asid : Asids, store : BOOLEAN]
  BY <1>0, DoneOS DEF Phases
<1>2. CountersOK'
  BY <1>0, TickKeeps DEF CountersOK
<1>3. KernelOK'
  BY <1>1 DEF KernelOK
<1>4. WiredHere' <=> WiredHere
  BY <1>0, <1>1 DEF WiredHere
<1>5. ASSUME NEW i \in Indexes, ~Found(i, os.page, os.asid), NEW e, e = tlb[i], IsUser(e)
      PROVE  IsUser(e)'
  <2>1. e \in Entries /\ ~ (e.vpn = Even(os.page) /\ e.asid = os.asid)
    BY <1>0, <1>5 DEF TypesOK, Found
  <2>2. UNCHANGED table
    BY <1>0
  <2>3. QED BY <1>0, <1>5, <2>1, <2>2, OthersKept
<1>6. CASE index = NoEntry
  <2>1. EntriesOK'
    <3>1. \A i \in Indexes : \A e : e = tlb[i] /\ IsUser(e) => IsUser(e)'
      BY <1>0, <1>5, <1>6 DEF NotFound
    <3>2. UNCHANGED tlb
      BY <1>0, <1>6
    <3>3. QED BY <1>0, <1>4, <3>1, <3>2, EntriesKept
  <2>2. TypesOK'
    BY <1>0, <1>1, <1>6 DEF TypesOK
  <2>3. QED BY <1>2, <1>3, <2>1, <2>2 DEF TlbInv
<1>7. CASE index # NoEntry
  <2>1. /\ index \in Indexes /\ Found(index, os.page, os.asid)
        /\ hi' = [hi EXCEPT !.vpn = Unique(index)] /\ op_tlbwi(index, 1, Nothing, Nothing)
        /\ Unique(index) \in Nat
    <3>1. index \in Indexes
      BY <1>0, <1>7 DEF TypesOK
    <3>2. index \in Nat
      BY <3>1 DEF Indexes
    <3>3. QED BY <1>0, <1>7, <3>1, <3>2, WiredLayout
  <2>2. hi' \in [vpn : Nat, asid : Asids] /\ hi'.vpn = Unique(index) /\ hi'.asid \in Asids
    BY <1>0, <2>1 DEF TypesOK
  <2>3. PICK new : new = Entry(1, Nothing, Nothing)
    OBVIOUS
  <2>4. /\ new \in Entries /\ IsParked(new, index) /\ tlb' = [tlb EXCEPT ![index] = new]
        /\ new.vpn = Unique(index)
    BY <1>0, <2>1, <2>2, <2>3, EmptyWritten DEF op_tlbwi, IsParked
  <2>5. TypesOK'
    BY <1>0, <1>1, <2>2, <2>4 DEF TypesOK
  <2>6. EntriesOK'
    <3>1. WiredHere => index # 0
      BY <1>0, <2>1, PairNotWired
    <3>2. \A j \in Indexes \ {index} : ~ (tlb[j].vpn = new.vpn /\ tlb[j].asid = new.asid)
      BY <1>0, <2>1, <2>4, EmptyAlone
    <3>3. \A i \in Indexes \ {index} : ~Found(i, os.page, os.asid)
      BY <1>0, <2>1 DEF EntriesOK, NoTwins, Found
    <3>4. \A i \in Indexes \ {index} : \A e : e = tlb[i] /\ IsUser(e) => IsUser(e)'
      BY <1>5, <3>3
    <3>5. QED BY <1>0, <1>4, <2>1, <2>4, <3>1, <3>2, <3>4, EntryWritten
  <2>7. QED BY <1>2, <1>3, <2>5, <2>6 DEF TlbInv
<1>8. QED BY <1>6, <1>7

LEMMA RestoreStep ==
  ASSUME TlbInv, Restore
  PROVE  TlbInv'
<1>0. /\ TypesOK /\ CountersOK /\ EntriesOK /\ os.phase = "restore" /\ Tick
      /\ hi' = [vpn |-> 0, asid |-> current] /\ current \in Asids
      /\ os' = [phase |-> "user", page |-> NoPage, asid |-> current, store |-> FALSE]
      /\ UNCHANGED <<tlb, index, wired, table, current>>
  BY DEF TlbInv, Restore, TypesOK, User
<1>1. TypesOK'
  BY <1>0 DEF TypesOK, Phases
<1>2. CountersOK'
  BY <1>0, TickKeeps DEF CountersOK
<1>3. EntriesOK'
  BY <1>0, QuietEntries
<1>4. KernelOK'
  BY <1>0 DEF KernelOK, UserOK
<1>5. QED BY <1>1, <1>2, <1>3, <1>4 DEF TlbInv

LEMMA SwitchTaskStep ==
  ASSUME TlbInv, SwitchTask
  PROVE  TlbInv'
<1>0. /\ TypesOK /\ CountersOK /\ EntriesOK /\ os.phase = "user" /\ Tick
      /\ hi' = [vpn |-> 0, asid |-> current'] /\ current' \in Asids
      /\ os' = [phase |-> "user", page |-> NoPage, asid |-> current', store |-> FALSE]
      /\ UNCHANGED <<tlb, index, wired, table>>
  BY DEF TlbInv, SwitchTask, Running, User
<1>1. TypesOK'
  BY <1>0 DEF TypesOK, Phases
<1>2. CountersOK'
  BY <1>0, TickKeeps DEF CountersOK
<1>3. EntriesOK'
  BY <1>0, QuietEntries
<1>4. KernelOK'
  BY <1>0 DEF KernelOK, UserOK
<1>5. QED BY <1>1, <1>2, <1>3, <1>4 DEF TlbInv

LEMMA DumpEntryStep ==
  ASSUME TlbInv, DumpEntry
  PROVE  TlbInv'
<1>0. /\ TypesOK /\ CountersOK /\ EntriesOK /\ os.phase = "user" /\ Tick
      /\ os' = Done("restore") /\ UNCHANGED <<tlb, index, wired, table, current>>
  BY DEF TlbInv, DumpEntry, Running
<1>1. PICK i \in Indexes : hi' = [vpn |-> tlb[i].vpn, asid |-> tlb[i].asid]
  BY DEF DumpEntry, op_tlbr
<1>2. /\ os'.phase = "restore"
      /\ os' \in [phase : Phases, page : Nat \union {NoPage}, asid : Asids, store : BOOLEAN]
  BY <1>0, DoneOS DEF Phases
<1>3. hi' \in [vpn : Nat, asid : Asids]
  <2>1. tlb[i] \in Entries
    BY <1>0 DEF TypesOK
  <2>2. QED BY <1>1, <2>1 DEF Entries
<1>4. TypesOK'
  BY <1>0, <1>2, <1>3 DEF TypesOK
<1>5. CountersOK'
  BY <1>0, TickKeeps DEF CountersOK
<1>6. EntriesOK'
  BY <1>0, <1>2, QuietEntries
<1>7. KernelOK'
  BY <1>2 DEF KernelOK
<1>8. QED BY <1>4, <1>5, <1>6, <1>7 DEF TlbInv

LEMMA WireFirstStep ==
  ASSUME TlbInv, WireFirst
  PROVE  TlbInv'
<1>0. /\ TypesOK /\ CountersOK /\ EntriesOK /\ os.phase = "user" /\ Tick
      /\ wired = 0 /\ wired' = 1 /\ os' = Done("wire")
      /\ UNCHANGED <<tlb, hi, index, table, current>>
  BY DEF TlbInv, WireFirst, Running
<1>1. /\ os'.phase = "wire"
      /\ os' \in [phase : Phases, page : Nat \union {NoPage}, asid : Asids, store : BOOLEAN]
  BY <1>0, DoneOS DEF Phases
<1>2. TypesOK'
  BY <1>0, <1>1 DEF TypesOK
<1>3. CountersOK'
  BY <1>0, TickKeeps
<1>4. EntriesOK'
  <2>1. WiredHere' <=> WiredHere
    BY <1>0, <1>1 DEF WiredHere
  <2>2. \A e : IsUser(e) => IsUser(e)'
    BY <1>0, RightsKept
  <2>3. QED BY <1>0, <2>1, <2>2, EntriesKept
<1>5. KernelOK'
  BY <1>0, <1>1 DEF KernelOK
<1>6. QED BY <1>2, <1>3, <1>4, <1>5 DEF TlbInv

LEMMA WireWriteStep ==
  ASSUME TlbInv, WireWrite
  PROVE  TlbInv'
<1> DEFINE w == WIRED_SPAN
           lo0 == WiredHalf(WiredBase)
           lo1 == WiredHalf(WiredBase + w)
<1>0. /\ TypesOK /\ CountersOK /\ EntriesOK /\ os.phase = "wire" /\ Tick /\ wired = 1
      /\ hi' = [hi EXCEPT !.vpn = WiredBase]
      /\ op_tlbwi(0, w, lo0, lo1)
      /\ os' = [os EXCEPT !.phase = "flush all", !.page = 1]
      /\ UNCHANGED <<index, wired, table, current>>
  BY DEF TlbInv, KernelOK, WireWrite, WiredHalf, Phase
<1>1. /\ os'.phase = "flush all" /\ os'.page = 1
      /\ os' \in [phase : Phases, page : Nat \union {NoPage}, asid : Asids, store : BOOLEAN]
  BY <1>0 DEF TypesOK, Phases
<1>2. /\ w \in Nat \ {0} /\ WiredBase \in Nat
      /\ hi' \in [vpn : Nat, asid : Asids] /\ hi'.vpn = WiredBase /\ hi'.asid \in Asids
  BY <1>0, PagesAssumption, WiredLayout DEF TypesOK
<1>3. 2 * w * (WiredBase \div (2 * w)) = WiredBase
  <2>1. PICK k \in Nat \ {0} : WiredBase = (2 * w) * k
    BY Layout
  <2> DEFINE n == 2 * w
  <2>2. n \in Nat \ {0}
    BY <1>2
  <2> HIDE DEF n
  <2>3. (n * k + 0) \div n = k /\ n * k \in Nat
    BY <2>2, DivUnique
  <2>4. WiredBase = n * k
    BY <2>1 DEF n
  <2>5. n * (WiredBase \div n) = WiredBase
    BY <2>3, <2>4
  <2>6. QED BY <2>5 DEF n
<1>4. /\ lo0 \in Halves /\ lo1 \in Halves /\ lo0.g = TRUE /\ lo1.g = TRUE
      /\ (lo0.g /\ lo1.g) = TRUE
  BY <1>2 DEF WiredHalf, WiredFrame, Halves
<1> HIDE DEF lo0, lo1
<1>5. [lo0 EXCEPT !.g = TRUE] = lo0 /\ [lo1 EXCEPT !.g = TRUE] = lo1
  BY <1>4 DEF Halves
<1>6. PICK new : new = Entry(w, lo0, lo1)
  OBVIOUS
<1>7. new = [span |-> w, vpn |-> WiredBase, asid |-> hi'.asid, lo0 |-> lo0, lo1 |-> lo1]
  BY <1>2, <1>3, <1>4, <1>5, <1>6 DEF Entry
<1>8. new \in Entries /\ IsWired(new)
  <2>1. new \in Entries
    BY <1>2, <1>4, <1>7 DEF Entries
  <2>2. IsWired(new)
    BY <1>7 DEF IsWired, lo0, lo1
  <2>3. QED BY <2>1, <2>2
<1>9. tlb' = [tlb EXCEPT ![0] = new] /\ 0 \in Indexes
  BY <1>0, <1>6, EntriesAssumption DEF op_tlbwi, Indexes
<1>10. TypesOK'
  BY <1>0, <1>1, <1>2, <1>8, <1>9 DEF TypesOK
<1>11. CountersOK'
  BY <1>0, TickKeeps DEF CountersOK
<1>12. EntriesOK'
  <2>1. tlb'[0] = new /\ \A i \in Indexes \ {0} : tlb'[i] = tlb[i]
    BY <1>0, <1>9 DEF TypesOK
  <2>2. ~WiredHere /\ WiredHere'
    BY <1>0, <1>1 DEF WiredHere
  <2>3. IsWired(tlb[0])'
    BY <1>8, <2>1 DEF IsWired
  <2>4. ASSUME NEW i \in Indexes \ {0}
        PROVE  (IsParked(tlb[i], i) \/ IsUser(tlb[i]))' /\ tlb'[i].vpn # WiredBase
    <3>1. PICK e : e = tlb[i]
      OBVIOUS
    <3>2. e = tlb'[i]
      BY <2>1, <3>1
    <3>3. IsParked(e, i) \/ IsUser(e)
      BY <1>0, <2>2, <3>1 DEF EntriesOK, KindsOK
    <3>4. IsUser(e) => IsUser(e)'
      BY <1>0, RightsKept
    <3>5. CASE IsParked(e, i)
      <4>1. Unique(i) # WiredBase
        BY <1>2, WiredLayout DEF Indexes
      <4>2. QED BY <3>2, <3>5, <4>1 DEF IsParked
    <3>6. CASE IsUser(e)
      <4>1. e.vpn # WiredBase
        BY <1>2, <3>6, UserPairs DEF IsUser
      <4>2. QED BY <3>2, <3>4, <3>6, <4>1 DEF IsUser, HalfOK, Exempt
    <3>7. QED BY <3>3, <3>5, <3>6
  <2>5. KindsOK'
    BY <2>2, <2>3, <2>4 DEF KindsOK
  <2>6. NoTwins'
    <3>1. SUFFICES ASSUME NEW i \in Indexes, NEW j \in Indexes,
                          tlb'[i].vpn = tlb'[j].vpn, tlb'[i].asid = tlb'[j].asid
                   PROVE  i = j
      BY DEF NoTwins
    <3>2. tlb'[0].vpn = WiredBase
      BY <1>8, <2>1 DEF IsWired
    <3>3. CASE i = 0 \/ j = 0
      BY <2>4, <3>1, <3>2, <3>3
    <3>4. CASE i # 0 /\ j # 0
      BY <1>0, <2>1, <3>1, <3>4 DEF EntriesOK, NoTwins
    <3>5. QED BY <3>3, <3>4
  <2>7. QED BY <2>3, <2>5, <2>6 DEF EntriesOK
<1>13. KernelOK'
  BY <1>0, <1>1, EntriesAssumption DEF KernelOK
<1>14. QED BY <1>10, <1>11, <1>12, <1>13 DEF TlbInv

LEMMA FlushNextStep ==
  ASSUME TlbInv, FlushNext
  PROVE  TlbInv'
<1> DEFINE k == os.page
<1>0. /\ TypesOK /\ CountersOK /\ EntriesOK /\ os.phase = "flush all" /\ Tick
      /\ wired = 1 /\ k \in 1 .. ENTRIES - 1
      /\ hi' = [hi EXCEPT !.vpn = Unique(k)] /\ op_tlbwi(k, 1, Nothing, Nothing)
      /\ os' = IF k + 1 < ENTRIES THEN [os EXCEPT !.page = k + 1] ELSE Done("restore")
      /\ UNCHANGED <<index, wired, table, current>>
  BY DEF TlbInv, KernelOK, FlushNext
<1>1. /\ os' \in [phase : Phases, page : Nat \union {NoPage}, asid : Asids, store : BOOLEAN]
      /\ \/ os'.phase = "flush all" /\ os'.page \in 1 .. ENTRIES - 1
         \/ os'.phase = "restore"
  <2>1. CASE k + 1 < ENTRIES
    <3>1. k \in 1 .. ENTRIES - 1
      BY <1>0
    <3> HIDE DEF k
    <3>2. k + 1 \in 1 .. ENTRIES - 1 /\ k + 1 \in Nat
      BY <2>1, <3>1, EntriesAssumption
    <3>3. QED BY <1>0, <2>1, <3>2 DEF TypesOK
  <2>2. CASE ~ (k + 1 < ENTRIES)
    <3>1. os' = Done("restore") /\ "restore" \in Phases
      BY <1>0, <2>2 DEF Phases
    <3>2. QED BY <1>0, <3>1, DoneOS
  <2>3. QED BY <2>1, <2>2
<1> HIDE DEF k
<1>2. k \in Indexes /\ k # 0 /\ Unique(k) \in Nat
  <2>1. k \in 1 .. ENTRIES - 1
    BY <1>0
  <2>2. k \in Nat /\ k \in Indexes /\ k # 0
    BY <2>1, EntriesAssumption DEF Indexes
  <2>3. QED BY <2>2, WiredLayout
<1>3. hi' \in [vpn : Nat, asid : Asids] /\ hi'.vpn = Unique(k) /\ hi'.asid \in Asids
  BY <1>0, <1>2 DEF TypesOK
<1>4. PICK new : new = Entry(1, Nothing, Nothing)
  OBVIOUS
<1>5. /\ new \in Entries /\ IsParked(new, k) /\ tlb' = [tlb EXCEPT ![k] = new]
      /\ new.vpn = Unique(k)
  BY <1>0, <1>2, <1>3, <1>4, EmptyWritten DEF op_tlbwi, IsParked
<1>6. TypesOK'
  BY <1>0, <1>1, <1>3, <1>5 DEF TypesOK
<1>7. CountersOK'
  BY <1>0, TickKeeps DEF CountersOK
<1>8. EntriesOK'
  <2>1. WiredHere' <=> WiredHere
    BY <1>0, <1>1 DEF WiredHere
  <2>2. \A j \in Indexes \ {k} : ~ (tlb[j].vpn = new.vpn /\ tlb[j].asid = new.asid)
    BY <1>0, <1>2, <1>5, EmptyAlone
  <2>3. \A e : IsUser(e) => IsUser(e)'
    BY <1>0, RightsKept
  <2>4. QED BY <1>0, <1>2, <1>5, <2>1, <2>2, <2>3, EntryWritten
<1>9. KernelOK'
  BY <1>0, <1>1 DEF KernelOK
<1>10. QED BY <1>6, <1>7, <1>8, <1>9 DEF TlbInv

-----------------------------------------------------------------------------
LEMMA TlbStarts == TlbInit => TlbInv
<1> SUFFICES ASSUME TlbInit PROVE TlbInv
  OBVIOUS
<1>1. \A i \in Indexes : Unique(i) \in Nat /\ i \in Nat
  BY WiredLayout DEF Indexes
<1>2. current \in Asids
  <2>1. Asids \subseteq Nat /\ Asids # {}
    BY PagesAssumption
  <2>2. Min(Asids) \in Asids
    BY <2>1, LeastOf
  <2>3. QED BY <2>2 DEF TlbInit
<1>3. 0 \in Indexes /\ ENTRIES - 1 \in Indexes
  BY EntriesAssumption DEF Indexes
<1>4. TypesOK
  <2>1. Nothing \in Halves
    BY DEF Nothing, Halves
  <2>2. \A i \in Indexes : tlb[i] \in Entries
    BY <1>1, <2>1, PagesAssumption DEF TlbInit, Entries
  <2>3. tlb \in [Indexes -> Entries]
    BY <2>2 DEF TlbInit
  <2>4. hi \in [vpn : Nat, asid : Asids]
    BY <1>1, <1>2, <1>3 DEF TlbInit
  <2>5. /\ table \in [Asids -> [UserPages -> PTEs]] /\ index \in Indexes \union {NoEntry}
        /\ os \in [phase : Phases, page : Nat \union {NoPage}, asid : Asids, store : BOOLEAN]
    BY <1>2 DEF TlbInit, User, Phases, PTEs
  <2>6. QED BY <1>2, <2>3, <2>4, <2>5 DEF TypesOK
<1>5. CountersOK
  BY <1>3, EntriesAssumption DEF TlbInit, CountersOK
<1>6. EntriesOK
  <2>1. ~WiredHere
    BY DEF TlbInit, WiredHere
  <2>2. \A i \in Indexes : IsParked(tlb[i], i)
    BY DEF TlbInit, IsParked
  <2>3. NoTwins
    <3>1. SUFFICES ASSUME NEW i \in Indexes, NEW j \in Indexes, tlb[i].vpn = tlb[j].vpn
                   PROVE  i = j
      BY DEF NoTwins
    <3>2. Unique(i) = Unique(j)
      BY <2>2, <3>1 DEF IsParked
    <3>3. WiredBase \in Nat /\ WIRED_SPAN \in Nat
      BY WiredLayout, PagesAssumption
    <3>4. QED BY <1>1, <3>2, <3>3 DEF Unique
  <2>4. QED BY <2>1, <2>2, <2>3 DEF EntriesOK, KindsOK
<1>7. KernelOK
  BY DEF TlbInit, User, KernelOK, UserOK
<1>8. QED BY <1>4, <1>5, <1>6, <1>7 DEF TlbInv

LEMMA TlbStutters ==
  ASSUME TlbInv, UNCHANGED tlb_vars
  PROVE  TlbInv'
<1> USE DEF TlbInv, tlb_vars
<1>1. TypesOK' /\ CountersOK'
  BY DEF TypesOK, CountersOK
<1>2. EntriesOK'
  BY QuietEntries
<1>3. KernelOK'
  BY DEF KernelOK, UserOK, RefillOK, FaultOK, Probed, NotFound, Found
<1>4. QED BY <1>1, <1>2, <1>3

(* The invariant holds in every state.                                      *)
THEOREM TlbInvariance == TlbSpec => []TlbInv
<1>1. TlbInit => TlbInv
  BY TlbStarts
<1>2. TlbInv /\ [TlbNext]_tlb_vars => TlbInv'
  <2> SUFFICES ASSUME TlbInv, [TlbNext]_tlb_vars
               PROVE  TlbInv'
    OBVIOUS
  <2>1. CASE LoadFaults
    BY <2>1, FaultsStep DEF LoadFaults
  <2>2. CASE StoreFaults
    BY <2>2, FaultsStep DEF StoreFaults
  <2>3. CASE OtherInstruction
    BY <2>3, OtherInstructionStep
  <2>4. CASE RefillWrite
    BY <2>4, RefillWriteStep
  <2>5. CASE FixTable
    BY <2>5, FixTableStep
  <2>6. CASE UpdateProbe
    BY <2>6, UpdateProbeStep
  <2>7. CASE UpdateWrite
    BY <2>7, UpdateWriteStep
  <2>8. CASE Revoke
    BY <2>8, RevokeStep
  <2>9. CASE FlushProbe
    BY <2>9, FlushProbeStep
  <2>10. CASE FlushWrite
    BY <2>10, FlushWriteStep
  <2>11. CASE Restore
    BY <2>11, RestoreStep
  <2>12. CASE SwitchTask
    BY <2>12, SwitchTaskStep
  <2>13. CASE DumpEntry
    BY <2>13, DumpEntryStep
  <2>14. CASE WireFirst
    BY <2>14, WireFirstStep
  <2>15. CASE WireWrite
    BY <2>15, WireWriteStep
  <2>16. CASE FlushNext
    BY <2>16, FlushNextStep
  <2>17. CASE UNCHANGED tlb_vars
    BY <2>17, TlbStutters
  <2>18. QED
    BY <2>1, <2>2, <2>3, <2>4, <2>5, <2>6, <2>7, <2>8, <2>9, <2>10, <2>11, <2>12, <2>13,
       <2>14, <2>15, <2>16, <2>17 DEF TlbNext
<1>3. QED BY <1>1, <1>2, PTL DEF TlbSpec

(* Whatever the order of misses, faults, reclaims, switches and wirings: no *)
(* page matches two entries, a task reaches its own frames with the rights  *)
(* of its page table, the wired page stays mapped, and the access that      *)
(* missed does not miss again.                                              *)
THEOREM TlbIsSafe == TlbSpec => []TlbSafe
<1>1. TlbInv => TlbSafe
  BY InvTypes, InvUnambiguous, InvTranslates, InvWiredStays, InvRetryHits DEF TlbSafe
<1>2. QED BY <1>1, TlbInvariance, PTL

-----------------------------------------------------------------------------
(* LL and SC.                                                               *)

LlInv == LlTypeOK /\ NoLostUpdate /\ LinkIsOwn

LEMMA LlInitially ==
  ASSUME Words # {}
  PROVE  LlInit => LlInv
<1>1. SUFFICES ASSUME LlInit PROVE LlInv
  OBVIOUS
<1>2. (CHOOSE w \in Words : TRUE) \in Words
  OBVIOUS
<1>3. 0 \in 0 .. MAX_WRITES
  BY WordsAssumption
<1>4. mem \in [Words -> 0 .. MAX_WRITES] /\ writes = mem
  BY <1>1, <1>3 DEF LlInit
<1>5. program \in [Contexts -> [next : {"ll", "sc"}, word : Words, value : 0 .. MAX_WRITES]]
  BY <1>1, <1>2, <1>3 DEF LlInit
<1>6. ll_bit = FALSE /\ ll_addr = NoWord /\ running \in Contexts
  BY <1>1 DEF LlInit, Contexts
<1>7. QED
  BY <1>4, <1>5, <1>6 DEF LlInv, LlTypeOK, NoLostUpdate, LinkIsOwn

(* A write of a word, whoever makes it, counts once and stays in range.     *)
LEMMA OneMore ==
  ASSUME NEW m \in [Words -> 0 .. MAX_WRITES], NEW w \in Words, m[w] < MAX_WRITES
  PROVE  [m EXCEPT ![w] = @ + 1] \in [Words -> 0 .. MAX_WRITES]
<1>1. m[w] + 1 \in 0 .. MAX_WRITES
  BY WordsAssumption
<1>2. QED
  BY <1>1

LEMMA LlInductive ==
  ASSUME LlInv, [LlNext]_ll_vars
  PROVE  LlInv'
<1>1. /\ mem \in [Words -> 0 .. MAX_WRITES] /\ writes = mem
      /\ running \in Contexts
      /\ program \in [Contexts -> [next : {"ll", "sc"}, word : Words,
                                   value : 0 .. MAX_WRITES]]
      /\ ll_bit \in BOOLEAN /\ ll_addr \in Words \union {NoWord}
  BY DEF LlInv, LlTypeOK, NoLostUpdate
<1>2. LinkIsOwn
  BY DEF LlInv
<1>3. Kernel \in Contexts /\ Tasks \subseteq Contexts
  BY DEF Contexts
<1>4. CASE LoadLinked
  <2>1. PICK w \in Words : op_ll(running, w)
    BY <1>4 DEF LoadLinked
  <2>2. UNCHANGED <<mem, running, writes>>
    BY <1>4 DEF LoadLinked
  <2>3. mem[w] \in 0 .. MAX_WRITES
    BY <1>1
  <2>4. /\ program' = [program EXCEPT ![running] =
                         [next |-> "sc", word |-> w, value |-> mem[w]]]
        /\ ll_bit' = TRUE /\ ll_addr' = w
    BY <2>1 DEF op_ll
  <2>5. LlTypeOK'
    BY <1>1, <2>2, <2>3, <2>4 DEF LlTypeOK
  <2>6. LinkIsOwn'
    BY <1>1, <2>2, <2>4 DEF LinkIsOwn
  <2>7. QED
    BY <1>1, <2>2, <2>5, <2>6 DEF LlInv, NoLostUpdate
<1>5. CASE StoreConditional
  <2> DEFINE w == program[running].word
  <2>1. w \in Words /\ program[running].value \in 0 .. MAX_WRITES
    BY <1>1
  <2>2. /\ program[running].next = "sc" /\ writes[w] < MAX_WRITES
        /\ running' = running
        /\ program' = [program EXCEPT ![running].next = "ll"]
        /\ ll_bit' = FALSE /\ ll_addr' = NoWord
    BY <1>5 DEF StoreConditional, op_sc, Unlink, CanWrite
  <2>3. CASE LinkHolds(w)
    <3>1. program[running].value = mem[w]
      BY <1>2, <2>2, <2>3 DEF LinkIsOwn, LinkHolds
    <3>2. /\ mem' = [mem EXCEPT ![w] = program[running].value + 1]
          /\ writes' = [writes EXCEPT ![w] = @ + 1]
      BY <1>5, <2>3 DEF StoreConditional, op_sc, Wrote
    <3>3. mem' = [mem EXCEPT ![w] = @ + 1] /\ writes' = mem'
      BY <1>1, <2>1, <3>1, <3>2
    <3>4. mem' \in [Words -> 0 .. MAX_WRITES]
      BY <1>1, <2>1, <2>2, <3>3, OneMore
    <3>5. program' \in [Contexts -> [next : {"ll", "sc"}, word : Words,
                                     value : 0 .. MAX_WRITES]]
      BY <1>1, <2>2
    <3>6. QED
      BY <1>1, <2>2, <3>3, <3>4, <3>5 DEF LlInv, LlTypeOK, NoLostUpdate, LinkIsOwn
  <2>4. CASE ~LinkHolds(w)
    <3>1. UNCHANGED <<mem, writes>>
      BY <1>5, <2>4 DEF StoreConditional, op_sc
    <3>2. program' \in [Contexts -> [next : {"ll", "sc"}, word : Words,
                                     value : 0 .. MAX_WRITES]]
      BY <1>1, <2>2
    <3>3. QED
      BY <1>1, <2>2, <3>1, <3>2 DEF LlInv, LlTypeOK, NoLostUpdate, LinkIsOwn
  <2>5. QED
    BY <2>3, <2>4
<1>6. CASE GiveUp
  <2>1. /\ program' = [program EXCEPT ![running].next = "ll"]
        /\ UNCHANGED <<mem, ll_bit, ll_addr, running, writes>>
    BY <1>6 DEF GiveUp
  <2>2. program'[running].next = "ll"
    BY <1>1, <2>1
  <2>3. QED
    BY <1>1, <2>1, <2>2 DEF LlInv, LlTypeOK, NoLostUpdate, LinkIsOwn
<1>7. CASE Exception
  BY <1>1, <1>3, <1>7 DEF Exception, Unlink, LlInv, LlTypeOK, NoLostUpdate, LinkIsOwn
<1>8. CASE KernelStore
  <2>1. PICK w \in Words : /\ writes[w] < MAX_WRITES
                           /\ mem' = [mem EXCEPT ![w] = @ + 1]
                           /\ writes' = [writes EXCEPT ![w] = @ + 1]
    BY <1>8 DEF KernelStore, CanWrite, Wrote
  <2>2. /\ running = Kernel /\ program[Kernel].next # "sc"
        /\ UNCHANGED <<ll_bit, ll_addr, running, program>>
    BY <1>8 DEF KernelStore
  <2>3. writes' = mem' /\ mem' \in [Words -> 0 .. MAX_WRITES]
    BY <1>1, <2>1, OneMore
  <2>4. QED
    BY <1>1, <2>2, <2>3 DEF LlInv, LlTypeOK, NoLostUpdate, LinkIsOwn
<1>9. CASE Eret
  BY <1>1, <1>3, <1>9 DEF Eret, op_eret, Unlink, LlInv, LlTypeOK, NoLostUpdate, LinkIsOwn
<1>10. CASE MonitorWrite
  <2>1. PICK w \in Words : /\ writes[w] < MAX_WRITES
                           /\ mem' = [mem EXCEPT ![w] = @ + 1]
                           /\ writes' = [writes EXCEPT ![w] = @ + 1]
    BY <1>10 DEF MonitorWrite, CanWrite, Wrote
  <2>2. ll_bit' = FALSE /\ ll_addr' = NoWord /\ UNCHANGED <<running, program>>
    BY <1>10 DEF MonitorWrite, Unlink
  <2>3. writes' = mem' /\ mem' \in [Words -> 0 .. MAX_WRITES]
    BY <1>1, <2>1, OneMore
  <2>4. QED
    BY <1>1, <2>2, <2>3 DEF LlInv, LlTypeOK, NoLostUpdate, LinkIsOwn
<1>11. CASE MonitorSetPc
  BY <1>1, <1>11 DEF MonitorSetPc, Unlink, LlInv, LlTypeOK, NoLostUpdate, LinkIsOwn
<1>12. CASE UNCHANGED ll_vars
  BY <1>1, <1>2, <1>12 DEF ll_vars, LlInv, LlTypeOK, NoLostUpdate, LinkIsOwn
<1>13. QED
  BY <1>4, <1>5, <1>6, <1>7, <1>8, <1>9, <1>10, <1>11, <1>12 DEF LlNext

(* No update is lost, and a link that holds belongs to the context that     *)
(* runs, for any number of tasks and words.                                 *)
THEOREM LinkedUpdatesAtomic ==
  ASSUME Words # {}
  PROVE  LlSpec => []LlSafe
<1>1. LlInv /\ [LlNext]_ll_vars => LlInv'
  BY LlInductive
<1>2. LlInv => LlSafe
  BY DEF LlInv, LlSafe
<1>3. QED
  BY LlInitially, <1>1, <1>2, PTL DEF LlSpec

-----------------------------------------------------------------------------
(* Loads and stores.  An instruction moves bytes between the register and a *)
(* block of memory, BlockOf, as long as the instruction is wide; byte j of  *)
(* the operand lies ShiftOf bytes before its place in the block.            *)

Lefts == {"lwl", "swl"}
Rights == {"lwr", "swr"}
Instructions == Loads \union Stores

EffectiveOf(i, b) == (b + (IF i \in Lefts THEN 3 ELSE 0)) % SPACE
BlockOf(i, b) ==
  IF i \in Lefts \union Rights THEN Aligned(EffectiveOf(i, b)) ELSE EffectiveOf(i, b)
ShiftOf(i, b) ==
  IF i \in Lefts THEN 3 - (EffectiveOf(i, b) % 4)
  ELSE IF i \in Rights THEN 0 - (EffectiveOf(i, b) % 4) ELSE 0

\* The bytes of the operand that the instruction moves.
MovedBy(i, b) ==
  {j \in 0 .. (IF i \in Lefts \union Rights THEN 3 ELSE width[i] - 1) :
     j - ShiftOf(i, b) \in 0 .. width[i] - 1}

LEMMA Sizes ==
  /\ MEMORY_SIZE \in Nat \ {0} /\ MEMORY_SIZE % 4 = 0
  /\ SPACE \in Nat /\ SPACE % 4 = 0 /\ MEMORY_SIZE <= SPACE /\ SPACE >= 4
  /\ CHUNK \in Nat \ {0} /\ FillValue \in Byte /\ MaxRounds \in Nat
<1>1. /\ MEMORY_SIZE \in Nat \ {0} /\ MEMORY_SIZE % 4 = 0
      /\ SPACE \in Nat /\ SPACE % 4 = 0 /\ MEMORY_SIZE <= SPACE
      /\ CHUNK \in Nat \ {0} /\ FillValue \in 0 .. 255 /\ MaxRounds \in Nat
  BY SizesAssumption
<1>2. QED BY <1>1 DEF Byte

LEMMA SpaceWraps ==
  ASSUME NEW x \in 0 .. 2 * SPACE - 1
  PROVE  x % SPACE = IF x < SPACE THEN x ELSE x - SPACE
<1>1. SPACE \in Nat \ {0}
  BY Sizes
<1>2. CASE x < SPACE
  BY <1>1, <1>2
<1>3. CASE x >= SPACE
  <2>1. x - SPACE \in 0 .. SPACE - 1 /\ x = 1 * SPACE + (x - SPACE)
    BY <1>1, <1>3
  <2>2. QED BY <1>1, <1>3, <2>1
<1>4. QED BY <1>1, <1>2, <1>3

LEMMA Widths ==
  ASSUME NEW i \in Instructions
  PROVE  /\ width[i] = IF i \in {"lb", "lbu", "sb"} THEN 1
                       ELSE IF i \in {"lh", "lhu", "sh"} THEN 2 ELSE 4
         /\ \/ i \in {"lb", "lbu", "sb"} /\ i \notin Lefts \union Rights
            \/ i \in {"lh", "lhu", "sh"} /\ i \notin Lefts \union Rights
            \/ i \in {"lw", "sw"} /\ i \notin Lefts \union Rights
            \/ i \in Lefts /\ i \notin Rights
            \/ i \in Rights /\ i \notin Lefts
BY DEF width, Instructions, Loads, Stores, Lefts, Rights

(* The block is aligned, so it lies in memory whole or not at all; the      *)
(* operand's bytes that belong to it are those that are moved.              *)
LEMMA BlockIs ==
  ASSUME NEW i \in Instructions, NEW b \in Address, ~Misaligned(i, EffectiveOf(i, b))
  PROVE  /\ width[i] \in {1, 2, 4} /\ EffectiveOf(i, b) \in Address
         /\ BlockOf(i, b) \in Nat /\ ShiftOf(i, b) \in -3 .. 3
         /\ BlockOf(i, b) + width[i] <= SPACE
         /\ address_range_valid(BlockOf(i, b), width[i]) <=> BlockOf(i, b) < MEMORY_SIZE
         /\ BlockOf(i, b) < MEMORY_SIZE => BlockOf(i, b) + width[i] <= MEMORY_SIZE
         /\ \A j \in MovedBy(i, b) :
              (b + j) % SPACE = BlockOf(i, b) + (j - ShiftOf(i, b))
<1> DEFINE a == EffectiveOf(i, b)
           w == width[i]
<1>0. PICK m, s : m = MEMORY_SIZE /\ s = SPACE
  OBVIOUS
<1>1. /\ m \in Nat \ {0} /\ m % 4 = 0 /\ s \in Nat /\ s % 4 = 0 /\ m <= s /\ s >= 4
      /\ b \in Nat /\ b < s
  BY Sizes, <1>0 DEF Address
<1>2. CASE i \notin Lefts \union Rights
  <2>1. a = b
    <3>1. a = (b + 0) % SPACE /\ b \in 0 .. 2 * SPACE - 1 /\ b + 0 = b
      BY <1>0, <1>1, <1>2 DEF EffectiveOf
    <3>2. b % SPACE = b
      BY <1>0, <1>1, <3>1, SpaceWraps
    <3>3. QED BY <3>1, <3>2
  <2>2. BlockOf(i, b) = b /\ ShiftOf(i, b) = 0
    BY <1>2, <2>1 DEF BlockOf, ShiftOf
  <2>3. w \in {1, 2, 4} /\ b % w = 0
    <3>1. CASE i \in {"lb", "lbu", "sb"}
      <4>1. w = 1
        BY <3>1, Widths
      <4>2. QED BY <1>1, <4>1
    <3>2. CASE i \in {"lh", "lhu", "sh"}
      <4>1. w = 2
        BY <3>2, Widths
      <4>2. b % 2 = 0
        BY <1>1, <2>1, <3>2 DEF Misaligned
      <4>3. QED BY <4>1, <4>2
    <3>3. CASE i \in {"lw", "sw"}
      <4>1. w = 4
        BY <3>3, Widths
      <4>2. b % 4 = 0
        BY <1>1, <2>1, <3>3 DEF Misaligned
      <4>3. QED BY <4>1, <4>2
    <3>4. QED BY <1>2, <3>1, <3>2, <3>3, Widths
  <2> HIDE DEF a, w
  <2>4. b + w <= s /\ (b < m => b + w <= m) /\ w <= m
    <3>1. CASE w = 1
      BY <1>1, <3>1
    <3>2. CASE w = 2
      BY <1>1, <2>3, <3>2
    <3>3. CASE w = 4
      BY <1>1, <2>3, <3>3
    <3>4. QED BY <2>3, <3>1, <3>2, <3>3
  <2>5. address_range_valid(b, w) <=> b < m
    BY <1>0, <1>1, <2>3, <2>4 DEF address_range_valid
  <2>6. ASSUME NEW j \in MovedBy(i, b)
        PROVE  (b + j) % SPACE = b + (j - 0)
    <3>1. j \in 0 .. w - 1
      BY <1>2 DEF MovedBy, w
    <3>2. b + j \in 0 .. 2 * SPACE - 1 /\ b + j < SPACE
      BY <1>0, <1>1, <2>3, <2>4, <3>1
    <3>3. (b + j) % SPACE = b + j
      BY <3>2, SpaceWraps
    <3>4. QED BY <1>1, <2>3, <3>1, <3>3
  <2>7. a \in Address
    BY <2>1
  <2>8. QED BY <1>0, <1>1, <2>2, <2>3, <2>4, <2>5, <2>6, <2>7 DEF a, w
<1>3. CASE i \in Lefts \union Rights
  <2>1. w = 4
    BY <1>3, Widths DEF Lefts, Rights
  <2>2. PICK d : d = IF i \in Lefts THEN 3 ELSE 0
    OBVIOUS
  <2>3. d \in {0, 3} /\ b + d \in 0 .. 2 * SPACE - 1
    BY <1>0, <1>1, <2>2
  <2>4. a = IF b + d < s THEN b + d ELSE (b + d) - s
    BY <1>0, <2>2, <2>3, SpaceWraps DEF EffectiveOf
  <2>5. PICK p : p = a
    OBVIOUS
  <2>6. PICK r : r = p % 4
    OBVIOUS
  <2>7. BlockOf(i, b) = p - r /\ ShiftOf(i, b) = d - r
    BY <1>3, <2>2, <2>5, <2>6 DEF BlockOf, ShiftOf, Aligned
  <2>8. p \in 0 .. s - 1
    BY <1>1, <2>3, <2>4, <2>5
  <2>9. r \in 0 .. 3 /\ (p - r) % 4 = 0 /\ p - r \in Nat
    BY <2>6, <2>8
  <2>10. p - r + 4 <= s /\ (p - r < m => p - r + 4 <= m) /\ 4 <= m
    BY <1>1, <2>8, <2>9
  <2>11. address_range_valid(p - r, 4) <=> p - r < m
    BY <1>0, <1>1, <2>9, <2>10 DEF address_range_valid
  <2>12. ASSUME NEW j \in MovedBy(i, b)
         PROVE  (b + j) % SPACE = (p - r) + (j - (d - r))
    <3>1. j \in 0 .. 3 /\ j - (d - r) \in 0 .. 3
      BY <1>3, <2>1, <2>7 DEF MovedBy, w
    <3>2. b + j \in 0 .. 2 * SPACE - 1
      BY <1>0, <1>1, <3>1
    <3>3. (b + j) % SPACE = IF b + j < s THEN b + j ELSE (b + j) - s
      BY <1>0, <3>2, SpaceWraps
    <3>4. PICK q : q = (p - r) + (j - (d - r))
      OBVIOUS
    <3>5. q \in 0 .. s - 1 /\ q = (p + j) - d
      <4>1. d \in Int /\ r \in Int /\ p \in Int /\ j \in Int /\ s \in Int
        BY <1>1, <2>3, <2>8, <2>9, <3>1
      <4>2. q = (p + j) - d
        BY <3>4, <4>1
      <4>3. PICK e : e = j - (d - r)
        OBVIOUS
      <4>4. e \in 0 .. 3 /\ q = (p - r) + e
        BY <3>1, <3>4, <4>3
      <4>5. QED BY <2>9, <2>10, <4>1, <4>2, <4>4
    <3>6. CASE b + d < s
      BY <1>1, <2>3, <2>4, <2>5, <3>1, <3>3, <3>4, <3>5, <3>6
    <3>7. CASE ~(b + d < s)
      BY <1>1, <2>3, <2>4, <2>5, <3>1, <3>3, <3>4, <3>5, <3>7
    <3>8. QED BY <3>6, <3>7
  <2>13. a \in Address
    BY <1>0, <2>5, <2>8 DEF Address
  <2> HIDE DEF a, w
  <2>14. d - r \in -3 .. 3
    BY <2>3, <2>9
  <2>15. QED BY <1>0, <1>1, <2>1, <2>7, <2>9, <2>10, <2>11, <2>12, <2>13, <2>14 DEF a, w
<1>4. QED BY <1>2, <1>3

LEMMA PlacesDiffer ==
  ASSUME NEW b \in Address, NEW j \in 0 .. 3, NEW k \in 0 .. 3,
         (b + j) % SPACE = (b + k) % SPACE
  PROVE  j = k
<1>1. PICK s : s = SPACE
  OBVIOUS
<1>2. s \in Nat /\ s >= 4 /\ b \in 0 .. s - 1
  BY <1>1, Sizes DEF Address
<1>3. b + j \in 0 .. 2 * SPACE - 1 /\ b + k \in 0 .. 2 * SPACE - 1
  BY <1>1, <1>2
<1>4. /\ (b + j) % SPACE = IF b + j < s THEN b + j ELSE (b + j) - s
      /\ (b + k) % SPACE = IF b + k < s THEN b + k ELSE (b + k) - s
  BY <1>1, <1>3, SpaceWraps
<1>5. QED BY <1>2, <1>4

LsWords == ram \in [0 .. MEMORY_SIZE - 1 -> Byte] /\ reg \in Register

(* Reading the block gives each byte of the operand that lies in it.        *)
LEMMA ReadIs ==
  ASSUME LsWords, NEW i \in Instructions, NEW b \in Address, ~Misaligned(i, EffectiveOf(i, b)),
         NEW j \in MovedBy(i, b)
  PROVE  platform_bus_read(BlockOf(i, b), width[i])[j - ShiftOf(i, b)] = ByteAt(ram, b + j)
<1>1. PICK B, w, k, m : B = BlockOf(i, b) /\ w = width[i] /\ k = j - ShiftOf(i, b) /\ m = MEMORY_SIZE
  OBVIOUS
<1>2. w \in {1, 2, 4} /\ k \in 0 .. w - 1 /\ B \in Nat /\ m \in Nat
  BY <1>1, BlockIs, Sizes DEF MovedBy
<1>3. /\ address_range_valid(B, w) <=> B < m
      /\ B < m => B + w <= m
      /\ (b + j) % SPACE = B + k
  BY <1>1, BlockIs
<1>4. k \in 0 .. 3
  BY <1>2
<1>5. platform_bus_read(B, w)[k] = IF B < m THEN ram[B + k] ELSE 0
  <2>1. k < w
    BY <1>2
  <2>2. QED BY <1>3, <1>4, <2>1 DEF platform_bus_read
<1>6. ByteAt(ram, b + j) = IF B + k < m THEN ram[B + k] ELSE 0
  BY <1>1, <1>3 DEF ByteAt
<1>7. B + k < m <=> B < m
  BY <1>2, <1>3
<1>8. QED BY <1>1, <1>5, <1>6, <1>7

LEMMA BytesAre ==
  ASSUME LsWords, NEW x \in Int
  PROVE  ByteAt(ram, x) \in Byte
<1>1. SPACE \in Nat \ {0} /\ MEMORY_SIZE \in Nat
  BY Sizes
<1>2. PICK y : y = x % SPACE
  OBVIOUS
<1>3. y \in 0 .. SPACE - 1
  BY <1>1, <1>2
<1>4. CASE y < MEMORY_SIZE
  <2>1. y \in 0 .. MEMORY_SIZE - 1
    BY <1>1, <1>3, <1>4
  <2>2. QED BY <1>2, <1>4, <2>1 DEF ByteAt, LsWords
<1>5. CASE ~(y < MEMORY_SIZE)
  BY <1>2, <1>5 DEF ByteAt, Byte
<1>6. QED BY <1>4, <1>5

(* What a whole load leaves in the register, ...                            *)
LEMMA WholeLoad ==
  ASSUME LsWords, NEW i \in Loads \ {"lwl", "lwr"}, NEW b \in Address,
         ~Misaligned(i, EffectiveOf(i, b)), NEW j \in 0 .. 3
  PROVE  Loaded(i, EffectiveOf(i, b))[j] =
           IF j < width[i] THEN ByteAt(ram, b + j)
           ELSE IF i \in {"lb", "lh"} /\ ByteAt(ram, b + width[i] - 1) > 127 THEN 255 ELSE 0
<1>1. i \in Instructions /\ i \notin Lefts \union Rights
  BY DEF Instructions, Lefts, Rights, Loads
<1>2. PICK w, v : w = width[i] /\ v = platform_bus_read(BlockOf(i, b), w)
  OBVIOUS
<1>3. w \in {1, 2, 4} /\ (i \in {"lb", "lh"} => w \in {1, 2}) /\ b \in Int
  <2>1. w \in {1, 2, 4} /\ (i \in {"lb", "lh"} => w \in {1, 2})
    BY <1>1, <1>2, Widths
  <2>2. QED BY <2>1, Sizes DEF Address
<1>4. ShiftOf(i, b) = 0 /\ BlockOf(i, b) = EffectiveOf(i, b)
  BY <1>1 DEF ShiftOf, BlockOf
<1>5. ASSUME NEW n \in 0 .. w - 1
      PROVE  v[n] = ByteAt(ram, b + n)
  <2>1. n - 0 = n /\ n \in 0 .. width[i] - 1
    BY <1>2, <1>3
  <2>2. n \in MovedBy(i, b)
    BY <1>1, <1>4, <2>1 DEF MovedBy
  <2>3. QED BY <1>1, <1>2, <1>4, <2>1, <2>2, ReadIs
<1>6. ASSUME j >= w
      PROVE  v[j] = 0
  BY <1>2, <1>3, <1>6 DEF platform_bus_read
<1>7. CASE i \in {"lb", "lh"}
  <2>1. Loaded(i, EffectiveOf(i, b)) = SignExtended(v, w)
    BY <1>2, <1>4, <1>7 DEF Loaded
  <2>2. Loaded(i, EffectiveOf(i, b))[j] =
          IF j < w THEN v[j] ELSE IF v[w - 1] >= 128 THEN 255 ELSE 0
    BY <2>1 DEF SignExtended
  <2>3. w - 1 \in 0 .. w - 1 /\ b + w - 1 = b + (w - 1) /\ b + (w - 1) \in Int
    BY <1>3
  <2>4. v[w - 1] = ByteAt(ram, b + w - 1) /\ v[w - 1] \in 0 .. 255
    BY <1>5, <2>3, BytesAre DEF Byte
  <2>5. v[w - 1] >= 128 <=> v[w - 1] > 127
    BY <2>4
  <2>6. j < w => j \in 0 .. w - 1
    BY <1>3
  <2>7. QED BY <1>2, <1>5, <1>7, <2>2, <2>4, <2>5, <2>6
<1>8. CASE i \in {"lbu", "lhu", "lw"}
  <2>1. Loaded(i, EffectiveOf(i, b)) = v
    BY <1>2, <1>4, <1>8 DEF Loaded
  <2>2. (j < w => j \in 0 .. w - 1) /\ (~(j < w) => j >= w)
    BY <1>3
  <2>3. QED BY <1>2, <1>5, <1>6, <1>8, <2>1, <2>2
<1>9. QED BY <1>7, <1>8 DEF Loads

(* ... and what one half of an unaligned load does.                         *)
LEMMA HalfLoad ==
  ASSUME LsWords, NEW i \in {"lwl", "lwr"}, NEW b \in Address, NEW j \in 0 .. 3
  PROVE  Loaded(i, EffectiveOf(i, b))[j] =
           IF j \in MovedBy(i, b) THEN ByteAt(ram, b + j) ELSE reg[j]
<1>1. i \in Instructions /\ ~Misaligned(i, EffectiveOf(i, b)) /\ width[i] = 4
  <2>1. i \in Instructions
    BY DEF Instructions, Loads
  <2>2. QED BY <2>1, Widths DEF Misaligned
<1>2. PICK r, v, c : /\ r = EffectiveOf(i, b) % 4 /\ v = platform_bus_read(BlockOf(i, b), 4)
                     /\ c = ShiftOf(i, b)
  OBVIOUS
<1>3. EffectiveOf(i, b) \in Address /\ SPACE \in Nat
  BY <1>1, BlockIs, Sizes
<1>4. r \in 0 .. 3
  BY <1>2, <1>3 DEF Address
<1>5. j \in MovedBy(i, b) => v[j - c] = ByteAt(ram, b + j)
  BY <1>1, <1>2, ReadIs
<1>6. CASE i = "lwl"
  <2>1. c = 3 - r /\ BlockOf(i, b) = Aligned(EffectiveOf(i, b))
    BY <1>2, <1>6 DEF ShiftOf, BlockOf, Lefts, Rights
  <2>2. Loaded(i, EffectiveOf(i, b))[j] = IF j >= 3 - r THEN v[j - (3 - r)] ELSE reg[j]
    BY <1>2, <1>6, <2>1 DEF Loaded, op_lwl
  <2>3. j \in MovedBy(i, b) <=> j - c \in 0 .. 3
    BY <1>1, <1>2, <1>6 DEF MovedBy, Lefts, Rights
  <2>4. j - (3 - r) \in 0 .. 3 <=> j >= 3 - r
    BY <1>4
  <2>5. QED BY <1>5, <2>1, <2>2, <2>3, <2>4
<1>7. CASE i = "lwr"
  <2>1. c = 0 - r /\ BlockOf(i, b) = Aligned(EffectiveOf(i, b))
    BY <1>2, <1>7 DEF ShiftOf, BlockOf, Lefts, Rights
  <2>2. Loaded(i, EffectiveOf(i, b))[j] = IF j + r <= 3 THEN v[j + r] ELSE reg[j]
    BY <1>2, <1>7, <2>1 DEF Loaded, op_lwr
  <2>3. j \in MovedBy(i, b) <=> j - c \in 0 .. 3
    BY <1>1, <1>2, <1>7 DEF MovedBy, Lefts, Rights
  <2>4. (j - (0 - r) \in 0 .. 3 <=> j + r <= 3) /\ j - (0 - r) = j + r
    BY <1>4
  <2>5. QED BY <1>5, <2>1, <2>2, <2>3, <2>4
<1>8. QED BY <1>6, <1>7

(* A store writes the bytes it moves, each at its place, and no other.      *)
LEMMA BlockWrite ==
  ASSUME LsWords, NEW B \in Nat, NEW w \in {1, 2, 4}, NEW v, NEW x \in DOMAIN ram,
         address_range_valid(B, w) <=> B < MEMORY_SIZE
  PROVE  /\ DOMAIN platform_bus_write(B, w, v) = DOMAIN ram
         /\ platform_bus_write(B, w, v)[x] = IF x - B \in 0 .. w - 1 THEN v[x - B] ELSE ram[x]
<1>1. x \in Nat /\ x < MEMORY_SIZE /\ MEMORY_SIZE \in Nat
  BY Sizes DEF LsWords
<1>2. CASE address_range_valid(B, w)
  BY <1>2 DEF platform_bus_write
<1>3. CASE ~address_range_valid(B, w)
  <2>1. x - B \notin 0 .. w - 1
    BY <1>1, <1>3
  <2>2. QED BY <1>3, <2>1 DEF platform_bus_write
<1>4. QED BY <1>2, <1>3

LEMMA StoreAt ==
  ASSUME LsWords, NEW i \in Stores, NEW b \in Address, ~Misaligned(i, EffectiveOf(i, b)),
         NEW x \in DOMAIN ram, NEW k, k = x - BlockOf(i, b)
  PROVE  /\ DOMAIN Stored(i, EffectiveOf(i, b)) = DOMAIN ram
         /\ Stored(i, EffectiveOf(i, b))[x] =
              IF k \in 0 .. width[i] - 1
                 /\ k + ShiftOf(i, b) \in 0 .. (IF i \in {"swl", "swr"} THEN 3 ELSE width[i] - 1)
              THEN reg[k + ShiftOf(i, b)] ELSE ram[x]
<1>1. i \in Instructions
  BY DEF Instructions
<1>2. PICK B, c, w, a : B = BlockOf(i, b) /\ c = ShiftOf(i, b) /\ w = width[i] /\ a = EffectiveOf(i, b)
  OBVIOUS
<1>3. /\ w \in {1, 2, 4} /\ B \in Nat /\ c \in -3 .. 3
      /\ address_range_valid(B, w) <=> B < MEMORY_SIZE
      /\ a \in 0 .. SPACE - 1
  BY <1>1, <1>2, BlockIs DEF Address
<1>4. x \in Nat /\ x < MEMORY_SIZE /\ k \in Int /\ MEMORY_SIZE \in Nat /\ SPACE \in Nat
  BY <1>2, <1>3, Sizes DEF LsWords
<1>5. CASE i \in {"sb", "sh", "sw"}
  <2>1. c = 0 /\ B = a
    BY <1>2, <1>5 DEF ShiftOf, BlockOf, Lefts, Rights
  <2>2. Stored(i, a) = platform_bus_write(B, w, reg)
    BY <1>2, <1>5, <2>1 DEF Stored
  <2>3. /\ DOMAIN Stored(i, a) = DOMAIN ram
        /\ Stored(i, a)[x] = IF k \in 0 .. w - 1 THEN reg[k] ELSE ram[x]
    BY <1>2, <1>3, <2>2, BlockWrite
  <2>4. k + c = k
    BY <1>4, <2>1
  <2>5. QED BY <1>2, <1>5, <2>3, <2>4
<1>6. CASE i \in {"swl", "swr"}
  <2>1. w = 4
    BY <1>1, <1>2, <1>6, Widths
  <2>2. PICK r, word : r = a % 4 /\ word = platform_bus_read(B, 4)
    OBVIOUS
  <2>3. r \in 0 .. 3
    BY <1>3, <2>2
  <2>4. ASSUME k \in 0 .. 3
        PROVE  word[k] = ram[x]
    <3>1. B < MEMORY_SIZE /\ x = B + k
      BY <1>2, <1>3, <1>4, <2>4
    <3>2. QED BY <1>3, <2>1, <2>2, <2>4, <3>1 DEF platform_bus_read
  <2>5. CASE i = "swl"
    <3>1. c = 3 - r /\ B = Aligned(a)
      BY <1>2, <2>2, <2>5 DEF ShiftOf, BlockOf, Lefts, Rights
    <3>2. Stored(i, a) = platform_bus_write(B, 4, op_swl(a))
      BY <2>5, <3>1 DEF Stored
    <3>3. /\ DOMAIN Stored(i, a) = DOMAIN ram
          /\ Stored(i, a)[x] = IF k \in 0 .. 3 THEN op_swl(a)[k] ELSE ram[x]
      <4>1. 4 \in {1, 2, 4} /\ 4 - 1 = 3
        OBVIOUS
      <4>2. QED BY <1>2, <1>3, <2>1, <3>2, <4>1, BlockWrite
    <3>4. ASSUME k \in 0 .. 3
          PROVE  op_swl(a)[k] = IF k + (3 - r) <= 3 THEN reg[k + (3 - r)] ELSE word[k]
      BY <2>2, <3>1, <3>4 DEF op_swl
    <3>5. ASSUME k \in 0 .. 3
          PROVE  k + (3 - r) \in 0 .. 3 <=> k + (3 - r) <= 3
      BY <2>3, <3>5
    <3>6. QED BY <1>2, <2>1, <2>4, <2>5, <3>1, <3>3, <3>4, <3>5
  <2>6. CASE i = "swr"
    <3>1. c = 0 - r /\ B = Aligned(a)
      BY <1>2, <2>2, <2>6 DEF ShiftOf, BlockOf, Lefts, Rights
    <3>2. Stored(i, a) = platform_bus_write(B, 4, op_swr(a))
      BY <2>6, <3>1 DEF Stored
    <3>3. /\ DOMAIN Stored(i, a) = DOMAIN ram
          /\ Stored(i, a)[x] = IF k \in 0 .. 3 THEN op_swr(a)[k] ELSE ram[x]
      <4>1. 4 \in {1, 2, 4} /\ 4 - 1 = 3
        OBVIOUS
      <4>2. QED BY <1>2, <1>3, <2>1, <3>2, <4>1, BlockWrite
    <3>4. ASSUME k \in 0 .. 3
          PROVE  op_swr(a)[k] = IF k >= r THEN reg[k - r] ELSE word[k]
      BY <2>2, <3>1, <3>4 DEF op_swr
    <3>5. ASSUME k \in 0 .. 3
          PROVE  (k + (0 - r) \in 0 .. 3 <=> k >= r) /\ k + (0 - r) = k - r
      BY <2>3, <3>5
    <3>6. QED BY <1>2, <2>1, <2>4, <2>6, <3>1, <3>3, <3>4, <3>5
  <2>7. QED BY <1>6, <2>5, <2>6
<1>7. QED BY <1>5, <1>6 DEF Stores

LEMMA StoreIs ==
  ASSUME LsWords, NEW i \in Stores, NEW b \in Address, ~Misaligned(i, EffectiveOf(i, b))
  PROVE  /\ Stored(i, EffectiveOf(i, b)) \in [0 .. MEMORY_SIZE - 1 -> Byte]
         /\ \A x \in DOMAIN ram :
              /\ \A j \in MovedBy(i, b) :
                   (b + j) % SPACE = x => Stored(i, EffectiveOf(i, b))[x] = reg[j]
              /\ (\A j \in MovedBy(i, b) : (b + j) % SPACE # x) =>
                   Stored(i, EffectiveOf(i, b))[x] = ram[x]
<1>1. i \in Instructions /\ b \in Int
  BY Sizes DEF Instructions, Address
<1>2. PICK B, c, w, R : /\ B = BlockOf(i, b) /\ c = ShiftOf(i, b) /\ w = width[i]
                        /\ R = Stored(i, EffectiveOf(i, b))
  OBVIOUS
<1>3. /\ w \in {1, 2, 4} /\ B \in Nat /\ c \in -3 .. 3
      /\ \A j \in MovedBy(i, b) : (b + j) % SPACE = B + (j - c)
  BY <1>1, <1>2, BlockIs
<1>4. PICK top : /\ top = IF i \in {"swl", "swr"} THEN 3 ELSE w - 1
                 /\ top \in 0 .. 3
  BY <1>3
<1>5. MovedBy(i, b) = {j \in 0 .. top : j - c \in 0 .. w - 1}
  BY <1>2, <1>4 DEF MovedBy, Lefts, Rights, Stores
<1>6. ASSUME NEW x \in DOMAIN ram
      PROVE  /\ DOMAIN R = DOMAIN ram
             /\ R[x] = IF x - B \in 0 .. w - 1 /\ (x - B) + c \in 0 .. top
                       THEN reg[(x - B) + c] ELSE ram[x]
  BY <1>2, <1>4, StoreAt
<1>7. DOMAIN ram = 0 .. MEMORY_SIZE - 1 /\ 0 \in DOMAIN ram /\ DOMAIN ram \subseteq Int
  BY Sizes DEF LsWords
<1>8. ASSUME NEW x \in DOMAIN ram
      PROVE  R[x] \in Byte
  <2>1. (x - B) + c \in 0 .. top => reg[(x - B) + c] \in Byte
    BY <1>4 DEF LsWords, Register
  <2>2. ram[x] \in Byte
    BY DEF LsWords
  <2>3. QED BY <1>6, <2>1, <2>2
<1>9. R \in [0 .. MEMORY_SIZE - 1 -> Byte]
  <2>1. PICK v : R = platform_bus_write(BlockOf(i, b), w, v)
    <3>1. CASE i \in {"sb", "sh", "sw"}
      BY <1>2, <3>1 DEF Stored, BlockOf, Lefts, Rights
    <3>2. CASE i \in {"swl", "swr"}
      BY <1>1, <1>2, <3>2, Widths DEF Stored, BlockOf, Lefts, Rights
    <3>3. QED BY <3>1, <3>2 DEF Stores
  <2>2. R = [x \in DOMAIN ram |-> R[x]]
    <3>1. CASE address_range_valid(BlockOf(i, b), w)
      BY <2>1, <3>1 DEF platform_bus_write
    <3>2. CASE ~address_range_valid(BlockOf(i, b), w)
      BY <2>1, <3>2 DEF platform_bus_write, LsWords
    <3>3. QED BY <3>1, <3>2
  <2>3. QED BY <1>7, <1>8, <2>2
<1>10. ASSUME NEW x \in DOMAIN ram, NEW j \in MovedBy(i, b), (b + j) % SPACE = x
       PROVE  R[x] = reg[j]
  <2>1. x = B + (j - c) /\ j \in 0 .. top /\ j - c \in 0 .. w - 1
    BY <1>3, <1>5, <1>10
  <2>2. x - B = j - c /\ (x - B) + c = j
    BY <1>3, <1>4, <2>1
  <2>3. QED BY <1>6, <2>1, <2>2
<1>11. ASSUME NEW x \in DOMAIN ram, \A j \in MovedBy(i, b) : (b + j) % SPACE # x
       PROVE  R[x] = ram[x]
  <2>1. CASE x - B \in 0 .. w - 1 /\ (x - B) + c \in 0 .. top
    <3>1. PICK j : j = (x - B) + c
      OBVIOUS
    <3>2. x \in Int
      BY <1>7
    <3>3. j - c = x - B /\ B + (j - c) = x
      BY <1>3, <3>1, <3>2
    <3>4. j \in MovedBy(i, b)
      BY <1>5, <2>1, <3>1, <3>3
    <3>5. QED BY <1>3, <1>11, <3>3, <3>4
  <2>2. CASE ~(x - B \in 0 .. w - 1 /\ (x - B) + c \in 0 .. top)
    BY <1>6, <2>2
  <2>3. QED BY <2>1, <2>2
<1>12. QED BY <1>2, <1>9, <1>10, <1>11

-----------------------------------------------------------------------------
(* The code of a task: one whole instruction, or the two halves of a pair.  *)
Pair(left, right, c) ==
  c = <<LeftOf(left), RightOf(right)>> \/ c = <<RightOf(right), LeftOf(left)>>

LEMMA CodeIs ==
  ASSUME NEW c \in Accesses
  PROVE  /\ c # <<>> /\ Len(c) \in {1, 2}
         /\ \A n \in 1 .. Len(c) :
              /\ c[n].instr \in Instructions
              /\ c[n].disp = IF c[n].instr \in Lefts THEN 3 ELSE 0
              /\ c[n].instr \in Loads <=> c[1].instr \in Loads
              /\ c[n].instr \in Stores <=> c[1].instr \in Stores
         /\ Len(c) = 1 => c[1].instr \in Whole
         /\ Len(c) = 2 => /\ \A n \in 1 .. 2 : c[n].instr \in Lefts \union Rights
                          /\ \/ c[1].instr \in Lefts /\ c[2].instr \in Rights
                             \/ c[1].instr \in Rights /\ c[2].instr \in Lefts
<1>1. CASE c \in Single
  <2>1. PICK i \in Whole : c = <<[instr |-> i, disp |-> 0]>>
    BY <1>1 DEF Single
  <2>2. Len(c) = 1 /\ c[1].instr = i /\ c[1].disp = 0 /\ c # <<>>
    BY <2>1
  <2>3. i \in Instructions /\ i \notin Lefts
    BY DEF Whole, Instructions, Lefts
  <2>4. \A n \in 1 .. Len(c) : n = 1
    BY <2>2
  <2>5. QED BY <2>2, <2>3, <2>4
<1>2. CASE c \in Unaligned
  <2>1. PICK left \in Lefts, right \in Rights :
          /\ Pair(left, right, c)
          /\ \/ left \in Loads /\ right \in Loads /\ left \notin Stores /\ right \notin Stores
             \/ left \in Stores /\ right \in Stores /\ left \notin Loads /\ right \notin Loads
    <3>1. \/ Pair("lwl", "lwr", c)
          \/ Pair("swl", "swr", c)
      BY <1>2 DEF Unaligned, Pair
    <3>2. QED BY <3>1 DEF Lefts, Rights, Loads, Stores
  <2>2. left \in Instructions /\ right \in Instructions /\ right \notin Lefts /\ left \notin Rights
    BY DEF Instructions, Lefts, Rights, Loads, Stores
  <2>3. CASE c = <<LeftOf(left), RightOf(right)>>
    <3>1. /\ Len(c) = 2 /\ c # <<>> /\ c[1].instr = left /\ c[1].disp = 3
          /\ c[2].instr = right /\ c[2].disp = 0
      BY <2>3 DEF LeftOf, RightOf
    <3>2. \A n \in 1 .. Len(c) : n = 1 \/ n = 2
      BY <3>1
    <3>3. QED BY <2>1, <2>2, <3>1, <3>2
  <2>4. CASE c = <<RightOf(right), LeftOf(left)>>
    <3>1. /\ Len(c) = 2 /\ c # <<>> /\ c[2].instr = left /\ c[2].disp = 3
          /\ c[1].instr = right /\ c[1].disp = 0
      BY <2>4 DEF LeftOf, RightOf
    <3>2. \A n \in 1 .. Len(c) : n = 1 \/ n = 2
      BY <3>1
    <3>3. QED BY <2>1, <2>2, <3>1, <3>2
  <2>5. QED BY <2>1, <2>3, <2>4 DEF Pair
<1>3. QED BY <1>1, <1>2 DEF Accesses

\* The bytes of the operand that the first n instructions move.
MovedFirst(c, b, n) == UNION {MovedBy(c[k].instr, b) : k \in 1 .. n}

LEMMA MovedGrows ==
  ASSUME NEW c, NEW b, NEW n \in Nat
  PROVE  MovedFirst(c, b, 0) = {} /\ MovedFirst(c, b, n + 1) = MovedFirst(c, b, n) \union MovedBy(c[n + 1].instr, b)
<1>1. 1 .. 0 = {} /\ 1 .. n + 1 = (1 .. n) \union {n + 1}
  OBVIOUS
<1>2. QED BY <1>1 DEF MovedFirst

LEMMA MovedAre ==
  ASSUME NEW i \in Instructions, NEW b
  PROVE  MovedBy(i, b) \subseteq 0 .. width[i] - 1
<1>1. i \in Lefts \union Rights => width[i] = 4
  BY Widths DEF Lefts, Rights
<1>2. QED BY <1>1 DEF MovedBy

LEMMA MovedStays ==
  ASSUME NEW c \in Accesses, NEW b, NEW n \in 0 .. Len(c)
  PROVE  MovedFirst(c, b, n) \subseteq 0 .. width[c[1].instr] - 1
<1>1. ASSUME NEW k \in 1 .. Len(c)
      PROVE  MovedBy(c[k].instr, b) \subseteq 0 .. width[c[1].instr] - 1
  <2>1. c[k].instr \in Instructions /\ Len(c) \in {1, 2} /\ 1 \in 1 .. Len(c)
    BY CodeIs
  <2>2. CASE Len(c) = 1
    <3>1. k = 1
      BY <2>2
    <3>2. QED BY <2>1, <3>1, MovedAre
  <2>3. CASE Len(c) = 2
    <3>1. c[1].instr \in Lefts \union Rights /\ c[k].instr \in Lefts \union Rights
      BY <2>3, CodeIs
    <3>2. c[1].instr \in Instructions
      BY <2>1, CodeIs
    <3>3. width[c[1].instr] = 4 /\ width[c[k].instr] = 4
      BY <2>1, <3>1, <3>2, Widths DEF Lefts, Rights
    <3>4. QED BY <2>1, <3>3, MovedAre
  <2>4. QED BY <2>1, <2>2, <2>3
<1>2. 1 .. n \subseteq 1 .. Len(c)
  <2>1. Len(c) \in {1, 2}
    BY CodeIs
  <2>2. QED BY <2>1
<1>3. QED BY <1>1, <1>2 DEF MovedFirst

LEMMA WholeMoves ==
  ASSUME NEW i \in Whole, NEW b
  PROVE  i \in Instructions /\ i \notin Lefts \union Rights /\ MovedBy(i, b) = 0 .. width[i] - 1
<1>1. i \in Instructions /\ i \notin Lefts \union Rights
  BY DEF Whole, Instructions, Lefts, Rights
<1>2. width[i] \in {1, 2, 4} /\ ShiftOf(i, b) = 0
  BY <1>1, Widths DEF ShiftOf
<1>3. \A j \in 0 .. width[i] - 1 : j - 0 = j
  BY <1>2
<1>4. QED BY <1>1, <1>2, <1>3 DEF MovedBy

(* The two halves of a pair move all four bytes between them.               *)
LEMMA HalvesMoveAll ==
  ASSUME NEW left \in Lefts, NEW right \in Rights, NEW b \in Address
  PROVE  MovedBy(left, b) \union MovedBy(right, b) = 0 .. 3
<1>1. /\ left \in Instructions /\ right \in Instructions
      /\ right \notin Lefts /\ width[left] = 4 /\ width[right] = 4
  <2>1. left \in Instructions /\ right \in Instructions /\ right \notin Lefts
    BY DEF Instructions, Lefts, Rights, Loads, Stores
  <2>2. QED BY <2>1, Widths DEF Lefts, Rights
<1>2. PICK s : s = SPACE
  OBVIOUS
<1>3. s \in Nat /\ s % 4 = 0 /\ s >= 4 /\ b \in 0 .. s - 1
  BY <1>2, Sizes DEF Address
<1>4. b + 3 \in 0 .. 2 * SPACE - 1 /\ b + 0 \in 0 .. 2 * SPACE - 1 /\ b + 0 = b
  BY <1>2, <1>3
<1>5. EffectiveOf(left, b) = IF b + 3 < s THEN b + 3 ELSE (b + 3) - s
  BY <1>2, <1>4, SpaceWraps DEF EffectiveOf
<1>6. EffectiveOf(right, b) = b
  BY <1>1, <1>2, <1>3, <1>4, SpaceWraps DEF EffectiveOf
<1>7. PICK l, r : l = EffectiveOf(left, b) % 4 /\ r = b % 4
  OBVIOUS
<1>8. r \in 0 .. 3 /\ l = IF r = 0 THEN 3 ELSE r - 1
  <2>1. r \in 0 .. 3
    BY <1>3, <1>7
  <2>2. (b + 3) % 4 = IF r = 0 THEN 3 ELSE r - 1
    BY <1>3, <1>7
  <2>3. (b + 3) - s >= 0 => ((b + 3) - s) % 4 = (b + 3) % 4
    BY <1>3
  <2>4. QED BY <1>3, <1>5, <1>7, <2>1, <2>2, <2>3
<1>9. MovedBy(left, b) = {j \in 0 .. 3 : j - (3 - l) \in 0 .. 3}
  BY <1>1, <1>7 DEF MovedBy, ShiftOf
<1>10. MovedBy(right, b) = {j \in 0 .. 3 : j - (0 - r) \in 0 .. 3}
  BY <1>1, <1>6, <1>7 DEF MovedBy, ShiftOf
<1>11. ASSUME NEW j \in 0 .. 3
       PROVE  j - (3 - l) \in 0 .. 3 \/ j - (0 - r) \in 0 .. 3
  BY <1>8
<1>12. QED BY <1>9, <1>10, <1>11

LEMMA AllMoved ==
  ASSUME NEW c \in Accesses, NEW b \in Address
  PROVE  MovedFirst(c, b, Len(c)) = 0 .. width[c[1].instr] - 1
<1>1. MovedFirst(c, b, 1) = MovedBy(c[1].instr, b)
  <2>1. MovedFirst(c, b, 0 + 1) = {} \union MovedBy(c[0 + 1].instr, b)
    BY MovedGrows
  <2>2. 0 + 1 = 1
    OBVIOUS
  <2>3. QED BY <2>1, <2>2
<1>2. CASE Len(c) = 1
  BY <1>1, <1>2, CodeIs, WholeMoves
<1>3. CASE Len(c) = 2
  <2>1. MovedFirst(c, b, 2) = MovedBy(c[1].instr, b) \union MovedBy(c[2].instr, b)
    <3>1. MovedFirst(c, b, 1 + 1) = MovedFirst(c, b, 1) \union MovedBy(c[1 + 1].instr, b)
      BY MovedGrows
    <3>2. 1 + 1 = 2
      OBVIOUS
    <3>3. QED BY <1>1, <3>1, <3>2
  <2>2. MovedFirst(c, b, 2) = 0 .. 3
    BY <1>3, <2>1, CodeIs, HalvesMoveAll
  <2>3. width[c[1].instr] = 4
    <3>1. c[1].instr \in Instructions /\ c[1].instr \in Lefts \union Rights
      BY <1>3, CodeIs
    <3>2. QED BY <3>1, Widths DEF Lefts, Rights
  <2>4. QED BY <1>3, <2>2, <2>3
<1>4. QED BY <1>2, <1>3, CodeIs

-----------------------------------------------------------------------------
(* The inductive invariant: what the instructions that ran have moved, and  *)
(* that nothing else has changed since the access began.                    *)

BytesMoved == MovedFirst(task.code, task.base, task.ran)
Accessing == task.code # <<>>

WasOK ==
  /\ was.ram \in [0 .. MEMORY_SIZE - 1 -> Byte] /\ was.reg \in Register
  /\ task \in [code : Accesses \union {<<>>}, base : Address, ran : Nat]

FinalByte(j) ==
  IF j < width[First] THEN ByteAt(was.ram, task.base + j)
  ELSE IF First \in {"lb", "lh"} /\ ByteAt(was.ram, task.base + width[First] - 1) > 127
       THEN 255 ELSE 0

LoadedSoFar ==
  Accessing /\ First \in Loads =>
    /\ ram = was.ram
    /\ task.ran = 0 => reg = was.reg
    /\ task.ran > 0 /\ First \in Whole => \A j \in 0 .. 3 : reg[j] = FinalByte(j)
    /\ First \notin Whole =>
         \A j \in 0 .. 3 :
           reg[j] = IF j \in BytesMoved THEN ByteAt(was.ram, task.base + j) ELSE was.reg[j]

StoredSoFar ==
  Accessing /\ First \in Stores =>
    /\ reg = was.reg
    /\ \A x \in DOMAIN ram :
         /\ \A j \in BytesMoved : (task.base + j) % SPACE = x => ram[x] = was.reg[j]
         /\ (\A j \in BytesMoved : (task.base + j) % SPACE # x) => ram[x] = was.ram[x]

StoppedAtOnce ==
  exc \in {"AdEL", "AdES"} =>
    Accessing /\ task.ran = 0 /\ (exc = "AdEL" <=> First \in Loads)

LsInv == LsTypeOK /\ WasOK /\ LoadedSoFar /\ StoredSoFar /\ StoppedAtOnce /\ FillsTheRange

LEMMA LsStart == LsInit => LsInv
<1> SUFFICES ASSUME LsInit PROVE LsInv
  OBVIOUS
<1>1. FirstRam \in [0 .. MEMORY_SIZE - 1 -> Byte] /\ FirstReg \in Register
  BY SizesAssumption DEF Byte, Register
<1>2. LsTypeOK
  BY <1>1, Sizes DEF LsInit, LsTypeOK, NoTask, NoFill, Address
<1>3. WasOK
  BY <1>1, Sizes DEF LsInit, WasOK, NoTask, Address
<1>4. LoadedSoFar /\ StoredSoFar /\ StoppedAtOnce
  BY DEF LsInit, LoadedSoFar, StoredSoFar, StoppedAtOnce, Accessing, NoTask
<1>5. FillsTheRange
  <2>1. filled.ok = TRUE /\ filled.len = 0 /\ filled.pa = 0 /\ was.ram = ram
    BY DEF LsInit, NoFill
  <2>2. \A x \in DOMAIN ram : x - filled.pa \notin 0 .. 0 - 1
    BY <2>1
  <2>3. QED BY <2>1, <2>2 DEF FillsTheRange
<1>6. QED BY <1>2, <1>3, <1>4, <1>5 DEF LsInv

(* The next instruction, in the terms of the lemmas above.                  *)
LEMMA NextInstruction ==
  ASSUME LsInv, Unfinished
  PROVE  /\ Accessing /\ task.code \in Accesses /\ task.base \in Address /\ LsWords
         /\ task.ran \in 0 .. Len(task.code) - 1 /\ Len(task.code) \in {1, 2}
         /\ instr \in Instructions /\ va = EffectiveOf(instr, task.base)
         /\ instr \in Loads <=> First \in Loads
         /\ instr \in Stores <=> First \in Stores
         /\ Len(task.code) = 1 => First \in Whole /\ task.ran = 0 /\ instr = First
         /\ Len(task.code) = 2 => /\ instr \in Lefts \union Rights
                                  /\ First \in Lefts \union Rights
<1>1. Len(<<>>) = 0
  OBVIOUS
<1>2. /\ task.code \in Accesses \union {<<>>} /\ task.ran \in 0 .. Len(task.code)
      /\ task.ran < Len(task.code)
  BY DEF LsInv, LsTypeOK, Unfinished
<1>3. task.code \in Accesses
  BY <1>1, <1>2
<1>4. PICK c, n : c = task.code /\ n = task.ran + 1
  OBVIOUS
<1>5. Len(c) \in {1, 2} /\ n \in 1 .. Len(c) /\ 1 \in 1 .. Len(c)
  BY <1>2, <1>3, <1>4, CodeIs
<1>6. task.ran \in 0 .. Len(task.code) - 1 /\ (Len(c) = 1 => n = 1) /\ (Len(c) = 2 => n \in 1 .. 2)
  <2>1. PICK l, r : l = Len(task.code) /\ r = task.ran
    OBVIOUS
  <2>2. l \in {1, 2} /\ n = r + 1 /\ r \in 0 .. l /\ r < l /\ Len(c) = l
    BY <1>2, <1>4, <1>5, <2>1
  <2>3. r \in 0 .. l - 1 /\ (l = 1 => n = 1) /\ (l = 2 => n \in 1 .. 2)
    BY <2>2
  <2>4. QED BY <2>1, <2>2, <2>3
<1>7. instr = c[n].instr /\ First = c[1].instr /\ va = (task.base + c[n].disp) % SPACE
  BY <1>4 DEF instr, First, va
<1>8. /\ instr \in Instructions /\ c[n].disp = IF instr \in Lefts THEN 3 ELSE 0
      /\ instr \in Loads <=> First \in Loads
      /\ instr \in Stores <=> First \in Stores
  BY <1>3, <1>4, <1>5, <1>7, CodeIs
<1>9. va = EffectiveOf(instr, task.base)
  BY <1>7, <1>8 DEF EffectiveOf
<1>10. Len(c) = 1 => First \in Whole /\ task.ran = 0 /\ instr = First
  BY <1>2, <1>3, <1>4, <1>6, <1>7, CodeIs
<1>11. Len(c) = 2 => instr \in Lefts \union Rights /\ First \in Lefts \union Rights
  BY <1>3, <1>4, <1>6, <1>7, CodeIs
<1>12. task.base \in Address /\ LsWords /\ Accessing
  BY <1>1, <1>2, <1>3 DEF LsInv, LsTypeOK, LsWords, Accessing
<1>13. QED BY <1>3, <1>4, <1>5, <1>6, <1>8, <1>9, <1>10, <1>11, <1>12

LEMMA AccessKeeps == LsInv /\ Access => LsInv'
<1> SUFFICES ASSUME LsInv, Access PROVE LsInv'
  OBVIOUS
<1>1. Unfinished /\ ~Misaligned(instr, va)
  BY DEF Access
<1>2. /\ Accessing /\ task.code \in Accesses /\ task.base \in Address /\ LsWords
      /\ task.ran \in 0 .. Len(task.code) - 1 /\ Len(task.code) \in {1, 2}
      /\ instr \in Instructions /\ va = EffectiveOf(instr, task.base)
      /\ instr \in Loads <=> First \in Loads
      /\ instr \in Stores <=> First \in Stores
      /\ Len(task.code) = 1 => First \in Whole /\ task.ran = 0 /\ instr = First
      /\ Len(task.code) = 2 => instr \in Lefts \union Rights /\ First \in Lefts \union Rights
  BY <1>1, NextInstruction
<1>3. /\ task'.code = task.code /\ task'.base = task.base /\ task'.ran = task.ran + 1
      /\ exc' = "none" /\ was' = was /\ filled' = filled /\ rounds' = rounds
      /\ First' = First
  <2>1. task' = [task EXCEPT !.ran = task.ran + 1]
    BY DEF Access
  <2>2. task \in [code : Accesses \union {<<>>}, base : Address, ran : Nat]
    BY DEF LsInv, WasOK
  <2>3. task'.code = task.code /\ task'.base = task.base /\ task'.ran = task.ran + 1
    BY <2>1, <2>2
  <2>4. QED BY <2>3 DEF Access, First
<1>4. PICK i, b : i = instr /\ b = task.base
  OBVIOUS
<1>5. BytesMoved' = BytesMoved \union MovedBy(i, b)
  <2>1. PICK c, r : c = task.code /\ r = task.ran
    OBVIOUS
  <2>2. r \in Nat /\ BytesMoved = MovedFirst(c, b, r) /\ i = c[r + 1].instr
    BY <1>2, <1>4, <2>1 DEF BytesMoved, instr
  <2>3. BytesMoved' = MovedFirst(c, b, r + 1)
    BY <1>3, <1>4, <2>1 DEF BytesMoved
  <2>4. QED BY <2>2, <2>3, MovedGrows
<1>6. BytesMoved \subseteq 0 .. 3 /\ MovedBy(i, b) \subseteq 0 .. 3
  <2>1. \A n \in 1 .. Len(task.code) : task.code[n].instr \in Instructions
    BY <1>2, CodeIs
  <2>2. 1 .. task.ran \subseteq 1 .. Len(task.code)
    <3>1. PICK l, r : l = Len(task.code) /\ r = task.ran
      OBVIOUS
    <3>2. l \in {1, 2} /\ r \in 0 .. l - 1
      BY <1>2, <3>1
    <3>3. 1 .. r \subseteq 1 .. l
      BY <3>2
    <3>4. QED BY <3>1, <3>3
  <2>3. \A k \in Instructions : MovedBy(k, b) \subseteq 0 .. 3
    <3>1. ASSUME NEW k \in Instructions
          PROVE  0 .. width[k] - 1 \subseteq 0 .. 3
      BY Widths
    <3>2. QED BY <3>1, MovedAre
  <2>4. QED BY <1>2, <1>4, <2>1, <2>2, <2>3 DEF BytesMoved, MovedFirst
<1>7. /\ i \in Instructions /\ b \in Address /\ ~Misaligned(i, EffectiveOf(i, b))
      /\ va = EffectiveOf(i, b) /\ LsWords
  BY <1>1, <1>2, <1>4
<1>8. WasOK' /\ StoppedAtOnce' /\ FillsTheRange' /\ Accessing'
  <2>1. task'.ran \in Nat /\ task' \in [code : Accesses \union {<<>>}, base : Address, ran : Nat]
    <3>1. task' = [task EXCEPT !.ran = task.ran + 1]
      BY DEF Access
    <3>2. QED BY <3>1 DEF LsInv, WasOK
  <2>2. Accessing'
    BY <1>2, <1>3 DEF Accessing
  <2>3. QED BY <1>3, <2>1, <2>2 DEF LsInv, WasOK, StoppedAtOnce, FillsTheRange, Accessing
<1>9. /\ task'.code \in Accesses \union {<<>>} /\ task'.base \in Address
      /\ task'.ran \in 0 .. Len(task'.code)
  <2>1. PICK l, r : l = Len(task.code) /\ r = task.ran
    OBVIOUS
  <2>2. l \in {1, 2} /\ r \in 0 .. l - 1
    BY <1>2, <2>1
  <2>3. r + 1 \in 0 .. l
    BY <2>2
  <2>4. QED BY <1>2, <1>3, <2>1, <2>3
<1>10. CASE i \in Loads
  <2>1. reg' = Loaded(i, EffectiveOf(i, b)) /\ ram' = ram /\ First \in Loads
    BY <1>2, <1>4, <1>7, <1>10 DEF Access
  <2>2. was.ram = ram
    BY <1>2, <2>1 DEF LsInv, LoadedSoFar
  <2>3. StoredSoFar'
    <3>1. First \notin Stores
      BY <2>1 DEF Loads, Stores
    <3>2. QED BY <1>3, <3>1 DEF StoredSoFar
  <2>4. First \in Whole => \A j \in 0 .. 3 : reg'[j] = FinalByte(j)
    <3>1. SUFFICES ASSUME First \in Whole, NEW j \in 0 .. 3
                   PROVE  reg'[j] = FinalByte(j)
      OBVIOUS
    <3>2. First \notin Lefts \union Rights
      BY <3>1 DEF Whole, Lefts, Rights
    <3>3. i = First
      BY <1>2, <1>4, <3>2
    <3>4. i \in Loads \ {"lwl", "lwr"}
      BY <1>10, <3>1, <3>3 DEF Whole
    <3>5. reg'[j] = IF j < width[i] THEN ByteAt(ram, b + j)
                    ELSE IF i \in {"lb", "lh"} /\ ByteAt(ram, b + width[i] - 1) > 127 THEN 255 ELSE 0
      BY <1>7, <2>1, <3>4, WholeLoad
    <3>6. QED BY <1>4, <2>2, <3>3, <3>5 DEF FinalByte
  <2>5. First \notin Whole =>
          \A j \in 0 .. 3 :
            reg'[j] = IF j \in BytesMoved' THEN ByteAt(was.ram, b + j) ELSE was.reg[j]
    <3>1. SUFFICES ASSUME First \notin Whole, NEW j \in 0 .. 3
                   PROVE  reg'[j] = IF j \in BytesMoved' THEN ByteAt(was.ram, b + j) ELSE was.reg[j]
      OBVIOUS
    <3>2. i \in {"lwl", "lwr"}
      BY <1>2, <1>4, <1>10, <3>1 DEF Lefts, Rights, Loads
    <3>3. reg'[j] = IF j \in MovedBy(i, b) THEN ByteAt(ram, b + j) ELSE reg[j]
      BY <1>7, <2>1, <3>2, HalfLoad
    <3>4. reg[j] = IF j \in BytesMoved THEN ByteAt(was.ram, b + j) ELSE was.reg[j]
      BY <1>2, <1>4, <2>1, <3>1 DEF LsInv, LoadedSoFar
    <3>5. QED BY <1>5, <2>2, <3>3, <3>4
  <2>6. LoadedSoFar'
    <3>1. task'.ran # 0
      BY <1>2, <1>3
    <3>2. \A j : FinalByte(j)' = FinalByte(j)
      BY <1>3 DEF FinalByte
    <3>3. QED BY <1>3, <1>4, <2>1, <2>2, <2>4, <2>5, <3>1, <3>2 DEF LoadedSoFar
  <2>7. reg' \in Register
    <3>1. ASSUME NEW j \in 0 .. 3
          PROVE  reg'[j] \in Byte
      <4>1. b + j \in Int /\ b + width[i] - 1 \in Int
        <5>1. width[i] \in {1, 2, 4} /\ b \in Int
          BY <1>7, BlockIs, Sizes DEF Address
        <5>2. QED BY <5>1
      <4>2. ByteAt(ram, b + j) \in Byte /\ 255 \in Byte /\ 0 \in Byte /\ reg[j] \in Byte
        <5>1. ByteAt(ram, b + j) \in Byte
          BY <1>7, <4>1, BytesAre
        <5>2. reg[j] \in Byte
          BY <1>7 DEF LsWords, Register
        <5>3. QED BY <5>1, <5>2 DEF Byte
      <4>3. CASE i \in {"lwl", "lwr"}
        <5>1. reg'[j] = IF j \in MovedBy(i, b) THEN ByteAt(ram, b + j) ELSE reg[j]
          BY <1>7, <2>1, <4>3, HalfLoad
        <5>2. QED BY <4>2, <5>1
      <4>4. CASE i \notin {"lwl", "lwr"}
        <5>1. i \in Loads \ {"lwl", "lwr"}
          BY <1>10, <4>4
        <5>2. reg'[j] = IF j < width[i] THEN ByteAt(ram, b + j)
                        ELSE IF i \in {"lb", "lh"} /\ ByteAt(ram, b + width[i] - 1) > 127 THEN 255 ELSE 0
          BY <1>7, <2>1, <5>1, WholeLoad
        <5>3. QED BY <4>2, <5>2
      <4>5. QED BY <4>3, <4>4
    <3>2. reg' = [j \in 0 .. 3 |-> reg'[j]]
      BY <1>10, <2>1 DEF Loaded, Loads, SignExtended, platform_bus_read, op_lwl, op_lwr
    <3>3. QED BY <3>1, <3>2 DEF Register
  <2>8. LsTypeOK'
    BY <1>3, <1>9, <2>1, <2>7 DEF LsInv, LsTypeOK
  <2>9. QED BY <1>8, <2>3, <2>6, <2>8 DEF LsInv
<1>11. CASE i \in Stores
  <2>1. i \notin Loads
    BY <1>11 DEF Loads, Stores
  <2>2. ram' = Stored(i, EffectiveOf(i, b)) /\ reg' = reg /\ First \in Stores
    BY <1>2, <1>4, <1>7, <1>11, <2>1 DEF Access
  <2>3. reg = was.reg
    BY <1>2, <2>2 DEF LsInv, StoredSoFar
  <2>4. ram' \in [0 .. MEMORY_SIZE - 1 -> Byte] /\ DOMAIN ram' = DOMAIN ram
    BY <1>7, <1>11, <2>2, StoreIs DEF LsWords
  <2>5. LoadedSoFar'
    <3>1. First \notin Loads
      BY <2>2 DEF Loads, Stores
    <3>2. QED BY <1>3, <3>1 DEF LoadedSoFar
  <2>6. ASSUME NEW x \in DOMAIN ram
        PROVE  /\ \A j \in BytesMoved' : (b + j) % SPACE = x => ram'[x] = was.reg[j]
               /\ (\A j \in BytesMoved' : (b + j) % SPACE # x) => ram'[x] = was.ram[x]
    <3>1. /\ \A j \in MovedBy(i, b) : (b + j) % SPACE = x => ram'[x] = reg[j]
          /\ (\A j \in MovedBy(i, b) : (b + j) % SPACE # x) => ram'[x] = ram[x]
      BY <1>7, <1>11, <2>2, StoreIs
    <3>2. /\ \A j \in BytesMoved : (b + j) % SPACE = x => ram[x] = was.reg[j]
          /\ (\A j \in BytesMoved : (b + j) % SPACE # x) => ram[x] = was.ram[x]
      BY <1>2, <1>4, <2>2 DEF LsInv, StoredSoFar
    <3>3. ASSUME NEW j \in BytesMoved', (b + j) % SPACE = x
          PROVE  ram'[x] = was.reg[j]
      <4>1. CASE j \in MovedBy(i, b)
        BY <2>3, <3>1, <3>3, <4>1
      <4>2. CASE j \in BytesMoved /\ \A k \in MovedBy(i, b) : (b + k) % SPACE # x
        BY <3>1, <3>2, <3>3, <4>2
      <4>3. CASE j \in BytesMoved /\ \E k \in MovedBy(i, b) : (b + k) % SPACE = x
        <5>1. PICK k \in MovedBy(i, b) : (b + k) % SPACE = x
          BY <4>3
        <5>2. j = k
          BY <1>6, <1>7, <3>3, <4>3, <5>1, PlacesDiffer
        <5>3. QED BY <2>3, <3>1, <5>1, <5>2
      <4>4. QED BY <1>5, <3>3, <4>1, <4>2, <4>3
    <3>4. ASSUME \A j \in BytesMoved' : (b + j) % SPACE # x
          PROVE  ram'[x] = was.ram[x]
      BY <1>5, <3>1, <3>2, <3>4
    <3>5. QED BY <3>3, <3>4
  <2>7. StoredSoFar'
    BY <1>3, <1>4, <2>2, <2>3, <2>4, <2>6 DEF StoredSoFar
  <2>8. LsTypeOK'
    BY <1>3, <1>9, <2>2, <2>4 DEF LsInv, LsTypeOK
  <2>9. QED BY <1>8, <2>5, <2>7, <2>8 DEF LsInv
<1>12. QED BY <1>7, <1>10, <1>11 DEF Instructions

-----------------------------------------------------------------------------
(* A fill: good whole chunks cover a prefix of the range.                   *)

LEMMA ProductsGrow ==
  ASSUME NEW k \in Nat, NEW n \in Nat, NEW c \in Nat, k <= n
  PROVE  k * c <= n * c /\ n * c \in Nat /\ k * c \in Nat
<1>1. n * c = k * c + (n - k) * c
  OBVIOUS
<1>2. (n - k) * c >= 0
  OBVIOUS
<1>3. QED BY <1>1, <1>2

LEMMA ChunksCover ==
  ASSUME NEW len \in Nat, NEW good \in 0 .. ChunkCount(len)
  PROVE  /\ good = ChunkCount(len) => good * CHUNK >= len
         /\ good # ChunkCount(len) => good * CHUNK < len
         /\ ChunkCount(len) \in Nat
<1>1. PICK c, n : c = CHUNK /\ n = ChunkCount(len)
  OBVIOUS
<1>2. c \in Nat \ {0} /\ n = (len + c - 1) \div c
  BY <1>1, Sizes DEF ChunkCount
<1>3. PICK t : t = len + c - 1
  OBVIOUS
<1>4. t \in Nat
  BY <1>2, <1>3
<1>5. n \in Nat /\ n * c <= t /\ t < n * c + c
  BY <1>2, <1>3, <1>4
<1>6. good = n => good * c >= len
  <2>1. n * c \in Int
    BY <1>2, <1>5
  <2>2. QED BY <1>2, <1>3, <1>5, <2>1
<1>7. good # n => good * c < len
  <2>1. SUFFICES ASSUME good # n PROVE good * c < len
    OBVIOUS
  <2>2. good \in Nat /\ good + 1 <= n /\ good + 1 \in Nat
    BY <1>1, <1>5, <2>1
  <2>3. (good + 1) * c <= n * c
    BY <1>2, <1>5, <2>2, ProductsGrow
  <2>4. (good + 1) * c = good * c + c
    BY <1>2, <2>2
  <2>5. good * c \in Int /\ n * c \in Int
    BY <1>2, <1>5, <2>2
  <2>6. QED BY <1>2, <1>3, <1>5, <2>3, <2>4, <2>5
<1>8. QED BY <1>1, <1>5, <1>6, <1>7

LEMMA FillIsPrefix ==
  ASSUME NEW pa \in Nat, NEW len \in Nat, NEW good \in 0 .. ChunkCount(len), NEW x \in Nat,
         NEW n, n = IF good = ChunkCount(len) THEN len ELSE good * CHUNK
  PROVE  /\ n \in 0 .. len
         /\ (\E k \in 0 .. good - 1 : InChunk(x, pa, len, k)) <=> x - pa \in 0 .. n - 1
<1>1. PICK c, d : c = CHUNK /\ d = x - pa
  OBVIOUS
<1>2. c \in Nat \ {0} /\ d \in Int /\ good \in Nat
  BY <1>1, Sizes, ChunksCover
<1>3. good * c \in Nat
  BY <1>2
<1>4. /\ n \in 0 .. len /\ n <= good * c
      /\ \A e \in Int : e < good * c /\ e < len => e < n
  BY <1>1, <1>2, <1>3, ChunksCover
<1>5. ASSUME NEW k \in 0 .. good - 1
      PROVE  InChunk(x, pa, len, k) <=> /\ d >= k * c
                                        /\ d < len
                                        /\ d < k * c + c
  <2>1. PICK e : e = k * c
    OBVIOUS
  <2>2. e \in Nat
    BY <1>2, <2>1
  <2>3. InChunk(x, pa, len, k) <=>
          x - (pa + e) \in 0 .. (IF len - e < c THEN len - e ELSE c) - 1
    BY <1>1, <2>1 DEF InChunk, Amount
  <2>4. x - (pa + e) = d - e
    BY <1>1, <2>2
  <2>5. QED BY <1>2, <2>1, <2>2, <2>3, <2>4
<1>6. ASSUME NEW k \in 0 .. good - 1, InChunk(x, pa, len, k)
      PROVE  d \in 0 .. n - 1
  <2>1. k \in Nat /\ k + 1 <= good /\ k + 1 \in Nat
    BY <1>2
  <2>2. (k + 1) * c <= good * c /\ (k + 1) * c = k * c + c /\ k * c \in Nat
    BY <1>2, <2>1, ProductsGrow
  <2>3. d >= k * c /\ d < len /\ d < k * c + c
    BY <1>5, <1>6
  <2>4. d < good * c /\ d >= 0
    BY <1>2, <1>3, <2>2, <2>3
  <2>5. d < n
    BY <1>2, <1>4, <2>3, <2>4
  <2>6. QED BY <1>2, <1>4, <2>4, <2>5
<1>7. ASSUME d \in 0 .. n - 1
      PROVE  \E k \in 0 .. good - 1 : InChunk(x, pa, len, k)
  <2>1. PICK k : k = d \div c
    OBVIOUS
  <2>2. d \in Nat /\ d < n
    BY <1>4, <1>7
  <2>3. k \in Nat /\ k * c <= d /\ d < k * c + c
    BY <1>2, <2>1, <2>2
  <2>4. k < good
    <3>1. SUFFICES ASSUME good <= k PROVE FALSE
      BY <1>2, <2>3
    <3>2. good * c <= k * c
      BY <1>2, <2>3, <3>1, ProductsGrow
    <3>3. k * c \in Int
      BY <1>2, <2>3
    <3>4. QED BY <1>3, <1>4, <2>2, <2>3, <3>2, <3>3
  <2>5. k \in 0 .. good - 1
    BY <1>2, <2>3, <2>4
  <2>6. d < len
    BY <1>4, <2>2
  <2>7. InChunk(x, pa, len, k)
    BY <1>5, <2>3, <2>5, <2>6
  <2>8. QED BY <2>5, <2>7
<1>8. QED BY <1>1, <1>4, <1>6, <1>7

LEMMA FillKeeps ==
  ASSUME LsInv, NEW pa \in Address, NEW len \in 0 .. MEMORY_SIZE, platform_memory_fill(pa, len)
  PROVE  LsInv'
<1>1. /\ task' = NoTask /\ exc' = "none" /\ reg' = reg /\ rounds' = rounds + 1
      /\ was'.ram = ram /\ was'.reg = reg /\ rounds < MaxRounds
  BY DEF platform_memory_fill
<1>2. LoadedSoFar' /\ StoredSoFar' /\ StoppedAtOnce'
  <2>1. task'.code = <<>>
    BY <1>1 DEF NoTask
  <2>2. QED BY <1>1, <2>1 DEF LoadedSoFar, StoredSoFar, StoppedAtOnce, Accessing
<1>3. ram \in [0 .. MEMORY_SIZE - 1 -> Byte] /\ reg \in Register /\ rounds \in 0 .. MaxRounds
  BY DEF LsInv, LsTypeOK
<1>4. WasOK'
  <2>1. 0 \in Address /\ 0 \in Nat
    BY Sizes DEF Address
  <2>2. QED BY <1>1, <1>3, <2>1 DEF WasOK, NoTask
<1>5. rounds' \in 0 .. MaxRounds
  BY <1>1, <1>3, Sizes
<1>6. pa \in Nat /\ len \in Nat /\ filled'.pa = pa /\ filled'.len = len /\ filled'.ok \in BOOLEAN
  <2>1. pa \in Nat /\ len \in Nat
    BY Sizes DEF Address
  <2>2. \E ok \in BOOLEAN : filled' = [pa |-> pa, len |-> len, ok |-> ok]
    <3>1. CASE ~address_range_valid(pa, len)
      BY <3>1 DEF platform_memory_fill
    <3>2. CASE address_range_valid(pa, len)
      <4>1. PICK good : filled' = [pa |-> pa, len |-> len, ok |-> good = ChunkCount(len)]
        BY <3>2 DEF platform_memory_fill
      <4>2. (good = ChunkCount(len)) \in BOOLEAN
        OBVIOUS
      <4>3. QED BY <4>1, <4>2
    <3>3. QED BY <3>1, <3>2
  <2>3. QED BY <2>1, <2>2
<1>7. /\ ram' \in [0 .. MEMORY_SIZE - 1 -> Byte]
      /\ \E n \in IF filled'.ok THEN {len} ELSE 0 .. len :
           \A x \in DOMAIN ram :
             ram'[x] = IF x - pa \in 0 .. n - 1 THEN FillValue ELSE ram[x]
  <2>1. CASE ~address_range_valid(pa, len)
    <3>1. ram' = ram /\ ~filled'.ok
      BY <2>1 DEF platform_memory_fill
    <3>2. 0 \in 0 .. len /\ \A x \in DOMAIN ram : x - pa \notin 0 .. 0 - 1
      BY <1>6
    <3>3. QED BY <1>3, <3>1, <3>2
  <2>2. CASE address_range_valid(pa, len)
    <3>1. PICK good \in 0 .. ChunkCount(len) :
            ram' = FillTo(pa, len, good) /\ filled'.ok = (good = ChunkCount(len))
      BY <2>2 DEF platform_memory_fill
    <3>2. PICK n : n = IF good = ChunkCount(len) THEN len ELSE good * CHUNK
      OBVIOUS
    <3>3. DOMAIN ram = 0 .. MEMORY_SIZE - 1 /\ DOMAIN ram \subseteq Nat
      BY <1>3
    <3>4. ASSUME NEW x \in DOMAIN ram
          PROVE  ram'[x] = IF x - pa \in 0 .. n - 1 THEN FillValue ELSE ram[x]
      <4>1. (\E k \in 0 .. good - 1 : InChunk(x, pa, len, k)) <=> x - pa \in 0 .. n - 1
        BY <1>6, <3>2, <3>3, FillIsPrefix
      <4>2. QED BY <3>1, <4>1 DEF FillTo
    <3>5. n \in IF filled'.ok THEN {len} ELSE 0 .. len
      <4>1. 0 \in Nat
        OBVIOUS
      <4>2. n \in 0 .. len
        BY <1>6, <3>2, <4>1, FillIsPrefix
      <4>3. QED BY <3>1, <3>2, <4>2
    <3>6. ram' \in [0 .. MEMORY_SIZE - 1 -> Byte]
      <4>1. ram' = [x \in 0 .. MEMORY_SIZE - 1 |-> ram'[x]]
        BY <3>1, <3>3 DEF FillTo
      <4>2. \A x \in 0 .. MEMORY_SIZE - 1 : ram'[x] \in Byte
        BY <1>3, <3>3, <3>4, Sizes
      <4>3. QED BY <4>1, <4>2
    <3>7. QED BY <3>4, <3>5, <3>6
  <2>3. QED BY <2>1, <2>2
<1>8. FillsTheRange'
  <2>1. DOMAIN ram' = DOMAIN ram
    BY <1>3, <1>7
  <2>2. QED BY <1>1, <1>6, <1>7, <2>1 DEF FillsTheRange
<1>9. LsTypeOK'
  <2>1. task'.code = <<>> /\ task'.base \in Address /\ task'.ran \in 0 .. Len(task'.code)
    BY <1>1, Sizes DEF NoTask, Address
  <2>2. QED BY <1>1, <1>3, <1>5, <1>6, <1>7, <2>1 DEF LsTypeOK
<1>10. QED BY <1>2, <1>4, <1>8, <1>9 DEF LsInv

LEMMA BeginKeeps ==
  ASSUME LsInv, NEW code \in Accesses, NEW base \in Address, Begin(code, base)
  PROVE  LsInv'
<1>1. /\ task' = [code |-> code, base |-> base, ran |-> 0]
      /\ was' = [ram |-> ram, reg |-> reg]
      /\ exc' = "none" /\ filled' = NoFill /\ rounds' = rounds + 1 /\ rounds < MaxRounds
      /\ ram' = ram /\ reg' = reg
  BY DEF Begin
<1>2. code # <<>> /\ Len(code) \in {1, 2}
  BY CodeIs
<1>3. task'.code = code /\ task'.base = base /\ task'.ran = 0 /\ was'.ram = ram /\ was'.reg = reg
  BY <1>1
<1>4. BytesMoved' = {}
  <2>1. 0 \in Nat
    OBVIOUS
  <2>2. QED BY <1>3, <2>1, MovedGrows DEF BytesMoved
<1>5. LsTypeOK'
  <2>1. 0 \in 0 .. Len(code) /\ rounds' \in 0 .. MaxRounds
    BY <1>1, <1>2, Sizes DEF LsInv, LsTypeOK
  <2>2. QED BY <1>1, <1>3, <2>1 DEF LsInv, LsTypeOK, NoFill
<1>6. WasOK'
  BY <1>1, <1>3 DEF WasOK, LsInv, LsTypeOK
<1>7. LoadedSoFar' /\ StoredSoFar'
  BY <1>1, <1>3, <1>4 DEF LoadedSoFar, StoredSoFar
<1>8. StoppedAtOnce' /\ FillsTheRange'
  BY <1>1, <1>2, <1>3 DEF StoppedAtOnce, FillsTheRange
<1>9. QED BY <1>5, <1>6, <1>7, <1>8 DEF LsInv

(* An exception, whichever, leaves what was moved as it is; an address      *)
(* error strikes a whole access only, which has moved nothing.              *)
LEMMA ExceptionKeeps == LsInv /\ (Fault \/ AddressError) => LsInv'
<1> SUFFICES ASSUME LsInv, Fault \/ AddressError PROVE LsInv'
  OBVIOUS
<1>1. /\ Unfinished /\ UNCHANGED <<ram, reg, task, was, filled, rounds>>
      /\ exc' \in {"TLBL", "TLBS", "Mod", "AdEL", "AdES"}
  BY DEF Fault, AddressError, TlbFaults
<1>2. First' = First /\ BytesMoved' = BytesMoved /\ Accessing' = Accessing
  BY <1>1 DEF First, BytesMoved, Accessing
<1>3. \A j : FinalByte(j)' = FinalByte(j)
  BY <1>1 DEF FinalByte, First
<1>4. LsTypeOK' /\ WasOK' /\ FillsTheRange'
  BY <1>1 DEF LsInv, LsTypeOK, WasOK, FillsTheRange
<1>5. LoadedSoFar'
  BY <1>1, <1>2, <1>3 DEF LsInv, LoadedSoFar
<1>6. StoredSoFar'
  BY <1>1, <1>2 DEF LsInv, StoredSoFar
<1>7. StoppedAtOnce'
  <2>1. CASE Fault
    BY <2>1 DEF Fault, TlbFaults, StoppedAtOnce
  <2>2. CASE AddressError
    <3>1. /\ Accessing /\ Misaligned(instr, va) /\ (instr \in Loads <=> First \in Loads)
          /\ exc' = IF instr \in Loads THEN "AdEL" ELSE "AdES"
          /\ Len(task.code) \in {1, 2}
          /\ Len(task.code) = 1 => task.ran = 0
          /\ Len(task.code) = 2 => instr \in Lefts \union Rights
      BY <1>1, <2>2, NextInstruction DEF AddressError
    <3>2. instr \notin Lefts \union Rights
      BY <3>1 DEF Misaligned, Lefts, Rights
    <3>3. QED BY <1>1, <1>2, <3>1, <3>2 DEF StoppedAtOnce
  <2>3. QED BY <2>1, <2>2
<1>8. QED BY <1>4, <1>5, <1>6, <1>7 DEF LsInv

LEMMA LsStep == LsInv /\ [LsNext]_lsVars => LsInv'
<1> SUFFICES ASSUME LsInv, [LsNext]_lsVars PROVE LsInv'
  OBVIOUS
<1>1. CASE \E code \in Accesses, base \in Address : Begin(code, base)
  BY <1>1, BeginKeeps
<1>2. CASE Access
  BY <1>2, AccessKeeps
<1>3. CASE Fault \/ AddressError
  BY <1>3, ExceptionKeeps
<1>4. CASE \E pa \in Address, len \in 0 .. MEMORY_SIZE : platform_memory_fill(pa, len)
  BY <1>4, FillKeeps
<1>5. CASE UNCHANGED lsVars
  <2>1. /\ UNCHANGED <<ram, reg, task, exc, was, filled, rounds>>
    BY <1>5 DEF lsVars
  <2>2. First' = First /\ BytesMoved' = BytesMoved /\ Accessing' = Accessing
    BY <2>1 DEF First, BytesMoved, Accessing
  <2>3. \A j : FinalByte(j)' = FinalByte(j)
    BY <2>1 DEF FinalByte, First
  <2>4. LsTypeOK' /\ WasOK' /\ FillsTheRange'
    BY <2>1 DEF LsInv, LsTypeOK, WasOK, FillsTheRange
  <2>5. LoadedSoFar' /\ StoredSoFar' /\ StoppedAtOnce'
    BY <2>1, <2>2, <2>3 DEF LsInv, LoadedSoFar, StoredSoFar, StoppedAtOnce
  <2>6. QED BY <2>4, <2>5 DEF LsInv
<1>6. QED BY <1>1, <1>2, <1>3, <1>4, <1>5 DEF LsNext

(* The invariant says what AccessesExact asks of each state.                *)
LEMMA LsInvIsExact == LsInv => AccessesExact
<1> SUFFICES ASSUME LsInv PROVE AccessesExact
  OBVIOUS
<1>1. LsTypeOK /\ FillsTheRange
  BY DEF LsInv
<1>2. ASSUME Accessing
      PROVE  /\ task.code \in Accesses /\ task.base \in Address
             /\ First \in Instructions /\ width[First] \in {1, 2, 4}
             /\ First \in Whole \/ First \in Lefts \union Rights
  <2>1. task.code \in Accesses /\ task.base \in Address
    BY <1>1, <1>2 DEF LsTypeOK, Accessing
  <2>2. 1 \in 1 .. Len(task.code) /\ Len(task.code) \in {1, 2}
    BY <2>1, CodeIs
  <2>3. First \in Instructions /\ (First \in Whole \/ First \in Lefts \union Rights)
    BY <2>1, <2>2, CodeIs DEF First
  <2>4. QED BY <2>1, <2>3, Widths
<1>3. ASSUME Finished
      PROVE  /\ Accessing /\ BytesMoved = 0 .. width[First] - 1 /\ task.ran > 0
  <2>1. Accessing
    BY <1>3 DEF Finished, Accessing
  <2>2. task.code \in Accesses /\ task.base \in Address /\ task.ran = Len(task.code)
    BY <1>2, <1>3, <2>1 DEF Finished
  <2>3. QED BY <2>1, <2>2, AllMoved, CodeIs DEF BytesMoved, First
<1>4. LoadsTheBytes
  <2>1. SUFFICES ASSUME Finished, First \in Loads, NEW j \in 0 .. 3
                 PROVE  reg[j] = FinalByte(j)
    BY DEF LoadsTheBytes, FinalByte
  <2>2. CASE First \in Whole
    BY <1>3, <2>1, <2>2 DEF LsInv, LoadedSoFar
  <2>3. CASE First \notin Whole
    <3>1. First \in Lefts \union Rights /\ First \in Instructions
      BY <1>2, <1>3, <2>1, <2>3
    <3>2. width[First] = 4
      BY <3>1, Widths DEF Lefts, Rights
    <3>3. j \in BytesMoved
      BY <1>3, <2>1, <3>2
    <3>4. reg[j] = ByteAt(was.ram, task.base + j)
      BY <1>3, <2>1, <2>3, <3>3 DEF LsInv, LoadedSoFar
    <3>5. QED BY <3>2, <3>4 DEF FinalByte
  <2>4. QED BY <2>2, <2>3
<1>5. StoresTheBytes
  BY <1>3 DEF StoresTheBytes, Operand, LsInv, StoredSoFar
<1>6. NothingElse
  <2>1. SUFFICES ASSUME Accessing
                 PROVE  /\ \A x \in DOMAIN ram :
                             \/ ram[x] = was.ram[x]
                             \/ /\ First \in Stores /\ exc # "AdES"
                                /\ \E i \in Operand(x, width[First]) : ram[x] = was.reg[i]
                        /\ First \in Stores \/ exc = "AdEL" => reg = was.reg
    BY DEF NothingElse, Accessing
  <2>2. First \in Loads \/ First \in Stores
    BY <1>2, <2>1 DEF Instructions
  <2>3. CASE First \in Loads
    <3>1. First \notin Stores
      BY <2>3 DEF Loads, Stores
    <3>2. QED BY <2>1, <2>3, <3>1 DEF LsInv, LoadedSoFar, StoppedAtOnce
  <2>4. CASE First \in Stores
    <3>1. reg = was.reg
      BY <2>1, <2>4 DEF LsInv, StoredSoFar
    <3>2. ASSUME NEW x \in DOMAIN ram, ram[x] # was.ram[x]
          PROVE  exc # "AdES" /\ \E i \in Operand(x, width[First]) : ram[x] = was.reg[i]
      <4>1. PICK j \in BytesMoved : (task.base + j) % SPACE = x
        BY <2>1, <2>4, <3>2 DEF LsInv, StoredSoFar
      <4>2. ram[x] = was.reg[j]
        BY <2>1, <2>4, <4>1 DEF LsInv, StoredSoFar
      <4>3. exc # "AdES"
        <5>1. SUFFICES ASSUME exc = "AdES" PROVE FALSE
          OBVIOUS
        <5>2. task.ran = 0
          BY <5>1 DEF LsInv, StoppedAtOnce
        <5>3. BytesMoved = {}
          <6>1. 0 \in Nat
            OBVIOUS
          <6>2. QED BY <5>2, <6>1, MovedGrows DEF BytesMoved
        <5>4. QED BY <4>1, <5>3
      <4>4. j \in 0 .. width[First] - 1
        <5>1. task.ran \in 0 .. Len(task.code)
          BY <1>1 DEF LsTypeOK
        <5>2. QED BY <1>2, <2>1, <4>1, <5>1, MovedStays DEF BytesMoved, First
      <4>5. QED BY <4>1, <4>2, <4>3, <4>4 DEF Operand
    <3>3. QED BY <2>4, <3>1, <3>2
  <2>5. QED BY <2>2, <2>3, <2>4
<1>7. QED BY <1>1, <1>4, <1>5, <1>6 DEF AccessesExact

(* In every state, for every size of memory and of the address space and    *)
(* every contents: finished accesses and fills have moved exactly their     *)
(* bytes, and unfinished ones have disturbed nothing else.                  *)
THEOREM AccessesAreExact == LsSpec => []AccessesExact
<1>1. LsSpec => []LsInv
  BY LsStart, LsStep, PTL DEF LsSpec
<1>2. QED BY <1>1, LsInvIsExact, PTL
=============================================================================

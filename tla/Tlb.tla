-------------------------------- MODULE Tlb --------------------------------
(***************************************************************************)
(* The TLB: pfn_translate() (registers.c), the TLB instructions (op.c),    *)
(* the Random register (op.h) and what a TLB exception reports             *)
(* (exception.c), driven by a kernel that uses them as Linux does: refill  *)
(* handler, page faults, page flushes, context switches, wired entries.    *)
(* The kernel is outside the repository; its steps only say in which order *)
(* the instructions meet.  Its own accesses are not mapped.                *)
(*                                                                         *)
(* An address is its page number.  EntryLo and PageMask are operands of    *)
(* the TLB writes: the kernel loads them just before.                      *)
(***************************************************************************)
EXTENDS Integers, FiniteSetsExt

CONSTANTS
  ENTRIES,      \* 64 in the code
  Asids,        \* a set of numbers
  UserPages,    \* the pages of each address space
  Mappable,     \* the pairs <<asid, page>> that hold memory
  WIRED_SPAN    \* pages in each half of the wired large page

ASSUME EntriesAssumption == ENTRIES \in Nat /\ ENTRIES >= 2
\* ASIDs count from 0, the one the kernel boots with; an address space ends.
ASSUME PagesAssumption ==
  /\ Asids \subseteq Nat /\ UserPages \subseteq Nat /\ WIRED_SPAN \in Nat \ {0}
  /\ Mappable \subseteq Asids \X UserPages
  /\ 0 \in Asids /\ \E last \in UserPages : \A page \in UserPages : page <= last

Indexes == 0 .. ENTRIES - 1

\* The large page behind the user pages, and the page numbers behind that:
\* kseg0 addresses, which never reach the TLB, to park unused entries at.
WiredBase == 2 * WIRED_SPAN * (1 + Max(UserPages) \div (2 * WIRED_SPAN))
WiredPages == WiredBase .. WiredBase + 2 * WIRED_SPAN - 1
Unique(i) == WiredBase + 2 * WIRED_SPAN + 2 * i
Pages == UserPages \union WiredPages
NoPage == -1

\* A page table entry; the frame of a page never changes.
PTEs == {"absent", "clean", "dirty"}
FrameOf(asid, page) == (asid + 1) * Unique(ENTRIES) + page
WiredFrame(page) == page

VARIABLES
  tlb,      \* entries [span, vpn, asid, lo0, lo1]
  hi,       \* EntryHi: [vpn, asid]
  index,    \* Index after TLBP: an entry, or NoEntry (the P bit)
  random, wired,
  table,    \* the kernel's page tables
  current,  \* the ASID of the running task
  os        \* what the kernel is doing: [phase, page, asid, store]

tlb_vars == <<tlb, hi, index, random, wired, table, current, os>>

NoEntry == -1
User(page) == [phase |-> "user", page |-> page, asid |-> current, store |-> FALSE]
Phase(phase) == [os EXCEPT !.phase = phase]
Done(phase) == [User(NoPage) EXCEPT !.phase = phase]

-----------------------------------------------------------------------------
(* The hardware.                                                           *)

Even(page) == 2 * (page \div 2)

Global(e) == e.lo0.g /\ e.lo1.g

Matches(e, page, asid) ==
  /\ page \div (2 * e.span) = e.vpn \div (2 * e.span)
  /\ Global(e) \/ e.asid = asid

Matching(page, asid) == {i \in Indexes : Matches(tlb[i], page, asid)}

\* The first entry that matches decides.
pfn_translate(page, asid, is_write) ==
  IF Matching(page, asid) = {}
  THEN [result |-> "refill", frame |-> NoPage]
  ELSE LET e  == tlb[Min(Matching(page, asid))]
           lo == IF (page \div e.span) % 2 = 1 THEN e.lo1 ELSE e.lo0
       IN  IF ~lo.v THEN [result |-> "invalid", frame |-> NoPage]
           ELSE IF is_write /\ ~lo.d THEN [result |-> "modified", frame |-> NoPage]
           ELSE [result |-> "ok", frame |-> e.span * (lo.pfn \div e.span) + (page % e.span)]

\* Mutant: the wrap comes one entry late.
NextRandom_Late == IF random = 0 \/ random < wired' THEN ENTRIES - 1 ELSE random - 1

\* decrease_random(), at the end of every step and after a write of Wired.
NextRandom == IF random <= wired' THEN ENTRIES - 1 ELSE random - 1

Tick == random' = NextRandom

\* A TLB exception leaves the ASID in EntryHi alone.
update_tlb_exception_state(page) == hi' = [hi EXCEPT !.vpn = Even(page)]

\* G is kept only if both halves have it; address bits under the mask go.
Entry(span, lo0, lo1) ==
  LET g == lo0.g /\ lo1.g
  IN  [span |-> span, vpn |-> 2 * span * (hi'.vpn \div (2 * span)), asid |-> hi'.asid,
       lo0 |-> [lo0 EXCEPT !.g = g], lo1 |-> [lo1 EXCEPT !.g = g]]

op_tlbwi(i, span, lo0, lo1) == tlb' = [tlb EXCEPT ![i] = Entry(span, lo0, lo1)]

op_tlbwr(span, lo0, lo1) == tlb' = [tlb EXCEPT ![random] = Entry(span, lo0, lo1)]

op_tlbp ==
  index' = IF Matching(hi'.vpn, hi'.asid) = {} THEN NoEntry
           ELSE Min(Matching(hi'.vpn, hi'.asid))

op_tlbr(i) == hi' = [vpn |-> tlb[i].vpn, asid |-> tlb[i].asid]

-----------------------------------------------------------------------------
(* User accesses.  An aligned one that hits changes nothing here.          *)

Running == os.phase = "user"

\* The exceptions of a load, a store or a fetch at page.
Faults(page, is_write) ==
  LET result == pfn_translate(page, hi.asid, is_write).result
  IN  /\ Running
      /\ result # "ok"
      /\ update_tlb_exception_state(page)
      /\ os' = [phase |-> IF result = "refill" THEN "refill" ELSE "fault",
                page |-> page, asid |-> current, store |-> is_write]
      /\ UNCHANGED <<tlb, index, wired, table, current>>
      /\ Tick

LoadFaults == \E page \in UserPages : Faults(page, FALSE)
StoreFaults == \E page \in UserPages : Faults(page, TRUE)

\* Any other instruction: time passes for Random.
OtherInstruction ==
  /\ UNCHANGED <<tlb, hi, index, wired, table, current, os>>
  /\ Tick

-----------------------------------------------------------------------------
(* The kernel.                                                             *)

\* EntryLo for a page of an address space.
Lo(asid, page) ==
  IF page \in UserPages /\ table[asid][page] # "absent"
  THEN [pfn |-> FrameOf(asid, page), v |-> TRUE, d |-> table[asid][page] = "dirty",
        g |-> FALSE]
  ELSE [pfn |-> 0, v |-> FALSE, d |-> FALSE, g |-> FALSE]

\* The refill handler: it takes EntryHi as the exception left it, and the
\* page tables of the running task at the faulting address.
RefillWrite ==
  /\ os.phase = "refill"
  /\ UNCHANGED hi
  /\ op_tlbwr(1, Lo(current, Even(os.page)), Lo(current, Even(os.page) + 1))
  /\ os' = User(os.page)
  /\ UNCHANGED <<index, wired, table, current>>
  /\ Tick

\* The page fault and TLB modified handlers fix the page table (or signal
\* the task) ...
FixTable ==
  /\ os.phase = "fault"
  /\ IF <<current, os.page>> \in Mappable
     THEN /\ table' = [table EXCEPT ![current][os.page] =
                          IF os.store \/ @ = "dirty" THEN "dirty" ELSE "clean"]
          /\ os' = Phase("update")
     ELSE UNCHANGED table /\ os' = Done("user")
  /\ UNCHANGED <<tlb, hi, index, wired, current>>
  /\ Tick

\* ... and replace the TLB entry, wherever it is by now.
UpdateProbe ==
  /\ os.phase = "update"
  /\ hi' = [vpn |-> Even(os.page), asid |-> current]
  /\ op_tlbp
  /\ os' = Phase("update write")
  /\ UNCHANGED <<tlb, wired, table, current>>
  /\ Tick

UpdateWrite ==
  /\ os.phase = "update write"
  /\ UNCHANGED hi
  /\ LET lo0 == Lo(current, hi.vpn)
         lo1 == Lo(current, hi.vpn + 1)
     IN  IF index = NoEntry THEN op_tlbwr(1, lo0, lo1) ELSE op_tlbwi(index, 1, lo0, lo1)
  /\ os' = User(NoPage)
  /\ UNCHANGED <<index, wired, table, current>>
  /\ Tick

\* Reclaim and write-back take rights from a page of any task, and flush it.
Revoke ==
  /\ Running
  /\ \E asid \in Asids, page \in UserPages, pte \in {"absent", "clean"} :
       /\ table[asid][page] \notin {"absent", pte}
       /\ table' = [table EXCEPT ![asid][page] = pte]
       /\ os' = [phase |-> "flush", page |-> page, asid |-> asid, store |-> FALSE]
  /\ UNCHANGED <<tlb, hi, index, wired, current>>
  /\ Tick

FlushProbe ==
  /\ os.phase = "flush"
  /\ hi' = [vpn |-> Even(os.page), asid |-> os.asid]
  /\ op_tlbp
  /\ os' = Phase("flush write")
  /\ UNCHANGED <<tlb, wired, table, current>>
  /\ Tick

Nothing == [pfn |-> 0, v |-> FALSE, d |-> FALSE, g |-> FALSE]

FlushWrite ==
  /\ os.phase = "flush write"
  /\ IF index = NoEntry
     THEN UNCHANGED <<tlb, hi>>
     ELSE hi' = [hi EXCEPT !.vpn = Unique(index)] /\ op_tlbwi(index, 1, Nothing, Nothing)
  /\ os' = Done("restore")
  /\ UNCHANGED <<index, wired, table, current>>
  /\ Tick

\* Before user code runs, EntryHi names the running task again.
Restore ==
  /\ os.phase = "restore"
  /\ hi' = [vpn |-> 0, asid |-> current]
  /\ os' = User(NoPage)
  /\ UNCHANGED <<tlb, index, wired, table, current>>
  /\ Tick

SwitchTask ==
  /\ Running
  /\ current' \in Asids \ {current}
  /\ hi' = [vpn |-> 0, asid |-> current']
  /\ os' = [User(NoPage) EXCEPT !.asid = current']
  /\ UNCHANGED <<tlb, index, wired, table>>
  /\ Tick

\* A debugging kernel reads an entry.
DumpEntry ==
  /\ Running
  /\ \E i \in Indexes : op_tlbr(i)
  /\ os' = Done("restore")
  /\ UNCHANGED <<tlb, index, wired, table, current>>
  /\ Tick

\* A driver wires a large page: Wired first, then entry 0, then the others
\* are flushed one by one (page counts them).
WireFirst ==
  /\ Running /\ wired = 0
  /\ wired' = 1
  /\ os' = Done("wire")
  /\ UNCHANGED <<tlb, hi, index, table, current>>
  /\ Tick

WireWrite ==
  /\ os.phase = "wire"
  /\ hi' = [hi EXCEPT !.vpn = WiredBase]
  /\ LET lo(page) == [pfn |-> WiredFrame(page), v |-> TRUE, d |-> TRUE, g |-> TRUE]
     IN  op_tlbwi(0, WIRED_SPAN, lo(WiredBase), lo(WiredBase + WIRED_SPAN))
  /\ os' = [Phase("flush all") EXCEPT !.page = 1]
  /\ UNCHANGED <<index, wired, table, current>>
  /\ Tick

FlushNext ==
  /\ os.phase = "flush all"
  /\ hi' = [hi EXCEPT !.vpn = Unique(os.page)]
  /\ op_tlbwi(os.page, 1, Nothing, Nothing)
  /\ os' = IF os.page + 1 < ENTRIES THEN [os EXCEPT !.page = @ + 1] ELSE Done("restore")
  /\ UNCHANGED <<index, wired, table, current>>
  /\ Tick

\* The kernel has booted and flushed the TLB.
TlbInit ==
  /\ tlb = [i \in Indexes |->
              [span |-> 1, vpn |-> Unique(i), asid |-> 0, lo0 |-> Nothing, lo1 |-> Nothing]]
  /\ current = Min(Asids)
  /\ hi = [vpn |-> Unique(ENTRIES - 1), asid |-> current]
  /\ index = NoEntry
  /\ random = ENTRIES - 1 /\ wired = 0
  /\ table = [asid \in Asids |-> [page \in UserPages |-> "absent"]]
  /\ os = User(NoPage)

TlbNext ==
  \/ LoadFaults
  \/ StoreFaults
  \/ OtherInstruction
  \/ RefillWrite
  \/ FixTable
  \/ UpdateProbe
  \/ UpdateWrite
  \/ Revoke
  \/ FlushProbe
  \/ FlushWrite
  \/ Restore
  \/ SwitchTask
  \/ DumpEntry
  \/ WireFirst
  \/ WireWrite
  \/ FlushNext

TlbSpec == TlbInit /\ [][TlbNext]_tlb_vars

-----------------------------------------------------------------------------
TlbTypeOK ==
  /\ \A i \in Indexes : tlb[i].span \in {1, WIRED_SPAN} /\ tlb[i].asid \in Asids
  /\ hi.asid \in Asids /\ current \in Asids
  /\ index \in Indexes \union {NoEntry}
  /\ random \in Indexes /\ wired \in Indexes
  /\ table \in [Asids -> [UserPages -> PTEs]]

(* No page of any task matches two entries: a refill is raised only when    *)
(* nothing matches, and a probe finds what translation would use, so the    *)
(* kernel never adds a second entry for a page.                             *)
Unambiguous ==
  \A page \in Pages, asid \in Asids : Cardinality(Matching(page, asid)) <= 1

(* A task reaches its own frames only, and only with the rights its page    *)
(* table gives now: no entry of another task, of a recycled mapping or of a *)
(* page that was cleaned is used, once the flush is over.                   *)
TranslatesByTable ==
  os.phase \notin {"flush", "flush write"} =>
    \A page \in UserPages, asid \in Asids, is_write \in BOOLEAN :
      LET t == pfn_translate(page, asid, is_write)
      IN  t.result = "ok" =>
            /\ t.frame = FrameOf(asid, page)
            /\ table[asid][page] \in IF is_write THEN {"dirty"} ELSE {"clean", "dirty"}

(* A wired page stays mapped, for every task, whatever TLBWR replaces and   *)
(* whenever Wired was raised in Random's countdown.                         *)
WiredStays ==
  wired = 1 /\ os.phase # "wire" =>
    \A page \in WiredPages, asid \in Asids :
      pfn_translate(page, asid, TRUE) = [result |-> "ok", frame |-> WiredFrame(page)]

(* The access that missed does not miss again when it is retried.           *)
RetryHits ==
  Running /\ os.page # NoPage =>
    pfn_translate(os.page, hi.asid, FALSE).result # "refill"

(* In every state: matching is unambiguous, translation follows the page    *)
(* tables, what is wired stays, and a refilled access goes through.         *)
TlbSafe == TlbTypeOK /\ Unambiguous /\ TranslatesByTable /\ WiredStays /\ RetryHits
=============================================================================

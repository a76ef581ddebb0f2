----------------------------- MODULE BootProofs -----------------------------
(***************************************************************************)
(* Putting a guest in place, for every size of RAM and every image: the    *)
(* kernel's ELF file is loaded exactly or leaves RAM alone; the walk over  *)
(* the device tree patches /chosen and nothing else; the search for the    *)
(* place of the initramfs; and the reset that loads kernel, device tree    *)
(* and initramfs one after another.                                        *)
(***************************************************************************)
EXTENDS Boot, ElfLoad, FdtPatch,
        FiniteSetTheorems, WellFoundedInduction, SequenceTheorems, TLAPS

-----------------------------------------------------------------------------
(* The loader's inductive invariant.                                        *)

Headers ==
  [load : BOOLEAN, file_offset : Nat, file_size : Nat, memory_size : Nat,
   vaddr : Nat, paddr : Nat, executable : BOOLEAN]
Segments == [start : Nat, end : Nat, executable : BOOLEAN]
Failures == {"SOURCE_IO", "MEMORY_IO", "BAD_FORMAT", "UNSUPPORTED", "TOO_MANY_SEGMENTS",
             "OUT_OF_RANGE", "OVERLAP", "NO_LOAD_SEGMENTS", "INVALID_ENTRY"}

ElfTypes ==
  /\ phase \in {"header", "validate", "load", "done"}
  /\ elf_status \in {"none", "OK"} \union Failures
  /\ count \in 0 .. COUNT /\ i \in 0 .. count /\ copied \in Nat
  /\ headers \in Seq(Headers) /\ Len(headers) <= count
  /\ entry \in Nat /\ reserved_ranges \subseteq [start : Nat, end : Nat]
  /\ info \in [entry : Nat, load_segment_count : Nat, load_segments : Seq(Segments)]
  /\ ram \in [RamAddresses -> Int]

(* What the first pass has established of the headers read so far.          *)
Within(s, a) == s.start <= a /\ a < s.end

HeadersValid ==
  /\ \A k \in Loaded : ~OutOfRange(headers[k])
  /\ \A k, l \in Loaded : \A a \in Nat : Covers(headers[k], a) /\ Covers(headers[l], a) => k = l
  /\ \A k \in Loaded, r \in reserved_ranges : \A a \in Nat :
       ~ (Covers(headers[k], a) /\ Within(r, a))

(* The segments it has collected are those of the headers.                  *)
SegmentsValid ==
  /\ Len(info.load_segments) <= MAX_LOAD_SEGMENTS
  /\ \A k \in Loaded : \E n \in 1 .. Len(info.load_segments) :
       info.load_segments[n] = Segment(headers[k])
  /\ \A n \in 1 .. Len(info.load_segments) : \E k \in Loaded :
       info.load_segments[n] = Segment(headers[k])
  /\ \A m, n \in 1 .. Len(info.load_segments) : \A a \in Nat :
       Within(info.load_segments[m], a) /\ Within(info.load_segments[n], a) => m = n

(* How far the second pass is: in RAM is what the headers before i want,    *)
(* and of the next one the bytes copied so far.                             *)
Written(k, a) ==
  /\ Covers(headers[k], a)
  /\ k <= i \/ (k = i + 1 /\ a - Destination(headers[k]) < copied)

RamUntouched == \A a \in RamAddresses : ram[a] = Old

PartlyLoaded ==
  \A a \in RamAddresses :
    /\ \A k \in Loaded : Written(k, a) => ram[a] = Wanted(headers[k], a)
    /\ (\A k \in Loaded : ~Written(k, a)) => ram[a] = Old

Copying == copied = 0 \/ (i < count /\ Header.load /\ copied <= Header.file_size)

ElfPhase ==
  /\ phase # "done" => elf_status = "none"
  /\ phase \in {"header", "validate"} => RamUntouched /\ copied = 0
  /\ phase = "header" => i = 0 /\ count = 0
  /\ phase = "validate" => i = Len(headers)
  /\ phase = "load" => PartlyLoaded /\ Copying /\ Len(headers) = count /\ EntryInSegment
  /\ phase = "done" => elf_status # "none"

ElfResult ==
  /\ elf_status # "OK" => info.load_segment_count = 0 /\ info.entry = 0
  /\ elf_status = "OK" =>
       /\ phase = "done" /\ PartlyLoaded
       /\ i = count /\ Len(headers) = count
       /\ info.load_segment_count = Len(info.load_segments) /\ info.entry = entry
       /\ EntryInSegment
  /\ elf_status \in {"SOURCE_IO", "MEMORY_IO"} => RamUntouched \/ PartlyLoaded
  /\ elf_status \in Failures \ {"SOURCE_IO", "MEMORY_IO"} => RamUntouched

ElfInv ==
  /\ ElfTypes /\ HeadersValid /\ SegmentsValid /\ ElfPhase /\ ElfResult
  /\ copied <= IMAGE_SIZE

-----------------------------------------------------------------------------
(* Addresses.                                                               *)

LEMMA DestinationNat ==
  ASSUME NEW h \in Headers
  PROVE  Destination(h) \in Nat
<1>1. \A a \in Nat : physical_address(a) \in Nat
  <2> TAKE a \in Nat
  <2>1. CASE ~direct_mapped_kernel_address(a)
    BY <2>1 DEF physical_address
  <2>2. CASE direct_mapped_kernel_address(a)
    <3>1. WORD \div 8 \in Nat \ {0}
      BY <2>2, ElfAssumption DEF direct_mapped_kernel_address
    <3>2. a % (WORD \div 8) \in Nat
      BY <3>1
    <3>3. QED BY <2>2, <3>2 DEF physical_address
  <2>3. QED BY <2>1, <2>2
<1>2. h.paddr \in Nat /\ h.vaddr \in Nat
  BY DEF Headers
<1>3. QED BY <1>1, <1>2 DEF Destination

LEMMA SegmentIsHeader ==
  ASSUME NEW h \in Headers
  PROVE  /\ Segment(h) \in Segments
         /\ \A a \in Nat : Covers(h, a) <=> Within(Segment(h), a)
<1>1. Destination(h) \in Nat /\ h.memory_size \in Nat /\ h.executable \in BOOLEAN
  BY DestinationNat DEF Headers
<1>2. QED BY <1>1 DEF Segment, Segments, Covers, Within

LEMMA ApartIsDisjoint ==
  ASSUME NEW s, NEW t, s.start \in Nat, s.end \in Nat, t.start \in Nat, t.end \in Nat,
         ~ranges_overlap(s, t)
  PROVE  \A a \in Nat : ~ (Within(s, a) /\ Within(t, a))
BY DEF ranges_overlap, Within

(* A header that is valid wants bytes of RAM only.                          *)
LEMMA ValidFits ==
  ASSUME ElfTypes, HeadersValid, NEW k \in Loaded
  PROVE  /\ headers[k] \in Headers /\ headers[k].load /\ k \in 1 .. Len(headers)
         /\ Destination(headers[k]) \in Nat
         /\ headers[k].file_size <= headers[k].memory_size
         /\ headers[k].file_offset + headers[k].file_size <= IMAGE_SIZE
         /\ Destination(headers[k]) + headers[k].memory_size <= RAM_SIZE
<1> DEFINE h == headers[k]
<1>1. k \in 1 .. Len(headers) /\ h \in Headers /\ h.load
  BY DEF ElfTypes, Loaded
<1>2. Destination(h) \in Nat
  BY <1>1, DestinationNat
<1>3. ~OutOfRange(h)
  BY DEF HeadersValid
<1>4. h.file_size \in Nat /\ h.memory_size \in Nat /\ h.file_offset \in Nat
  BY <1>1 DEF Headers
<1>5. IMAGE_SIZE \in Nat /\ RAM_SIZE \in Nat
  BY ElfAssumption
<1> HIDE DEF h
<1>6. /\ h.file_size <= h.memory_size
      /\ h.file_offset + h.file_size <= IMAGE_SIZE
      /\ Destination(h) + h.memory_size <= RAM_SIZE
  BY <1>2, <1>3, <1>4, <1>5 DEF OutOfRange, range_fits
<1>7. QED BY <1>1, <1>2, <1>6 DEF h

-----------------------------------------------------------------------------
(* The properties follow from the invariant.                                *)

LEMMA ElfMalformed == ElfInv => MalformedLeavesRam
<1> SUFFICES ASSUME ElfInv, phase # "load", elf_status \notin {"OK", "SOURCE_IO", "MEMORY_IO"}
             PROVE  ram = [a \in RamAddresses |-> Old]
  BY DEF MalformedLeavesRam
<1>1. RamUntouched
  <2>1. CASE phase = "done"
    BY <2>1 DEF ElfInv, ElfTypes, ElfPhase, ElfResult
  <2>2. CASE phase # "done"
    BY <2>2 DEF ElfInv, ElfTypes, ElfPhase
  <2>3. QED BY <2>1, <2>2
<1>2. QED BY <1>1 DEF ElfInv, ElfTypes, RamUntouched

LEMMA ElfLoaded == ElfInv => LoadedExactly
<1> SUFFICES ASSUME ElfInv, elf_status = "OK"
             PROVE  LoadedExactly
  BY DEF LoadedExactly
<1>1. PartlyLoaded /\ i = Len(headers) /\ i \in Nat
  BY DEF ElfInv, ElfResult, ElfTypes
<1>2. \A k \in Loaded : k \in 1 .. i
  BY <1>1 DEF Loaded, ElfInv, ElfTypes
<1>3. \A k \in Loaded, a \in RamAddresses : Covers(headers[k], a) <=> Written(k, a)
  BY <1>1, <1>2 DEF Written
<1>4. QED BY <1>1, <1>3 DEF LoadedExactly, PartlyLoaded

LEMMA ElfReserved == ElfInv => ReservedIntact
<1> SUFFICES ASSUME ElfInv, NEW r \in reserved_ranges,
                    NEW a \in RamAddresses \intersect (r.start .. r.end - 1)
             PROVE  ram[a] = Old
  BY DEF ReservedIntact
<1>1. a \in Nat /\ Within(r, a)
  <2>1. r.start \in Nat /\ r.end \in Nat
    BY DEF ElfInv, ElfTypes
  <2>2. QED BY <2>1 DEF Within
<1>2. \A k \in Loaded : ~Written(k, a)
  BY <1>1 DEF ElfInv, HeadersValid, Written
<1>3. RamUntouched \/ PartlyLoaded
  <2>1. CASE phase # "done"
    BY <2>1 DEF ElfInv, ElfTypes, ElfPhase
  <2>2. CASE phase = "done"
    BY <2>2 DEF ElfInv, ElfTypes, ElfPhase, ElfResult
  <2>3. QED BY <2>1, <2>2
<1>4. QED BY <1>2, <1>3 DEF RamUntouched, PartlyLoaded

LEMMA ElfStarts == ElfInv => StartsInCode
<1> SUFFICES ASSUME ElfInv, elf_status = "OK"
             PROVE  \E k \in Loaded : /\ headers[k].executable
                                      /\ Covers(headers[k], physical_address(info.entry))
  BY DEF StartsInCode
<1> DEFINE a == physical_address(entry)
           found == info.load_segments
<1>1. info.entry = entry /\ EntryInSegment
  BY DEF ElfInv, ElfResult
<1>2. PICK n \in 1 .. Len(found) : found[n].executable /\ a \in found[n].start .. found[n].end - 1
  BY <1>1 DEF EntryInSegment
<1>3. PICK k \in Loaded : found[n] = Segment(headers[k])
  BY DEF ElfInv, SegmentsValid
<1>4. /\ headers[k] \in Headers /\ Destination(headers[k]) \in Nat
      /\ headers[k].memory_size \in Nat
  BY ValidFits DEF ElfInv, Headers
<1>5. headers[k].executable /\ Covers(headers[k], a)
  BY <1>2, <1>3, <1>4 DEF Segment, Covers
<1>6. QED BY <1>1, <1>5

LEMMA ElfReports == ElfInv => ReportIsRight
<1> SUFFICES ASSUME ElfInv, elf_status = "OK"
             PROVE  ReportIsRight
  BY DEF ElfInv, ElfResult, ReportIsRight
<1> DEFINE found == info.load_segments
<1>1. info.load_segment_count = Len(found)
  BY DEF ElfInv, ElfResult
<1>2. ASSUME NEW n \in 1 .. Len(found) PROVE found[n].end <= RAM_SIZE
  <2>1. PICK k \in Loaded : found[n] = Segment(headers[k])
    BY DEF ElfInv, SegmentsValid
  <2>2. Destination(headers[k]) + headers[k].memory_size <= RAM_SIZE
    BY ValidFits DEF ElfInv
  <2>3. QED BY <2>1, <2>2 DEF Segment
<1>3. ASSUME NEW a \in RamAddresses, NEW k \in Loaded, Covers(headers[k], a)
      PROVE  \E n \in 1 .. Len(found) : found[n].start <= a /\ a < found[n].end
  <2>1. PICK n \in 1 .. Len(found) : found[n] = Segment(headers[k])
    BY DEF ElfInv, SegmentsValid
  <2>2. headers[k] \in Headers /\ a \in Nat
    BY ValidFits DEF ElfInv, RamAddresses
  <2>3. Within(found[n], a)
    BY <1>3, <2>1, <2>2, SegmentIsHeader
  <2>4. QED BY <2>3 DEF Within
<1>4. ASSUME NEW m \in 1 .. Len(found), NEW n \in 1 .. Len(found), NEW a \in RamAddresses,
             Within(found[m], a), Within(found[n], a)
      PROVE  m = n
  <2>1. a \in Nat
    BY DEF RamAddresses
  <2>2. QED BY <1>4, <2>1 DEF ElfInv, SegmentsValid
<1>5. QED
  BY <1>1, <1>2, <1>3, <1>4 DEF ReportIsRight, Within

LEMMA ElfTyped == ElfInv => ElfTypeOK
BY DEF ElfInv, ElfTypes, SegmentsValid, ElfTypeOK
-----------------------------------------------------------------------------
(* Each step of the loader keeps the invariant.                             *)

LEMMA HeadersKept ==
  ASSUME HeadersValid, SegmentsValid, UNCHANGED <<headers, reserved_ranges>>,
         info'.load_segments = info.load_segments
  PROVE  HeadersValid' /\ SegmentsValid'
<1>1. Loaded' = Loaded
  BY DEF Loaded
<1>2. HeadersValid'
  BY <1>1 DEF HeadersValid, Covers
<1>3. SegmentsValid'
  BY <1>1 DEF SegmentsValid
<1>4. QED BY <1>2, <1>3

(* A failure stops the loader where it is.                                  *)
LEMMA FailureStep ==
  ASSUME ElfInv, NEW result \in Failures, End(result), phase # "done",
         phase = "load" => result \in {"SOURCE_IO", "MEMORY_IO"},
         UNCHANGED <<count, headers, entry, reserved_ranges, copied, info, ram>>,
         i' = i \/ (i' = 0 /\ phase # "load")
  PROVE  ElfInv'
<1>1. /\ ElfTypes /\ HeadersValid /\ SegmentsValid /\ ElfPhase /\ ElfResult
      /\ copied <= IMAGE_SIZE
  BY DEF ElfInv
<1>2. phase' = "done" /\ elf_status' = result /\ result # "OK" /\ result # "none"
  BY DEF End, Failures
<1>3. i' \in 0 .. count
  BY <1>1, ElfAssumption DEF ElfTypes
<1>4. ElfTypes'
  BY <1>1, <1>2, <1>3 DEF ElfTypes
<1>5. HeadersValid' /\ SegmentsValid'
  BY <1>1, HeadersKept
<1>6. ElfPhase'
  BY <1>2 DEF ElfPhase
<1>7. ElfResult'
  <2>1. elf_status = "none"
    BY <1>1 DEF ElfPhase
  <2>2. info.load_segment_count = 0 /\ info.entry = 0
    BY <1>1, <2>1 DEF ElfResult
  <2>3. CASE phase = "load"
    <3>1. PartlyLoaded'
      BY <1>1, <2>3 DEF ElfPhase, PartlyLoaded, Loaded, Written, Covers, Wanted
    <3>2. QED BY <1>2, <2>2, <2>3, <3>1 DEF ElfResult, Failures
  <2>4. CASE phase # "load"
    <3>1. RamUntouched'
      BY <1>1, <2>4 DEF ElfTypes, ElfPhase, RamUntouched
    <3>2. QED BY <1>2, <2>2, <3>1 DEF ElfResult
  <2>5. QED BY <2>3, <2>4
<1>8. QED BY <1>1, <1>4, <1>5, <1>6, <1>7 DEF ElfInv

LEMMA ReadHeaderStep ==
  ASSUME ElfInv, ReadHeader
  PROVE  ElfInv'
<1>1. CASE \E result \in {"SOURCE_IO", "BAD_FORMAT", "UNSUPPORTED"} : End(result) /\ UNCHANGED count
  <2>1. PICK result \in {"SOURCE_IO", "BAD_FORMAT", "UNSUPPORTED"} : End(result) /\ UNCHANGED count
    BY <1>1
  <2>2. result \in Failures
    BY DEF Failures
  <2>3. phase = "header" /\ UNCHANGED <<headers, entry, reserved_ranges, i, copied, info, ram>>
    BY DEF ReadHeader
  <2>4. QED BY <2>1, <2>2, <2>3, FailureStep
<1>2. CASE count' \in 0 .. COUNT /\ phase' = "validate" /\ UNCHANGED elf_status
  <2>1. /\ ElfTypes /\ HeadersValid /\ SegmentsValid /\ ElfPhase /\ ElfResult
        /\ copied <= IMAGE_SIZE
    BY DEF ElfInv
  <2>2. phase = "header" /\ UNCHANGED <<headers, entry, reserved_ranges, i, copied, info, ram>>
    BY DEF ReadHeader
  <2>3. i = 0 /\ count = 0 /\ Len(headers) = 0
    BY <2>1, <2>2 DEF ElfPhase, ElfTypes
  <2>4. ElfTypes'
    BY <1>2, <2>1, <2>2, <2>3, ElfAssumption DEF ElfTypes
  <2>5. HeadersValid' /\ SegmentsValid'
    BY <2>1, <2>2, HeadersKept
  <2>6. ElfPhase'
    BY <1>2, <2>1, <2>2, <2>3 DEF ElfPhase, RamUntouched
  <2>7. ElfResult'
    BY <1>2, <2>1, <2>2 DEF ElfPhase, ElfResult, Failures
  <2>8. QED BY <2>1, <2>2, <2>4, <2>5, <2>6, <2>7 DEF ElfInv
<1>3. QED BY <1>1, <1>2 DEF ReadHeader

LEMMA AcceptStep ==
  ASSUME ElfInv, phase = "validate", i < count, NEW h \in ProgramHeaders,
         Verdict(h) \in {"skip", "segment"}, Accept(h),
         UNCHANGED <<count, entry, reserved_ranges, copied>>
  PROVE  ElfInv'
<1> DEFINE found == info.load_segments
           n == Len(headers) + 1
           s == Segment(h)
<1>1. /\ ElfTypes /\ HeadersValid /\ SegmentsValid /\ ElfPhase /\ ElfResult
      /\ copied <= IMAGE_SIZE
  BY DEF ElfInv
<1>2. h \in Headers
  BY ElfAssumption DEF Headers
<1>3. /\ headers \in Seq(Headers) /\ i = Len(headers) /\ found \in Seq(Segments)
      /\ Len(headers) \in Nat /\ Len(found) \in Nat /\ count \in Nat
  BY <1>1, ElfAssumption DEF ElfTypes, ElfPhase
<1>4. headers' = Append(headers, h) /\ i' = i + 1 /\ info' = Collected(h)
  BY DEF Accept
<1>5. /\ headers' \in Seq(Headers) /\ Len(headers') = n /\ headers'[n] = h
      /\ \A k \in 1 .. Len(headers) : headers'[k] = headers[k]
  BY <1>2, <1>3, <1>4
<1>6. s \in Segments /\ \A a \in Nat : Covers(h, a) <=> Within(s, a)
  BY <1>2, SegmentIsHeader
<1>7. Loaded \subseteq 1 .. Len(headers) /\ n \notin Loaded
  BY <1>3 DEF Loaded
<1>8. Loaded' = IF h.load THEN Loaded \union {n} ELSE Loaded
  <2>1. \A k \in 1 .. Len(headers) + 1 : k \in 1 .. Len(headers) \/ k = n
    BY <1>3
  <2>2. DOMAIN headers' = 1 .. n /\ DOMAIN headers = 1 .. Len(headers)
    BY <1>3, <1>5
  <2>3. QED BY <1>3, <1>5, <2>1, <2>2 DEF Loaded
<1>9. \A k \in Loaded : headers'[k] = headers[k]
  BY <1>5, <1>7
<1> HIDE DEF n, s
<1>10. info' = IF h.load THEN [info EXCEPT !.load_segments = Append(found, s)] ELSE info
  BY <1>4 DEF Collected, s
<1>11. /\ info' \in [entry : Nat, load_segment_count : Nat, load_segments : Seq(Segments)]
       /\ info'.entry = info.entry /\ info'.load_segment_count = info.load_segment_count
  <2>1. Append(found, s) \in Seq(Segments)
    BY <1>3, <1>6
  <2>2. QED BY <1>1, <1>10, <2>1 DEF ElfTypes
<1>12. h.load => /\ ~TooMany /\ ~OutOfRange(h) /\ ~OverlapsSegment(s) /\ ~overlaps_reserved(s)
  BY DEF Verdict, s
<1>13. ASSUME h.load, NEW k \in Loaded, NEW a \in Nat, Covers(headers[k], a), Covers(h, a)
       PROVE  FALSE
  <2>1. PICK m \in 1 .. Len(found) : found[m] = Segment(headers[k])
    BY <1>1 DEF SegmentsValid
  <2>2. headers[k] \in Headers
    BY <1>1, ValidFits
  <2>3. Segment(headers[k]) \in Segments /\ Within(Segment(headers[k]), a) /\ Within(s, a)
    BY <1>6, <1>13, <2>2, SegmentIsHeader
  <2>4. ~ranges_overlap(s, found[m])
    BY <1>12, <1>13 DEF OverlapsSegment
  <2>5. \A t \in Segments : t.start \in Nat /\ t.end \in Nat
    BY DEF Segments
  <2>6. QED BY <1>6, <2>1, <2>3, <2>4, <2>5, ApartIsDisjoint
<1>14. ASSUME h.load, NEW r \in reserved_ranges, NEW a \in Nat, Covers(h, a), Within(r, a)
       PROVE  FALSE
  <2>1. r.start \in Nat /\ r.end \in Nat /\ s.start \in Nat /\ s.end \in Nat
    BY <1>1, <1>6 DEF ElfTypes, Segments
  <2>2. r.start < r.end
    BY <1>14, <2>1 DEF Within
  <2>3. ~ranges_overlap(s, r)
    BY <1>12, <1>14, <2>2 DEF overlaps_reserved
  <2>4. QED BY <1>6, <1>14, <2>1, <2>3, ApartIsDisjoint
<1>15. HeadersValid'
  <2>1. \A k \in Loaded' : ~OutOfRange(headers'[k])
    BY <1>1, <1>5, <1>8, <1>9, <1>12 DEF HeadersValid, n
  <2>2. \A k, l \in Loaded' : \A a \in Nat :
          Covers(headers'[k], a) /\ Covers(headers'[l], a) => k = l
    BY <1>1, <1>5, <1>8, <1>9, <1>13 DEF HeadersValid
  <2>3. \A k \in Loaded', r \in reserved_ranges' : \A a \in Nat :
          ~ (Covers(headers'[k], a) /\ Within(r, a))
    BY <1>1, <1>5, <1>8, <1>9, <1>14 DEF HeadersValid
  <2>4. QED BY <2>1, <2>2, <2>3 DEF HeadersValid
<1>16. SegmentsValid'
  <2>1. CASE ~h.load
    <3>1. Loaded' = Loaded /\ info' = info
      BY <1>8, <1>10, <2>1
    <3>2. \A k \in Loaded : Segment(headers'[k]) = Segment(headers[k])
      BY <1>9
    <3>3. QED BY <1>1, <3>1, <3>2 DEF SegmentsValid
  <2>2. CASE h.load
    <3> DEFINE m == Len(found) + 1
    <3>1. /\ Loaded' = Loaded \union {n} /\ info'.load_segments = Append(found, s)
          /\ headers'[n] = h
      BY <1>1, <1>5, <1>8, <1>10, <2>2 DEF ElfTypes
    <3> DEFINE segs == info'.load_segments
    <3>2. /\ Len(segs) = m /\ segs[m] = s /\ \A k \in 1 .. Len(found) : segs[k] = found[k]
      BY <1>3, <1>6, <3>1
    <3>3. Len(segs) <= MAX_LOAD_SEGMENTS
      <4>1. ~(Len(found) >= MAX_LOAD_SEGMENTS)
        BY <1>12, <2>2 DEF TooMany
      <4>2. MAX_LOAD_SEGMENTS \in Nat
        BY ElfAssumption
      <4>3. Len(segs) = Len(found) + 1
        BY <3>2
      <4>4. QED BY <1>3, <4>1, <4>2, <4>3
    <3>4. \A k \in Loaded' : \E l \in 1 .. m : segs[l] = Segment(headers'[k])
      <4>1. ASSUME NEW k \in Loaded PROVE \E l \in 1 .. m : segs[l] = Segment(headers'[k])
        <5>1. PICK l \in 1 .. Len(found) : found[l] = Segment(headers[k])
          BY <1>1 DEF SegmentsValid
        <5>2. l \in 1 .. m /\ segs[l] = found[l]
          BY <1>3, <3>2
        <5>3. QED BY <1>9, <5>1, <5>2
      <4>2. \E l \in 1 .. m : segs[l] = Segment(h)
        BY <1>3, <3>2 DEF s
      <4>3. QED BY <3>1, <4>1, <4>2
    <3>5. ASSUME NEW l \in 1 .. m PROVE \E k \in Loaded' : segs[l] = Segment(headers'[k])
      <4>1. CASE l = m
        BY <3>1, <3>2, <4>1 DEF s
      <4>2. CASE l # m
        <5>1. l \in 1 .. Len(found)
          BY <1>3, <4>2
        <5>2. PICK k \in Loaded : found[l] = Segment(headers[k])
          BY <1>1, <5>1 DEF SegmentsValid
        <5>3. QED BY <1>9, <3>1, <3>2, <5>1, <5>2
      <4>3. QED BY <4>1, <4>2
    <3>6. ASSUME NEW l \in 1 .. Len(found), NEW a \in Nat, Within(segs[l], a), Within(s, a)
          PROVE  FALSE
      <4>1. PICK k \in Loaded : found[l] = Segment(headers[k])
        BY <1>1 DEF SegmentsValid
      <4>2. headers[k] \in Headers
        BY <1>1, ValidFits
      <4>3. Covers(headers[k], a) /\ Covers(h, a)
        BY <1>6, <3>2, <3>6, <4>1, <4>2, SegmentIsHeader
      <4>4. QED BY <1>13, <2>2, <4>3
    <3>7. ASSUME NEW l \in 1 .. m, NEW l2 \in 1 .. m, NEW a \in Nat,
                 Within(segs[l], a), Within(segs[l2], a)
          PROVE  l = l2
      <4>1. (l \in 1 .. Len(found) \/ l = m) /\ (l2 \in 1 .. Len(found) \/ l2 = m)
        BY <1>3
      <4>2. CASE l = m \/ l2 = m
        BY <3>2, <3>6, <3>7, <4>1, <4>2
      <4>3. CASE l # m /\ l2 # m
        BY <1>1, <3>2, <3>7, <4>1, <4>3 DEF SegmentsValid
      <4>4. QED BY <4>2, <4>3
    <3>8. Len(segs) = m
      BY <3>2
    <3> HIDE DEF m
    <3>9. QED BY <3>3, <3>4, <3>5, <3>7, <3>8 DEF SegmentsValid, Segment
  <2>3. QED BY <2>1, <2>2
<1>17. UNCHANGED <<phase, elf_status, ram>>
  BY DEF Accept
<1>18. ElfTypes'
  <2>1. i' \in 0 .. count /\ Len(headers') <= count
    BY <1>3, <1>4, <1>5 DEF n
  <2>2. QED BY <1>1, <1>5, <1>11, <1>17, <2>1 DEF ElfTypes
<1>19. ElfPhase'
  BY <1>1, <1>3, <1>4, <1>5, <1>17 DEF ElfPhase, RamUntouched, n
<1>20. ElfResult'
  <2>1. elf_status = "none"
    BY <1>1 DEF ElfPhase
  <2>2. QED BY <1>1, <1>11, <1>17, <2>1 DEF ElfResult, Failures
<1>21. QED BY <1>1, <1>15, <1>16, <1>18, <1>19, <1>20 DEF ElfInv

LEMMA ValidateStep ==
  ASSUME ElfInv, Validate
  PROVE  ElfInv'
<1>1. phase = "validate" /\ i < count /\ UNCHANGED <<count, entry, reserved_ranges, copied>>
  BY DEF Validate
<1>2. CASE \E result \in Failures : End(result) /\ UNCHANGED <<headers, i, info, ram>>
  <2>1. PICK result \in Failures : End(result) /\ UNCHANGED <<headers, i, info, ram>>
    BY <1>2
  <2>2. QED BY <1>1, <2>1, FailureStep
<1>3. CASE \E h \in ProgramHeaders : Verdict(h) \in {"skip", "segment"} /\ Accept(h)
  BY <1>1, <1>3, AcceptStep
<1>4. \A h : Verdict(h) \in {"skip", "segment"} \union Failures
  BY DEF Verdict, Failures
<1>5. "SOURCE_IO" \in Failures
  BY DEF Failures
<1>6. QED BY <1>2, <1>3, <1>4, <1>5 DEF Validate

LEMMA FinishValidationStep ==
  ASSUME ElfInv, FinishValidation
  PROVE  ElfInv'
<1>1. /\ ElfTypes /\ HeadersValid /\ SegmentsValid /\ ElfPhase /\ ElfResult
      /\ copied <= IMAGE_SIZE
  BY DEF ElfInv
<1>2. /\ phase = "validate" /\ i = count /\ i' = 0
      /\ UNCHANGED <<count, headers, entry, reserved_ranges, copied, info, ram>>
  BY DEF FinishValidation
<1>3. CASE End("NO_LOAD_SEGMENTS") \/ End("INVALID_ENTRY")
  BY <1>2, <1>3, FailureStep DEF Failures
<1>4. CASE EntryValid /\ phase' = "load" /\ UNCHANGED elf_status
  <2>1. Len(headers) = count /\ count \in Nat /\ RamUntouched /\ copied = 0 /\ elf_status = "none"
    BY <1>1, <1>2, ElfAssumption DEF ElfPhase, ElfTypes
  <2>2. ElfTypes'
    BY <1>1, <1>2, <1>4, <2>1 DEF ElfTypes
  <2>3. HeadersValid' /\ SegmentsValid'
    BY <1>1, <1>2, HeadersKept
  <2>4. PartlyLoaded'
    <3>1. ASSUME NEW a \in RamAddresses, NEW k \in Loaded
          PROVE  ~Written(k, a)'
      <4>1. k \in 1 .. Len(headers) /\ headers[k] \in Headers /\ Destination(headers[k]) \in Nat
        BY <1>1, ValidFits
      <4>2. a \in Nat /\ k \in Nat /\ k > 0
        BY <2>1, <4>1 DEF RamAddresses
      <4>3. ~ (k <= 0)
        BY <4>2
      <4>4. Covers(headers[k], a) => ~ (a - Destination(headers[k]) < 0)
        BY <4>1, <4>2 DEF Covers
      <4>5. QED BY <1>2, <2>1, <4>3, <4>4 DEF Written, Covers
    <3>2. Loaded' = Loaded /\ RamUntouched'
      BY <1>2, <2>1 DEF Loaded, RamUntouched
    <3>3. QED BY <3>1, <3>2 DEF PartlyLoaded, RamUntouched
  <2>5. EntryInSegment'
    BY <1>2, <1>4 DEF EntryValid, EntryInSegment
  <2>6. ElfPhase'
    BY <1>2, <1>4, <2>1, <2>4, <2>5 DEF ElfPhase, Copying
  <2>7. ElfResult'
    BY <1>1, <1>2, <1>4, <2>1 DEF ElfResult, Failures
  <2>8. QED BY <1>1, <1>2, <2>2, <2>3, <2>6, <2>7 DEF ElfInv
<1>5. QED BY <1>3, <1>4 DEF FinishValidation

LEMMA FailStep ==
  ASSUME ElfInv, Fail
  PROVE  ElfInv'
BY FailureStep DEF Fail, Failures

(* The header of the second pass.                                           *)
LEMMA CurrentHeader ==
  ASSUME ElfInv, phase = "load", i < count
  PROVE  /\ i + 1 \in 1 .. Len(headers) /\ Header \in Headers
         /\ Header.load => i + 1 \in Loaded
<1>1. headers \in Seq(Headers) /\ Len(headers) = count /\ i \in Nat /\ count \in Nat
  BY ElfAssumption DEF ElfInv, ElfTypes, ElfPhase
<1>2. i + 1 \in 1 .. Len(headers)
  BY <1>1
<1>3. QED BY <1>1, <1>2 DEF Header, Loaded

(* What a step of the second pass leaves alone.                             *)
LEMMA LoadingKept ==
  ASSUME ElfInv, phase = "load", UNCHANGED <<phase, elf_status, count, headers, entry,
                                             reserved_ranges, info>>,
         i' \in 0 .. count, copied' \in Nat, copied' <= IMAGE_SIZE,
         ram' \in [RamAddresses -> Int],
         PartlyLoaded', Copying'
  PROVE  ElfInv'
<1>1. /\ ElfTypes /\ HeadersValid /\ SegmentsValid /\ ElfPhase /\ ElfResult
  BY DEF ElfInv
<1>2. ElfTypes'
  BY <1>1 DEF ElfTypes
<1>3. HeadersValid' /\ SegmentsValid'
  BY <1>1, HeadersKept
<1>4. ElfPhase'
  BY <1>1 DEF ElfPhase, EntryInSegment
<1>5. ElfResult'
  BY <1>1 DEF ElfPhase, ElfResult, Failures
<1>6. QED BY <1>2, <1>3, <1>4, <1>5 DEF ElfInv

LEMMA SkipHeaderStep ==
  ASSUME ElfInv, SkipHeader
  PROVE  ElfInv'
<1>1. /\ phase = "load" /\ i < count /\ ~Header.load /\ i' = i + 1
      /\ UNCHANGED <<phase, elf_status, count, headers, entry, reserved_ranges, copied, info, ram>>
  BY DEF SkipHeader
<1>2. /\ i \in Nat /\ count \in Nat /\ copied \in Nat /\ copied <= IMAGE_SIZE
      /\ ram \in [RamAddresses -> Int] /\ PartlyLoaded /\ Copying
  BY <1>1, ElfAssumption DEF ElfInv, ElfTypes, ElfPhase
<1>3. copied = 0
  BY <1>1, <1>2 DEF Copying
<1>4. i + 1 \notin Loaded
  BY <1>1 DEF Loaded, Header
<1>5. \A k \in Loaded : k \in Nat /\ k # i + 1
  BY <1>4 DEF Loaded, ElfInv, ElfTypes
<1>6. ASSUME NEW k \in Loaded, NEW a \in RamAddresses
      PROVE  Written(k, a)' <=> Written(k, a)
  <2>1. k <= i + 1 <=> k <= i
    BY <1>2, <1>5
  <2>2. a \in Nat /\ Destination(headers[k]) \in Nat
    BY ValidFits DEF ElfInv, RamAddresses
  <2>3. Covers(headers[k], a) => ~ (a - Destination(headers[k]) < 0)
    BY <2>2 DEF Covers
  <2>4. QED BY <1>1, <1>3, <1>5, <2>1, <2>3 DEF Written, Covers
<1>7. PartlyLoaded'
  <2>1. Loaded' = Loaded
    BY <1>1 DEF Loaded
  <2>2. QED BY <1>1, <1>2, <1>6, <2>1 DEF PartlyLoaded, Wanted
<1>8. Copying'
  BY <1>1, <1>3 DEF Copying
<1>9. i' \in 0 .. count
  BY <1>1, <1>2
<1>10. QED BY <1>1, <1>2, <1>7, <1>8, <1>9, LoadingKept

LEMMA AmountFits ==
  ASSUME NEW left \in Nat \ {0}
  PROVE  /\ Min({left, CHUNK_SIZE}) \in Nat \ {0} /\ Min({left, CHUNK_SIZE}) <= left
<1>1. CHUNK_SIZE \in Nat \ {0}
  BY ElfAssumption
<1>2. left <= CHUNK_SIZE \/ CHUNK_SIZE <= left
  BY <1>1
<1>3. \E x \in {left, CHUNK_SIZE} : \A y \in {left, CHUNK_SIZE} : x <= y
  BY <1>1, <1>2
<1>4. /\ Min({left, CHUNK_SIZE}) \in {left, CHUNK_SIZE}
      /\ \A y \in {left, CHUNK_SIZE} : Min({left, CHUNK_SIZE}) <= y
  BY <1>3, Zenon DEF Min
<1>5. QED BY <1>1, <1>4

(* A chunk more of the current segment; no other header wants its bytes.    *)
LEMMA CopyChunkStep ==
  ASSUME ElfInv, CopyChunk
  PROVE  ElfInv'
<1> DEFINE h == Header
           d == Destination(h)
           end == copied + Amount
<1>0. PICK k0 : k0 = i + 1
  OBVIOUS
<1>1. /\ phase = "load" /\ i < count /\ h.load /\ copied < h.file_size /\ copied' = end
      /\ UNCHANGED <<phase, elf_status, count, headers, entry, reserved_ranges, i, info>>
  BY Zenon DEF CopyChunk
<1>2. /\ i \in Nat /\ count \in Nat /\ copied \in Nat /\ IMAGE_SIZE \in Nat
      /\ ram \in [RamAddresses -> Int] /\ PartlyLoaded
  BY <1>1, ElfAssumption DEF ElfInv, ElfTypes, ElfPhase
<1>3. h = headers[k0] /\ k0 \in Loaded
  BY <1>0, <1>1, CurrentHeader DEF Header
<1>4. /\ h \in Headers /\ d \in Nat /\ h.file_size <= h.memory_size
      /\ h.file_offset + h.file_size <= IMAGE_SIZE
  BY <1>3, ValidFits DEF ElfInv
<1>5. h.file_size \in Nat /\ h.memory_size \in Nat /\ h.file_offset \in Nat
  BY <1>4 DEF Headers
<1>6. Amount \in Nat \ {0} /\ Amount <= h.file_size - copied
  <2>1. h.file_size - copied \in Nat \ {0}
    BY <1>1, <1>2, <1>5
  <2>2. QED BY <2>1, AmountFits DEF Amount
<1>7. end \in Nat /\ end > copied /\ end <= h.file_size
  BY <1>2, <1>5, <1>6
<1>8. ram' = [a \in RamAddresses |->
                IF a - d \in copied .. end - 1 THEN h.file_offset + (a - d) ELSE ram[a]]
  <2>1. copied + (Amount - 1) = end - 1
    BY <1>2, <1>6
  <2>2. ram' = [a \in RamAddresses |->
                 IF a - d \in copied .. copied + (Amount - 1)
                 THEN h.file_offset + (a - d) ELSE ram[a]]
    BY Zenon DEF CopyChunk
  <2>3. QED BY <2>1, <2>2, Zenon
<1> HIDE DEF h, d, end
<1>9. ASSUME NEW k \in Loaded, NEW a \in Nat
      PROVE  Written(k, a)' <=> /\ Covers(headers[k], a)
                                /\ k <= i \/ (k = k0 /\ a - d < end)
  <2>1. k = k0 => Destination(headers[k]) = d
    BY <1>3 DEF d
  <2>2. QED BY <1>0, <1>1, <2>1 DEF Written, Covers
<1>10. ASSUME NEW a \in RamAddresses
      PROVE  /\ \A k \in Loaded : Written(k, a)' => ram'[a] = Wanted(headers[k], a)
             /\ (\A k \in Loaded : ~Written(k, a)') => ram'[a] = Old
  <2>1. a \in Nat
    BY DEF RamAddresses
  <2>2. CASE a - d \in copied .. end - 1
    <3>1. ram'[a] = h.file_offset + (a - d)
      BY <1>8, <2>2
    <3>2. a >= d /\ a - d < h.file_size /\ a - d < end
      BY <1>2, <1>4, <1>5, <1>7, <2>1, <2>2
    <3>3. Covers(h, a) /\ Wanted(h, a) = h.file_offset + (a - d)
      BY <1>4, <1>5, <2>1, <3>2 DEF Covers, Wanted, d
    <3>4. \A k \in Loaded : Covers(headers[k], a) => k = k0
      BY <1>3, <2>1, <3>3 DEF ElfInv, HeadersValid
    <3>5. Written(k0, a)'
      BY <1>3, <1>9, <2>1, <3>2, <3>3
    <3>6. \A k \in Loaded : Written(k, a)' => k = k0
      BY <1>9, <2>1, <3>4
    <3>7. QED BY <1>3, <3>1, <3>3, <3>5, <3>6
  <2>3. CASE a - d \notin copied .. end - 1
    <3>1. ram'[a] = ram[a]
      BY <1>8, <2>3
    <3>2. a - d \in Int /\ (a - d < end <=> a - d < copied)
      BY <1>2, <1>4, <1>7, <2>1, <2>3
    <3>3. \A k \in Loaded : Written(k, a)' <=> Written(k, a)
      <4> TAKE k \in Loaded
      <4>1. k = k0 => Destination(headers[k]) = d
        BY <1>3 DEF d
      <4>2. Written(k, a) <=> Covers(headers[k], a) /\ (k <= i \/ (k = k0 /\ a - d < copied))
        BY <1>0, <4>1 DEF Written
      <4>3. QED BY <1>9, <2>1, <3>2, <4>2
    <3>4. QED BY <1>2, <3>1, <3>3 DEF PartlyLoaded
  <2>4. QED BY <2>2, <2>3
<1>11. PartlyLoaded'
  <2>1. Loaded' = Loaded
    BY <1>1 DEF Loaded
  <2>2. QED BY <1>1, <1>10, <2>1 DEF PartlyLoaded, Wanted
<1>12. ram' \in [RamAddresses -> Int]
  <2>1. \A a \in RamAddresses : a \in Int
    BY DEF RamAddresses
  <2>2. QED BY <1>8, <1>2, <1>4, <1>5, <2>1
<1>13. Copying'
  <2>1. Header' = Header
    BY <1>1 DEF Header
  <2>2. QED BY <1>1, <1>7, <2>1 DEF Copying, h
<1>14. copied' \in Nat /\ copied' <= IMAGE_SIZE /\ i' \in 0 .. count
  BY <1>1, <1>2, <1>4, <1>5, <1>7
<1>15. QED BY <1>1, <1>11, <1>12, <1>13, <1>14, LoadingKept

(* The rest of the segment is cleared, and it is complete.                  *)
LEMMA FillRestStep ==
  ASSUME ElfInv, FillRest
  PROVE  ElfInv'
<1> DEFINE h == Header
           d == Destination(h)
<1>0. PICK k0 : k0 = i + 1
  OBVIOUS
<1>1. /\ phase = "load" /\ i < count /\ h.load /\ copied >= h.file_size
      /\ copied' = 0 /\ i' = i + 1
      /\ ram' = [a \in RamAddresses |->
                   IF a \in d + h.file_size .. d + h.memory_size - 1 THEN Zero ELSE ram[a]]
      /\ UNCHANGED <<phase, elf_status, count, headers, entry, reserved_ranges, info>>
  BY DEF FillRest, Cleared
<1>2. /\ i \in Nat /\ count \in Nat /\ copied \in Nat /\ IMAGE_SIZE \in Nat
      /\ ram \in [RamAddresses -> Int] /\ PartlyLoaded /\ Copying
  BY <1>1, ElfAssumption DEF ElfInv, ElfTypes, ElfPhase
<1>3. h = headers[k0] /\ k0 \in Loaded
  BY <1>0, <1>1, CurrentHeader DEF Header
<1>4. /\ h \in Headers /\ d \in Nat /\ h.file_size <= h.memory_size
  BY <1>3, ValidFits DEF ElfInv
<1>5. h.file_size \in Nat /\ h.memory_size \in Nat /\ h.file_offset \in Nat
  BY <1>4 DEF Headers
<1>6. copied = h.file_size
  BY <1>1, <1>2, <1>5 DEF Copying
<1> HIDE DEF h, d
<1>7. ASSUME NEW k \in Loaded, NEW a \in Nat
      PROVE  Written(k, a)' <=> Covers(headers[k], a) /\ (k <= i \/ k = k0)
  <2>1. k \in Nat /\ (k <= i + 1 <=> k <= i \/ k = k0)
    BY <1>0, <1>2 DEF Loaded, ElfInv, ElfTypes
  <2>2. Destination(headers[k]) \in Nat
    BY ValidFits DEF ElfInv
  <2>3. Covers(headers[k], a) => ~ (a - Destination(headers[k]) < 0)
    BY <2>2 DEF Covers
  <2>4. QED BY <1>0, <1>1, <2>1, <2>3 DEF Written, Covers
<1>8. ASSUME NEW a \in RamAddresses
      PROVE  /\ \A k \in Loaded : Written(k, a)' => ram'[a] = Wanted(headers[k], a)
             /\ (\A k \in Loaded : ~Written(k, a)') => ram'[a] = Old
  <2>1. a \in Nat
    BY DEF RamAddresses
  <2>2. CASE a \in d + h.file_size .. d + h.memory_size - 1
    <3>1. ram'[a] = Zero
      BY <1>1, <2>2
    <3>2. Covers(h, a) /\ Wanted(h, a) = Zero
      BY <1>4, <1>5, <2>1, <2>2 DEF Covers, Wanted, d
    <3>3. \A k \in Loaded : Covers(headers[k], a) => k = k0
      BY <1>3, <2>1, <3>2 DEF ElfInv, HeadersValid
    <3>4. Written(k0, a)' /\ \A k \in Loaded : Written(k, a)' => k = k0
      BY <1>3, <1>7, <2>1, <3>2, <3>3
    <3>5. QED BY <1>3, <3>1, <3>2, <3>4
  <2>3. CASE a \notin d + h.file_size .. d + h.memory_size - 1
    <3>1. ram'[a] = ram[a]
      BY <1>1, <2>3
    <3>2. Covers(h, a) => a - d < copied
      BY <1>4, <1>5, <1>6, <2>1, <2>3 DEF Covers, d
    <3>3. \A k \in Loaded : Written(k, a)' <=> Written(k, a)
      <4> TAKE k \in Loaded
      <4>1. k = k0 => headers[k] = h /\ Destination(headers[k]) = d
        BY <1>3 DEF d
      <4>2. Written(k, a) <=> Covers(headers[k], a) /\ (k <= i \/ (k = k0 /\ a - d < copied))
        BY <1>0, <4>1 DEF Written
      <4>3. QED BY <1>7, <2>1, <3>2, <4>1, <4>2
    <3>4. QED BY <1>2, <3>1, <3>3 DEF PartlyLoaded
  <2>4. QED BY <2>2, <2>3
<1>9. PartlyLoaded'
  <2>1. Loaded' = Loaded
    BY <1>1 DEF Loaded
  <2>2. QED BY <1>1, <1>8, <2>1 DEF PartlyLoaded, Wanted
<1>10. ram' \in [RamAddresses -> Int]
  BY <1>1, <1>2 DEF Zero
<1>11. Copying'
  BY <1>1 DEF Copying
<1>12. copied' \in Nat /\ copied' <= IMAGE_SIZE /\ i' \in 0 .. count
  BY <1>1, <1>2
<1>13. QED BY <1>1, <1>9, <1>10, <1>11, <1>12, LoadingKept

LEMMA FinishStep ==
  ASSUME ElfInv, Finish
  PROVE  ElfInv'
<1>1. /\ ElfTypes /\ HeadersValid /\ SegmentsValid /\ ElfPhase /\ ElfResult
      /\ copied <= IMAGE_SIZE
  BY DEF ElfInv
<1>2. /\ phase = "load" /\ i = count /\ phase' = "done" /\ elf_status' = "OK"
      /\ info' = [info EXCEPT !.entry = entry, !.load_segment_count = Len(info.load_segments)]
      /\ UNCHANGED <<count, headers, entry, reserved_ranges, i, copied, ram>>
  BY DEF Finish, End
<1> DEFINE found == info.load_segments
<1>3. /\ info' \in [entry : Nat, load_segment_count : Nat, load_segments : Seq(Segments)]
      /\ info'.entry = entry /\ info'.load_segment_count = Len(found)
      /\ info'.load_segments = found
  <2>1. /\ info \in [entry : Nat, load_segment_count : Nat, load_segments : Seq(Segments)]
        /\ entry \in Nat
    BY <1>1 DEF ElfTypes
  <2>2. found \in Seq(Segments) /\ Len(found) \in Nat
    BY <2>1
  <2> HIDE DEF found
  <2>3. info' = [info EXCEPT !.entry = entry, !.load_segment_count = Len(found)]
    BY <1>2 DEF found
  <2>4. info.load_segments = found
    BY DEF found
  <2>5. QED BY <2>1, <2>2, <2>3, <2>4
<1>4. ElfTypes'
  BY <1>1, <1>2, <1>3 DEF ElfTypes
<1>5. HeadersValid' /\ SegmentsValid'
  BY <1>1, <1>2, <1>3, HeadersKept
<1>6. ElfPhase'
  BY <1>2 DEF ElfPhase
<1>7. ElfResult'
  <2>1. PartlyLoaded' /\ EntryInSegment'
    BY <1>1, <1>2, <1>3 DEF ElfPhase, PartlyLoaded, Loaded, Written, EntryInSegment
  <2>2. QED BY <1>1, <1>2, <1>3, <2>1 DEF ElfPhase, ElfResult, Failures
<1>8. QED BY <1>1, <1>2, <1>4, <1>5, <1>6, <1>7 DEF ElfInv

LEMMA ElfStutters ==
  ASSUME ElfInv, UNCHANGED elf_vars
  PROVE  ElfInv'
BY DEF ElfInv, elf_vars, ElfTypes, HeadersValid, SegmentsValid, ElfPhase, ElfResult,
       RamUntouched, PartlyLoaded, Copying, Written, Loaded, EntryInSegment, Header

LEMMA ElfInitially == ElfInit => ElfInv
<1> SUFFICES ASSUME ElfInit PROVE ElfInv
  OBVIOUS
<1>1. Loaded = {} /\ Len(headers) = 0 /\ Len(info.load_segments) = 0
  BY DEF ElfInit, Loaded
<1>2. ElfTypes
  BY ElfAssumption DEF ElfInit, ElfTypes, Old
<1>3. HeadersValid /\ SegmentsValid
  BY <1>1, ElfAssumption DEF HeadersValid, SegmentsValid
<1>4. ElfPhase /\ ElfResult
  BY DEF ElfInit, ElfPhase, ElfResult, RamUntouched, Failures
<1>5. QED BY <1>2, <1>3, <1>4, ElfAssumption DEF ElfInv, ElfInit

THEOREM ElfInvariance == ElfSpec => []ElfInv
<1>1. ElfInit => ElfInv
  BY ElfInitially
<1>2. ElfInv /\ [ElfNext]_elf_vars => ElfInv'
  <2> SUFFICES ASSUME ElfInv, [ElfNext]_elf_vars
               PROVE  ElfInv'
    OBVIOUS
  <2>1. CASE ReadHeader
    BY <2>1, ReadHeaderStep
  <2>2. CASE Validate
    BY <2>2, ValidateStep
  <2>3. CASE FinishValidation
    BY <2>3, FinishValidationStep
  <2>4. CASE SkipHeader
    BY <2>4, SkipHeaderStep
  <2>5. CASE Fail
    BY <2>5, FailStep
  <2>6. CASE CopyChunk
    BY <2>6, CopyChunkStep
  <2>7. CASE FillRest
    BY <2>7, FillRestStep
  <2>8. CASE Finish
    BY <2>8, FinishStep
  <2>9. CASE UNCHANGED elf_vars
    BY <2>9, ElfStutters
  <2>10. QED
    BY <2>1, <2>2, <2>3, <2>4, <2>5, <2>6, <2>7, <2>8, <2>9 DEF ElfNext
<1>3. QED BY <1>1, <1>2, PTL DEF ElfSpec

(* Every image either arrives in RAM exactly, or leaves RAM alone if it is  *)
(* malformed; the reserved ranges survive in any case; and what is reported *)
(* is what was loaded.                                                      *)
THEOREM ElfIsSafe == ElfSpec => []ElfSafe
<1>1. ElfInv => ElfSafe
  BY ElfTyped, ElfMalformed, ElfLoaded, ElfReserved, ElfStarts, ElfReports DEF ElfSafe
<1>2. QED BY <1>1, ElfInvariance, PTL
-----------------------------------------------------------------------------
(* The device tree's inductive invariant: chosen_depth knows whether /chosen *)
(* or a node below it is open, so depth = chosen_depth inside /chosen alone, *)
(* or outside every node; and the two flags know what has been read there.   *)

NodeNames == {"chosen", "other"}
FdtStatuses == {"start", "walking", "OK", "INVALID_ARGUMENT", "BAD_FORMAT",
                "OUT_OF_RANGE", "MEMORY_IO", "FDT_PROPERTY_MISSING"}

ChosenOpen == Len(path) >= 2 /\ path[2] = "chosen"

FdtWalk ==
  /\ path \in Seq(NodeNames) /\ depth = Len(path) - 1 /\ depth <= DEPTH
  /\ chosen_depth = IF ChosenOpen THEN 1 ELSE -1
  /\ found_start \in BOOLEAN /\ found_end \in BOOLEAN

ReadRight(p) ==
  /\ p.name \in Names /\ Len(p.words) <= 2
  /\ (InChosen(p) /\ p.words # <<>>) =>
       /\ p.name = "linux,initrd-start" => Holds(p, INITRD_START)
       /\ p.name = "linux,initrd-end" => Holds(p, INITRD_END)
  /\ (p.path # <<>> /\ (~InChosen(p) \/ p.name = "other")) => Untouched(p)

ReadIn(p, name) == p.name = name /\ (InChosen(p) \/ p.path = <<>>)

FdtFound ==
  /\ found_start => \E p \in properties : ReadIn(p, "linux,initrd-start")
  /\ found_end => \E p \in properties : ReadIn(p, "linux,initrd-end")
  /\ fdt_status \in {"walking", "OK", "FDT_PROPERTY_MISSING"} =>
       \A p \in properties : InChosen(p) =>
         /\ p.name = "linux,initrd-start" => found_start
         /\ p.name = "linux,initrd-end" => found_end

FdtOutcome ==
  /\ fdt_status \in FdtStatuses
  /\ fdt_status = "start" => properties = {}
  /\ fdt_status = "OK" => FoundAll
  /\ fdt_status = "FDT_PROPERTY_MISSING" => ~FoundAll

FdtInv == FdtWalk /\ (\A p \in properties : ReadRight(p)) /\ FdtFound /\ FdtOutcome

(* The code's comparison of two depths decides whether /chosen itself is     *)
(* open; outside every node it holds as well.                                *)
LEMMA AtChosen ==
  ASSUME FdtWalk
  PROVE  (depth = chosen_depth) <=> \/ path = <<>>
                                    \/ Len(path) = 2 /\ path[2] = "chosen"
<1>1. Len(path) \in Nat /\ (path = <<>> <=> Len(path) = 0)
  BY EmptySeq DEF FdtWalk
<1>2. CASE ChosenOpen
  BY <1>1, <1>2 DEF FdtWalk, ChosenOpen
<1>3. CASE ~ChosenOpen
  BY <1>1, <1>3 DEF FdtWalk, ChosenOpen
<1>4. QED BY <1>2, <1>3

LEMMA BeginNodeStep ==
  ASSUME FdtInv, BeginNode
  PROVE  FdtInv'
<1>1. PICK name \in NodeNames :
        /\ path' = Append(path, name)
        /\ chosen_depth' = IF IsChosen(depth + 1, name) THEN depth + 1 ELSE chosen_depth
  BY DEF BeginNode, NodeNames
<1>2. /\ depth < DEPTH /\ depth' = depth + 1
      /\ UNCHANGED <<fdt_status, found_start, found_end, properties>>
  BY DEF BeginNode
<1>3. /\ path \in Seq(NodeNames) /\ Len(path) \in Nat /\ depth = Len(path) - 1
      /\ chosen_depth = IF ChosenOpen THEN 1 ELSE -1
  BY DEF FdtInv, FdtWalk
<1>4. /\ path' \in Seq(NodeNames) /\ Len(path') = Len(path) + 1
      /\ \A k \in 1 .. Len(path) : path'[k] = path[k]
      /\ path'[Len(path) + 1] = name
  BY <1>1, <1>3, AppendProperties
<1>5. DEPTH \in Nat
  BY FdtAssumption
<1>6. depth' = Len(path') - 1 /\ depth' <= DEPTH
  BY <1>2, <1>3, <1>4, <1>5
<1>7. chosen_depth' = IF ChosenOpen' THEN 1 ELSE -1
  <2>1. CASE Len(path) = 0
    BY <1>1, <1>3, <1>4, <2>1 DEF ChosenOpen, IsChosen
  <2>2. CASE Len(path) = 1
    BY <1>1, <1>3, <1>4, <2>2 DEF ChosenOpen, IsChosen
  <2>3. CASE Len(path) >= 2
    <3>1. path'[2] = path[2]
      BY <1>3, <1>4, <2>3
    <3>2. ~IsChosen(depth + 1, name)
      BY <1>3, <2>3 DEF IsChosen
    <3>3. ChosenOpen' <=> ChosenOpen
      BY <1>3, <1>4, <2>3, <3>1 DEF ChosenOpen
    <3>4. QED BY <1>1, <1>3, <3>2, <3>3
  <2>4. QED BY <1>3, <2>1, <2>2, <2>3
<1>8. QED
  BY <1>2, <1>4, <1>6, <1>7
     DEF FdtInv, FdtWalk, ReadRight, FdtFound, FdtOutcome, FoundAll, Holds, Untouched

LEMMA EndNodeStep ==
  ASSUME FdtInv, EndNode
  PROVE  FdtInv'
<1>1. /\ path \in Seq(NodeNames) /\ Len(path) \in Nat /\ depth = Len(path) - 1
      /\ chosen_depth = IF ChosenOpen THEN 1 ELSE -1
      /\ depth <= DEPTH /\ found_start \in BOOLEAN /\ found_end \in BOOLEAN
  BY DEF FdtInv, FdtWalk
<1>2. CASE depth < 0
  <2>1. fdt_status' = "BAD_FORMAT" /\ UNCHANGED <<walk, path, properties>>
    BY <1>2 DEF EndNode
  <2>2. QED
    BY <2>1 DEF FdtInv, FdtWalk, ReadRight, FdtFound, FdtOutcome, FdtStatuses,
                walk, ChosenOpen, Holds, Untouched
<1>3. CASE ~(depth < 0)
  <2>1. /\ chosen_depth' = AfterEnd /\ depth' = depth - 1 /\ path' = Front(path)
        /\ UNCHANGED <<fdt_status, found_start, found_end, properties>>
    BY <1>3, Zenon DEF EndNode
  <2>2. /\ path' \in Seq(NodeNames) /\ Len(path') = Len(path) - 1
        /\ \A k \in 1 .. Len(path) - 1 : path'[k] = path[k]
    <3>1. Len(path) >= 1
      BY <1>1, <1>3
    <3>2. 1 \in 1 .. Len(path) + 1 /\ Len(path) - 1 \in 0 .. Len(path)
      BY <1>1, <3>1
    <3>3. QED BY <1>1, <2>1, <3>1, <3>2, SubSeqProperties DEF Front
  <2>3. depth' = Len(path') - 1 /\ depth' <= DEPTH
    BY <1>1, <2>1, <2>2, FdtAssumption
  <2>4. chosen_depth' = IF ChosenOpen' THEN 1 ELSE -1
    <3>1. CASE Len(path) = 1
      BY <1>1, <2>1, <2>2, <3>1 DEF ChosenOpen, AfterEnd
    <3>2. CASE Len(path) = 2
      BY <1>1, <2>1, <2>2, <3>2 DEF ChosenOpen, AfterEnd
    <3>3. CASE Len(path) >= 3
      <4>1. path'[2] = path[2]
        BY <1>1, <2>2, <3>3
      <4>2. ChosenOpen' <=> ChosenOpen
        BY <1>1, <2>2, <3>3, <4>1 DEF ChosenOpen
      <4>3. depth # chosen_depth
        BY <1>1, <3>3
      <4>4. QED BY <1>1, <2>1, <4>2, <4>3 DEF AfterEnd
    <3>4. QED BY <1>1, <1>3, <3>1, <3>2, <3>3
  <2>5. QED
    BY <1>1, <2>1, <2>2, <2>3, <2>4
       DEF FdtInv, FdtWalk, ReadRight, FdtFound, FdtOutcome, FoundAll, Holds, Untouched
<1>4. QED BY <1>2, <1>3

(* What fdt_write_address() leaves: the address in the last word, a zero     *)
(* before it.                                                                *)
LEMMA WrittenWhole ==
  ASSUME NEW words \in {<<OldWord>>, <<OldWord, OldWord>>}, NEW value
  PROVE  LET w == fdt_write_address(words, value)
         IN  /\ w # <<>> /\ Len(w) \in 1 .. 2 /\ w[Len(w)] = value
             /\ \A k \in 1 .. Len(w) - 1 : w[k] = 0
<1>1. CASE words = <<OldWord>>
  BY <1>1 DEF fdt_write_address
<1>2. CASE words = <<OldWord, OldWord>>
  BY <1>2 DEF fdt_write_address
<1>3. QED BY <1>1, <1>2

LEMMA PropertyStep ==
  ASSUME FdtInv, Property
  PROVE  FdtInv'
<1>1. PICK name \in Names, words \in {<<>>, <<OldWord>>, <<OldWord, OldWord>>} :
        IF depth = chosen_depth /\ name # "other"
        THEN IF words = <<>>
             THEN /\ fdt_status' = "MEMORY_IO" /\ Read(name, words)
                  /\ UNCHANGED <<found_start, found_end>>
             ELSE Patch(name, words) /\ UNCHANGED fdt_status
        ELSE Read(name, words) /\ UNCHANGED <<fdt_status, found_start, found_end>>
  BY DEF Property
<1>2. fdt_status = "walking" /\ UNCHANGED <<depth, chosen_depth, path>>
  BY DEF Property
<1>3. /\ FdtWalk /\ FdtFound /\ FdtOutcome
      /\ \A p \in properties : ReadRight(p)
      /\ found_start \in BOOLEAN /\ found_end \in BOOLEAN
  BY DEF FdtInv, FdtWalk
<1>4. /\ words = <<>> \/ words \in {<<OldWord>>, <<OldWord, OldWord>>}
      /\ Len(words) <= 2 /\ \A k \in DOMAIN words : words[k] = OldWord
  <2>1. CASE words = <<>>
    BY <2>1
  <2>2. CASE words = <<OldWord>>
    BY <2>2
  <2>3. CASE words = <<OldWord, OldWord>>
    BY <2>3
  <2>4. QED BY <2>1, <2>2, <2>3
<1>5. CASE depth = chosen_depth /\ name # "other" /\ words # <<>>
  <2> DEFINE value == IF name = "linux,initrd-start" THEN INITRD_START ELSE INITRD_END
             w == fdt_write_address(words, value)
             new == [path |-> path, name |-> name, words |-> w]
  <2>1. /\ properties' = properties \union {new} /\ fdt_status' = fdt_status
        /\ found_start' = (found_start \/ name = "linux,initrd-start")
        /\ found_end' = (found_end \/ name = "linux,initrd-end")
    BY <1>1, <1>5 DEF Patch, Read
  <2>2. /\ w # <<>> /\ Len(w) \in 1 .. 2 /\ w[Len(w)] = value
        /\ \A k \in 1 .. Len(w) - 1 : w[k] = 0
    <3>1. words \in {<<OldWord>>, <<OldWord, OldWord>>}
      BY <1>4, <1>5
    <3> HIDE DEF value
    <3>2. QED BY <3>1, WrittenWhole
  <2> HIDE DEF w
  <2>3. new.path = path /\ new.name = name /\ new.words = w
    OBVIOUS
  <2>4. path = <<>> \/ InChosen(new)
    BY <1>3, <1>5, <2>3, AtChosen DEF InChosen
  <2>5. Holds(new, value)
    BY <2>2, <2>3 DEF Holds, Last
  <2> HIDE DEF new
  <2>6. ReadRight(new)
    <3>1. name = "linux,initrd-start" \/ name = "linux,initrd-end"
      BY <1>5 DEF Names
    <3>2. Len(w) <= 2
      <4>1. \A n \in 1 .. 2 : n <= 2
        OBVIOUS
      <4>2. QED BY <2>2, <4>1, Zenon
    <3>3. QED BY <1>5, <2>3, <2>4, <2>5, <3>1, <3>2 DEF ReadRight
  <2>7. ReadIn(new, name)
    BY <2>3, <2>4 DEF ReadIn
  <2> HIDE DEF new, value
  <2>8. FdtFound'
    BY <1>2, <1>3, <2>1, <2>3, <2>7 DEF FdtFound, ReadIn, InChosen
  <2>9. FdtWalk'
    BY <1>2, <1>3, <2>1 DEF FdtWalk, ChosenOpen
  <2>10. FdtOutcome'
    BY <1>2, <2>1 DEF FdtOutcome, FdtStatuses
  <2>11. \A p \in properties' : ReadRight(p)
    BY <1>3, <2>1, <2>6
  <2>12. QED BY <2>8, <2>9, <2>10, <2>11 DEF FdtInv, ReadRight, Holds, Untouched
<1>6. CASE ~(depth = chosen_depth /\ name # "other" /\ words # <<>>)
  <2> DEFINE new == [path |-> path, name |-> name, words |-> words]
  <2>1. /\ properties' = properties \union {new} /\ UNCHANGED <<found_start, found_end>>
        /\ \/ fdt_status' = fdt_status /\ (depth # chosen_depth \/ name = "other")
           \/ fdt_status' = "MEMORY_IO" /\ words = <<>>
    BY <1>1, <1>6 DEF Read
  <2>2. new.path = path /\ new.name = name /\ new.words = words
    OBVIOUS
  <2>3. InChosen(new) => depth = chosen_depth
    BY <1>3, <2>2, AtChosen DEF InChosen
  <2>4. Untouched(new)
    BY <1>4, <2>2 DEF Untouched
  <2>5. ReadRight(new)
    BY <1>4, <1>6, <2>2, <2>3, <2>4 DEF ReadRight
  <2> HIDE DEF new
  <2>6. FdtFound'
    <3>1. (found_start' => \E p \in properties' : ReadIn(p, "linux,initrd-start"))
          /\ (found_end' => \E p \in properties' : ReadIn(p, "linux,initrd-end"))
      BY <1>3, <2>1 DEF FdtFound
    <3>2. ASSUME fdt_status' \in {"walking", "OK", "FDT_PROPERTY_MISSING"},
                 NEW p \in properties', InChosen(p)
          PROVE  /\ p.name = "linux,initrd-start" => found_start'
                 /\ p.name = "linux,initrd-end" => found_end'
      BY <1>2, <1>3, <2>1, <2>2, <2>3, <3>2 DEF FdtFound
    <3>3. QED BY <3>1, <3>2 DEF FdtFound, ReadIn, InChosen
  <2>7. FdtWalk'
    BY <1>2, <1>3, <2>1 DEF FdtWalk, ChosenOpen
  <2>8. FdtOutcome'
    BY <1>2, <2>1 DEF FdtOutcome, FdtStatuses
  <2>9. \A p \in properties' : ReadRight(p)
    BY <1>3, <2>1, <2>5
  <2>10. QED BY <2>6, <2>7, <2>8, <2>9 DEF FdtInv, ReadRight, Holds, Untouched
<1>7. QED BY <1>5, <1>6

(* The steps that only decide the walk's status.                             *)
LEMMA StatusStep ==
  ASSUME FdtInv, CheckHeader \/ EndOfTree \/ Malformed
  PROVE  FdtInv'
<1>1. UNCHANGED <<walk, path, properties>>
  BY DEF CheckHeader, EndOfTree, Malformed
<1>2. FdtOutcome'
  BY <1>1 DEF FdtInv, FdtOutcome, FdtStatuses, CheckHeader, EndOfTree, Malformed,
              FoundAll, walk
<1>3. FdtWalk'
  BY <1>1 DEF FdtInv, FdtWalk, walk, ChosenOpen
<1>4. fdt_status = "start" => properties = {}
  BY DEF FdtInv, FdtOutcome
<1>5. fdt_status \in {"start", "walking"}
  BY DEF CheckHeader, EndOfTree, Malformed
<1>6. FdtFound'
  BY <1>1, <1>4, <1>5 DEF FdtInv, FdtFound, walk
<1>7. QED BY <1>1, <1>2, <1>3, <1>6 DEF FdtInv, ReadRight, Holds, Untouched

LEMMA FdtInitially == FdtInit => FdtInv
<1> SUFFICES ASSUME FdtInit PROVE FdtInv
  OBVIOUS
<1>1. path = <<>> /\ Len(path) = 0 /\ properties = {} /\ fdt_status = "start"
      /\ depth = -1 /\ chosen_depth = -1 /\ found_start = FALSE /\ found_end = FALSE
  BY EmptySeq DEF FdtInit
<1>2. path \in Seq(NodeNames)
  BY <1>1, EmptySeq, Zenon
<1>3. -1 <= DEPTH /\ -1 = 0 - 1
  BY FdtAssumption
<1>4. ~ChosenOpen
  BY <1>1 DEF ChosenOpen
<1>5. FdtWalk
  <2>1. depth = Len(path) - 1 /\ depth <= DEPTH
    <3>1. Len(path) = 0 /\ depth = -1
      BY <1>1, Zenon
    <3>2. QED BY <1>3, <3>1
  <2>2. chosen_depth = IF ChosenOpen THEN 1 ELSE -1
    <3>1. chosen_depth = -1
      BY <1>1, Zenon
    <3>2. QED BY <1>4, <3>1
  <2>3. found_start \in BOOLEAN /\ found_end \in BOOLEAN
    BY <1>1, Zenon
  <2>4. QED BY <1>2, <2>1, <2>2, <2>3, Zenon DEF FdtWalk
<1>6. FdtFound /\ FdtOutcome
  BY <1>1 DEF FdtFound, FdtOutcome, FdtStatuses
<1>7. QED BY <1>1, <1>5, <1>6 DEF FdtInv

THEOREM FdtInvariance == FdtSpec => []FdtInv
<1>1. FdtInv /\ [FdtNext]_fdt_vars => FdtInv'
  <2> SUFFICES ASSUME FdtInv, [FdtNext]_fdt_vars
               PROVE  FdtInv'
    OBVIOUS
  <2>1. CASE CheckHeader \/ EndOfTree \/ Malformed
    BY <2>1, StatusStep
  <2>2. CASE BeginNode
    BY <2>2, BeginNodeStep
  <2>3. CASE EndNode
    BY <2>3, EndNodeStep
  <2>4. CASE Property
    BY <2>4, PropertyStep
  <2>5. CASE UNCHANGED fdt_vars
    BY <2>5 DEF FdtInv, FdtWalk, ReadRight, FdtFound, FdtOutcome, FoundAll,
                Holds, Untouched, fdt_vars, walk, ChosenOpen
  <2>6. QED BY <2>1, <2>2, <2>3, <2>4, <2>5 DEF FdtNext
<1>2. QED BY <1>1, FdtInitially, PTL DEF FdtSpec

(* Whatever tree the walk reads, /chosen's two properties are patched whole, *)
(* no other property is touched, and the result says whether both were       *)
(* there.                                                                    *)
THEOREM FdtIsSafe == FdtSpec => []FdtSafe
<1>1. FdtInv => FdtSafe
  <2> SUFFICES ASSUME FdtInv PROVE FdtSafe
    OBVIOUS
  <2>1. FdtTypeOK
    BY DEF FdtInv, FdtWalk, FdtOutcome, FdtStatuses, ReadRight, FdtTypeOK
  <2>2. ChosenPatched /\ OthersUntouched
    BY DEF FdtInv, ReadRight, ChosenPatched, OthersUntouched
  <2>3. ASSUME fdt_status = "OK", \A p \in properties : p.path # <<>>
        PROVE  \A name \in Names \ {"other"} : \E p \in properties : InChosen(p) /\ p.name = name
    BY <2>3 DEF FdtInv, FdtOutcome, FdtFound, FoundAll, ReadIn, Names
  <2>4. ASSUME fdt_status = "FDT_PROPERTY_MISSING",
               \A name \in Names \ {"other"} : \E p \in properties : InChosen(p) /\ p.name = name
        PROVE  FALSE
    BY <2>4 DEF FdtInv, FdtOutcome, FdtFound, FoundAll, Names
  <2>5. ReportsBoth
    BY <2>3, <2>4, Zenon DEF ReportsBoth
  <2>6. QED BY <2>1, <2>2, <2>5 DEF FdtSafe
<1>2. QED BY <1>1, FdtInvariance, PTL

-----------------------------------------------------------------------------
(* The search for the initramfs' place.                                     *)

(* Reserved ranges the search has passed: none of them can be in its way.   *)
Passed == {r \in reserved : r.start >= upper_limit}

ArgumentsOK ==
  /\ size \in Nat /\ alignment \in Nat \ {0}
  /\ reserved \subseteq MemoryRange /\ IsFiniteSet(reserved)

SearchOK ==
  /\ upper_limit \in 0 .. MEMORY_END /\ attempts \in Nat /\ start \in Nat
  /\ place_status \in Statuses

(* Nothing above the limit is a place for the image.                        *)
NothingAbove == \A place \in Nat : Free(place) => place + size <= upper_limit

(* Every attempt has passed another range.                                  *)
AttemptsPaid == place_status = "searching" => attempts <= Cardinality(Passed)

PlaceInv ==
  /\ ArgumentsOK /\ SearchOK
  /\ NothingAbove /\ AttemptsPaid
  /\ HighestFree /\ RefusedOnlyIfFull /\ EnoughAttempts

-----------------------------------------------------------------------------
(* Rounding down gives the greatest multiple not above the value.           *)
LEMMA AlignDown ==
  ASSUME NEW v \in Nat, NEW a \in Nat \ {0}
  PROVE  /\ align_down(v, a) \in Nat /\ align_down(v, a) <= v
         /\ align_down(v, a) % a = 0
         /\ \A p \in Nat : p % a = 0 /\ p <= v => p <= align_down(v, a)
<1> DEFINE q == v \div a
           r == v % a
<1>1. q \in Nat /\ r \in 0 .. a - 1 /\ v = a * q + r
  OBVIOUS
<1>2. align_down(v, a) = a * q
  BY <1>1 DEF align_down
<1>3. a * q \in Nat /\ a * q <= v
  BY <1>1
<1>4. (a * q) % a = 0
  BY <1>1
<1>5. ASSUME NEW p \in Nat, p % a = 0, p <= v
      PROVE  p <= a * q
  <2> DEFINE k == p \div a
  <2>1. k \in Nat /\ p = a * k
    BY <1>5
  <2>2. k <= q
    <3>1. SUFFICES ASSUME k >= q + 1 PROVE FALSE
      BY <1>1, <2>1
    <3>2. a * k >= a * (q + 1)
      BY <3>1, <1>1, <2>1
    <3>3. a * (q + 1) = a * q + a
      BY <1>1
    <3>4. QED BY <3>2, <3>3, <1>1, <2>1, <1>5
  <2>3. QED BY <2>1, <2>2, <1>1
<1>6. QED BY <1>2, <1>3, <1>4, <1>5

(* The limit of the next attempt is the start of a range in the way, and no *)
(* other range in the way starts below it.                                  *)
LEMMA NextLimitIsLeast ==
  ASSUME NEW ranges, ranges \subseteq MemoryRange, ranges # {}
  PROVE  /\ NextLimit(ranges) \in Nat
         /\ \E r \in ranges : r.start = NextLimit(ranges)
         /\ \A r \in ranges : NextLimit(ranges) <= r.start
<1> DEFINE starts == {r.start : r \in ranges}
<1>1. starts \in SUBSET Nat /\ starts # {}
  BY DEF MemoryRange
<1>2. PICK least \in starts : \A t \in starts : ~ (<<t, least>> \in OpToRel(<, Nat))
  BY <1>1, NatLessThanWellFounded, WFMin
<1>3. \A r \in ranges : least <= r.start
  <2> TAKE r \in ranges
  <2>1. r.start \in starts /\ r.start \in Nat /\ least \in Nat
    BY <1>1
  <2>2. ~ (r.start < least)
    BY <1>2, <2>1 DEF OpToRel
  <2>3. QED BY <2>1, <2>2
<1>4. \E s : s \in {r.start : r \in ranges} /\ \A r \in ranges : s <= r.start
  BY <1>3
<1>5. /\ NextLimit(ranges) \in {r.start : r \in ranges}
      /\ \A r \in ranges : NextLimit(ranges) <= r.start
  BY <1>4, Zenon DEF NextLimit
<1>6. QED BY <1>1, <1>5

-----------------------------------------------------------------------------
LEMMA CandidateBest ==
  ASSUME ArgumentsOK, SearchOK, Fits
  PROVE  /\ Candidate \in Nat /\ Candidate % alignment = 0
         /\ Candidate + size <= upper_limit
         /\ \A place \in Nat :
              place % alignment = 0 /\ place + size <= upper_limit => place <= Candidate
<1>1. upper_limit - size \in Nat /\ upper_limit \in Nat /\ size \in Nat
  BY PlaceAssumption DEF ArgumentsOK, SearchOK, Fits
<1>2. alignment \in Nat \ {0}
  BY DEF ArgumentsOK
<1>3. /\ Candidate \in Nat /\ Candidate <= upper_limit - size
      /\ Candidate % alignment = 0
      /\ \A p \in Nat : p % alignment = 0 /\ p <= upper_limit - size => p <= Candidate
  BY <1>1, <1>2, AlignDown DEF Candidate
<1>4. ASSUME NEW place \in Nat, place % alignment = 0, place + size <= upper_limit
      PROVE  place <= Candidate
  BY <1>1, <1>3, <1>4
<1>5. QED BY <1>1, <1>3, <1>4

(* A place found is free, and the highest.                                  *)
LEMMA PlaceIsBest ==
  ASSUME PlaceInv, Place
  PROVE  HighestFree'
<1>1. /\ Candidate \in Nat /\ Candidate % alignment = 0 /\ Candidate + size <= upper_limit
      /\ \A place \in Nat :
           place % alignment = 0 /\ place + size <= upper_limit => place <= Candidate
  BY CandidateBest DEF PlaceInv, Place
<1>2. start' = Candidate /\ UNCHANGED <<size, alignment, reserved>>
  BY DEF Place, arguments
<1>3. Free(Candidate)
  <2>1. Candidate + size <= MEMORY_END
    BY <1>1, PlaceAssumption DEF PlaceInv, SearchOK, ArgumentsOK
  <2>2. ASSUME NEW r \in reserved
        PROVE  r.start >= r.end \/ Candidate + size <= r.start \/ r.end <= Candidate
    <3>1. r.start \in Nat /\ r.end \in Nat /\ size \in Nat
      BY DEF PlaceInv, ArgumentsOK, MemoryRange
    <3>2. Empty(r) \/ ~ranges_overlap_at(Candidate, Candidate + size, r)
      BY DEF Place, Conflicts
    <3>3. QED BY <1>1, <3>1, <3>2 DEF Empty, ranges_overlap_at
  <2>3. QED BY <1>1, <2>1, <2>2 DEF Free
<1>4. ASSUME NEW place \in Candidate + 1 .. MEMORY_END
      PROVE  ~Free(place)
  <2>1. place \in Nat /\ place > Candidate
    BY <1>1, PlaceAssumption
  <2>2. Free(place) => place % alignment = 0 /\ place + size <= upper_limit
    BY <2>1 DEF PlaceInv, NothingAbove, Free
  <2>3. QED BY <1>1, <2>1, <2>2
<1>5. QED
  BY <1>2, <1>3, <1>4 DEF HighestFree, Free

(* The search goes on below ranges that were all in the way of the          *)
(* candidate: no place is skipped, and a range is passed that was not       *)
(* passed before.                                                           *)
LEMMA RetrySkipsNothing ==
  ASSUME PlaceInv, Retry
  PROVE  /\ UNCHANGED place_status /\ attempts' = attempts + 1
         /\ upper_limit' \in Nat /\ upper_limit' < upper_limit
         /\ NothingAbove' /\ attempts' <= Cardinality(Passed')
<1> DEFINE limit == NextLimit(Conflicts(Candidate))
<1>1. /\ Candidate \in Nat /\ Candidate + size <= upper_limit /\ size \in Nat
      /\ upper_limit \in Nat
      /\ \A place \in Nat :
           place % alignment = 0 /\ place + size <= upper_limit => place <= Candidate
  BY CandidateBest, PlaceAssumption DEF PlaceInv, Retry, ArgumentsOK, SearchOK
<1>2. Conflicts(Candidate) \subseteq reserved /\ Conflicts(Candidate) \subseteq MemoryRange
  BY DEF Conflicts, PlaceInv, ArgumentsOK
<1>3. limit \in Nat /\ \E r \in Conflicts(Candidate) : r.start = limit
  BY <1>2, NextLimitIsLeast DEF Retry
<1>4. PICK r \in Conflicts(Candidate) : r.start = limit
  BY <1>3
<1>5. r \in reserved /\ r.start \in Nat /\ r.end \in Nat
  BY <1>2 DEF MemoryRange
<1>6. r.start < r.end /\ Candidate < r.end /\ r.start < Candidate + size
  BY <1>5 DEF Conflicts, Empty, ranges_overlap_at
<1>7. limit < upper_limit
  BY <1>1, <1>3, <1>4, <1>5, <1>6
<1>8. /\ upper_limit' = limit /\ attempts' = attempts + 1 /\ UNCHANGED place_status
      /\ UNCHANGED <<size, alignment, reserved>>
  BY <1>1, <1>3, <1>7 DEF Retry, arguments
<1>9. NothingAbove'
  <2>1. ASSUME NEW place \in Nat, Free(place)
        PROVE  place + size <= limit
    <3>1. place % alignment = 0 /\ place + size <= upper_limit
      BY <2>1 DEF PlaceInv, NothingAbove, Free
    <3>2. place <= Candidate
      BY <1>1, <3>1
    <3>3. place + size <= r.start \/ r.end <= place
      BY <1>5, <1>6, <2>1 DEF Free
    <3>4. QED BY <1>1, <1>4, <1>5, <1>6, <3>2, <3>3
  <2>2. QED BY <1>8, <2>1 DEF NothingAbove, Free
<1>10. attempts' <= Cardinality(Passed')
  <2> DEFINE later == {s \in reserved : s.start >= limit}
  <2>1. Passed' = later
    BY <1>8 DEF Passed
  <2>2. IsFiniteSet(reserved) /\ attempts \in Nat
    BY DEF PlaceInv, ArgumentsOK, SearchOK
  <2>3. IsFiniteSet(Passed) /\ IsFiniteSet(later)
    <3>1. Passed \in SUBSET reserved /\ later \in SUBSET reserved
      BY DEF Passed
    <3>2. QED BY <2>2, <3>1, FS_Subset
  <2>4. Passed \union {r} \in SUBSET later /\ r \notin Passed
    <3>1. \A s \in reserved : s.start \in Nat
      BY DEF PlaceInv, ArgumentsOK, MemoryRange
    <3>2. \A s \in Passed : s \in later
      BY <1>1, <1>3, <1>7, <3>1 DEF Passed
    <3>3. r \in later
      BY <1>3, <1>4, <1>5
    <3>4. r \notin Passed
      BY <1>1, <1>3, <1>4, <1>5, <1>7 DEF Passed
    <3>5. QED BY <3>2, <3>3, <3>4
  <2>5. /\ IsFiniteSet(Passed \union {r})
        /\ Cardinality(Passed \union {r}) = Cardinality(Passed) + 1
    BY <2>3, <2>4, FS_AddElement
  <2>6. Cardinality(Passed \union {r}) <= Cardinality(later)
    BY <2>3, <2>4, FS_Subset
  <2>7. /\ Cardinality(Passed) \in Nat /\ Cardinality(later) \in Nat
    BY <2>3, FS_CardinalityType
  <2>8. attempts <= Cardinality(Passed)
    BY DEF PlaceInv, AttemptsPaid, Retry
  <2>9. QED BY <1>8, <2>1, <2>2, <2>5, <2>6, <2>7, <2>8
<1>11. QED BY <1>1, <1>3, <1>7, <1>8, <1>9, <1>10

-----------------------------------------------------------------------------
LEMMA PlaceInitially == PlaceInit => PlaceInv
<1>. SUFFICES ASSUME PlaceInit PROVE PlaceInv
  OBVIOUS
<1>1. ArgumentsOK
  BY PlaceAssumption DEF PlaceInit, ArgumentsOK
<1>2. SearchOK /\ NothingAbove /\ HighestFree /\ RefusedOnlyIfFull /\ EnoughAttempts
  BY PlaceAssumption DEF PlaceInit, SearchOK, Statuses, NothingAbove, Free, HighestFree,
     RefusedOnlyIfFull, EnoughAttempts
<1>3. AttemptsPaid
  <2>1. Passed \in SUBSET reserved
    BY DEF Passed
  <2>2. Cardinality(Passed) \in Nat
    BY <1>1, <2>1, FS_Subset, FS_CardinalityType DEF ArgumentsOK
  <2>3. QED BY <2>2 DEF PlaceInit, AttemptsPaid
<1>4. QED BY <1>1, <1>2, <1>3 DEF PlaceInv

(* The attempts are never used up.                                          *)
LEMMA NeverExhausted ==
  ASSUME PlaceInv, place_status = "searching"
  PROVE  ~Exhausted
<1>1. Passed \in SUBSET reserved
  BY DEF Passed
<1>2. /\ Cardinality(Passed) \in Nat /\ Cardinality(reserved) \in Nat
      /\ Cardinality(Passed) <= Cardinality(reserved)
  BY <1>1, FS_Subset, FS_CardinalityType DEF PlaceInv, ArgumentsOK
<1>3. QED
  BY <1>2 DEF PlaceInv, AttemptsPaid, Exhausted, SearchOK

LEMMA PlaceInductive == PlaceInv /\ [PlaceNext]_place_vars => PlaceInv'
<1>. SUFFICES ASSUME PlaceInv, [PlaceNext]_place_vars PROVE PlaceInv'
  OBVIOUS
<1>0. UNCHANGED arguments
  BY DEF PlaceNext, TooLarge, Place, Retry, GiveUp, place_vars
<1>1. ArgumentsOK'
  BY <1>0 DEF PlaceInv, ArgumentsOK, arguments
<1>2. CASE TooLarge
  <2>1. UNCHANGED <<upper_limit, attempts, start>> /\ place_status' = "OUT_OF_RANGE"
    BY <1>2 DEF TooLarge
  <2>2. \A place \in Nat : ~Free(place)
    BY <1>2, PlaceAssumption DEF TooLarge, Fits, PlaceInv, NothingAbove, ArgumentsOK, SearchOK
  <2>3. RefusedOnlyIfFull'
    BY <1>0, <2>2, PlaceAssumption DEF RefusedOnlyIfFull, Free, arguments
  <2>4. SearchOK' /\ HighestFree' /\ AttemptsPaid' /\ EnoughAttempts'
    BY <2>1 DEF PlaceInv, SearchOK, Statuses, HighestFree, AttemptsPaid, EnoughAttempts
  <2>5. NothingAbove'
    BY <1>0, <2>1 DEF PlaceInv, NothingAbove, Free, arguments
  <2>6. QED BY <1>1, <2>3, <2>4, <2>5 DEF PlaceInv
<1>3. CASE Place
  <2>1. UNCHANGED <<upper_limit, attempts>> /\ place_status' \in {"OK", "IO"} /\ start' = Candidate
    BY <1>3 DEF Place
  <2>2. HighestFree'
    BY <1>3, PlaceIsBest
  <2>3. Candidate \in Nat
    BY <1>3, CandidateBest DEF PlaceInv, Place
  <2>4. SearchOK' /\ AttemptsPaid' /\ EnoughAttempts' /\ RefusedOnlyIfFull'
    BY <2>1, <2>3 DEF PlaceInv, SearchOK, Statuses, AttemptsPaid, EnoughAttempts,
       RefusedOnlyIfFull
  <2>5. NothingAbove'
    BY <1>0, <2>1 DEF PlaceInv, NothingAbove, Free, arguments
  <2>6. QED BY <1>1, <2>2, <2>4, <2>5 DEF PlaceInv
<1>4. CASE Retry
  <2>1. /\ UNCHANGED <<place_status, start>> /\ place_status = "searching" /\ attempts' = attempts + 1
        /\ upper_limit' \in Nat /\ upper_limit' < upper_limit
        /\ NothingAbove' /\ attempts' <= Cardinality(Passed')
    BY <1>4, RetrySkipsNothing DEF Retry
  <2>2. SearchOK'
    BY <2>1, PlaceAssumption DEF PlaceInv, SearchOK
  <2>3. HighestFree' /\ RefusedOnlyIfFull' /\ EnoughAttempts' /\ AttemptsPaid'
    BY <2>1 DEF HighestFree, RefusedOnlyIfFull, EnoughAttempts, AttemptsPaid
  <2>4. QED BY <1>1, <2>1, <2>2, <2>3 DEF PlaceInv
<1>5. CASE GiveUp
  BY <1>5, NeverExhausted DEF GiveUp
<1>6. CASE UNCHANGED place_vars
  BY <1>1, <1>6 DEF place_vars, arguments, PlaceInv, ArgumentsOK, SearchOK, NothingAbove, Free,
     AttemptsPaid, Passed, HighestFree, RefusedOnlyIfFull, EnoughAttempts
<1>7. QED
  BY <1>2, <1>3, <1>4, <1>5, <1>6 DEF PlaceNext

(* The image goes to the highest place that no kernel segment and no DTB    *)
(* touches (image_loader.h: "as high in RAM as possible").                  *)
THEOREM PlacedAtTheTop == PlaceSpec => []HighestFree
<1>1. PlaceInv => HighestFree
  BY DEF PlaceInv
<1>2. QED BY <1>1, PlaceInitially, PlaceInductive, PTL DEF PlaceSpec

(* The loader refuses an image only if there is no place for it at all.     *)
THEOREM RefusalIsJust == PlaceSpec => []RefusedOnlyIfFull
<1>1. PlaceInv => RefusedOnlyIfFull
  BY DEF PlaceInv
<1>2. QED BY <1>1, PlaceInitially, PlaceInductive, PTL DEF PlaceSpec

(* One attempt more than there are ranges is enough.                        *)
THEOREM AttemptsSuffice == PlaceSpec => []EnoughAttempts
<1>1. PlaceInv => EnoughAttempts
  BY DEF PlaceInv
<1>2. QED BY <1>1, PlaceInitially, PlaceInductive, PTL DEF PlaceSpec

(* The search is exact in every state, for any set of ranges, any image and *)
(* any alignment the callers may bring.                                     *)
THEOREM PlacementExact == PlaceSpec => []PlaceSafe
<1> DEFINE Asked == size \in Sizes /\ alignment \in Alignments
<1>1. PlaceInit => Asked
  BY DEF PlaceInit
<1>2. Asked /\ [PlaceNext]_place_vars => Asked'
  BY DEF PlaceNext, TooLarge, Place, Retry, GiveUp, place_vars, arguments
<1>3. PlaceInv /\ Asked => PlaceSafe
  BY DEF PlaceInv, ArgumentsOK, SearchOK, PlaceSafe, PlaceTypeOK
<1>4. QED
  BY <1>1, <1>2, <1>3, PlaceInitially, PlaceInductive, PTL DEF PlaceSpec

-----------------------------------------------------------------------------
(* The reset.                                                               *)

Stages == {"start", "kernel", "dtb", "initramfs", "search", "patch", "linux", "ready",
           "running", "failed"}

BoardOK ==
  /\ BootTypeOK /\ stage \in Stages
  /\ segments \subseteq MemoryRange /\ IsFiniteSet(segments)
  /\ initrd \in MemoryRange

(* What has been loaded, by the stage that comes next.                      *)
StageOK ==
  /\ stage = "kernel" => segments = {}
  /\ stage \in {"kernel", "dtb"} \/ "dtb" \notin options => dtb_size = 0
  /\ stage \in {"kernel", "dtb", "initramfs", "search", "patch"}
       \/ "initramfs" \notin options => initrd = Nowhere
  /\ stage = "dtb" => "dtb" \in options
  /\ stage \in {"initramfs", "search", "patch"} => "initramfs" \in options
  /\ stage \in {"dtb", "initramfs", "search", "patch", "linux", "ready"} => segments # {}
  /\ stage \in {"initramfs", "search", "patch", "linux", "ready"} /\ "dtb" \in options =>
       dtb_size >= FDT_HEADER_SIZE

(* A kernel leaves the tree's range alone if there is to be a tree.         *)
KernelClear ==
  "dtb" \in options =>
    \A s \in segments : ~ranges_overlap_at(DtbRange.start, DtbRange.end, s)

(* The search is for a place clear of both, and so is what it finds.        *)
SearchAsked ==
  /\ stage \in {"search", "patch"} =>
       reserved = segments \union {DtbRange} /\ alignment = INITRAMFS_ALIGNMENT
  /\ stage = "patch" => Free(start)

(* At every stage RAM holds what has been loaded, and nothing else; the     *)
(* initramfs is there before the tree knows of it.                          *)
Contents ==
  /\ stage \in {"kernel", "dtb", "initramfs", "search", "linux", "ready"} =>
       \A x \in Cells : guest_ram[x] = Expected(x)
  /\ stage = "patch" =>
       \A x \in Cells : guest_ram[x] =
         IF x - start \in 0 .. size - 1 THEN <<"initramfs", x - start>> ELSE Expected(x)

InitramfsWhole ==
  stage \in {"linux", "ready"} /\ "initramfs" \in options =>
    /\ initrd.end - initrd.start = size /\ initrd.start % INITRAMFS_ALIGNMENT = 0
    /\ \A k \in 0 .. size - 1 : guest_ram[initrd.start + k] = <<"initramfs", k>>

ReadyTold ==
  stage = "ready" => a1 = (IF "dtb" \in options THEN DTB_PHYSICAL_ADDRESS ELSE 0)

BootInv ==
  /\ PlaceInv /\ BoardOK /\ StageOK /\ KernelClear
  /\ SearchAsked /\ Contents /\ InitramfsWhole /\ ReadyTold

-----------------------------------------------------------------------------
LEMMA BootInitially == BootInit => BootInv
<1>. SUFFICES ASSUME BootInit PROVE BootInv
  OBVIOUS
<1>1. PlaceInv
  BY PlaceInitially DEF BootInit
<1>2. BoardOK
  <2>1. IsFiniteSet({})
    BY FS_EmptySet
  <2>2. QED
    BY <2>1, PlaceAssumption, BootAssumption DEF BootInit, BoardInit, BoardOK, BootTypeOK, Stages, Nowhere,
       MemoryRange, Cells
<1>3. StageOK /\ KernelClear /\ SearchAsked /\ Contents /\ InitramfsWhole /\ ReadyTold
  BY DEF BootInit, BoardInit, StageOK, KernelClear, SearchAsked, Contents, InitramfsWhole,
     ReadyTold
<1>4. QED
  BY <1>1, <1>2, <1>3 DEF BootInv

(* RAM is cleared before anything is loaded.                                *)
LEMMA ResetKeeps == BootInv /\ board_reset => BootInv'
<1>. SUFFICES ASSUME BootInv, board_reset PROVE BootInv'
  OBVIOUS
<1>1. PlaceInv'
  <2>1. UNCHANGED place_vars
    BY DEF board_reset
  <2>2. QED BY <2>1, PlaceInductive DEF BootInv
<1>2. BoardOK'
  <2>1. IsFiniteSet({})
    BY FS_EmptySet
  <2>2. QED
    BY <2>1, PlaceAssumption, BootAssumption DEF board_reset, BootInv, BoardOK, BootTypeOK,
       Stages, Nowhere, MemoryRange, clear_ram
<1>3. StageOK' /\ KernelClear' /\ SearchAsked' /\ InitramfsWhole' /\ ReadyTold'
  BY DEF board_reset, StageOK, KernelClear, SearchAsked, InitramfsWhole, ReadyTold, BootInv
<1>4. Contents'
  BY BootAssumption DEF board_reset, Contents, Expected, clear_ram, Nowhere, Clear
<1>5. QED
  BY <1>1, <1>2, <1>3, <1>4 DEF BootInv

(* An abort ends it all.                                                    *)
LEMMA AbortKeeps ==
  ASSUME BootInv, Abort, UNCHANGED <<options, boots>>
  PROVE  BootInv'
<1>1. PlaceInv'
  <2>1. UNCHANGED place_vars
    BY DEF Abort
  <2>2. QED BY <2>1, PlaceInductive DEF BootInv
<1>2. BoardOK'
  BY DEF Abort, BootInv, BoardOK, BootTypeOK, Stages
<1>3. StageOK' /\ KernelClear'
  BY DEF Abort, BootInv, StageOK, KernelClear, ranges_overlap_at
<1>4. SearchAsked' /\ InitramfsWhole' /\ ReadyTold' /\ Contents'
  BY DEF Abort, SearchAsked, InitramfsWhole, ReadyTold, Contents
<1>5. QED
  BY <1>1, <1>2, <1>3, <1>4 DEF BootInv

LEMMA KernelKeeps == BootInv /\ load_kernel => BootInv'
<1>. SUFFICES ASSUME BootInv, load_kernel PROVE BootInv'
  OBVIOUS
<1>1. CASE Abort
  BY <1>1, AbortKeeps DEF load_kernel
<1>2. CASE ~Abort
  <2>1. PICK kernel \in Kernels :
          /\ Accepted(kernel)
          /\ guest_ram' = [x \in Cells |->
                             IF \E s \in kernel : x \in s.start .. s.end - 1
                             THEN <<"kernel", x>> ELSE guest_ram[x]]
          /\ segments' = kernel /\ stage' = After("kernel")
          /\ UNCHANGED <<dtb_size, initrd, a1, place_vars>>
    BY <1>2 DEF load_kernel
  <2>2. stage = "kernel" /\ UNCHANGED <<options, boots>>
    BY DEF load_kernel
  <2>3. stage' = IF "dtb" \in options THEN "dtb" ELSE "linux"
    BY <2>1 DEF After
  <2>4. dtb_size = 0 /\ initrd = Nowhere /\ segments = {}
    BY <2>2 DEF BootInv, StageOK
  <2>5. PlaceInv'
    BY <2>1, PlaceInductive DEF BootInv
  <2>6. BoardOK'
    BY <2>1, <2>2, <2>3, BootAssumption DEF BootInv, BoardOK, BootTypeOK, Stages
  <2>7. StageOK' /\ KernelClear'
    <3>1. kernel # {}
      BY <2>1, BootAssumption
    <3>2. "dtb" \notin options => "initramfs" \notin options
      BY DEF BootInv, BoardOK, BootTypeOK
    <3>3. StageOK'
      BY <2>1, <2>2, <2>3, <2>4, <3>1, <3>2 DEF StageOK
    <3>4. KernelClear'
      BY <2>1, <2>2 DEF KernelClear, Accepted
    <3>5. QED BY <3>3, <3>4
  <2>8. SearchAsked' /\ ReadyTold'
    BY <2>3 DEF SearchAsked, ReadyTold
  <2>9. InitramfsWhole'
    BY <2>2, <2>3 DEF InitramfsWhole, BootInv, BoardOK, BootTypeOK
  <2>10. Contents'
    <3>1. ASSUME NEW x \in Cells PROVE guest_ram'[x] = Expected(x)'
      <4>0. x \in Nat /\ x - DTB_PHYSICAL_ADDRESS \notin 0 .. -1 /\ x - 0 \notin 0 .. -1
        BY PlaceAssumption, BootAssumption DEF Cells
      <4>1. guest_ram[x] = Clear
        <5>1. guest_ram[x] = Expected(x)
          BY <2>2 DEF BootInv, Contents
        <5>2. QED BY <2>4, <4>0, <5>1 DEF Expected, Nowhere
      <4>2. QED
        BY <2>1, <2>4, <4>1, BootAssumption DEF Expected, Nowhere
    <3>2. QED BY <2>3, <3>1 DEF Contents
  <2>11. QED
    BY <2>5, <2>6, <2>7, <2>8, <2>9, <2>10 DEF BootInv
<1>3. QED BY <1>1, <1>2

(* The tree falls into the range that was kept for it.                      *)
LEMMA DtbKeeps == BootInv /\ load_dtb_image => BootInv'
<1>. SUFFICES ASSUME BootInv, load_dtb_image PROVE BootInv'
  OBVIOUS
<1>1. CASE Abort
  BY <1>1, AbortKeeps DEF load_dtb_image
<1>2. CASE ~Abort
  <2>1. PICK blob \in Blobs :
          /\ DtbStatus(blob) = "OK"
          /\ guest_ram' = With("dtb", DTB_PHYSICAL_ADDRESS, blob.total_size)
          /\ dtb_size' = blob.total_size /\ stage' = After("dtb")
          /\ UNCHANGED <<segments, initrd, a1, place_vars>>
    BY <1>2 DEF load_dtb_image
  <2>2. stage = "dtb" /\ UNCHANGED <<options, boots>>
    BY DEF load_dtb_image
  <2>3. stage' = IF "initramfs" \in options THEN "initramfs" ELSE "linux"
    BY <2>1 DEF After
  <2>4. dtb_size = 0 /\ initrd = Nowhere /\ "dtb" \in options /\ segments # {}
    BY <2>2 DEF BootInv, StageOK
  <2>5. dtb_size' \in FDT_HEADER_SIZE .. DTB_RESERVED_SIZE
    BY <2>1, BootAssumption DEF DtbStatus
  <2>6. PlaceInv'
    BY <2>1, PlaceInductive DEF BootInv
  <2>7. BoardOK'
    BY <2>1, <2>2, <2>3, <2>5, BootAssumption DEF BootInv, BoardOK, BootTypeOK, Stages, With
  <2>8. StageOK' /\ KernelClear'
    <3>1. StageOK'
      BY <2>1, <2>2, <2>3, <2>4, <2>5, BootAssumption DEF StageOK
    <3>2. KernelClear'
      BY <2>1, <2>2 DEF BootInv, KernelClear
    <3>3. QED BY <3>1, <3>2
  <2>9. SearchAsked' /\ ReadyTold'
    BY <2>3 DEF SearchAsked, ReadyTold
  <2>10. InitramfsWhole'
    BY <2>2, <2>3 DEF InitramfsWhole
  <2>11. Contents'
    <3>1. ASSUME NEW x \in Cells PROVE guest_ram'[x] = Expected(x)'
      <4>0. x \in Nat /\ x - DTB_PHYSICAL_ADDRESS \notin 0 .. -1 /\ x - 0 \notin 0 .. -1
        BY PlaceAssumption, BootAssumption DEF Cells
      <4>1. guest_ram[x] = IF \E s \in segments : x \in s.start .. s.end - 1
                           THEN <<"kernel", x>> ELSE Clear
        <5>1. guest_ram[x] = Expected(x)
          BY <2>2 DEF BootInv, Contents
        <5>2. QED BY <2>4, <4>0, <5>1 DEF Expected, Nowhere
      <4>2. (\E s \in segments : x \in s.start .. s.end - 1) =>
              x - DTB_PHYSICAL_ADDRESS \notin 0 .. dtb_size' - 1
        <5>1. SUFFICES ASSUME NEW s \in segments, x \in s.start .. s.end - 1,
                              x - DTB_PHYSICAL_ADDRESS \in 0 .. dtb_size' - 1
                       PROVE FALSE
          OBVIOUS
        <5>2. s.start \in Nat /\ s.end \in Nat /\ x \in Nat
          BY PlaceAssumption DEF BootInv, BoardOK, MemoryRange, Cells
        <5>3. s.start <= x /\ x < s.end /\ DTB_PHYSICAL_ADDRESS <= x
              /\ x < DTB_PHYSICAL_ADDRESS + DTB_RESERVED_SIZE
          BY <2>5, <5>1, <5>2, BootAssumption
        <5>4. ~ranges_overlap_at(DtbRange.start, DtbRange.end, s)
          BY <2>4 DEF BootInv, KernelClear
        <5>5. QED
          BY <5>2, <5>3, <5>4, BootAssumption DEF ranges_overlap_at, DtbRange
      <4>3. QED
        BY <2>1, <2>4, <4>1, <4>2, BootAssumption DEF Expected, With, Nowhere
    <3>2. QED BY <2>3, <3>1 DEF Contents
  <2>12. QED
    BY <2>6, <2>7, <2>8, <2>9, <2>10, <2>11 DEF BootInv
<1>3. QED BY <1>1, <1>2

(* The search is for a place clear of the kernel and the tree.              *)
LEMMA AskKeeps == BootInv /\ load_initramfs_image => BootInv'
<1>. SUFFICES ASSUME BootInv, load_initramfs_image PROVE BootInv'
  OBVIOUS
<1>1. UNCHANGED <<options, guest_ram, segments, dtb_size, initrd, a1, boots>>
  BY DEF load_initramfs_image
<1>2. stage = "initramfs" /\ stage' = "search"
  BY DEF load_initramfs_image
<1>3. /\ size' \in Nat /\ alignment' = INITRAMFS_ALIGNMENT /\ INITRAMFS_ALIGNMENT \in Nat \ {0}
      /\ reserved' = segments \union {DtbRange}
      /\ upper_limit' = MEMORY_END /\ attempts' = 0
      /\ place_status' = "searching" /\ start' = 0
  BY PlaceAssumption, BootAssumption DEF load_initramfs_image, initramfs_reservations
<1>4. ArgumentsOK'
  <2>1. DtbRange \in MemoryRange
    BY BootAssumption DEF DtbRange, MemoryRange
  <2>2. segments \subseteq MemoryRange /\ IsFiniteSet(segments)
    BY DEF BootInv, BoardOK
  <2>3. IsFiniteSet(segments \union {DtbRange})
    BY <2>2, FS_AddElement
  <2>4. QED BY <1>3, <2>1, <2>2, <2>3 DEF ArgumentsOK
<1>5. PlaceInv'
  <2>1. SearchOK' /\ HighestFree' /\ RefusedOnlyIfFull' /\ EnoughAttempts'
    BY <1>3, PlaceAssumption DEF SearchOK, Statuses, HighestFree, RefusedOnlyIfFull, EnoughAttempts
  <2>2. NothingAbove'
    BY <1>3 DEF NothingAbove, Free
  <2>3. AttemptsPaid'
    <3>1. Passed' \in SUBSET (reserved')
      BY DEF Passed
    <3>2. Cardinality(Passed') \in Nat
      BY <1>4, <3>1, FS_Subset, FS_CardinalityType DEF ArgumentsOK
    <3>3. QED BY <1>3, <3>2 DEF AttemptsPaid
  <2>4. QED BY <1>4, <2>1, <2>2, <2>3 DEF PlaceInv
<1>6. BoardOK'
  BY <1>1, <1>2 DEF BootInv, BoardOK, BootTypeOK, Stages
<1>7. StageOK' /\ KernelClear'
  BY <1>1, <1>2 DEF BootInv, StageOK, KernelClear
<1>8. SearchAsked'
  BY <1>1, <1>2, <1>3 DEF SearchAsked, DtbRange
<1>9. Contents' /\ InitramfsWhole' /\ ReadyTold'
  BY <1>1, <1>2 DEF BootInv, Contents, Expected, InitramfsWhole, ReadyTold
<1>10. QED
  BY <1>5, <1>6, <1>7, <1>8, <1>9 DEF BootInv

LEMMA SearchKeeps == BootInv /\ search_initramfs => BootInv'
<1>. SUFFICES ASSUME BootInv, search_initramfs PROVE BootInv'
  OBVIOUS
<1>1. PlaceInv'
  BY PlaceInductive DEF BootInv, search_initramfs
<1>2. /\ UNCHANGED board_vars /\ stage = "search"
      /\ UNCHANGED <<size, alignment, reserved>>
  BY DEF search_initramfs, PlaceNext, TooLarge, Place, Retry, GiveUp, arguments
<1>3. BoardOK' /\ StageOK' /\ KernelClear' /\ ReadyTold' /\ InitramfsWhole'
  BY <1>2 DEF board_vars, BootInv, BoardOK, BootTypeOK, StageOK, KernelClear, ReadyTold,
     InitramfsWhole
<1>4. SearchAsked' /\ Contents'
  BY <1>2 DEF board_vars, BootInv, SearchAsked, Contents, Expected
<1>5. QED
  BY <1>1, <1>3, <1>4 DEF BootInv

(* The initramfs is copied to the place found.                              *)
LEMMA CopyKeeps == BootInv /\ copy_initramfs => BootInv'
<1>. SUFFICES ASSUME BootInv, copy_initramfs PROVE BootInv'
  OBVIOUS
<1>1. CASE place_status # "OK"
  BY <1>1, AbortKeeps DEF copy_initramfs
<1>2. CASE place_status = "OK"
  <2>1. /\ guest_ram' = With("initramfs", start, size)
        /\ stage = "search" /\ stage' = "patch"
        /\ UNCHANGED <<options, boots, segments, dtb_size, initrd, a1, place_vars>>
    BY <1>2 DEF copy_initramfs
  <2>2. PlaceInv'
    BY <2>1, PlaceInductive DEF BootInv
  <2>3. Free(start)
    BY <1>2 DEF BootInv, PlaceInv, HighestFree
  <2>4. BoardOK' /\ StageOK' /\ KernelClear'
    BY <2>1 DEF BootInv, BoardOK, BootTypeOK, Stages, With, StageOK, KernelClear
  <2>5. SearchAsked'
    BY <2>1, <2>3 DEF BootInv, SearchAsked, Free, place_vars, arguments
  <2>6. InitramfsWhole' /\ ReadyTold'
    BY <2>1 DEF InitramfsWhole, ReadyTold
  <2>7. Contents'
    BY <2>1 DEF BootInv, Contents, Expected, With, place_vars, arguments
  <2>8. QED
    BY <2>2, <2>4, <2>5, <2>6, <2>7 DEF BootInv
<1>3. QED BY <1>1, <1>2

(* The tree tells where the initramfs is, which lies clear of all else.     *)
LEMMA PatchKeeps == BootInv /\ set_initramfs => BootInv'
<1>. SUFFICES ASSUME BootInv, set_initramfs PROVE BootInv'
  OBVIOUS
<1>1. CASE Abort
  BY <1>1, AbortKeeps DEF set_initramfs
<1>2. CASE ~Abort
  <2>1. /\ initrd' = [start |-> start, end |-> start + size]
        /\ stage = "patch" /\ stage' = "linux"
        /\ UNCHANGED <<options, boots, guest_ram, segments, dtb_size, a1, place_vars>>
    BY <1>2 DEF set_initramfs
  <2>2. PlaceInv'
    BY <2>1, PlaceInductive DEF BootInv
  <2>3. size \in Nat /\ start \in Nat
    BY DEF BootInv, PlaceInv, ArgumentsOK, SearchOK
  <2>4. /\ start % INITRAMFS_ALIGNMENT = 0 /\ start + size <= MEMORY_END
        /\ \A r \in segments \union {DtbRange} :
             r.start >= r.end \/ start + size <= r.start \/ r.end <= start
    BY <2>1 DEF BootInv, SearchAsked, Free
  <2>5. BoardOK'
    BY <2>1, <2>3, <2>4 DEF BootInv, BoardOK, BootTypeOK, Stages, MemoryRange
  <2>6. StageOK' /\ KernelClear'
    BY <2>1 DEF BootInv, StageOK, KernelClear
  <2>7. SearchAsked' /\ ReadyTold'
    BY <2>1 DEF SearchAsked, ReadyTold
  <2>8. ASSUME NEW x \in Cells
        PROVE  guest_ram[x] = IF x - start \in 0 .. size - 1 THEN <<"initramfs", x - start>>
                              ELSE Expected(x)
    BY <2>1 DEF BootInv, Contents
  <2>9. Contents'
    <3>1. ASSUME NEW x \in Cells PROVE guest_ram'[x] = Expected(x)'
      <4>1. x \in Nat /\ x - 0 \notin 0 .. -1
        BY PlaceAssumption DEF Cells
      <4>2. initrd = Nowhere
        BY <2>1 DEF BootInv, StageOK
      <4>3. CASE x - start \in 0 .. size - 1
        <5>1. \A s \in segments : x \notin s.start .. s.end - 1
          <6>1. SUFFICES ASSUME NEW s \in segments, x \in s.start .. s.end - 1 PROVE FALSE
            OBVIOUS
          <6>2. s.start \in Nat /\ s.end \in Nat
            BY DEF BootInv, BoardOK, MemoryRange
          <6>3. QED BY <2>3, <2>4, <4>1, <4>3, <6>1, <6>2
        <5>2. x - DTB_PHYSICAL_ADDRESS \notin 0 .. dtb_size - 1
          <6>1. dtb_size \in 0 .. DTB_RESERVED_SIZE
            BY DEF BootInv, BoardOK, BootTypeOK
          <6>2. /\ DtbRange.start = DTB_PHYSICAL_ADDRESS
                /\ DtbRange.end = DTB_PHYSICAL_ADDRESS + DTB_RESERVED_SIZE
            BY DEF DtbRange
          <6>3. \/ DtbRange.start >= DtbRange.end \/ start + size <= DtbRange.start
                \/ DtbRange.end <= start
            BY <2>4
          <6>4. QED BY <2>3, <4>1, <4>3, <6>1, <6>2, <6>3, BootAssumption
        <5>3. guest_ram'[x] = <<"initramfs", x - start>>
          BY <2>1, <2>8, <4>3
        <5>4. /\ segments' = segments /\ dtb_size' = dtb_size /\ initrd'.start = start
              /\ initrd'.end - initrd'.start = size
          BY <2>1, <2>3
        <5>5. QED BY <4>3, <5>1, <5>2, <5>3, <5>4 DEF Expected
      <4>4. CASE x - start \notin 0 .. size - 1
        <5>1. guest_ram[x] = Expected(x)
          BY <2>8, <4>4
        <5>2. QED BY <2>1, <2>3, <4>1, <4>2, <4>4, <5>1 DEF Expected, Nowhere
      <4>5. QED BY <4>3, <4>4
    <3>2. QED BY <2>1, <3>1 DEF Contents
  <2>10. InitramfsWhole'
    <3>1. ASSUME NEW k \in 0 .. size - 1 PROVE guest_ram[start + k] = <<"initramfs", k>>
      <4>1. start + k \in Cells /\ (start + k) - start = k
        BY <2>3, <2>4, PlaceAssumption DEF Cells
      <4>2. QED BY <2>8, <4>1
    <3>2. size' = size
      BY <2>1 DEF place_vars, arguments
    <3>3. QED BY <2>1, <2>3, <2>4, <3>1, <3>2 DEF InitramfsWhole
  <2>11. QED
    BY <2>2, <2>5, <2>6, <2>7, <2>9, <2>10 DEF BootInv
<1>3. QED BY <1>1, <1>2

LEMMA HandOverKeeps == BootInv /\ hand_over => BootInv'
<1>. SUFFICES ASSUME BootInv, hand_over PROVE BootInv'
  OBVIOUS
<1>1. /\ UNCHANGED <<options, guest_ram, segments, dtb_size, initrd, boots, place_vars>>
      /\ stage = "linux" /\ stage' = "ready"
      /\ a1' = (IF "dtb" \in options THEN DTB_PHYSICAL_ADDRESS ELSE 0)
  BY DEF hand_over
<1>2. PlaceInv'
  BY <1>1, PlaceInductive DEF BootInv
<1>3. BoardOK' /\ StageOK' /\ KernelClear' /\ SearchAsked' /\ ReadyTold'
  BY <1>1 DEF BootInv, BoardOK, BootTypeOK, Stages, StageOK, KernelClear, SearchAsked, ReadyTold
<1>4. Contents' /\ InitramfsWhole'
  BY <1>1 DEF BootInv, Contents, Expected, InitramfsWhole, place_vars, arguments
<1>5. QED
  BY <1>2, <1>3, <1>4 DEF BootInv

LEMMA GuestKeeps == BootInv /\ guest_runs => BootInv'
<1>. SUFFICES ASSUME BootInv, guest_runs PROVE BootInv'
  OBVIOUS
<1>1. /\ UNCHANGED <<options, segments, dtb_size, initrd, boots, place_vars>>
      /\ stage = "ready" /\ stage' = "running"
      /\ guest_ram' = [x \in Cells |-> <<"guest", 0>>]
  BY DEF guest_runs
<1>2. PlaceInv'
  BY <1>1, PlaceInductive DEF BootInv
<1>3. BoardOK' /\ StageOK' /\ KernelClear'
  BY <1>1 DEF BootInv, BoardOK, BootTypeOK, Stages, StageOK, KernelClear
<1>4. SearchAsked' /\ ReadyTold' /\ Contents' /\ InitramfsWhole'
  BY <1>1 DEF SearchAsked, ReadyTold, Contents, InitramfsWhole
<1>5. QED
  BY <1>2, <1>3, <1>4 DEF BootInv

LEMMA BootInductive == BootInv /\ [BootNext]_boot_vars => BootInv'
<1>. SUFFICES ASSUME BootInv, [BootNext]_boot_vars PROVE BootInv'
  OBVIOUS
<1>1. CASE UNCHANGED boot_vars
  <2>1. UNCHANGED board_vars /\ UNCHANGED place_vars
    BY <1>1 DEF boot_vars
  <2>2. PlaceInv'
    BY <2>1, PlaceInductive DEF BootInv
  <2>3. BoardOK' /\ StageOK' /\ KernelClear' /\ ReadyTold'
    BY <2>1 DEF board_vars, BootInv, BoardOK, BootTypeOK, StageOK, KernelClear, ReadyTold
  <2>4. SearchAsked' /\ Contents' /\ InitramfsWhole'
    BY <2>1 DEF board_vars, place_vars, arguments, BootInv, SearchAsked, Free, Contents,
       Expected, InitramfsWhole
  <2>5. QED BY <2>2, <2>3, <2>4 DEF BootInv
<1>2. QED
  BY <1>1, ResetKeeps, KernelKeeps, DtbKeeps, AskKeeps, SearchKeeps, CopyKeeps, PatchKeeps,
     HandOverKeeps, GuestKeeps DEF BootNext

(* When the guest starts, the kernel, the tree and the initramfs are whole  *)
(* in RAM, at the places the guest is told, and every other byte is zero.   *)
THEOREM BootIsSafe == BootSpec => []BootSafe
<1>1. BootInv => BootedWhole
  BY DEF BootInv, Contents, StageOK, ReadyTold, InitramfsWhole, BootedWhole
<1>2. BootInv => BootSafe
  BY <1>1 DEF BootInv, BoardOK, BootSafe
<1>3. QED
  BY <1>2, BootInitially, BootInductive, PTL DEF BootSpec
=============================================================================

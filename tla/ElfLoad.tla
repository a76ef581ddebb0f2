------------------------------ MODULE ElfLoad ------------------------------
(***************************************************************************)
(* Loading the kernel (image_loader.c, mipsel_elf_load()): a pass that     *)
(* validates every program header and collects the segments, a pass that   *)
(* copies them chunk by chunk and clears what the file does not hold.      *)
(*                                                                         *)
(* The file's bytes are their offsets, a byte of RAM is Old, Zero or such  *)
(* an offset.  Reading the image and writing RAM may fail.                 *)
(***************************************************************************)
EXTENDS Integers, SequencesExt, FiniteSetsExt

CONSTANTS
  WORD,                   \* 2^32: sums are computed modulo WORD
  RAM_SIZE,               \* platform_memory_size()
  MAX_LOAD_SEGMENTS, CHUNK_SIZE,
  IMAGE_SIZE,
  ProgramHeaders, Entries, ReservedSets,    \* what images and callers bring
  COUNT                   \* bound on the number of program headers

ASSUME ElfAssumption ==
  /\ {RAM_SIZE, MAX_LOAD_SEGMENTS, CHUNK_SIZE, IMAGE_SIZE, COUNT} \subseteq Nat
  /\ WORD \in Nat /\ WORD % 8 = 0 /\ RAM_SIZE <= WORD \div 8 /\ CHUNK_SIZE > 0
  /\ ProgramHeaders \subseteq
       [load : BOOLEAN, file_offset : Nat, file_size : Nat, memory_size : Nat,
        vaddr : Nat, paddr : Nat, executable : BOOLEAN]
  /\ Entries \subseteq Nat
  /\ \A ranges \in ReservedSets : ranges \subseteq [start : Nat, end : Nat]

VARIABLES
  phase,                  \* "header", "validate", "load", "done"
  elf_status,
  count,                  \* e_phnum
  headers,                \* the program headers read so far
  entry, reserved_ranges,
  i, copied,              \* the loops
  info,                   \* mipsel_elf_info_t
  ram

elf_vars == <<phase, elf_status, count, headers, entry, reserved_ranges, i, copied, info, ram>>

RamAddresses == 0 .. RAM_SIZE - 1
Old == -1
Zero == -2

-----------------------------------------------------------------------------
(* Arithmetic on addresses.                                                *)

direct_mapped_kernel_address(a) == WORD \div 2 <= a /\ a < 3 * (WORD \div 4)

physical_address(a) ==
  IF direct_mapped_kernel_address(a) THEN a % (WORD \div 8) ELSE a

range_fits(start, length, limit) == start <= limit /\ length <= limit - start

ranges_overlap(a, b) == a.start < b.end /\ b.start < a.end

add_fits(a, b) == a < WORD - b

-----------------------------------------------------------------------------
(* The first pass.                                                         *)

\* The physical address is the virtual one if it is zero.
Destination(h) == physical_address(IF h.paddr = 0 THEN h.vaddr ELSE h.paddr)

Segment(h) ==
  [start |-> Destination(h), end |-> Destination(h) + h.memory_size, executable |-> h.executable]

OutOfRange(h) ==
  \/ h.file_size > h.memory_size
  \/ ~range_fits(h.file_offset, h.file_size, IMAGE_SIZE)
  \/ ~range_fits(Destination(h), h.memory_size, RAM_SIZE)

OverlapsSegment(s) ==
  \E k \in 1 .. Len(info.load_segments) : ranges_overlap(s, info.load_segments[k])

overlaps_reserved(s) == \E r \in reserved_ranges : r.start < r.end /\ ranges_overlap(s, r)

TooMany == Len(info.load_segments) >= MAX_LOAD_SEGMENTS

\* The verdict on one program header.
Verdict(h) ==
  IF ~h.load THEN "skip"
  ELSE IF TooMany THEN "TOO_MANY_SEGMENTS"
  ELSE IF OutOfRange(h) THEN "OUT_OF_RANGE"
  ELSE IF OverlapsSegment(Segment(h)) \/ overlaps_reserved(Segment(h)) THEN "OVERLAP"
  ELSE "segment"

End(result) ==
  /\ phase' = "done" /\ elf_status' = result

\* Identification, type and machine, and the size of the header table.
ReadHeader ==
  /\ phase = "header"
  /\ \/ /\ End("SOURCE_IO") \/ End("BAD_FORMAT") \/ End("UNSUPPORTED")
        /\ UNCHANGED count
     \/ /\ count' \in 0 .. COUNT
        /\ phase' = "validate" /\ UNCHANGED elf_status
  /\ UNCHANGED <<headers, entry, reserved_ranges, i, copied, info, ram>>

Collected(h) == IF h.load THEN [info EXCEPT !.load_segments = Append(@, Segment(h))] ELSE info

Accept(h) ==
  /\ headers' = Append(headers, h) /\ i' = i + 1 /\ info' = Collected(h)
  /\ UNCHANGED <<phase, elf_status, ram>>

Validate ==
  /\ phase = "validate" /\ i < count
  /\ \/ End("SOURCE_IO") /\ UNCHANGED <<headers, i, info, ram>>
     \/ \E h \in ProgramHeaders :
          IF Verdict(h) \in {"skip", "segment"} THEN Accept(h)
          ELSE End(Verdict(h)) /\ UNCHANGED <<headers, i, info, ram>>
  /\ UNCHANGED <<count, entry, reserved_ranges, copied>>

EntryInSegment ==
  \E k \in 1 .. Len(info.load_segments) :
    LET s == info.load_segments[k]
    IN  s.executable /\ physical_address(entry) \in s.start .. s.end - 1

EntryValid ==
  /\ direct_mapped_kernel_address(entry) /\ entry % 4 = 0 /\ add_fits(entry, 4)
  /\ physical_address(entry) < RAM_SIZE
  /\ EntryInSegment

FinishValidation ==
  /\ phase = "validate" /\ i = count
  /\ IF info.load_segments = <<>> THEN End("NO_LOAD_SEGMENTS")
     ELSE IF ~EntryValid THEN End("INVALID_ENTRY")
     ELSE phase' = "load" /\ UNCHANGED elf_status
  /\ i' = 0
  /\ UNCHANGED <<count, headers, entry, reserved_ranges, copied, info, ram>>

-----------------------------------------------------------------------------
(* The second pass.                                                        *)

Header == headers[i + 1]

SkipHeader ==
  /\ phase = "load" /\ i < count /\ ~Header.load
  /\ i' = i + 1
  /\ UNCHANGED <<phase, elf_status, count, headers, entry, reserved_ranges, copied, info, ram>>

Fail ==
  /\ phase = "load" /\ i < count
  /\ End("SOURCE_IO") \/ End("MEMORY_IO")
  /\ UNCHANGED <<count, headers, entry, reserved_ranges, i, copied, info, ram>>

\* Mutant: the last chunk is copied whole.
Amount_Whole == CHUNK_SIZE

Amount == Min({Header.file_size - copied, CHUNK_SIZE})

CopyChunk ==
  /\ phase = "load" /\ i < count /\ Header.load /\ copied < Header.file_size
  /\ ram' = [a \in RamAddresses |->
               LET k == a - Destination(Header)
               IN  IF k \in copied .. copied + Amount - 1 THEN Header.file_offset + k ELSE ram[a]]
  /\ copied' = copied + Amount
  /\ UNCHANGED <<phase, elf_status, count, headers, entry, reserved_ranges, i, info>>

Cleared(h) == Destination(h) + h.file_size .. Destination(h) + h.memory_size - 1

FillRest ==
  /\ phase = "load" /\ i < count /\ Header.load /\ copied >= Header.file_size
  /\ ram' = [a \in RamAddresses |-> IF a \in Cleared(Header) THEN Zero ELSE ram[a]]
  /\ i' = i + 1 /\ copied' = 0
  /\ UNCHANGED <<phase, elf_status, count, headers, entry, reserved_ranges, info>>

Finish ==
  /\ phase = "load" /\ i = count
  /\ End("OK")
  /\ info' = [info EXCEPT !.entry = entry, !.load_segment_count = Len(info.load_segments)]
  /\ UNCHANGED <<count, headers, entry, reserved_ranges, i, copied, ram>>

ElfInit ==
  /\ phase = "header" /\ elf_status = "none" /\ count = 0 /\ headers = <<>>
  /\ entry \in Entries /\ reserved_ranges \in ReservedSets
  /\ i = 0 /\ copied = 0
  /\ info = [entry |-> 0, load_segment_count |-> 0, load_segments |-> <<>>]
  /\ ram = [a \in RamAddresses |-> Old]

ElfNext ==
  \/ ReadHeader
  \/ Validate
  \/ FinishValidation
  \/ SkipHeader
  \/ Fail
  \/ CopyChunk
  \/ FillRest
  \/ Finish

ElfSpec == ElfInit /\ [][ElfNext]_elf_vars

-----------------------------------------------------------------------------
Loaded == {k \in DOMAIN headers : headers[k].load}

\* Where segment k wants a byte, whatever the loader made of it.
Covers(h, a) == a >= Destination(h) /\ a - Destination(h) < h.memory_size

Wanted(h, a) ==
  LET k == a - Destination(h) IN IF k < h.file_size THEN h.file_offset + k ELSE Zero

ElfTypeOK ==
  /\ phase \in {"header", "validate", "load", "done"}
  /\ count \in 0 .. COUNT /\ i \in 0 .. count /\ Len(headers) <= count
  /\ copied \in 0 .. IMAGE_SIZE
  /\ Len(info.load_segments) <= MAX_LOAD_SEGMENTS
  /\ DOMAIN ram = RamAddresses

(* "Validation is a complete first pass, so malformed images do not         *)
(* partially modify RAM" (image_loader.h): whichever header is the bad one. *)
MalformedLeavesRam ==
  (phase # "load" /\ elf_status \notin {"OK", "SOURCE_IO", "MEMORY_IO"}) =>
    ram = [a \in RamAddresses |-> Old]

(* After a successful load every byte of every segment is what the image    *)
(* says, and no other byte of RAM was touched.                              *)
LoadedExactly ==
  elf_status = "OK" =>
    \A a \in RamAddresses :
      /\ \A k \in Loaded : Covers(headers[k], a) => ram[a] = Wanted(headers[k], a)
      /\ (\A k \in Loaded : ~Covers(headers[k], a)) => ram[a] = Old

(* The DTB's range is never written, not even when the load fails halfway.  *)
ReservedIntact ==
  \A r \in reserved_ranges : \A a \in RamAddresses \intersect (r.start .. r.end - 1) :
    ram[a] = Old

(* The processor starts inside code the image brought.                      *)
StartsInCode ==
  elf_status = "OK" =>
    \E k \in Loaded : /\ headers[k].executable
                      /\ Covers(headers[k], physical_address(info.entry))

(* The segments reported to the caller, who places the initramfs around     *)
(* them, are those of the image, in RAM and disjoint; nothing is reported   *)
(* unless everything was loaded.                                            *)
ReportIsRight ==
  /\ elf_status # "OK" => info.load_segment_count = 0 /\ info.entry = 0
  /\ elf_status = "OK" =>
       /\ info.load_segment_count = Len(info.load_segments)
       /\ \A n \in 1 .. Len(info.load_segments) : info.load_segments[n].end <= RAM_SIZE
       /\ \A a \in RamAddresses : \A k \in Loaded : Covers(headers[k], a) =>
            \E n \in 1 .. Len(info.load_segments) :
              info.load_segments[n].start <= a /\ a < info.load_segments[n].end
       /\ \A m, n \in 1 .. Len(info.load_segments) : \A a \in RamAddresses :
            /\ info.load_segments[m].start <= a /\ a < info.load_segments[m].end
            /\ info.load_segments[n].start <= a /\ a < info.load_segments[n].end
            => m = n

(* In every state of a load: bad images leave RAM alone, good ones arrive   *)
(* exactly, the DTB survives both, and what is reported is what is there.   *)
ElfSafe ==
  /\ ElfTypeOK /\ MalformedLeavesRam /\ LoadedExactly
  /\ ReservedIntact /\ StartsInCode /\ ReportIsRight
=============================================================================

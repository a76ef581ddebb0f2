--------------------------- MODULE InitramfsPlace ---------------------------
(***************************************************************************)
(* Where the loader puts the initramfs (image_loader.c,                    *)
(* mipsel_initramfs_load()): top-down from the end of RAM, one attempt at  *)
(* a time, below whatever reserved range is in the way.                    *)
(*                                                                         *)
(* The abstract description is a single sentence: the highest aligned      *)
(* place that no reserved range touches, if there is one.                  *)
(***************************************************************************)
EXTENDS Integers, FiniteSets

CONSTANTS
  MEMORY_END,         \* platform_memory_size()
  Alignments, Sizes,  \* what the callers and the files bring
  Reservations        \* the sets of reserved ranges

MemoryRange == [start : Nat, end : Nat]

ASSUME PlaceAssumption ==
  /\ MEMORY_END \in Nat
  /\ Alignments \subseteq Nat \ {0} /\ Sizes \subseteq Nat
  /\ \A set \in Reservations : set \subseteq MemoryRange /\ IsFiniteSet(set)

VARIABLES
  size, alignment, reserved,    \* the arguments
  upper_limit, attempts,        \* the loop
  place_status,                 \* "searching", then the result
  start                         \* the place found

arguments == <<size, alignment, reserved>>
place_vars == <<arguments, upper_limit, attempts, place_status, start>>

-----------------------------------------------------------------------------

align_down(value, step) == value - (value % step)

ranges_overlap_at(first, last, r) == first < r.end /\ r.start < last

Empty(r) == r.start >= r.end

\* The ranges in the way of an image at a place.
Conflicts(place) == {r \in reserved : ~Empty(r) /\ ranges_overlap_at(place, place + size, r)}

\* Mutant: the range itself is taken for free.
NextLimit_End(ranges) ==
  CHOOSE s \in {r.end : r \in ranges} : \A r \in ranges : s <= r.end

\* The search goes on below all of them.
NextLimit(ranges) ==
  CHOOSE s \in {r.start : r \in ranges} : \A r \in ranges : s <= r.start

Candidate == align_down(upper_limit - size, alignment)

Fits == size <= upper_limit

Exhausted == attempts > Cardinality(reserved)

TooLarge ==
  /\ place_status = "searching" /\ ~Exhausted
  /\ ~Fits
  /\ place_status' = "OUT_OF_RANGE"
  /\ UNCHANGED <<arguments, upper_limit, attempts, start>>

\* The copy may fail.
Place ==
  /\ place_status = "searching" /\ ~Exhausted
  /\ Fits /\ Conflicts(Candidate) = {}
  /\ place_status' \in {"OK", "IO"}
  /\ start' = Candidate
  /\ UNCHANGED <<arguments, upper_limit, attempts>>

Retry ==
  /\ place_status = "searching" /\ ~Exhausted
  /\ Fits /\ Conflicts(Candidate) # {}
  /\ LET next == NextLimit(Conflicts(Candidate))
     IN  IF next >= upper_limit
         THEN place_status' = "OVERLAP" /\ UNCHANGED <<upper_limit, attempts>>
         ELSE /\ upper_limit' = next /\ attempts' = attempts + 1
              /\ UNCHANGED place_status
  /\ UNCHANGED <<arguments, start>>

GiveUp ==
  /\ place_status = "searching" /\ Exhausted
  /\ place_status' = "OVERLAP"
  /\ UNCHANGED <<arguments, upper_limit, attempts, start>>

PlaceInit ==
  /\ size \in Sizes /\ alignment \in Alignments /\ reserved \in Reservations
  /\ upper_limit = MEMORY_END /\ attempts = 0
  /\ place_status = "searching" /\ start = 0

PlaceNext == TooLarge \/ Place \/ Retry \/ GiveUp

PlaceSpec == PlaceInit /\ [][PlaceNext]_place_vars

-----------------------------------------------------------------------------
\* The places an image may be put at, said without the search.
Free(place) ==
  /\ place % alignment = 0 /\ place + size <= MEMORY_END
  /\ \A r \in reserved : r.start >= r.end \/ place + size <= r.start \/ r.end <= place

Statuses == {"searching", "OK", "IO", "OUT_OF_RANGE", "OVERLAP"}

PlaceTypeOK ==
  /\ size \in Sizes /\ alignment \in Alignments /\ reserved \subseteq MemoryRange
  /\ upper_limit \in 0 .. MEMORY_END /\ attempts \in Nat /\ start \in Nat
  /\ place_status \in Statuses

(* The image goes to the highest place there is ("as high in RAM as         *)
(* possible while avoiding the supplied kernel/DTB ranges",                 *)
(* image_loader.h): the search skips no gap when it jumps below a group of  *)
(* reserved ranges, and it never runs into a range it has passed.           *)
HighestFree ==
  place_status \in {"OK", "IO"} =>
    /\ Free(start)
    /\ \A place \in start + 1 .. MEMORY_END : ~Free(place)

(* The loader refuses an image only if there is no place for it.            *)
RefusedOnlyIfFull ==
  place_status \in {"OUT_OF_RANGE", "OVERLAP"} =>
    \A place \in 0 .. MEMORY_END : ~Free(place)

(* The bound on the attempts, one more than there are ranges, is never the  *)
(* reason for a refusal.                                                    *)
EnoughAttempts == place_status # "OVERLAP"

(* The search is exact: it finds the highest place if there is one, refuses *)
(* only if there is none, and is never cut short.                           *)
PlaceSafe == PlaceTypeOK /\ HighestFree /\ RefusedOnlyIfFull /\ EnoughAttempts
=============================================================================

------------------------------ MODULE FdtPatch ------------------------------
(***************************************************************************)
(* Telling Linux where the initramfs is (image_loader.c,                   *)
(* mipsel_fdt_set_initramfs()): one walk over the tokens of the device     *)
(* tree in guest memory, which writes the two properties of /chosen in     *)
(* place.  The tree is whatever the walk reads: each step takes any token. *)
(*                                                                         *)
(* The code knows two depths; path and properties record what was read.    *)
(***************************************************************************)
EXTENDS Integers, FiniteSets, SequencesExt

CONSTANTS
  INITRD_START, INITRD_END,   \* the range of the initramfs
  DEPTH, PROPS           \* bounds on nesting and number of properties

ASSUME FdtAssumption ==
  /\ INITRD_START \in Nat /\ INITRD_END \in Nat /\ INITRD_START <= INITRD_END
  /\ DEPTH \in Nat /\ PROPS \in Nat

VARIABLES
  fdt_status,                 \* "start", "walking", then the result
  depth, chosen_depth, found_start, found_end,
  path,                       \* ghost: names of the open nodes
  properties                  \* ghost: properties read, with their words in memory

walk == <<depth, chosen_depth, found_start, found_end>>
fdt_vars == <<fdt_status, walk, path, properties>>

Names == {"linux,initrd-start", "linux,initrd-end", "other"}
OldWord == -1

-----------------------------------------------------------------------------
\* Arguments and header are checked before the walk.
CheckHeader ==
  /\ fdt_status = "start"
  /\ fdt_status' \in {"walking", "INVALID_ARGUMENT", "BAD_FORMAT", "OUT_OF_RANGE"}
  /\ UNCHANGED <<walk, path, properties>>

IsChosen(level, name) == level = 1 /\ name = "chosen"

BeginNode ==
  /\ fdt_status = "walking" /\ depth < DEPTH
  /\ \E name \in {"chosen", "other"} :
       /\ path' = Append(path, name)
       /\ chosen_depth' = IF IsChosen(depth + 1, name) THEN depth + 1 ELSE chosen_depth
  /\ depth' = depth + 1
  /\ UNCHANGED <<fdt_status, found_start, found_end, properties>>

AfterEnd == IF depth = chosen_depth THEN -1 ELSE chosen_depth

EndNode ==
  /\ fdt_status = "walking"
  /\ IF depth < 0
     THEN fdt_status' = "BAD_FORMAT" /\ UNCHANGED <<walk, path>>
     ELSE /\ chosen_depth' = AfterEnd /\ depth' = depth - 1
          /\ path' = Front(path)
          /\ UNCHANGED <<fdt_status, found_start, found_end>>
  /\ UNCHANGED properties

\* Mutant: the address goes to the first word whatever the length.
fdt_write_address_First(words, value) == [words EXCEPT ![1] = value]

\* One word, or two of which the first, the more significant, becomes zero.
fdt_write_address(words, value) == IF Len(words) = 1 THEN <<value>> ELSE <<0, value>>

Read(name, words) ==
  properties' = properties \union {[path |-> path, name |-> name, words |-> words]}

Patch(name, words) ==
  /\ Read(name, fdt_write_address(words, IF name = "linux,initrd-start"
                                         THEN INITRD_START ELSE INITRD_END))
  /\ found_start' = (found_start \/ name = "linux,initrd-start")
  /\ found_end' = (found_end \/ name = "linux,initrd-end")

\* A length that holds no address ends the walk.
Property ==
  /\ fdt_status = "walking" /\ Cardinality(properties) < PROPS
  /\ \E name \in Names, words \in {<<>>, <<OldWord>>, <<OldWord, OldWord>>} :
       IF depth = chosen_depth /\ name # "other"
       THEN IF words = <<>>
            THEN /\ fdt_status' = "MEMORY_IO" /\ Read(name, words)
                 /\ UNCHANGED <<found_start, found_end>>
            ELSE Patch(name, words) /\ UNCHANGED fdt_status
       ELSE Read(name, words) /\ UNCHANGED <<fdt_status, found_start, found_end>>
  /\ UNCHANGED <<depth, chosen_depth, path>>

FoundAll == found_start /\ found_end

EndOfTree ==
  /\ fdt_status = "walking"
  /\ fdt_status' = IF depth # -1 THEN "BAD_FORMAT"
               ELSE IF FoundAll THEN "OK" ELSE "FDT_PROPERTY_MISSING"
  /\ UNCHANGED <<walk, path, properties>>

\* An unknown token, a length beyond the structure block, or the block's end;
\* a read that fails.
Malformed ==
  /\ fdt_status = "walking"
  /\ fdt_status' \in {"BAD_FORMAT", "MEMORY_IO"}
  /\ UNCHANGED <<walk, path, properties>>

FdtInit ==
  /\ fdt_status = "start"
  /\ depth = -1 /\ chosen_depth = -1 /\ found_start = FALSE /\ found_end = FALSE
  /\ path = <<>> /\ properties = {}

FdtNext == CheckHeader \/ BeginNode \/ EndNode \/ Property \/ EndOfTree \/ Malformed

FdtSpec == FdtInit /\ [][FdtNext]_fdt_vars

-----------------------------------------------------------------------------
\* /chosen, by the names of the nodes around it.
InChosen(p) == Len(p.path) = 2 /\ p.path[2] = "chosen"

Holds(p, value) ==
  /\ p.words # <<>> /\ Last(p.words) = value
  /\ \A k \in 1 .. Len(p.words) - 1 : p.words[k] = 0

Untouched(p) == \A k \in DOMAIN p.words : p.words[k] = OldWord

FdtTypeOK ==
  /\ fdt_status \in {"start", "walking", "OK", "INVALID_ARGUMENT", "BAD_FORMAT",
                 "OUT_OF_RANGE", "MEMORY_IO", "FDT_PROPERTY_MISSING"}
  /\ depth = Len(path) - 1 /\ chosen_depth \in {-1, 1} /\ depth <= DEPTH
  /\ found_start \in BOOLEAN /\ found_end \in BOOLEAN
  /\ \A p \in properties : p.name \in Names /\ Len(p.words) <= 2

(* A property of /chosen holds the whole address once the walk has passed   *)
(* it, in either encoding and whatever nodes lie between ("Four-byte and    *)
(* eight-byte property encodings are accepted", image_loader.h).            *)
ChosenPatched ==
  \A p \in properties : (InChosen(p) /\ p.words # <<>>) =>
    /\ p.name = "linux,initrd-start" => Holds(p, INITRD_START)
    /\ p.name = "linux,initrd-end" => Holds(p, INITRD_END)

(* A property of any other node keeps its value, be it a node called chosen *)
(* elsewhere, a child of /chosen or a node behind it.                       *)
OthersUntouched ==
  \A p \in properties : (p.path # <<>> /\ (~InChosen(p) \/ p.name = "other")) => Untouched(p)

(* Success means that Linux finds both addresses, in a tree whose           *)
(* properties all belong to nodes; a missing property is only reported of a *)
(* tree that lacks one.                                                     *)
ReportsBoth ==
  LET both == \A name \in Names \ {"other"} : \E p \in properties : InChosen(p) /\ p.name = name
  IN  /\ fdt_status = "OK" /\ (\A p \in properties : p.path # <<>>) => both
      /\ fdt_status = "FDT_PROPERTY_MISSING" => ~both

(* In every state of the walk: what belongs to /chosen is patched whole,    *)
(* what does not is left alone, and the result tells which it was.          *)
FdtSafe == FdtTypeOK /\ ChosenPatched /\ OthersUntouched /\ ReportsBoth
=============================================================================

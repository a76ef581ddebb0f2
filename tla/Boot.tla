-------------------------------- MODULE Boot --------------------------------
(***************************************************************************)
(* Putting a guest in place (loader.c, board_reset()): RAM is cleared, the *)
(* kernel, the device tree and the initramfs are loaded one after another  *)
(* around each other, the tree is told where the initramfs is and the      *)
(* processor where the tree is.  Any stage may fail, which ends the        *)
(* program; a guest that ran may be reset, and the files be others then.   *)
(*                                                                         *)
(* mipsel_dtb_load() is here, the search for a place is InitramfsPlace's;  *)
(* of the kernel's load and of the patch Boot takes what ElfLoad and       *)
(* FdtPatch show.                                                          *)
(***************************************************************************)
EXTENDS InitramfsPlace

CONSTANTS
  DTB_PHYSICAL_ADDRESS, DTB_RESERVED_SIZE, FDT_HEADER_SIZE, INITRAMFS_ALIGNMENT,
  Kernels,          \* the PT_LOAD ranges of the kernels there are
  Blobs,            \* the device trees there are
  BOOTS             \* bound on the resets

Cells == 0 .. MEMORY_END - 1

ASSUME BootAssumption ==
  /\ {DTB_PHYSICAL_ADDRESS, DTB_RESERVED_SIZE, FDT_HEADER_SIZE, BOOTS} \subseteq Nat
  /\ FDT_HEADER_SIZE <= DTB_RESERVED_SIZE
  /\ DTB_PHYSICAL_ADDRESS + DTB_RESERVED_SIZE <= MEMORY_END
  /\ INITRAMFS_ALIGNMENT \in Alignments
  /\ \A k \in Kernels : k # {} /\ IsFiniteSet(k) /\ k \subseteq MemoryRange
  /\ \A k \in Kernels : \A s \in k : s.end <= MEMORY_END
  /\ Blobs \subseteq [image_size : Nat, total_size : Nat]

VARIABLES
  options,          \* what the command line gave: "dtb", "initramfs"
  stage,            \* where board_reset() is
  guest_ram,        \* per byte: the image it comes from and its offset there
  segments,         \* elf_info.load_segments
  dtb_size,
  initrd,           \* what the tree says of the initramfs
  a1,               \* gpr[5]: where the processor looks for the tree
  boots

board_vars == <<options, stage, guest_ram, segments, dtb_size, initrd, a1, boots>>
boot_vars == <<board_vars, place_vars>>

Nowhere == [start |-> 0, end |-> 0]
Clear == <<"zero", 0>>

DtbRange ==
  [start |-> DTB_PHYSICAL_ADDRESS, end |-> DTB_PHYSICAL_ADDRESS + DTB_RESERVED_SIZE]

\* RAM with an image in it.
With(image, at, length) ==
  [x \in Cells |-> IF x - at \in 0 .. length - 1 THEN <<image, x - at>> ELSE guest_ram[x]]

\* What a failed stage has written is nobody's: no guest starts on it.
Abort ==
  /\ stage' = "failed"
  /\ UNCHANGED <<guest_ram, segments, dtb_size, initrd, a1, place_vars>>

-----------------------------------------------------------------------------
clear_ram == [x \in Cells |-> Clear]

board_reset ==
  /\ stage \in {"start", "ready", "running"} /\ boots < BOOTS
  /\ boots' = boots + 1
  /\ stage' = "kernel" /\ guest_ram' = clear_ram
  /\ segments' = {} /\ dtb_size' = 0 /\ initrd' = Nowhere
  /\ UNCHANGED <<options, a1, place_vars>>

\* A kernel on the tree's range is refused only if a tree is to be loaded.
Accepted(kernel) ==
  "dtb" \in options =>
    \A s \in kernel : ~ranges_overlap_at(DtbRange.start, DtbRange.end, s)

After(image) ==
  IF image = "kernel" /\ "dtb" \in options THEN "dtb"
  ELSE IF image = "dtb" /\ "initramfs" \in options THEN "initramfs" ELSE "linux"

load_kernel ==
  /\ stage = "kernel"
  /\ \/ Abort
     \/ \E kernel \in {k \in Kernels : Accepted(k)} :
          /\ guest_ram' = [x \in Cells |->
                          IF \E s \in kernel : x \in s.start .. s.end - 1
                          THEN <<"kernel", x>> ELSE guest_ram[x]]
          /\ segments' = kernel
          /\ stage' = After("kernel")
          /\ UNCHANGED <<dtb_size, initrd, a1, place_vars>>
  /\ UNCHANGED <<options, boots>>

\* What fdt_layout_from_header() and mipsel_dtb_load() say of a file.
DtbStatus(blob) ==
  IF blob.image_size < FDT_HEADER_SIZE THEN "SOURCE_IO"
  ELSE IF blob.total_size < FDT_HEADER_SIZE \/ blob.total_size > blob.image_size
  THEN "BAD_FORMAT"
  ELSE IF blob.total_size > DTB_RESERVED_SIZE THEN "OUT_OF_RANGE"
  ELSE "OK"

load_dtb_image ==
  /\ stage = "dtb"
  /\ \/ Abort
     \/ \E blob \in {b \in Blobs : DtbStatus(b) = "OK"} :
          /\ guest_ram' = With("dtb", DTB_PHYSICAL_ADDRESS, blob.total_size)
          /\ dtb_size' = blob.total_size
          /\ stage' = After("dtb")
          /\ UNCHANGED <<segments, initrd, a1, place_vars>>
  /\ UNCHANGED <<options, boots>>

\* Mutant: only the kernel is kept clear of the initramfs.
initramfs_reservations_KernelOnly == segments

initramfs_reservations == segments \union {DtbRange}

load_initramfs_image ==
  /\ stage = "initramfs"
  /\ stage' = "search"
  /\ size' \in Sizes /\ alignment' = INITRAMFS_ALIGNMENT
  /\ reserved' = initramfs_reservations
  /\ upper_limit' = MEMORY_END /\ attempts' = 0
  /\ place_status' = "searching" /\ start' = 0
  /\ UNCHANGED <<options, guest_ram, segments, dtb_size, initrd, a1, boots>>

search_initramfs ==
  /\ stage = "search" /\ PlaceNext
  /\ UNCHANGED board_vars

copy_initramfs ==
  /\ stage = "search" /\ place_status # "searching"
  /\ IF place_status # "OK" THEN Abort
     ELSE /\ guest_ram' = With("initramfs", start, size)
          /\ stage' = "patch"
          /\ UNCHANGED <<segments, dtb_size, initrd, a1, place_vars>>
  /\ UNCHANGED <<options, boots>>

\* The tree's header is read again, from memory.
HeaderInRam ==
  \A x \in 0 .. FDT_HEADER_SIZE - 1 : guest_ram[DTB_PHYSICAL_ADDRESS + x] = <<"dtb", x>>

set_initramfs ==
  /\ stage = "patch"
  /\ \/ Abort
     \/ /\ HeaderInRam
        /\ initrd' = [start |-> start, end |-> start + size]
        /\ stage' = "linux"
        /\ UNCHANGED <<guest_ram, segments, dtb_size, a1, place_vars>>
  /\ UNCHANGED <<options, boots>>

\* linux_load_reset() clears the registers.
hand_over ==
  /\ stage = "linux"
  /\ stage' = "ready"
  /\ a1' = IF "dtb" \in options THEN DTB_PHYSICAL_ADDRESS ELSE 0
  /\ UNCHANGED <<options, guest_ram, segments, dtb_size, initrd, boots, place_vars>>

\* The guest may write to all of RAM and its registers.
guest_runs ==
  /\ stage = "ready"
  /\ stage' = "running"
  /\ guest_ram' = [x \in Cells |-> <<"guest", 0>>] /\ a1' \in {0, DTB_PHYSICAL_ADDRESS}
  /\ UNCHANGED <<options, segments, dtb_size, initrd, boots, place_vars>>

\* parse_options(): "--initramfs requires --dtb".
BoardInit ==
  /\ options \in {{}, {"dtb"}, {"dtb", "initramfs"}}
  /\ stage = "start" /\ boots = 0
  /\ guest_ram = [x \in Cells |-> Clear]      \* calloc()
  /\ segments = {} /\ dtb_size = 0 /\ initrd = Nowhere /\ a1 = 0

BootInit == BoardInit /\ PlaceInit

BootNext ==
  \/ board_reset \/ load_kernel \/ load_dtb_image
  \/ load_initramfs_image \/ search_initramfs \/ copy_initramfs \/ set_initramfs
  \/ hand_over \/ guest_runs

BootSpec == BootInit /\ [][BootNext]_boot_vars

-----------------------------------------------------------------------------
\* What a byte of RAM must be when the guest starts.
Expected(x) ==
  IF \E s \in segments : x \in s.start .. s.end - 1 THEN <<"kernel", x>>
  ELSE IF x - DTB_PHYSICAL_ADDRESS \in 0 .. dtb_size - 1 THEN <<"dtb", x - DTB_PHYSICAL_ADDRESS>>
  ELSE IF x - initrd.start \in 0 .. initrd.end - initrd.start - 1
  THEN <<"initramfs", x - initrd.start>>
  ELSE Clear

(* When the guest starts, all that it was promised is in RAM, whole and at  *)
(* the place it is told: each kernel segment, the device tree that a1       *)
(* points to, the initramfs that the tree points to, aligned and clear of   *)
(* both; every other byte is zero, whatever an earlier guest left there and *)
(* whichever files were replaced between two resets.                        *)
BootedWhole ==
  stage = "ready" =>
    /\ segments # {}
    /\ \A x \in Cells : guest_ram[x] = Expected(x)
    /\ a1 = (IF "dtb" \in options THEN DTB_PHYSICAL_ADDRESS ELSE 0)
    /\ "dtb" \in options => dtb_size >= FDT_HEADER_SIZE
    /\ "initramfs" \in options =>
         /\ initrd.end - initrd.start = size /\ initrd.start % INITRAMFS_ALIGNMENT = 0
         /\ \A k \in 0 .. size - 1 : guest_ram[initrd.start + k] = <<"initramfs", k>>

BootTypeOK ==
  /\ options \in {{}, {"dtb"}, {"dtb", "initramfs"}} /\ boots \in 0 .. BOOTS
  /\ DOMAIN guest_ram = Cells /\ dtb_size \in 0 .. DTB_RESERVED_SIZE
  /\ initrd.start <= initrd.end /\ initrd.end <= MEMORY_END

(* The three loads, each right by itself, are right together.               *)
BootSafe == BootTypeOK /\ BootedWhole
=============================================================================

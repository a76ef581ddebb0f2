------------------------------ MODULE MCInputs ------------------------------
(***************************************************************************)
(* All that the host feeds to the machine: the ELF kernel, the place of    *)
(* the initramfs, the patch of the device tree, the reset that puts the    *)
(* three in place together, and what is typed, on its way to the monitor   *)
(* console and on its way to the UART.  A behaviour exercises one of the   *)
(* six and leaves the others in an initial state, so the state space is    *)
(* their sum; Boot and the search for a place share the search's           *)
(* variables, as the one calls the other.                                  *)
(***************************************************************************)
EXTENDS Console, UartInput, ElfLoad, Boot, FdtPatch

VARIABLE exercised   \* the component this behaviour is about

\* Console: three characters, lines of seven: room for the longest command,
\* for one argument too many and for a register name that is also a keyword.
Keyword == <<"r">>
WriteKeyword == <<"r", "r">>
One == <<"1">>
ReadKeywords == {One}
ConsoleNames == {Keyword, One}
Constants == {One}

\* ELF: addresses of six bits, of which RAM is six bytes; a file of four
\* bytes; up to three program headers, two of which may be segments.
\* vaddr and paddr: useg, kseg0, kseg1 at RAM, and kseg2, beyond RAM.
MCPlaces == {<<32, 0>>, <<9, 2>>, <<0, 43>>, <<0, 5>>, <<0, 62>>}

MCProgramHeaders ==
  {[load |-> TRUE, file_offset |-> o, file_size |-> f, memory_size |-> m,
    vaddr |-> p[1], paddr |-> p[2], executable |-> x] :
     o \in {0, 2}, f \in {0, 2, 3}, m \in {0, 1, 3, 63}, p \in MCPlaces, x \in BOOLEAN}
  \union
  {[load |-> FALSE, file_offset |-> 0, file_size |-> 9, memory_size |-> 9,
    vaddr |-> 0, paddr |-> 0, executable |-> FALSE]}

\* Inside RAM by kseg0 and kseg1, unaligned, not directly mapped.
MCEntries == {32, 44, 33, 4}
MCReservedSets == {{}, {[start |-> 3, end |-> 5], [start |-> 1, end |-> 1]}}

\* Initramfs: up to three reserved ranges, which may touch, nest, overlap or
\* be empty, in a RAM that is not a multiple of the alignment.
MCRanges == {[start |-> s, end |-> e] : s \in {0, 2, 3, 5, 8}, e \in {2, 3, 6, 9, 11}}
MCReservations == {{}} \union {{p, q, r} : p, q, r \in MCRanges}
MCAlignments == {1, 2, 4}
MCSizes == {0, 1, 2, 3, 5, 12}

\* Boot: kernels below, above, around and on the place of the device tree,
\* which is three bytes from 2 on; trees too small, too large and cut short.
Ranges(pairs) == {[start |-> p[1], end |-> p[2]] : p \in pairs}
MCKernels ==
  {Ranges({<<0, 2>>}), Ranges({<<6, 11>>}), Ranges({<<5, 7>>, <<9, 11>>}),
   Ranges({<<0, 1>>, <<7, 9>>}), Ranges({<<1, 4>>}), Ranges({<<4, 4>>, <<8, 10>>})}
MCBlobs == [image_size : {0, 2, 3, 4}, total_size : {0, 1, 3, 4}]

InputParked == source = "pipe" /\ memory = INITIAL_CAPACITY /\ InputInit
ElfParked == entry = 32 /\ reserved_ranges = {} /\ ElfInit
PlaceParked == size = 1 /\ alignment = 1 /\ reserved = {} /\ PlaceInit
BoardParked == options = {} /\ BoardInit

InputsInit ==
  /\ exercised \in {"console", "uart", "kernel", "initramfs", "device tree", "boot"}
  /\ ConsoleInit /\ FdtInit
  /\ IF exercised = "uart" THEN InputInit ELSE InputParked
  /\ IF exercised = "kernel" THEN ElfInit ELSE ElfParked
  /\ IF exercised = "initramfs" THEN PlaceInit ELSE PlaceParked
  /\ IF exercised = "boot" THEN BoardInit ELSE BoardParked

InputsNext ==
  /\ UNCHANGED exercised
  /\ \/ /\ exercised = "console" /\ ConsoleNext
        /\ UNCHANGED <<input_vars, elf_vars, boot_vars, fdt_vars>>
     \/ /\ exercised = "uart" /\ InputNext
        /\ UNCHANGED <<console_vars, elf_vars, boot_vars, fdt_vars>>
     \/ /\ exercised = "kernel" /\ ElfNext
        /\ UNCHANGED <<console_vars, input_vars, boot_vars, fdt_vars>>
     \/ /\ exercised = "initramfs" /\ PlaceNext
        /\ UNCHANGED <<console_vars, input_vars, elf_vars, board_vars, fdt_vars>>
     \/ /\ exercised = "device tree" /\ FdtNext
        /\ UNCHANGED <<console_vars, input_vars, elf_vars, boot_vars>>
     \/ /\ exercised = "boot" /\ BootNext
        /\ UNCHANGED <<console_vars, input_vars, elf_vars, fdt_vars>>

inputs_vars == <<exercised, console_vars, input_vars, elf_vars, boot_vars, fdt_vars>>

InputsSpec == InputsInit /\ [][InputsNext]_inputs_vars
=============================================================================

# Formal models of the MIPS32EL emulator and its devices

This directory holds TLA+ models of `user/src/mipsel-emu`, a MIPS32EL Release 2
emulator that boots Linux, and of the display path it shares with
`tools/sdl-player`. Paths without a prefix are relative to
`src/user/src/mipsel-emu/`. `PROJECT.json` maps every definition to its source
lines and lists runs, mutants, findings, hazards and theorems.

## 1. The system

Everything runs in one host thread: a front end calls the run loop, the run loop
steps the processor, the processor reads and writes a bus, the bus reaches RAM,
UART and framebuffer, and between batches of steps the front end polls its
terminal or window. The hard behaviour is therefore not data races but *orders*:
what may happen between two steps, between lending a buffer and giving it back,
between noticing something and acting on it. The embedding contract (USB CDC
DMA, `README.md`) adds completions that arrive late.

| Part | State | Operations | Hard part | What makes it correct |
|---|---|---|---|---|
| UART receive ring (`uart16550.c`) | ring, counts, lent span, overrun | guest RBR/LSR/FCR; host push, reserve/produce | spans outlive pops, resets and mode switches | bounded FIFO order; stale spans refused |
| UART transmit ring | ring, counts, lent span, THRE latch, callback | guest THR/FCR/IIR/IER; host peek/consume; re-entrant callback | guest writes behind a lent span; the callback runs inside a guest store | each byte once, in order; THRE exact |
| UART registers and bus windows (`uart16550.c`, `platform.c`) | IER, LCR, plain registers, RAM, frame buffer | loads and stores of 1, 2, 4 bytes, interrupt line | interrupts lost or withdrawn; the edges of three windows | requests persist until acknowledged; a store changes the bytes it names and no other |
| CPU core (`emu.c`, `exception.c`, `registers.c`, `op.c`) | pc/next_pc/delay slot, CP0 | step, exceptions, resets, CP0 writes | delay slots, nesting, ERL/EXL, three writers of Cause.IP | precise resumption; no lost timer; user mode confined |
| Framebuffer and display (`platform.c`, `loader.c`, `sdl_display.c`) | dirty rectangle, surface, texture, window | stores, service, failing uploads | merging rectangles; partial failure | what the window lacks is marked |
| TLB (`registers.c`, `op.c`) | 64 entries, Random, Wired | TLBWR/WI/P/R, translation | Random against Wired; first match | wired entries safe; refill then hit |
| LL/SC (`op.c`, `exception.c`) | link bit, address | LL, SC, exceptions, ERET | task switches between LL and SC | no lost update |
| Image loader (`image_loader.c`) | RAM, segment list | ELF, DTB, initramfs, FDT patch | wrap-around, overlap, all-or-nothing | disjoint placement; nothing written on error; a reset puts all three images in place, whole and apart |
| Run loop, monitor, desktop (`runloop.c`, `debugger.c`, `console.c`, `gui_main.cpp`) | run state, step count, queues, line parser | poll, batch, reset, step, commands | requests overtaking each other; partial resets | no request lost; the queue keeps order |
| Trace, panes, session (`debugger.c`, `loader.c`, `main.c`) | rings of records and lines, files, handlers, terminal | observe, scroll, clear, resize; acquire, release | an exception is reported before its instruction; set-up fails or a signal strikes half-way | records in the order of execution; the newest text shown; each resource released once |
| Decoding and disassembly (`op.c`, `instru.h`, `disasm.c`) | - | decode, print | two decoders of one instruction set | what is printed is what runs |
| Interpreter: arithmetic (`op.c`) | general registers, HI:LO | additions, products, divisions, shifts, bit fields | overflow traps, sign extension, the extremes of each range | agreement with definitions on integers and sets of bits |
| Interpreter: loads and stores (`op.c`, `platform.c`) | registers, RAM | LB..SW, LWL/LWR/SWL/SWR, fill | a fault between the halves of an unaligned access | exactly the bytes named move; a fault leaves nothing half done |
| sdl-player UI tree (`tools/sdl-player`, `ui_drawer.c`) | tree, groups, buffers, frame | group, build, paint, mark | grouping is transitive; clipping; failing allocations | groups are components; grouping does not show; marks cover what changed |
| sdl-player demo and frame loop (`demo.c`, `main.c`) | surface, window, phase, events | events, render, present | partial updates across a change of phase | the window shows the frame |
| block pool, lvgl-demo, Cortex-M start-up, guest scripts | - | - | - | not modelled (not built, headers, I/O) |

Interaction: a front end installs UART callbacks and a service callback
(`platform_init`, `mipsel_runloop_set_service`); the processor samples the
UART's interrupt before every instruction (`platform_update_interrupts`);
`raise_exception` is called from instruction handlers and from the step itself;
the monitor edits processor state between steps through the same CP0 write rule
as the guest (`mipsel_cp0_write`).

## 2. Modules

| Module | Models | Checked with |
|---|---|---|
| `UartMode` | FIFO mode, capacities, ring arithmetic | (used by both rings) |
| `UartRx` | the receive ring | `MCUartRings` |
| `ByteQueue` | abstract bounded queue of received bytes | refined by `UartRx` |
| `UartTx` | the transmit ring, THRE latch, callback | `MCUartRings` |
| `ByteStream` | abstract stream of transmitted bytes | refined by `UartTx` |
| `Uart16550` | registers and interrupt over both rings | `MCUartRings` |
| `Bus` | the windows of the bus and the plain registers, by address, width and byte | `MCUartRings` |
| `UartProofs` | theorems about `UartRx` and its refinement of `ByteQueue`, `UartTx` and its refinement of `ByteStream`, about `Uart16550` over both rings, and about `Bus` | tlapm |
| `Cpu` | one processor step and what the host does between steps | `MCCpu` |
| `PreciseFlow` | abstract program counter with delay slots and precise exceptions | refined by `Cpu` |
| `CpuEdit` | `Cpu` with the monitor's edits of `next_pc` | `MCCpuEdit` |
| `CpuProofs` | theorems about `Cpu` and `CpuEdit`: their invariants; the refinement of `PreciseFlow` | tlapm |
| `UiRect`, `Framebuffer` | rectangles; stores, dirty rectangle, display | `MCHost` |
| `Tlb` | translation and TLB instructions under a kernel that refills | `MCInstructions` |
| `LinkedLoad` | LL/SC over tasks, kernel and monitor | `MCInstructions` |
| `Alu` | arithmetic instructions on narrow words | `MCInstructions` |
| `Decode` | tables of handlers and the disassembler's switches | `MCInstructions` |
| `LoadStore` | loads, stores and fills over RAM | `MCInstructions` |
| `MemoryProofs` | theorems about `Tlb`, `LinkedLoad` and `LoadStore` | tlapm |
| `UartInput` | the host's queue in front of the receive FIFO | `MCInputs` |
| `RunLoop` | the command line's run loop and keys | `MCFrontEnds` |
| `LineRing` | rings of lines | (used by `Trace` and `Panes`) |
| `Trace` | the records of instructions, exceptions, resets | `MCHost` |
| `Panes` | the UART's and the monitor's pane of text | `MCHost` |
| `Session` | what `main()` acquires and releases, emulator and player | `MCHost` |
| `HostProofs` | theorems about `UiRect` and `Framebuffer`, `Player`, `RenderTree` | tlapm |
| `TerminalProofs` | theorems about `LineRing` and `Trace`, `Panes`, `Session` | tlapm |
| `Console` | the target monitor | `MCInputs` |
| `InputProofs` | theorems about `UartInput` and `Console` | tlapm |
| `Desktop` | the Qt front end's guest, timer and register table | `MCFrontEnds` |
| `FrontEndProofs` | theorems about `RunLoop` and `Desktop` | tlapm |
| `InitramfsPlace` | the placement search | `MCInputs` |
| `ElfLoad` | the ELF loader's two passes | `MCInputs` |
| `FdtPatch` | the walk that patches `/chosen` | `MCInputs` |
| `Boot` | `board_reset()`: three loads around each other, hand-over | `MCInputs` |
| `BootProofs` | theorems about `ElfLoad`, `FdtPatch`, `InitramfsPlace` and `Boot` | tlapm |
| `RenderTree` | one frame of the UI tree, with `UiRect` | `MCHost` |
| `Player` | the player's events, frames and window | `MCFrontEnds` |

`Uart16550` composes the two rings: one `Next` interleaves the actions of both with
the register accesses. `Boot` composes the loaders: it drives `InitramfsPlace`'s own
search, and takes of the ELF load and the patch what `ElfLoad` and `FdtPatch` show.
`CpuEdit` composes the processor with one more command of the monitor. Components
that share no state are checked side by side instead: `MCUartRings`, `MCInputs`,
`MCFrontEnds`, `MCHost` and `MCInstructions` choose in `Init` which component a
behaviour exercises (variable `exercised`) and leave the others in an initial
state. The state space is then the sum of the components' spaces and not their
product, and nothing is lost: an action of one component can neither read nor write
what another owns (the two rings share the FIFO mode, and `MCUartRings` has a fifth
kind of behaviour, "registers", in which both rings and the registers interleave).

**UART rings.** Variables carry the names of `uart16550_t`. Guest actions are
one register access each; host actions are one call each. `RxReserve`,
`DmaWrite` and `RxProduce` are separate actions because the span protocol lets
anything happen between them: the guest pops, resets the FIFO or switches the
mode, and the completion arrives late or with a length the device never lent.
The transmit side has two ways out, `TxPeek`/`TxConsume` and the callback.
Nested drains (a callback that installs a callback) collapse into one flag
`draining`; the guest does not run while a callback is active, since the callback
runs inside the guest's store. Assumed of the host, as `uart16550.h` and
`README.md` require: one producer, no push while a span is out, no DMA into a
span that a reset has invalidated.

**Bus.** A load or store asks the frame buffer's aperture, the UART's window and RAM
in this order. Values are sequences of bytes; a ghost `log` of the stores defines what
every location should hold (`BusExact`). The registers are those without side
effects, with DLAB selecting two of them away; what RBR, THR, IER, FCR, IIR and LSR
*do* is in `Uart16550`. That no register lies in memory is assumed of the configuration.

**Processor.** The state is one record `cpu` with the fields of `Registers` that
decide the flow of control, and `uart_irq`, the level of the UART's request. An
action is a whole `mipsel_emu_step()`: commit a scheduled reset, take an
interrupt, fault on fetch, or execute, followed by `update_cycle()`. Operators
named like the C functions (`raise_exception`, `soft_reset_cpu`,
`op_eret`, ...) map register records to register records, in the order the code
composes them. Which instruction is at `pc`, whether it faults and where it
branches is arbitrary, so every property holds for every program. Left out:
general registers, memory, the TLB, the link bit and the reported cause
(ExcCode, BadVAddr, CE). A control transfer inside a delay slot, which the
architecture leaves undefined, is excluded. The monitor's `reg next_pc`, which
overrides the pipeline on purpose, is not in `Cpu` but in `CpuEdit`, which adds it at
any time between two steps: between a branch and its slot, before a scheduled reset,
several times. What it breaks is whole again behind the next step (`EditHeals`).

`PreciseFlow` has no `next_pc` and no `bds`: it has the oldest instruction that
has not completed, and where a decided branch goes once its slot has completed.
The mapping is `at = IF bds THEN pc - 4 ELSE pc`, `goto = next_pc` inside a slot.
That `Cpu` implements it says that wherever an exception, an interrupt or a soft
reset strikes, EPC (ErrorEPC) names exactly what has to be repeated.

**Framebuffer.** Pixel values are abstracted to two sets: pixels the texture
lacks and pixels the window does not show. A guest store is one action; one call
of `service_sdl()` is one action that hands over, uploads and renders, with the
two failures `sdl_display_present()` can meet.

**TLB.** An entry holds a virtual page pair, an ASID, a global bit and two
half-pages; `Lookup` walks the entries in index order as `pfn_translate()` does.
The kernel around it is the environment: it refills on a miss, serves page
faults, flushes a page through TLBP and TLBWI, changes the ASID and keeps one
wired pair. `Random` moves down and wraps to the top, never below `Wired`. The
unmapped windows do not reach the TLB and are left out.

**LL/SC.** Tasks run read, add one, store conditionally; the kernel preempts them
at any step, runs its own updates and plain stores, and returns with ERET, which
breaks the link. The monitor may write a word or move the program counter. Every
write adds one to its word and is counted, so a lost update shows as a word behind
its count.

**Decoding.** An encoding is a record of fields. `Decode` has the five tables of
handlers, the encodings that handlers refuse themselves and the checks of privilege
on one side, the switches of `mips_disassemble()` on the other; one behaviour fetches a
word, decodes it and prints it. `DecodeAgrees` compares instruction, destination
register and target, and says on which words the two differ (`KnownToDiffer`, section 6)
and that they agree on all others.

**Arithmetic.** One behaviour executes one instruction on one choice of operands.
Words have WIDTH bits (32 in the code, 4 here), bytes and halves shrink with
them. The operators work on words as the C code does (masks, shifts, modular
sums); the invariants state the results on signed and unsigned integers or on
sets of bit positions. A signed 64-bit overflow of the accumulator is undefined
in C; the model wraps, which is what every build produces.

**Loads and stores.** RAM is a function from addresses to bytes, all different, so
each result names the bytes it came from. A translation fault or an address
error may strike any access, and the pairs LWL/LWR and SWL/SWR are two
instructions with a fault possible between them. `platform_memory_fill()` writes
chunks and a chunk may fail.

**Host input.** The queue between terminal and receive FIFO: typed keys, escape
sequences, end of standard input, growth (which straightens a wrapped ring and
may fail to allocate), flush into the FIFO, board reset. A ghost sequence records
what was accepted.

**Run loop.** `startup()`: a poll reads any number of keys and signals before the
state is acted on; then a batch, a single step, a reset or a wait. Variables are
those of the debugger (`state`, `steps`, `focus`, `quit`), the clock of the batch
and the tick limit. Painting the screen is the action that clears "not shown yet".

**Trace.** The observer is called from within a step: an exception is reported before
the instruction that raised it is recorded, so it is held back (`pending`) for the
record but shown at once in the list of exceptions. Actions are the observer's calls,
the board's reset, scrolling, clearing and the change of page. Ghost `log` is what
happened; `RecordsExact` says what file and rings hold of it, `WindowExact` what the
pane shows.

**Panes.** Text arrives in characters and is cut into lines that fit a slot; a resize,
an answer or a scroll may come in any order. The reference is a function from all text
so far to lines.

**Session.** Everything `mipsel_emu_cli_main()`, `startup()` and the player's `main()`
acquire, in order, with each stage failing, a signal at any point, and the
unwinding. `Session` has the order of acquisition and release; the loops in the middle
are `RunLoop`'s and `Player`'s.

**Monitor.** `Console` takes spans of characters, edits a line (backspace, cancel,
overlong lines, CR LF), splits it into words and executes the commands that
change the target; reading commands count by their result.

**Desktop.** A load passes through allocation, ELF, DTB, initramfs and start, each
of which may fail; Run, Pause, Step, Monitor and the timer's batches follow. The
register table remembers which guest its old values belong to.

**Images.** `InitramfsPlace` is the search, one attempt per step, over any finite
set of reserved ranges. `ElfLoad` has the header checks, the validating pass, the
copy in chunks and the zeroed tail, with failing reads and writes; addresses wrap.
`FdtPatch` walks a stream of tokens (begin, end, property, nop, end of tree).

**Reset.** `Boot` is `board_reset()` stage by stage over a RAM that remembers, per byte,
which image it came from. `mipsel_dtb_load()` is in it with its two size checks. A guest
that runs may overwrite anything, and the files may be others at the next reset.

**sdl-player.** `RenderTree` is one frame: pairs of controls are united if they
overlap, roots are numbered, a container per group is clipped and allocated,
leaves painted, dirty marks set and outlines drawn. `Player` is the program
around it: events change phase and quit, frames render whole or in a box, the
surface goes to the window.

## 3. Runs

| Run | Question | Properties |
|---|---|---|
| `uart_rings` | Does each ring stay consistent, and is it a bounded queue, a stream? Does a waiting guest see an empty transmitter? Are interrupt requests neither lost nor withdrawn across register accesses and mode switches, and does a handler that answers them return? Does a store reach the bytes it names and no other? | `RxRingSafe`, `TxRingSafe`, `BusExact`, `PromisesKept`, `RxImplementsQueue`, `TxImplementsStream`, `WaitingGuestSeesThre`, `RequestsKept`, `HandlerReturns` |
| `cpu_flow` | Is resumption precise (refinement of `PreciseFlow`)? | `CpuSafe`, `CpuImplementsFlow` |
| `cpu_clock` | Does a fired timer interrupt survive, and is it taken once enabled? | `TimerNotLost`, `TimerDelivered` |
| `cpu_modes` | Is a user program confined, and an edit of `next_pc` over after one step? | `UserConfined`, `EditHeals` |
| `inputs` | Does what the host feeds in arrive as given, and does a reset put it together? | `ConsoleSafe`, `ChangesAsTyped`; `InputSafe`, `LossIsSignalled`; `ElfSafe`; `PlaceSafe`; `FdtSafe`; `BootSafe` |
| `front_ends` | Do the main loops keep requests, guests and frames apart? | `StepsExact`, `StopsExactly`, `LoopSafe`, `LoopEnds`; `DeskSafe`; `PlayerSafe` |
| `host` | Is a store marked and a debt kept? Does grouping not show? Do trace and panes show what happened? Is everything released once? | `FbSafe`, `DebtKept`; `TreeSafe`; `TraceSafe`; `PanesSafe`; `SessionSafe` |
| `instructions` | Translation, read-modify-write, accesses, arithmetic and decoding against their definitions | `TlbSafe`; `LlSafe`; `AccessesExact`; `ArithmeticExact`; `DecodeAgrees` |
| `cpu_uart_on_line_7` | (violated) May the UART share input 7 with the timer? | `TimerNotLost` |
| `framebuffer_merge` | (violated) Is everything unseen marked? | `UnseenIsMarked` |
| `run_loop_reset` | (violated) Is every `r` honoured? | `ResetHonoured` |
| `jalx_target` | (violated) Does a JALX go where the disassembler prints? | `JalxAsPrinted` |

A property whose name ends in `Safe`, `Exact`, `Exactly` or `Kept` is mostly a conjunction of
named parts, each with its own comment in the component's module; which part a
counterexample breaks is found by checking the part alone. Every property of a
passing run has a mutant in `PROJECT.json`: a plausible bug in a mapped definition
under which the run finds the property violated.

*Instances.*

* `uart_rings`: rings of 3, two byte values, five bytes sent; with the registers, one
  byte value, two bytes sent and two waiting. RAM of 4 bytes, an aperture of 4, the
  registers behind; at most three stores to memory (all addresses, widths and two
  values) or four to the registers.
* `cpu_flow`: 20 addresses, one target unaligned, no timer resolution. `cpu_clock`:
  3 counts, divider 2, addresses folded onto four. `cpu_modes`: all combinations of
  user mode, CU0, EXL and ERL, a timer that fires on every step, any number of edits.
* `inputs`: console of 3 characters, lines of 7, one character over; host queue of 2
  growing to 4 before a FIFO of 2, 7 bytes typed; ELF with 6-bit addresses, 6 bytes
  of RAM, 3 headers, 2 segments; up to 3 reserved ranges that touch, nest or overlap
  in a RAM of 11 bytes, alignments 1, 2, 4; device trees of depth 2 with 2 properties. Resets: six kernels
  below, above, around and on the tree's three bytes, trees too small, too large and cut
  short, all sizes of initramfs, two resets.
* `front_ends`: batches of 2 and 3 steps, limits 0, 2, 5; 3 loads on the desktop;
  a player surface of 20x20, speeds 3 and 2, no frame limit or 2 frames, two phases.
* `host`: 2x2 pixels with one pixel of row padding; 4 controls of 7 shapes on
  5x3 pixels; rings of 3 records and 2 exceptions, 4 events; panes of 2 and 3 lines of
  two characters, terminals of 3, 6 and 8 rows, 9 characters; all options of a session.
* `instructions`: 3 TLB entries, one of which becomes wired, 2 address spaces that both
  own page 1 and touch page 2, which nobody owns; for LL/SC 2 tasks and the kernel, 2
  words, 3 writes each; 8 bytes of RAM in 16 addresses, fills in chunks of 3; 4-bit
  words, all operands; all opcodes and selectors of the tables, jumps and branches from
  every word of two regions of 8 words.

*Bounds.* A ring of three has an empty, a partly filled, a wrapped and a full
state, and room for a span on each side of the wrap, and a lent span with an unread
byte on both sides of it.
Two byte values are enough to see reordering and duplication because the abstract
queue compares whole sequences. `MaxOut` and `MaxRegisterOut` bound the record
of bytes that left the transmitter, `MaxRegisterIn` what waits for the guest while
both rings interleave; the larger states of each ring are those of the ring alone.
Three stores are enough for one to be overwritten in part from either side.
In `cpu_flow` the vectors, the reset vector, the entry point and the
targets are distinct, and 20 addresses are enough for a slot, its branch and the
instruction behind to differ and to wrap around; `Count` is shrunk to one value
there because it cannot influence the flow except through the timer's pending
bit. `cpu_clock` keeps both phases of the divider; addresses do not matter to the
clock. `cpu_modes` makes the timer fire on every step, so interrupts meet every
mode. Instances use no symmetry: addresses and counts are ordered.

Three TLB entries leave two for Random, so a refill can evict what another wrote
and wrap; two tasks exercise the ASID. Console lines of seven characters hold a
command with an argument and one character too many. The input queue grows once
and is then full: wrap, growth, failure to grow and refusal all occur. Two batch
lengths and three limits put the tick limit inside, at the end of and beyond a
batch. Six-bit ELF addresses make every sum wrap; two segments are enough to
overlap. Four controls form a chain, which pairwise overlap would not group; the
grouping thresholds are none, touching and near. Four-bit words have both signs,
the two extremes and a byte and a half word of different sizes, and all operand
pairs are covered; what a register holds before is minus one or a mixed pattern. In
the access part the address space is larger than RAM, so accesses fall outside it.

*Fairness.* `TxFairness` (`uart_rings`): the host keeps taking spans (weak fairness
of peek, strong fairness of a consume that takes at least one byte, since a guest
reset may withdraw the span any number of times) and callbacks return. `CpuFairSpec`
(`cpu_clock`): the run loops call `mipsel_emu_step` again and again (`runloop.c`,
`mipsel_emu_run_steps`); a paused machine is outside that specification.
`front_ends`: weak fairness of the run loop's own next step, which a loop without
blocking calls has, for `LoopEnds`; keys and signals are not fair, and the desktop
and the player get no fairness. Nothing is assumed fair about the guest or the user
otherwise: `HandlerReturns` is about a driver that goes on answering, which is its
hypothesis and not the specification's.

*Deadlock* is checked for the UART and the processor, which can never stop. It is
off in `inputs`, `front_ends`, `host` and `instructions`, where the code ends: the
run loop after quit, a search, a load, a walk, a reset that failed, a frame, a
finished player or session, an instruction or a list of accesses. In `uart_rings` a
program that has made its stores idles, which is a step of its own.

## 4. Findings

* **Merged dirty rectangle loses pixels** (`platform.c`, `framebuffer_mark_bytes`;
  run `framebuffer_merge`). The corner of the old rectangle is moved before its
  right and bottom edges are computed from it. Stores to pixel 1 and then to pixel 0
  leave a rectangle of one pixel; pixel 1 is never uploaded. The test marks a
  single store after each clear. The other framebuffer properties are about what
  holds nevertheless: the store itself is marked, and what the rectangle covers
  stays owed.
* **UART on interrupt input 7 erases the timer** (`platform.c`,
  `platform_update_interrupts`; run `cpu_uart_on_line_7`). `config.h` accepts the
  lines 0..7, `registers.h` puts the timer on IP7, and the UART's level is
  assigned to its bit before every instruction.
* **A key erases a reset** (`debugger.c`, run `run_loop_reset`). `r` sets a state that
  is acted on after the poll; a run key in the same poll overwrites it.
* **JALX in the last word of a region** (`op.c`, `op_jalx`; run `jalx_target`). J and JAL
  take the region from the delay slot's address, as the disassembler prints; JALX takes
  it from its own, and goes to the beginning of the region it is about to leave.

Two things the models show that no document of the repository speaks against, so no
run claims them wrong: in `FdtPatch`, a property before the root or behind it (only
a malformed tree has one) counts as one of `/chosen`, because the depth there equals
the initial `chosen_depth`; in `Desktop`, Run tests that memory is allocated, which
happens before any image is read, so after a first load that fails it executes
zeroed memory. The properties `FdtSafe` and `DeskSafe` say what holds besides.

## 5. Proofs

Each theorem holds for every value of the constants that the named assumptions
of its module allow: every size of a ring, every alphabet, any number of tasks,
pages, headers or lines, whatever the bounds of the runs. `PROJECT.json` lists the
results; the lemmas they rest on are in the same modules. Where a property is not
inductive, the invariant that makes it so is named below with the reason it is
needed. The bounds of the models (`MaxOut`, `MAX_EVENTS`, ...) are constants of the
theorems too, so none of them is a restriction.

### UART

*Receive ring* (`UartProofs`). The inductive invariant `RxInv` joins the type
invariant with "unread plus lent bytes fit the mode's capacity" and "the span the
device honours starts at the ring's tail and does not run past the array's end";
the capacity conjunct alone is not inductive, since a reserve is bounded by the
wrap as well. Disjointness follows from it in every state (`SpanClearOfUnread`):
counted from the head, the unread slots come first and the span after them, and
together they do not go round the ring. `RxRingIsSafe` joins these. `RxKeepsPromises`
is about steps, and `RxIsQueue` is the refinement of `ByteQueue`: one lemma per
operation says what it does to the sequence of unread bytes, which the mapping
builds slot by slot. Ring arithmetic is reduced to lemmas about `%`.

*Transmit ring* (`UartProofs`). `TxInv` is the type invariant with the span's place
(counters and span first, since nothing else decides them), "THRE means empty" and
"a callback drains": the latch is set in the middle of a consume, with the callback
pending, so what it means has to be said for that state as well. `TxIsStream` is the
refinement of `ByteStream`; `TxKeepsPromises` the steps' side.

*The device.* `UartIsBothRings` shows that a behaviour of `Uart16550` is one of each
ring: a step of the whole is, for each ring, one of its steps or none, also where both
share the FIFO mode. The rings' theorems are thereby theorems of the device
(`UartRefines`, `UartKeepsPromises`). `UartKeepsRequests`, that an
interrupt request persists until acknowledged, is then a matter of cases: which
accesses can turn each source off. `UartWorkFalls` is the variant behind `HandlerReturns`:
what is left to answer (`Work`) is a number, falls by one with each answer in the order of
IIR, and does not grow by anything the host does about the transmitter. It needs
`ThreMeansEmpty`: a byte that waits and the request that follows it count once. The step
from the variant to "eventually" is liveness and stays with TLC.

*The bus.* `BusIsExact`, for every program of aligned stores and resets (`BusSpec`) and every
size and place of the windows. The history is written as functions of the log (`ByteIn`,
`ToIn`, `DlabIn`, ...); one lemma each says what one more store adds, for which a set of positions
in the log needs a greatest element (`MaxOfSome`). An aligned access lies in a window or
outside it (`AccessIsWhole`), and reaches one register or none (`StoreReaches`). The theorem
needs that no register lies in memory (`BusAssumption`): the aperture is asked first, so a
register in it would be unreachable, and RAM behind the registers would not be flat.
The configuration shipped satisfies it and nothing in the code enforces it; RAM may
overlap the aperture.

### Processor

*`CpuProofs`* has one lemma per operator of `Cpu` for each invariant: the clock, the
sampling of the interrupt lines and a CP0 write leave the pipeline alone, the
completions and exception entries re-establish it, and a step is one of these followed
by the clock (`StepOutcome`, `StepConsistent`, `StepTimer`, `StepConfined`: *whatever
the instruction, what the step hands to `update_cycle` has the property*). `CpuTypeOK`
and `PipelineConsistent` are inductive as they stand, the latter relative to the former;
`CpuIsSafe` joins them. The timer theorems and `UserConfined` carry the hypothesis
`HardwareLine` (the UART on one of the lines 2 to 6): without it they are false, as
`cpu_uart_on_line_7` shows. That Cause.TI and IP7 agree (`CpuTimerLatchVisible`) is the
invariant the proof of `TimerNotLost` rests on; it is proved and not run.

*Edits.* `CpuEditHeals`: `EditHeals` is inductive, because a step re-establishes
`PipelineConsistent` *whatever* `next_pc` was before (`StepHeals`, which is why
`StepConsistent` must not assume it), and the host's other commands either
leave the pipeline alone or replace all of it (`HostKeepsOrReplaces`).

*Refinement.* `CpuRefinesFlow`: `Cpu` implements `PreciseFlow`.
`View(s)` is the refinement mapping as a function of a register file; one lemma
per operator says what it does to the view, `StepFlows` that every step is one of
six moves of the view, and `FlowsIsFlow` that each move is an action of
`PreciseFlow`. The argument needs `PipelineConsistent` (a completing instruction
outside a slot goes to the next address, entering a scheduled reset is a stutter)
and two facts about addresses that wrap: the branch is four bytes before its slot
(`BranchOfSlot`) and a branch not taken continues eight bytes on (`TwoSteps`).

### Memory (`MemoryProofs`)

*TLB.* `TlbIsSafe`, for any number of entries, pages and address spaces. Every entry is
of one of three kinds: the wired pair, *parked* (at an address of its own that no
access reaches) or a user's (`KindsOK`), and no two match the same access (`NoTwins`),
so that the walk in index order finds the only entry there is. What a user's entry
says is what the page table says, with one exception: between the kernel's change of
its table and the flush, the page being flushed is `Exempt`. The rest of the invariant is
what the kernel knows in each phase: that a TLBP that missed means no entry matches,
that the page asked for is in the address space that runs, that `Wired` protects
entry 0 from the moment it is written. Pairs of pages and large pages reduce to facts
about quotients (`DivUnique`).

*LL/SC.* `LinkedUpdatesAtomic`, that `LlSafe` always holds, for any set of tasks and any
non-empty set of words. The invariant joins the type invariant with `NoLostUpdate`
and `LinkIsOwn`: if the link is set and the running context is about to store, the
link names its word and the word still holds what it read. Exceptions, ERET and the
monitor break the link, and the kernel's plain store leaves it alone, which is
harmless only because the kernel is then not between an LL and its SC.

*Loads and stores.* `AccessesAreExact`, for every size of RAM and of the address space.
`MovedBy` gives the bytes of the access that one instruction moves, by kind and
alignment; the lemmas about each handler are stated in it, the two halves of a pair
cover the word between them whatever the alignment, and the invariant `LsInv` says after
each instruction what has arrived so far (`LoadedSoFar`, `StoredSoFar`), since a fault
may come between the halves. A fill is a prefix that grows chunk by chunk.

### Front ends (`FrontEndProofs`)

*Run loop.* One invariant per family of theorems, each relative to the loop's
control point: `StepInv` (steps owed against steps taken), `QuitInv`, `PollInv` (the
position in a batch bounds what ran since the last poll), `LimitInv` (ticks counted
never pass the limit), `ShownInv` (only inside a batch, or behind the last step, is
something not shown), `BootInv` (all parts of the board are as old as each other) and
the type invariant in three parts. `StopIsExact` and `LoopIsSafe` join them to the
properties that `front_ends` checks. They hold for every batch length and limit and
whatever keys arrive.

*Desktop.* `DeskIsSafe`. To `DeskSafe` the invariant adds that no part is of a load
that has not begun and that the saved registers are those of the processor that is
there: otherwise the table could compare two guests once a load has replaced one.

### Images and reset (`BootProofs`)

*ELF.* `ElfIsSafe`, for every image and set of reserved ranges. The first pass leaves
headers that are valid and pairwise clear of each other, of the reserved ranges and of
RAM's end, with sums that may wrap (`HeadersValid`), and one segment for each header
that is loaded (`SegmentsValid`). The second needs both: what RAM holds is, header by
header and chunk by chunk, what the image says (`PartlyLoaded`), and no later copy can
touch an earlier one.

*Device tree.* `FdtIsSafe`. The walk keeps a depth where the tree has a path. The
invariant relates the two, and with them the code's `chosen_depth` (`AtChosen`: the
depths are equal exactly when `/chosen` itself is open, or no node is), and says that
each property found was read in the right node (`ReadRight`) and none was passed over.

*Placement.* The search is right for any finite set of ranges and any positive
alignment. `PlaceInv` says that no place lies above the current candidate
(`NothingAbove`) and that each attempt used so far jumped below a range of its own
(`AttemptsPaid`: the ranges passed are at least as many as the attempts, by
cardinality), so the bound on the attempts is never what refuses an image.
`PlacementExact` joins the two halves as `PlaceSafe`.

*Reset.* `BootIsSafe`: for every RAM, place of the tree, kernel, tree and
initramfs the guest that starts finds each image whole where it is told. That the
images are whole is not inductive: it needs, per stage, what has been loaded so far
(`StageOK`), that RAM holds exactly that (`Contents`), that an accepted kernel is
clear of the tree's range (`KernelClear`), and that the search ran on the ranges of
both (`SearchAsked`), so that its result is free of them. The search's invariant is
carried through the stage "search", and the copy that follows can then overwrite
nothing. That the segments an ELF load accepts lie in RAM is an assumption of `Boot` on
its kernels; `ElfIsSafe` proves it of the loader.

### Display, player and UI tree (`HostProofs`)

*Framebuffer.* `FbIsSafe` and `FbKeepsDebt`, for every size of the screen and of its
rows. Lemmas about `UiRect` say which pixels an intersection and a union have, for
rectangles with negative corners and empty ones as well; `FbInv` adds that what is to be
uploaded is nothing or a rectangle with a size and on the screen, without which an
upload could pay off a debt it does not cover. That *everything* unseen is marked is
false (`framebuffer_merge`).

*Player.* `PlayerIsSafe`, for every surface, speed, limit of frames and set of groupings.
`PicturesOK` says of the window what `FbInv` cannot say of the framebuffer: wherever
it differs from the surface, the surface is marked. That phase 2 leaves no trail needs
`StartsBlank` (its first frame is drawn on a blank surface) and that the core lies in
the box, which alone is erased (`CoreInBox`); that the frames are exact needs that the
limit is never reached before the loop has ended (`FramesOK`). That a report compares
with the frame before holds because what was last reported is what was last grouped.

*UI tree.* `TreeIsSafe`, for any number of controls, anywhere, any threshold and any
surface. The union-find forest has a root for each control and a rank that rises towards
it (`IsForest`), so a chain of parents never comes back and `set_find()` ends within
COUNT steps, by the pigeonhole principle (`RootIsFound`). Along the loop over pairs, what
is joined is in one component, and what was found near is joined (`Agrees`); when all
pairs are compared, roots are components (`RootsAreComponents`). A component is defined
by COUNT rounds from its control: it is closed by then because every round before adds
a control (`ComponentIsClosed`), it is the least closed set (`ComponentIsLeast`), and
components are classes (`ComponentsAreClasses`). `Tight` carries the bounds through the
loop over controls; no container or leaf is refused, because clipped rectangles lie in
their union (`NeverRefused`). `TreeOf` says of the nodes that each lies where its control
does, that those of one group ascend and that none is missing. With it the topmost control
is seen although painting goes group by group, as controls that overlap are in one group
(`OverlappingAreNear`, `TopmostIsSeen`). The code's inner loops are written as functions
on an interval, and one lemma says that such a loop has a result (`LoopHasResult`).

### Trace, panes of text and the session (`TerminalProofs`)

*Trace.* `TraceIsSafe`, for every size of the rings. Four lemmas describe a ring by its
lines from the oldest to the newest (`RingAdds`, `AddedToNewest`, `NewestAdds`) and by
what a window on it shows (`DrawnIs`). The invariant says which event the open
instruction is and that a held exception belongs to it (`InstructionOpen`), that numbers
run without a gap (`TraceNumbers`), and that file, pane and list each hold what the log
says (`RecordsHold`), the pane and the list from where they were last cleared.

*Panes.* `PanesIsSafe`, for every size of the rings, length of a line, height of the
terminal and length of the text. `PaneOK` says that a pane's growing line is the last,
unfinished line of its text and its ring the newest of the finished ones. What keeps it
is a theory of `LinesOf`, which is defined by positions and not by a loop: one character
more leaves the heads of lines before it alone (`HeadsGrow`), so it makes a line longer,
starts one or ends one (`LinesGrow`); a column's remainder tells how long the growing
line is, which is what `Full` compares. An answer of the monitor is a run of panes, one
per byte, beside the run of its text (`OutputIs`). Of the scroll position `ScrollOK`
keeps that it does not pass the oldest line *while the window is shown*: a resize may
leave it behind in a hidden one, and opening the monitor resets it. The windows then
follow from `DrawnIs`.

*Session.* `SessionIsSafe`. `Session` has no constants, so this is no larger an instance
than the run's; what it adds is the reason. `SessionInv` tells from the place in
`main()` what is held (`HeldOK`), that nothing held lacks what it needs (`Closed`), how far
the machine is set up and what the result will be. One lemma per step of the start-up
and of the way out; `CreateDisplay` and `debugger_shutdown` take the first of several
things, which is picked by a least counterexample (`Least`).

### Input and monitor (`InputProofs`)

*Host queue.* `InputIsSafe` and `InputSignalsLoss`, for every size of the queue, its
limit and the FIFO. A host is described by what waits, FIFO first (`Waiting`), in a well
formed ring (`IsHost`); `FlushedIs`, `GrowIs` and `EnqueueIs` say what each operation
does to that sequence, the second that a grown and straightened ring has the same bytes.
A `read()` is a loop over its characters inside one action, written as a run of states;
what holds along it (`Looping`) is carried by induction on an interval. `Accounted` is
the invariant proper: the characters accepted appear in order, and each is waiting or
has gone. Loss is signalled because a byte dropped raises the overrun flag and nothing
the host does takes it down.

*Monitor.* `ConsoleIsSafe` and `ConsoleChangesAsTyped`, for every alphabet and length of
line. The buffer is the beginning of the line as typed, and how much of it is missing is
known (`Cut`); the scan of a line finds its words, by induction over the line
(`TokensAreWords`); a command changes what it names and no more (`Named`). One
strengthening was needed: the target's mode is fixed while a span is executed
(`OneMode`), or the result of the span could not be told from its commands.

### Assumptions on constants

What each states is what the code or its configuration fixes. Page and ASID numbers
are naturals and address spaces end (`PagesAssumption`); addresses of the ELF
model make a word of which kseg0 is an eighth, and RAM fits into it (`ElfAssumption`);
batches and buttons step at least once (`DesktopAssumption`); rings have a slot
(`TraceAssumption`, the UART's sizes); the player's controls form finitely many groups,
and always some (`PlayerAssumption`); the UI tree's controls are rectangles of integers, at
least one, and its surface has a size (`TreeAssumption`); coordinates are integers without a
width, so what is proved of rectangles is of coordinates whose sums fit into an `int`; RAM and address space are made of words of four
bytes (`SizesAssumption`); control characters are no printable ones (`ConsoleAssumption`); windows have sizes
of whole words, and no register lies in memory (`BusAssumption`).

### Only model-checked

* All liveness (`WaitingGuestSeesThre`, `HandlerReturns`, `TimerDelivered`, `LoopEnds`): out of the prover's reach.
* `ArithmeticExact`: the operators work on bits through the community module `Bitwise`,
  which is recursive.
* `DecodeAgrees`: a finite table; the run covers every opcode and selector.

## 6. Not modelled

*Components.* lvgl-demo, the Cortex-M start-up code and register headers, build and guest
scripts: I/O, constants and text, with no order of events to check. The block pool of
sdl-player is built by no target, and `esp32_effects.c` is compiled but called by
nothing.

*Text.* The operands' texts of the disassembler beyond the first register and targets,
`format.c`, the layout and colours of curses and Qt (its widgets, text limits and memory
map view), and, in `Trace`, the registers an instruction changed.

*UART and bus.* What a value of DLL, DLM and MCR means to a line (the emulated device
has none). SWL and SWR are read-modify-writes on the bus: on the UART's window they
would pop RBR; `LoadStore` has them over RAM only. A frame buffer whose size is not a
multiple of four (none is configured) would refuse a word store across its end. A bound
buffer larger than the screen, blits and fills.

*Processor.* A control transfer inside a delay slot. A branch that is not taken under an
edited `next_pc` goes on behind its slot at the edited address plus four, which
`EditHeals` allows: the edit decides where the flow goes, the model only asks that the
pipeline is whole.

*Decoding.* The two decoders differ on the words of `KnownToDiffer`: WAIT
(executed as an idle step, printed as unusable), the coprocessor numbers of MOVF, MOVT
and COP1X, and reserved fields of MULT, CLZ, CLO, SEB and RDHWR, at which only the
handlers look. `tests/instruction_test.c` asserts the exception (lines 66, 81, 82, 88 to
90, 120 and 121), so the text names an instruction where the processor takes a Reserved
Instruction exception. `disasm.h` promises to print reserved encodings as such but does
not say which are, so this is recorded here and not as a finding.

*Front ends.* "Clear UART" of the desktop clears only the view. A reset by key leaves the
list of exceptions and the frame buffer as they are, where the desktop's reset clears
the latter; neither is documented. SIGHUP and SIGQUIT are not handled by the debugger
and end it as they would any process. Frame pacing and frames per second of the player,
and the pixels of its whole-frame phases.

## 7. What could follow

1. `UartInput` feeding the receive ring of `UartRx` in place of its own FIFO, and
   `RunLoop` driving `Framebuffer`'s service.
2. `LoadStore` on top of `Tlb`: unaligned pairs whose second half misses, refilled and
   retried.
3. An abstract timer for `RunLoop` (ticks asked for, ticks given) as a refinement.

-------------------------------- MODULE Bus --------------------------------
(***************************************************************************)
(* The physical addresses as loads and stores see them (platform.c): the   *)
(* aperture of the frame buffer, the window of the UART's registers        *)
(* (uart16550.c) and RAM, asked in this order, and nothing elsewhere.      *)
(*                                                                         *)
(* Alignment is checked before (LoadStore).  The registers of the UART are *)
(* the plain ones and DLAB, which selects them; what the others do is in   *)
(* Uart16550.  A value is its four bytes, the lowest first.                *)
(***************************************************************************)
EXTENDS Integers, Sequences, FiniteSetsExt

CONSTANTS
  MEMORY_SIZE,             \* bytes of RAM, at address 0
  FB_BASE, FB_CAPACITY,    \* the aperture
  UART_BASE,
  MAX_STORES               \* bound on the stores of a behaviour

REG_STRIDE == 4
REGISTER_COUNT == 8

\* No register lies in memory; the code leaves that to who configures it.
ASSUME BusAssumption ==
  /\ \A n \in {MEMORY_SIZE, FB_BASE, FB_CAPACITY, UART_BASE} : n \in Nat \ {0} /\ n % 4 = 0
  /\ MEMORY_SIZE <= UART_BASE
  /\ \/ UART_BASE + REGISTER_COUNT * REG_STRIDE <= FB_BASE
     \/ FB_BASE + FB_CAPACITY <= UART_BASE

VARIABLES
  ram, framebuffer,
  latch,                   \* the registers
  thr,                     \* bytes given to the transmitter since the last reset
  log                      \* ghost: the stores and resets so far

bus_vars == <<ram, framebuffer, latch, thr, log>>

-----------------------------------------------------------------------------
\* The registers.
Dlab == latch.lcr >= 128

Selected(reg) ==
  CASE reg = 0 -> IF Dlab THEN "divisor_latch_low" ELSE "thr"
    [] reg = 1 -> IF Dlab THEN "divisor_latch_high" ELSE "ier"
    [] reg = 3 -> "lcr"
    [] reg = 4 -> "mcr"
    [] reg = 7 -> "scr"
    [] OTHER -> "none"

Kept(field, byte) ==
  CASE field = "ier" -> byte % 16
    [] field = "mcr" -> byte % 32
    [] OTHER -> byte

\* Mutant: only the low divisor byte hides behind DLAB.
write_register_IerThroughDlab(reg, byte) ==
  LET field == IF reg = 1 THEN "ier" ELSE Selected(reg)
  IN  /\ latch' = IF field \in DOMAIN latch
                  THEN [latch EXCEPT ![field] = Kept(field, byte)] ELSE latch
      /\ thr' = IF field = "thr" THEN Append(thr, byte) ELSE thr

write_register(reg, byte) ==
  LET field == Selected(reg)
  IN  /\ latch' = IF field \in DOMAIN latch
                  THEN [latch EXCEPT ![field] = Kept(field, byte)] ELSE latch
      /\ thr' = IF field = "thr" THEN Append(thr, byte) ELSE thr

Line(mask) == (latch.mcr \div mask) % 2

\* In loopback RTS, DTR, OUT1 and OUT2 come back as CTS, DSR, RI and DCD;
\* otherwise CTS, DSR and DCD are set.
modem_status ==
  IF Line(16) = 0 THEN 16 + 32 + 128
  ELSE 16 * Line(2) + 32 * Line(1) + 64 * Line(4) + 128 * Line(8)

\* The plain registers; RBR, IIR and LSR are in Uart16550.
read_register(reg) == IF reg = 6 THEN modem_status ELSE latch[Selected(reg)]

-----------------------------------------------------------------------------
\* The devices.  The subtractions are of unsigned numbers, behind a comparison.
framebuffer_range_valid(a, w) == a >= FB_BASE /\ a - FB_BASE <= FB_CAPACITY - w

uart16550_mmio_contains(a, w) ==
  a >= UART_BASE /\ a - UART_BASE <= REGISTER_COUNT * REG_STRIDE - w

address_range_valid(a, w) == w <= MEMORY_SIZE /\ a <= MEMORY_SIZE - w

Loaded(bytes, at, w) == [i \in 0 .. 3 |-> IF i < w THEN bytes[at + i] ELSE 0]
Stored(bytes, at, w, value) ==
  [i \in DOMAIN bytes |-> IF i - at \in 0 .. w - 1 THEN value[i - at] ELSE bytes[i]]

Zero == [i \in 0 .. 3 |-> 0]

\* A register is one byte at the first of its four addresses.
uart16550_mmio_read(a) ==
  LET offset == a - UART_BASE
  IN  IF offset % REG_STRIDE = 0
      THEN [Zero EXCEPT ![0] = read_register(offset \div REG_STRIDE)] ELSE Zero

platform_bus_read(a, w) ==
  IF framebuffer_range_valid(a, w) THEN Loaded(framebuffer, a - FB_BASE, w)
  ELSE IF uart16550_mmio_contains(a, w) THEN uart16550_mmio_read(a)
  ELSE IF address_range_valid(a, w) THEN Loaded(ram, a, w) ELSE Zero

uart16550_mmio_write(a, value) ==
  LET offset == a - UART_BASE
  IN  IF offset % REG_STRIDE = 0 THEN write_register(offset \div REG_STRIDE, value[0])
      ELSE UNCHANGED <<latch, thr>>

platform_bus_write(a, w, value) ==
  LET in_aperture == framebuffer_range_valid(a, w)
      in_registers == ~in_aperture /\ uart16550_mmio_contains(a, w)
      in_ram == ~in_aperture /\ ~in_registers /\ address_range_valid(a, w)
  IN  /\ framebuffer' = IF in_aperture THEN Stored(framebuffer, a - FB_BASE, w, value)
                        ELSE framebuffer
      /\ IF in_registers THEN uart16550_mmio_write(a, value) ELSE UNCHANGED <<latch, thr>>
      /\ ram' = IF in_ram THEN Stored(ram, a, w, value) ELSE ram

-----------------------------------------------------------------------------
ResetLatch ==
  [divisor_latch_low |-> 0, divisor_latch_high |-> 0, ier |-> 0, lcr |-> 0, mcr |-> 0, scr |-> 0]

BusInit ==
  /\ ram = [i \in 0 .. MEMORY_SIZE - 1 |-> 0]
  /\ framebuffer = [i \in 0 .. FB_CAPACITY - 1 |-> 0]
  /\ latch = ResetLatch /\ thr = <<>> /\ log = <<>>

Store(a, w, value) ==
  /\ Len(log) < MAX_STORES
  /\ platform_bus_write(a, w, value)
  /\ log' = Append(log, [op |-> "store", a |-> a, w |-> w, value |-> value])

platform_reset ==
  /\ Len(log) < MAX_STORES
  /\ latch' = ResetLatch /\ thr' = <<>>
  /\ log' = Append(log, [op |-> "reset"])
  /\ UNCHANGED <<ram, framebuffer>>

\* The stores of a program: address, width and value.
BusNext(stores) == platform_reset \/ \E s \in stores : Store(s[1], s[2], s[3])

\* Every aligned store there is.
Stores ==
  {s \in Nat \X {1, 2, 4} \X [0 .. 3 -> 0 .. 255] : s[1] % s[2] = 0}

BusSpec == BusInit /\ [][BusNext(Stores)]_bus_vars

-----------------------------------------------------------------------------
\* What the history says, without windows and without selection.
Last(S, none, Of(_)) == IF S = {} THEN none ELSE Of(Max(S))

ByteAt(x) ==
  LET hits == {i \in DOMAIN log : log[i].op = "store" /\ x - log[i].a \in 0 .. log[i].w - 1}
  IN  Last(hits, 0, LAMBDA i : log[i].value[x - log[i].a])

Booted == Last({i \in DOMAIN log : log[i].op = "reset"}, 0, LAMBDA i : i)

\* Stores to a register since the last reset.
To(reg) == {i \in Booted + 1 .. Len(log) : log[i].a = UART_BASE + reg * REG_STRIDE}
LowByte(i) == log[i].value[0]
DlabBefore(i) == Last({k \in To(3) : k < i}, FALSE, LAMBDA k : LowByte(k) >= 128)

Programmed(S) == Last(S, 0, LowByte)
Divisor(reg) == Programmed({i \in To(reg) : DlabBefore(i)})
Given(reg) == {i \in To(reg) : ~DlabBefore(i)}

Register(reg) == platform_bus_read(UART_BASE + reg * REG_STRIDE, 4)[0]

Memory == (0 .. MEMORY_SIZE - 1) \union (FB_BASE .. FB_BASE + FB_CAPACITY - 1)
Aligned == {p \in Memory \X {1, 2, 4} : p[1] % p[2] = 0}

(* Every aligned load of memory gives, byte for byte, what was last stored  *)
(* at these addresses, whatever the widths were and however close to the    *)
(* edge of a window.                                                        *)
MemoryIsFlat ==
  \A p \in Aligned : \A i \in 0 .. p[2] - 1 :
    platform_bus_read(p[1], p[2])[i] = ByteAt(p[1] + i)

(* A driver that programs the divisor sends nothing and enables nothing,    *)
(* and one that sends and enables leaves the divisor alone; every plain     *)
(* register reads back what was last written to it.                         *)
RegistersAreApart ==
  /\ latch.divisor_latch_low = Divisor(0)
  /\ latch.divisor_latch_high = Divisor(1)
  /\ latch.ier = Programmed(Given(1)) % 16
  /\ Len(thr) = Cardinality(Given(0))
  /\ \A i \in Given(0) : thr[Cardinality({k \in Given(0) : k <= i})] = LowByte(i)
  /\ Dlab = DlabBefore(Len(log) + 1)
  /\ Dlab => Register(0) = Divisor(0) /\ Register(1) = Divisor(1)
  /\ Register(3) = Programmed(To(3)) /\ Register(7) = Programmed(To(7))

(* The lines a driver probes for: RTS and OUT2 in loopback come back as CTS *)
(* and DCD and nothing else (Linux tests for this); without loopback the    *)
(* modem is ready whatever the outputs are.                                 *)
LoopbackAnswers ==
  LET mcr == Programmed(To(4)) % 32
  IN  /\ mcr = 16 + 8 + 2 => Register(6) = 128 + 16
      /\ mcr < 16 => Register(6) = 128 + 32 + 16

(* Memory is flat, and the registers keep what they were given.             *)
BusExact == MemoryIsFlat /\ RegistersAreApart /\ LoopbackAnswers
=============================================================================

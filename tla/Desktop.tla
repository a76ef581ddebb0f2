------------------------------- MODULE Desktop -------------------------------
(* The desktop front end (gui_main.cpp): loading and resetting a guest from *)
(* files that may be missing or bad, running it from a timer, pausing and   *)
(* stepping, and the table that marks changed registers.  Every part of the *)
(* machine carries the number of the load that last put it in place, zero   *)
(* for what calloc() left.                                                  *)
EXTENDS Integers, Sequences

CONSTANTS
  BATCH,      \* steps of one timer tick (4000)
  STEP_MANY,       \* steps of the button Step 100
  MaxLoads,   \* bound: attempts to load
  MaxTicks    \* bound: steps in the life of one guest

ASSUME DesktopAssumption ==
  {BATCH, STEP_MANY} \subseteq Nat \ {0} /\ {MaxLoads, MaxTicks} \subseteq Nat

VARIABLES
  mode,      \* status->state; "none" before the first allocation
  gui_ticks, \* status->ticks
  part,      \* who put each part of the machine in place
  told,      \* what the processor's registers and the DTB tell the kernel
  snapshot,  \* the registers in previous[]: the load they are of, or NoTable
  compared,  \* what the table's Previous column was filled from, or NoTable
  loads,     \* attempts so far
  failed,    \* ghost: where the last load failed, or ""
  executed   \* ghost: instructions executed since the guest was put in place

deskVars == <<mode, gui_ticks, part, told, snapshot, compared, loads, failed, executed>>

GuestParts == {"ram", "kernel", "dtb", "initramfs", "cpu", "uart", "screen", "text", "monitor"}
NoTable == -1

\* What reset() may fail at, in order.
Order == <<"options", "kernel file", "kernel", "dtb file", "dtb",
           "initramfs file", "initramfs", "patch">>
Place(stage) == CHOOSE i \in DOMAIN Order : Order[i] = stage
Success == Len(Order) + 1

\* The stages that a choice of files goes through.
Needed(dtb, initramfs) ==
  {"options", "kernel file", "kernel"}
    \cup (IF dtb THEN {"dtb file", "dtb"} ELSE {})
    \cup (IF initramfs THEN {"initramfs file", "initramfs", "patch"} ELSE {})

\* An initramfs without a DTB is refused, and nothing else is at "options".
Outcomes(dtb, initramfs) ==
  IF initramfs /\ ~dtb THEN {Place("options")}
  ELSE {Place(s) : s \in Needed(dtb, initramfs) \ {"options"}} \cup {Success}

\* RAM is cleared once the kernel's file has been read.
Cleared(n) == n > Place("kernel file")

\* Mutant: the screen keeps the last guest's picture.
renewed_but_screen(p, k, n) ==
  IF n = Success /\ p # "screen" THEN k ELSE part[p]

\* Registers, screen and text are renewed when all the images are in place.
Renewed(p, k, n) == IF n = Success THEN k ELSE part[p]

\* allocate() makes the UART and the monitor anew in every attempt.
AfterGuiReset(k, n, dtb, initramfs) ==
  [p \in GuestParts |->
     CASE p \in {"uart", "monitor"} -> k
       [] p = "ram" -> IF Cleared(n) THEN k ELSE part[p]
       [] p \in {"kernel", "dtb", "initramfs"} ->
            IF p \in Needed(dtb, initramfs) /\ n > Place(p) THEN k
            ELSE IF Cleared(n) THEN 0 ELSE part[p]
       [] OTHER -> Renewed(p, k, n)]

Forgotten(n) == IF n = Success THEN NoTable ELSE snapshot

\* refresh_views(): the table compares with what was saved, and saves what
\* it shows, if there is a processor.
refresh_views(cpu, table) ==
  compared' = table /\ snapshot' = IF mode' = "none" THEN table ELSE cpu

DeskInit ==
  /\ mode = "none" /\ gui_ticks = 0 /\ loads = 0 /\ executed = 0
  /\ part = [p \in GuestParts |-> 0] /\ told = {}
  /\ snapshot = NoTable /\ compared = NoTable /\ failed = ""

\* Memory for the guest cannot be had.
AllocationFails ==
  /\ mode = "none" /\ loads < MaxLoads
  /\ loads' = loads + 1
  /\ UNCHANGED <<mode, gui_ticks, part, told, snapshot, compared, failed, executed>>

ticks_after(n) == IF n = Success THEN 0 ELSE gui_ticks

\* The buttons Load and Reset, and the monitor's command reset.
load_reset(dtb, initramfs) ==
  /\ loads < MaxLoads
  /\ loads' = loads + 1
  /\ \E n \in Outcomes(dtb, initramfs) :
       LET k == loads + 1
       IN  /\ part' = AfterGuiReset(k, n, dtb, initramfs)
           /\ mode' = IF n = Success THEN "STEPPING"
                      ELSE IF mode = "none" THEN "RESET" ELSE mode
           /\ gui_ticks' = ticks_after(n)
           /\ failed' = IF n = Success THEN "" ELSE Order[n]
           /\ executed' = IF n = Success THEN 0 ELSE executed
           /\ told' = IF n = Success THEN {p \in {"dtb", "initramfs"} :
                                             p \in Needed(dtb, initramfs)}
                      ELSE told
           /\ IF n = Success THEN refresh_views(k, Forgotten(n))
              ELSE UNCHANGED <<snapshot, compared>>

\* The button Run, and the command run, which shows the registers as well.
resume ==
  /\ mode # "none"
  /\ mode' = "RUNNING"
  /\ UNCHANGED <<snapshot, compared>> \/ refresh_views(part["cpu"], snapshot)
  /\ UNCHANGED <<gui_ticks, part, told, loads, failed, executed>>

pause ==
  /\ mode # "none"
  /\ mode' = "STEPPING"
  /\ refresh_views(part["cpu"], snapshot)
  /\ UNCHANGED <<gui_ticks, part, told, loads, failed, executed>>

Executes(count) ==
  gui_ticks' = gui_ticks + count /\ executed' = executed + count

\* The buttons Step and Step 100.
step(count) ==
  /\ mode # "none" /\ gui_ticks < MaxTicks
  /\ mode' = "STEPPING"
  /\ Executes(count)
  /\ refresh_views(part["cpu"], snapshot)
  /\ UNCHANGED <<part, told, loads, failed>>

\* The timer, every 16 ms, also while a message box is open.
tick ==
  /\ IF mode = "RUNNING" THEN gui_ticks < MaxTicks /\ Executes(BATCH)
     ELSE UNCHANGED <<gui_ticks, executed>>
  /\ UNCHANGED <<mode, part, told, loads, failed>>
  /\ refresh_views(part["cpu"], snapshot)

DeskNext ==
  \/ AllocationFails
  \/ \E dtb, initramfs \in BOOLEAN : load_reset(dtb, initramfs)
  \/ resume \/ pause \/ tick
  \/ \E count \in {1, STEP_MANY} : step(count)

DeskSpec == DeskInit /\ [][DeskNext]_deskVars

(***************************************************************************)
(* Properties                                                              *)
(***************************************************************************)
DeskTypeOK ==
  /\ mode \in {"none", "RESET", "RUNNING", "STEPPING"}
  /\ gui_ticks \in 0 .. MaxTicks + BATCH + STEP_MANY
  /\ part \in [GuestParts -> 0 .. MaxLoads]
  /\ told \in {{}, {"dtb"}, {"dtb", "initramfs"}}
  /\ {snapshot, compared} \subseteq NoTable .. MaxLoads

(* As long as no load has failed after clearing RAM, the processor and all *)
(* that it was told about, the kernel, the device tree, the initramfs, the *)
(* screen and the text the UART sent, come from one and the same load: no  *)
(* sequence of pauses, steps and loads refused before that point mixes two *)
(* guests.                                                                 *)
OneGuest ==
  part["ram"] = part["cpu"] /\ part["cpu"] # 0 =>
    /\ \A p \in {"kernel", "screen", "text"} \cup told : part[p] = part["cpu"]
    /\ \A p \in {"dtb", "initramfs"} \ told : part[p] = 0

(* The counter in the status bar is the number of instructions that the    *)
(* guest has executed, over resets, batches and steps.                     *)
CountsTheGuest == gui_ticks = executed

(* The table marks a register as changed only against the same guest.      *)
ComparesOneGuest == compared \in {NoTable, part["cpu"]}

(* In every state the window is well formed, shows and counts one guest,    *)
(* and compares its registers with that guest's own.                        *)
DeskSafe == DeskTypeOK /\ OneGuest /\ CountsTheGuest /\ ComparesOneGuest
=============================================================================

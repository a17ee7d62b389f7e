# TLA+ models of SkyEye for LPC2300

SkyEye is a single-threaded simulator of ARM boards; this repository is the
fork that adds the NXP LPC23xx. The core loop (`ARMul_Emulate32`) samples the
interrupt inputs, executes one instruction, and calls `io_do_cycle`, which runs
the machine's `lpc2300_io_do_cycle`. Guest loads and stores to peripheral
addresses call `lpc2300_io_read_word` and `lpc2300_io_write_word`. Nothing runs
in parallel on the host, yet the simulated machine is concurrent: the devices
move between any two accesses of the guest's handlers, and the host delivers
and accepts UART bytes when it likes. That is where the behaviour is hard to
test, and what these models are about.

All paths below are relative to `src/src/`; `lpc2300.c` is
`arch/arm/mach/skyeye_mach_lpc2300.c`, and `armsupp.c`, `arminit.c`,
`armemu.c`, `armio.c` are in `arch/arm/common/`, `arm920t_mmu.c`, `tlb.c`,
`cache.c` and `wb.c` in `arch/arm/common/mmu/`, `dev_flash_intel.c` in
`device/flash/` and `nandflash_smallblock.c` in `device/nandflash/`.

## 1. Inventory

| Component | State | Operations | Correct when |
|---|---|---|---|
| VIC (`lpc2300.c`) | `lpc2300_vic_t`, `NirqSig`, `NfiqSig` | `lpc2300_update_int`, register writes, end of interrupt (write of VICVectAddr) | CPU inputs agree with the status registers; FIQ over IRQ; no priority inversion; levels nest; an end of interrupt retires the handler's own request |
| UARTs (`lpc2300.c`) | `lpc2300_uart_t` with a 16-byte transmit ring | receive poll and transmit in the cycle, register reads with side effects, THR/IER/LCR writes | no byte lost, repeated or reordered; a raised line has a cause; the interrupt handshake never blocks |
| Timers (`lpc2300.c`) | `lpc2300_timer_t` | prescaler, counter and match actions in the cycle, timer acceleration, register writes | a raised line has a flag; acceleration skips no match and never stops time; a match is served |
| Machine (`lpc2300.c`) | `lpc2300_io_t`, `uartcnt`, PCONP | reset, `lpc2300_io_do_cycle`, address dispatch | the loops over devices compose as the single devices do |
| ARM modes (`armsupp.c`, `arminit.c`, parts of `armemu.c`) | `Reg`, `RegBank`, `Spsr`, `Mode`, `Bank`, flags | `ARMul_SwitchMode`, `ARMul_CPSRAltered`, `ARMul_Abort`, MSR, return, LDM/STM with `^` | the copying between live registers and banks is invisible; user mode is confined |
| I/O dispatch (`armio.c`) | a prescaler | `io_do_cycle`, word and byte access | a cycle happens again and again between accesses |
| UART host framework (`device/uart/`) | device table | `skyeye_uart_read`, `skyeye_uart_write` | a call transfers one byte or none |
| ARM event list (`armsupp.c`) | `EventPtr`, `Now` | `ARMul_ScheduleEvent`, `ARMul_EnvokeEvent` | every event runs, once, when due |
| ARM920T MMU (`arm920t_mmu.c`, `tlb.c`, `cache.c`, `wb.c`) | two TLBs, two virtually addressed write-back caches, a write buffer, control registers | fetch, read, write, table walk, cache and TLB operations of coprocessor 15 | for a system that does the maintenance the architecture asks for, memory looks plain: no store lost, loads and faults as the mapping says |
| Intel flash (`dev_flash_intel.c`) | array, lock bits, write state machine, program buffer, error bits | `init_wsm`, `flash_intel_write_word` | locked sectors do not change, a buffer program programs what was loaded, refusals are reported, no command hangs |
| NAND flash (`nandflash_smallblock.c`, `dev_nandflash_s3c2410.c`) | the file, command and address latches, write buffer | commands, address and data bytes, chip select | the file changes only as completed programs and erasures ask, reads return the byte addressed |
| JEDEC flashes, network, LCD, sound, debugger, configuration, dbct, other boards and architectures | | | not modelled, see section 5 |

`PROJECT.json` lists every component with its status, and the hazards of this
code, each at its line and with the properties that would catch it going wrong.

How the parts interact:

- Every device changes `io.vic.INTSOURCE` and then usually, but not always,
  calls `lpc2300_update_int`. The exceptions (reads of LSR, MSR, IIR; writes of
  IntSelect, IntEnClear, SWPrioMask, VectPrio) leave status registers and CPU
  inputs stale until something else recomputes.
- `lpc2300_update_int` puts a request *into service when it is raised*, not
  when the CPU reads the vector. End of interrupt retires whatever is then the
  most urgent level, clears its bit in `INTSOURCE`, and for UART0/1 resets IIR.
- A UART polls the host only while `IIR` reports nothing and its bit in
  `RawIntr` is clear; a timer counts only while its bit in `RawIntr` is clear.
  Both rely on some later `lpc2300_update_int` to clear that bit.
- An exception changes the register bank through `ARMul_SetCPSR`; LDM and STM
  with `^` switch the bank under an unchanged `Mode`.
- The emulation loop calls `ARMul_EnvokeEvent` after a fetch as long as an event
  is queued; coprocessor 5 queues events while an instruction executes.
- The walk of the translation tables reads memory directly; the data cache and
  the write buffer in front of it may hold a newer descriptor. The instruction
  cache is updated by every store that hits it, before the access is checked.
- Both flash models keep a command half given between two accesses of the
  guest, and everything the guest does meanwhile is read as its continuation.

## 2. Modules

| Module | Models |
|---|---|
| `Vic` | registers of `lpc2300_vic_t`, `lpc2300_update_int`, VIC register writes, as operators on a record |
| `NestedIrq` | abstract specification: the levels in service are a stack |
| `VicAny` | the VIC under devices and a guest that do anything in any order |
| `TxFifo` | the transmit ring: `TxFIFO_enq`, `TxFIFO_deq` |
| `Uart` | one UART: host side, `lpc2300_uart_transmit`, its part of the cycle, register accesses |
| `Timer` | one timer: its part of the cycle, the step clipping, register writes |
| `Lpc2300` | the machine: composes `Vic`, `Uart`, `Timer`, PCONP and `uartcnt` in `lpc2300_io_do_cycle`; one operator per register access |
| `Lpc2300Any` | the machine under any guest and any host |
| `Firmware` | the machine under interrupt-driven firmware (external code) with the structure of the sample the repository's README names |
| `ArmMode` | the banked register file and everything that changes mode |
| `ArmRegFile` | abstract specification: every banked register is a cell of its own, mode changes move nothing |
| `EventList` | the event wheel and the two places of the emulation loop that use it |
| `Tlb` | a TLB, the table walk, the permission checks |
| `Cache` | a set-associative write-back cache with a dirty bit per half line, and its maintenance operations |
| `WriteBuffer` | the write buffer |
| `Arm920tMmu` | composes two `Tlb`s, two `Cache`s and a `WriteBuffer`: fetch, read, write, control registers, cache and TLB operations |
| `PlainMemory` | abstract specification: a memory and a map of pages, without caches, buffer or TLB |
| `MmuGuest` | `Arm920tMmu` next to `PlainMemory` under a system (external code) that follows the architecture's rules |
| `IntelFlash` | the write state machine of the Intel flash under any writes |
| `NandFlash` | the NAND chip and its controller under a driver (external code) |
| `FlashBoard` | a board with the one or the other flash |
| `DeviceLemmas` | lemmas about the operators of `Vic`, `TxFifo`, `Uart` and `Timer`, shared by the three modules after it |
| `VicProofs` | theorems about `VicAny` |
| `Lpc2300Proofs` | theorems about `Lpc2300Any` |
| `FirmwareProofs` | theorems about `Firmware` |
| `ArmModeProofs` | theorems about `ArmMode`, refinement of `ArmRegFile` among them |
| `EventListProofs` | theorems about `EventList` |
| `MmuProofs` | theorems about `MmuGuest` |
| `FlashProofs` | theorems about the two flashes of `FlashBoard` |
| `MC*` | instances for TLC |

How state and actions correspond to the code:

- A bit register is the set of its 1 bits. A record of the model has the
  fields of the C struct, under the same names. Registers nothing but the guest
  reads (FCR, SCR, DLL, DLM, Protection, IntEnClr) are left out.
- A device operator takes the device's record and the VIC's and returns both,
  because each handler in the code changes both.
- One register access and one `lpc2300_io_do_cycle` are one step each: the
  simulator is one thread and cannot be interrupted inside either. Cycles may
  happen between any two accesses, which covers every setting of the prescaler
  in `io_do_cycle`.
- The loops over four timers and four UARTs are written out in the order of the
  code, one pass after the other (`TimerPass`, `UartPass`); a device that is not in
  the instance is passed over. `Advance` calls `UpdateInt` once per cycle where
  the code calls `lpc2300_update_int` once per matching register; theorem
  `UpdateIdempotent` shows that this is the same.
- Host calls have an outcome `ok`, chosen nondeterministically. At most one UART
  stands at one of its positions in a cycle, so one outcome is enough.
- `stale` (`VicAny`) and `written` (`Lpc2300Any`) are history variables; they
  are read by properties, and by the guest only to number the bytes it writes.
- In `ArmMode` a PSR is mode, I, F and one bit for the condition codes. The T
  flag, r15, r0 to r7 (never banked), NtransSig and the PSR's unused fields are
  left out. Mode 0 (USER26) is in, because a zeroed SPSR holds it.
- In the MMU model addresses count words and accesses are aligned words. A
  descriptor is a word of memory, and two constants say what it means at either
  level of the tables. `MmuGuest` makes the same store in `PlainMemory` and in
  the machine and compares; it may do any maintenance at any time, and leaves
  out only what the rules in its header forbid. Draining the write buffer and
  emptying a cache are loops in the code and closed forms in the model, which say
  of each word what the last pass that touches it leaves; `MCMmu` compares both
  with folds in the order of the code (`DrainIsFold`, `EmptyingIsFold`).
- In `IntelFlash` a word of the array is the set of its 1 bits. `loads`, `wild`
  and `refused` are history variables. In `NandFlash` the variables `job` and
  `commits` are what the driver asked for, kept apart from the chip's latches.
- Where one run covers several configurations (`guest` in `Lpc2300Any`, `boot`
  in `Firmware`, `prog` in `MmuGuest`, `board` in `FlashBoard`), a variable that
  never changes is chosen among them in the initial state.
- Operators commented "Seeded fault" are wrong variants of the operator after
  them. No specification uses them; each was put in place of the right one to
  see that the property it is aimed at is then violated.

## 3. Runs

| Run | Module, cfg | Shows |
|---|---|---|
| `vic_any` | `MCVicAny` | For two requests and two levels, in every order of accesses: `SignalsFollowStatus`, `NoOverlookedIrq`, and refinement of `NestedIrq` (`NestingDiscipline`) |
| `machine_any` | `MCMachineAny` | Any guest and any host, with one UART or with two accelerated timers: `LineHasCause`, `TxConservation` across a full FIFO, wrap of the ring and refused bytes, `StepStopsAtMatch` |
| `firmware` | `MCFirmware` | VICVectAddr written first, on UART2 in both directions, or on UART2 receiving beside TIMER0 at one level: every byte in and out, in order (`RxInOrder`, `TxInOrder`, `AllReceived`, `AllSent`), both devices served for ever (`TimerServed`), and `EoiRetiresOwnRequest` |
| `arm_mode` | `MCArmMode` | Sequences of exceptions, MSR, returns and user-bank transfers that do not abort: refinement of `ArmRegFile` (`BanksAreInvisible`), `RoundTrip`, `UserModeIsConfined` |
| `events` | `MCEventList` | Every event runs (`EveryEventRuns`), and neither early nor late while the clock was never restarted unreduced (`OnTimeWhenReduced`) |
| `mmu` | `MCMmu` | The MMU agrees with `PlainMemory` after every step: `NoStoreLost` (each word the machine holds, wherever it is, is the last one stored), `LoadsAgree` (loads, faults and fetches), `TlbCurrent` (an entry is what a walk would give) |
| `flash` | `MCFlash` | Intel flash: `LockedUnchanged`, `OnlyEraseSets`, `BufferExact`, `RefusalReported`, `ReadyAgain`. NAND flash: `NandCommitExact`, `NandReadExact` |
| `firmware_eoi_last` | `MCFirmware`, `MCFirmwareEoiLast.cfg` | Violation of `RxInOrder` |
| `firmware_levels` | `MCFirmware`, `MCFirmwareLevels.cfg` | Violation of `EoiRetiresOwnRequest` |
| `timer_accel` | `MCMachineAny`, `MCTimerStep.cfg` | Violation of `StepAdvances` |
| `arm_ldm_abort` | `MCArmMode`, `MCArmAbort.cfg` | Violation of `UserTransferKeepsBanks` |
| `event_timing` | `MCEventList`, `MCEventTiming.cfg` | Violation of `OnTime` |

What the five violations say of the code:

1. **End of interrupt discards a new byte** (`lpc2300.c:1064`). The usual
   handler reads RBR and writes VICVectAddr last. Reading RBR resets IIR and
   recomputes, so the next poll may deliver a byte and raise the request again
   before the write; the write then clears `INTSOURCE` and, for UART0/1, IIR.
   The following poll overwrites RBR, and a byte is lost.
2. **End of interrupt retires another request** (`lpc2300.c:1059`). With UART0
   at a more urgent level than the timer, a byte that arrives while the timer
   handler runs goes into service at once, and the timer handler's end of
   interrupt retires it. The UART handler is not run for it.
3. **Acceleration stops time** (`lpc2300.c:413`). With a timer at an enabled
   match register, `MRn - TC` is 0, the clipped step is 0, and in that cycle no
   timer advances. The next cycle may be as slow as this one, so the timers
   may stand for as long as the host is slow.
4. **LDM/STM with `^` and a data abort** (`armemu.c:5408`, `5653`).
   `ARMul_Abort` runs while the user bank is live and `Mode` still privileged,
   so `ARMul_SwitchMode` saves the user's r13 and r14 as the privileged mode's.
5. **Events run early** (`armsupp.c:813`). The first event of an empty list sets
   `Now` to the unreduced time; the next `ARMul_EnvokeEvent` takes the clock to
   have wrapped and empties every slot from 0 to the current one, the slot of an
   event a wrap ahead among them.

The passing firmware run therefore describes the discipline under which the
simulated machine is dependable: VICVectAddr written before the device is
served, on UART2/3 (for UART0/1 the early write resets IIR and the handler can
no longer tell the cause), all requests at one level, and no transmitter beside
another interrupting device (a THR write clears the UART's line, so a receive
request that came in between is forgotten once another device recomputes
`RawIntr`). Safety needs less of it, as section 4 proves: bytes go out in order
without any of these rules, they come in in order on UART2/3, and an end of
interrupt retires its own request at one level. The position of the write and
the transmitter's company matter for liveness only.

The MMU, flash and NAND runs hold under rules for the guest, and the rules name
where the code is not robust: a store that faults still changes a cached
instruction; a word loaded below the first one of a buffer program lands after
its window, maybe in a locked sector (`wild` excuses it); a NAND program that
no read command precedes starts at a stale column; an out-of-order PAGEPROG
leaves an erasure armed. Real systems keep these rules.

### Bounds, and why they are enough

The theorems of section 4 hold for every value of the constants, so that for the
safety properties they state the bounds below only matter for finding mistakes
early. They are all there is for liveness.

- VIC: two requests, two levels and one level value below both. Pre-emption,
  equal levels, masking, FIQ routing and software requests all occur.
- UART: a ring of 2 slots and 4 bytes out, so that it fills, wraps and has THR
  waiting behind it; 2 bytes in. `UART_INT_CYCLE` is 2 under the free guest and
  6 under the firmware (128 in the code): the schedule only decides when a
  device may act, and the guest may take any number of steps between cycles.
- Timers: counters modulo 3 or 4 (2^32 in the code), so that they wrap; one
  match register on each of two timers; host time of 0 or 2 units per cycle. A
  prescaler and counter mode on TIMER0 only.
- ARM: r8 stands for r8 to r12 (the code treats them in one loop), three
  register values, sequences of 4 steps (5 for the violation). Four steps are
  enough for chains such as SVC -> USR -> IRQ -> SVC -> return, and both
  properties that matter are checked on every step, `RoundTrip` adding two more
  steps from every state.
- Events: a wheel of 5 slots (1024), a clock modulo 15 (2^32) that may start
  anywhere, three events, instructions of 1 to 4 cycles: several turns of the
  wheel, events in one slot and restarts of an empty list all occur.
- MMU: pages and lines of four words, five physical pages, a section and a
  table of two pages, one page remapped among three descriptors (none, read-only
  for user programs and unbuffered, uncached and buffered), a write buffer of two
  entries. Three programs with TLBs of one or two entries and caches of one or
  two lines share the work: remapping, fetching what was stored, and replacement
  in one set. Small sizes make replacement happen at almost every access.
- Flash: two sectors and a buffer of three words of one bit each; the guest
  writes on both sides of the sector boundary. A word has two bytes, so that the
  check that mixes words and bytes both refuses and lets through. NAND: two
  blocks of two pages of 2 + 2 + 1 bytes, an image in which neighbouring bytes
  differ, programs of at most two bytes, reads of two (`MaxData`, `MaxReads`), one
  completed program or erasure (`MaxCommits`) among any number of given-up ones.
  The file does not influence the chip's state, so more of them add nothing.
- Deadlock is checked in every run but those of `ArmMode`, whose bound on the
  number of steps ends each behaviour.

### Fairness

`Firmware` assumes weak fairness of the guest's steps and of the cycles: the
emulator's loop alternates them. It assumes strong fairness of a successful
host call at a UART's receive and transmit positions: the host keeps
delivering and accepting, so a position that comes round again and again is not
refused every time. The receive bound `MaxIn` is part of the guard, so nothing
is promised beyond it. No fairness is assumed among the guest's own
alternatives beyond this.

`EventList` assumes that the emulation loop goes on (weak fairness of its next
step). `FlashBoard` assumes that a guest in the middle of a command of the Intel
flash goes on writing, with no assumption on what it writes.

## 4. Proofs

The theorems hold for every value of the constants that satisfies the named
assumptions of the modules. The assumptions say what the code fixes by its types
and array sizes: four timers and UARTs at most, four match registers, delays
shorter than a turn of the event wheel, sectors that divide the array, a NAND
image that covers the device (`nandflash_sb_setup` extends a shorter file). Those of
`Firmware` and `MmuGuest` also say what the guest's boot code and tables are.
Every theorem below rests on an inductive invariant, given here with the reason
why the property alone is not enough.

**VIC** (`DeviceLemmas`, `VicProofs`; any set of requests, any number of levels).

- `TypeCorrect`, `SignalsCorrect`, `NoPriorityInversion`: the three invariants of
  `vic_any`;
- `NestingCorrect`: `VicAny` implements `NestedIrq`;
- `UpdateIdempotent`: `lpc2300_update_int` applied twice is the same as once.

`LeastProperty` shows that the two search loops find what `Least`
names (naturals are well founded). `ServicingFacts` and `NextFacts` describe
the level in service and the request selected, `UpdateFields` the record
`lpc2300_update_int` returns, and `UpdateSettles` that nothing is left to accept
afterwards: an accepted request is as urgent as any eligible one, so every other
one is now at or below a level in service. Idempotence follows, and so does
`UpdateEstablishes`: whatever the registers were, after the call the signals
agree and nothing is overlooked. The inductive invariant `Inv` is `TypeOK` with
`SignalsFollowStatus` and `NoOverlookedIrq`. `TypeOK` says of each level in service
that its `IRQNumber` is a request; without that an end of interrupt could
not be shown to be a step of `NestedIrq`. Steps that end with the recomputation
need only the types (`Recomputed`); steps that do not are shown to leave alone
what the invariant relates (`Untouched`), `stale` excusing the writes of masks and
priorities. Refinement follows the same split: a recomputation enters at most
one level, above all others (`UpdateNests`), and an end of interrupt leaves the
innermost one and may enter another (`NestRetired`).

**Machine** (`DeviceLemmas`, `Lpc2300Proofs`; any UARTs, timers, FIFO size, word size and guest
data).

- `TypeCorrect`, `LineHasCauseCorrect`, `StepStopsCorrect`: invariants of
  `machine_any`;
- `TxConservationCorrect`: no byte is lost or overtaken on the way out, if
  every IER value the guest writes has the transmit interrupt on. The hypothesis
  is needed: with the interrupt off `lpc2300_uart_write` sends past the FIFO and
  ignores the host's answer (`lpc2300.c:598`, `599`).

`Inv` joins the types of all devices, what `UartFine` says of one UART's ring and
LSR, and the cause behind each request line. One lemma per handler shows what it
does to its device's record, its request line and nobody else's, with a
recomputation that moves no request line; `UartReplace` and its
timer counterpart lift that to the machine, and one cycle is those lemmas in the
order of the passes. For the transmitter the strengthening is `Carried`: the
bytes sent, queued and held are the bytes written, and the transmit interrupt is
on or the transmitter is idle. Without the second half the first write of
IER after reset is not covered. The ring needs its arithmetic (`ModTurns`, `ModStep`,
`ModApart`): `TxFIFO_enq` appends to `Contents` and `TxFIFO_deq` takes its head
off. `ClipMatchFacts` shows that one clipping leaves earlier ones in
force, because a step only gets smaller.

**Firmware** (`FirmwareProofs`; any UARTs and timers, FIFO size, period, number of
bytes, and handlers that write VICVectAddr first or last).

- `TxCorrect`: `TxInOrder`, without further hypothesis;
- `RxCorrect`: `RxInOrder`, if the UARTs are UART2 and UART3. On the other two an
  end of interrupt resets IIR with a byte in RBR (run `firmware_eoi_last`);
- `EoiCorrect`: `EoiRetiresOwnRequest`, if all requests are at one level. With two
  the run `firmware_levels` violates it.

The properties look at what left the FIFO and what was read from RBR, and neither
says anything of a byte in between or of a handler between its accesses to IIR
and to the data register. `SendFine` says that the bytes sent, queued and held
are those before `next`, and that THR is free whenever the firmware may write it:
no transmission is on its way, IIR reports THRI, or the handler has read THRI
and not acted on it. `RecvFine` says that the bytes given by the host are those
read and one more exactly while IIR reports RDA, and that RDA lasts until the
handler that saw it reads RBR. For both, `Turned` is what any number of cycles can
do to a UART: bytes move on and IIR changes only if it was clear. `Flat` is about
the VIC at one level: at most that level is in service, for the request whose
vector VICVectAddr holds, and a raised IRQ line means that it is. Every handler
leaves the VIC in one of five ways (`Outcomes`), and none takes the level out
of service, so the vector stays from the exception to the end of interrupt
(`EoiInv`).

**ARM modes** (`ArmModeProofs`; any values, any registers banked for FIQ).

- `TypeCorrect`, `RoundTripCorrect`, `BanksCorrect` (`ArmMode` implements
  `ArmRegFile`) and `UserTransferCorrect`, all under `NoAbort`: no LDM or STM with
  `^` aborts. Run `arm_ldm_abort` shows why the hypothesis is there; with
  `UserTransferCorrect` it says that the abort is the only way to that violation.
- `ConfinementCorrect`, without the hypothesis.

The refinement compares two views: `FileAt(s, m)` is the register file as a core
sees it whose live registers are those of mode m. `SwitchMode` keeps the view from
the old mode equal to the view from the new one, for all pairs of modes; setting
CPSR, entering and leaving an exception and the bank lent to LDM/STM are
compositions of it. The invariant is that the live bank is that of the mode
(`Exact`); with aborts the weaker `Sound` holds, in which abort mode may run on
the user's bank, and that is enough for confinement.

**Event list** (`EventListProofs`; any wheel size, number of events and instruction
lengths).

- `TypeCorrect`, `EventSetCorrect` (`EventSet` counts the queue, so the emulation loop
  never stops calling `ARMul_EnvokeEvent` with events left);
- `PunctualCorrect`: no event early and none left behind, while `Now` was never
  restarted unreduced (`raw`; run `event_timing` shows what happens then).

The invariant says of each queued event that its slot is `Now` plus what is left
of its delay, reduced once, and that this is less than a turn (`Ahead`).
`EnvokedIsDue` shows that the slots emptied between two times, with and
without a wrap, are exactly those of the events that came due.

**MMU** (`MmuProofs`; any page and section size, any sizes of caches, TLBs and write
buffer, any tables and programs of the guest).

- `TypeCorrect`, `NoStoreLostCorrect`, `TlbCurrentCorrect`, `LoadsAgreeCorrect`: the four
  invariants of the run `mmu`.

The guest is the one of `MmuGuest`, which follows the architecture's rules, and the
assumptions describe it: lines are as long as pages, so that one operation
flushes a page (`GuestAssumption`); the walk finds the descriptors in words of
memory that programs do not store to, the one of the remapped page apart
(`TablesAssumption`); `MapOf` is what those descriptors mean and maps no two pages
in use to one (`MapAssumption`). TLC evaluates them for the instance of
`MCMmu`.

`MmuInv` has six parts. `Phased` gives the control registers and the map in each
phase of the system's sequences (running, remapping a page, MMU off and on
again). `Coherence` is the centre: a cache holds only pages that may be cached in
this phase, each in one place and with the words of plain memory; the write
buffer holds only words of buffered pages; no word is in the data cache and in
the buffer; and memory lacks only what those two hold. Without the third of
these a line written back and an older entry drained after it would lose the
store. `Freshness` says that a code page that was cleaned and drained is in memory,
which a fetch needs, since it looks neither into the data cache nor into the
buffer. `Tables` says the same of the tables for the walk, with the one descriptor
in flight tracked through store, clean and drain. `Translated` says that every TLB
entry is a walk of these tables, with the current descriptor unless the page is
being remapped, and that no two entries match one address. `Typed` has the types.

Operations that store nothing are shown to move words between cache, buffer and
memory without changing what they hold together (`Maintained` for a cache, `Settled`
with the buffer), and `Moved` and `Quiet` lift that to the invariant. A store changes one
word of plain memory; `Wrote` and `Took` say that it changes it in the cache, the
buffer or memory, and in no second place. The walk is `WalkMeaning`: what the
code reads from the two levels of the tables is what the system means by them.

**Intel flash** (`FlashProofs`; any array, sector and buffer size, any writes).

- `IntelTypeCorrect`, `RefusalCorrect`, `LockCorrect`, `EraseCorrect`, `BufferCorrect`.

`IntelInv` adds to the types that no load of an earlier buffer program is left
over (`Fresh`), and that the buffer holds the words loaded inside the window and
ones elsewhere, all in the sector whose lock bit is looked at (`Filled`).
The last is what `LockCorrect` needs, because the lock of one sector is checked
for a whole window; it depends on the window's alignment and on sectors being
whole windows. `wild`, a load outside the window, excuses both properties.

**NAND flash** (`FlashProofs`; any page, spare, block and device size, any number of
commands).

- `ReadCorrect`, `CommitCorrect`: reads, programs and erasures touch exactly the
  bytes the driver addressed;
- `BoardTypeCorrect`: the type invariant of the board.

`NandInv` relates the chip's latches to what the driver asked for, one conjunct per
phase of a command: the address assembled so far (`Sent`), the chip unarmed unless
a program or an erasure was begun (`Unarmed`), and after the last address byte
the cell a read, a program or an erasure stands at (`Reading`, `Placed`,
`Erasing`) and the bytes in the write buffer (`Buffered`). The chip keeps an address
in page-size units and turns it into one in pages with spare areas by dividing;
`DivUnique` and `DivBlock` show that this inverts what the address cycles built.
`SpareStep` is the jump of a spare-area read to the next page.

What stays with TLC is liveness (`EveryEventRuns`, `ReadyAgain`, `AllReceived`,
`AllSent`, `TimerServed`), which is outside the prover's reach, and that the closed
forms for draining the buffer and emptying a cache are the code's loops, which
would be an induction over data.

## 5. Not modelled

- A VectPrio with bit 31 set, for which the shift in `BITMSK` is undefined.
- GPIO, RTC, PLL, pin select, MAM and external memory registers: storage that
  nothing else in the machine depends on.
- The arithmetic of the instruction set, Thumb, 26-bit modes other than USER26.
- Of the MMU: byte and halfword accesses, alignment faults, the process
  identifier, subpages, large and tiny pages, fault status registers, lockdown,
  and the MMUs of the other cores.
- The JEDEC flashes (AM29, SST39): their reads return uninitialised data in the
  middle of a command, so little can be promised of them. Suspension in the
  Intel flash cannot occur, because a command ends inside one write.
- The build of the NAND flash without shared memory mapping.
- Back ends of the UARTs, network, LCD and sound (host I/O), debugger and
  configuration (text parsing), binary translation (code generation), the other
  boards of the base version, and the vendored simulators of other
  architectures, which are most of the repository's lines.

## 6. Plan

Every invariant and action property of the passing runs is proved. What could
come next is the single and multiple transfers of `armemu.c` (`LoadWord` to
`StoreMult`) with base write-back and the early and late abort models.

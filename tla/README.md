# Verification of Yoshi's Story (decompals/yoshis-story)

TLA+ modules, TLC configurations and TLAPS proofs for the C part of the
decompilation of Yoshi's Story (US), a Nintendo 64 game. The decompilation is
under way: the C code of the game is the twenty files of `src/src/main` (3551
lines); everything else of the game is still assembly, included with `GLOBAL_ASM`
and not in the repository. What the C code holds is the system layer: the managers
that own a device each, a loader, a crash screen and a few libraries. It runs on
`src/lib/ultralib`, the operating system, of which the game links the files
`src/yamls/us/main.yaml:107-260` lists; the parts of it that the managers rest on
are modelled too.

Paths below are relative to the root of the repository's sources; `main/` stands
for `src/src/main/`, `os/` and `io/` for the directories of `src/lib/ultralib/src`.

- [Inventory](#inventory): the system's parts
- [Modules](#modules): which module models what, and how
- [Runs](#runs): what TLC checks, within which bounds
- [Fairness](#fairness)
- [Proofs](#proofs)
- [What the models say about the code](#what-the-models-say-about-the-code)
- [What is not modelled](#what-is-not-modelled)
- [Plan](#plan)

## Inventory

The system is a handful of threads on one processor (`src/include/ys64thread.h`).
They share memory and talk through bounded `OSMesgQueue`s; libultra runs every
send and receive with interrupts disabled, so each of them is one step, and
between any two of them another thread may run.

| part | state | operations | how it talks to others |
|---|---|---|---|
| DMA manager, `main/dmamgr.c` | request queue, completion queue, fields of each `DmaRequest` | `DmaMgr_RequestSync`, `DmaMgr_SendRequest`, `DmaMgr_Read`, `func_8007DC5C`, the thread | clients push requests and start a PI command for the header; the PI manager puts a token in the completion queue; the thread pairs tokens and requests, and answers |
| EEPROM manager, `main/eepmgr.c` | cache, `cached`, one request slot, two queues | probe, `eepmgr_SendRead`, `eepmgr_SendWrite`, `func_8007D508`, the thread | one caller at a time; the serial interface is locked through the pad manager |
| Save file, `main/O2/65520.c:490-531` | two copies in a buffer | save (`func_80069A80`), load (`func_80069B34`) | calls the EEPROM manager |
| Fault manager, `main/fault.c` | event queue of one message, faulted thread, page, frame buffer | `Fault_ThreadEntry`, `FindFaultedThread`, `func_80070988`, `Fault_DisplayFramebuffer`, `Fault_ResumeThread` | woken by the exception handler of libultra, which stops the thread; takes the screen from the game |
| Crash button sequence, `main/fault.c:365-521` | place in the sequence, key held, counter | `Fault_WaitButtonCombo` | polls the pad |
| Overlay loader, `main/O2/loadfragment2.c` | memory, remembered `LUI`s | `Overlay_AllocateAndLoad`, `Overlay_Load`, `DoRelocation` | reads the file through the DMA manager |
| VI mode editor, `main/vimode.c` | settings, a mode of packed registers | `ViMode_Init`, `ViMode_Configure`, `ViMode_ConfigureFeatures`, `ViMode_Update`, `func_8007EE28` | hands the mode to the VI manager, which reads it at each retrace |
| Stack checker, `main/O2/stackcheck.c` | a doubly linked list, the painted stacks | `StackCheck_Init`, `StackCheck_Cleanup`, `StackCheck_Check` | reads stacks other threads run on |
| Text printer, `main/O2/gfxprint.c` | flags, pen, colour, display list | `gfxprint_init`, `_open`, `_close`, `_color`, `_locate`, `_setoffset`, `_putc` | appends commands the RDP executes |
| Boot, `main/O2/65520.c:183-236` | threads | `bootproc`, `Idle_ThreadEntry`, `Idle_InitVideo` | creates the managers |
| Sleep, `main/sleep.c` | a timer on the caller's stack | `csleep` | libultra's timers |
| Controllers, `main/O2/pad.c`, `padsetup.c`, `main/7D140.c` | an `Input` | getters, the stick's dead zone, a probe | glue to an assembly pad manager |
| Libraries: `80C50.c`, `808F0.c`, `math64.c`, `mtxuty-cvt.c`, `aprintf.c`, `7EFD0.c`, `65430.c`, `70100.c` | next to none | matrices, printing, a table of names | |
| Threads and message queues, `os/*thread*.c`, `*mesg.c`, `exceptasm.s` | run queue, states, priorities, the rings and the two waiting lists of each queue | create, start, stop, yield, set priority, destroy; send, jam, receive; events, faults, preemption | everything above |
| Timers, `os/settimer.c`, `timerintr.c` | list of deltas, counter, compare register | `osSetTimer`, `__osInsertTimer`, `__osSetTimerIntr`, `__osTimerInterrupt` | the VI manager runs the interrupt's part |
| PI manager, `io/devmgr.c`, `pidma.c`, `piacs.c` | command queue, access token, event queue | `osPiStartDma`, `__osDevMgrMain` | threads queue commands; others take the token and use the bus themselves |
| Serial interface, `io/si*.c`, `cont*.c` | access token, `__osContLastCmd`, the RAM of the PIF | buttons, query, probe, read and write a block | pad manager and EEPROM manager |
| VI manager, `io/vi*.c` | two contexts, countdown | `osViSetMode`, `osViBlack`, `osViSwapBuffer`, `osViSetEvent`, ..., `viMgrMain`, `__osViSwapContext` | game and fault thread; the hardware |

What makes each right, and what is hard about it:

- **DMA manager.** A request is answered once, after its data are in memory; its
  request block, on the caller's stack, is not used afterwards. Hard: requests
  and completions travel in two queues and are matched by order alone; files are
  read in chunks; a packed file needs a header and a work buffer; every queue has
  a limit and a result nobody looks at.
- **EEPROM manager and save file.** A save reported done survives; a save cut
  short by the power or refused leaves the old or the new one. Hard: power cuts
  between any two blocks, failing reads, writes that are stored and yet answered with
  an error, a cache that then does not agree with the chip, one request slot that is
  read after it was answered.
- **Fault manager.** A thread that crashed stays stopped and is shown, on a screen
  that is shown itself. Hard: several threads crash while the screen is up, the
  event queue holds one, the game may be about to swap the frame buffer, and all
  threads but the one that crashed run on.
- **Crash sequence.** Exactly the sequence opens the screen, from any state.
- **Overlay loader.** What is executed is what the linker would have made for that
  address. Hard: pairs of instructions share upper halves, immediates are signed,
  the same memory holds one overlay after the other behind two caches.
- **VI modes and VI manager.** Packed fields must not disturb each other, features
  survive the order of the calls, what was asked for is shown whole. Hard: a mode is
  rewritten in place, without a lock, while each retrace reads it.
- **Stack checker.** Every registered stack is judged, truly, while it is in use, as
  long as the list is right. Hard: links go out of date, and nothing tests for it.
- **Text printer.** Glyphs come in the mode and colour asked for although both
  are sent rarely; a tab ends. Hard: both depend on calls made long before.
- **Threads and queues.** The highest runs, nobody sleeps on a queue he could use, a
  queue is a bounded sequence. Hard: interrupts between any two calls, threads
  stopped, destroyed or given another priority while they wait.
- **Timers and sleep.** Nobody wakes earlier than by what the list had not yet
  counted, everybody wakes; no timer is left on a stack that is gone. Hard: the counter wraps, an interrupt is lost when the
  compare register is written late, the list changes between a test and its use.
- **PI manager and serial interface.** The bus has one user, an answer means the data
  are there and are those asked for. Hard: events do not say whose transfer ended, a
  token is given back with a DMA under way, commands are not sent when they are
  believed to be there.

`PROJECT.json` lists under `hazards` each place, with its line, where one of these
can go wrong in a way tests would hardly reach, and the properties that cover it.

## Modules

### DmaMgr, DmaShared, DmaService (MCDmaMgr, DmaMgrProofs)

Processes: clients, the DMA thread, the PI manager. `pc[c]` follows a client
through `DmaMgr_SendRequest` (push the request, start the header, wait), `dpc` the
DMA thread through `DmaMgr_ThreadEntry`, `func_8007DC5C` and the chunk loop of
`DmaMgr_Read`. `reqq` is `D_8010ED50`, `doneq` is `D_8010ED10`, `startq` the queue
local to `DmaMgr_Read`; `piq` and `pi` are libultra's PI manager, as `PiService`
promises it. Each send, receive and start of a DMA is one action. Data are
abstracted to the set of parts that landed in memory (`landed`) and to what the
client's buffer holds (`dest`: `"old"`, `"partial"`, `"data"`), so "answered" can be
compared with "there". A size is its number of 4 KiB chunks. Priorities of threads
are not used; every interleaving is allowed, which only adds behaviours.

`DmaService` is the promise: a client asks, its buffer is filled, it returns.
`DmaMgr` implements it for one request at a time. `DmaShared` is `DmaMgr` with several
clients at once and a bound on the length of their files.

### EepMgr, SaveStore (MCEepMgr, EepMgrProofs)

Processes: the main thread in save or load, the EEPROM thread, the power switch.
`eeprom`, `cache` and `buff` hold the blocks of two copies; `slot` is the `type`
of the request slot, `cmdq` and `replyq` the queues; `epc`/`blk` follow the loops
of the read and write handlers block by block. `PowerFails` resets all but the
chip and may leave the block being written `Torn`; `WriteFails`, a write that is
answered with an error, may have left the old block, the new one or neither, as the
answer is read after the command was sent, and leaves the cache alone. Failures come
from the constant `Faults`. The last block of a copy stands for checksum and magic,
which are taken to accept only whole copies. `committed`, `attempt`, `refused`,
`doubtful` (blocks whose last write was answered with an error) and `cuts` are
history. `SaveStore` is the promise: one value that a load finds and one that is kept
without power, the same unless a save was refused, replaced as a whole.

### Fault: FaultMgr, FaultCombo (MCFault, FaultProofs)

`FaultMgr`: threads crash (`__osFaultedThread`, `FAULT`) or hit a break, from
`exceptasm.s`; `Post` is `send_mesg`, which drops the event when the queue is full.
`TakeEvent` is the outer loop with `FindFaultedThread`, `DrawPage`/`NextPage` the
pages over the table of overlays, which other threads change meanwhile, `Screen`
the sequence of screens, `Resume` is `Fault_ResumeThread`.

`FaultCombo`: one action per poll of `Fault_WaitButtonCombo`: whatever set of
buttons is down, what the code makes of it. History variables hold what was typed.

`Fault` has the two side by side. They meet in one step, `Unlock`; in `MCFault` a
behaviour is one of either part while the other stays as it began, so nothing is
multiplied. `Vi`, `Debug` and `Bus` put parts side by side in the same way.

### Overlay (MCOverlay, OverlayProofs)

Memory is a function from word addresses to words; a word is data, an address
(`R_MIPS_32`), a jump (`R_MIPS_26`), the upper half (`R_MIPS_HI16`) or the lower
half (`R_MIPS_LO16`) of an address, or anything else. `Half` and `Segment` scale
2^16 and the distance of the two address ranges, so that carries from the lower to
the upper half happen in small instances. `Relocate` walks the table one entry per step with
the remembered `LUI`s; data and instruction caches are modelled as far as
`Flush` (write back, invalidate) concerns them. Several overlays are loaded one
over the other.

### Vi: ViMode, ViMgr, ViService (MCVi, ViProofs)

`ViMode`: a mode is the record of registers `ViMode_Configure` computes, each packed
word a pair of halves with the carry between them (`Add`); `func_8007EE28` is one
step: configure, features, `osViSetMode`, `osViSetSpecialFeatures`. `ViModeAssumption`
bounds the edges by what the register has room for.

`ViMgr` has the same call in its parts, with a retrace between any two: a mode is two
halves, rewritten one after the other. `vi` and `curr` are the two contexts, which the
calls change and `Retrace` programs, swaps and copies; `retrace`, `mail` are the
countdown of `viMgrMain` and the queue of the game. The fault thread takes black away,
looks which buffer is shown and looks again (`Look`, `Note`) or replaces it, draws and
waits for a button, in as many rounds as it likes. While it waits the game goes on
calling, unless its own thread crashed (`Crash`). `swap` and `disturbed` are history:
whether another buffer was about to be shown when the fault thread looked, and
whether the game has blacked the screen or swapped buffers since. `ViService` is the
promise: at a retrace what was asked for last is shown, all at once.

### Debug: StackCheck (MCDebug, DebugProofs)

The list with its links as the code keeps them, prev links out of date included;
the words of each stack that no longer hold the paint. Any entry may be registered or
cleaned up at any time, in the list or not, and `Reset` is `StackCheck_Init(NULL)`. The
check reads one word per step and any thread may store, even the value of the paint,
between two. `registered` is history: what the list should be. `MayRegister` and
`MayCleanup` say which calls keep the list right; they guard nothing, `ListKept` says
that every other call breaks it.

### Debug: GfxPrint (MCDebug, DebugProofs)

The flags and the pen of a `gfxprint`, and the state of the RDP at the end of the list
written so far. Positions are modulo 256, the only way the code compares them, and
columns any integers. A gfxprint may be initialised, opened and closed in any order;
`reopened` is history: it was opened after it had drawn. A tab draws one blank per
step and stays in its loop (`inTab`) until the code leaves it.

### Kernel, BoundedQueues (MCKernel, KernelProofs)

Every call of libultra on threads and queues runs with interrupts off and is one
action, up to where it yields; `call[t]` is the call a blocked thread will try again
when it is dispatched. `os` is the scheduler: states, priorities, which list a thread
is in (`onq`) and the lists themselves. `slot`, `first`, `valid` are the ring of each
queue. Interrupts post events, faults stop the running thread; both come whenever
interrupts are on. `BoundedQueues` is what all other modules take a queue for.

### Timers (MCTimers; through Vi, ViProofs)

`list` and `value` are the timers with their differences, `counter`, `count`,
`compare` the time as libultra and as the processor has it. `osSetTimer` is three
steps, as it has interrupts on between them; `WriteCompare` comes up to `Latency`
ticks after the counter was read. A thread sleeps by `csleep`; its timer leaves its
stack with it. `owed` and `stale` are history: the ticks until a timer may go off, and
how many had passed, when it was set, since `__osTimerCounter` was written. Those the
VI manager takes off the timer as well, unless a thread that sets the first timer, as
one that sleeps alone does, writes the counter anew before (`Charged`, `Fresh`).

### Bus: PiMgr, PiService and Serial, EepromChip (MCBus, BusProofs)

`PiMgr`: users queue commands in front or at the end, `mgr` follows `__osDevMgrMain`
(take a command, the token, start, wait for the event, give back, answer), other
threads hold the token themselves. `PiService` is what `DmaMgr` builds on.

`Serial`: the two threads that use the interface, step by step through lock, token,
DMA to the PIF, DMA back. `lastCmd` is `__osContLastCmd`; the PIF executes what it
holds when it is read. An EEPROM is busy after a write and may fail to answer, a write
also when it has stored the block. `EepMgr` takes the chip for no better than
`EepromChip`.

The buses share nothing; `MCBus` runs a behaviour of either.

## Runs

| run | instance | what it shows |
|---|---|---|
| `dma_one` | one client, up to three chunks, packed or not, with and without work buffer and reply; queues as in the code (10, 10, 8); allocation may fail; fair; 1,204 states | `SoloInv`, `ServiceSafe` (refinement of `DmaService`), `EveryRequestAnswered` |
| `dma_shared` | two clients, files of one or of two chunks, queues of two; fair; 510,444 states | `RequeueNeverBlocks`; `QueuesInStep` and `SharedAnswered` for files of one chunk |
| `eep` | two values that share blocks, three blocks a copy, every failure, writes stored or not, and power cuts; fair; 1,251,272 states | `EepInv`, `Survives`, `StoreSpec`, `CallsReturn` |
| `fault` | two threads and the idle thread, three overlays on pages of two, fair; or up to two buttons and the chords of the sequence; 442,810 states | `FaultInv`, `PagesCover`, `CrashIsShown`, `ComboInv` |
| `overlay` | three images (a shared `LUI`, crossed `LUI`s, a register used again), two overlapping places | `RelocInv`, `RunsLinkedCode`, `StartsWithLinkedData` |
| `vi` | two windows, three frame buffers, counts of 1 and 2, a counter of 4; or libultra's 14 settings and two more, four windows, three TV types; 2,627,830 states | `WholeMode`, `ToldInTime`, `CrashIsSeen`, `ViServiceSpec`; `ModeShown` |
| `debug` | three stacks of two words: one unpainted, one that never warns, one that warns below two words, checked, at most two at a time, while their threads run and the list is right; or only the list of all three, with calls in every order; or a printer with two colours and columns that are whole glyphs and that are not; 851,764 states | `StackInv`, `ListKept`, `AnswerIsTrue`; `PrinterInv`, `TabEnds` |
| `kernel` | the idle thread and three others, interchangeable, two priorities, a queue of two and an event; 808,884 states | `ThreadsQueued`, `HighestRuns`, `NoLostWakeup`, `QueueSpec` |
| `timers` | two sleepers, one perhaps at intervals, a counter of 6, one tick of latency; fair; 305,018 states | `ListedWhileAsleep`, `NotEarly`, `SleepEnds` |
| `bus` | three users and two direct users of the cartridge, a queue of two; or two blocks of two values and a chip that may fail; fair; 81,959 states | `PiInv`, `PiServiceSpec`, `DmaAnswered`; `SerialInv`, `EepromSpec`, `SerialReturns` |
| `bus_query` | the same | expected to fail: `QueryIsOfControllers`, see below |

Why these bounds are enough to be worth running: three chunks are the least with a
chunk that is neither the first nor the last; queue limits are lowered to where
the clients of the instance can fill them, and `dma_one` has the real ones. Three
blocks a copy have a block before, at and behind a cut in each copy, and the values
share a block, so that a save skips some. Three overlays on pages of two give a page
that is not full. The overlay instance has every way the images of the game pair
`HI16` and `LO16` and carries in both directions; the two places overlap, so stale
code is there to be run. Three stacks are the least with one between two others, and
with a prev link that is out of date in front of one that is not; two words are the
least with a word behind the one being read. In `vi` the counter wraps at 4, more
than the largest count, as 2^16 is for the code. Three threads are the least where
one is woken, one takes what it was woken for and one waits behind; two of them share a
priority. In `timers` the counter wraps within a sleep and both orders in the list, late
compares and lost interrupts happen. A PI queue of two is shorter than its users.

Deadlock is checked except where the system may stop: `dma_one` (a client without a
reply queue or without a work buffer waits), `dma_shared` (files of two chunks, see
below), `eep` (a probe that finds another chip spins), `fault` (the screen waits for a
button, a pad is left alone). Each property of each run has a mutant in `PROJECT.json`: a change of one definition, of the kind a slip
in the code would make (the definitions commented "Variant" or "could be"), under
which TLC finds the property violated.

## Fairness

- `DmaMgr`: weak fairness of each client inside its call, of the DMA thread and of
  the PI manager. Threads run until they wait for a message, and none of higher
  priority polls, so a step that stays possible is taken. A client is never forced
  to ask.
- `EepMgr`: weak fairness of the EEPROM thread, which has the higher priority, and
  of the main thread taking an answer that is there.
- `FaultMgr`: weak fairness of the fault thread, which has the highest priority of the
  application, with somebody at the pad; and of a thread running into the break
  that was put in front of it.
- `GfxPrint`: weak fairness of the loop of a tab only.
- `Timers`: weak fairness of time, of the interrupt, of the compare register being
  written and of the VI manager; strong fairness of the sleepers, which other threads
  preempt but do not starve. `SleepEnds` is stated for behaviours where nobody uses an
  interval: timers with short ones can keep the manager busy.
- `PiMgr`: strong fairness of the manager, which competes for the token with threads
  of lower priority; weak fairness of the hardware and of giving the token back.
- `Serial`: weak fairness of DMAs and of the chip's writing, strong fairness of the two
  threads, as the pad manager waits for a retrace between two of its calls, and of an
  answer of the chip: one that is asked again and again answers at last.
- `Kernel`, `ViMgr`, `ViMode`, `StackCheck`, `Overlay`: none, only safety is stated.

## Proofs

The proof modules extend their component's module and TLAPS; every theorem holds
for every value of the constants that satisfies the named assumptions. Every safety
property of the runs, and every refinement, is a theorem (`PROJECT.json`, `theorems`).

- **`DmaMgrProofs`.** `TypeCorrect` (`TypeOK` for any number of clients, any
  sizes, any capacities). `RequeueSafe`: with at most as many clients as the
  request queue has room for, the DMA thread never blocks on its own queue. Its
  invariant is `QueueInv`: a client is in that queue at most once and not while the
  thread has it in hand, so the others at most fill it up to one.
  `SoloSafe`: for one client, `SoloInv`, and with it `HeaderArrived`,
  `RequestOutlivesUse` and `WorkBufferFreed`. That an answer means the data are there
  is not inductive: that a token means "my data" depends on where the one command is,
  so `SoloInv` lists the phases of a request (queued, header under way, header there,
  ..., finishing) with what has landed in each. `SoloImplementsService` derives the
  refinement of `DmaService` from it. `SharedInStep` proves `QueuesInStep` for any
  number of clients, if no queue is shorter than there are clients (`Enough`). Two
  invariants: `HeapInv`, that a work buffer the manager allocated belongs to a packed
  request that is in its queue or in its hands, not yet finished; and, for files of one
  chunk, `ShortInv`, that every command says it is the last of its request and that
  there are as many requests as tokens, commands and clients about to start one
  (`UnderWay`), which bounds each queue.
- **`EepMgrProofs`.** `InvHolds` proves `EepInv`, for any values, any number of
  blocks and any faults. `Survives` is not inductive: the invariant adds that the two
  threads take turns (`Turns`), that buffer and cache are as far as the loop has come
  (`Progress`), that the chip is on the way from the old to the new contents
  with one block that may be anything (`Device`), and that after one save that was cut
  short or refused at most one block is in doubt, and what it may hold (`InDoubt`).
  From it follow `SaveSurvives`, `CacheIsCoherent`, `BothCopiesHold` and
  `MainNeverSpins`. `SavesImplementStore` is the refinement of `SaveStore`, with one fact
  more: an answer without an error comes with what the cache holds (`Loaded`).
- **`FaultProofs`.** `WhoCrashedIsShown` proves `FaultInv` for any threads: what has
  to be added is that a thread libultra remembers has its flag (`FlagStays`).
  `EveryOverlayIsShown` proves `PagesCover` for any table and any length of a page:
  `PagesInv` says that nothing to come was drawn and that what stayed loaded and is no
  longer to come was. Both walks stop at a minimum, which exists because the natural
  numbers are well founded (`MinIsLeast`). `OnlyTheSequenceOpens` proves `ComboInv`:
  `Typed` says what has been typed when the code has come to a place of the sequence,
  and `Played` where the code is when somebody who types it has come to a poll.
- **`OverlayProofs`.** `RelocationHolds` proves `RelocInv` for any well-formed images
  at any places: up to the entry the loop has come to, words are as linked, except
  that a `LUI` has the carry of the last `LO16` that used it (`HalfRelocated`), and the
  remembered values are those of the file (`LuisRemembered`). `LoadedRunsLinked` and
  `LoadedStartsWithLinked` follow.
- **`ViProofs`, the VI manager.** `ModesAreWhole`, `GameIsToldInTime`, `CrashScreenSeen`
  and `ViImplementsService`, for any windows, frame buffers and counts below the wrap. The
  invariant `ViInv` says how much of its mode the game has made and asked for at each
  place of the call (`ModeAsked`), that after a retrace the two contexts agree
  (`Settled`), that only the game's mode can be half of one and half of another
  (`HalfIsCustom`), that the countdown is not behind (`InTime`) and what the fault
  thread has asked for at each place of its round, until the game disturbs it
  (`CrashAsked`).
- **`ViProofs`, the mode editor.** `ModesAreShown` proves `ModeShown` for any TV,
  settings, windows and edges in range. `EditorInv` keeps settings and registers in their
  types, and `MadeOf` tells a made mode field by field. Each piece of
  `ViMode_Configure` has a lemma (`SetControlIs`, `SetTimingIs`, `AdjustIs`,
  `InterlacedIs`, `ScaleIs`); they rest on what 32-bit additions do to two halves when
  the lower one carries (`AdjustmentMoves`, `AddNegative`, `BurstsOfFields`).
- **`ViProofs`, the timers.** `TimersAreListed` and `SleepIsWhole` prove
  `ListedWhileAsleep` and `NotEarly` for any timers, durations and latency. `TimersInv`
  adds that no more is owed to a thread than the values in the list up to its timer
  add up to, but for what had passed when it was set (`Owing`). What `__osInsertTimer` and the interrupt do to these sums is
  proved without induction, from the least place where it would not hold.
- **`DebugProofs`.** `StacksAreListed`, `StacksAreJudged` and `AnswersAreTrue`, for any
  stacks and sizes and calls in any order: what linking and unlinking do to a list that
  is right, and what they do to one that is not asked for it, prev links out of date
  included; what was stored in all the time is not behind the reading; and, while the
  list is right, a check has answered for a prefix of it. `PrinterHolds`, for any
  colours, any columns and any calls: the RDP has the colour and the mode the gfxprint
  counts on, or the mode of the setup if it was reopened (`PrintInv`).
- **`KernelProofs`.** `KernelInvariant` proves `KernelInv` for any threads, priorities
  and queues; `KernelThreadsQueued`, `KernelHighestRuns`, `KernelNoLostWakeup` and the
  refinement `KernelQueues` follow. The lists by themselves come first: what inserting,
  removing and popping do to a list in the order of priorities. `Runs` then says
  where each thread is between two calls and what it waits for, and `NobodyForgotten`
  that each message and each free place waited for has woken somebody who has yet to
  look; it holds because whoever takes one was woken or found nobody waiting.
- **`BusProofs`.** `PiSafe` and `PiImplementsService`, for any users and any length of
  the queue. `PiInv` is inductive as it stands: it follows the token and each command.
  `SerialSafe` and `SerialImplementsEeprom`, for any blocks and data
  and a chip that may fail. `IInv` follows the one queue both threads wait on: who has
  it (`LockInv`), whose DMA is under way or has ended (`BusInv`), which command the PIF
  has by then (`LastInv`, `PadInv`) and that a chip that said it is ready stays so until
  it is written (`EepInv`).

Assumptions behind them: no client is the null client, capacities are positive, small
requests are not packed (`DmaAssumption`), and for `SharedInStep` the clients fit into
the queues (`Enough`: in the code eight); the last block of a copy tells any two
values apart (`EepAssumption`); a thread is in the queue of active threads once
(`FaultAssumption`); nothing held is one of the ways to hold the buttons
(`ComboAssumption`); images are well formed, which includes that `LO16`s
sharing a `LUI` agree on it, and that no two `HI16`s share a `LO16`
(`OverlayAssumption`); message counts are below the wrap, some buffers are below
0x80100000 and the last is not (`ViAssumption`); windows have a line, and edges leave a
picture within the register (`ViModeAssumption`); a duration and the latency are below the wrap
of the counter (`TimersAssumption`); columns are integers
(`ColumnsAssumption`), a stack has a word (`StackAssumption`); the idle thread has the lowest priority and queues
have room (`KernelAssumption`); the PI queue has room (`PiAssumption`); answers are
told apart from data and commands (`SerialAssumption`).

Only model-checked: every liveness property (`EveryRequestAnswered`, `SharedAnswered`,
`CallsReturn`, `CrashIsShown`, `TabEnds`, `SleepEnds`, `DmaAnswered`, `SerialReturns`), as
liveness under fairness is out of the prover's reach. The counterexample of `bus_query`
is TLC's as well.

## What the models say about the code

One contradicts a comment:

- `io/conteepwrite.c:179`: the status of the EEPROM is noted as the last command under
  the name of the one `osContStartQuery` sends. A query after a probe, or after a read
  or write that was refused, sends nothing and returns the answer of the EEPROM as that
  of the controllers (`bus_query`; `io/contquery.c:6` says what it should return).
  Later versions of the file note another command (`:177`). In the game
  `PadSetup_Init` makes such a query when `osContInit` was called before
  (`main/O2/padsetup.c:15`).

The others contradict none; the callers in C keep clear of them.

- `dmamgr.c:94-95` pairs the next token with the oldest request. For one request at
  a time that is right (proved). With two that overlap it is not: a client preempted
  between queueing its request (`:133`) and starting its read (`:137`) is answered
  with the token of the one that came between, before its data are there; and a header
  that completes between two chunks of another file takes the other's token, after
  which somebody waits for ever. That an answer means data is therefore part of
  `dma_one`; `dma_shared` checks what still holds when requests overlap. There, a size
  that is read before its header has landed is taken to be at most that of the longest
  file, and the heap does not run out. The only caller in C is the overlay loader, on
  the main thread, which waits for its answer.
- `dmamgr.c:68-70`: a failed allocation leaves the client waiting. `:37` and `:43`:
  a full PI queue would lose a command; `QueuesInStep` shows that needs more clients
  than the PI queue has room.
- `65520.c:493-525`: two interrupted saves in a row can lose both copies.
- `eepmgr.c:175-179`: a block that was stored although its write was answered with an
  error (`conteepwrite.c:94-109` reads the answer after the command was sent) is not
  what the cache says, and the cache stays. Until the power is cut loads return what
  the cache says. A later save skips the block if it brings back what the cache says,
  and is reported done with a copy that is not what was saved. The other copy is, after
  one such error; only if the refused value differs in no other block is it loaded at
  the next power-up in place of the one reported saved (`Survives`,
  `SaveStore!Complete`). After a second save that was refused or cut short, a save
  reported done may have no whole copy. A save that writes those blocks again ends it,
  or a restart and a save.
- `fault.c:689`: a break after a crash is put down to the thread that crashed.
  `fault.c:654-655`: the screen may be drawn in a buffer that another one is about to
  replace; when one does between the two calls the screen is drawn in that one, high or
  not; and a thread that still runs may swap buffers or black the screen at any time
  while the fault thread waits. The next round makes up for each of them.
- `vimode.c:221-223`: `ViMode_Update` resets the state it then tests, so the editor
  behind it never runs. `io/visetmode.c:64`: `osViSetMode` ends a black screen, so between
  `Idle_InitVideo`'s first call and its last the screen is not black (`65520.c:187-189`).
  `io/vimgr.c:96`: an event with a count of 0 comes after 65536 retraces.
- `loadfragment2.c:128-129`: the range test looks at the `LUI` as already patched,
  the relocation at the remembered one. They differ for the second `LO16` of a
  `LUI`; for well-formed images both are in range.
- `stackcheck.c:45-55`: the entry behind the one cleaned up keeps its prev link.
  Cleaning that one up too breaks the list, and so does cleaning up, after
  `StackCheck_Init(NULL)`, an entry whose prev link is older. `:15-16` keep the old end:
  registering that entry again links it to itself, and a check of the list does not
  end; nor does it after an entry that is the last of the list is registered again.
  `ListKept` says which calls do this and that no other does. No caller in C cleans up
  or registers twice.
- `gfxprint.c:141`: a tab at a column that is not a whole glyph never ends (`TabEnds`
  says so, and that all others do); `:214-218`: opening again without `gfxprint_init`
  draws in the mode the setup leaves, until the gradient is set or cleared
  (`PrinterInv`).
- `os/startthread.c`: starting a thread that waits in a queue of messages puts it in a
  second list; only one that was stopped may be started. A thread that is destroyed
  between being woken and running takes its wakeup with it. Events that find a
  queue full are dropped.
- `os/settimer.c:49-52` reads the head of the list with interrupts on: it may see the
  value of a timer that is gone, and the compare register is set for a time that is not
  the first's. A timer set while others are in the list, or just before an interrupt of
  the counter, is short by what passed since `__osTimerCounter` was written (`NotEarly`
  says when). `timerintr.c:112-114`: when the compare register is written late, the
  interrupt comes one wrap of the counter later, unless another timer is set; sleeps end
  nevertheless (`SleepEnds`). `csleep(0)` waits for a whole wrap.
- `io/sirawdma.c:63` refuses a DMA while another is under way and no caller looks;
  `contreaddata.c:19-21` gives the token back with one under way. That the two threads
  lend each other one queue (`7D140.c`) is what keeps them apart, and is enough (proved).
  `conteepwrite.c:87`: a status that fails looks busy and is asked again, without a limit.

## What is not modelled

- Drawing, text, logging, stack traces: no state but pixels.
- `Fault_HungUp`: runs in whatever thread calls it; no caller is in the repository.
- The editor of `ViMode_Update`: unreachable, see above.
- Caches in `DmaMgr`; `Overlay` has them, as it depends on them.
- Matrices and vectors: floating point, out of reach of TLC and of the provers.
- Kana mode, vertical position and glyph shapes of the text printer.
- Names, object allocation, the cartridge check, printing: next to no state.
- Controllers but for the serial interface: `pad.c` reads fields of a structure
  that assembly fills.
- Boot but for the first thread, the idle thread and the video mode: `Main_ThreadEntry`
  (`65520.c:425-429`) calls `Fault_Init` and two functions in assembly.
- libultra: saving registers, the 64DD part of the PI manager, and the files that are
  not linked or not part of the managers' state (audio, sprites, `gu`, `libc`,
  flash, voice, Game Boy pack, the scheduler of `src/sched`).
- The game in assembly.

The definitions map about three thousand lines of C and assembly. The repository counts
58 thousand with the vendored library; nearly all of the rest are headers of display-list
macros, tables, audio, drivers that the game does not link, and pure arithmetic. Of the
code with state that runs in the game and is in the repository, the
parts above are most.

## Plan

Every safety property has its theorem. What could follow, in order of importance:

1. `Loading`: `Overlay` composed with `DmaMgr` and `PiService`, so that what is executed
   is what is in the cartridge.
2. `EepMgr` composed with `EepromChip`: the faults `EepMgr` takes for given are those
   `Serial` leaves it.
3. `DmaMgr` for several clients: which of them is answered early with files of more than one chunk.
4. Further parts of libultra with state: the controllers' paks.

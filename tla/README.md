# ReadoutCard in TLA+

ReadoutCard is the user-space driver of the two readout cards of ALICE O2, the
CRU and the C-RORC. It maps the cards' registers, hands buffers of the user to
the card's DMA engine in pieces called *superpages*, and gives the filled ones
back. Command line programs configure the cards, run a DMA benchmark and clean
up after crashes.

This directory holds TLA+ models of the parts in which something can go wrong
that a unit test would hardly reach, the TLC configurations that check them,
and TLAPS proofs of the most important properties. `PROJECT.json` maps every
definition to the lines it models and lists the runs, the mutants that show
each property can fail, the hazards of the code, and the theorems.

    tlc -config MCCruDma.cfg MCCruDma.tla       # model-check one run
    tlapm CruDmaChannelProofs.tla               # check one module of proofs

## 1. Inventory

State, operations and interactions of each part, what is hard about it, and
what makes it correct. The module that has it is in italics.

| Part (code) | State | Operations | Interacts with | Hard | Correct means |
|---|---|---|---|---|---|
| Superpage queue (`folly/ProducerConsumerQueue.h`) | ring, two atomic indices | write, read, frontPtr, popFront, sizeGuess, isEmpty | every queue of driver and benchmark | two threads without a lock | a FIFO; a slot is reused only when nobody looks at it. *ProducerConsumerQueue* |
| CRU DMA channel (`Cru/CruDmaChannel`, superpage registers of `CruBar`, state machine of `DmaChannelPdaBase`) | link queues, superpage counters, free-slot count, ready queue, size FIFO index, DMA state | startDma, stopDma, resetChannel, pushSuperpage, fillSuperpages, getSuperpage, popSuperpage | firmware, through counters and FIFOs in registers | firmware acts between any two accesses; 32-bit and 8-bit counters wrap; stop, restart, throwing half way | what is pushed comes back once, flagged truthfully; the card writes only what it was given. *CruDmaChannel* |
| C-RORC DMA channel (`Crorc/CrorcDmaChannel`, `CrorcBar`) | transfer, intermediate and ready queue, last count | the same | firmware, through an info buffer in memory | 8-bit count compared for change, size and count read separately, restart with a superpage still on the card | as above, in the order pushed. *CrorcDmaChannel* |
| DMA benchmark (`ProgramDmaBench`) | free queue, readout queue, two counters, break flag | push thread, readout thread, low-priority thread, draining at the end | the DMA channel, SIGINT | three threads, limits, exceptions | superpages circulate, the run ends. *DmaBench* |
| Channel lifecycle (`DmaChannelBase`, `DmaChannelPdaBase`, `PdaDmaBuffer`, `Pda/Util.h`, `PdaLock.h`, `InterprocessLock.h`, `ProgramCleanup`) | channel locks, PDA lock, buffers registered with the kernel module | open, close, start, stop, o2-roc-cleanup, crash | other processes, the PDA kernel module | buffers survive a crash, locks do not; constructors that throw half way; time-outs | nobody takes the buffers of an open channel; the card writes only registered memory. *ChannelLifecycle* |
| CRU configuration (`CruBar::configure`, with `Ttc`, `Gbt`, `DatapathWrapper`; `CardConfigurator`) | the endpoint's registers | report, configure (forced or not), interrupted and retried | a running readout, through the same registers | every write is decided on a report read at the start; settings share registers | a call that returns has put the card into the state asked for; an unneeded one disturbs nothing. *CruConfiguration* |
| CRU clock (`Ttc`, `I2c`, PLL register maps) | page register and pages of three PLLs, clock selection, TTC_DATA | program a PLL, select a clock, read the clock | firmware, PLL chips, other tools | transfers given up without a word; o2-roc-status moves the page register; kills between two sections | a tool that says the clock is set has set it. *CruClock* |
| CRU calibration (`Gbt::calibrateGbt`, `Ttc::calibrateTtc`, `Common.cxx`) | configuration bus and busy flags of transceivers and PLLs | calibrate, for one clock | transceivers, that take their time | silent half-second time-outs, kills with the bus in hand | what is calibrated is calibrated to the clock. *CruCalibration* |
| CRU links (`initializeLinkMap`, `Gbt`, `DatapathWrapper`) | link map, link registers, packet counters of links and wrappers | number, configure, loop back, monitor, choose for DMA | configuration and DMA through the same numbers | numbering over banks, wrappers and endpoints | a number means one link for everybody. *CruLinks* |
| CRU register fields (all of `Cru/`) | the endpoint's registers | each setter and getter | each other, through shared registers | addresses and bit positions by hand | what was set last is read back, the rest stays. *CruFields* |
| CRU monitoring (`Gbt::getStickyBit`, `Ttc`, `monitorTriggers`, `areSuperpageFifosHealthy`, `getLoopbackStats`) | read-to-clear bits, trigger counters of 32, 16 and 4 bits, starvation counters, error counters | report, clear, difference | several reporters, a running readout | wraps, two reporters, a glitch between read and clear, kills | what happened is told, what is told happened. *CruSticky, CruTriggers, CruHealth, LoopbackTest* |
| CTP emulator, pattern player (`CruBar::emulateCtp`, `PatternPlayer`) | a dozen registers each, held in reset or configuration mode | start, parse | firmware | rejected values and kills in the middle | what is sent was asked for. *CtpEmulator, PatternPlayer* |
| C-RORC link (`Crorc.cxx`, `CrorcBar`) | DDL status FIFO, SIU, CHANNEL_CSR | commands, start and stop of the trigger, SIU status, loopback, reset | front end electronics, two processes | time-outs with late answers, a bit that toggles | an answer is the command's own, a receiver is on when it should be. *CrorcDdl* |
| C-RORC registers and flash (`CrorcBar::configure`, `Crorc.cxx`) | configuration registers, flash blocks | configure, start, stop; program, read | readout and tool at once | read-modify-write without a lock, ended half way | no setting lost unless two overlap; a bad image is known. *CrorcRegisters, CrorcFlash* |
| Registers by hand (`PdaBar`, `BarInterfaceBase`, `ProgramRegister*`, `Options`) | mapped registers | read, write, modify, read a range | other tools | parsing, bounds, no lock | only the named registers change, as named. *RegisterTools* |
| Cards and settings (`PdaDevice`, `RocPciDevice`, `CardConfigurator`, `ProgramConfig`, `FirmwareChecker`) | descriptors, parameters, report files | look up, read a file or a command line, configure all at boot | each other, by names | unreadable serial numbers, faults in a file, one failing card | the named card gets the settings named for it. *CardLookup, CardSettings, StatusReports* |
| Buffers (`MemoryMappedFile`, `Hugetlbfs`, `PdaDmaBuffer`, hugepage checks of `DmaChannelPdaBase`) | buffer files with locks, scatter-gather list | map, resize, remove, translate an offset | kernel, other runs of the same channel | files resized or removed under others, pieces that are not contiguous | an offset is where card and process both look. *DmaBuffers* |
| Page checks (`ProgramDmaBench`, `DataFormat.h`) | packet, event, orbit and data counters per link | check of every n-th page | - | counters modulo their width, resynchronisation | a loss is told, no false alarm. *PageCheck* |
| Parameters' container, factory, Python interface, logger, metrics, numa, bar stress | - | conversions, dispatch, output | - | - | not modelled (section 9) |

## 2. How the modules fit together

    BoundedFifo <--implements-- ProducerConsumerQueue
         |                        (every queue below is used as a BoundedFifo)
         v
    SuperpageOwnership <--implements-- CruDmaChannel
         ^             <--implements-- CrorcDmaChannel
         | (the driver as its user sees it)
    DmaBench
    ChannelLifecycle    (opening and closing the channels, several processes)
    CruConfiguration    (registers of the endpoint, next to a running channel)
    CardParts           (nineteen small modules, one behaviour of one part each)

Two abstract specifications carry the composition. `BoundedFifo` is what a
folly ring promises; the ring is proved to implement it for every size, which
is why the channels and the benchmark may use sequences as queues.
`SuperpageOwnership` is what `DmaChannelInterface` promises about superpages;
both channels are checked and proved to implement it with one refinement mapping each, and
`DmaBench` uses the driver in that abstract form: pushed pages, filled pages, a
ready queue.

| Module | Lines it stands for | State and actions |
|---|---|---|
| `ProducerConsumerQueue` | `folly/ProducerConsumerQueue.h` | One step per load or store the other thread can see: `WriteBegin/Construct/Publish`, `ReadBegin/Move/Release`, `PopFront`, `Dereference`, the two loads of `sizeGuess()`. |
| `CruDmaChannel` | `CruDmaChannel.cxx`, `CruBar.cxx` 140-200, `DmaChannelPdaBase.cxx` | One action per call that touches only the driver's state; `pushSuperpage`, `fillSuperpages` and `stopDma` take several steps (`PushDescriptor`; `ReadCount`, `Transfer`, `LinkDone`; `ReclaimNext`), with `FirmwareFill` between any two. |
| `CrorcDmaChannel` | `CrorcDmaChannel.cxx`, `CrorcBar.cxx` | Likewise: `Collect`, `PushToFirmware`, `Track`, `DrainIntermediate`, `DrainTransfer`, `StartDmaThrows`, with `FirmwareFill`. |
| `DmaBench` | `ProgramDmaBench.cxx` 360-570 | One program counter per thread; the queues, counters and break flag are shared. |
| `ChannelLifecycle` | `DmaChannelBase.cxx`, `DmaChannelPdaBase.cxx`, `PdaDmaBuffer.cxx`, `Util.h`, `InterprocessLock.h`, `ProgramCleanup.cxx` | One program counter per process; every PDA call is entered and left in two steps under (or after) the PDA lock; `Die` at any point releases sockets, not buffers. |
| `CruConfiguration` | `CruBar.cxx` configure and report, `Ttc.cxx`, `DatapathWrapper.cxx`, `Gbt.cxx`, `Common.h` | A step is the group of writes between two decisions of `configure()`; `Interrupted` ends it after any of them. |

`CardParts` extends the small modules. They share no state (except `CruLinks` and
`CruFields`, which have the datapath in common), so a product of them would only
multiply states: the variable `part` chooses one, and the others rest.

| Part | Module | Lines it stands for | Actors and faults |
|---|---|---|---|
| ddl | `CrorcDdl` | `Crorc.cxx` DDL and SIU calls, `CrorcBar.cxx` start and stop of the trigger, `ProgramSiuStatus` | readout and tool as scripts of register accesses; link breaks, late answers, time-outs |
| flash | `CrorcFlash` | `Crorc.cxx` flash calls, `ProgramFlash`, `ProgramFlashRead`, serial number of the C-RORC | a tool interrupted, timed out or killed after any word |
| registers | `CrorcRegisters` | `CrorcBar.cxx` configure, receiver, loopback, flush, QSFP | configuration and readout with two-access read-modify-writes |
| clock | `CruClock` | `I2c.cxx`, `Ttc.cxx` clocks, the three PLL maps | configuration of both endpoints, o2-roc-status; lost transfers, kills |
| calibration | `CruCalibration` | `Gbt.cxx`, `Ttc.cxx` calibrations, `Common.cxx` | with and without test mode; late devices, kills, clock changes |
| links | `CruLinks` | `initializeLinkMap`, addresses in `Gbt`, `DatapathWrapper`, `CruBar`; optical power, o2-roc-pkt-monitor, links of `CruDmaChannel` | configurations of banks and wrappers, tools on them |
| fields | `CruFields` | setters and getters of `DatapathWrapper`, `Gbt`, `Ttc`, `CruBar`, `Constants.h` | calls in any order over any contents |
| sticky | `CruSticky` | `Gbt::getStickyBit`, `Ttc::getOnuStickyStatus` | two reporters, glitches, a kill |
| triggers | `CruTriggers` | `CruBar::monitorTriggers`, o2-roc-trigger-monitor | triggers between any two reads, wraps |
| ctp | `CtpEmulator` | `CruBar::emulateCtp`, `Ttc` setters, o2-roc-ctp-emulator | rejected values, kills |
| player | `PatternPlayer` | `PatternPlayer.cxx`, o2-roc-pat-player | rejected texts, kills |
| pages | `PageCheck` | the checks of `ProgramDmaBench`, `DataFormat.h` | lost, spoilt and short pages |
| settings | `CardSettings` | `CardConfigurator`, `ProgramConfig`, `FirmwareChecker` | faulty files, failing cards |
| lookup | `CardLookup` | `PdaDevice`, `RocPciDevice`, `SerialId`, `cardIdFromString`, o2-roc-list-cards | machines that change, unreadable serials |
| buffers | `DmaBuffers` | `MemoryMappedFile`, `Hugetlbfs`, `PdaDmaBuffer`, `DmaChannelPdaBase`, the buffer of `ProgramDmaBench` | two runs on one file, kills |
| health | `CruHealth` | data source, debug mode and `areSuperpageFifosHealthy` of `CruDmaChannel`, firmware features | starvation at any time, counter wraps, kills |
| reports | `StatusReports` | `ProgramConfig::reportStatus` | several cards, one name |
| loopback | `LoopbackTest` | `ProgramLoopback`, loopback statistics of `Gbt` | two tests and the configuration on one link, a kill |
| regtools | `RegisterTools` | `ProgramRegister*`, `Options.cxx`, `PdaBar`, `setBits` | two tools, any text on the command line, kills |

`MC*` modules add only symmetry sets and the option records and requests that
the configurations name.

### Modelling decisions

- **One thread drives a channel** (`src/README.md:143`: "the driver operates in
  the user's thread"). In `DmaBench` that is the push thread, and the main thread after the
  join. The low-priority thread's view of the starvation counters is in `CruHealth`; its other status reads change nothing.
- **Memory order.** The ring's acquire loads and release stores are sequentially
  consistent here: each index has one writer, and a record is published by the
  store of the index, so release/acquire admits no other order of the record's
  writes and reads.
- **Registers are reliable** and the engine stops at once when it is switched
  off. The C-RORC driver reads back what it pushes and only logs a difference
  (`CrorcBar.cxx:413`): no property depends on it. I2C transfers are *not*
  reliable (`CruClock`), nor are DDL answers (`CrorcDdl`).
- **The firmware** is modelled from how the driver uses it and marked external:
  it fills descriptors in order, counts them modulo the register width, and
  reports sizes with an index.
- A **dead process** loses its sockets (locks), and nothing else: buffers stay
  registered and its DMA keeps running.
- **Data** is a number of bytes per page, or a member of a small set of values
  per register.

## 3. Runs

| Run | Bounds | States | Shows |
|---|---|---|---|
| `queue` | 3 slots, 2 values | small | no slot in use is overwritten, what is handed out stays intact, `sizeGuess()` is a bound, the ring implements a FIFO, accepted records are delivered |
| `cru_dma` | 4 pages, 2 links of 2 descriptors, ready queue of 2, counters mod 4, indices mod 2 | 855 000 | accounting, ready flags, sizes in step, DMA only into pages of the card, ownership protocol, over several sessions |
| `cru_liveness` | 3 pages, 2 links, ready queue of 3, counters mod 3 | 114 000 | filled pages reach a user that loops; every call returns |
| `crorc_dma` | 3 pages, transfer queue of 2, ready queue of 3, count mod 4 | 28 000 | order, truth of the ready flag and the size, every page comes back, ownership protocol |
| `bench` | 3 pages, queue capacities 2, three command lines | 52 000 | books balance at every exit, filled pages are read out, the program ends, and when told |
| `lifecycle` | 3 processes, 2 channels, 2 buffers each | 514 000 | buffers of open channels stay, closed ones leave none, calls return |
| `cru_configuration` | 2 links, ten requests, forced or not, interrupted anywhere | 2 378 000 | a call that returns took effect; a matching card is left alone |
| `card_parts` | see below | 1 652 000 | the nineteen parts, nine properties |

The bounds of `card_parts` are in `MCCardParts.cfg` and `MCCardParts.tla`: two DDL
cycles and calls and one link break; two flash blocks of two words; two
configuring tools and a status tool with at most one lost transfer; one link, one late
calibration, kill and clock change; link counts of every bank layout listed in
`MCWrapperConfs`; two reporters, two glitches and a kill; trigger counters of
16, 8 and 4 with 18 triggers, so that each wraps; two kills of emulator and
player; page counters modulo 3 and 4 with orbits to 6, up to three pages and one
flaw; two runs on one buffer file; up to three cards in a machine; three
reports by two cards; two tools on one link, testing or configuring it, with one bit error; two register
tools on a BAR of four 3-bit registers, with addresses of 5 bits and longs of 8.
Its properties:

| Property | Parts | Says |
|---|---|---|
| `DdlIsRight` | ddl | answers are the command's own unless one was given up; receiver, loopback and SIU end as the call says |
| `CrorcIsRight` | flash, registers | the image in the flash is the file's or known not to be; no setting is lost but by overlapping updates |
| `ClocksAreRight` | clock, calibration | a call that ends well has set the clock and calibrated to it, unless a transfer was lost or a wait timed out |
| `LinksAreRight` | links | every tool means the same link by a number |
| `FieldsAreRight` | fields | each setting reads back what it was given last, and no other changes |
| `MonitoringIsRight` | sticky, triggers, health, loopback | glitches, counts, starvation and bit errors are told as they were |
| `GeneratorsAreRight` | ctp, player | what is sent was asked for in the last call that let it go |
| `PagesAreRight` | pages, buffers | every loss is told and nothing else; superpages lie where card and process look |
| `RequestsAreRight` | settings, lookup, reports, regtools | the card and the registers that were named get what was named, and reports stay |

The properties hold for single parts: each is a conjunction of one invariant per
part, named in `CardParts.tla`. What the code does not keep (section 7) is
excluded by an explicit condition in the part's own property, with a comment.

Four more runs expect a **violation** of what a document, comment or message of
the repository says, and `findings` quotes it:

- `cru_fill_stopped`: after `stopDma()`, which counts reclaimed superpages as if
  the firmware had, `fillSuperpages()` throws that the firmware reported too
  many (`CruDmaChannel.cxx:347`).
- `crorc_ready_overflow`: the C-RORC ignores a full ready queue and loses the
  filled superpage (`CrorcDmaChannel.cxx:284`).
- `pda_lock_scope`: the PDA lock lives in the `try` block that creates it, and
  protects nothing (`PdaDmaBuffer.cxx:38`).
- `config_dynamic_offset`: switching the GBT links off clears the dynamic offset
  and it is not set again (`CruBar.cxx:798`).

Why the bounds are enough: the counters are small so that every wrap-around
happens several times within a session and across sessions; the CRU has more
pages than ready queue slots (a full ready queue in `fillSuperpages()` and in
`stopDma()`) and as many as descriptors; two links are the smallest number
with a choice in `getNextLinkIndex` and a link left to serve. Three processes
are an owner, a competitor and a cleanup. A third link or page only repeats what
two distinguish; the theorems of section 5 drop the bounds altogether. In `card_parts` two actors are the
smallest number with an interleaving, and every counter is small enough to wrap. The counters of the cards
are bounded by the modulus that the code's integer types have, not by guards; the
benchmark's two counts are kept only in a run with a limit, as nothing else
decides on them.
`SizeReported` is TRUE in the runs; firmware without the size FIFO is covered by
the proofs only.

`Deadlock` is checked in every run; programs that end do so in a stuttering
step of their own (`Done`, `AllDead`), or the next command may be given.

## 4. Fairness

Weak fairness on the steps inside a call and on the threads of the benchmark:
a thread that can run is scheduled. For a liveness property of a channel the
user also loops over `fillSuperpages()` and `popSuperpage()` - "Call in a loop"
says `DmaChannelInterface.h:80`, and the benchmark does. These calls are
disabled while another call is in progress, hence *strong* fairness. The C-RORC
run also assumes that data keeps arriving (weak fairness of `FirmwareFill`), as
only data completes a superpage; so does the benchmark, whose low-priority thread
is fair once there is something for it to see. A SIGINT or an exception may come
at any time or never. In the lifecycle only the steps inside a
call are fair, never the user's decision to open or close.

`FilledIsDelivered` needs a ready queue with room for every page pushed:
`fillSuperpages()` serves the links in a fixed order and breaks off when the
ready queue is full, so with more pages than that link 0 can starve link 1
(`CruDmaChannel.cxx:360`).

`card_parts` has safety properties only, and no fairness: every wait in these
parts ends by a count or a time-out, which the models have as a step.

## 5. Proofs

All for every value of the constants; assumptions are the named `ASSUME` of
each module (sizes positive, counter width larger than the FIFO, no process
called `Nobody`), as the code's constants satisfy them.

**`ProducerConsumerQueueProofs`.** `TypeOK`, `RoomKept` (a slot found free by
the producer stays free), `RecordKept` (a record found by the consumer stays),
`Written`, `Pointer`, `Moved` and `GuessGoing` together are inductive: each is
what one thread knows in the middle of a call, and holds because only that
thread can use up what it found. From it: `SlotSafety`, `PoppedRecordSafety`,
`GuessSafety`, and `RingImplementsFifo`, step by step under the mapping `fifo`
(the queue's contents, read off the ring from `readIndex` on).

**`CruDmaChannelProofs`.** None of the properties is inductive: whether the
ready flag is right depends on which superpages the count stands for. The
invariant says that, during a session, a link's queue is: first the superpages
the firmware has completed and the driver has not collected (`Behind`, the
difference of the counters modulo their width), then those on the card, in the
order of its FIFO, then one whose descriptor is about to be pushed
(`QueueShape`, `QueueMatch`, `FilledPrefix`). As a queue is shorter than the
counter's range the difference never overflows. `AmountInv` carries it into the
transfer loop, `DrainInv` and `ReclaimInv` through `stopDma()`, `OwnerInv`,
`QueuedOnce` and `ReadyOnce` say that no superpage is in two places. Theorems:
`TypeCorrect`, `ReadyFlagIsTrue`, `DmaStaysInQueue`, `StopEmptiesQueues`,
`SlotsAccounted`, `ImpossibleErrors`. For `ChannelImplementsOwnership` two more
facts are needed: a superpage owned by the card is in the queue of a link
(`CardQueued`), and the ready queue is never longer than its capacity; a step is
then a step of `SuperpageOwnership`, under the mapping the run checks, or a
stutter. `SizesStayInStep` rests on `SizeInv`: the size FIFO of a link has one
entry for each superpage the driver is behind, with the size of that superpage and
with consecutive indices that begin where the driver will look next (`IndexRun`,
again modulo the index's width).

**`CrorcDmaChannelProofs`.** The count in the info buffer is only compared for
change, so everything hangs on there being one superpage in flight at most.
`FlightInv` says of that one: either the firmware has reported it, then the count
is one ahead of `spAvailCount` and the size is what was written (`Reported`), or the
firmware still has it and the counts agree (`Unreported`); with nothing in flight
they agree too. `ControlInv` ties the local queues to the step of the call,
`RestInv` says what a stopped channel and one whose `startDma()` threw hold,
`WaitingInv`, `OwnerInv` and `ReadyOnce` that no superpage is in two places. Any
capacities, any width of the count above one. Theorems: `TypeCorrect`,
`ReportsAreTrue`, `ChannelImplementsOwnership`, and `SuperpagesInOrder`, which has a
hypothesis: the ready queue has room for every superpage of the buffer. Without it
superpages dropped because the ready queue is full leave gaps in the line.

**`DmaBenchProofs`.** The invariant counts places instead of superpages: a
superpage is in the free queue, in the readout queue, in the hand of the readout
thread, in the ready queue or with the driver, never in two of them (`Apart`) and
never twice in one queue (`NoneTwice`); between the write to the readout queue and
`popSuperpage()` the head of the ready queue is counted in the readout queue alone.
Until the end no superpage drops out (`AllThere`), unless the buffer-full check may
take them. `ThreadInv` says what each thread knows by where it is. Hence the sum of
the queues' lengths is bounded by the number of superpages. Theorems:
`TypeCorrect`, `QueuesHaveRoom` (no write to the free or the readout queue fails,
which the code treats as an error), `BenchKeepsItsBooks`.

**`CruConfigurationProofs`.** `configure()` decides every write on a report read
at its beginning. The steps are ranked in the order of the code; what the call
has not come to (`Before`) is still as reported, what it has passed (`After`) is as
requested, except the two settings that an unforced call which switches the links off
does not restore (`Lost`: user and common logic, dynamic offset). `ClockInv`, `LinkInv` and `SettingInv` say so for the clock, the links and
the switches and numbers. Only the call writes these (a running readout does not), so the
report cannot go stale. Theorems: `TypeCorrect`, `ConfigureTakesEffect`,
`MatchingCardUndisturbed` (an action property), for any set of links and requests.

**`CardPartsProofs`.** The parts share no state, so each has an invariant that its own
steps keep, and a step of `CardNext` is a step or a stutter of it (so in `CrorcProofs`, too).

`MonitoringStaysRight`:

- Sticky bits (`StickyInv`): a reporter that clears a GBT link's latch has read it set.
- Triggers (`TriggerInv`): base, previous and present count are in order; the lemma
  `Wraps` says what the difference of two readings modulo m is, for every m.
- Health (`HealthInv`): what the channel has seen of a counter and the times the link starved
  since are the counter plus whole turns (`Counted`); a channel that switched debug
  mode on found the register zero (`DebugInv`).
- Loopback (`LoopInv`): by the step a tool is at, what it has made of its link so far
  (`Prepared`), unless it was crossed; and the copy of a register it holds is still
  the register.

`GeneratorsStayRight`:

- CTP emulator (`CtpInv`): what a tool has left to write is a rest of the script of the
  call that was accepted (`StartLeft`), and the registers hold what the writes before it
  put there (`StartPassed`), or it is a list of writes that leave the emulator idle. `ScriptParts` says where
  the parts of a concatenation are, `DividersOfMode` what a mode writes.
- Pattern player (`PlayerInv`): up to its n-th write a call has written its first words and
  numbers (`WordsIn`, `NumbersIn`), with the player held (`cfg`); a player let go shows one call
  whole (`ShowsPlayed`). `TextsRead`: a text is refused exactly if its number does not fit
  the register, for any width of word and any base. `Said` and `Value` are functions on 0..n defined by
  themselves; that such functions exist, and step as written (`RecursionExists`, `SaidSteps`,
  `ReadSteps`), is by the least number for which it would not hold (`LeastNumber`, from
  `WFMin` of the library): so this much induction over data is within reach.

`ClocksStayRight`:

- Calibration (`CalibInv`): what is left to write is a rest of the script of one call
  (`IsRest`), and each device is as the steps before it leave it; so with nothing left, and
  no wait given up, all of them are done, whatever earlier calls left half done.
- Clock (`ClockInv`): the lock of the I2C bus is held by exactly the tool that is at a
  register of a PLL (`BusInv`). While a tool programs a PLL, the sections it has written
  are in the chip and the page is that of the section it is at (`Programming`), unless a
  transfer was lost; all maps go through the same pages in
  the same order (`BodyPages`). A tool that no
  other overlapped (`AloneInv`) has in its hand the TTC_DATA there is (`CopyInv`),
  the programmed clock is the one it wants (`WholeInv`), with the local generator where
  the TTC clock needs it (`RefGenInv`), and the clock it compares with is the present
  one (`SeenInv`): hence a call that decides to do nothing is right to. Any set of tools and scenes.

`PagesStayRight`:

- Buffers (`BufferInv`): a run between the lock and the removal of its buffer file holds the
  file's lock, and from the mapping on the file is as long as its buffer (`FileInv`), so no other run
  resizes or removes it. Every superpage that was pushed lies in the buffer, with the bus address
  that a list accepted for this buffer gives its offset (`ListInv`). That it does not leave the piece its first byte is
  in is arithmetic: pieces end where pages do, and a page is a multiple of an aligned
  superpage. Any sizes.
- Pages (`PageInv`): the packet counter of a link is that of the last page before those
  that are missing or were not to be checked (`LinkInv`), the data counter likewise (`DataInv`),
  modulo any width; what is told of the present page is what its check has come to (`ToldInv`).
  Without flaws the next time frame begins after the pages that were read, and not after the frame of the link
  that is ahead (`FrameInv`); the page that is late was to begin it (`LateInv`). Any number
  of links, any check frequency, any widths of the counters of packets, events and data.

**`CrorcProofs`.** The DDL, `DdlStaysRight`: a call is a script of register accesses, so the invariant
(`DdlInv`) follows what is left of each script, one clause for each step, and says
which command and which status words may be on their way there (`Flight`: those in
the FIFO and those not yet in it). `DdlTypes` needs every script to be made of
known steps, `StepsOfHwQuery` and its like say which. With nothing unread or on its way when a call of
class Crorc began:

- SIU status (`StatusInv`): at character n the card holds the command for n, or
  its two words are on their way; so what was read is the identification so far, up to
  the terminator, and the last answer has the bits of the SIU as it is now.
- Loopback (`LoopBackInv`): a second command goes out only if the first has
  switched the mode off; by its last step the mode is on.
- Reset of the SIU (`ResetSiuInv`): words of given-up attempts may well be on their
  way, but with lower transaction ids (`IdsBelow`): two ids are taken in an
  attempt, and with at most seven attempts the four bits of an id do not wrap. So an answer
  with the current id is this attempt's (`OwnAreMine`). With nine an answer to the
  first could be taken for one to the last (eight would do, at the price of one more case in the
  invariant); the only call in the code, in a comment, asks
  for three (`Crorc.cxx:725`).
- Start of the readout (`StartInv`): after the two resets the front end's own
  command is all there is.

`DdlStaysRight` has the hypotheses of `DdlIsRight` itself: no other process used the DDL,
and no word was lost, since the call began.

`CardHasDdl`: a behaviour of the card is one of the DDL alone. Flash and registers, `CrorcStaysRight`:

- Flash (`FlashInv`): while blocks are erased, what is below the address is blank and the
  address is a multiple of the block; while the image is written, the first words are
  the file's, as many as the address says, and the rest is blank (`FileIn`); the
  serial number's words likewise, with the numbers the last interrupted call may have
  left (`SerialInv`). Any sizes of block, buffer and file.
- Registers (`RegInv`): a register that was read for a modification, and that no other
  modification overlapped, still says what was read (`RaceInv`), and the fields that the two
  processes write are disjoint (`Updates`). The toggled bits follow
  from what is left of `startDma()` or `stopDma()` (`StartingInv`, `StoppingInv`): whenever
  the second `stopDataReceiver()` is due, the receiver is off, and it does nothing.

**`ChannelLifecycleProofs`.** The invariant is one of each process: it holds
the lock of its slot from the first to the last PDA operation on it
(`HoldsLocks`; all locks, while a cleanup frees), has buffers registered there
only and only between the first registration and the last deletion
(`OwnsOnlyHere`, `HasBuffers`), and DMA running only while it is open
(`DmaOnlyWhileOpen`). A step of another process disturbs none of it, because it
needs the lock. Theorems: `TypeCorrect`, `BuffersStay`, `BuffersGuarded`,
`DmaIntoRegistered`, `OnlyTheDeadLose`. They do not use the PDA lock - as the
finding above shows, they could not.

**Assumptions added for proofs.** `TriggersAssumption` (the moduli are positive and the
16-bit counters are not wider than the 32-bit ones), `HealthAssumption`, `LoopAssumption`
(a call is one of the two tools', on a link there is), `PatternAssumption` (the width is a
positive number, requests are of texts in some base above one),
`ClockAssumption` (configuration tools are not status tools, none is called `nobody`),
`BufferAssumption` (sizes are positive, no run is called `nobody`), `PageAssumption` (positive
frequencies and widths, and a run ends at least a time frame before its 32-bit orbits wrap, which takes
days: the code compares orbits with `<`),
`CalibrationAssumption` (the links are a list without repetition, and none is a PLL), and of
`DdlAssumption` that the sources of the readout are of the three there are. The runs evaluate them.

**Only model-checked.** Liveness under fairness (the prover has no `ENABLED`):
`AcceptedIsDelivered`, `FilledIsDelivered`, `CallsReturn`, `PushedComesBack`,
`Finishes`, `EndsWhenTold`, `FilledIsReadOut`. Of the card's parts:

- `RequestsAreRight` is about lists and texts of the command line processed with folds of
  the community modules, over operators: induction over data, which the prover can do only for
  functions written out as `RecursionExists` needs them.
- `LinksAreRight` counts the links of banks (a cardinality of a filtered product), and
  `FieldsAreRight` is about some seventy concrete bit positions: for these the instance *is* the
  card, and TLC's check over it is as good as a proof.

`RECURSIVE` operators are not used.

## 6. Each property can fail

Every property of a passing run has a mutant in `PROJECT.json`: the module holds,
before a definition, a form of it with a plausible bug (named
`<Definition>_<Bug>`, with a comment), which violates the property under the
run's own configuration.

## 7. Disagreements between code and documents without a run

Met while modelling; the models follow the code.

- `DmaChannelInterface.h:106`: `stopDma()` "moves any remaining superpages to the
  ready queue, even if they are not filled". `reclaimSuperpages()`
  (`CruDmaChannel.cxx:331`) ignores a full ready queue and drops them:
  `SuperpageOwnership` has `Drop`, allowed only when the ready queue is full.
- `DmaChannelInterface.h:105`: `stopDma()` is "Called automatically on channel
  closure". The destructors do not call it: the CRU's stops the DMA engine but
  leaves data taking on, the C-RORC's leaves the card to the next owner.
- `src/README.md:148`: DMA can be paused and resumed with stopDma() and
  startDma(). `startDma()` empties the ready queue: `Forget`.
- `ProgramDmaBench.cxx:396`: on SIGINT "we stop pushing and try to wait a bit until
  the queue is empty"; the break flag makes all threads leave at once.
- `Interprocess::Lock` throws `std::runtime_error`; `DmaChannelBase.cxx` and
  `TestInterprocessLock.cxx` expect `LockException` or a socket exception.
- `PdaBar.h:66`: `getSize()` returns the bar's number.
- `src/README.md:188`: the CRU id is documented as 0x0-0xffff and is stored in 12 bits: a larger one
  never compares equal and the card is reconfigured each time.
- `CruBar.cxx:771`: the failed phase scan is logged as a string literal *plus* the
  ONU address, which is pointer arithmetic.
- The ONU address is assigned only when the clock changes or by force; a failed
  calibration is not repeated by an unforced retry, since the clock is then
  already set; links switched on after a clock change with GBT off are never
  calibrated. Hence `TakesEffect` claims calibration for forced calls only.

DMA and benchmark:

- `fillSuperpages()` serves the links in a fixed order (`CruDmaChannel.cxx:360`);
  `deviceStopDma()` of the C-RORC takes no lock (`CrorcDmaChannel.cxx:152`), so two
  threads of a user must not stop and fill at once.
- `CruDmaChannel::injectError` tests `!mDataSource == Fee`.
- A page whose header says offset 0 is read over and over until the loop is
  broken, and for ever in `freeExcessPages` (`ProgramDmaBench.cxx:577`). With an
  output file open, the dumps of failing superpages (538, 622) are lost, as `open()`
  fails on an open stream. `~ProgramDmaBench` destroys the mapped file before the
  channel; a malformed `--time-limit` throws after DMA was started.
- The help of `--buffer-size` says "Rounded down to 2 MiB multiple"; `tryMapFile`
  throws. "hugepage size must be a multiple of the superpage size" (187-188) is
  not checked. A failed 1 GiB attempt leaves its empty file, and a
  `LockException` is no reason to fall back to 2 MiB.
- Page checks: after an orbit wrap the time frame catch-up does not end
  (`ProgramDmaBench.cxx:832`, the mask of a `uint32_t` with 2^32 is 0); internal data
  with `--error-check-frequency` over 1 gives false data errors, and time frame
  starts that are skipped give false "TF unaligned"; event counters are
  modulo 2^32-1; without resynchronisation one error makes the later pages err.

CRU:

- DEBUG (`Constants.h:107`) and TIME_FRAME_LENGTH (406) are one register, 0xc00:
  with a length set, debug mode always reads as on and so is not set for the
  internal source; setting or unsetting it wipes the length.
- TTC_ONU_STICKY_MON has the address of TTC_ONU_STICKY (`Constants.h:202-203`),
  though `Ttc.cxx:157` says monitoring "reports and clears a different register".
- `CruBar.cxx:287-289` asks to make sure the firmware has a serial number before
  reading it; `RocPciDevice` does not look.
- A rejected configuration has already changed multiplexers, modes and loopback
  (`CruBar.cxx:733`).
- A half programmed PLL may match the report, which reads one register of one
  of them, and an unforced retry then skips the PLLs; two endpoints configuring
  at once may reprogram PLLs under the other's calibration. txcal0 and rxcal0
  wait for the same bit.
- CTP emulator: continuous, fixed and manual starts keep HC and CAL dividers of an
  earlier call; the help texts of `--hbdrop` and `--hbkeep` are swapped.
- Trigger monitor: differences of EOX and SOX (4 bits, corrected by 2^32) and of TOF
  and CAL (16 bits, subtracted as 32) are wrong after a wrap. LTU_TOFTRIG_CNT and
  LTU_CALTRIG_CNT share an address (`Constants.h:231-232`).
- `o2-roc-status --links 5` alone reports the power of fibre 0 (`I2c.cxx:226`).
- The link map is right for six links per bank only; a second wrapper that runs
  without the first makes the first be scanned.
- The loopback test leaves the internal generator on (`Gbt.cxx:372-375` is commented
  out), its counter type is of the whole wrapper, and tools that cross on
  SOURCE_SELECT can leave the error counter held at 0.
- Pattern player: two tools at once mix their settings.

C-RORC:

- DDL calls (except `ddlResetSiu`) use transaction id 0: after a time-out a later
  call may take the earlier one's answer for its own. `siuCommand` and `diuCommand`
  (`Crorc.h:104`) pass the command as the transaction id and always send RandCIFST.
  `ddlSetSiuLoopBack` tests the status from before TSTMODE, so an old SIU always
  throws. `ddlGetHwInfo` writes past its array when no terminator comes.
- SERIAL_NUMBER_CTRL (0xF0) is the flash data register: reading the serial number while
  the flash is programmed writes into the flash interface. `programFlash` does not
  check the file's length and says "Completed programming" before the last status.
- The id is cut to 12 bits; a time frame length over 256 throws after offset and id
  are written; the length is written with 11 bits and read with 12.

Cards and settings:

- Serial ids: `0001:1` is taken for endpoint 0 (`SerialId.cxx:33`); `123:` throws out of
  `fromString`; pre-production cards all have serial 0; an unreadable serial is taken
  out of an empty optional (`RocPciDevice.cxx:271-281`), which ends the look-up of
  later cards and the card list.
- `o2-roc-config --config-all --bypass-fw-check` configures nothing: the call is
  inside `if (!bypassFirmwareCheck)` (`ProgramConfig.cxx:451`).
- The file written by the tool has `feeId=` the system id and no time frame
  detection. `--links` 12-15 are accepted on the command line ("[0-16]") and refused
  in the file. `[links]` after `[linkN]` switches the link back on. Errors of
  `std::stoul` escape every `catch`, so `--config-all` stops at that card.
- Report names: `+` or `%i` missing with `--config-all`, and each card overwrites the
  report of the one before.
- Register tools: an address that is no hex number is 0 (`Options.cxx:151`), one over
  32 bits is cut, `--value 1f` is 1, the last register of a BAR is out of range
  (`PdaBar.h:189`, a strict `<`), and `--width 32` shifts by the width of the word
  (`Util.h:69`), which is undefined.

## 8. Plan

Done: `ProducerConsumerQueue`/`BoundedFifo`, `CruDmaChannel`/`SuperpageOwnership`,
`CrorcDmaChannel`, `DmaBench`, `ChannelLifecycle`, `CruConfiguration`, and the
nineteen parts of `CardParts`, each with its runs; proofs of all safety properties of
the first six and of thirteen of the parts (DDL, flash, registers, clock, calibration,
sticky, triggers, health, loopback, CTP emulator, pattern player, buffers, pages).

Worth proving next: `RequestsAreRight`, once the texts and lists of the command line
are functions over their indices instead of folds (as `PatternPlayer` has it already).

## 9. Not modelled, and why

- Formatting: status tables, metrics, log messages, the names of enumerations.
  The back ends of a configuration (ini, json, consul): a library.
- Temperatures, dates and hashes of the firmware: conversions of one register.
- The random event size of the user logic: one bit that toggles.
- NUMA nodes, `numa_maps`, the hugepage set-up script: advice and set-up.
- The hash of long lock names (a collision would make two locks one): a question
  of the name only. The factory: a dispatch on the card type.
- The EEPROM, the reference frequency, the values within a section of a PLL's map: data.
- Calls no program makes: data generator of class
  `Crorc`, `armDdl`, error injection.
- The window of 1000 good reads of the C-RORC's link check (`CrorcBar.cxx:181`): it
  accepts a flapping link that is up at the last read.
- Output files, status display and random pauses of the benchmark; the BAR hammer.
- The Python interface, logger, exceptions: wrapping.

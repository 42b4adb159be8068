# A specification of the SIS1100 driver

TLA+ modules, TLC configurations and TLAPS proofs for the Linux driver of the
SIS1100 PCI card (`src/dev/pci`).  The card is joined by an optical link to a
remote side: a VME crate (SIS3100), a CAMAC crate (SIS5100), another SIS1100,
or a detector front end (zellvd, pandapixel, psf4ad).  The driver gives user
processes single and block transfers to the remote side, interrupts from it,
and "demand DMA": a ring of user buffers that the remote side fills on its own.

Paths without a directory are below `src/dev/pci/`.

## 1. Inventory

State is in `struct sis1100_softc` (`sc`, one per card, `sis1100_sc.h` and
`sis1100_sc_linux.h`), `struct sis1100_fdata` (`fd`, one per open file), and in
the registers of card, PLX bridge and remote side.  Locks: `sem_hw` (mutex, the
link and the transfers), `sem_irqinfo` (mutex, `pending_irqs`, vectors),
`sem_fdata` (list of files), `dma->mux` and `dma->spin` (demand DMA),
`handlercommand.lock`, `lock_intcsr`, `lock_doorbell`, `lock_sc_inited`.

| component | files | state | operations | talks to |
|---|---|---|---|---|
| Interrupt handler | `sis1100_irq.c` | INTCSR, `sr`, `doorbell`, `lemo_status`, `got_irqs`, `handlercommand` | `sis1100_intr`, enable and disable of local and PLX interrupts | hook of demand DMA, thread, `local_wait` |
| Interrupt thread | `sis1100_irq_thread.c`, `*_handler.c`, `sis3100rem_irq.c` | command word taken, `new_irqs` | one pass: doorbell, lemo, mailbox, link, DDMA; signals; wakeup | delivery, link, processes |
| Reservation and delivery | `sis1100_irq_handler.c`, `sis1100_open.c`, `sis1100_read.c`, `sis1100_poll.c` | `owned_irqs`, `pending_irqs`, `autoack_mask`, `irq_vects`, `sig` | open, irq_ctl, irq_ack, irq_get, irq_wait, release | thread, controller of the crate, demand DMA |
| Optical link | `sis1100_synch_handler.c`, `sis1100_init_remote.c` | `remote_hw`, `old_remote_hw`, `link_up_timer` | link change, timer, `init_remote`, REMOTE_RESET | everything that tests `remote_hw` |
| Demand DMA | `sis1100_ddma_startstop.c`, `sis1100_ddma_map.c` | `block[]`, `writing_block`, `reading_block`, `is_blocked`, `status` | map, start, stop, wait, mark, hook | handler, thread, irq_get, irq_ack |
| Demand DMA mapping | `sis1100_ddma_map_linux.c` | pages, scatter lists, descriptor chains | map and unmap of one block | demand DMA |
| DMA transfers | `sis1100_read_dma*.c`, `sis1100_write_dma*.c` | DMA channel 0, `got_irqs` | one chunk: arm, enable, wait, abort, copy | handler, link |
| Programmed transfers | `sis1100_*_loop.c`, `*_block.c`, `sis1100_tmp_*.c` | protocol registers, send FIFO | single words, loops, choice of method | link |
| Pipelines | `sis1100_pipe_linux.c`, `sis1100_write_pipe.c` | list of commands, `p_balance` | read and write pipe | handler |
| CAMAC interrupts | `sis5100rem_irq.c` | `lam_enable`, latches | as the VME side | thread |
| Remote initialisation | `*_init.c` of six remote types | registers, `dsp_present`, `ram_size` | called by `init_remote` | link |
| Card initialisation and removal | `sis1100_autoconf_linux.c`, `sis1100_init.c` | PCI resources, thread, timer, units, nodes | module load and unload, probe with its error exits, remove | all |
| Front panel, DSP, timeouts | `*_front_io.c`, `sis1100_dsp.c`, `sis3100rem_init.c` | registers of card and crate | ioctls, each reading and writing a register | each other |
| EEPROM | `sis1100_eeprom.c` | contents, write enable | read, write | - |
| System calls | `sis1100_ioctl.c`, `sis1100_ioctl32_linux.c`, `sis1100_mmap.c` | settings of file and card | dispatch, conversion for 32 bit programs | all |
| User libraries | `src/sis3100_calls`, `src/sis5100_calls` | - | fill a request, interpret the answer | system calls |
| JTAG; tools, examples, tests | `sis1100_ioctl.c`; `src/eeprom_tools`, `src/test`, ... | - | - | ioctls |

What is hard here:

* **Four kinds of actors** share the state: the interrupt handler (which on SMP
  runs beside everything), a kernel timer, the interrupt thread, and any number
  of system calls.  Most decisions are taken under one lock and acted on under
  another, or under none.
* **Edge and latch.**  Interrupts are latched, cleared and enabled in separate
  register accesses, and a latched bit can stand for more than one change.
* **The ring of demand DMA** is moved by the handler, by `ddma_start` and by
  `ddma_mark`, and read by `irq_get`, which takes none of its locks.
* **Partial failure.**  The probe acquires a dozen things and the mapping of a
  ring six per block; each step may fail and what was done must be undone.
* **Read, modify, write.**  Registers of the crate are shared by processes and
  the interrupt thread; each call reads, changes and writes them.
* **Counts and errors** travel back from a chunk of DMA through block function,
  ioctl or read(2), conversion and library; each layer has its own idea of them.
* **Reservation** ties together `owned_irqs` (under `sem_fdata`), the enable
  bits of the crate (`sem_hw`) and `pending_irqs` (`sem_irqinfo`).

What makes each part correct, in one sentence: the ring delivers each block
once and in order and never lets the bridge write to a block the user has; an
interrupt a process has reserved is never dead and one nobody has reserved is
never enabled; a process asleep in `irq_wait` is woken; the driver learns of
every change of the link and tells the processes; the transfers end and report
what was transferred; what `probe` acquires is released once, and never below
those who use it; what a failed mapping has pinned is given back; no call undoes
what another has written to a shared register.

`PROJECT.json` lists every component with its status, and every hazard at its
line with the properties that cover it.

## 2. Modules

    DemandDma --------- implements ---> BlockQueue
      MCDemandDma, DemandDmaProofs
    IrqDelivery
      MCIrqDelivery, IrqDeliveryProofs
    LinkState
      MCLinkState, LinkStateProofs
    Transfers
      MCTransfers, TransfersProofs
    Lifecycle
      MCLifecycle, LifecycleProofs
    Access --- extends ---> VmeCalls ---> Ioctl32 ---> Ioctl
      MCAccess, AccessProofs
    DmaMap, Eeprom, Crate
      MCBoards (one of the three at a time), BoardsProofs (the first two),
      CrateProofs

The parts meet in the handler, the command word and the thread.  Each
module has its own share of them: demand DMA assumes a zellvd on a link that
stays up, interrupt delivery an SIS3100 on a link that stays up, the link
module leaves out the interrupts of the remote side, and Transfers is about a
card without demand DMA.  Transfers and Access
look at the same calls: the first at locks, interrupts and sleeps, the second at
addresses, counts, errors and all layers above.  The composition of link and
delivery is open (section 7).

In all of them an operation is split into actions exactly where the code can be
interleaved with another actor that matters: where it drops a lock, between two
register accesses, before and after a sleep.  A definition that is not used by
`Next` and stands before the one it varies (`HookBlockForgotten`,
`IntrNoteNoTimer`, ...) is a plausible bug; a property that a run checks is
violated when the variant replaces the original.  What is proved stands in a
module of its own beside each component (section 6).

### 2.1 DemandDma and BlockQueue

| variable | code |
|---|---|
| `block`, `writing`, `reading`, `isBlocked`, `status` | members of `struct demand_dma` |
| `hookOn` | `sc->plxirq_dma0_hook` |
| `engine`, `irqReq`, `irqEn` | DMA channel 0 of the bridge: busy and where, done latched, done enabled |
| `command`, `worker`, `pending`, `autoack` | the way of `ZELLVD_DDMA_IRQ` to the process |
| `mux`, `sem` | holders of `dma->mux`, `sc->sem_irqinfo` |
| `pc`, `arg` | where a thread or the handler is, and its block |
| `starts` | counts successful `ddma_start`, bounded by `MaxStarts` |

The handler is `Intr`, `IntrDispatch`, `HookFill`, `HookBlock`, `HookInform`
and, when the next block is free, the three steps of `start_dma` (`Arm`,
`EnableDmaIrq`, `Go`), which `ddma_mark` shares.  `DdmaStart` .. `StartRunning`,
`DdmaStop` .. `StopReady`, `DdmaWait` .. `WaitReady`, `DdmaMark` and
`MarkFree`, `DdmaMap` are the ioctls; `IrqGet`, `IrqAck`, `AckClear`,
`AckRearm` the delivery.  `SMP = FALSE` makes the handler run to its end before
any thread goes on (`CanRun`), which is what one CPU does; `SMP = TRUE` lets
every step interleave.

BlockQueue is the promise to the user: a block is free, the target of the
bridge, in the queue, or held, and filled blocks are handed out once each in
the order they were filled.  The refinement mapping computes the queue from
`reading` and the number of full blocks, so that the full blocks must really
be the next ones of the ring.

### 2.2 IrqDelivery

An interrupt is its bit number; registers and masks are sets.  Hardware actions
assert and release a VME level (`Request`), latch an input (`Latch`), ring the
doorbell while something enabled is asserted (`Ring`), and set a local status
bit (`LocalEvent`).  `Intr` is the handler's doorbell and local part.  The
thread goes `WorkerTake`, `WorkerLock`, `WorkerBlock` (the handlers, which
block the interrupts in the controller and read the vectors), `WorkerPend`,
`WorkerSignal`, `WorkerWake`.  A file is in `Open`; `IrqCtl`, `CtlAck`,
`CtlSet`, `CtlEnable` (reserve); `IrqOff`, `OffDisable`, `OffRelease`;
`IrqAck`; `IrqGet`; `IrqWait`, `WaitCheck`, `WaitGet`, `Interrupted`; `Close`,
`CloseFree`.  The order inside irq_ctl - reserve, acknowledge (which enables),
store the signal, enable the rest - is that of the code.

### 2.3 LinkState

`link` and `peer` are the world; `chg`, `en` the latched and the enabled
`irq_synch_chg`; `handler`, `timer`, `command`, `pc[Thread]` the four stations
the news passes; `remoteHw` and `old[f]` what driver and file believe; `hw` the
holder of `sem_hw`, which `init_remote` (`InitLock`, `InitIdent`, `InitSet`, for
the thread and for `SIS1100_REMOTE_RESET`) and DMA transfers (`TransferTest` ..
`TransferEnd`) share; `found` the type that `init_remote` has read and not yet
stored.  `irq_get` reads `remote_hw` three times: to see whether it has changed
(`IrqGet`), to report it (`GetReport`), and to remember it (`GetStore`); handler
and reset change it in between.  `sem_irqinfo` keeps `irq_get` apart from the
thread (`ThreadInfo`, `SemFree`).  `shown`, `told` and `swallowed` are history
variables: what the file was last told by open, `irq_ctl` or the report; a signal
was sent; a transfer has cleared `irq_synch_chg` before the handler saw it
(`TransferChunk`: `sis1100_enable_irq` clears what it enables).

The timer does not expire before the handler that set it has ended
(`LinkUpHandler`): it has a second, the rest of the handler a few register
accesses.  This is the only assumption on time.

### 2.4 Transfers

| variable | code |
|---|---|
| `sr`, `cr` | the local interrupts latched and enabled |
| `busy`, `done`, `dmaEn` | DMA channel 0: running, interrupt latched, interrupt enabled |
| `req` | what the protocol engine does for a DMA transfer: read, write, written but not confirmed (`drained`), lost with the link |
| `out`, `stuck` | register `p_balance`, and whether the answers were lost with the link |
| `got` | `sc->got_irqs` |
| `handler`, `csr`, `seen` | the step of the handler, and what it has read of INTCSR and of the status |
| `known`, `timer`, `init` | `remote_hw` is valid, the link timer, the thread waiting for `sem_hw` |
| `hw`, `pc`, `cc`, `left`, `killed` | `sem_hw`, the steps and variables of the process that holds it |
| `late` | history: a killed write may still be confirmed |

A process tests `remote_hw` (`Test`), gets `sem_hw` (`Lock`), and goes through
the chunks of a DMA read or write, a pipe, or a loop; `Word` is a single word,
which is polled and leaves its interrupts latched.  The order in which a
transfer clears `got_irqs`, clears and enables its interrupts, and starts the
hardware differs from one kind to the next, and each of the three is a step.
The handler reads INTCSR (`IntrEnter`), clears the interrupt of channel 0
(`IntrDma`) and stores `got_dma0` (`IntrTake`), reads the status (`IntrStatus`),
disables `irq_synch_chg` and starts the timer after a change (`IntrChange`),
stores the events in `got_irqs` (`IntrStore`), clears the status it has read and
wakes the sleeper (`IntrClear`).  With `SMP = FALSE` no process runs between
these steps (`CanRun`); the hardware does.
The hardware is as free as the sources allow: a DMA ends, fails, or is lost with
the link; a write is confirmed after its data have left the channel; reading
`prot_error` ends when `p_balance` is 0 or there is an error (comment in
`sis1100_write_loop.c`).  Assumed: `sr_abort_dma` stops the channel, polled words
come to an end.  After a change of the link only what concerns transfers is
kept (LinkState has the rest).

### 2.5 Lifecycle

| variable | code |
|---|---|
| `module`, `global` | `init_sis1100_module` and its exit; class, version file, device numbers, PCI driver |
| `devdata`, `unit`, `nodes` | `sis1100_devdata`, `sc->unit`, device nodes |
| `step` | the stage of the probe, or `undo` (an error exit), `remove`, `bound`, `unbound` |
| `held` | what the probe has acquired: `sc`, thread, PCI device and regions, both register spaces (`plx`, `reg`), interrupt, DMA space, the initialised card, cdev, nodes, drvdata |
| `todo` | the labels or calls of an exit that are still to come |
| `timer`, `thread`, `command`, `stopping` | `link_up_timer`, the loop of the thread, its command, `kthread_stop` |
| `files` | open files |
| `unheard`, `failed` | history: a stop while the thread worked; where the probe failed |

The probe goes through its stages (`Following`); at each it succeeds
(`AcquirePart`, `AllocSc`, `StartThread`, `InitCard`, `CreateNodes`, ...) or
jumps to a label (`ErrorLabel`, `FromLabel`) and falls through the rest
(`Release`, `DestroyNodes`, `DeleteTimer`, `StopThread`, `FreeSc`); `Removal` is
`done_sis1100_device`.  Beside it go `Interrupt`, `LinkUpHandler`, the thread,
step by step, and `Open` and `Close`.  `litter` (history) are the units of which
a failing `device_create` has left nodes.

### 2.6 Ioctl, Ioctl32, VmeCalls, Access

`Ioctl` and `Ioctl32` are functions, no state machines: `Native` and `Compat` map
a command, its argument, the file and the card to an *outcome* (result, argument
as handed back, function called, file, card).  They are the two switches of the
driver, the second with its own handlers and its default, the first.  `VmeCalls`
lists the functions of the libraries with the requests they fill, and what they
make of answers.

`Access` puts the layers on top of each other.  A program makes settings (`Set`,
by either switch), seeks, and calls (`BlockCall` of the library, `FileCall` for
read(2) and write(2), `WordCall`, `CamacFunction`, `ResetCall`).  `Enter` tests
and chooses the way.  A chunk of a DMA read is complete or ends at an error of
the remote side (`ReadChunk`), ends short with no error (`ReadChunkShort`: an
event of an earlier transfer ended it), or is cut off (`ReadChunkFails`,
`ReadChunkAborted`).  One of a write is complete or ends at an error (`WriteChunk`),
or fails (`WriteChunkFails`); how far it came before an error is asked of a VME
crate in an access of its own, whose error nobody looks at (`WriteCounter`).
`WordStep` are the loops that wait for each word, `SendStep` and `Drain` the loop
that does not, `PipeStep` the pipe; `LibReturn` and `FileReturn` the way back.
`moved` is a history variable: which words went from which address to which
place; `cut` another: the link has been away during this call.  The link is lost
and found again at any step; an address may answer with an error.

### 2.7 DmaMap, Eeprom, Crate

`DmaMap`: `DdmaMap` tests and unmaps the old ring, `MapBlock` does a block or
fails at one of its steps (`TableFails`, `WireFails`, `PciMapFails`,
`DescriptorFails`), each leaving the block as the code does; `MapFails` is the
exit that unmaps all.  `pinned` counts the pages of a block that are wired, which
an exit may get wrong: the code gives back `nents` pages, and `nents` changes.

`Eeprom`: a call shifts out commands as numbers (`PutBits`), the chip decodes
them (`Operation`, `ChipTakes`); a write enables, writes and waits word by word
and disables; a read keeps the pair of words it got.

`Crate`: a call is `Begin`, `Lock`, `First` (read), `Second` (write), with
`sem_hw` held from Lock to Second; DSP calls repeat that for every word,
acknowledging and handling CAMAC interrupts hold `sem_irqinfo` around it.  `mix`
chooses which calls are made, and which interrupts are reserved, in one behaviour,
since they touch different registers.  `pid` tells the process of each file:
`reserve_irq` refuses an interrupt only to files of other processes (`IrqCtlOn`).
`irq_ctl` acknowledges (`Acknowledge`), looks at `remote_hw` once more (`Again`)
and enables.  Accesses for CAMAC interrupts fail as they may: what was read of
the mask is then anything (`ReadLam`), what was to be written is not
(`EnableIrqs`, `Block`), and the call goes on.  The link may be lost at any step
(`LinkDown`) and come back (`LinkUp`, after which the thread runs `init_remote`);
without a remote side pending interrupts are cleared and nothing is enabled.
`lost` is a history variable: the interrupts that may be disabled through one of
these.

`MCBoards` runs one of the three at a time: they share nothing.

## 3. Runs

| run | instance | what it shows |
|---|---|---|
| `ddma_up` | one CPU, 2 blocks, 1 thread, stop and map, abort may fail, 2 starts | ring safe and in order, no block lost or left, a blocked DMA restarts, a stopped one is idle |
| `ddma_smp` | two CPUs, 3 blocks, stop and wait, 1 start | types, announcement, no silent stop, and that the ring implements BlockQueue, when hook, mark and stop interleave at every step |
| `ddma_lost_restart` | as `ddma_smp` | violation: see findings |
| `irq_vme` | one level, two files of two processes, autoack or not | reservation exclusive, level never stray, never dead, always wakes a sleeper |
| `irq_classes` | an input of the crate, one of the card, the mailbox | no sleeper is forgotten on the paths through latch, doorbell and local status, with autoack |
| `link_up` | one remote type, one file, one process that resets or transfers | driver never blind; a settled link is known, signalled, and no sleeper misses it; an up link is found |
| `link_removed` | same | violation |
| `transfers` | one CPU, one process, FIFO of 2 requests, one loss of the link | no late data, no false confirmation, the FIFO suffices, reads always end, all transfers end while the link is up |
| `lifecycle` | two cards, one unit, one minor | exits release all and nothing twice, in an order in which handler, timer, thread and files are safe; exits end |
| `access` | VME crate or zellvd; remote file or its memory; blocks of up to 3 words, chunks of 2, ending short or with an error | success means that the words counted were moved once and in order, and all of them but by a short DMA read; counts are of words that were moved; 32 bit programs get the same; calls end, unless a lost link lets them hang |
| `access_boundary` | same, blocks across the boundary | violation |
| `boards` | 2 blocks of 2 pages, two files; EEPROM of 4 words; two files, of two processes or of one, and the thread on the crate | what a mapping holds; EEPROM calls say the truth; outputs, DSP words and interrupt enables survive other calls |

Bounds, and why they are enough to meet the interesting cases:

* *Blocks.*  With 2 blocks "next" and "previous" coincide and the ring is full
  after one block; with 3 there is a block that is neither being written nor
  next.  Two different blocks can be with the user at once in both.
* *Starts.*  Two: the second start meets whatever the first run and a stop, with
  or without success, have left behind.  On two CPUs it is one, since after
  a stop that has not waited for the hook nothing holds any more.  The proofs
  say the same: the first run in every case, all runs for a process of one
  thread on one CPU (`starts <= 1 \/ Alone`).
* *Threads.*  One thread of the owner.  With two `NoSilentStop`, `BlockedMeansFull`
  on one CPU and `QueueSpec` hold as well (for one start they are proved for any
  number; the last has 630,000 states with two threads); `Announced` does not
  (section 5), nor does `StoppedMeansIdle`: a mark that restarts the
  bridge may be preempted by a stop of the other thread.
* *Interrupts and files.*  Interrupts interact only through the priority of the
  vector and the masks of one call; `irq_classes` has three of different
  classes in one mask, `irq_vme` two competing processes on one level.
* *Transfers.*  One process: transfers exclude each other by `sem_hw`, and all a
  transfer finds of earlier ones is in the hardware and in `got_irqs`, whoever
  made them.  One loss of the link (with two, 4.3 million states, the safety
  properties hold as well), at any step, and its return.  A FIFO of two requests
  is filled, found full, and drained; a pipe has one request, which may be left
  unanswered by a signal.  The proofs have none of these bounds.
* *Link.*  The link may change at any step, without a bound.  One remote type:
  with two types `link_up` holds as well (619,000 states without transfers), a
  different peer is treated like a new one.

* *Cards.*  One unit for two cards: the unit is taken, freed and taken again,
  and a card finds none.  One minor: files exclude each other per minor only.
  Everything else of a card is its own; the proofs are for any number.
* *Access.*  Three words in chunks of two: a full chunk, a last one that is
  shorter, and thresholds above and below.  Words of 1, 2 and 4 bytes by library
  and settings.  The boundary of 2 GiB (`Edge`) is at byte 8, so that blocks of
  bytes from address 6 cross it; blocks of longer words cross it only in
  `access_boundary`.  Two kinds of remote sides suffice: a VME crate counts what
  it has written before an error, others do not.
* *Boards.*  Two blocks: one mapped and one failing; a ring of two followed by
  one of one.  One and two pages, two descriptors to a page: a piece may be
  merged, and the list needs one page or two.  EEPROM: four words of one bit,
  calls of up to three words from each address, so that they wrap and read odd
  and even words with and without the cache.  Crate: two LAMs (so that one may
  remain) and an input; two lines of the card, one of the crate, and the LED that
  shares a register with the timeouts; DSP calls of two words.  With release and
  reservation through two files (of two processes, and of one) go two LAMs or the
  input; with a link that is lost, two LAMs; one LAM and the input are
  acknowledged and handled side by side.

`boards` uses the symmetry of the two files and of the two LAMs: no definition
tells them apart.  No other run uses symmetry, and none a state constraint.  `lifecycle`, `access` and
`access_boundary` switch the deadlock check off, since the system may stop
there: a card without DMA mask stays bound when the module is unloaded (see
`RemoveStart`), an exit may wait for a thread for ever (section 5), and without
a call the program has nothing to do.  All others have it.

### Fairness

* Demand DMA: the bridge finishes a block (data keep arriving), the handler,
  the thread and every system call under way go on (they never wait for user
  space inside), and the process keeps calling `irq_get` and giving back the
  blocks it has: that is its side of the protocol, and without it a full ring is
  no fault of the driver.  `irq_get` and the mark are strongly fair, since they
  wait for a mutex that others take in turn.
* Delivery: the crate rings while it has a reason, handler, thread and system
  calls under way go on.  Nothing is assumed of what processes call.
* Link: an enabled interrupt is handled, the timer expires, the thread goes on
  and gets the mutexes it waits for (strong fairness: a mutex of the kernel is
  granted in turn), `irq_get` goes on once it has `sem_irqinfo`, and who is inside
  `init_remote` comes to its end.  That a DMA transfer ends is not assumed: a write
  that a loss of the link has cut off in the wrong moment sleeps, with `sem_hw`
  held, until its process is killed (section 4).  `UpIsFound` has it as a premise
  (`TransfersEnd`: no transfer keeps `sem_hw` for ever).
* Transfers: the hardware ends what it has begun and answers while the link is
  up, the handler goes on and interrupts leave time for processes, who holds
  `sem_hw` goes on (strong fairness, since interrupts hold it up).  No signal is
  assumed, since none may be needed to end a sleep.
* Lifecycle: exits and threads go on (`kthread_stop` waits for the thread, whose
  steps are those of a running kernel thread).  Probing, interrupts, timers and
  files are not assumed.
* Access: the call that is under way goes on, and the hardware ends what it was
  asked to do, by success or an error of the remote side.  Without a link single
  words, reads by DMA and the reading of the counter end with an error of the
  interface.  Pipes, loops of writes and writes by DMA are assumed to go on only
  as long as the link has not been away during the call (`~cut`): after a loss they
  may sleep or spin for ever, as Transfers shows.

## 4. Properties

Demand DMA: `EngineInTarget` (the bridge writes only into the block reserved
for it), `RingInOrder` (full blocks are exactly the unread ones), `Announced`
(a full block at the head is pending or on its way), `NoSilentStop` (the bridge
stands still only for a reason), `BlockedMeansFull`, `StoppedMeansIdle`,
`FullBlocksAreRead`, `BlockedDmaRestarts`, `QueueSpec`.

Delivery: `OwnersExclusive`, `ReservedIsAlive`, `UnownedIsBlocked`,
`SleeperIsWoken`, `LevelWakesSleeper`.

Link: `NeverBlind`, `UpIsKnown`, `ChangeIsSignalled`, `SleeperHasSeen`,
`UpIsFound`; violated: `RemovalIsNoticed`.  `ChangeIsSignalled` and
`SleeperHasSeen` compare `remote_hw` with what the process was last shown.  They
exempt, by name (`Overwritten`), one case: `remote_hw` changes after `irq_get` has
reported it and before `irq_get` reads it again to remember it; the process is
never told.

Lifecycle: `HandlerSafe` (interrupt handler and timer find what they use),
`ThreadHasCard`, `AllOrNothing` (an exit releases what was acquired, and
everything: nothing is held, no node is left of a card that did not make all of
its own), `FileHasCard`, `ExitEnds`.  Exempt, each by name, is what the code
does not guarantee: files and timers of a card whose probe fails after
`cdev_add` or after `sis1100_init` (`Late`), the nodes that a failing
`device_create` leaves (`litter`), a probe without DMA mask, a thread that was
stopped while it worked (`unheard`).

Access: `SuccessIsComplete` (0 from the library means that just the words it
counts, the full length from read(2) and write(2) that all words, were moved
exactly once and in order), `CountIsMoved` (no count exceeds what was moved; a
read that succeeds counts it exactly), `SameIn32` (both switches do the same),
`CallEnds`; violated: `NeverBeyondRequest`.  What the code does not guarantee is
exempt by name: that a DMA read which succeeds has read all it was asked for; the
pipe, from the first two; aborted reads, and DMA writes during which the link was
away (`Guessed`), from the second and for files from the first; the commands of
`Different` from the third; from the last, calls that a loss of the link may let
hang (`MayHang`).

Boards: `RingHoldings` (a ring has its pages, mappings and descriptors; without
one nothing is held), `EepromHonest` (success means written, or read, as asked;
writing is disabled afterwards), `OutputsAsCommanded`, `DspWordsAreWhole`,
`ReservedIsEnabled` (a CAMAC interrupt that is reserved and not pending is
enabled or about to be, whatever others do to the register).  The last exempts,
by name (`lost`) and until they are enabled again: an interrupt whose enabling
failed, or was skipped since there was no remote side; all LAMs after the mask
could not be read; what another file of the same process has released; and all
after a reset of the crate.  It says nothing against a LAM that is enabled but
should be blocked, as the last one is.

Transfers: `NoLateData` (a read that is over writes no more into the shared
buffer), `WriteIsConfirmed` (no event of an earlier transfer is taken for the
confirmation of a write), `FifoSuffices`, `ReadEnds`, `TransferEnds`.
`ReadEnds` holds whenever the link is lost; `TransferEnds` is stated for a link
that stays up, for three reasons in the code: `write_dma` clears `got_irqs`
after it has enabled the interrupts (lines 169-172), so a loss handled in
between disables them and is forgotten, and the write sleeps, with `sem_hw`,
until it is killed; a pipe waits for `p_balance` alone; so does
`wait_for_fifo`, without sleeping.  With `SMP = TRUE` neither holds: the handler
clears the status it read at its end (`sis1100_irq.c:299`), together with events
latched meanwhile for a transfer that was started on another CPU.  `NoLateData`
and `WriteIsConfirmed` do not hold there either: the handler on another CPU may
store an event of a transfer that is over after the next one has cleared
`got_irqs`.  All four are about one CPU, `FifoSuffices` and the types about any
number.

## 5. Findings

1. `ddma_lost_restart` (SMP).  The hook tests "next block free" under
   `dma->spin`, and sets `is_blocked` under the same lock taken a second time.
   A mark in between frees the block and sees no blocked DMA: nobody restarts.
2. `link_removed`.  A link that comes back and goes down again while
   `irq_synch_chg` is disabled, or while `init_remote` is past its reads, is
   never noticed.
3. `access_boundary`.  The clamp of a DMA write at the 2 GiB boundary takes bytes
   for words: the chunk crosses the boundary, and may be longer than the request.

The models also show the following.  They are in the models as the code has
them, the properties exempt them by name or are stated for the case in which
they do not occur, and the hazards in `PROJECT.json` have their lines.

* `ddma_start` sets the status (`sis1100_ddma_startstop.c:186`) after it has
  started the bridge.  A first block that is filled, and fetched or acknowledged
  by another thread of the process in between, is neither delivered nor announced
  until the next one is full: both looks at the ring
  (`sis1100_irq_handler.c:295` and 114) ask for the status first.  `ddma_smp`
  with two threads violates `Announced` in 20 steps, on one CPU as well.
* On two CPUs `ddma_stop` does not wait for a hook that is running; the hook
  restarts the bridge after the DMA was declared ready.
* irq_ctl enables a level before it stores the signal; an interrupt in between
  becomes pending unsignalled and blocks its successors.
* The mask `30000` in `sis1100_lemo_handler.c` is decimal: a change of a lemo
  input of the card never becomes pending.
* A DMA transfer that tested `remote_hw` before the link went away and got
  `sem_hw` after it came back clears the latched change.  `UpIsKnown`,
  `ChangeIsSignalled`, `SleeperHasSeen` and `UpIsFound` are stated for a link
  whose last change no transfer has swallowed: the only excuse they need.
* `irq_get` reads `remote_hw` to report it and again to store it as
  `old_remote_hw` (`sis1100_irq_handler.c:266` and 270): a change in between is
  stored as seen and never reported, and the process may sleep over it.
* On several CPUs an event that the handler has read is stored in `got_irqs` after
  the next transfer has cleared it: `got_dma0` of a killed read or `got_end` of an
  earlier write ends the next read or write.
* `kthread_stop` while the thread works, or before it has set its state, is not
  heard (`sis1100_irq_thread.c:169`): the exit waits for ever.
* A probe that fails after `sis1100_init` leaves a pending `link_up_timer` in the
  freed `sc`; one whose `device_create` fails leaves nodes and open files; one
  without DMA mask is taken for a success, and its removal dereferences 0.
* `pci_map_sg` that merges pages, and pages that cannot be wired, change `nents`,
  by which pages are given back.
* A DMA read that a stale event ends before its data have come reports success
  and fewer words (`sis1100_read_dma_linux.c:135`).  The number of words that a
  failed DMA write has written is read from the remote side, and an error of that
  read ignored (`sis1100_write_dma_linux.c:226`).
* A read aborted by the loss of the link counts what is left in `_count_read`.
  `read_pipe_seq` always counts everything, and its `-ERESTARTSYS` is negated
  once too often and taken for success.
* A failed write leaves the EEPROM enabled for writing; a failed read returns
  whatever its variable holds.
* The last LAM of a CAMAC crate is never blocked by its handler.  Errors of the
  accesses to its mask are ignored: an interrupt stays disabled, or a mask of
  garbage is written.  Of two files of one process that have reserved the same
  interrupt, one may disable it for the other.  A crate that was reset forgets the
  enables of interrupts that are still reserved.
* For 32 bit programs DSP_READ loads, and six commands have another number than
  the one the switch knows: DEMAND_DMA_STOP among them, which is `_IOR` of 12 bytes
  there (`sis1100_var.h:380`) and `_IOWR` of 16 in `sis1100_ioctl32_linux.h:191`.

## 6. Proofs

All theorems are for every value of the constants that satisfies the named
assumptions of the module (disjoint names of actors; at least one block).

**DemandDmaProofs.**  `TypeCorrect`; `OneCaller`: `dma->mux` excludes;
`BridgeInTarget` and `BlocksInOrder`: the bridge writes only into its block and
the full blocks are the unread ones; `NeverStandsStill`, `BlockedIsFull` (one
CPU) and `FullIsAnnounced` (one thread); `StoppedIsIdle`; and the refinement,
`RingIsQueue`, with what follows from it, `EachInOnePlace`.

They speak of two cases.  The first run of the DMA: for any ring, any number of
threads, one CPU or several, with or without `ddma_wait`.  And every run of a
process that is `Alone`, that is of one thread, on one CPU, that does not call
`ddma_wait`, however often it starts and stops the DMA and whether aborts succeed
or not.  The restriction is the code's.  `ddma_stop` waits neither for a hook
on another CPU nor for a mark that has seen the old status, and `ddma_wait`
gives up the running status with the hook installed, after the hook may have
started the next block: each of the three leaves a bridge that moves for the next
start, and for `ddma_map`, to find.

`EngineInTarget` is far from inductive.  The invariant (`IInv`) says that the
right to move the DMA on is a token: at any moment at most one of the bridge, a
latched and enabled interrupt, the handler at one of its steps, a caller of
`start_dma`, or the next mark of a blocked ring has it, and each holder knows in
which state `block[writing]` is.  `Halts` says what a stop has quieted at each of
its steps, and that a DMA which neither runs nor is being started has nobody left
who could move it: from there a second start is like the first one.
`FillInOrder` and `DeliverInOrder` are the arithmetic of the ring.  Three
properties have an invariant of their own that is inductive beside `IInv`:
`MovesOn` (who holds the token finds the interrupt enabled, unless a stop has
begun), `WaitsForFull` (no mark comes between the two sections of the hook) and
`Tells` (from the start of the bridge on, not only from the status, a full block
at the head is on its way).  Their side conditions are sharp:
`ddma_lost_restart`, and the second thread of section 5, are what happens
without them.

For the refinement `Ordered` restates the order of the full blocks as a set of
places, `FullCount` counts them, and `QueueIsFull`, `FillAppends` and
`DeliverTakes` say that the mapped queue holds full blocks only, that the hook
appends the block it declares full, and that `irq_get` takes the head.  One
lemma per step of BlockQueue (`StartBegins`, `HookFills`, `ArmAims`, `GetHands`,
`MarkReturns`) uses them; every other step of the driver is a stutter
(`StepRefines`).  That the target of `start_dma` is free, as BlockQueue demands,
is again the token.

**IrqDeliveryProofs.**  `OneOwner`, `NoStrayLevel`, `NoLostWakeup` and
`ReservedStaysAlive`, the last under the assumption that every file belongs to
a process of its own (two files of one process may own the same interrupt, and
one may release it under the other).  `Ownership` relates the owner sets to the
steps of irq_ctl; `EnabledIsKept` says that whatever is enabled belongs to a
file that is not about to give it up; `SettledIsAlive` says the converse for
interrupts no call is working on.

**LinkStateProofs.**  `DriverNeverBlind` without further assumption;
`SettledUpIsKnown`, `NobodyOversleeps` and `EverybodyIsTold` if the remote side
answers (`~InitMayFail`).  The induction carries a notion of *due*: the thread
will still look at the link, since a change is latched, noted, timed, in the
command word, or the thread has not yet read.  `FoundIsRight` (what
`init_remote` is about to store is right, or will be corrected), `BeliefIsRight`
(so is what it has stored), `SignalIsComing` and `WakeIsComing` are the parts.
The last two theorems are about what `irq_get` has shown, with `Overwritten` as
their exception: the invariant has to say what holds between the three readings
of `remote_hw`, during which handler and reset may change it, though not the
thread, for which `sem_irqinfo` is held.

**TransfersProofs.**  `TypeCorrect` (with it: every path returns `sem_hw`),
`NoLateDataHolds`, `WritesAreConfirmed` and `FifoNeverOverflows`, for any number
of processes, any lengths, losses and kills; the first and the last for any
number of CPUs, the other two for one (`~SMP`), since they are false on several
(section 5).  Three
invariants, each inductive beside TypeOK: `ReadIsOwned` (from the arming of the
channel to the request nothing of an earlier read is left, and a request under
way has a reader who was not told that it is done), `EndIsOwn` (from
`enable_irq` of a write to its end only its own confirmation sets
`irq_prot_end`: `p_balance` is 0, so no other request can end), both with a
conjunct that what the handler has read and not yet stored is still true, and `CountIsBound`
(`cc` is at least what the loop has on the way, unless the FIFO was found
empty).

**LifecycleProofs.**  `TypeCorrect`, `Invariance`, `HandlersAreSafe`,
`ThreadsHaveCards`, `AllOrNothingIsKept` and `FilesHaveCards`, for any number of
cards, units and minors.  None of the properties is inductive: that an exit
releases only what is there follows from the order in which the probe acquired
it.  `IInv` therefore says, per card, exactly what is held: at a stage of the
probe everything up to its rank (`Probing`), in an exit everything from the rank
of what is left of the exit on (`Undoing`, `Removing`; `LastOf` says that `todo`
is a tail of the list), nothing at rest (`Resting`), and that at most one card is
on its way (`OneAtATime`).  `Users` confines timer and thread to the steps that
allow them, `Opened` files, `Housed` units.  The order is data:
`StageRank`, `ProbeRank`, `ErrorRank` and `RemovalRank` turn it into numbers,
`AcquireOrder`, `FailOrder` and `DropOrder` are the arithmetic of it.

**CrateProofs.**  `Invariance`, `OutputsStay`, `WordsAreWhole` and
`ReservedStaysEnabled`, for any number of files and processes beside the thread,
any lines and interrupts and any length of the DSP's code, whatever calls are
mixed.  `Exclusive` says that who is between its two accesses holds `sem_hw`;
`Snapshots`, that therefore what it read is still so (the mask, unless reading it
has failed and all LAMs count as lost; the card's lines, the LED, the low half of
the word in `d48`).  So a step that writes the mask back takes out only what its
own call is about, and `Alive` says who sees to a reserved interrupt that is
neither enabled, pending nor lost (`Coming`).  It is stronger than
`ReservedIsEnabled`: a call that has still to look for the remote side (`again`)
does not count, since it may give up.  `IInv` holds between all steps,
`OutputsAsCommanded` is about those where nobody holds `sem_hw`.

**AccessProofs.**  `SwitchesAlike` (`SameIn32`): native and 32 bit switch agree
for every command but the ones the property names, whatever the state of file
and card.  The proof goes group by group of the commands; what a function reads
of its argument are numbers (`ArgumentsAssumption` says so of the arguments a
configuration offers).  `SuccessMeansComplete`, `CountMeansMoved` and
`NoWriteBeyond` are for blocks of any length at any address, any size of the DMA
buffer and any thresholds, under `~Crossing`: no write of words of 2 or 4 bytes
crosses the 2 GiB boundary.  `access_boundary` shows that `NoWriteBeyond` fails
without it.  `AccessInv` says for each step of a call what has been moved
(`Items`: exactly the words before `upos`, in order), where the next word is
(`Placed`), and, when the block function returns, that the count is of words that
were moved and what no error means (`AtReturn`), with the exemptions of section 4.  `Appended` is the
lemma on sequences that every step of a transfer rests on; `ChunkBounds`,
`ClampBounds` and `ReachBounds` say that a chunk is never empty and never longer
than what is left - the clamp of a write only because of `~Crossing`.

**BoardsProofs.**  `MapHoldings` (`RingHoldings`), for rings of any number of
blocks of any size, descriptors of any number to a page: `MapInv` divides the
blocks into those that must be held (all of a ring, or those the call under way
has mapped so far) and those that must hold nothing, and says for a held block
how its counts, from which it will be given back, agree with what it holds.
`EepromIsHonest` (`EepromHonest`), for any width of the address from 2 bits on
and any words: `Written` says that just the first words of a write are in the
memory, `Reading` that the words got and the pair kept are those of the memory.
`Commands` decodes what `PutBits` encodes; `Wraps`, `NextPlace`, `PlacesDiffer`
and `Pairs` are the arithmetic of addresses.  The provers know nothing of powers
of two with a variable exponent; the three facts they need are the assumption
`PowersOfTwo` of Eeprom, which TLC evaluates.

Only model-checked, not proved: the liveness properties (`FullBlocksAreRead`,
`BlockedDmaRestarts`, `LevelWakesSleeper`, `UpIsFound`, `ReadEnds`,
`TransferEnds`, `ExitEnds`, `CallEnds`), which are beyond the prover.  Every
safety property that a passing run checks, and the refinement, is proved, under
the hypotheses named above.

## 7. What is left

In the order of importance:

1. **Delivery over a link** that is lost, and a crate that forgets its enables:
   IrqDelivery and LinkState composed.
2. DMA channel 0 shared by transfers and demand DMA; a ring that is freed while
   `irq_get` reads it; the buffers of the pipes.
3. Front panel pulses and latches (an edge between reading and clearing a latch
   is lost, `sis3100rem_front_io.c:123`), the front panels of the other remote
   types.
4. Proofs: runs of the DMA after a stop by a process of several threads need a
   stop that waits for marks under way, which the code does not have; what can
   still be proved of them is that the ring itself stays in bounds.  The
   hypothesis `~Crossing` can be dropped for reads.

## 8. Not modelled, and why

The register values written by the initialisation of cards and remote types, the
bit protocol of the SDRAM's SPD EEPROM, DSP reset and start, JTAG: sequential,
under one mutex, nothing to interleave, no state that another part reads.
Transparent mode, mmap and the allocation of its buffers, permissions, copying
of arguments and debug output: no state.  `SIS1100_RESET`: what a master reset
does to the interrupt enables is not in the sources.  Two CPUs on one register of
the bridge (`sis1100_irq.c:200`): the models disable and read in one step.  The
`__NetBSD__` branches are left aside, and so are two probes at once, which race
for the unit number (`sis1100_autoconf_linux.c:205`), and removing a card while
the module is in use.  Tools, examples and tests are programs that use the
driver; `sharc_utils.c` reads a file and loads it into a DSP.

# TLA+ models of the MHI host driver

The repository is a Linux driver for Quectel modems that speak MHI (Modem Host
Interface) over PCIe: a bus core (`drivers/bus/mhi/core`), a PCI controller
driver, client drivers (character devices, MBIM/QMAP network devices, a DTR
control channel) and user-space flash and dump tools. This directory models the
parts of the bus core where threads, interrupts and the device meet, the PCI
controller driver and the character and network devices on top of it, checks the
models with TLC and proves their safety properties, and that a channel implements
its abstract specification, with TLAPS.

Run a check with `tlc -config <run>.cfg <MC module>` (`MCMhiPm` for `pm_*`,
`MCMhiChan` for `chan_*`, `MCMhiDb` for `db`, `MCMhiUci` for `uci*`, `MCMhiNet` for `net`, `MCMhiPci`
for `pci`), a proof with `tlapm <module>.tla` for each module named `*Proofs`.

## Inventory

| Part | State it keeps | Operations | Interacts with |
|---|---|---|---|
| Power management core (`core/pm.c`, `core/internal.h`) | `pm_state`, `dev_state`, `ee`, `dev_wake`, `wake_set`, `transition_list`, `pm_mutex` | power up/down (sync, async, graceful, forced), suspend, resume, M0/M1/M3 handlers, mission mode, teardown, wake votes | every other part |
| Control events and interrupts (`core/main.c`) | control event ring, tasklets, threaded BHI interrupt | state-change, EE, command-completion and transfer events; SYS_ERR detection | queues transitions for the PM worker |
| Channels and rings (`core/main.c`, `core/init.c`) | `ch_state`, transfer, buffer and command rings, completion, `pending_pkts`, doorbell mode | prepare, unprepare, queue skb/dma/buf, transfer completion, reset, doorbells | PM state under `pm_lock`, clients by callback |
| Controller registration (`core/init.c`) | device context, interrupts, configuration tables | register, prepare for power up, unprepare | PM core |
| Client driver binding (`core/init.c`, `core/main.c`) | MHI devices, per-device votes | create/destroy device, probe, remove | channels, votes |
| Firmware boot (`core/boot.c`) | image tables | BHI/BHIe download, full boot chain, RDDM | PM worker |
| debugfs (`core/debugfs.c`) | - | `device_wake`; the rest prints | votes |
| PCI controller driver (`pci_generic.c`) | one recovery work and one controller pointer for all devices | probe, remove, status callback, recovery | PM core |
| Character devices (`uci.c`) | two reference counts, pending list, wait queues | open, release, read, write, poll, callbacks | channels |
| Network devices (`net/mhi/*`) | flags, queue state, NAPI, refill work, statistics | open, stop, xmit, poll, refill, callbacks, MBIM and QMAP framing | channels |
| DTR (`mhi_dtr.c`), old MBIM device (`mhi_net_mbim.c`) | completion, pending lists | - (never bound here) | channels |
| Tools (`tools/*`) | sequential protocol state | Firehose, Sahara RAM dump | character devices |

What is hard here: the PM state is changed by six threads of control under one
lock that is dropped and retaken between a check and its use; every wait has a
timeout and the answer may still come; teardown runs while interrupts are
requested; a vote and an M1 event race; a channel can be closed, removed,
suspended and failed while its buffers are in flight. There are no tests in the
repository. What makes each part correct:

- **PM core**: a locked teardown that nobody disturbs, error states left only by
  the worker, balanced votes, no lost wake-up, a power-down that is final and
  returns, a detected error that is acted on.
- **Channels**: buffers go back once and in order; one consumer of the ring; a
  doorbell reaches the device; no event of an old session; the packet count
  balances; a removal ends.
- **Controller driver**: what a call takes another gives back, on every error
  path; recovery restores what probe set up, and ends.
- **Character devices**: references are balanced; no buffer is lost but those queued to
  a channel that is being removed; a blocked call returns.
- **Network devices**: every skb is somewhere, or one of the few the code loses; a stopped transmit queue is woken again; receive never
  starves; stop leaves nothing behind; a packet comes out of a frame as it went in.

`PROJECT.json` lists the hazards by source line.

## Modules

| Module | Models | Lines read |
|---|---|---|
| `MhiPmStates` | PM, device and environment states, `dev_state_transitions`, the access macros | `internal.h`, `pm.c` 44-127 |
| `MhiPm` | one controller: PM worker, control tasklet, BHI interrupt thread, controller driver, suspend, votes, device | `pm.c`, `main.c` 288-447, 687-955, `init.c`, `boot.c`, `debugfs.c` |
| `MCMhiPm` | instances of `MhiPm` | |
| `MhiPmTypeProofs`, `MhiPmProofs` | theorems about `MhiPm` | |
| `MhiFifo` | abstract: what a channel promises its client | |
| `MhiChan` | one channel: rings, commands, events, open, close, removal | `main.c` 182-221, 449-599, 665-685, 845-1537, `init.c` 562-610, 1220-1280, `pm.c` 244-294 |
| `MCMhiChan` | instances of `MhiChan` | |
| `MhiChanProofs`, `MhiChanFifoProofs` | theorems about `MhiChan`: control; rings, sessions and refinement | |
| `MhiDb`, `MCMhiDb`, `MhiDbProofs` | the doorbell of one channel, each memory access a step | `main.c` 61-117, 484-599, 967-1079, 1129-1183, `pm.c` 244-381, 733-754 |
| `MhiUci`, `MCMhiUci`, `MhiUciProofs` | one character device and several files | `uci.c` |
| `MhiNetProto` | MBIM and QMAP framing, as operators | `cdc_mbim.c`, `qmi_wwan.c` |
| `MhiNet`, `MCMhiNet`, `MhiNetProofs` | one network device, using `MhiNetProto` | `net/mhi/mhi_net.c` |
| `MhiPci`, `MCMhiPci`, `MhiPciProofs` | the controller driver, several devices | `pci_generic.c`, `init.c` 147-195, 850-1094, `pm.c` 925-1086 |

Each client model takes the channel below it as `MhiChan` shows it: a bounded
queue whose buffers come back in order, or all at once with -ENOTCONN. `MhiPci`
takes the core as resources (context, interrupts, PM state) and `pm_mutex`.

### MhiPm

A section of code under `pm_lock` is one step; what is read or written without
it, or under it a second time, is a step of its own. Each thread has a program
counter: `w` (state worker), `t` (control-ring tasklet), `iv` (BHI interrupt
thread), `ctl` (controller driver), `s` (suspend/resume). Clients and the debugfs
file only add and withdraw votes and packets. Actions are named after the
function they are part of (`DisableReset`, `DisableWait`, `DisableKill`,
`DisableDestroy`, `DisableRings`, `DisableOff` are the sections of
`mhi_pm_disable_transition()`). `hw_*` and `evq` are the device; what it may do is
taken from what the host waits for. Every `wait_event_timeout()` may time out.

- Names are shortened: the initial `pm_state` "DISABLE" stands for the zero that
  `kzalloc()` leaves, which allows the same as DISABLE does.
- `session` is a history variable: TRUE from a power-up that found no work item,
  tasklet or interrupt thread of an earlier session under way, to the unprepare.
  Properties that mention it say nothing about a controller powered up while the
  previous session is still being cleaned up (see the observations).
- `pre_init` is always TRUE (all controllers here prepare first), and firmware
  download (`fbc_download`) is not reachable here.
- `mhi_queue_state_transition()` always finds memory.
- The program counter `t = "enter"` stands between the check of `mhi_ctrl_ev_task()`
  (`main.c` 924) and that of `mhi_process_ctrl_ev_ring()` (705): the load of `mhi_ctxt` at
  693 lies there, and `TaskletContext` is about it.

### MhiChan

One channel and one client. `q` queues (one thread, since "mhi_queue_skb is not
thread-safe", `mhi_net_mbim.c`), `o` opens and closes, `r` is
`mhi_driver_remove()`, `x[g]` is the tasklet of event ring `g`. `chan->mutex` is
a variable. `chan->lock` is held by a tasklet inside the transfer loop (as a
reader) and otherwise for one step; `pm_lock` is held for reading across the steps
`PmRead` names. The PM layer appears as `pm` in M0, M3 and ERR, with the second
half of the M0 handler as a step of its own: it rings the command doorbell, in mission
mode only. `TaskCmd` is `mhi_process_cmd_completion()`, which takes the oldest command off
the ring and completes the channel whichever command is answered. `sent`, `back`, `sess`
and `d_sess` are history: buffer numbers and the number of the channel context.

The removal waits for the client's threads where its `remove()` does, but not for a thread
inside `mhi_queue_buf()`: `mhi_uci_remove()` does not.

The device transfers one element or a chain of two per event. Channel doorbells are not
in this module: the device may learn of the write pointer (`DevLearn`) and ask for a
doorbell at any time, which is more than any order of doorbells lets it do, so that what
holds here does not rest on them.

`FifoRefined` shows that the channel implements `MhiFifo` with `Cap = N - 1`:
`fifo` is what lies between the read and the write pointer of an allocated ring,
`back` the last buffer taken out by the event loop or by the reset.

### MhiDb

`mhi_queue_*()` and the M0 handler ring with `pm_lock` and `chan->lock` held for reading,
so they can be inside `mhi_ring_chan_db()` at once. Each thread (`queue`, `m0`, `event`)
reads the ring's write pointer, writes the context, tests `db_mode`, writes the register
and clears `db_mode` in steps of its own; the event handler holds `chan->lock` for writing.
The M0 handler's section that resets `db_mode` (`M0Set`) takes `chan->lock` for writing,
drops it and takes it for reading to ring (`M0Test`). `cfg` ranges over the doorbell modes:
burst or not, `doorbell_mode_switch` (`reset_req`), doorbells in M2 or not. In burst mode
the device polls the context after a doorbell, and forgets that in M3 with `reset_req`.
`PmM3` follows `PmSuspend`; M3_EXIT is left out, since no doorbell may be rung in it, as in
M3. The two halves of a register write are one step: they differ only in a ring that
crosses 4 GB. `raced` is history: the thread that read the write pointer last was not the
only one that was ringing.

### MhiUci

Every file is used by one thread with its program counter in `pc`; `asleep` are
the threads inside `wait_event_interruptible()`, and a wait is a test, a sleep and
a wake-up, so a lost wake-up would show. `lock`, `read_lock` and `write_lock` are
the mutexes. `live` counts the buffers allocated and not freed, `lost` those that were in
rings when the rings were freed, `late` (history) those that `mhi_queue_buf()` took after
the removal had drained the channel: it does not look at `ch_state`. A packet is its length in units, a write its
number of mtu-sized pieces; O_NONBLOCK and signals are choices. `stale` is history:
an open() used the channel of a disabled device. The callbacks follow
`udev->uchan` without a test; behaviours end where it is gone, and `RefsHeld`
says when that cannot happen.

### MhiNet and MhiNetProto

`rx_alloc_submit()` is a small machine per caller (`rtnl`, `napi`, `work`) with its
locals `no_tre` and `i`. `napi` and `missed` are the NAPI state machine as the
driver uses it; `irq` is an interrupt the core has not yet turned into
`MHI_CB_PENDING_DATA`. RTNL is the program counter `rt`. `live` counts the skbs allocated
and not freed, `leaked` those of them that nothing refers to any more: an MBIM frame that
is too short, what a removal leaves in the rings, and the skb of a round of
`rx_alloc_submit()` that finds the device closed. `closing` (history) counts the last kind
since the last `mhi_net_stop()` began. `early` and `gaveup` are history, for the two cases the code does not handle.

A frame keeps the header fields the receivers look at, with their widths; a packet
is its length, its VLAN tag and whether it is IP. `TxRoundTrip` and `RxDelivered`
compare the transmitter with the receiver and the receiver with frames of the modem
(`MbimPeer`, `QmapPeer`), which carry up to `MaxPkts` packets, sessions, commands and
padding. An MBIM frame of the modem keeps to the block length the driver takes (`Fits`:
the receiver drops a longer one whole). Both are evaluated in the initial state, being
about no state.

### MhiPci

`held[d]` is what a device has taken and not given back; a call that needs what is
not held, or takes it twice, is recorded in `fault` and ends the behaviour, since
the code would free a null context or an interrupt that was not requested. `met`
holds the devices whose probe or remove met the recovery work, `refused` those the
work could not power up again, `over` those whose error was overwritten by another
device's. `RecoveryRestores` does not except `refused`: it says what such a device holds.
The other properties say that nothing goes wrong but for these reasons.

## Runs

| Run | Result | Shows | Distinct states |
|---|---|---|---|
| `pm_core` | pass | fair; mission-mode device that idles, crashes, recovers, is powered down and up again, with late interrupts and votes, no doorbells in M2: `PmMutexExclusion`, `CtrlTaskRegAccess`, `PowerDownFinal`, `WakeDoorbellHeld`, `TeardownVoteFree`, `ErrorStateSticky`, `VoteServed` | 1.1 M |
| `pm_life` | pass | every environment, synchronous power-up, suspend, votes of every kind, every timeout: `TypeOK`, `TeardownExclusive`, `VoteBalance` | 2.9 M |
| `pm_live` | pass | fair; AMSS, SBL and RDDM, forced and graceful, with packets: `PowerDownCompletes`, `SysErrHandled` | 0.2 M |
| `pm_bug_reset` | violation | `PowerUpResetWorks` | |
| `pm_bug_task` | violation | `TaskletContext` | |
| `chan_ul` | pass | fair; uplink, suspend, close, error, reopen: `FifoRefined`, `PendingBalance`, `TeardownPktFree`, `EnabledMeansStarted`, `NoStaleEvent`, `TypeOK`, `RemoveCompletes` | 0.7 M |
| `chan_fail` | pass | filled by the host and by `mhi_queue_buf()`, refused resets, late answers, unbind and rebind, shared event ring: `ConsumerAlone`, `RingFreed` | 5.7 M |
| `db` | pass | every doorbell mode, every order of the three ringing threads: `LostOnlyByRace` | 1.0 M |
| `uci` | pass | fair; two files against callbacks and removal: `RefsHeld`, `BuffersAccounted`, `FullRingEnds`, `RemoveEnds`, `BlockedCallsReturn` | 0.14 M |
| `uci_bug_open` | violation | `NoOpenAfterRemove` | |
| `net` | pass | fair; open, stop, poll, refill, transmit, error and removal: `RxNeverStarves`, `SkbAccounted`, `StoppedQuiet`, `TxNotStuck`, `TxRoundTrip`, `RxDelivered`, `RemoveEnds` | 0.8 M |
| `pci` | pass | fair; probe, remove and recovery of two devices with every failure: `CallsBalanced`, `NothingHeld`, `RecoveryRestores`, `RecoveryEnds` | 45 k |

Every property of a passing run has a mutant of the code in `PROJECT.json` that
violates it. `TypeOK` is a conjunct of `BuffersAccounted`, `SkbAccounted` and
`CallsBalanced` in the client and controller models.

### Bounds

- `MaxEvents`: spontaneous acts of the device (an environment change, a crash, an
  idle request, an interrupt without a cause). Two are enough for an error during
  the handling of the event before it; `VoteServed` needs one to boot and one to
  idle. Answers to the host are not counted. `pm_life` has none: there the
  environment is chosen by `Init`, and the orders come from the timeouts, votes,
  suspends and calls.
- `MaxPowerUps`: 2 in `pm_core`, so that one session meets what the last one left.
- `MaxVotes`, `MaxPkts` (of `MhiPm`): 1 per kind is enough to have a vote that is not the
  caller's. `EvRing`: 2 or 3 events; a full ring delays the device.
- `HwEE`, `ChanEE`: the environments the device enters and has channels for.
- `N`: 3 elements hold two buffers, so a chain, a wrap and a full ring happen; 2
  in `chan_fail`, where the ring's content does not matter. `MaxBufs`: N, so that the
  pointers pass the end of the ring; in `db` 3 elements, since the doorbells of the first
  two may cross while the third is queued.
  `MaxOpens`: 2 sessions, for what one leaves to the next. `CmdN`, `EvN`: the
  command ring can be full when `CmdN` is 2.
- `uci`: two files, so that one shares, opens or closes the channel object while the
  other reads, writes or waits; rings of two buffers, so that a write of two pieces
  (`MaxChunks`) fills one; packets of up to one unit (`MaxLen`), read in one piece or
  not at all, and empty ones. Nothing bounds the number of calls.
- `net`: rings of two buffers, so that they are empty, half full and full; a NAPI
  weight of one, so that the budget is used up with events left; frames of up to two
  packets (`MaxPkts`), lengths and tags at the borders of the padding (0, 1, 1500), of the
  block length and of the session numbers (0, 1, 128, 129, 255, 256, 511, 512). `MaxLeaks`
  bounds the skbs lost: with one lost already the device is not opened again and no
  further frame is too short, but a stop and a removal under way may lose theirs.
- `pci`: two devices, for the pointer they share. A device is probed once; recoveries
  are not bounded.

Deadlock is checked in `db`, whose M0 events never end, and not in the others: the system
may stop (the controller unprepared, the device silent, a bound used up).

### Fairness

`MhiPm`: weak fairness of the worker, the tasklet, the interrupt thread and of a
thread inside power-up, power-down and suspend: the kernel runs them, and their
waits have timeouts. Of the device only that it leaves M1/M2 when the wake
doorbell is set, which `VoteServed` is about. Nobody has to call in, no event has
to arrive. `MhiChan`: weak fairness of the calls under way, the removal and the
tasklets; nothing of the device. `MhiUci`: weak fairness of threads inside the
driver, strong fairness of taking a mutex (a waiter is served in turn); nothing of the
device or of user space: who sleeps stays asleep unless woken. `MhiNet`: weak fairness
of interrupts, the poll, the work, the transmitter and of a thread that holds RTNL,
strong fairness of the removal's turn at RTNL. `MhiPci`: weak fairness of the threads
inside the core and of the work.

## Proofs

Every theorem is about `Spec` and holds for every value of the constants that its
second column allows. The other assumptions are the ones each model makes of its
constants (`PmConstants`, `ChanConstants`, `UciConstants`, `NetConstants`,
`PciConstants`: types, names that must differ, and rings that hold something), which the
runs evaluate. Each invariant was checked by TLC before it was proved. A proof has
one lemma per thread or action; `TypeOK` of `MhiPm` is split into `Flags` (Boolean
variables, by Zenon) and `Shape` (the rest, by SMT).

### MhiPm

| Theorem | Assuming | Inductive invariant |
|---|---|---|
| `TypeCorrect` | - | `TypeOK` itself |
| `MutexExclusion` | - | `MutexInv`: `PmMutexExclusion` and `WorkerShape` (what the worker is doing, `w_to`, fits its program counter; otherwise a locked section could not be told from an unlocked one) |
| `TeardownIsExclusive` | - | `TeardownInv`: adds `StartQuiet` (until a power-up of a session sets POR, worker, tasklet and interrupt thread are idle). The table refuses every change others try (`TableRefuses`, `OthersTry`) |
| `VotesBalance` | - | `VoteInv`: `VoteBalance`, `WorkerShape`, and that a session has been prepared |
| `TeardownIsVoteFree` | `~Debugfs`, `~Suspends` | with `VoteInv`, `OnlyClientsVote`: only channel devices vote, and past their destruction none is left |
| `CtrlTaskRegsAccessible` | `Graceful` within {TRUE}, `SyncUps` within {FALSE} | with `TeardownInv`, `RegInv`: nobody declares the link dead, after `tasklet_kill()` the tasklet gets no further than its entry check, and one that entered M3 itself has handled an event and does not read the register |
| `TaskletStaysOut` | `[]NothingBehind` | with `TeardownInv`, `DownInv` |
| `PowerDownIsFinal` | `[]NothingBehind` | with `DownInv`, `FinalInv` (no device is left, and what the worker still finds creates none) |
| `ErrorsLeftByWorker` | - | `TeardownInv`, `VoteInv`; an action property |
| `ErrorStateIsSticky` | no EDL, asynchronous power-up; one power-up, or orderly sessions | `SessionInv`: with `DownInv` and `VoteInv`, `OffInv` and `FirstInv` |
| `WakeDoorbellIsHeld` | the same, `~Suspends`, `~Debugfs` | with `SessionInv`, `OnlyClientsVote`, `DevicesVote` |

*Power-down.* `DownInv` follows the DISABLE item: it is queued (`ItemQueued`: the worker
is pending, and `flush_work()` waits for that instance), in the list being handled
(`ItemTaken`), being handled (`ItemHandled`: nobody moves the PM state) or has been
(`ShutDown`: PM state DISABLE, tasklet not past its entry check). No item behind it may
start the controller (`Clean`). `mhi_power_down()` returns in the fourth case only.
`NothingBehind` is a hypothesis on the behaviour, not on the constants: no PBL or READY
item, and no SBL or FP item of an environment with channels, is queued behind the DISABLE
item. The code does not prevent it (see the observations), so the two theorems say that
this is the only way to undo a power-down, on any device. `TaskletStaysOut` is about the
ring; the context is loaded before the check at which the tasklet stops, which is finding 2.

*Errors and the doorbell.* That `mhi_ready_state_transition()` finds no MHI device
needs two facts: a recovery has destroyed them, and the item that starts the
controller is handled before any exists. For the second `FirstInv` says that until it
is queued the controller is `Cold`, the device reports nothing that starts anything, and
only error items are ahead of it. A session begins cold because the device is off
(`OffInv`): before the first one it was never started, and the teardown of the one before
has told it to reset, whether or not it has answered (`HwOff`). The doorbell then is not
cleared under a vote, and in M2 every vote sets it (`VotesHold`) or is seen by the second
half of the M1 handler (`TaskletHolds`).

The hypotheses exclude what the observations below show to fail. "No EDL" is `"EDL"
\notin HwEE`: the interrupt thread then never queues READY by itself. "One power-up" is
`MaxPowerUps <= 1`. "Orderly sessions" are those of a behaviour that satisfies
`[]Orderly`, on a platform that does not suspend and powers down gracefully (`Tame`, so
that the DISABLE item finds the registers accessible and resets the device): a session
that another one follows has not failed to power up, and began with nothing of an earlier
one at work, which is the meaning of `session` in the properties. The
instance of `pm_core` reaches the teardown of MHI devices in a second orderly session.
Asynchronous and graceful is how `pci_generic.c` uses the core.

### MhiChan

| Theorem | Assuming | Inductive invariant |
|---|---|---|
| `ChanConsumerAlone`, `ChanRingFreed` | - | `ChanInv`: `ControlInv` (who holds `chan->mutex`, which program counters go with which channel state, when the rings exist) and `EventInv` (a tasklet in the transfer loop holds the enabled channel and an event of it) |
| `ChanTypeOK`, `ChanAnswersOwed` | - | `AnyInv`: `ChanInv`, the types, and `OwedInv` |
| `ChanNoStaleEvent` | `Prompt` | `SessionInv`: `ChanInv`, `PmInv`, `CmdInv`, `StartInv`, `FreshInv` |
| `ChanPendingBalance`, `ChanTeardownPktFree`, `ChanSuspendsIdle`, `ChanMovesAllocated`, `ChanImplementsFifo` | `Safe` | `FifoInv` |

`Prompt` is `~CmdFaults /\ ~Unbind`: commands are answered in time and the client driver
stays bound until the controller is torn down. `Safe` adds that the client queues with
`mhi_queue_skb()` or `mhi_queue_dma()` only (`SkbOnly`): `mhi_queue_buf()` does not hold
`pm_lock` while it fills an element, so its element can enter the ring after the removal
emptied it. The observations show what happens without each. These are hypotheses of the
theorems, not assumptions of the module: the runs check instances with and without them.
`EnabledMeansStarted` is checked by `chan_ul` and is not stated as a theorem: it is a matter
of late answers, and with those it fails.

*Answers.* `mhi_process_cmd_completion()` takes an element off the command ring for every
answer, without comparing it to what waits there. `ChanAnswersOwed` states that there is
always one to take and that the ring has room for the commands sent, with refused and late
answers and unbinds too. `OwedInv` counts: the unhandled answers in the control event ring
are those the device gave for commands it was told of, which are in the command ring. It is
also what makes `TypeOK` provable without a hypothesis.

*Suspends.* `ChanSuspendsIdle` is an action property: a step that suspends the controller
finds no uplink packet in the ring but one being queued at that moment, because
`pending_pkts` is exactly what is in the ring (`Counted`). `ChanMovesAllocated` is another: ring pointers move only
while the buffer ring is allocated.

`FifoInv` adds to `ChanInv` what the removal, the tasklets and the queueing thread do in
each PM state (`PmInv`), where the commands and their answers are (`CmdInv`) and what the
host knows of the device's channel (`StartInv`), that only events of the present context
are not stale (`FreshInv`), that the transfer and the buffer ring move together, are empty
where a context begins or ends and have room where an element is about to be filled
(`RingInv`), the order of the positions around the ring (`OrderInv`: end of the transfer
loop, elements of the events, the device's element, what it knows of, the host's write
pointer) and the packets counted (`Counted`). `OrderInv` is what keeps
the transfer loop from running past the write pointer.

The refinement follows: a step that fills an element is `Accept`, one that takes the
element at the read pointer is `HandBack` of the oldest buffer, and the rest, allocation,
reset of an empty ring and free included, stutter. Ring arithmetic is in lemmas on `Used`
and `Gap`, for rings of any length.

### MhiDb

`DbLostOnlyByRace` has no hypothesis. `DbInv` holds, besides types and the order of the
pointers (`Bounds`), that nobody rings while the device is in M3 (`AwakeInv`); that a
device in burst mode that is not rung polls, has asked for a doorbell, or is about to have
its mode reset by the M0 handler (`ModeInv`); and that unless the last doorbell was raced
(`AloneInv`) the one thread that rings has read all there is, or somebody has yet to read
(`Due`), and that with nobody ringing the device knows of every element or is going to be
told (`Told`).

### MhiUci, MhiNet, MhiPci

| Theorem | Inductive invariant |
|---|---|
| `UciRefsHeld`, `UciBuffersAccounted`, `UciFullRingEnds` | `UciInv`: mutex ownership by program counter (`LockInv`), the channel's state at each stage of the removal (`ChannelInv`), the channel object belongs to the thread inside open() or release() (`OwnerInv`), a stopped channel holds no buffers (`BufferInv`), what was queued after the drain is in the rings until they are freed and lost from then on (`LateInv`), and the ring has the room its writer saw (`WriterInv`). Reference counts are cardinalities of sets of files (lemmas `Counts`, `Moved`), hence `IsFiniteSet(Files)` |
| `NetSkbAccounted`, `NetStoppedQuiet`, `NetRxNeverStarves`, `NetTxNotStuck` | `NetInv`: which threads run with RTNL in which place (`ControlInv`), the rings (`RingInv`), the locals of `rx_alloc_submit()` (`SubmitInv`), a closed device has at most the poll and the work left to lose an skb, and each loses it once (`CloseInv`), an event left has a poll or interrupt due (`EventInv`), an empty ring a refill (`FillInv`), a stopped queue a packet in flight (`RoomInv`) |
| `NetTxRoundTrip`, `NetRxDelivered` | none: properties of the codecs, for every initial state |
| `PciCallsBalance`, `PciNothingHeld`, `PciRecoveryRestores` | `PciInv`: until the first `fault`, what a device holds is what the phase of the one thread using it says (`HeldAt`), a device not probed is unknown to the work, and one whose recovery failed is without interrupts (`Good`) |

None has a hypothesis of its own: any number of files and devices, any ring sizes, any
NAPI weight, any number of packets in a frame.

*Framing.* The receivers walk a frame of any number of packets, so the proofs are by
induction on the packet number. The library's induction theorems cannot be instantiated
here; the lemma `NatSet` states induction of a set of naturals instead, by its least
missing element, and each induction names its set. By it the recursive functions `Total`
(where a packet starts), `kept` of `Deliverable` and the flattening of the NDPs' items are
shown to exist and to satisfy their equations, and the walk to be, packet by packet, what
`Deliverable` keeps. The rest is arithmetic of one packet: no header field wraps its 8 or
16 bits, padding is taken off again, and a session number comes back as the tag it was.
`NetConstants` bounds a length by the block length less one header, which is what makes
`U16()` the identity, and a tag by its 12 bits.

### Only model-checked

- Liveness, out of the prover's reach: `PowerDownCompletes`, `SysErrHandled`,
  `VoteServed`, `RemoveCompletes`, `RemoveEnds` (twice), `BlockedCallsReturn`,
  `RecoveryEnds`.
- `EnabledMeansStarted`.
- `PowerUpResetWorks`, `TaskletContext` and `NoOpenAfterRemove` are violated (see the
  findings).

## Findings

1. `pm.c:1011`: the result of the reset wait in `mhi_async_power_up()` is tested
   the wrong way round; a device in SYS_ERR that resets properly is given up
   (`pm_bug_reset`).
2. `main.c:694`: a tasklet scheduled after `tasklet_kill()` passes its check during the
   shutdown, "because there is no way PM state can change from reg access valid to no access
   while this thread being executed" (`main.c:919-922`). The state changes, the power-down
   returns, `mhi_unprepare_after_power_down()` frees the context, and
   `mhi_process_ctrl_ev_ring()` loads from it before it looks at the PM state
   (`pm_bug_task`).
3. `uci.c:166`: an `open()` that found the minor before the removal gets `udev->lock`
   after it and starts the channel of the removed device, against "delete the node to
   prevent new opens" (`uci_bug_open`).

### Observations

Four statements of the code that the models refute with other constants:

- `main.c:919`, that register access cannot be lost under the tasklet, also fails where the
  tasklet reads a register, for a forced power-down and for a timed-out synchronous power-up
  (`CtrlTaskRegAccess` with `Graceful = {FALSE}`). For the calls `pci_generic.c` makes it is
  proved that the register is read only while access is valid; finding 2 is about the load
  before that.
- `pm.c:1073`, "Wait for shutdown to complete": `mhi_power_down()` frees the BHI
  interrupt after `flush_work()`; an interrupt in between leaves the worker pending
  when it returns (`MaxEvents = 2`).
- `main.c:1141`, that an error during `mhi_queue_buf()` is not fatal: a packet that
  enters the ring after the removal drained it is never handed back and stays in
  `pending_pkts` (`TeardownPktFree` in an instance whose client uses `mhi_queue_buf()`).
  `PendingBalance` and `FifoRefined` fail with it. Since `mhi_deinit_chan_ctxt()` frees the
  buffer ring but leaves its pointers (`init.c:562`), the removal of a later session that
  did not open the channel walks the freed ring (`MovesAllocated` with `Kinds = {"buf"}`).

- `main.c:491-496`, that the lock is taken for writing since "another thread could be doing
  the same": `mhi_queue_*()` and the M0 handler, which ring the same doorbell, take it for
  reading. The M0 handler reads the write pointer, a client queues an element and rings with
  the newer one, then the M0 handler writes its own: the device is told of the older write
  pointer last, and nobody rings again until the next element (`LostOnlyByRace` without
  `raced` fails, in burst mode and in the mode of the shipped configurations).

Reachable in the models, with no statement in the repository they contradict:

- A vote through debugfs survives the teardown and trips the WARN_ON at
  `pm.c:542` (`Debugfs = TRUE`, `TeardownVoteFree`).
- A READY item the interrupt thread queues (`main.c:411`) can be handled after the
  DISABLE item, and the table lets DISABLE go to POR: `PowerDownFinal` fails with
  "FP" or "EDL" in `HwEE`. It is what `NothingBehind` excludes in the theorems.
- A stale READY item runs `mhi_init_mmio()` on a device in M0 or M2 and clears the
  wake doorbell (`init.c:526`): `WakeDoorbellHeld` fails with `Suspends` or
  `Debugfs`.
- A failed power-up leaves its items in the queue while its caller frees the
  context (`pm.c:1038`, 548). A SYS_ERR item among them makes the worker recover and start
  a device nobody has powered up; the next session finds it in M0 and may handle its
  READY item when MHI devices exist (with `MaxPowerUps = 2`, `MaxEvents = 4`).
- `mhi_pm_suspend()` waits on `dev_state`, which is written even when the PM state
  change is refused (`pm.c:369`): it can return 0 in a state other than M3.
- A `mhi_pm_suspend()` that times out leaves the PM state in M3_ENTER, and a later M3
  event completes a suspend nobody waits for (`pm.c:762`; reachable in `pm_life`).
- With `CmdFaults = TRUE` a RESET that timed out can be answered during the next
  START, whose caller takes the answer for its own: `EnabledMeansStarted` and
  `NoStaleEvent` fail.
- With `Unbind = TRUE`, `mhi_driver_remove()` does not send RESET: the device keeps
  the channel started with the old ring, and its events reach the next session
  (`NoStaleEvent` fails).

- `mhi_queue_buf()` does not refuse a channel the host fills itself, as `main.c` 978 and 1034
  do for skbs and DMA buffers. No channel of the repository is such a channel
  (`auto_queue` is never set).
- `uci.c`: a read or write that passed the test of `enabled` before the removal queues
  its buffer to a channel that has been drained, and the buffer is lost with the ring
  (`init.c` 568): what `BuffersAccounted` counts in `late`. A write that fails after a chained
  piece leaves the chain open, and the next write continues it. `mhi_uci_remove()` does not
  wait for its threads.
- `mhi_net.c`: a `PENDING_DATA` between the fill and `napi_enable()` is lost; if all
  buffers have been filled by then nothing polls again (`RxNeverStarves` without `early`).
  The skb of a round that finds the device closed is lost (line 33), and so is what is queued
  between the drain of `mhi_driver_remove()` and the close of the netdev, with the rings
  (`leaked`). A packet refused after the queue was stopped for it, with an empty ring, leaves
  the queue stopped (`TxNotStuck` without `gaveup`). `mhi_net_remove()` takes
  `dev->chan_lock` after `free_netdev()` freed it.
- `cdc_mbim.c`: the frame is not freed when it is too short, a new skb not when its
  protocol is unknown. `qmi_wwan.c`: nor is the new skb at line 191 (read, not counted); QMAP v1 frames announce a second header they do not
  have, which this driver's own receiver would refuse.
- `pci_generic.c`: `remove()` during a recovery powers down, unprepares and frees the
  controller the work is using (`met`); after a recovery that failed, `remove()` frees
  interrupts and a context that are gone (`refused`); of two devices that fail before the
  work runs, one is recovered (`over`).

## Not modelled

RSC events, offload channels, several channels on one event ring, event quotas and
NAPI polling (`mhi_poll()` is the data tasklet under the same lock), bandwidth
requests, LPM notification, allocation failure of a transition item, memory layout
of the contexts, `mhi_gen_tre()` interrupted by a second producer (initial fill and
recycling, possible when an M0 event falls into the fill), parsing of the
configuration, sysfs.

- The full boot chain and the RAM dump (`boot.c`): no controller of the repository sets
  `fbc_download`, `seg_len`, `sbl_size` or `rddm_size`; `mhi_force_rddm_mode()` has no
  caller.
- `mhi_dtr.c`: built, but no controller configuration has an IP_CTRL channel, so it is
  never bound. (Read, not checked: a message of the wrong length is neither freed nor
  queued again, and the callback queues into the ring without the lock of the probe's
  fill.)
- `mhi_net_mbim.c`: commented out in the Makefile, and `mhi_driver_probe()` would refuse
  it, a client-managed ring without `status_cb`.
- Statistics, `change_mtu()`, `poll()` of `uci.c`, module init and exit.
- `tools/*`: sequential programs of XML, file and serial-port handling.

## Plan

Done: the models of the parts listed above, their runs, and a theorem for every safety
property of a passing run but `EnabledMeansStarted`. What is left:

1. `ErrorStateSticky` and `WakeDoorbellHeld` with a hypothesis on the behaviour in the place
   of "no EDL", as `PowerDownIsFinal` has it.
2. Action properties: that a late answer changes nothing of a closed channel, and that a
   teardown step is never undone.

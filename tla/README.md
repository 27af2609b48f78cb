# Verification of the AR7 CPMAC Ethernet driver and its packet path

This directory holds TLA+ models of the Ethernet driver of the Linksys WAG200G
firmware and of the two parts of the kernel's packet path that TI rewrote for it, the
TLC configurations that check them on small instances, and proofs that TLAPS checks
for all instances. Files are abbreviated:

| | file | |
|---|---|---|
| C | `cppi_cpmac.c` | rings; H, L, X, M are in the same directory, |
| H | `hcpmac.c` | `src/kernel/src/drivers/net/avalanche-cpmac-0.1/` |
| L | `cpmac.c` | |
| X | `cpmacHalLx.c` | |
| M | `cpmdio.c` | |
| S | `src/kernel/src/net/core/skbuff.c` | |
| W | `src/kernel/src/net/sched/sch_priowrr.c` | |

## 1. The repository and its parts

The repository is a firmware tree: a Linux 2.4 kernel for TI's AR7 board
(`src/kernel/src`), a few applications (`src/apps`: bridge-utils, linux-atm,
mailsend, parts of Transmission), a root file system (`src/target`). Almost all of
it is third-party. The code that is particular to this hardware and carries
concurrency, ordering and failure handling of its own is the CPMAC driver, in
three layers, and TI's changes to the packet path of the kernel:

| part | files | state | operations |
|---|---|---|---|
| CPPI rings | C | per channel: free descriptors, active queue, active flag, threshold, `Needs` list | `halSend`, `TxInt`, `RxInt`, `NeedsCheck`, `halRxReturn`, `AddToRxQueue`, teardown |
| CPMAC HAL | H, M, `cpcommon_cpmac.c` | device state, channel set-up and open flags, link state, filters | `halInit` … `halShutdown`, `halIsr`, `halTick`, `halControl` |
| Linux glue | L, X | tasklet, `set_to_close`, `non_data_irq_expected`, tick timer, saved interrupt flags | `cpmac_dev_tx`, `cpmac_hal_isr`, `cpmac_handle_tasklet`, `cpmac_hal_receive`, open and close, critical sections |
| `sk_buff` pool | S | list of static data blocks, a mark in each `sk_buff`, share counts | allocation, clone, copy, expansion, release |
| PRIOWRR scheduler | W | two expedited and two best effort queues, service table, weights, lengths | enqueue, requeue, dequeue, drop, reset, graft, change of options |

How they interact. The network stack calls `cpmac_dev_tx`, directly or through a
queueing discipline, which calls `halSend`. The interrupt handler `cpmac_hal_isr`
schedules a tasklet; the tasklet calls `halIsr`, which reads the interrupt vector and
calls `TxInt` and `RxInt`. `TxInt` gives packets back through `SendComplete`; `RxInt`
hands packets to `cpmac_hal_receive`, which passes them to `netif_rx` and returns the
descriptors through `halRxReturn`. Buffers come from the `sk_buff` pool. Driver and DMA
engine share the descriptors in memory: the engine follows `HNext`, clears the
ownership bit of a finished packet, and sets its EOQ bit when it stops there. To start
it, the driver writes the head descriptor pointer (HDP) of the channel, which is an
error while the channel runs. A 10 ms timer polls the PHY, and the result stops or wakes
the queue of the device. PRIOWRR sits on the nas and ppp interfaces.

What is hard here: the engine reads a `HNext` pointer at any time before or after
the driver extends the list ("misqueue"), and two handlers of each ring may restart
it; a restart too many is a host error, one too few a stalled interface. Buffers are
allocated one fragment at a time and each allocation may fail. Work is bounded per
interrupt, and acknowledgement and re-arming of the interrupt are separate steps. The
shipped configuration masks transmit interrupts (`CFG_TX_INT_DISABLE 1`, `cpmac.h:48`)
and services the transmit queue from `halSend` instead. Critical sections nest but
save the interrupt state in one static variable. A close runs against handler, tasklet
and traffic. The head of the pool's list is read outside the lock; the scheduler's
table is rebuilt outside the lock.

What correctness means for each component:

- Transmit ring: descriptors are neither lost nor reused under the engine; every stop
  of the engine is answered by exactly one restart; packets leave and are given
  back once and in order; every packet leaves eventually.
- Receive ring: descriptors and buffers are conserved under partial allocation failure
  and over closes; the engine never writes a buffer that the network stack owns; the
  ring never runs dry; what is delivered is what arrived; every received packet is
  handled; a teardown ends.
- Critical sections: interrupts are off inside, and afterwards as they were before.
- Device life cycle: a closed interface leaves no handler, timer, tasklet, running
  channel or packet behind; nothing is used after it was freed; a close returns; the
  interrupt line is never left dead.
- Link: what the network device is told is what the PHY found; a lost link stops the
  queue, a possible link comes up.
- Filters: what the stack asked for is received, what it stopped asking for is not.
- Transmission above the ring: every `sk_buff` has one owner, and none waits in a queue
  that nobody runs.
- Pool: the mark of an `sk_buff` tells where its data belong; blocks are conserved and
  shared as often as counted.
- Scheduler: the length is the number of packets; flows stay in order, expedited ones
  go first, every backlog drains.

`PROJECT.json` lists all components with their status, and under `hazards` the places
in the code where each of these can go wrong.

## 2. Modules

| module | models | uses |
|---|---|---|
| `CppiTx` | transmit ring, its interrupt path, the engine | `TxFifo` (refinement) |
| `TxFifo` | what a transmit channel promises: a FIFO that gives every packet back once | |
| `CppiRx` | receive ring, its interrupt path, receive callback, the engine, buffer allocation, teardown and reopening | |
| `CriticalSection` | `os_critical_on`/`off` and their nesting | |
| `CpmacDev` | open, close and unload of the device against handler, tasklet, timer and DMA | |
| `Mdio` | PHY state machine, PHY, cable, and the report to the network device | |
| `McastHash` | `HashGet` as it shifts, and what it computes | |
| `RxFilter` | multicast callback, filter fields of the HAL and registers | |
| `DevTx` | `cpmac_dev_tx` between queueing discipline and ring | |
| `SkbPool` | TI's pool under `alloc_skb` | |
| `PrioWrr` | TI's packet scheduler | |
| `CppiTxProofs`, `CppiRxProofs`, `SendPathProofs`, `CpmacDevProofs`, `MdioProofs`, `RxFilterProofs`, `SkbPoolProofs`, `PrioWrrProofs` | theorems (section 4) | the module named; `SendPathProofs`: `CriticalSection` and `DevTx`; `RxFilterProofs` also `McastHash` |
| `MC…` | instances for TLC | |

The modules meet at interfaces that one proves or checks and the other assumes.
`CriticalSection` shows that critical sections are closed to interrupts; the rings take
them as atomic. `CppiTx` implements `TxFifo`; `DevTx` takes the ring as such a FIFO and
`CpmacDev` as a count of packets. `CppiRx` has a whole life cycle of its channel;
`CpmacDev` has the same teardown from the side of the device, with both channels on
one interrupt line. `Mdio` reports the link that `DevTx` takes as an event.

### Conventions

A descriptor is its index, 0 the null pointer. Lists that only software follows
(`TcbPool`, the active queues, `Needs`, the chain a handler holds) are sequences; the
fields the engine reads or writes (`HNext`, the mode bits, the buffer) are functions of
the descriptor that both sides change. Constants and variables keep the names of
the code. Lower case `hw…` variables are the engine.

The AR7 has one CPU, the rings are worked on with interrupts off or inside one
tasklet. So the CPU has one program counter per context, and the grain of its steps is
chosen by what others can observe: linking a packet behind the old tail and testing that
tail's EOQ bit are two steps, each turn of the `TxInt` loop is one, and allocation of
each fragment is one. The engine and (for receive buffers) the network stack may step
between any two of them.

Some settings are variables that keep their first value (`TxIntDisable` and `InitEnable`
of `CpmacDev`, `hybrid_mode` of `SkbPool`, `tx_queue_len` and `TxIntDisable` of `DevTx`): one
run covers all their values. Variables marked "history" (`nested`, `disturbed`, `refused`,
`swapped`, `raced`, `leaked`, `strayed`, `lost`, `foreignFree`, `usedFreed`) are read by
properties only. They say that
something has happened after which the code does not keep a promise; the property then
states exactly how far the promise goes. What happens beyond is listed in section 3.

### The engine

It is external to the source and modelled from how the driver uses it: fetch a
descriptor together with its `HNext`; transfer; at the end of a packet write EOQ into
the last descriptor if the fetched `HNext` was null, clear ownership in the first one,
set completion pointer and interrupt; go on with the fetched `HNext`, or stop. A store to
HDP while it runs sets `HostErr`. Writing the completion pointer register
acknowledges only if it equals the engine's current value, so a completion that races an
acknowledgement leaves the interrupt pending. After an interrupt the line is quiet until
an EOI (`halPacketProcessEnd`) re-arms it. A teardown request is answered between two
packets: the channel stops, its completion pointer holds `TEARDOWN_VAL`, an interrupt is
raised. A store to HDP behind the request makes the channel run again and forget it, which
is an assumption; the run `rx_cycle` is made so that it does not matter
(`ClosingTraffic = FALSE`).

### CppiTx

| actions | code |
|---|---|
| `halSendFirst`, `halSendLink`, `halSendTestEoq`, `halSendNoTcbs`, `ExitSend` | `halSend` for an idle queue, behind a queue, the EOQ test after the link, too few TCBs, and the threshold at the end |
| `TxIntBegin`, `TxIntPop`, `TxIntEnd` | `TxInt`: entry, one turn of the loop, exit to `halSend` or to the tasklet |
| `cpmac_hal_isr`, `halIsr` | handler and tasklet entry |
| `HwFetch`, `HwNextFrag`, `HwComplete` | the engine |

Packets are numbered in the order of `Send`. `returned` records each
`SendComplete` together with the fact whether the packet had been on the wire.

### CppiRx

| actions | code |
|---|---|
| `InitRcbNew`, `InitRcbReuse`, `InitRcbBuffer`, `InitRcbFail`, `InitRcb`, `halOpenEnd` | `InitRcb` with fresh and with kept RCBs, a buffer for each, failure of either; then `halOpen` lets packets in |
| `NeedsCheck`, `NeedsCheckEnd` | `NeedsCheck` at the head of `RxInt` |
| `RxIntDequeue`, `RxIntRecycle`, `RxIntEnd` | a packet is unlinked and handed up; the only queued packet is thrown away and its RCBs given back; exit |
| `ReceiveUp`, `ReceiveDrop` | `cpmac_hal_receive` passes the packet on (itself, or as a copy if fragmented), or drops it |
| `RxReturnGood`, `RxReturnFail` | the fragment loop of `halRxReturn`: a new buffer, or none |
| `AddToRxQueueFirst`, `AddToRxQueueLink`, `AddToRxQueueTestEoq` | `AddToRxQueue` |
| `cpmac_p_dev_disable`, `halChannelTeardown`, `RxIntNoTeardown`, `RxTeardownInt`, `halClose` | a close: the request, interrupts that are not yet the answer, the answer with `FreeRx` for a full teardown, the reset |
| `HwFetch`, `HwFill`, `HwTeardown`, `OsFree` | engine and network stack |

The content of a buffer is the pair of packet and fragment number the engine wrote
last, which is all that `DeliveredIntact` needs. A single-fragment packet is dropped
only if it is an unwanted 802.1q frame (`Tagged`); a fragmented one also when there
is no memory for the copy. `lost` records RCBs that no list holds any more.

### CriticalSection

Each `Enter…`/`Leave…` pair is one section of the code, opened by `halSend`, `TxInt`,
`NeedsCheck` or `AddToRxQueue`; the actions are the call sites in their calling order.
`halSend` is called with interrupts on or off, tasklets start with interrupts on.

### CpmacDev

A channel is its raw interrupt (none, data, teardown) and whether it runs.

| actions | code |
|---|---|
| `DevEnable`, `DevEnableFails`, `DevOpenOnly`, `request_irq`, `request_irq_fails`, `DevCloseOnly` | `cpmac_dev_open`, `cpmac_dev_close` with `cpmac_p_dev_enable`, for a device opened by `ifconfig` and for one opened at probe |
| `DevDisable`, `DevDisableSet2`, `DevDisableKill` | `cpmac_p_dev_disable`: the two `set_bit`, `tasklet_kill` |
| `SkipTeardown`, `ChannelTeardown`, `ChannelTeardownFails`, `ChannelTeardownDone`, `ChannelTeardownTimeout`, `halClose` | `cpmac_drv_stop` channel by channel, with the wait of `halChannelTeardown` and its time-out |
| `cpmac_exit`, `halShutdown`, `halShutdownFree` | unload |
| `cpmac_hal_isr` (`IsrDirect`, `IsrSchedules`, `IsrIgnores`) | handler: `halIsr` itself, the tasklet, or nothing |
| `TaskletBegin`, `TaskletHalIsr`, `TaskletEnd` | tasklet; `pkts_to_handle` is arbitrary if `halIsr` did not set it |
| `halSend`, `TimerExpires`, `HwData`, `HwTeardown`, `HwRestart` | traffic, timer, engine |

`request_irq` may fail for want of memory. `cpmac_dev_open` then returns -1 and undoes nothing of
`cpmac_p_dev_enable`: the interface is down, the device open, its timer and channels running,
until a later open gets the interrupt and its close cleans up, or the module is unloaded.

### Mdio

`halTick` is one poll: `StateStep` is `cpMacMdioTic` (one operator for each of INIT,
FINDING, FOUND, NWAY_START, NWAY_WAIT, LINK_WAIT, LINKED), then a switch of MDI and MDIX
or a report through `DuplexUpdate` and `cpmac_p_process_status_ind`. `MdioSetPhyMode`,
`Reopen` and `HostInt` are the other entries. The PHY (`PhyAlive`, `NwayStarts`,
`NwayCompletes`, `ForcedLink`) and the cable (`Cable`) are external; the link bit of the
PHY's status register is latched low until it is read, as in every PHY of IEEE 802.3. The random
part of the MDIX delay is left out: it is `MDIX_TO`.

### McastHash and RxFilter

`HashGet` is written with the shifts of the code and an exclusive or that adds up bits.
`RxFilter` takes from it the position of each group (`Hash`) and has one action for each
`Control` call of
`cpmac_dev_mcast_set`, since the hardware receives between two of them; and the steps of
`dev_open` and `dev_close`, between which a bottom half may join or leave a group.
`MacHash` and `CAF` are the fields of the HAL, which survive a close, `reg…` the registers,
which do not.

### DevTx

`XmitQueued`, `XmitDirect`, `XmitRefused` are `dev_queue_xmit` with a queue, without, and
for a device that is down; `qdisc_restart`, `QdiscRunEnds`, `net_tx_action` run the queue;
`cpmac_dev_tx` gives what it returns, sends and frees; `SendComplete`, `LinkUp`,
`LinkDown`, `DevClose`, `DevOpen` are what stops and wakes the queue. With transmit interrupts
on (`TxIntDisable` false) the ring gives packets back by itself; with them masked, as shipped,
only a later `halSend` services it, so `SendComplete` may happen and need not.

### SkbPool

`ti_alloc_skb` in one step, and split into `TiAllocRead` and `TiAllocTake` where an
interrupt comes between the read of the list head and the lock; `alloc_skb`, `AllocFailure`,
`skb_clone`, `skb_copy`, `pskb_expand_head`, `tcp_collapse`, `skb_copy_ipcomp`, `kfree_skb`.
Two callers allocate with `alloc_skb` and copy `cb` themselves: `tcp_collapse` clears the mark
`cb[45]` afterwards, `skb_copy_ipcomp` (`net/ipsec/ipcomp.c:693`, built by the shipped
configuration) does not. A block that it marks (`strayed`) is freed to the pool and stays there.
(`net/ipx/af_ipx.c:666` does the same and is not built.) The list is what
a walk along the `next` pointers from `head` meets, so a list that is torn apart is
visible; `FreeList` writes it as the least set that holds the head and what follows its
members, a form that can be reasoned about without recursion.

### PrioWrr

`priowrr_enqueue`, `priowrr_dequeue` followed by `XmitTaken` or `XmitRefused` (with
`priowrr_requeue`), `priowrr_drop`, `priowrr_reset`, `priowrr_graft`; a change of options
in the steps in which it can be seen: `TuneMaps` under the lock, `TuneClear`, `TuneSlot`
and `TuneLimit` outside it. `priowrr_drop` calls the drop operation of one child after the other;
a `noop` child has none, and the call would crash: there is no step for it. A packet is its flow and a number; a flow has a priority and,
where a tc filter matches, a class.

## 3. Runs

| run | asks | answer |
|---|---|---|
| `tx_int` | transmit interrupts on, 3 TCBs, packets of 1 or 2 fragments, 4 sends, 2 packets per service | no double and no missing restart; every packet is sent and given back |
| `tx_noint` | the same with transmit interrupts masked, the shipped setting | refinement of `TxFifo`, and the inductive invariant `IInv`, of which conservation of TCBs is a part |
| `rx_ring` | 3 RCBs, packets of 1 or 2 buffers, 4 buffers, `Needs` of 1, dropped frames, failing allocation, 4 packets | conservation, isolation, no leak, no double or missing restart, intact delivery |
| `rx_cycle` | 2 RCBs, three openings with full or partial teardown, service limit 1, no failing allocation, no frame that begins to arrive during a close | nothing leaked or freed for someone else, every opening can receive, every teardown ends, every packet is handled |
| `critical` | are interrupts off inside sections? | yes |
| `critical_restore` | are they as before afterwards? | no: expected violation |
| `dev` | open, close and unload at any time, an open refused its interrupt, both interrupt settings, opened by `ifconfig` or at probe | a closed interface is clean, the tasklet stays dead, no nested `halIsr`, no dead line, within the conditions the properties state; every close returns |
| `mdio` | automatic and manual modes, partners of every kind, straight and crossed cables, host errors, reopening | reports are right, the agreed mode is used, loss stops the queue, a possible link comes up |
| `filter` | groups joined and left, modes and address changed, at any step of open and close | wanted frames pass; stale ones do not, without all multicast; `HashGet` is the parity of every sixth bit |
| `devtx` | 4 `sk_buff`s, one unwanted, queue of 1 or none, ring of 1, both interrupt settings, link and device up and down | one owner, freed once; each reaches the ring or is dropped eventually, and leaves the ring if transmit interrupts are on |
| `pool` | 2 blocks, 2 slab blocks, 3 `sk_buff`s, interrupts inside an allocation | marks tell which blocks go to the pool, strays included; sharing and conservation up to two races |
| `wrr` | two flows, a refusal, a graft, a change of options at any point, with lengths open or given, too long, weights turned down | length, table, order, priority, progress |

`critical_restore` is expected to fail, because the code does not do what the kernel's
documentation says of saved interrupt flags: `halSend` that calls `TxInt` inside its own
section returns with interrupts off to a caller that had them on, and `NeedsCheck`
likewise.

Each module also has a `TypeOK`, which holds on the instance of its run. `IInv` of
`CppiTx` and of `RxFilter` contain theirs; to check the others, add `TypeOK` to the
INVARIANTS of the configuration.

### Known counterexamples

The properties of the passing runs hold as they are stated, with the constants given and
under the conditions written into them. The following is what lies outside. Each was
found with TLC by the change named in the last column, which is how to see it again.

| what happens | where | change |
|---|---|---|
| Transmit interrupts masked: a packet linked behind a stopped engine stays unsent until another `Send`. `halSend` unmasks "to ensure packet goes out on wire" (C:723), but a completion already pending takes that interrupt and `halIsr` masks it again | C:724 | `CppiTx_int.cfg` with `TxIntDisable = TRUE`, `MaxFrags = 1`, `TxServiceMax = 4`, `MaxSend = 3`, property `EveryPacketOnWire` |
| A frame that `cpmac_hal_receive` drops loses its RCBs; the comment C:763-764 says they are returned | L:2003-2013 | `CppiRx_ring.cfg`, invariant `NoRcbLost` |
| A frame that arrives during a close lets `RxInt` restart the channel behind the teardown request, which is not answered (given the engine assumed above); "will not return until the teardown interrupt has occurred" (C:1066-1067) | C:1170 | `CppiRx_cycle.cfg` with `ClosingTraffic = TRUE` |
| `FreeRx` frees a buffer of the network stack: an RCB on the `Needs` list keeps its old pointer | C:48 | `CppiRx_cycle.cfg` with `MallocFails = TRUE`, `BuffersConserved` |
| The `Needs` list outlives a full teardown and holds freed RCBs | C:93 | the same with `Teardowns = {"full"}`, invariant `NoFreedRcb` |
| A failed `InitRcb` is ignored: the channel is open and can never receive | H:1295 | the same, `OpenCanReceive` |
| RCBs without a buffer are given to the engine when a partial close is followed by an open | C:516 | the same with `Teardowns = {"partial"}`, `OpenCanReceive` |
| Transmit interrupts masked: the teardown of the transmit channel times out, the close gives up and leaves the device running, though "This cannot fail" (`src/kernel/src/net/core/dev.c:838`) | C:1176 | drop `~TxIntDisable` from `CleanDown` |
| `request_irq` fails: the interface is down with the device open, timer and channels running, and `cpmac_exit` frees the descriptors under a receive channel that runs | L:1413-1419 | drop `~refused` from `CleanDown` |
| An interrupt between the two `set_bit` of a close is served by nobody | L:1447 | drop `disturbed` from `LineNotDead` |
| A device opened at probe: `halShutdown` frees what handler and timer still use | H:1663 | drop `~InitEnable` from `CleanDown`, for `pc = "gone"` only |
| Transmit interrupts masked: the EOI of `halSend` lets the handler enter `halIsr` while the tasklet is in it | L:1749 | `NoNestedIsr == ~nested` |
| The partner is exchanged after the mode was read and before the link bit appears: wrong mode | M:621 | drop `~swapped` from `LinkedIsAgreed` |
| After a host error every loss of the link is hidden from the device | L:735 | drop `HostErr` from `LossStopsQueue` |
| A reopen resets the MDIX flag but not the PHY, and the two disagree | M:712 | invariant `p.mdix = phyMdix` |
| Promiscuous reception stays on when all multicast is asked for: it is cleared through an action that the HAL does not know | L:1554-1555 | drop `~allmulti` from the first conjunct of `NothingUnwanted` |
| A frame that `cpmac_dev_tx` turns down with -1 goes back to the head of the queue for ever | L:1699 | drop `Blocked` from `EverySkbGoesOut` |
| Transmit interrupts masked: the last packets stay in the ring, and their `sk_buff`s with it, until another packet is sent | C:746 | drop `TxIntDisable /\ s \in In(ring)` from `EverySkbGoesOut` |
| The head of the free list is read outside the lock: one block for two owners | S:337 | drop `~raced` from `SharersCounted` |
| A block freed while the list is empty is not put back | S:482 | drop `~leaked` from `PoolConserved` |
| `skb_copy_ipcomp` marks a block of `kmalloc`, which is then freed to the pool and handed out as one of its blocks; `tcp_collapse` was cured of this (`net/ipv4/tcp_input.c:2797`) | `net/ipsec/ipcomp.c:693` | drop `strayed` from `Pooled` |
| In static mode a failed allocation of data goes on with the null pointer | S:200 | invariant `~undef` |
| A graft throws packets away that stay counted | W:635 | drop the condition `grafts = 0` from `QlenExact` |
| The first enqueue overwrites the priority by which a requeue classifies | W:260 | flows without class, priorities 6 and 0: `StrictPriority` |
| Weights that are turned down have been stored already, and are shown while the old table is in force | W:507 | drop `Fits` from `TunedAsShown` |
| Lengths that are all given and add up to less, which W:41-42 and W:60 allow, leave a part of the pool to no queue | W:488 | `Total(limit) = tx_queue_len` in `TunedAsShown` |
| A drop that comes to a `noop` child calls a null pointer | W:321 | not a step of the model |
| `qdisc_run` meets a half filled table, takes the backlog for empty and leaves it | W:509 | drop `tunes > 0` from `BacklogServed` |
| Lengths are cut to eight bits, and a part of a longer pool goes to no queue; the interfaces here have 100 | W:480-482 | `tx_queue_len = 1000`, `Total(limit) = tx_queue_len` in `TunedAsShown` |

### Bounds, and why they are enough

`MaxSend`, `MaxPkt`, `MaxSeq` only bound the histories, `MaxEvents`, `MaxOpens`,
`MaxTunes`, `MaxGrafts`, `MaxRefusals` how often the outside interferes. Three descriptors
and packets of up to two fragments give every shape the code tells apart: an empty queue,
a queue with one and with several packets, a pool too small for one more packet or for its
second fragment, and a queue that wraps onto reused descriptors (more packets than
descriptors). Misqueue needs two packets; a misqueue followed by a late completion three.
`TxServiceMax` 2 and `RxServiceMax` 1 or 2 are below the number of packets, so the service
limit and rescheduling happen. A `Needs` list of 1 overflows. Three openings show what one
leaves to the next and the next but one. Time-outs of `Mdio` are 1 tick: a wait and its end
both happen, and no two timers run at once. `MaxEvents` 2 there allows a change during the
recovery from a change. A ring and a queue of 1 in `DevTx` are full after one packet, and
four `sk_buff`s fill both and the requeue place. Two pool blocks are what the race needs: one
that an allocation has read as head and one that is handed out meanwhile; two slab blocks let one
stray into the pool and another be freed as it should. In `PrioWrr` a flow of
two packets can be put out of order, and the requests include weights that are turned down,
weights that do not fill the table, and lengths that add up to too much and to too little. The
hash of `filter` is checked on each group and on all addresses one or two bits away from it: the
fold is linear over bits, so a wrong shift shows at a single bit.

Buffers, blocks and `sk_buff`s are interchangeable, hence the symmetry of `rx_ring` and
`pool`, which check invariants only; runs with liveness use none. Most runs say
`CHECK_DEADLOCK FALSE`, since a bounded number of packets and events comes to an end;
`critical`, `critical_restore`, `mdio` and `filter` check for deadlock.

### Fairness

- Rings: weak fairness of a running handler (the CPU executes it), of an asserted and
  armed interrupt, of a scheduled tasklet (the kernel runs it), and of the engine on the
  transmit side and in answering a teardown.
- `CpmacDev`: the same for handler and teardown. Strong fairness for tasklet and process,
  which interrupts may preempt again and again, and for a run of the handler that leaves
  no interrupt pending (`Drain`): the rings are finite, so traffic does not keep the
  handler busy for ever.
- `Mdio`: the timer ticks and the PHY answers. Strong fairness for the start and end of a
  negotiation and for a link (`StartInTime`, `NwayInTime`, `EarlyLink`): a time-out may cut
  them short, but the time-outs of the code are longer than these take.
- `DevTx`: the softirq runs, the queue is run to its end, and the ring gives packets back if
  transmit interrupts are on, which `tx_int` shows. With them masked nothing is assumed of it.
- `PrioWrr`: the queue is run, the driver takes a packet in the end, a change of options goes on.

Nothing is assumed of the outside: no further `Send`, no further packet, no freed buffer,
no successful allocation, no cable.

### Mutants

Each property of a passing run has a mutated definition, marked `Mutant` in the modules
and listed in `PROJECT.json`, under which TLC finds it violated: a restart that leaves
EOQ set, a misqueue that is not noticed, an ownership bit not looked at, a threshold not
reloaded, an EOI not written, an RCB forgotten after a failed allocation, a hash not
cleared, a mark copied with the header, a requeue at the tail, and so on.

## 4. Proofs

`CppiTxProofs` proves, for every number of TCBs, fragments, sends, every service limit
and both interrupt settings (`TxAssumption`: the counts are positive, the
setting is Boolean), `Spec => []P` for `IInv`, `TypeOK`, `TcbsConserved`,
`NoHostError`, `ActiveIffQueued`, `DmaOnlyActive` and `NoHiddenStall`.

The argument. `NoHostError` is not inductive: nothing in it says where the engine is
when a handler writes HDP. `IInv` adds that: the queue is a sequence of whole packets whose
`Eop` fields are right (`PacketsWhole`); the hardware chain follows the software queue
(`ChainFollowsQueue`); there is a position `d` in the queue up to which the engine is done
(`HwInQueue`). Exactly the packets after `d` are owned by the engine; an EOQ bit is
set only at `d` and only if the engine stands still there; otherwise it is fetching or
sending a descriptor of the packet after `d`. So whoever sees EOQ in a packet with a
successor knows that the engine is stopped and that the restart belongs at the
successor, and clearing the bit (`halSend`) or unlinking the packet (`TxInt`) makes it
impossible to restart again for the same stop. There is one lemma per action; the
`halSend` lemmas rest on lemmas about what filling and linking does to the two
sequences, the `TxInt` lemma on what removing a prefix of whole packets does. TLC checks
`IInv` in `tx_noint`.

The same module proves that the ring implements `TxFifo` (`RingImplementsFifo`). The mapping
lists the packets by ranking their starts: `Sops` is the set of queue positions at which a
packet starts, `Ascending` the one list of that set in order, `OnWire` the number of starts
the engine no longer owns. That a finite set of positions has exactly one such list is
`ListExists` and `ListIsAscending`; what happens to the list when a packet is added at the
end or removed at the head is `ListGrows` and `ListShrinks`. From there the simulation goes
action by action: an accepted `halSend` is `Accept`, `HwComplete` is `Transmit`, one turn of
the loop of `TxInt` is `Complete`, and every other step is a stutter. `Accept` needs a
packet that was never there before; the invariant `Numbered`, that no packet in the
ring and none given back is newer than the last send, provides it.

`SendPathProofs` proves `SectionsMasked` for every threshold and every bound of the
`Needs` list (`CriticalAssumption`). The strengthening is that an inner section only
exists inside an outer one and that `irq_flags` is then "off" (`NestedSavesOff`), and that
`halSend` does not return with a used-up threshold (`ThresholdReloaded`).

It also proves `OneOwner` and `TypeOK` of `DevTx`, for every set of buffers, every queue
length and ring size. (The module extends both; hence the prefix `CS` in the names of the
specification of `CriticalSection`.) `OneOwner` needs no assumption and is inductive once the
two lists are known to be lists (`Shapes`). The lemmas say how often a buffer is in a list
after an append and after the head is taken (`TimesAppend`, `TimesTail`), and that
`cpmac_dev_tx` has three outcomes, in each of which the return value tells who has the buffer
(`TxTells`). `DevClose` frees everything in the queue and everything in the ring; that this
frees each buffer once is where `OneOwner` itself is needed. `TypeOK` has the bounds: the ring
grows only where there was room (`TxFits`), and the queue is at most one longer than
`tx_queue_len`.

`RxFilterProofs` proves `IInv`, `NoWantedFrameLost` and `NothingUnwanted` for every set of
groups and addresses (`GroupAssumption`: a group has six bytes; `AddressAssumption`); of the
hash they use only that its values are positions of the filter (`HashType`). The two
properties speak of the time when the callback has returned; `IInv` says what holds after
each of its calls: the registers of an open device follow the fields, and in the middle of
the list the hash holds exactly the groups already added. It also says which wishes each
branch of the callback may rely on.

The same module proves what `HashGet` computes, for every six-byte address (`HashParity`): its
value is below 64 and bit `i` is the parity of the address bits `i`, `i + 6`, …, `i + 42`;
`HashFoldsGroups`, which TLC checks near each group, follows. The proof goes up from single
bits: the sum that stands for an exclusive or has the right low bits (`XorBits`), so one round
of the loop adds up the bits of its six terms (`Fold3Bits`); which bits of the three bytes
these are, the shifts say (`ShiftedFirst`, `ShiftedSecond`, `ShiftedThird`), two of the six
being shifted out every time (`Fold3At`).

`CppiRxProofs` proves, for every number of RCBs, buffers, fragments and packets, every
service limit and length of the `Needs` list, with failing allocations and dropped frames
(`RxAssumption`, `BufAssumption`), two things of each of `TypeOK`, `RcbsConserved`,
`QueueNeverEmpty`, `BuffersIsolated`, `BuffersConserved`, `NoHostError`, `NoHiddenStall` and
`DeliveredIntact`, and of `OpenCanReceive` where `InitRcb` does not give up (`InitComplete`),
however many allocations fail afterwards:

- `Spec => [](FirstLife => P)`. `FirstLife` is the time until the first teardown has been
  handled. `OneLife` proves that a channel that is never torn down, such as the one of
  `rx_ring`, never leaves it, so the condition costs nothing there.
- `Spec /\ []CleanClose => []P`, over any number of closes and openings. `CleanClose` says that
  `RxTeardownInt` finds no RCB that was dropped or waits for a buffer, and after a partial
  teardown all RCBs set up. `ClosesAreClean` proves it although allocations fail: `NeedsCheck`
  runs before `RxInt` looks for a teardown and finds buffers for all RCBs that wait, and the
  `Needs` list has room for them if it is no more than one entry shorter than there are RCBs
  (512 for 256 as shipped), since one RCB stays in the queue (`NeedsHasRoom`). Its conditions
  are on the steps that spoil a close and on nothing else: no frame is dropped by the callback,
  `InitRcb` does not give up, and `NeedsCheck` does not fail once more in the very call
  that handles the teardown (`Refilled`). `OpenedAgain` draws the conclusion: the channel may be
  closed and opened without end. None of these conditions can be dropped: each of the steps has
  its row among the known counterexamples.

`BuffersIsolated` is proved over all lives but for the time between `RxTeardownInt` and the
reset in `halClose`: a handler that was adding to the queue when the engine answered the
teardown sees the EOQ of the old tail and starts the engine again (if the engine does start,
which is the assumption of section 2), and then the queue is taken away under it.
`NothingFreedUsed` adds that no RCB of freed memory is used.

The invariant over all lives (`Lives`) has two sides. While the channel lives (`Alive`) the ring
is in order (`Inv`), a teardown is asked for and answered once (`Asked`), only `halOpen` works
on a channel that is not open (`Opening`) and RCBs that are not set up have no buffer (`Unset`).
From `RxTeardownInt` to the next opening the lists are empty, and either there are no RCBs and
no buffer is the driver's, or each RCB has a buffer of its own (`Shut`). `RxTeardownIntStep`
leads from the one to the other, `InitRcbNewStep` and `InitRcbReuseStep` back.

`Inv` has the shape of the one for the transmit ring: there is a position `d` in
the queue up to which packets are complete, and the engine has filled `hwFrag` buffers
behind it (`Packets`, `Engine`). What the receive side adds: an RCB can be in five places,
two of them the hands of a handler (`Places`); a buffer is the driver's exactly as long
as its RCB is in a place where the handler still owes something for it (`Held`); the run of
good RCBs in the hand of `halRxReturn` is linked before it is queued (`Linked`, `Marked`); and
the buffers up to `d + hwFrag` hold packets that arrived after all those delivered or
thrown away (`Filled`, `Ordered`). There is one lemma per action; those of
`AddToRxQueue` and `RxInt` rest on lemmas about appending to a queue of whole packets
and taking the first one off.

`CpmacDevProofs` proves `TypeOK`, `CleanDown`, `NoStaleTasklet`, `NoNestedIsr` and
`LineNotDead` for every bound of the transmit queue, both interrupt settings and both
kinds of opening. `Flags` ties the two flags of a close, the registered handler and the tasklet
to the place of the process, and holds whatever happens; `OneAtATime` says that only the
tasklet writes the EOI that lets the next interrupt in. `Phases` follows a close that is
not disturbed, channel by channel: since the line is alive, a teardown request is either
unanswered or its answer is pending, so the time-out finds the channel closed. `Counted`
is there for the type of `opened_chan`: a close that failed leaves the handler registered, so
the next `request_irq` fails and the count stops at two. `Stranded` is what an open that was
refused its interrupt leaves: nothing but `cpmac_exit` closes it, unless a later open succeeds.

`MdioProofs` proves `TypeOK`, `Reported` and `LinkedIsAgreed` for every set of modes,
partners and cables and all time-outs (`MdioAssumption`). `LinkedIsAgreed` needs what
happened in a negotiation: a machine that trusts one has not set the PHY to a fixed mode
(`NwayOn`); a link is up only behind a finished negotiation with a common mode
(`LinkHasCommon`); in LINK_WAIT it is finished (`WaitIsSettled`); and one that begins anew
under LINKED is met by the next tick with the link bit down (`RestartIsFresh`), which is
what the latch of that bit is for.

`SkbPoolProofs` proves `MarkTellsPool` for every pool and both modes (`PoolAssumption`), the
two races included: whatever happens to the list, a block of the pool is never given to
`kfree`, and a slab block is given to the pool only if `skb_copy_ipcomp` marked it. With
`TypeOK` it is inductive. It also proves
`SharersCounted` and `PoolConserved`, up to the races they name. Their invariant
(`Pool`) says that the list is a chain in which every block has at most one predecessor and
that it holds just the blocks that no header holds (or fewer, once one has leaked); the
lemmas say what a push and a pop at the head do to the least closed set.

`PrioWrrProofs` proves `QlenExact` for all flows, options and lengths (`FlowAssumption`,
`QueueAssumption`, `OptionsAssumption`: weights and lengths of a request are bytes).
`Shape` adds that every slot of the table, half filled or not, names a band, and that the
packet in the hands of the driver has a band to go back to; a lemma says what changing
one queue does to the sum of the four lengths. `FlowOrder` and `StrictPriority` are proved under
`Stable`: a flow is classified the same before and after its priority is overwritten.
`FilteredIsStable` shows this for every flow that a tc filter classifies (the use TI had in
mind), `UnfilteredIsStable` that a flow without filter has it if it is best effort, and that an
expedited one is sent one band down, the counterexample of section 3. `TunedAsShown` is proved
for every request and every length of the device queue. Its invariant says how far the table has
been filled by the weights that are stored (`TableInv`), and that the limits up to the band that
`priowrr_tune` has come to are the stored ones while before the first of them the old ones fit
the pool (`LimitInv`). That the pool is shared out without a rest is not part of it, because it
is not so for all requests; `OpenLengthUsesPool` says for which it is: those that leave the length
of the last queue open, where `tx_queue_len` fits into eight bits (100 on all interfaces the
scheduler sits on).

What is only model-checked, and why:

- Liveness (`EveryPacketOnWire`, `EveryPacketReturned`, `TeardownCompletes` and the others):
  TLAPS does not prove consequences of fairness.
- Nothing general is proved of the receive ring after a close that was not clean: most of the
  properties are false there.

Recursive definitions stay out of reach in general, but an argument by a least element does
not: `LeastMember` in `SkbPoolProofs` and `LeastPosition` in `CppiTxProofs` take it from the
well-foundedness of the natural numbers, in a form with sets instead of predicates.

## 5. What is not modelled

- `TxTeardownInt` over descriptors: `CpmacDev` has it over a count of packets.
- Channels other than one for each direction: only these are set up.
- `halInit`, `halProbe` and the reading of options: sequential, before anything else runs.
- `_CPMDIO_NOPHY`, loop-back modes, buses with several PHYs; `cpMacMdioLinkChange`, which
  nothing calls.
- Statistics, LEDs, debug output, `/proc` and ioctl: no property depends on them.
- Padding and lengths of packets, headroom, cache maintenance and the byte offset of buffers.
- `priowrr_destroy`, dump, children other than pfifo, and a failed `kmalloc` in a change of
  options.
- `ti_skbuff.c`, which is the pool for another build option; the second copy of the driver
  (`avalanche-cpmac-routertech`); the Marvell switch driver and the AR7 register modules,
  which are I/O.
- Everything third-party: the Linux kernel with its drivers and file systems, linux-atm,
  bridge-utils, mailsend, Transmission. That is some four million lines in ten thousand
  files, of which the code of this firmware is a fraction of a percent. A model of the
  rest, or of a noticeable share of it, would not be about this program; the map covers the
  driver and the two parts of the kernel that TI wrote.

## 6. Plan

1. `TxTeardownInt` over descriptors in `CppiTx`, and the return of packets at a close as a
   step of `TxFifo`.
2. Candidates for further modules: the ATMARP entry machine of linux-atm, the MCDMA driver.

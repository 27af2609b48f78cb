------------------------------- MODULE CppiRx -------------------------------
(***************************************************************************)
(* The receive ring of the AVALANCHE CPMAC driver (avalanche-cpmac-0.1):   *)
(* InitRcb(), RxInt(), NeedsCheck(), halRxReturn(), AddToRxQueue(),        *)
(* RxTeardownInt() and FreeRx() of cppi_cpmac.c, the receive half of       *)
(* halIsr(), of opening and of closing, the receive callback, interrupt    *)
(* handler and tasklet of cpmac.c, and the DMA engine that fills the       *)
(* buffers meanwhile.                                                      *)
(*                                                                         *)
(* A receive descriptor (HAL_RCB) is its index, 1 .. RxNumBuffers; 0 is    *)
(* the null pointer.  The software list RxActQueueHead .. RxActQueueTail   *)
(* and the fragment chains the handlers hold are sequences of RCBs; HNext, *)
(* the bits of mode and the buffer pointer are memory the engine shares.   *)
(* A buffer is an sk_buff; Dat[r] stands for DatPtr, BufPtr and OsInfo of  *)
(* RCB r, which the code always sets together.                             *)
(*                                                                         *)
(* The channel may be closed and opened again.  Everything here runs in    *)
(* the tasklet, in halOpen(), or in the handler while a process sleeps in  *)
(* a close, so the CPU has one program counter; the engine and the OS      *)
(* (which frees buffers) step between any two CPU steps.                   *)
(***************************************************************************)
EXTENDS Integers, Sequences

CONSTANTS
  RxNumBuffers,    \* ChData[Ch].RxNumBuffers: RCBs of the channel
  MaxFrags,        \* largest number of buffers a received packet fills
  RxServiceMax,    \* ChData[Ch].RxServiceMax
  MaxNeeds,        \* MAX_NEEDS: capacity of HalDev->Needs
  Buf,             \* sk_buffs of the system
  Tagged,          \* 802.1q frames arrive while enable_802_1q is off
  MallocFails,     \* allocation of memory may fail
  Teardowns,       \* teardown modes in use: "full" (Close 2), "partial" (Close 1)
  ClosingTraffic,  \* packets may begin to arrive while the device is closing
  MaxPkt,          \* bound: packets received in a behaviour
  MaxOpens         \* bound: times the device is opened

ASSUME RxAssumption ==
  /\ RxNumBuffers \in Nat \ {0}
  /\ MaxFrags \in Nat \ {0}
  /\ RxServiceMax \in Nat \ {0}
  /\ MaxNeeds \in Nat
  /\ {Tagged, MallocFails, ClosingTraffic} \subseteq BOOLEAN
  /\ Teardowns \subseteq {"full", "partial"}
  /\ {MaxPkt, MaxOpens} \subseteq Nat

Rcb   == 1 .. RxNumBuffers
NULL  == 0
Ptr   == Rcb \cup {NULL}

ASSUME BufAssumption == NULL \notin Buf

TEARDOWN_VAL == -4   \* completion pointer of a teardown, 0xFFFFFFFC

VARIABLES
  RcbPool,         \* RCBs that InitRcb() has yet to queue
  RxActQueue,      \* RCBs between RxActQueueHead and RxActQueueTail
  RxActive,        \* HDP has been written since the channel was opened
  Needs,           \* RCBs without a buffer, HalDev->Needs[0 .. NeedsCount - 1]
  HNext,           \* hardware next pointer of each RCB
  Own, Eof, Eoq,   \* mode bits of each RCB
  Dat,             \* buffer of each RCB
  owner,           \* of each buffer: "free", "hal" (the driver's) or "os"
  data,            \* what the engine wrote in each buffer: <<packet, fragment>>
  pc,              \* where the CPU is
  caller,          \* who called halRxReturn()
  chain,           \* RCBs of the packet in hand, not yet given a new buffer
  good,            \* CurrHeadRcb .. LastGoodRcb: RCBs ready to be queued
  OldTailRcb,      \* local of AddToRxQueue() between link and EOQ test
  failed,          \* rc of halRxReturn()
  PacketsServiced, \* local of RxInt()
  hwPtr,           \* DMA: descriptor to fetch next (HDP register), or NULL
  hwCur, hwLatch,  \* DMA: descriptor being filled and the HNext read with it
  hwSop, hwFrag,   \* DMA: first descriptor of the packet, fragments filled
  HostErr,         \* DMA: HDP was written while the channel was running
  MiiEn,           \* halOpen() has enabled the MAC
  cp, rxInt,       \* completion pointer register, raw interrupt status
  armed,           \* an EOI was written since the last interrupt
  tasklet,         \* the tasklet is scheduled
  nRecv,           \* packets that have begun to arrive
  delivered,       \* history: contents of each packet given to netif_rx()
  discarded,       \* history: packets RxInt() or the callback threw away
  lost,            \* history: RCBs that nothing points to any more
  RcbStart,        \* memory for the RCBs has been allocated
  nRcb,            \* RCBs that InitRcb() has set up in it
  ChIsOpen,        \* ChIsOpen[Ch][DIRECTION_RX]; its RX_INTMASK bit follows it
  RxTeardownPending,
  closing,         \* set_to_close and non_data_irq_expected
  opens,           \* times the device has been opened
  hwTd,            \* DMA: a teardown has been requested
  stale,           \* entries of Needs that point into freed memory
  foreignFree,     \* history: FreeRx() freed a buffer that was not the driver's
  usedFreed        \* history: NeedsCheck() took an RCB out of freed memory

lists == <<RcbPool, RxActQueue, RxActive, Needs>>
modes == <<Own, Eof, Eoq>>
bufs  == <<owner, data>>
cpu   == <<pc, caller, chain, good, OldTailRcb, failed, PacketsServiced>>
dma   == <<hwPtr, hwCur, hwLatch, hwSop, hwFrag, hwTd, HostErr>>
intr  == <<cp, rxInt, armed, tasklet>>
hist  == <<nRecv, delivered, discarded, lost>>
chan  == <<RcbStart, nRcb, ChIsOpen, RxTeardownPending, closing, opens>>
free  == <<stale, foreignFree, usedFreed>>
dev   == <<MiiEn, chan, free>>
vars  == <<lists, HNext, modes, Dat, bufs, cpu, dma, dev, intr, hist>>

-----------------------------------------------------------------------------
(* The device is initialised and has never been opened.                    *)

Init ==
  /\ RcbPool = <<>> /\ RxActQueue = <<>> /\ Needs = <<>>
  /\ RxActive = FALSE
  /\ HNext = [r \in Rcb |-> NULL]
  /\ Own = [r \in Rcb |-> FALSE]
  /\ Eof = [r \in Rcb |-> FALSE]
  /\ Eoq = [r \in Rcb |-> FALSE]
  /\ Dat = [r \in Rcb |-> NULL]
  /\ owner = [b \in Buf |-> "free"]
  /\ data = [b \in Buf |-> <<0, 0>>]
  /\ pc = "closed"
  /\ caller = "InitRcb"
  /\ chain = <<>> /\ good = <<>>
  /\ OldTailRcb = NULL
  /\ failed = FALSE
  /\ PacketsServiced = 0
  /\ hwPtr = NULL /\ hwCur = NULL /\ hwLatch = NULL /\ hwSop = NULL
  /\ hwFrag = 0
  /\ hwTd = FALSE /\ HostErr = FALSE
  /\ cp = NULL
  /\ rxInt = FALSE /\ armed = TRUE /\ tasklet = FALSE
  /\ MiiEn = FALSE /\ RcbStart = FALSE /\ ChIsOpen = FALSE /\ closing = FALSE
  /\ nRcb = 0 /\ opens = 0
  /\ RxTeardownPending = "none"
  /\ stale = 0 /\ foreignFree = FALSE /\ usedFreed = FALSE
  /\ nRecv = 0
  /\ delivered = <<>>
  /\ discarded = {} /\ lost = {}

-----------------------------------------------------------------------------
(* The DMA engine (external hardware, modelled from how the driver uses    *)
(* it).  As on the transmit side it reads HNext once, with the descriptor. *)

HwIdle == hwPtr = NULL /\ hwCur = NULL

\* A store to the RX HDP register; a running channel answers with a host error.
WriteHDP(r) ==
  /\ hwPtr' = r
  /\ HostErr' = (HostErr \/ ~HwIdle)
  /\ UNCHANGED <<hwCur, hwLatch, hwSop, hwFrag, hwTd>>

HwFetch ==
  /\ hwCur = NULL /\ hwPtr # NULL
  /\ hwCur' = hwPtr
  /\ hwLatch' = HNext[hwPtr]
  /\ hwPtr' = NULL
  /\ UNCHANGED <<lists, HNext, modes, Dat, bufs, cpu, hwSop, hwFrag, hwTd,
                 HostErr, dev, intr, hist>>

\* A buffer has been filled.  The packet ends with it if it has no more data or
\* there is no further descriptor: EOF, and EOQ if the engine stops, into the
\* EOP, ownership out of the SOP, completion pointer and interrupt.
HwFill(last) ==
  LET sop  == IF hwSop = NULL THEN hwCur ELSE hwSop
      p    == IF hwSop = NULL THEN nRecv + 1 ELSE nRecv
      ends == last \/ hwLatch = NULL
  IN  /\ MiiEn /\ hwCur # NULL
      /\ closing => ClosingTraffic \/ hwSop # NULL
      /\ p <= MaxPkt
      /\ nRecv' = p
      /\ hwFrag + 1 = MaxFrags => last
      /\ data' = [data EXCEPT ![Dat[hwCur]] = <<p, hwFrag + 1>>]
      /\ Eof' = [Eof EXCEPT ![hwCur] = ends]
      /\ Eoq' = [Eoq EXCEPT ![hwCur] = (hwLatch = NULL)]
      /\ Own' = [Own EXCEPT ![sop] = ~ends]
      /\ cp' = IF ends THEN hwCur ELSE cp
      /\ rxInt' = (rxInt \/ ends)
      /\ hwPtr' = hwLatch
      /\ hwCur' = NULL /\ hwLatch' = NULL
      /\ hwSop' = IF ends THEN NULL ELSE sop
      /\ hwFrag' = IF ends THEN 0 ELSE hwFrag + 1
      /\ UNCHANGED <<lists, HNext, Dat, owner, cpu, hwTd, HostErr, dev, armed,
                     tasklet, delivered, discarded, lost>>

\* A requested teardown takes effect between two packets, whether the channel
\* runs or has stopped; the completion pointer takes a value of its own.
HwTeardown ==
  /\ hwTd /\ hwSop = NULL
  /\ hwPtr' = NULL /\ hwCur' = NULL /\ hwLatch' = NULL
  /\ hwTd' = FALSE
  /\ cp' = TEARDOWN_VAL
  /\ rxInt' = TRUE
  /\ UNCHANGED <<lists, HNext, modes, Dat, bufs, cpu, hwSop, hwFrag, HostErr,
                 dev, armed, tasklet, hist>>

\* The module is held in reset.
HwReset ==
  /\ hwPtr' = NULL /\ hwCur' = NULL /\ hwLatch' = NULL /\ hwSop' = NULL
  /\ hwFrag' = 0
  /\ hwTd' = FALSE /\ HostErr' = FALSE
  /\ cp' = NULL
  /\ rxInt' = FALSE /\ armed' = TRUE

-----------------------------------------------------------------------------
(* AddToRxQueue(good[1], good[Len(good)])                                  *)

\* Where halRxReturn() continues once what is ready has been queued: with the
\* rest of the chain, or back in its caller.  NeedsCheck() gives up at the
\* first failure.
Continue(rest, bad) ==
  IF rest # <<>> THEN "RxReturn"
  ELSE IF caller = "NeedsCheck" /\ bad THEN "RxTop"
  ELSE caller

AddToRxQueueFirst ==
  /\ pc = "AddToRxQueue"
  /\ RxActQueue = <<>>
  /\ RxActQueue' = good
  /\ IF RxActive THEN UNCHANGED dma ELSE WriteHDP(good[1])
  /\ RxActive' = TRUE
  /\ good' = <<>>
  /\ pc' = Continue(chain, failed)
  /\ UNCHANGED <<RcbPool, Needs, HNext, modes, Dat, bufs, caller, chain,
                 OldTailRcb, failed, PacketsServiced, dev, intr, hist>>

AddToRxQueueLink ==
  /\ pc = "AddToRxQueue"
  /\ RxActQueue # <<>>
  /\ OldTailRcb' = RxActQueue[Len(RxActQueue)]
  /\ HNext' = [HNext EXCEPT ![RxActQueue[Len(RxActQueue)]] = good[1]]
  /\ RxActQueue' = RxActQueue \o good
  /\ pc' = "TestEoq"
  /\ UNCHANGED <<RcbPool, RxActive, Needs, modes, Dat, bufs, caller, chain,
                 good, failed, PacketsServiced, dma, dev, intr, hist>>

\* Mutant: the EOQ bit stays set, so that RxInt() sees the stop again.
EoqAfterRestartKept == Eoq

\* The restart consumes the EOQ bit of the old tail.
EoqAfterRestart == [Eoq EXCEPT ![OldTailRcb] = FALSE]

AddToRxQueueTestEoq ==
  /\ pc = "TestEoq"
  /\ IF Eoq[OldTailRcb]
       THEN WriteHDP(good[1]) /\ Eoq' = EoqAfterRestart
       ELSE UNCHANGED <<dma, Eoq>>
  /\ good' = <<>>
  /\ OldTailRcb' = NULL
  /\ pc' = Continue(chain, failed)
  /\ UNCHANGED <<lists, HNext, Own, Eof, Dat, bufs, caller, chain, failed,
                 PacketsServiced, dev, intr, hist>>

-----------------------------------------------------------------------------
(* halRxReturn()                                                           *)

\* The mode of the RCBs in R becomes own, without EOF and EOQ.
SetMode(R, own) ==
  /\ Own' = [r \in Rcb |-> IF r \in R THEN own ELSE Own[r]]
  /\ Eof' = [r \in Rcb |-> IF r \in R THEN FALSE ELSE Eof[r]]
  /\ Eoq' = [r \in Rcb |-> IF r \in R THEN FALSE ELSE Eoq[r]]

\* On entry the last RCB ends the chain, and the first and last are marked
\* owned by the engine.
RxReturn(c, who) ==
  /\ HNext' = [HNext EXCEPT ![c[Len(c)]] = NULL]
  /\ SetMode({c[1], c[Len(c)]}, TRUE)
  /\ chain' = c
  /\ caller' = who
  /\ failed' = FALSE
  /\ pc' = "RxReturn"

\* Mutant: the RCB keeps the buffer that the network stack was given.
AttachBufferNot(r, b) == Dat

\* BufPtr, DatPtr and OsInfo of RCB r point to the new buffer b.
AttachBuffer(r, b) == [Dat EXCEPT ![r] = b]

\* MallocRxBuffer() succeeded for the next RCB of the chain.
RxReturnGood ==
  /\ pc = "RxReturn"
  /\ \E b \in Buf :
       /\ owner[b] = "free"
       /\ owner' = [owner EXCEPT ![b] = "hal"]
       /\ Dat' = AttachBuffer(chain[1], b)
  /\ good' = Append(good, chain[1])
  /\ chain' = Tail(chain)
  /\ pc' = IF chain' = <<>> THEN "AddToRxQueue" ELSE "RxReturn"
  /\ UNCHANGED <<lists, HNext, modes, data, caller, OldTailRcb, failed,
                 PacketsServiced, dma, dev, intr, hist>>

\* Mutant: the RCB without a buffer is forgotten.
NeedsBufferForgotten(r) == UNCHANGED <<Needs, lost>>

\* The RCB goes on the Needs list, or is dropped if that is full.
NeedsBuffer(r) ==
  IF Len(Needs) < MaxNeeds
    THEN Needs' = Append(Needs, r) /\ UNCHANGED lost
    ELSE lost' = lost \cup {r} /\ UNCHANGED Needs

\* MallocRxBuffer() failed for the next RCB of the chain, which keeps its old
\* buffer pointer; the RCBs that were ready before it are queued.
RxReturnFail ==
  /\ pc = "RxReturn" /\ MallocFails
  /\ NeedsBuffer(chain[1])
  /\ SetMode({chain[1]}, FALSE)
  /\ HNext' = IF good = <<>> THEN HNext
              ELSE [HNext EXCEPT ![good[Len(good)]] = NULL]
  /\ chain' = Tail(chain)
  /\ failed' = TRUE
  /\ pc' = IF good # <<>> THEN "AddToRxQueue" ELSE Continue(chain', TRUE)
  /\ UNCHANGED <<RcbPool, RxActQueue, RxActive, Dat, bufs, caller, good,
                 OldTailRcb, PacketsServiced, dma, dev, intr, nRecv,
                 delivered, discarded>>

-----------------------------------------------------------------------------
(* Opening: ChannelConfigApply() resets the queue and calls InitRcb(),     *)
(* whose result it does not look at.                                       *)

\* halOpen() has reset the module, and the channel forgets its queue.
ChannelReset ==
  /\ pc = "closed" /\ opens < MaxOpens
  /\ opens' = opens + 1
  /\ HwReset
  /\ RxActQueue' = <<>> /\ RxActive' = FALSE
  /\ caller' = "InitRcb"
  /\ lost' = {}
  /\ UNCHANGED <<Needs, bufs, chain, good, OldTailRcb, failed, PacketsServiced,
                 tasklet, MiiEn, ChIsOpen, RxTeardownPending, closing, free,
                 nRecv, delivered, discarded>>

\* There are no RCBs: memory for them is allocated and cleared.
InitRcbNew ==
  /\ ~RcbStart
  /\ ChannelReset
  /\ \/ RcbStart' = TRUE /\ pc' = "Malloc"
     \/ MallocFails /\ RcbStart' = FALSE /\ pc' = "OpenEnd"
  /\ nRcb' = 0
  /\ RcbPool' = <<>>
  /\ SetMode(Rcb, FALSE)
  /\ HNext' = [r \in Rcb |-> NULL]
  /\ Dat' = [r \in Rcb |-> NULL]

\* Mutant: only new RCBs go on the pool.
OldRcbsNone == <<>>

\* The pool of RCBs that are used again.
OldRcbs == [i \in Rcb |-> RxNumBuffers + 1 - i]

\* There are RCBs: they are used again, with the buffers they have.
InitRcbReuse ==
  /\ RcbStart
  /\ ChannelReset
  /\ pc' = "InitRcb"
  /\ nRcb' = RxNumBuffers
  /\ RcbPool' = OldRcbs
  /\ SetMode(Rcb, FALSE)
  /\ UNCHANGED <<RcbStart, HNext, Dat>>

\* MallocRxBuffer() for the next RCB, which goes on the pool.
InitRcbBuffer ==
  /\ pc = "Malloc"
  /\ \E b \in Buf :
       /\ owner[b] = "free"
       /\ owner' = [owner EXCEPT ![b] = "hal"]
       /\ Dat' = [Dat EXCEPT ![nRcb + 1] = b]
  /\ nRcb' = nRcb + 1
  /\ RcbPool' = <<nRcb + 1>> \o RcbPool
  /\ pc' = IF nRcb' = RxNumBuffers THEN "InitRcb" ELSE "Malloc"
  /\ UNCHANGED <<RxActQueue, RxActive, Needs, HNext, modes, data, caller, chain,
                 good, OldTailRcb, failed, PacketsServiced, dma, MiiEn, RcbStart,
                 ChIsOpen, RxTeardownPending, closing, opens, free, intr, hist>>

\* MallocRxBuffer() failed: InitRcb() gives up, and queues no RCB at all.
InitRcbFail ==
  /\ pc = "Malloc" /\ MallocFails
  /\ pc' = "OpenEnd"
  /\ UNCHANGED <<lists, HNext, modes, Dat, bufs, caller, chain, good,
                 OldTailRcb, failed, PacketsServiced, dma, dev, intr, hist>>

\* The second half of InitRcb(): RxReturn without StripFlag for every RCB.
InitRcb ==
  /\ pc = "InitRcb" /\ RcbPool # <<>>
  /\ RcbPool' = Tail(RcbPool)
  /\ SetMode({RcbPool[1]}, TRUE)
  /\ HNext' = [HNext EXCEPT ![RcbPool[1]] = NULL]
  /\ good' = <<RcbPool[1]>>
  /\ pc' = "AddToRxQueue"
  /\ UNCHANGED <<RxActQueue, RxActive, Needs, Dat, bufs, caller, chain,
                 OldTailRcb, failed, PacketsServiced, dma, dev, intr, hist>>

\* The channel is open, and halOpen() lets packets in.
halOpenEnd ==
  /\ \/ pc = "OpenEnd"
     \/ pc = "InitRcb" /\ RcbPool = <<>>
  /\ ChIsOpen' = TRUE
  /\ MiiEn' = TRUE
  /\ pc' = "idle"
  /\ UNCHANGED <<lists, HNext, modes, Dat, bufs, caller, chain, good,
                 OldTailRcb, failed, PacketsServiced, dma, RcbStart, nRcb,
                 RxTeardownPending, closing, opens, free, intr, hist>>

-----------------------------------------------------------------------------
(* RxInt(), which begins with NeedsCheck() and the test for a teardown.    *)

NeedsCheck ==
  /\ pc = "NeedsCheck" /\ Needs # <<>>
  /\ Needs' = SubSeq(Needs, 1, Len(Needs) - 1)
  /\ RxReturn(<<Needs[Len(Needs)]>>, "NeedsCheck")
  /\ usedFreed' = (usedFreed \/ Len(Needs) <= stale)
  /\ stale' = IF Len(Needs) <= stale THEN Len(Needs) - 1 ELSE stale
  /\ UNCHANGED <<RcbPool, RxActQueue, RxActive, Dat, bufs, good, OldTailRcb,
                 PacketsServiced, dma, MiiEn, chan, foreignFree, intr, hist>>

NeedsCheckEnd ==
  /\ pc = "NeedsCheck" /\ Needs = <<>>
  /\ pc' = "RxTop"
  /\ UNCHANGED <<lists, HNext, modes, Dat, bufs, caller, chain, good,
                 OldTailRcb, failed, PacketsServiced, dma, dev, intr, hist>>

\* The engine has answered a teardown request.
TeardownSeen == RxTeardownPending # "none" /\ cp = TEARDOWN_VAL

RxIntNoTeardown ==
  /\ pc = "RxTop" /\ ~TeardownSeen
  /\ pc' = "RxInt"
  /\ UNCHANGED <<lists, HNext, modes, Dat, bufs, caller, chain, good,
                 OldTailRcb, failed, PacketsServiced, dma, dev, intr, hist>>

\* Mutant: the ownership bit of the head is not looked at.
HeadDoneUnchecked == TRUE

\* The packet at the head of the queue has been received.
HeadDone == ~Own[RxActQueue[1]]

\* The fragment loop: up to the first EOF, or to the end of the queue.
HeadFrags ==
  LET ends == {i \in 1 .. Len(RxActQueue) :
                 Eof[RxActQueue[i]] \/ i = Len(RxActQueue)}
  IN  SubSeq(RxActQueue, 1, CHOOSE i \in ends : \A j \in ends : i <= j)

\* Mutant: the tasklet neither runs again nor writes the EOI if work is left.
RxIntReturnStops(MoreWork) ==
  /\ pc' = "idle"
  /\ PacketsServiced' = 0
  /\ tasklet' = tasklet
  /\ armed' = (armed \/ ~MoreWork)

\* Return to halIsr().  The tasklet runs again if there is more work, and
\* writes the EOI if not; while the device is closing always the latter.
RxIntReturn(MoreWork) ==
  /\ pc' = "idle"
  /\ PacketsServiced' = 0
  /\ tasklet' = (tasklet \/ (MoreWork /\ ~closing))
  /\ armed' = (armed \/ ~MoreWork \/ closing)

\* Mutant: the last packet of the queue is handled as any other.
OnlyPacketNever(f) == FALSE

\* Nothing is queued behind packet f.
OnlyPacket(f) == Len(f) = Len(RxActQueue)

\* The queue holds this packet alone: it is thrown away and its RCBs are given
\* back to the engine, so that the engine is never without a buffer.
RxIntRecycle ==
  /\ pc = "RxInt"
  /\ HeadDone /\ PacketsServiced < RxServiceMax
  /\ OnlyPacket(HeadFrags)
  /\ LET f == HeadFrags IN
       /\ rxInt' = (rxInt /\ cp # f[Len(f)])
       /\ SetMode({f[1], f[Len(f)]}, TRUE)
       /\ WriteHDP(f[1])
       /\ discarded' = discarded \cup {data[Dat[f[1]]][1]}
  /\ RxIntReturn(FALSE)
  /\ UNCHANGED <<lists, HNext, Dat, bufs, caller, chain, good, OldTailRcb,
                 failed, dev, cp, nRecv, delivered, lost>>

\* Mutant: a misqueued RCB is not noticed.
MisqueueRestartNever(last) == UNCHANGED dma

\* The engine stopped at last although the queue goes on: restart it there.
MisqueueRestart(last) == IF Eoq[last] THEN WriteHDP(HNext[last]) ELSE UNCHANGED dma

\* Dequeue the packet, and call OsFunc->Receive().
RxIntDequeue ==
  /\ pc = "RxInt"
  /\ HeadDone /\ PacketsServiced < RxServiceMax
  /\ ~OnlyPacket(HeadFrags)
  /\ LET f == HeadFrags IN
       /\ rxInt' = (rxInt /\ cp # f[Len(f)])
       /\ RxActQueue' = SubSeq(RxActQueue, Len(f) + 1, Len(RxActQueue))
       /\ MisqueueRestart(f[Len(f)])
       /\ SetMode({f[1]}, FALSE)
       /\ chain' = f
  /\ PacketsServiced' = PacketsServiced + 1
  /\ pc' = "Receive"
  /\ UNCHANGED <<RcbPool, RxActive, Needs, HNext, Dat, bufs, caller, good,
                 OldTailRcb, failed, dev, cp, armed, tasklet, hist>>

RxIntEnd ==
  /\ pc = "RxInt"
  /\ ~(HeadDone /\ PacketsServiced < RxServiceMax)
  /\ RxIntReturn(HeadDone)
  /\ UNCHANGED <<lists, HNext, modes, Dat, bufs, caller, chain, good,
                 OldTailRcb, failed, dma, dev, cp, rxInt, hist>>

-----------------------------------------------------------------------------
(* Closing.                                                                *)

\* cpmac_p_dev_disable() announces the close, and waits for the tasklet.
cpmac_p_dev_disable ==
  /\ pc = "idle" /\ ~closing
  /\ Teardowns # {}
  /\ closing' = TRUE
  /\ UNCHANGED <<lists, HNext, modes, Dat, bufs, cpu, dma, MiiEn, RcbStart, nRcb,
                 ChIsOpen, RxTeardownPending, opens, free, intr, hist>>

\* The request; the process then sleeps until ChIsOpen is cleared.
halChannelTeardown ==
  /\ pc = "idle" /\ closing /\ ~tasklet
  /\ ChIsOpen /\ RxTeardownPending = "none"
  /\ RxTeardownPending' \in Teardowns
  /\ hwTd' = TRUE
  /\ UNCHANGED <<lists, HNext, modes, Dat, bufs, cpu, hwPtr, hwCur, hwLatch,
                 hwSop, hwFrag, HostErr, MiiEn, RcbStart, nRcb, ChIsOpen, closing,
                 opens, free, intr, hist>>

AllBufs == {Dat[r] : r \in Rcb} \ {NULL}

\* Mutant: the buffers are forgotten.
FreeRxLeaks ==
  /\ UNCHANGED <<owner, foreignFree>>
  /\ Dat' = [r \in Rcb |-> NULL]
  /\ RcbStart' = FALSE
  /\ nRcb' = 0
  /\ stale' = Len(Needs)

\* FreeRxBuffer() for every RCB with a buffer pointer, then the RCBs go.
FreeRx ==
  /\ owner' = [b \in Buf |-> IF b \in AllBufs THEN "free" ELSE owner[b]]
  /\ foreignFree' = (\/ foreignFree
                     \/ \E b \in AllBufs : owner[b] # "hal"
                     \/ \E r, s \in Rcb : r # s /\ Dat[r] = Dat[s] /\ Dat[r] # NULL)
  /\ Dat' = [r \in Rcb |-> NULL]
  /\ RcbStart' = FALSE
  /\ nRcb' = 0
  /\ stale' = Len(Needs)

\* The channel is closed.  The Needs list is left as it is.
RxTeardownInt ==
  /\ pc = "RxTop" /\ TeardownSeen
  /\ IF RxTeardownPending = "full"
       THEN FreeRx
       ELSE UNCHANGED <<owner, foreignFree, Dat, RcbStart, nRcb, stale>>
  /\ RcbPool' = <<>> /\ RxActQueue' = <<>> /\ RxActive' = FALSE
  /\ rxInt' = FALSE
  /\ ChIsOpen' = FALSE
  /\ RxTeardownPending' = "none"
  /\ RxIntReturn(FALSE)
  /\ UNCHANGED <<Needs, HNext, modes, data, caller, chain, good, OldTailRcb,
                 failed, dma, MiiEn, closing, opens, usedFreed, cp, hist>>

\* halClose() puts the module into reset.
halClose ==
  /\ pc = "idle" /\ closing /\ ~ChIsOpen
  /\ MiiEn' = FALSE /\ closing' = FALSE
  /\ HwReset
  /\ pc' = "closed"
  /\ UNCHANGED <<lists, HNext, modes, Dat, bufs, caller, chain, good, OldTailRcb,
                 failed, PacketsServiced, RcbStart, nRcb, ChIsOpen,
                 RxTeardownPending, opens, free, tasklet, hist>>

-----------------------------------------------------------------------------
(* cpmac_hal_receive(), and the network stack behind it.                   *)

Contents(c) == [i \in 1 .. Len(c) |-> data[Dat[c[i]]]]
BufsOf(c)   == {Dat[c[i]] : i \in 1 .. Len(c)}
RcbsOf(c)   == {c[i] : i \in 1 .. Len(c)}

\* Mutant: the loop stops before fragment 0.
FreeFragsButFirst(c) ==
  [x \in Buf |-> IF x \in BufsOf(c) \ {Dat[c[1]]} THEN "free" ELSE owner[x]]

\* dev_kfree_skb_any() for every fragment.
FreeFrags(c) == [x \in Buf |-> IF x \in BufsOf(c) THEN "free" ELSE owner[x]]

\* One fragment: netif_rx() gets the buffer itself.  Several: netif_rx() gets a
\* copy, and the fragments are freed.  RxReturn(.., 1) in both cases.
ReceiveUp ==
  /\ pc = "Receive"
  /\ IF Len(chain) = 1
       THEN owner' = [owner EXCEPT ![Dat[chain[1]]] = "os"]
       ELSE \E b \in Buf :
              /\ owner[b] = "free"
              /\ owner' = [FreeFrags(chain) EXCEPT ![b] = "os"]
  /\ delivered' = Append(delivered, Contents(chain))
  /\ RxReturn(chain, "RxInt")
  /\ UNCHANGED <<lists, Dat, data, good, OldTailRcb, PacketsServiced, dma,
                 dev, intr, nRecv, discarded, lost>>

\* An 802.1q frame that is not wanted, or no memory for the copy: the buffers
\* are freed, and RxReturn() is not called.
ReceiveDrop ==
  /\ pc = "Receive"
  /\ Tagged \/ Len(chain) > 1
  /\ owner' = FreeFrags(chain)
  /\ discarded' = discarded \cup {Contents(chain)[1][1]}
  /\ lost' = lost \cup RcbsOf(chain)
  /\ chain' = <<>>
  /\ pc' = "RxInt"
  /\ UNCHANGED <<lists, HNext, modes, Dat, data, caller, good, OldTailRcb,
                 failed, PacketsServiced, dma, dev, intr, nRecv, delivered>>

\* The network stack is done with a buffer.
OsFree(b) ==
  /\ owner[b] = "os"
  /\ owner' = [owner EXCEPT ![b] = "free"]
  /\ UNCHANGED <<lists, HNext, modes, Dat, data, cpu, dma, dev, intr, hist>>

-----------------------------------------------------------------------------
(* Interrupt delivery, as for transmission.                                *)

\* Mutant: the handler backs off from a device that is closing.
cpmac_hal_isr_backs_off ==
  /\ pc = "idle"
  /\ armed /\ rxInt /\ ChIsOpen
  /\ armed' = FALSE
  /\ tasklet' = ~closing
  /\ UNCHANGED <<lists, HNext, modes, Dat, bufs, cpu, dma, dev, cp, rxInt, hist>>

\* The handler schedules the tasklet; while a close waits it calls halIsr() itself.
cpmac_hal_isr ==
  /\ pc = "idle"
  /\ armed /\ rxInt /\ ChIsOpen
  /\ armed' = FALSE
  /\ IF closing THEN pc' = "NeedsCheck" /\ UNCHANGED tasklet
                ELSE tasklet' = TRUE /\ UNCHANGED pc
  /\ UNCHANGED <<lists, HNext, modes, Dat, bufs, caller, chain, good,
                 OldTailRcb, failed, PacketsServiced, dma, dev, cp, rxInt, hist>>

halIsr ==
  /\ pc = "idle"
  /\ tasklet
  /\ tasklet' = FALSE
  /\ IF rxInt /\ ChIsOpen
       THEN pc' = "NeedsCheck" /\ UNCHANGED armed
       ELSE armed' = TRUE /\ UNCHANGED pc
  /\ UNCHANGED <<lists, HNext, modes, Dat, bufs, caller, chain, good,
                 OldTailRcb, failed, PacketsServiced, dma, dev, cp, rxInt, hist>>

-----------------------------------------------------------------------------
Hardware == HwFetch \/ HwTeardown \/ \E last \in BOOLEAN : HwFill(last)

\* The steps that finish what the CPU has begun.
Running ==
  \/ InitRcbBuffer \/ InitRcbFail \/ InitRcb \/ halOpenEnd
  \/ NeedsCheck \/ NeedsCheckEnd \/ RxIntNoTeardown
  \/ RxReturnGood \/ RxReturnFail
  \/ AddToRxQueueFirst \/ AddToRxQueueLink \/ AddToRxQueueTestEoq
  \/ RxIntRecycle \/ RxIntDequeue \/ RxIntEnd
  \/ ReceiveUp \/ ReceiveDrop
  \/ halChannelTeardown \/ RxTeardownInt \/ halClose

Next ==
  \/ Hardware
  \/ Running
  \/ cpmac_hal_isr \/ halIsr
  \/ InitRcbNew \/ InitRcbReuse \/ cpmac_p_dev_disable
  \/ \E b \in Buf : OsFree(b)

Spec == Init /\ [][Next]_vars

(* Fairness: a running handler or close, an asserted interrupt and a       *)
(* scheduled tasklet make progress, and the engine answers a teardown.     *)
(* Packets need never arrive, nobody need open or close the device, and    *)
(* the network stack need never free a buffer.                             *)
Fairness ==
  /\ WF_vars(Running)
  /\ WF_vars(cpmac_hal_isr)
  /\ WF_vars(halIsr)
  /\ WF_vars(HwTeardown)

FairSpec == Spec /\ Fairness

-----------------------------------------------------------------------------
(* Properties                                                              *)

InQueue(r) == \E i \in 1 .. Len(RxActQueue) : RxActQueue[i] = r

\* Every variable has its type, for every value of the constants.
TypeOK ==
  /\ {RcbPool, RxActQueue, Needs, chain, good} \subseteq Seq(Rcb)
  /\ Len(Needs) <= MaxNeeds
  /\ HNext \in [Rcb -> Ptr]
  /\ {Own, Eof, Eoq} \subseteq [Rcb -> BOOLEAN]
  /\ Dat \in [Rcb -> Buf \cup {NULL}]
  /\ owner \in [Buf -> {"free", "hal", "os"}]
  /\ data \in [Buf -> (0 .. MaxPkt) \X (0 .. MaxFrags)]
  /\ pc \in {"closed", "Malloc", "InitRcb", "OpenEnd", "idle", "NeedsCheck",
             "RxTop", "RxInt", "Receive", "RxReturn",
             "AddToRxQueue", "TestEoq"}
  /\ caller \in {"InitRcb", "NeedsCheck", "RxInt"}
  /\ {OldTailRcb, hwPtr, hwCur, hwLatch, hwSop} \subseteq Ptr
  /\ cp \in Ptr \cup {TEARDOWN_VAL}
  /\ PacketsServiced \in 0 .. RxServiceMax
  /\ hwFrag \in 0 .. MaxFrags - 1
  /\ {RxActive, failed, hwTd, HostErr, MiiEn, rxInt, armed, tasklet, RcbStart,
      ChIsOpen, closing, foreignFree, usedFreed} \subseteq BOOLEAN
  /\ RxTeardownPending \in {"none", "full", "partial"}
  /\ nRcb \in 0 .. RxNumBuffers /\ opens \in 0 .. MaxOpens
  /\ stale \in 0 .. MaxNeeds
  /\ nRecv \in 0 .. MaxPkt
  /\ delivered \in Seq(Seq((0 .. MaxPkt) \X (0 .. MaxFrags)))
  /\ discarded \subseteq 0 .. MaxPkt
  /\ lost \subseteq Rcb

\* No RCB is in two places and none disappears unnoticed: each is once in the
\* pool, in the queue, on the Needs list, in the chain or run that
\* halRxReturn() is working on, or was dropped.
RcbsConserved ==
  LET linked == pc = "TestEoq"     \* the run is already part of the queue
      all == RcbPool \o RxActQueue \o Needs \o chain
               \o (IF linked THEN <<>> ELSE good)
  IN  /\ \A i, j \in 1 .. Len(all) : all[i] = all[j] => i = j
      /\ ChIsOpen => {all[i] : i \in 1 .. Len(all)} = (1 .. nRcb) \ lost

\* RxInt() reads the mode of the head of the queue without looking for a null
\* pointer, and the head is there, however many allocations fail.
QueueNeverEmpty == pc = "RxInt" => RxActQueue # <<>>

\* The engine only follows RCBs of the queue, and the buffers of queued RCBs
\* are the driver's and all different: a received packet is never written over
\* a buffer that the network stack owns or that another RCB points to.
BuffersIsolated ==
  /\ \A r \in {hwPtr, hwCur, hwLatch, hwSop} \ {NULL} : InQueue(r)
  /\ \A i \in 1 .. Len(RxActQueue) : owner[Dat[RxActQueue[i]]] = "hal"
  /\ \A i, j \in 1 .. Len(RxActQueue) :
       Dat[RxActQueue[i]] = Dat[RxActQueue[j]] => i = j

\* Every buffer of the driver is attached to an RCB that is queued or in hand:
\* neither the drop path, a failed allocation nor a teardown leaks one.  And
\* FreeRx() frees only buffers that are the driver's, each once: "If StripFlag is
\* TRUE, it is the responsibility of the upper layer software to free the
\* buffers" (halRxReturn).  An RCB that found no new buffer, and one that the
\* callback dropped, still point to the buffer they gave away.
BuffersConserved ==
  /\ \A b \in Buf : owner[b] = "hal" =>
       \E r \in Rcb \ lost : Dat[r] = b /\ \A i \in 1 .. Len(Needs) : Needs[i] # r
  /\ ~foreignFree

\* No HDP write hits a running channel: AddToRxQueue() restarts on the EOQ bit
\* of the old tail, RxInt() on the EOQ bit of a packet with a successor and
\* when it recycles the only packet.
NoHostError == ~HostErr

\* A stopped engine is always a stop that RxInt() or AddToRxQueue() will see:
\* the RCB where it stopped is still queued and carries EOQ.
NoHiddenStall ==
  (MiiEn /\ RxActQueue # <<>> /\ RxTeardownPending = "none" /\ HwIdle) =>
    \E i \in 1 .. Len(RxActQueue) : Eoq[RxActQueue[i]]

\* What netif_rx() gets is what arrived: the fragments of one packet, from the
\* first on and in order; packets come in the order of their arrival, each at
\* most once and none after it was thrown away.
DeliveredIntact ==
  /\ \A i \in 1 .. Len(delivered) : \A k \in 1 .. Len(delivered[i]) :
       delivered[i][k] = <<delivered[i][1][1], k>>
  /\ \A i, j \in 1 .. Len(delivered) :
       i < j => delivered[i][1][1] < delivered[j][1][1]
  /\ \A i \in 1 .. Len(delivered) : delivered[i][1][1] \notin discarded

\* Every packet that was received completely is eventually given to the
\* network stack or thrown away, also when no further packet arrives, unless
\* the channel is closed: neither the service limit nor a race of completion
\* and acknowledgement strands it.
Received(p) ==
  \E i \in 1 .. Len(RxActQueue) :
    ~Own[RxActQueue[i]] /\ data[Dat[RxActQueue[i]]] = <<p, 1>>

EveryPacketServiced ==
  \A p \in 1 .. MaxPkt :
    Received(p) ~> \/ p \in discarded
                   \/ \E i \in 1 .. Len(delivered) : delivered[i][1][1] = p
                   \/ ~ChIsOpen

\* RxInt() "handles all error conditions and fragments without valid data by
\* immediately returning the RCB's to the RCB pool" (its comment): no RCB is
\* ever dropped.  Two paths can drop one: halRxReturn() when the Needs list is
\* full, and a callback that does not call RxReturn().  Without the second, a
\* list of RxNumBuffers - 1 entries is enough, because the queue keeps one RCB.
NoRcbLost == lost = {}

\* A close leaves nothing behind that the next opening would trip over: no RCB
\* that NeedsCheck() takes from the Needs list lies in memory that a full
\* teardown has freed.
NoFreedRcb == ~usedFreed

\* InitRcb() "'queues' (gives to the hardware) the newly created receive buffers
\* to enable packet reception" (its comment): a channel that is open has RCBs.
\* And close mode 1 lets the user "bring it back to the last known state"
\* (comment of halClose): no RCB without a buffer is given to the engine when
\* InitRcb() uses the old RCBs again.  Both hold as long as InitRcb() does not give
\* up for want of memory, and each close finds no RCB dropped or on the Needs list.
OpenCanReceive ==
  /\ (MiiEn /\ ChIsOpen) => RxActQueue # <<>>
  /\ \A i \in 1 .. Len(RxActQueue) : Dat[RxActQueue[i]] # NULL

\* A blocking teardown "will not return until the teardown interrupt has occurred
\* and been processed" (comment of halChannelTeardown), and it returns: the
\* completion pointer still holds the teardown value when RxInt() looks, whatever
\* handler was running when the engine stopped.
TeardownCompletes == RxTeardownPending # "none" ~> ~ChIsOpen

=============================================================================

------------------------------- MODULE CppiTx -------------------------------
(***************************************************************************)
(* The transmit ring of the AVALANCHE CPMAC driver (avalanche-cpmac-0.1):  *)
(* halSend() and TxInt() of cppi_cpmac.c, the transmit half of halIsr() of *)
(* hcpmac.c, the interrupt handler and tasklet of cpmac.c, and the DMA     *)
(* engine that runs concurrently with all of them.                         *)
(*                                                                         *)
(* The two software lists of HAL_TCBs (the free stack TcbPool and the list *)
(* TxActQueueHead .. TxActQueueTail, both linked by Next) are sequences.   *)
(* The fields of a TCB that the DMA engine reads or writes (HNext and the  *)
(* bits of mode) are memory: functions of the TCB, written by both sides.  *)
(* A TCB is its index, 1 .. TxNumBuffers; 0 is the null pointer.           *)
(*                                                                         *)
(* The CPU runs one thing at a time (a uniprocessor; halSend and TxInt run *)
(* with interrupts off and the tasklet is not re-entrant), so its position *)
(* is one program counter, pc.  The DMA engine may take a step between any *)
(* two CPU steps, in particular between the store that links a packet      *)
(* behind the old tail and the load that looks for that tail's EOQ bit.    *)
(***************************************************************************)
EXTENDS Integers, Sequences, FiniteSets

CONSTANTS
  TxNumBuffers,    \* ChData[Ch].TxNumBuffers: TCBs of the channel
  MaxFrags,        \* largest FragCount the OS passes to Send()
  TxServiceMax,    \* ChData[Ch].TxServiceMax, also TxIntThresholdMaster[Ch]
  TxIntDisable,    \* HalDev->TxIntDisable
  MaxSend          \* bound: calls of Send() in a behaviour

ASSUME TxAssumption ==
  /\ TxNumBuffers \in Nat \ {0}
  /\ MaxFrags \in Nat \ {0}
  /\ TxServiceMax \in Nat \ {0}
  /\ TxIntDisable \in BOOLEAN
  /\ MaxSend \in Nat

Tcb  == 1 .. TxNumBuffers
NULL == 0
Ptr  == Tcb \cup {NULL}
Pkt  == 1 .. MaxSend         \* an OS_SENDINFO (the sk_buff), by order of Send()

VARIABLES
  TcbPool,         \* free TCBs, top of the stack first
  TxActQueue,      \* TCBs between TxActQueueHead and TxActQueueTail
  TxActive,        \* the engine has been given a packet and not seen to stop
  TxIntThreshold,  \* sends left before halSend() calls TxInt() itself
  HNext,           \* hardware next pointer of each TCB
  Own, Eof, Eoq,   \* mode bits: OWNERSHIP (of a packet: that of its SOP), EOF, EOQ
  OsInfo, Eop,     \* software fields: the packet, and (in a SOP) its last TCB
  pc,              \* where the CPU is
  pTailTcb, pCurrentTcb, \* locals of halSend() between link and EOQ test
  caller,          \* who called TxInt()
  PacketsServiced, \* local of TxInt()
  hwPtr,           \* DMA: descriptor to fetch next (HDP register), or NULL
  hwCur, hwLatch,  \* DMA: descriptor being sent and the HNext read with it
  hwSop,           \* DMA: first descriptor of the packet being sent, or NULL
  HostErr,         \* DMA: HDP was written while the channel was running
  cp, txInt,       \* completion pointer register, raw interrupt status
  txMask,          \* TX_INTMASK bit of the channel
  armed,           \* an EOI was written since the last interrupt
  tasklet,         \* the tasklet is scheduled
  nSend,           \* calls of Send() so far
  returned         \* history: <<packet, was on the wire>> of SendComplete()

sw    == <<TcbPool, TxActQueue, TxActive, TxIntThreshold>>
tcbs  == <<HNext, Own, Eof, Eoq, OsInfo, Eop>>
cpu   == <<pc, pTailTcb, pCurrentTcb, caller, PacketsServiced>>
dma   == <<hwPtr, hwCur, hwLatch, hwSop, HostErr>>
intr  == <<cp, txInt, txMask, armed, tasklet>>
hist  == <<nSend, returned>>
vars  == <<sw, tcbs, cpu, dma, intr, hist>>

-----------------------------------------------------------------------------
(* Init: the channel has just been opened by ChannelConfigApply(): InitTcb *)
(* pushed every TCB, in address order, on an empty stack.                  *)

InitTcbPool == [i \in 1 .. TxNumBuffers |-> TxNumBuffers + 1 - i]

Init ==
  /\ TcbPool = InitTcbPool
  /\ TxActQueue = <<>>
  /\ TxActive = FALSE
  /\ TxIntThreshold = TxServiceMax
  /\ HNext = [t \in Tcb |-> NULL]
  /\ Own = [t \in Tcb |-> FALSE]
  /\ Eof = [t \in Tcb |-> FALSE]
  /\ Eoq = [t \in Tcb |-> FALSE]
  /\ OsInfo = [t \in Tcb |-> 0]
  /\ Eop = [t \in Tcb |-> NULL]
  /\ pc = "idle"
  /\ pTailTcb = NULL /\ pCurrentTcb = NULL
  /\ caller = "isr"
  /\ PacketsServiced = 0
  /\ hwPtr = NULL /\ hwCur = NULL /\ hwLatch = NULL /\ hwSop = NULL
  /\ HostErr = FALSE
  /\ cp = NULL
  /\ txInt = FALSE
  /\ txMask = ~TxIntDisable
  /\ armed = TRUE
  /\ tasklet = FALSE
  /\ nSend = 0
  /\ returned = <<>>

-----------------------------------------------------------------------------
(* The DMA engine (external hardware, modelled from how the driver uses    *)
(* it: the CPPI protocol).  It reads HNext once, when it fetches the       *)
(* descriptor; a link written later is missed, and then the engine stops   *)
(* at that descriptor and sets its EOQ bit ("misqueue").                   *)

HwIdle == hwPtr = NULL /\ hwCur = NULL

\* A store to the TX HDP register; a running channel answers with a host error.
WriteHDP(t) ==
  /\ hwPtr' = t
  /\ HostErr' = (HostErr \/ ~HwIdle)
  /\ UNCHANGED <<hwCur, hwLatch, hwSop>>

HwFetch ==
  /\ hwCur = NULL /\ hwPtr # NULL
  /\ hwCur' = hwPtr
  /\ hwLatch' = HNext[hwPtr]
  /\ hwSop' = IF hwSop = NULL THEN hwPtr ELSE hwSop
  /\ hwPtr' = NULL
  /\ UNCHANGED <<sw, tcbs, cpu, HostErr, intr, hist>>

\* The buffer of a fragment that is not the last has been read.
HwNextFrag ==
  /\ hwCur # NULL /\ ~Eof[hwCur]
  /\ hwPtr' = hwLatch
  /\ hwCur' = NULL /\ hwLatch' = NULL
  /\ UNCHANGED <<sw, tcbs, cpu, hwSop, HostErr, intr, hist>>

\* The packet is on the wire: EOQ into the EOP, ownership out of the SOP, the
\* completion pointer written and the interrupt raised.
HwComplete ==
  /\ hwCur # NULL /\ Eof[hwCur]
  /\ Eoq' = [Eoq EXCEPT ![hwCur] = (hwLatch = NULL)]
  /\ Own' = [Own EXCEPT ![hwSop] = FALSE]
  /\ cp' = hwCur
  /\ txInt' = TRUE
  /\ hwPtr' = hwLatch
  /\ hwCur' = NULL /\ hwLatch' = NULL
  /\ hwSop' = NULL
  /\ UNCHANGED <<sw, HNext, Eof, OsInfo, Eop, cpu, HostErr, txMask, armed,
                 tasklet, hist>>

-----------------------------------------------------------------------------
(* halSend()                                                               *)

Frags(n) == SubSeq(TcbPool, 1, n)

\* The fragment loop: the first n TCBs of the pool become a chain that ends in
\* NULL, all owned by the engine, with SOF in the first and EOF in the last;
\* tail, if not NULL, is the old tail whose HNext is pointed at the chain.
FillTcbs(n, tail) ==
  LET f == Frags(n)
      F == {f[i] : i \in 1 .. n}
  IN  /\ HNext' = [t \in Tcb |->
                     IF t = f[n] THEN NULL
                     ELSE IF t \in F THEN f[1 + (CHOOSE i \in 1 .. n : f[i] = t)]
                     ELSE IF t = tail THEN f[1]
                     ELSE HNext[t]]
      /\ Own' = [t \in Tcb |-> IF t \in F THEN TRUE ELSE Own[t]]
      /\ Eof' = [t \in Tcb |-> IF t \in F THEN t = f[n] ELSE Eof[t]]
      /\ Eoq' = [t \in Tcb |-> IF t \in F THEN FALSE ELSE Eoq[t]]
      /\ OsInfo' = [t \in Tcb |-> IF t \in F THEN nSend + 1 ELSE OsInfo[t]]
      /\ Eop' = [Eop EXCEPT ![f[1]] = f[n]]

SendCall(n) ==
  /\ pc = "idle"
  /\ nSend < MaxSend
  /\ n \in 1 .. MaxFrags
  /\ nSend' = nSend + 1

\* EC_VAL_NO_TCBS or EC_VAL_OUT_OF_TCBS: the pool is left as it was (the TCBs
\* scribbled on are still free and are filled again before they are used);
\* cpmac_dev_tx() frees the packet.
halSendNoTcbs(n) ==
  /\ SendCall(n)
  /\ n > Len(TcbPool)
  /\ pc' = "exitSend"
  /\ UNCHANGED <<sw, tcbs, pTailTcb, pCurrentTcb, caller, PacketsServiced,
                 dma, intr, returned>>

\* The active queue is empty: start the engine if it was seen to stop.
halSendFirst(n) ==
  /\ SendCall(n)
  /\ n <= Len(TcbPool)
  /\ TxActQueue = <<>>
  /\ FillTcbs(n, NULL)
  /\ TcbPool' = SubSeq(TcbPool, n + 1, Len(TcbPool))
  /\ TxActQueue' = Frags(n)
  /\ IF TxActive THEN UNCHANGED dma ELSE WriteHDP(Frags(n)[1])
  /\ TxActive' = TRUE
  /\ pc' = "exitSend"
  /\ UNCHANGED <<TxIntThreshold, pTailTcb, pCurrentTcb, caller,
                 PacketsServiced, intr, returned>>

\* The active queue is not empty: link the packet behind its tail.
halSendLink(n) ==
  /\ SendCall(n)
  /\ n <= Len(TcbPool)
  /\ TxActQueue # <<>>
  /\ FillTcbs(n, TxActQueue[Len(TxActQueue)])
  /\ TcbPool' = SubSeq(TcbPool, n + 1, Len(TcbPool))
  /\ TxActQueue' = TxActQueue \o Frags(n)
  /\ pTailTcb' = TxActQueue[Len(TxActQueue)]
  /\ pCurrentTcb' = Frags(n)[1]
  /\ pc' = "testEoq"
  /\ UNCHANGED <<TxActive, TxIntThreshold, caller, PacketsServiced, dma, intr,
                 returned>>

\* Mutant: the EOQ bit stays set, so that TxInt() sees the stop again.
EoqAfterRestartKept == Eoq

\* The restart consumes the EOQ bit of the old tail.
EoqAfterRestart == [Eoq EXCEPT ![pTailTcb] = FALSE]

\* ... then look whether the engine had already stopped at the old tail.
halSendTestEoq ==
  /\ pc = "testEoq"
  /\ IF Eoq[pTailTcb]
       THEN /\ Eoq' = EoqAfterRestart
            /\ WriteHDP(pCurrentTcb)
            /\ UNCHANGED intr
       ELSE /\ txMask' = (txMask \/ TxIntDisable)
            /\ armed' = (armed \/ TxIntDisable)
            /\ UNCHANGED <<Eoq, dma, cp, txInt, tasklet>>
  /\ pc' = "exitSend"
  /\ pTailTcb' = NULL /\ pCurrentTcb' = NULL
  /\ UNCHANGED <<sw, HNext, Own, Eof, OsInfo, Eop, caller,
                 PacketsServiced, hist>>

\* ExitSend: with transmit interrupts disabled every TxServiceMax-th send
\* runs TxInt().
ExitSend ==
  /\ pc = "exitSend"
  /\ TxIntThreshold' = IF TxIntDisable THEN TxIntThreshold - 1
                       ELSE TxIntThreshold
  /\ pc' = IF TxIntDisable /\ TxIntThreshold' <= 0 THEN "TxInt" ELSE "idle"
  /\ caller' = "send"
  /\ UNCHANGED <<TcbPool, TxActQueue, TxActive, tcbs, pTailTcb, pCurrentTcb,
                 PacketsServiced, dma, intr, hist>>

-----------------------------------------------------------------------------
(* TxInt()                                                                 *)

\* halIsr() lifts the service limit when transmit interrupts are disabled.
ServiceMax ==
  IF caller = "isr" /\ TxIntDisable THEN 10000 ELSE TxServiceMax

\* Mutant: the ownership bit of the head is not looked at.
HeadDoneUnchecked == TxActQueue # <<>>

\* The head packet of the active queue has been sent.
HeadDone == TxActQueue # <<>> /\ ~Own[TxActQueue[1]]

TxIntBegin ==
  /\ pc = "TxInt"
  /\ pc' = "TxIntLoop"
  /\ PacketsServiced' = 0
  /\ UNCHANGED <<sw, tcbs, pTailTcb, pCurrentTcb, caller, dma, intr, hist>>

\* The first k TCBs of the queue, pushed on the pool.
PushTcbs(k) == SubSeq(TxActQueue, 1, k) \o TcbPool

\* Mutant: a misqueued packet is not noticed.
MisqueueRestartNever(last, rest) == UNCHANGED dma

\* The engine stopped at last although the queue went on: restart it there.
MisqueueRestart(last, rest) ==
  IF Eoq[last] /\ rest # <<>> THEN WriteHDP(HNext[last]) ELSE UNCHANGED dma

\* Mutant: TxActive is never cleared.
ActiveAfterAlways(last, rest) == TxActive

\* The engine stopped at last and nothing follows.
ActiveAfter(last, rest) == TxActive /\ ~(Eoq[last] /\ rest = <<>>)

\* One turn of the do-while loop: acknowledge, unlink, restart the engine after
\* a misqueue, give the packet back to the OS and the TCBs to the pool.
TxIntPop ==
  /\ pc = "TxIntLoop"
  /\ HeadDone /\ PacketsServiced < ServiceMax
  /\ LET last == Eop[TxActQueue[1]]
         k    == CHOOSE i \in DOMAIN TxActQueue : TxActQueue[i] = last
         rest == SubSeq(TxActQueue, k + 1, Len(TxActQueue))
     IN  /\ txInt' = (txInt /\ cp # last)
         /\ TxActQueue' = rest
         /\ TcbPool' = PushTcbs(k)
         /\ MisqueueRestart(last, rest)
         /\ TxActive' = ActiveAfter(last, rest)
         /\ returned' = Append(returned,
                               <<OsInfo[TxActQueue[1]], ~Own[TxActQueue[1]]>>)
  /\ PacketsServiced' = PacketsServiced + 1
  /\ UNCHANGED <<TxIntThreshold, tcbs, pc, pTailTcb, pCurrentTcb, caller,
                 cp, txMask, armed, tasklet, nSend>>

\* Mutant: halSend() does not reload its threshold.
TxIntReturnNoReload(MoreWork) ==
  /\ pc' = "idle"
  /\ TxIntThreshold' = TxIntThreshold
  /\ tasklet' = (tasklet \/ (caller = "isr" /\ MoreWork))
  /\ armed' = (armed \/ (caller = "isr" /\ ~MoreWork))

\* Mutant: the tasklet does not write the EOI.
TxIntReturnNoEoi(MoreWork) ==
  /\ pc' = "idle"
  /\ TxIntThreshold' = IF caller = "send" THEN TxServiceMax ELSE TxIntThreshold
  /\ tasklet' = (tasklet \/ (caller = "isr" /\ MoreWork))
  /\ armed' = armed

\* Return to the caller.  halSend() resets its threshold and ignores MoreWork;
\* the tasklet runs again if there is more work, and writes the EOI if not.
TxIntReturn(MoreWork) ==
  /\ pc' = "idle"
  /\ TxIntThreshold' = IF caller = "send" THEN TxServiceMax ELSE TxIntThreshold
  /\ tasklet' = (tasklet \/ (caller = "isr" /\ MoreWork))
  /\ armed' = (armed \/ (caller = "isr" /\ ~MoreWork))

TxIntEnd ==
  /\ pc = "TxIntLoop"
  /\ ~(HeadDone /\ PacketsServiced < ServiceMax)
  /\ TxIntReturn(HeadDone)
  /\ PacketsServiced' = 0
  /\ UNCHANGED <<TcbPool, TxActQueue, TxActive, tcbs, pTailTcb, pCurrentTcb,
                 caller, dma, cp, txInt, txMask, hist>>

-----------------------------------------------------------------------------
(* Interrupt delivery: cpmac_hal_isr() schedules the tasklet; the tasklet  *)
(* calls halIsr(), which reads the interrupt vector.                       *)

cpmac_hal_isr ==
  /\ pc = "idle"
  /\ armed /\ txInt /\ txMask
  /\ armed' = FALSE
  /\ tasklet' = TRUE
  /\ UNCHANGED <<sw, tcbs, cpu, dma, cp, txInt, txMask, hist>>

halIsr ==
  /\ pc = "idle"
  /\ tasklet
  /\ tasklet' = FALSE
  /\ IF txInt /\ txMask
       THEN /\ txMask' = (txMask /\ ~TxIntDisable)
            /\ pc' = "TxInt"
            /\ caller' = "isr"
            /\ UNCHANGED armed
       ELSE /\ armed' = TRUE
            /\ UNCHANGED <<txMask, pc, caller>>
  /\ UNCHANGED <<sw, tcbs, pTailTcb, pCurrentTcb, PacketsServiced, dma, cp,
                 txInt, hist>>

-----------------------------------------------------------------------------
Hardware == HwFetch \/ HwNextFrag \/ HwComplete

Send == \E n \in 1 .. MaxFrags :
          halSendNoTcbs(n) \/ halSendFirst(n) \/ halSendLink(n)

\* The steps that finish what the CPU has begun.
Running == halSendTestEoq \/ ExitSend \/ TxIntBegin \/ TxIntPop \/ TxIntEnd

Next == Hardware \/ Send \/ Running \/ cpmac_hal_isr \/ halIsr

Spec == Init /\ [][Next]_vars

(* Fairness: the engine, a running handler, an asserted interrupt and a    *)
(* scheduled tasklet all make progress; the OS need never call Send().     *)
Fairness ==
  /\ WF_vars(Hardware)
  /\ WF_vars(Running)
  /\ WF_vars(cpmac_hal_isr)
  /\ WF_vars(halIsr)

FairSpec == Spec /\ Fairness

-----------------------------------------------------------------------------
(* Properties                                                              *)

\* Every variable has its type, for every value of the constants.
TypeOK ==
  /\ TcbPool \in Seq(Tcb) /\ TxActQueue \in Seq(Tcb)
  /\ TxActive \in BOOLEAN
  /\ TxIntThreshold \in 0 .. TxServiceMax
  /\ HNext \in [Tcb -> Ptr] /\ Eop \in [Tcb -> Ptr]
  /\ Own \in [Tcb -> BOOLEAN] /\ Eof \in [Tcb -> BOOLEAN]
  /\ Eoq \in [Tcb -> BOOLEAN]
  /\ OsInfo \in [Tcb -> 0 .. MaxSend]
  /\ pc \in {"idle", "testEoq", "exitSend", "TxInt", "TxIntLoop"}
  /\ pTailTcb \in Ptr /\ pCurrentTcb \in Ptr
  /\ caller \in {"send", "isr"}
  /\ PacketsServiced \in Nat
  /\ hwPtr \in Ptr /\ hwCur \in Ptr /\ hwLatch \in Ptr /\ hwSop \in Ptr
  /\ HostErr \in BOOLEAN
  /\ cp \in Ptr
  /\ txInt \in BOOLEAN /\ txMask \in BOOLEAN
  /\ armed \in BOOLEAN /\ tasklet \in BOOLEAN
  /\ nSend \in 0 .. MaxSend
  /\ returned \in Seq((0 .. MaxSend) \X BOOLEAN)

\* No TCB is lost and none is in two places: at every step of halSend() and
\* TxInt() each TCB of the channel is exactly once in the pool or in the
\* active queue.
TcbsConserved ==
  /\ Len(TcbPool) + Len(TxActQueue) = TxNumBuffers
  /\ \A i, j \in 1 .. Len(TcbPool) : TcbPool[i] = TcbPool[j] => i = j
  /\ \A i, j \in 1 .. Len(TxActQueue) : TxActQueue[i] = TxActQueue[j] => i = j
  /\ \A i \in 1 .. Len(TcbPool), j \in 1 .. Len(TxActQueue) :
       TcbPool[i] # TxActQueue[j]

\* The engine never holds a pointer to a TCB that is back in the pool, where
\* halSend() would overwrite it under the engine.
DmaOnlyActive ==
  \A t \in {hwPtr, hwCur, hwLatch, hwSop} \ {NULL} :
    \E i \in 1 .. Len(TxActQueue) : TxActQueue[i] = t

\* Neither halSend() nor TxInt() ever writes the HDP register of a running
\* channel, although both restart the engine after a misqueue (halSend on the
\* EOQ bit of the old tail, TxInt on the EOQ bit of a packet with a successor).
NoHostError == ~HostErr

\* A stopped engine with packets left is always a stop the driver can see:
\* the packet at which it stopped is still queued, done, and carries EOQ, or
\* halSend() is about to test that bit.  A restart written to neither place
\* would leave the queue stuck for good.
NoHiddenStall ==
  HwIdle /\ TxActQueue # <<>> =>
    \E i \in 1 .. Len(TxActQueue) : Eoq[TxActQueue[i]] /\ Eof[TxActQueue[i]]

\* TxActive says whether the queue is in use.  Were it TRUE over an empty
\* queue, halSendFirst would queue a packet and never start the engine.
ActiveIffQueued == TxActive <=> TxActQueue # <<>>

\* Position i of the active queue holds the first TCB of a packet.
SopAt(i) == i = 1 \/ Eof[TxActQueue[i - 1]]

\* The positions where a packet begins, and some positions in ascending order.
Sops == {i \in 1 .. Len(TxActQueue) : SopAt(i)}
Ascending(S) ==
  CHOOSE f \in [1 .. Cardinality(S) -> S] :
    \A j, k \in 1 .. Cardinality(S) : j < k => f[j] < f[k]

\* The queued packets, and how many of them have been on the wire.
Queued == [k \in 1 .. Cardinality(Sops) |-> OsInfo[TxActQueue[Ascending(Sops)[k]]]]
OnWire == Cardinality({i \in Sops : ~Own[TxActQueue[i]]})

\* Refinement: the ring, its two restart rules and its two callers of TxInt()
\* implement a FIFO channel that gives every packet back exactly once, in
\* order, and only after it was on the wire.
Fifo == INSTANCE TxFifo WITH queue <- Queued, wire <- OnWire, out <- returned

ImplementsFifo == Fifo!Spec

\* Every packet that Send() accepted reaches the wire, whatever the order of
\* links, fetches and completions: a queued packet does not stay unsent.
Unsent(p) == \E i \in 1 .. Len(TxActQueue) :
               OsInfo[TxActQueue[i]] = p /\ Own[TxActQueue[i]]
                 /\ (i = 1 \/ Eof[TxActQueue[i - 1]])

EveryPacketOnWire == \A p \in Pkt : Unsent(p) ~> ~Unsent(p)

\* With transmit interrupts on, every packet is given back to the OS and its
\* TCBs return to the pool even if no further packet is ever sent.
EveryPacketReturned ==
  \A p \in Pkt :
    (\E i \in 1 .. Len(TxActQueue) : OsInfo[TxActQueue[i]] = p) ~>
    (\E i \in 1 .. Len(returned) : returned[i][1] = p)

-----------------------------------------------------------------------------
(* The inductive invariant behind the safety properties.                   *)

\* No TCB at positions a .. b ends a packet.
NoEof(a, b) == \A m \in a .. b : ~Eof[TxActQueue[m]]

\* The queue is a sequence of whole packets, and the Eop field that TxInt()
\* follows from each SOP leads to the end of that packet.
PacketsWhole ==
  /\ TxActQueue # <<>> => Eof[TxActQueue[Len(TxActQueue)]]
  /\ \A i \in 1 .. Len(TxActQueue) :
       SopAt(i) => \E e \in i .. Len(TxActQueue) :
                     /\ Eop[TxActQueue[i]] = TxActQueue[e]
                     /\ Eof[TxActQueue[e]]
                     /\ NoEof(i, e - 1)

\* The hardware list follows the software list.
ChainFollowsQueue ==
  /\ \A i \in 1 .. Len(TxActQueue) - 1 : HNext[TxActQueue[i]] = TxActQueue[i + 1]
  /\ TxActQueue # <<>> => HNext[TxActQueue[Len(TxActQueue)]] = NULL

\* The engine has stopped, and says where unless it had nothing to do.
HwStopped(d) ==
  /\ hwPtr = NULL /\ hwCur = NULL /\ hwSop = NULL /\ hwLatch = NULL
  /\ TxActQueue # <<>> => d > 0 /\ Eoq[TxActQueue[d]]

\* The engine is about to fetch position c, of the packet after position d.
HwFetching(d, c) ==
  /\ hwPtr = TxActQueue[c] /\ hwCur = NULL /\ hwLatch = NULL
  /\ hwSop = IF c = d + 1 THEN NULL ELSE TxActQueue[d + 1]
  /\ NoEof(d + 1, c - 1)

\* The engine is sending position c, of the packet after position d.
HwSending(d, c) ==
  /\ hwPtr = NULL /\ hwCur = TxActQueue[c] /\ hwSop = TxActQueue[d + 1]
  /\ NoEof(d + 1, c - 1)
  /\ \/ hwLatch = NULL /\ Eof[TxActQueue[c]]
     \/ c < Len(TxActQueue) /\ hwLatch = TxActQueue[c + 1]

\* The engine is done with exactly the first d TCBs of the queue.
HwDoneTo(d) ==
  /\ d > 0 => Eof[TxActQueue[d]]
  /\ \A i \in 1 .. Len(TxActQueue) : SopAt(i) => (Own[TxActQueue[i]] <=> i > d)
  /\ \A i \in 1 .. Len(TxActQueue) : Eoq[TxActQueue[i]] => i = d /\ HwStopped(d)
  /\ \/ HwStopped(d)
     \/ \E c \in d + 1 .. Len(TxActQueue) : HwFetching(d, c) \/ HwSending(d, c)

HwInQueue == \E d \in 0 .. Len(TxActQueue) : HwDoneTo(d)

\* Between link and EOQ test halSend() holds two neighbours of the queue.
LinkLocals ==
  pc = "testEoq" =>
    \E j \in 1 .. Len(TxActQueue) - 1 :
      /\ pTailTcb = TxActQueue[j] /\ pCurrentTcb = TxActQueue[j + 1]
      /\ Eof[TxActQueue[j]]

\* The threshold is used up only on the way into TxInt().
ThresholdPositive ==
  TxIntThreshold = 0 => caller = "send" /\ pc \in {"TxInt", "TxIntLoop"}

IInv ==
  /\ TypeOK
  /\ TcbsConserved
  /\ PacketsWhole
  /\ ChainFollowsQueue
  /\ HwInQueue
  /\ LinkLocals
  /\ ThresholdPositive
  /\ ActiveIffQueued
  /\ NoHostError

=============================================================================

---------------------------- MODULE CppiRxProofs ----------------------------
(***************************************************************************)
(* The safety of the receive ring, for every number of RCBs, buffers,      *)
(* fragments and packets, every service limit and every length of the      *)
(* Needs list, with allocations that fail and frames that the callback     *)
(* drops.                                                                  *)
(*                                                                         *)
(* A life of the channel goes from an opening until RxTeardownInt() has    *)
(* handled a teardown (Alive).  In a life the invariant (Inv) says where   *)
(* each RCB is (Places), whose its buffer is (Held), how the RCBs of the   *)
(* queue and those in hand are linked and marked (Linked, Marked), and     *)
(* that there is a position d in the queue up to which the packets are     *)
(* complete, such that the engine works right behind it (Packets, Engine)  *)
(* and the buffers hold what the engine wrote (Filled).  Between two lives *)
(* the lists are empty, and each RCB that will be used again has a buffer  *)
(* of its own (Shut).                                                      *)
(*                                                                         *)
(* The first life needs no condition (Invariance).  A later one inherits   *)
(* what the close before it left, so it is as good as the first where the  *)
(* close found no RCB dropped or waiting for a buffer (CleanClose,         *)
(* EveryLife); ClosesAreClean says what makes a close such a one although  *)
(* allocations fail while packets arrive.                                  *)
(***************************************************************************)
EXTENDS CppiRx, SequenceTheorems, FiniteSetTheorems, TLAPS

-----------------------------------------------------------------------------
(* The invariant.                                                          *)

\* The device is open or being opened: no teardown has been handled since.
Alive == pc # "closed" /\ (closing => ChIsOpen)

\* Until the first teardown has been handled.
FirstLife == opens <= 1 /\ (opens = 1 => Alive)

\* A teardown is requested by a close, and only of a device that was opened.
Closes ==
  /\ RxTeardownPending # "none" => closing /\ ChIsOpen
  /\ closing /\ ~ChIsOpen => pc = "idle"
  /\ opens \in Nat
  /\ opens = 0 => pc = "closed" /\ ~closing

\* The engine has answered the teardown that is pending.
Answered == RxTeardownPending # "none" /\ ~hwTd

N == Len(RxActQueue)

Inj(s) == \A i, j \in 1 .. Len(s) : s[i] = s[j] => i = j

\* The run that is ready to be queued, until it is part of the queue.
Hand == IF pc = "TestEoq" THEN <<>> ELSE good

Handling == {"NeedsCheck", "RxTop", "RxInt", "Receive", "RxReturn"}

InitRcbAdds == pc \in {"AddToRxQueue", "TestEoq"} /\ caller = "InitRcb"

\* The types of the ring, and of the flags around it.
RingTypes ==
  /\ RcbPool \in Seq(Rcb) /\ RxActQueue \in Seq(Rcb) /\ Needs \in Seq(Rcb)
  /\ chain \in Seq(Rcb) /\ good \in Seq(Rcb)
  /\ Len(Needs) <= MaxNeeds
  /\ HNext \in [Rcb -> Ptr]
  /\ Own \in [Rcb -> BOOLEAN] /\ Eof \in [Rcb -> BOOLEAN] /\ Eoq \in [Rcb -> BOOLEAN]
  /\ Dat \in [Rcb -> Buf \cup {NULL}]
  /\ owner \in [Buf -> {"free", "hal", "os"}]
  /\ data \in [Buf -> (0 .. MaxPkt) \X (0 .. MaxFrags)]
  /\ OldTailRcb \in Ptr /\ hwPtr \in Ptr /\ hwCur \in Ptr /\ hwLatch \in Ptr /\ hwSop \in Ptr
  /\ hwFrag \in 0 .. MaxFrags - 1
  /\ nRcb \in 0 .. RxNumBuffers
  /\ nRecv \in 0 .. MaxPkt
  /\ delivered \in Seq(Seq((0 .. MaxPkt) \X (0 .. MaxFrags)))
  /\ discarded \subseteq 0 .. MaxPkt
  /\ lost \subseteq Rcb

Pcs == {"closed", "Malloc", "InitRcb", "OpenEnd", "idle", "NeedsCheck", "RxTop", "RxInt",
        "Receive", "RxReturn", "AddToRxQueue", "TestEoq"}

FlagTypes ==
  /\ pc \in Pcs
  /\ caller \in {"InitRcb", "NeedsCheck", "RxInt"}
  /\ cp \in Ptr \cup {TEARDOWN_VAL}
  /\ PacketsServiced \in 0 .. RxServiceMax
  /\ RxTeardownPending \in {"none", "full", "partial"}
  /\ opens \in 0 .. MaxOpens
  /\ stale \in 0 .. MaxNeeds
  /\ RxActive \in BOOLEAN /\ failed \in BOOLEAN /\ hwTd \in BOOLEAN /\ HostErr \in BOOLEAN
  /\ MiiEn \in BOOLEAN /\ rxInt \in BOOLEAN /\ armed \in BOOLEAN /\ tasklet \in BOOLEAN
  /\ RcbStart \in BOOLEAN /\ ChIsOpen \in BOOLEAN /\ closing \in BOOLEAN
  /\ foreignFree \in BOOLEAN /\ usedFreed \in BOOLEAN

\* Where the CPU is, and what it has in hand there.
Stage ==
  /\ pc \in Handling \cup {"AddToRxQueue", "TestEoq"} \/ (chain = <<>> /\ good = <<>>)
  /\ pc \in {"NeedsCheck", "RxTop", "RxInt"} => chain = <<>> /\ good = <<>>
  /\ pc = "Receive" => chain # <<>> /\ good = <<>>
  /\ pc = "RxReturn" => chain # <<>> /\ caller # "InitRcb"
  /\ pc \in {"AddToRxQueue", "TestEoq"} => good # <<>>
  /\ InitRcbAdds => chain = <<>>
  /\ pc = "Malloc" => nRcb < RxNumBuffers /\ lost = {}
  /\ pc \in {"Malloc", "InitRcb", "OpenEnd"} => caller = "InitRcb"
  /\ RxActive <=> N > 0
  /\ \/ pc \in Handling \ {"NeedsCheck", "RxTop"}
     \/ pc \in {"AddToRxQueue", "TestEoq"} /\ ~InitRcbAdds
     => N > 0
  /\ rxInt \/ pc \in {"NeedsCheck", "RxTop"} => N > 0 \/ Answered
  /\ N = 0 => Needs = <<>> /\ (Answered => cp = TEARDOWN_VAL)
  /\ pc = "TestEoq" => \E k \in 1 .. N - 1 : OldTailRcb = RxActQueue[k] /\ good[1] = RxActQueue[k + 1]
  /\ ~HostErr /\ ~foreignFree

Places ==
  /\ Inj(RcbPool) /\ Inj(RxActQueue) /\ Inj(Needs) /\ Inj(chain) /\ Inj(Hand)
  /\ RcbsOf(RcbPool) \cap RcbsOf(RxActQueue) = {}
  /\ RcbsOf(RcbPool) \cap RcbsOf(Needs) = {}
  /\ RcbsOf(RcbPool) \cap RcbsOf(chain) = {}
  /\ RcbsOf(RcbPool) \cap RcbsOf(Hand) = {}
  /\ RcbsOf(RxActQueue) \cap RcbsOf(Needs) = {}
  /\ RcbsOf(RxActQueue) \cap RcbsOf(chain) = {}
  /\ RcbsOf(RxActQueue) \cap RcbsOf(Hand) = {}
  /\ RcbsOf(Needs) \cap RcbsOf(chain) = {}
  /\ RcbsOf(Needs) \cap RcbsOf(Hand) = {}
  /\ RcbsOf(chain) \cap RcbsOf(Hand) = {}
  /\ RcbsOf(RcbPool) \cup RcbsOf(RxActQueue) \cup RcbsOf(Needs) \cup RcbsOf(chain)
       \cup RcbsOf(Hand) = (1 .. nRcb) \ lost

\* RCBs whose buffer is the driver's.
HeldRcbs ==
  RcbsOf(RcbPool) \cup RcbsOf(RxActQueue) \cup RcbsOf(Hand)
    \cup (IF pc = "Receive" THEN RcbsOf(chain) ELSE {})

Held ==
  /\ \A r \in HeldRcbs : Dat[r] \in Buf /\ owner[Dat[r]] = "hal"
  /\ \A r, s \in HeldRcbs : Dat[r] = Dat[s] => r = s
  /\ \A b \in Buf : owner[b] = "hal" => \E r \in HeldRcbs : Dat[r] = b

Linked ==
  /\ \A i \in 1 .. N - 1 : HNext[RxActQueue[i]] = RxActQueue[i + 1]
  /\ N > 0 => HNext[RxActQueue[N]] = NULL
  /\ \A i \in 1 .. Len(chain) - 1 : HNext[chain[i]] = chain[i + 1]
  /\ chain # <<>> /\ pc # "Receive" => HNext[chain[Len(chain)]] = NULL
  /\ \A i \in 1 .. Len(Hand) - 1 : HNext[Hand[i]] = Hand[i + 1]
  /\ pc = "RxReturn" /\ good # <<>> => HNext[good[Len(good)]] = chain[1]
  /\ pc = "AddToRxQueue" => HNext[good[Len(good)]] = NULL

\* An RCB that the engine has not filled.
Fresh(r) == Own[r] /\ ~Eof[r] /\ ~Eoq[r]

Marked ==
  /\ \A i \in 1 .. Len(Hand) : Fresh(Hand[i])
  /\ \A i \in 1 .. Len(chain) :
       pc # "Receive" \/ (1 < i /\ i < Len(chain)) => Fresh(chain[i])

\* The packets up to position d of the queue are complete.
SopAt(i) == i = 1 \/ Eof[RxActQueue[i - 1]]
NoEof(i, j) == \A k \in i .. j : ~Eof[RxActQueue[k]]

Packets(d) ==
  /\ d > 0 => Eof[RxActQueue[d]]
  /\ NoEof(d + 1, N)
  /\ \A i \in 1 .. N : Own[RxActQueue[i]] <=> ~(SopAt(i) /\ i <= d)
  /\ \A i \in 1 .. d : SopAt(i) => \E e \in i .. d : Eof[RxActQueue[e]] /\ NoEof(i, e - 1)
  /\ \A i \in 1 .. N : Eoq[RxActQueue[i]] => i = d

\* The engine has filled hwFrag buffers behind position d.  It stops at the end of
\* the queue, which leaves EOQ in the RCB, or when it answers a teardown.
HwStopped(d) ==
  /\ hwPtr = NULL /\ hwCur = NULL /\ hwLatch = NULL
  /\ hwFrag = 0
  /\ N > 0 => (d > 0 /\ Eoq[RxActQueue[d]]) \/ (Answered /\ d < N)

HwRunning(d) ==
  LET c == d + hwFrag + 1 IN
  /\ c \in 1 .. N
  /\ \/ hwPtr = RxActQueue[c] /\ hwCur = NULL /\ hwLatch = NULL
     \/ /\ hwPtr = NULL /\ hwCur = RxActQueue[c]
        /\ hwLatch = NULL \/ (c < N /\ hwLatch = RxActQueue[c + 1])
  /\ \A i \in 1 .. N : ~Eoq[RxActQueue[i]]

Engine(d) ==
  /\ hwSop = IF hwFrag = 0 THEN NULL ELSE RxActQueue[d + 1]
  /\ HwStopped(d) \/ HwRunning(d)

\* What is in the buffer of an RCB, and how much of the queue is filled.
In(r) == data[Dat[r]]
Fills(d) == 1 .. d + hwFrag

\* The fragments of each packet are in order, and so are the packets; those that
\* were delivered or discarded came before.
Filled(d) ==
  /\ \A i, j \in Fills(d) : SopAt(i) /\ i <= j /\ NoEof(i, j - 1) =>
       In(RxActQueue[j]) = <<In(RxActQueue[i])[1], j - i + 1>>
  /\ \A i, j \in Fills(d) : SopAt(i) /\ SopAt(j) /\ i < j =>
       In(RxActQueue[i])[1] < In(RxActQueue[j])[1]
  /\ \A i \in Fills(d) : In(RxActQueue[i])[1] <= nRecv
  /\ hwFrag > 0 => In(RxActQueue[d + 1])[1] = nRecv

Past(n) ==
  /\ \A k \in 1 .. Len(delivered) : delivered[k][1][1] \in Nat /\ delivered[k][1][1] < n
  /\ \A x \in discarded : x < n

InHandIntact ==
  pc = "Receive" =>
    /\ \A k \in 1 .. Len(chain) : In(chain[k]) = <<In(chain[1])[1], k>>
    /\ Past(In(chain[1])[1]) /\ In(chain[1])[1] <= nRecv

Ordered(d) ==
  /\ Past(nRecv + 1)
  /\ \A i \in Fills(d) : SopAt(i) =>
       /\ Past(In(RxActQueue[i])[1])
       /\ pc = "Receive" => In(chain[1])[1] < In(RxActQueue[i])[1]

Ring(d) == Packets(d) /\ Engine(d) /\ Filled(d) /\ Ordered(d)

Inv ==
  /\ RingTypes /\ FlagTypes
  /\ Stage /\ Places /\ Held /\ Linked /\ Marked
  /\ InHandIntact /\ DeliveredIntact
  /\ \E d \in 0 .. N : Ring(d)

\* The engine is asked for a teardown, and answers it, only while one is pending.
Asked ==
  /\ hwTd => RxTeardownPending # "none"
  /\ cp = TEARDOWN_VAL => Answered

\* Only halOpen() runs on a channel that is not open yet.
Opening ==
  /\ ~ChIsOpen => pc \in {"Malloc", "InitRcb", "OpenEnd"} \/ InitRcbAdds
  /\ pc = "Malloc" => RcbStart

\* An RCB that InitRcb() has not set up has no buffer.
Unset ==
  /\ RcbStart \/ nRcb = 0
  /\ \A r \in Rcb : r > nRcb => Dat[r] = NULL

\* While the device is closed the module is held in reset.
HwHeld == pc = "closed" => hwPtr = NULL /\ hwCur = NULL /\ hwLatch = NULL /\ hwSop = NULL

\* The device is closed, or the process that closes it has yet to wake up and the
\* engine may still be running.  Either there are no RCBs and the driver has no
\* buffer, or each RCB has one of its own.
Shut ==
  /\ RingTypes /\ FlagTypes
  /\ RcbPool = <<>> /\ RxActQueue = <<>> /\ Needs = <<>> /\ chain = <<>> /\ good = <<>>
  /\ lost = {} /\ ~RxActive /\ pc \in {"closed", "idle"}
  /\ ~ChIsOpen /\ RxTeardownPending = "none" /\ ~hwTd
  /\ ~HostErr /\ ~foreignFree /\ HwHeld
  /\ IF RcbStart
       THEN /\ nRcb = RxNumBuffers
            /\ \A r \in Rcb : Dat[r] \in Buf /\ owner[Dat[r]] = "hal"
            /\ \A r, s \in Rcb : Dat[r] = Dat[s] => r = s
            /\ \A b \in Buf : owner[b] = "hal" => \E r \in Rcb : Dat[r] = b
       ELSE \A b \in Buf : owner[b] # "hal"
  /\ DeliveredIntact /\ Past(nRecv + 1)

Lives ==
  /\ Closes
  /\ Alive => Inv /\ Asked /\ Opening /\ Unset
  /\ ~Alive => Shut

\* What RxTeardownInt() finds: no RCB was dropped, and none waits for a buffer; and
\* RCBs that are to be used again have all been set up.
CleanClose ==
  pc = "RxTop" /\ TeardownSeen =>
    /\ lost = {} /\ Needs = <<>>
    /\ RxTeardownPending = "partial" /\ RcbStart => nRcb = RxNumBuffers

IInv == Closes /\ (FirstLife => Lives)

-----------------------------------------------------------------------------
(* The first life is left and never entered again.                         *)

\* A close is requested before a teardown, and only the teardown clears ChIsOpen.
LEMMA ClosesStep == Closes /\ [Next]_vars => Closes'
<1>. SUFFICES ASSUME Closes, [Next]_vars PROVE Closes'
  OBVIOUS
<1>. USE DEF dma, dev, chan, cpu, intr, free
<1>1. CASE UNCHANGED vars
  BY <1>1 DEF vars, Closes
<1>2. CASE HwFetch
  BY <1>2 DEF HwFetch, Closes
<1>3. CASE HwTeardown
  BY <1>3 DEF HwTeardown, Closes
<1>4. ASSUME NEW last \in BOOLEAN, HwFill(last) PROVE Closes'
  BY <1>4 DEF HwFill, Closes
<1>5. CASE cpmac_hal_isr
  BY <1>5 DEF cpmac_hal_isr, Closes
<1>6. CASE halIsr
  BY <1>6 DEF halIsr, Closes
<1>7. CASE InitRcbNew
  BY <1>7 DEF InitRcbNew, ChannelReset, HwReset, Closes
<1>8. CASE InitRcbReuse
  BY <1>8 DEF InitRcbReuse, ChannelReset, HwReset, Closes
<1>9. CASE cpmac_p_dev_disable
  BY <1>9 DEF cpmac_p_dev_disable, Closes
<1>10. ASSUME NEW b \in Buf, OsFree(b) PROVE Closes'
  BY <1>10 DEF OsFree, Closes
<1>11. CASE InitRcbBuffer
  BY <1>11 DEF InitRcbBuffer, Closes
<1>12. CASE InitRcbFail
  BY <1>12 DEF InitRcbFail, Closes
<1>13. CASE InitRcb
  BY <1>13 DEF InitRcb, Closes
<1>14. CASE halOpenEnd
  BY <1>14 DEF halOpenEnd, Closes
<1>15. CASE NeedsCheck
  BY <1>15 DEF NeedsCheck, RxReturn, Closes
<1>16. CASE NeedsCheckEnd
  BY <1>16 DEF NeedsCheckEnd, Closes
<1>17. CASE RxIntNoTeardown
  BY <1>17 DEF RxIntNoTeardown, Closes
<1>18. CASE RxReturnGood
  BY <1>18 DEF RxReturnGood, Closes
<1>19. CASE RxReturnFail
  BY <1>19 DEF RxReturnFail, Continue, Closes
<1>20. CASE AddToRxQueueFirst
  BY <1>20 DEF AddToRxQueueFirst, Continue, WriteHDP, Closes
<1>21. CASE AddToRxQueueLink
  BY <1>21 DEF AddToRxQueueLink, Closes
<1>22. CASE AddToRxQueueTestEoq
  BY <1>22 DEF AddToRxQueueTestEoq, Continue, WriteHDP, Closes
<1>23. CASE RxIntRecycle
  BY <1>23 DEF RxIntRecycle, RxIntReturn, WriteHDP, Closes
<1>24. CASE RxIntDequeue
  BY <1>24 DEF RxIntDequeue, MisqueueRestart, WriteHDP, Closes
<1>25. CASE RxIntEnd
  BY <1>25 DEF RxIntEnd, RxIntReturn, Closes
<1>26. CASE ReceiveUp
  BY <1>26 DEF ReceiveUp, RxReturn, Closes
<1>27. CASE ReceiveDrop
  BY <1>27 DEF ReceiveDrop, Closes
<1>28. CASE halChannelTeardown
  BY <1>28 DEF halChannelTeardown, Closes
<1>29. CASE RxTeardownInt
  BY <1>29 DEF RxTeardownInt, RxIntReturn, TeardownSeen, Closes
<1>30. CASE halClose
  BY <1>30 DEF halClose, HwReset, Closes
<1>. QED
  BY <1>1, <1>2, <1>3, <1>4, <1>5, <1>6, <1>7, <1>8, <1>9, <1>10,
     <1>11, <1>12, <1>13, <1>14, <1>15, <1>16, <1>17, <1>18, <1>19, <1>20,
     <1>21, <1>22, <1>23, <1>24, <1>25, <1>26, <1>27, <1>28, <1>29, <1>30
  DEF Next, Hardware, Running

\* Nothing brings the first life back, neither the end of a close nor the next
\* opening; and RxTeardownInt() ends it.
LEMMA FirstLifeBack ==
  Closes /\ [Next]_vars /\ FirstLife' => FirstLife /\ ~RxTeardownInt
<1>. SUFFICES ASSUME Closes, [Next]_vars, FirstLife' PROVE FirstLife /\ ~RxTeardownInt
  OBVIOUS
<1>29. ~RxTeardownInt
  BY DEF RxTeardownInt, RxIntReturn, TeardownSeen, Closes, FirstLife, Alive
<1>. USE DEF dma, dev, chan, cpu, intr, free
<1>. SUFFICES FirstLife
  BY <1>29
<1>1. CASE UNCHANGED vars
  BY <1>1 DEF vars, Closes, FirstLife, Alive
<1>2. CASE HwFetch
  BY <1>2 DEF HwFetch, Closes, FirstLife, Alive
<1>3. CASE HwTeardown
  BY <1>3 DEF HwTeardown, Closes, FirstLife, Alive
<1>4. ASSUME NEW last \in BOOLEAN, HwFill(last) PROVE FirstLife
  BY <1>4 DEF HwFill, Closes, FirstLife, Alive
<1>5. CASE cpmac_hal_isr
  BY <1>5 DEF cpmac_hal_isr, Closes, FirstLife, Alive
<1>6. CASE halIsr
  BY <1>6 DEF halIsr, Closes, FirstLife, Alive
<1>7. CASE InitRcbNew
  BY <1>7 DEF InitRcbNew, ChannelReset, HwReset, Closes, FirstLife, Alive
<1>8. CASE InitRcbReuse
  BY <1>8 DEF InitRcbReuse, ChannelReset, HwReset, Closes, FirstLife, Alive
<1>9. CASE cpmac_p_dev_disable
  BY <1>9 DEF cpmac_p_dev_disable, Closes, FirstLife, Alive
<1>10. ASSUME NEW b \in Buf, OsFree(b) PROVE FirstLife
  BY <1>10 DEF OsFree, Closes, FirstLife, Alive
<1>11. CASE InitRcbBuffer
  BY <1>11 DEF InitRcbBuffer, Closes, FirstLife, Alive
<1>12. CASE InitRcbFail
  BY <1>12 DEF InitRcbFail, Closes, FirstLife, Alive
<1>13. CASE InitRcb
  BY <1>13 DEF InitRcb, Closes, FirstLife, Alive
<1>14. CASE halOpenEnd
  BY <1>14 DEF halOpenEnd, Closes, FirstLife, Alive
<1>15. CASE NeedsCheck
  BY <1>15 DEF NeedsCheck, RxReturn, Closes, FirstLife, Alive
<1>16. CASE NeedsCheckEnd
  BY <1>16 DEF NeedsCheckEnd, Closes, FirstLife, Alive
<1>17. CASE RxIntNoTeardown
  BY <1>17 DEF RxIntNoTeardown, Closes, FirstLife, Alive
<1>18. CASE RxReturnGood
  BY <1>18 DEF RxReturnGood, Closes, FirstLife, Alive
<1>19. CASE RxReturnFail
  BY <1>19 DEF RxReturnFail, Continue, Closes, FirstLife, Alive
<1>20. CASE AddToRxQueueFirst
  BY <1>20 DEF AddToRxQueueFirst, Continue, WriteHDP, Closes, FirstLife, Alive
<1>21. CASE AddToRxQueueLink
  BY <1>21 DEF AddToRxQueueLink, Closes, FirstLife, Alive
<1>22. CASE AddToRxQueueTestEoq
  BY <1>22 DEF AddToRxQueueTestEoq, Continue, WriteHDP, Closes, FirstLife, Alive
<1>23. CASE RxIntRecycle
  BY <1>23 DEF RxIntRecycle, RxIntReturn, WriteHDP, Closes, FirstLife, Alive
<1>24. CASE RxIntDequeue
  BY <1>24 DEF RxIntDequeue, MisqueueRestart, WriteHDP, Closes, FirstLife, Alive
<1>25. CASE RxIntEnd
  BY <1>25 DEF RxIntEnd, RxIntReturn, Closes, FirstLife, Alive
<1>26. CASE ReceiveUp
  BY <1>26 DEF ReceiveUp, RxReturn, Closes, FirstLife, Alive
<1>27. CASE ReceiveDrop
  BY <1>27 DEF ReceiveDrop, Closes, FirstLife, Alive
<1>28. CASE halChannelTeardown
  BY <1>28, RxAssumption DEF halChannelTeardown, Closes, FirstLife, Alive
<1>30. CASE halClose
  BY <1>30 DEF halClose, HwReset, Closes, FirstLife, Alive
<1>. QED
  BY <1>1, <1>2, <1>3, <1>4, <1>5, <1>6, <1>7, <1>8, <1>9, <1>10,
     <1>11, <1>12, <1>13, <1>14, <1>15, <1>16, <1>17, <1>18, <1>19, <1>20,
     <1>21, <1>22, <1>23, <1>24, <1>25, <1>26, <1>27, <1>28, <1>29, <1>30
  DEF Next, Hardware, Running

-----------------------------------------------------------------------------
(* The list operations of the driver, by position.                         *)

\* A list cut behind position n: RxInt() dequeues a packet, NeedsCheck() takes
\* the last entry of the Needs list.
LEMMA Cut ==
  ASSUME NEW S, NEW q \in Seq(S), NEW n \in 0 .. Len(q)
  PROVE  /\ SubSeq(q, 1, n) \in Seq(S)
         /\ Len(SubSeq(q, 1, n)) = n
         /\ \A i \in 1 .. n : SubSeq(q, 1, n)[i] = q[i]
         /\ SubSeq(q, n + 1, Len(q)) \in Seq(S)
         /\ Len(SubSeq(q, n + 1, Len(q))) = Len(q) - n
         /\ \A i \in 1 .. Len(q) - n : SubSeq(q, n + 1, Len(q))[i] = q[n + i]
<1>1. Len(q) \in Nat /\ n \in Int /\ \A i \in 1 .. Len(q) : q[i] \in S
  BY SMT
<1>2. \A i \in 1 .. n : q[i] \in S
  BY <1>1
<1>3. \A i \in n + 1 .. Len(q) : q[i] \in S
  BY <1>1
<1>4. /\ SubSeq(q, 1, n) \in Seq(S)
      /\ Len(SubSeq(q, 1, n)) = IF 1 <= n THEN n - 1 + 1 ELSE 0
      /\ \A i \in 1 .. n - 1 + 1 : SubSeq(q, 1, n)[i] = q[1 + i - 1]
  BY <1>1, <1>2, SubSeqProperties, SMT
<1>5. /\ SubSeq(q, n + 1, Len(q)) \in Seq(S)
      /\ Len(SubSeq(q, n + 1, Len(q))) = IF n + 1 <= Len(q) THEN Len(q) - (n + 1) + 1 ELSE 0
      /\ \A i \in 1 .. Len(q) - (n + 1) + 1 :
           SubSeq(q, n + 1, Len(q))[i] = q[(n + 1) + i - 1]
  BY <1>1, <1>3, SubSeqProperties, SMT
<1>. QED
  BY <1>1, <1>4, <1>5

\* A run that AddToRxQueue() puts behind the queue.
LEMMA Joined ==
  ASSUME NEW S, NEW q \in Seq(S), NEW t \in Seq(S)
  PROVE  /\ q \o t \in Seq(S)
         /\ Len(q \o t) = Len(q) + Len(t)
         /\ \A i \in 1 .. Len(q) : (q \o t)[i] = q[i]
         /\ \A i \in 1 .. Len(t) : (q \o t)[Len(q) + i] = t[i]
<1>1. Len(q) \in Nat /\ Len(t) \in Nat
  BY SMT
<1>2. /\ q \o t \in Seq(S)
      /\ Len(q \o t) = Len(q) + Len(t)
      /\ \A i \in 1 .. Len(q) + Len(t) : (q \o t)[i] =
                     IF i <= Len(q) THEN q[i] ELSE t[i - Len(q)]
  BY ConcatProperties
<1>. QED
  BY <1>1, <1>2

\* The first RCB of a chain or of the pool goes.
LEMMA Rest ==
  ASSUME NEW S, NEW q \in Seq(S), q # <<>>
  PROVE  /\ Len(q) >= 1 /\ q[1] \in S
         /\ Tail(q) \in Seq(S)
         /\ Len(Tail(q)) = Len(q) - 1
         /\ \A i \in 1 .. Len(q) - 1 : Tail(q)[i] = q[i + 1]
  BY HeadTailProperties, EmptySeq, LenProperties

\* An RCB goes behind a list.
LEMMA Appended ==
  ASSUME NEW S, NEW q \in Seq(S), NEW x \in S
  PROVE  /\ Append(q, x) \in Seq(S)
         /\ Len(Append(q, x)) = Len(q) + 1
         /\ \A i \in 1 .. Len(q) : Append(q, x)[i] = q[i]
         /\ Append(q, x)[Len(q) + 1] = x
  BY AppendProperties, LenProperties

\* A list of one RCB.
LEMMA Single ==
  ASSUME NEW x
  PROVE  <<x>> \in Seq({x}) /\ Len(<<x>>) = 1 /\ <<x>>[1] = x /\ RcbsOf(<<x>>) = {x} /\ Inj(<<x>>)
  BY DEF RcbsOf, Inj

\* The RCBs of a list are those at its positions.
LEMMA Member ==
  ASSUME NEW q, NEW i \in 1 .. Len(q)
  PROVE  q[i] \in RcbsOf(q)
  BY DEF RcbsOf

\* The null pointer is no RCB.
LEMMA NullIsNoRcb == NULL \notin Rcb
  BY RxAssumption DEF NULL, Rcb

-----------------------------------------------------------------------------
(* Steps that leave the ring alone.                                        *)

Calm == {"closed", "Malloc", "InitRcb", "OpenEnd", "idle", "NeedsCheck", "RxTop", "RxInt"}

\* No list changes.
LEMMA PlacesKept ==
  ASSUME Places, UNCHANGED <<RcbPool, RxActQueue, Needs, chain, nRcb, lost>>, Hand' = Hand
  PROVE  Places'
<1>1. /\ RcbsOf(RcbPool)' = RcbsOf(RcbPool) /\ RcbsOf(RxActQueue)' = RcbsOf(RxActQueue)
      /\ RcbsOf(Needs)' = RcbsOf(Needs) /\ RcbsOf(chain)' = RcbsOf(chain)
      /\ RcbsOf(Hand)' = RcbsOf(Hand)
  BY DEF RcbsOf
<1>2. /\ Inj(RcbPool)' <=> Inj(RcbPool)
      /\ Inj(RxActQueue)' <=> Inj(RxActQueue)
      /\ Inj(Needs)' <=> Inj(Needs)
      /\ Inj(chain)' <=> Inj(chain)
      /\ Inj(Hand)' <=> Inj(Hand)
  BY DEF Inj
<1>. QED BY <1>1, <1>2 DEF Places

\* The RCBs of the queue keep their marks and what is in their buffers.
QueueKept ==
  /\ UNCHANGED <<RxActQueue, hwFrag, nRecv>>
  /\ \A i \in 1 .. N : LET r == RxActQueue[i] IN
       /\ Own'[r] = Own[r] /\ Eof'[r] = Eof[r] /\ Eoq'[r] = Eoq[r]
       /\ data'[Dat'[r]] = data[Dat[r]]

\* Then the packets stay complete and intact.
LEMMA RingKept ==
  ASSUME RingTypes, NEW d \in 0 .. N, Packets(d), Engine(d), Filled(d), QueueKept
  PROVE  Packets(d)' /\ Filled(d)' /\ N' = N
<1>1. N' = N /\ N \in Nat /\ hwFrag \in Nat /\ RxActQueue' = RxActQueue
  BY RxAssumption DEF N, RingTypes, QueueKept
<1>2. Packets(d)'
  BY <1>1 DEF Packets, SopAt, NoEof, QueueKept
<1>4. d + hwFrag <= N
  BY <1>1 DEF Engine, HwStopped, HwRunning
<1>5. \A i \in 1 .. d + hwFrag : In(RxActQueue[i])' = In(RxActQueue[i])
  BY <1>1, <1>4 DEF In, QueueKept
<1>6. Fills(d)' = 1 .. d + hwFrag /\ Fills(d) = 1 .. d + hwFrag
  BY DEF Fills, QueueKept
<1>7. \A i \in 1 .. N : SopAt(i)' <=> SopAt(i)
  BY <1>1 DEF SopAt, QueueKept
<1>8. \A i, j \in 1 .. N : NoEof(i, j - 1)' <=> NoEof(i, j - 1)
  BY <1>1 DEF NoEof, QueueKept
<1>9. hwFrag' = hwFrag /\ nRecv' = nRecv
  BY DEF QueueKept
<1>10. Filled(d)'
  BY SMTT(30), <1>1, <1>4, <1>5, <1>6, <1>7, <1>8, <1>9 DEF Filled
<1>. QED BY <1>1, <1>2, <1>10

\* An engine that stands still stays where it is.
LEMMA EngineKept ==
  ASSUME RingTypes, NEW d \in 0 .. N, Engine(d), QueueKept,
         UNCHANGED <<hwPtr, hwCur, hwLatch, hwSop>>, Answered => Answered'
  PROVE  Engine(d)'
<1>1. N' = N /\ N \in Nat /\ hwFrag \in Nat /\ RxActQueue' = RxActQueue
  BY RxAssumption DEF N, RingTypes, QueueKept
<1>. QED BY <1>1 DEF Engine, HwStopped, HwRunning, QueueKept

\* The same with the packets that were delivered or discarded.
LEMMA OrderKept ==
  ASSUME RingTypes, NEW d \in 0 .. N, Engine(d), Ordered(d), QueueKept,
         UNCHANGED <<delivered, discarded>>,
         pc' = "Receive" => pc = "Receive" /\ In(chain[1])' = In(chain[1])
  PROVE  Ordered(d)'
<1>1. N' = N /\ N \in Nat /\ hwFrag \in Nat /\ RxActQueue' = RxActQueue
  BY RxAssumption DEF N, RingTypes, QueueKept
<1>4. d + hwFrag <= N
  BY <1>1 DEF Engine, HwStopped, HwRunning
<1>5. \A i \in 1 .. d + hwFrag : In(RxActQueue[i])' = In(RxActQueue[i])
  BY <1>1, <1>4 DEF In, QueueKept
<1>6. Fills(d)' = 1 .. d + hwFrag /\ Fills(d) = 1 .. d + hwFrag
  BY DEF Fills, QueueKept
<1>7. \A i \in 1 .. N : SopAt(i)' <=> SopAt(i)
  BY <1>1 DEF SopAt, QueueKept
<1>8. \A i \in 1 .. d + hwFrag : Past(In(RxActQueue[i])[1])' <=> Past(In(RxActQueue[i])[1])
  BY <1>5 DEF Past
<1>9. Past(nRecv + 1)'
  BY DEF Past, Ordered, QueueKept
<1>. QED BY <1>1, <1>4, <1>5, <1>6, <1>7, <1>8, <1>9 DEF Ordered

\* The rest of the invariant follows when neither a list, an RCB, a buffer nor
\* the engine changes, and the CPU goes on with nothing in hand.
LEMMA Quiet ==
  ASSUME Inv, pc' = pc \/ (pc \in Calm /\ pc' \in Calm), FlagTypes', Stage', Held',
         owner' \in [Buf -> {"free", "hal", "os"}],
         UNCHANGED <<RcbPool, RxActQueue, Needs, HNext, modes, Dat, data, chain, good,
                     OldTailRcb, hwPtr, hwCur, hwLatch, hwSop, hwFrag, nRcb, hist>>,
         Answered => Answered'
  PROVE  Inv'
<1>. USE DEF modes, hist
<1>1. Hand' = Hand /\ (pc' = "Receive" <=> pc = "Receive")
  BY DEF Hand, Calm
<1>2. RingTypes'
  BY DEF Inv, RingTypes
<1>3. Places'
  BY <1>1, PlacesKept DEF Inv
<1>5. Linked'
  BY <1>1 DEF Inv, Linked, Stage, Calm, Handling, N
<1>6. Marked'
  BY <1>1 DEF Inv, Marked, Fresh
<1>7. InHandIntact' /\ DeliveredIntact'
  BY <1>1 DEF Inv, InHandIntact, DeliveredIntact, Past, In
<1>8. \E d \in 0 .. N' : Ring(d)'
  <2>1. PICK d \in 0 .. N : Ring(d)
    BY DEF Inv
  <2>2. QueueKept /\ In(chain[1])' = In(chain[1])
    BY DEF QueueKept, In
  <2>3. Packets(d)' /\ Engine(d)' /\ Filled(d)' /\ N' = N
    BY <2>1, <2>2, RingKept, EngineKept DEF Inv, Ring
  <2>4. Ordered(d)'
    BY <1>1, <2>1, <2>2, OrderKept DEF Inv, Ring
  <2>. QED BY <2>3, <2>4 DEF Ring
<1>. QED BY <1>2, <1>3, <1>5, <1>6, <1>7, <1>8 DEF Inv

\* The buffers do not change hands.
LEMMA HeldKept ==
  ASSUME Held, UNCHANGED <<RcbPool, RxActQueue, chain, Dat, owner>>, Hand' = Hand,
         pc' = "Receive" <=> pc = "Receive"
  PROVE  Held'
  BY DEF Held, HeldRcbs, RcbsOf

\* InitRcb() gives up, and queues nothing.
LEMMA InitRcbFailStep == Inv /\ InitRcbFail => Inv'
<1>. SUFFICES ASSUME Inv, InitRcbFail PROVE Inv'
  OBVIOUS
<1>. USE DEF InitRcbFail, lists, cpu, dma, dev, chan, free, intr
<1>1. FlagTypes'
  BY RxAssumption DEF Inv, FlagTypes, Pcs
<1>2. Stage'
  BY DEF Inv, Stage, N, Handling, InitRcbAdds, Answered
<1>3. Held'
  BY HeldKept DEF Inv, Hand, bufs
<1>. QED BY <1>1, <1>2, <1>3, Quiet DEF Calm, Inv, RingTypes, bufs, Answered

\* The channel is open, with or without RCBs.
LEMMA halOpenEndStep == Inv /\ halOpenEnd => Inv'
<1>. SUFFICES ASSUME Inv, halOpenEnd PROVE Inv'
  OBVIOUS
<1>. USE DEF halOpenEnd, lists, cpu, dma, dev, chan, free, intr
<1>1. FlagTypes'
  BY RxAssumption DEF Inv, FlagTypes, Pcs
<1>2. Stage'
  BY DEF Inv, Stage, N, Handling, InitRcbAdds, Answered
<1>3. Held'
  BY HeldKept DEF Inv, Hand, bufs
<1>. QED BY <1>1, <1>2, <1>3, Quiet DEF Calm, Inv, RingTypes, bufs, Answered

\* The Needs list is empty.
LEMMA NeedsCheckEndStep == Inv /\ NeedsCheckEnd => Inv'
<1>. SUFFICES ASSUME Inv, NeedsCheckEnd PROVE Inv'
  OBVIOUS
<1>. USE DEF NeedsCheckEnd, lists, cpu, dma, dev, chan, free, intr
<1>1. FlagTypes'
  BY RxAssumption DEF Inv, FlagTypes, Pcs
<1>2. Stage'
  BY DEF Inv, Stage, N, Handling, InitRcbAdds, Answered
<1>3. Held'
  BY HeldKept DEF Inv, Hand, bufs
<1>. QED BY <1>1, <1>2, <1>3, Quiet DEF Calm, Inv, RingTypes, bufs, Answered

\* No teardown is answered yet.
LEMMA RxIntNoTeardownStep == Inv /\ RxIntNoTeardown => Inv'
<1>. SUFFICES ASSUME Inv, RxIntNoTeardown PROVE Inv'
  OBVIOUS
<1>. USE DEF RxIntNoTeardown, lists, cpu, dma, dev, chan, free, intr
<1>1. FlagTypes'
  BY RxAssumption DEF Inv, FlagTypes, Pcs
<1>2. Stage'
  BY DEF Inv, Stage, N, Handling, InitRcbAdds, Answered, TeardownSeen
<1>3. Held'
  BY HeldKept DEF Inv, Hand, bufs
<1>. QED BY <1>1, <1>2, <1>3, Quiet DEF Calm, Inv, RingTypes, bufs, Answered

\* RxInt() returns.
LEMMA RxIntEndStep == Inv /\ RxIntEnd => Inv'
<1>. SUFFICES ASSUME Inv, RxIntEnd PROVE Inv'
  OBVIOUS
<1>. USE DEF RxIntEnd, RxIntReturn, lists, cpu, dma, dev, chan, free, intr
<1>1. FlagTypes'
  BY RxAssumption DEF Inv, FlagTypes, Pcs
<1>2. Stage'
  BY DEF Inv, Stage, N, Handling, InitRcbAdds, Answered
<1>3. Held'
  BY HeldKept DEF Inv, Hand, bufs
<1>. QED BY <1>1, <1>2, <1>3, Quiet DEF Calm, Inv, RingTypes, bufs, Answered

\* A close is announced.
LEMMA cpmac_p_dev_disableStep == Inv /\ cpmac_p_dev_disable => Inv'
<1>. SUFFICES ASSUME Inv, cpmac_p_dev_disable PROVE Inv'
  OBVIOUS
<1>. USE DEF cpmac_p_dev_disable, lists, cpu, dma, dev, chan, free, intr
<1>1. FlagTypes'
  BY RxAssumption DEF Inv, FlagTypes, Pcs
<1>2. Stage'
  BY DEF Inv, Stage, N, Handling, InitRcbAdds, Answered
<1>3. Held'
  BY HeldKept DEF Inv, Hand, bufs
<1>. QED BY <1>1, <1>2, <1>3, Quiet DEF Calm, Inv, RingTypes, bufs, Answered

\* A teardown is requested; the engine goes on until it answers.
LEMMA halChannelTeardownStep == Inv /\ halChannelTeardown => Inv'
<1>. SUFFICES ASSUME Inv, halChannelTeardown PROVE Inv'
  OBVIOUS
<1>. USE DEF halChannelTeardown, lists, cpu, dma, dev, chan, free, intr
<1>1. FlagTypes'
  BY RxAssumption DEF Inv, FlagTypes, Pcs
<1>2. Stage'
  BY DEF Inv, Stage, N, Handling, InitRcbAdds, Answered
<1>3. Held'
  BY HeldKept DEF Inv, Hand, bufs
<1>. QED BY <1>1, <1>2, <1>3, Quiet DEF Calm, Inv, RingTypes, bufs, Answered

\* The handler: an interrupt comes from a queue with RCBs only.
LEMMA cpmac_hal_isrStep == Inv /\ cpmac_hal_isr => Inv'
<1>. SUFFICES ASSUME Inv, cpmac_hal_isr PROVE Inv'
  OBVIOUS
<1>. USE DEF cpmac_hal_isr, lists, cpu, dma, dev, chan, free, intr
<1>0. pc' \in Pcs /\ tasklet' \in BOOLEAN /\ armed' \in BOOLEAN
  <2>1. CASE closing
    BY <2>1 DEF Inv, FlagTypes, Pcs
  <2>2. CASE ~closing
    BY <2>2 DEF Inv, FlagTypes, Pcs
  <2>. QED BY <2>1, <2>2
<1>1. FlagTypes'
  BY <1>0 DEF Inv, FlagTypes
<1>2. Stage'
  BY DEF Inv, Stage, N, Handling, InitRcbAdds, Answered
<1>3. Held'
  BY HeldKept DEF Inv, Hand, bufs
<1>. QED BY <1>1, <1>2, <1>3, Quiet DEF Calm, Inv, RingTypes, bufs, Answered

\* The tasklet.
LEMMA halIsrStep == Inv /\ halIsr => Inv'
<1>. SUFFICES ASSUME Inv, halIsr PROVE Inv'
  OBVIOUS
<1>. USE DEF halIsr, lists, cpu, dma, dev, chan, free, intr
<1>0. pc' \in Pcs /\ tasklet' \in BOOLEAN /\ armed' \in BOOLEAN
  <2>1. CASE (rxInt /\ ChIsOpen)
    BY <2>1 DEF Inv, FlagTypes, Pcs
  <2>2. CASE ~(rxInt /\ ChIsOpen)
    BY <2>2 DEF Inv, FlagTypes, Pcs
  <2>. QED BY <2>1, <2>2
<1>1. FlagTypes'
  BY <1>0 DEF Inv, FlagTypes
<1>2. Stage'
  BY DEF Inv, Stage, N, Handling, InitRcbAdds, Answered
<1>3. Held'
  BY HeldKept DEF Inv, Hand, bufs
<1>. QED BY <1>1, <1>2, <1>3, Quiet DEF Calm, Inv, RingTypes, bufs, Answered

\* The network stack frees a buffer that it was given.
LEMMA OsFreeStep == ASSUME Inv, NEW b \in Buf, OsFree(b) PROVE Inv'
<1>. USE DEF OsFree, lists, cpu, dma, dev, chan, free, intr
<1>1. FlagTypes' /\ Stage'
  BY DEF Inv, FlagTypes, Stage, N, Handling, InitRcbAdds, Answered, hist
<1>2. Hand' = Hand
  BY DEF Hand
<1>3. owner' = [owner EXCEPT ![b] = "free"] /\ owner[b] = "os"
  OBVIOUS
<1>4. HeldRcbs' = HeldRcbs
  BY <1>2 DEF HeldRcbs, RcbsOf
<1>5. Held'
  BY <1>3, <1>4 DEF Inv, Held, RingTypes
<1>6. owner' \in [Buf -> {"free", "hal", "os"}]
  BY <1>3 DEF Inv, RingTypes
<1>. QED BY <1>1, <1>5, <1>6, Quiet DEF Answered

-----------------------------------------------------------------------------
(* The engine.                                                             *)

\* What a step of the engine leaves alone.
LEMMA HardwareLeaves ==
  ASSUME Inv, UNCHANGED <<lists, HNext, Dat, owner, cpu, nRcb, lost>>
  PROVE  Places' /\ Held' /\ Linked' /\ Hand' = Hand /\ N' = N
<1>. USE DEF lists, cpu
<1>1. Hand' = Hand /\ N' = N
  BY DEF Hand, N
<1>2. Places' /\ Held'
  BY <1>1, PlacesKept, HeldKept DEF Inv
<1>3. Linked'
  BY <1>1 DEF Inv, Linked
<1>. QED BY <1>1, <1>2, <1>3

\* The engine fetches the next descriptor, which is the next in the queue.
LEMMA HwFetchStep == Inv /\ HwFetch => Inv'
<1>. SUFFICES ASSUME Inv, HwFetch PROVE Inv'
  OBVIOUS
<1>. USE DEF HwFetch, lists, cpu, modes, bufs, hist, dev, chan, free, intr
<1>1. PICK d \in 0 .. N : Ring(d)
  BY DEF Inv
<1>2. Places' /\ Held' /\ Linked' /\ Hand' = Hand /\ N' = N
  BY HardwareLeaves DEF Inv
<1>3. QueueKept
  BY DEF QueueKept
<1>4. Packets(d)' /\ Filled(d)' /\ Ordered(d)'
  BY <1>1, <1>3, RingKept, OrderKept DEF Inv, Ring, In
<1>5. N \in Nat /\ hwFrag \in Nat /\ \A i \in 1 .. N : RxActQueue[i] \in Rcb
  BY RxAssumption DEF Inv, RingTypes, N
<1>6. /\ d + hwFrag + 1 \in 1 .. N /\ hwPtr = RxActQueue[d + hwFrag + 1]
      /\ \A i \in 1 .. N : ~Eoq[RxActQueue[i]]
  BY <1>1, <1>5, NullIsNoRcb DEF Ring, Engine, HwStopped, HwRunning
<1>7. HNext[hwPtr] = IF d + hwFrag + 1 = N THEN NULL ELSE RxActQueue[d + hwFrag + 2]
  BY <1>5, <1>6 DEF Inv, Linked
<1>8. Engine(d)'
  BY <1>1, <1>2, <1>5, <1>6, <1>7 DEF Ring, Engine, HwRunning
<1>9. RingTypes'
  BY <1>5, <1>6, <1>7 DEF Inv, RingTypes, Ptr
<1>10. FlagTypes' /\ Stage'
  BY <1>2 DEF Inv, FlagTypes, Stage, N, Handling, InitRcbAdds, Answered
<1>11. Marked' /\ InHandIntact' /\ DeliveredIntact'
  BY <1>2 DEF Inv, Marked, Fresh, InHandIntact, DeliveredIntact, Past, In
<1>. QED BY <1>2, <1>4, <1>8, <1>9, <1>10, <1>11 DEF Inv, Ring

-----------------------------------------------------------------------------
(* RCBs that go from list to list.                                         *)

\* The first RCB of a list leaves it, and the others stay.
LEMMA RestRcbs ==
  ASSUME NEW q \in Seq(Rcb), q # <<>>
  PROVE  /\ RcbsOf(q) = {q[1]} \cup RcbsOf(Tail(q))
         /\ Inj(q) => Inj(Tail(q)) /\ q[1] \notin RcbsOf(Tail(q))
<1>1. /\ Len(q) \in Nat /\ Len(q) >= 1 /\ Len(Tail(q)) = Len(q) - 1
      /\ \A i \in 1 .. Len(q) - 1 : Tail(q)[i] = q[i + 1]
  BY Rest, LenProperties
<1>2. \A i \in 1 .. Len(q) : i = 1 \/ (i - 1 \in 1 .. Len(q) - 1 /\ q[i] = Tail(q)[i - 1])
  BY <1>1
<1>3. RcbsOf(q) \subseteq {q[1]} \cup RcbsOf(Tail(q))
  BY <1>1, <1>2 DEF RcbsOf
<1>4. {q[1]} \cup RcbsOf(Tail(q)) \subseteq RcbsOf(q)
  BY <1>1 DEF RcbsOf
<1>5. Inj(q) => Inj(Tail(q)) /\ q[1] \notin RcbsOf(Tail(q))
  BY <1>1 DEF Inj, RcbsOf
<1>. QED BY <1>3, <1>4, <1>5

\* An RCB that was not in a list goes behind it.
LEMMA AppendRcbs ==
  ASSUME NEW q \in Seq(Rcb), NEW x \in Rcb
  PROVE  /\ RcbsOf(Append(q, x)) = RcbsOf(q) \cup {x}
         /\ Inj(q) /\ x \notin RcbsOf(q) => Inj(Append(q, x))
<1>1. /\ Len(q) \in Nat /\ Len(Append(q, x)) = Len(q) + 1
      /\ \A i \in 1 .. Len(q) : Append(q, x)[i] = q[i]
      /\ Append(q, x)[Len(q) + 1] = x
  BY Appended, LenProperties
<1>2. \A i \in 1 .. Len(q) + 1 : i = Len(q) + 1 \/ i \in 1 .. Len(q)
  BY <1>1
<1>3. RcbsOf(Append(q, x)) \subseteq RcbsOf(q) \cup {x}
  BY <1>1, <1>2 DEF RcbsOf
<1>4. RcbsOf(q) \cup {x} \subseteq RcbsOf(Append(q, x))
  BY <1>1 DEF RcbsOf
<1>5. Inj(q) /\ x \notin RcbsOf(q) => Inj(Append(q, x))
  BY <1>1, <1>2 DEF Inj, RcbsOf
<1>. QED BY <1>3, <1>4, <1>5

\* Two lists are put together.
LEMMA JoinedRcbs ==
  ASSUME NEW q \in Seq(Rcb), NEW t \in Seq(Rcb)
  PROVE  /\ RcbsOf(q \o t) = RcbsOf(q) \cup RcbsOf(t)
         /\ Inj(q) /\ Inj(t) /\ RcbsOf(q) \cap RcbsOf(t) = {} => Inj(q \o t)
<1>1. /\ Len(q) \in Nat /\ Len(t) \in Nat /\ Len(q \o t) = Len(q) + Len(t)
      /\ \A i \in 1 .. Len(q) : (q \o t)[i] = q[i]
      /\ \A i \in 1 .. Len(t) : (q \o t)[Len(q) + i] = t[i]
  BY Joined, LenProperties
<1>2. \A i \in 1 .. Len(q) + Len(t) :
        \/ i \in 1 .. Len(q) /\ (q \o t)[i] = q[i]
        \/ i - Len(q) \in 1 .. Len(t) /\ (q \o t)[i] = t[i - Len(q)]
  <2>1. TAKE i \in 1 .. Len(q) + Len(t)
  <2>2. CASE i <= Len(q)
    BY <1>1, <2>2
  <2>3. CASE i > Len(q)
    <3>1. i - Len(q) \in 1 .. Len(t) /\ Len(q) + (i - Len(q)) = i
      BY <1>1, <2>3
    <3>. QED BY <1>1, <3>1
  <2>. QED BY <1>1, <2>2, <2>3
<1>3. RcbsOf(q \o t) \subseteq RcbsOf(q) \cup RcbsOf(t)
  BY <1>1, <1>2 DEF RcbsOf
<1>4. RcbsOf(q) \cup RcbsOf(t) \subseteq RcbsOf(q \o t)
  <2>1. RcbsOf(q) \subseteq RcbsOf(q \o t)
    BY <1>1 DEF RcbsOf
  <2>2. \A i \in 1 .. Len(t) : Len(q) + i \in 1 .. Len(q \o t)
    BY <1>1
  <2>3. RcbsOf(t) \subseteq RcbsOf(q \o t)
    BY <1>1, <2>2 DEF RcbsOf
  <2>. QED BY <2>1, <2>3
<1>5. Inj(q) /\ Inj(t) /\ RcbsOf(q) \cap RcbsOf(t) = {} => Inj(q \o t)
  <2>1. SUFFICES ASSUME Inj(q), Inj(t), RcbsOf(q) \cap RcbsOf(t) = {},
                        NEW i \in 1 .. Len(q \o t), NEW j \in 1 .. Len(q \o t),
                        (q \o t)[i] = (q \o t)[j]
                 PROVE  i = j
    BY DEF Inj
  <2>2. \A k \in 1 .. Len(q), l \in 1 .. Len(t) : q[k] # t[l]
    BY <2>1 DEF RcbsOf
  <2>3. CASE i \in 1 .. Len(q) /\ j \in 1 .. Len(q)
    BY <1>1, <2>1, <2>3 DEF Inj
  <2>4. CASE i - Len(q) \in 1 .. Len(t) /\ j - Len(q) \in 1 .. Len(t)
    BY <1>1, <1>2, <2>1, <2>4 DEF Inj
  <2>. QED BY <1>1, <1>2, <2>1, <2>2, <2>3, <2>4
<1>. QED BY <1>3, <1>4, <1>5

\* A list without RCBs is empty.
LEMMA NoRcbs ==
  ASSUME NEW q \in Seq(Rcb), RcbsOf(q) = {}
  PROVE  q = <<>>
<1>1. Len(q) \in Nat /\ ~(1 \in 1 .. Len(q))
  BY LenProperties DEF RcbsOf
<1>. QED BY <1>1, EmptySeq

\* The lists hold RCBs.
LEMMA RcbsAreRcbs == ASSUME NEW q \in Seq(Rcb) PROVE RcbsOf(q) \subseteq Rcb
  BY DEF RcbsOf

\* So do the lists of RCBs with a buffer of the driver.
LEMMA HeldAreRcbs == ASSUME Inv PROVE HeldRcbs \subseteq Rcb
<1>1. Hand \in Seq(Rcb)
  BY DEF Inv, RingTypes, Hand
<1>. QED BY <1>1, RcbsAreRcbs DEF Inv, RingTypes, HeldRcbs

\* The mode of some RCBs is set, and of no others.
LEMMA ModeSet ==
  ASSUME RingTypes, NEW R, NEW own \in BOOLEAN, SetMode(R, own)
  PROVE  /\ Own' \in [Rcb -> BOOLEAN] /\ Eof' \in [Rcb -> BOOLEAN] /\ Eoq' \in [Rcb -> BOOLEAN]
         /\ \A r \in Rcb \ R : Own'[r] = Own[r] /\ Eof'[r] = Eof[r] /\ Eoq'[r] = Eoq[r]
         /\ \A r \in Rcb \cap R : Own'[r] = own /\ Eof'[r] = FALSE /\ Eoq'[r] = FALSE
<1>1. Own' \in [Rcb -> BOOLEAN] /\ Eof' \in [Rcb -> BOOLEAN] /\ Eoq' \in [Rcb -> BOOLEAN]
  BY Zenon DEF RingTypes, SetMode
<1>2. \A r \in Rcb \ R : Own'[r] = Own[r] /\ Eof'[r] = Eof[r] /\ Eoq'[r] = Eoq[r]
  BY DEF SetMode
<1>3. \A r \in Rcb \cap R : Own'[r] = own /\ Eof'[r] = FALSE /\ Eoq'[r] = FALSE
  BY DEF SetMode
<1>. QED BY <1>1, <1>2, <1>3

\* The packets in the queue and the engine are not touched.
LEMMA RingAlone ==
  ASSUME Inv, QueueKept, UNCHANGED <<hwPtr, hwCur, hwLatch, hwSop, delivered, discarded>>,
         pc' # "Receive", Answered => Answered'
  PROVE  (\E d \in 0 .. N : Ring(d))' /\ InHandIntact' /\ DeliveredIntact'
<1>1. PICK d \in 0 .. N : Ring(d)
  BY DEF Inv
<1>2. Packets(d)' /\ Filled(d)' /\ N' = N
  BY <1>1, RingKept DEF Inv, Ring
<1>3. Engine(d)'
  BY <1>1, EngineKept DEF Inv, Ring
<1>4. Ordered(d)'
  BY <1>1, OrderKept DEF Inv, Ring
<1>5. (\E d_1 \in 0 .. N : Ring(d_1))'
  BY <1>2, <1>3, <1>4 DEF Ring
<1>6. InHandIntact' /\ DeliveredIntact'
  BY DEF Inv, InHandIntact, DeliveredIntact
<1>. QED BY <1>5, <1>6

-----------------------------------------------------------------------------
(* Opening.                                                                *)

\* A new RCB gets its first buffer.
LEMMA InitRcbBufferStep == Inv /\ InitRcbBuffer => Inv'
<1>. SUFFICES ASSUME Inv, InitRcbBuffer PROVE Inv'
  OBVIOUS
<1>. USE DEF InitRcbBuffer, modes, dma, free, intr, hist
<1>. DEFINE r == nRcb + 1
<1>1. PICK b \in Buf : /\ owner[b] = "free"
                       /\ owner' = [owner EXCEPT ![b] = "hal"]
                       /\ Dat' = [Dat EXCEPT ![r] = b]
  OBVIOUS
<1>2. /\ nRcb \in Nat /\ r \in Rcb /\ r \notin 1 .. nRcb /\ 1 .. nRcb' = (1 .. nRcb) \cup {r}
      /\ lost = {} /\ pc' \in {"Malloc", "InitRcb"} /\ pc' # "Receive"
      /\ pc' = "Malloc" => nRcb' < RxNumBuffers
  <2>1. nRcb \in Nat /\ nRcb < RxNumBuffers /\ RxNumBuffers \in Nat /\ lost = {}
    BY RxAssumption DEF Inv, RingTypes, Stage
  <2>2. nRcb' = nRcb + 1 /\ pc' = IF nRcb' = RxNumBuffers THEN "InitRcb" ELSE "Malloc"
    OBVIOUS
  <2>. QED BY <2>1, <2>2 DEF Rcb
<1>3. /\ RcbPool' = <<r>> \o RcbPool /\ <<r>> \in Seq(Rcb) /\ RcbPool' \in Seq(Rcb)
      /\ RcbsOf(RcbPool)' = RcbsOf(RcbPool) \cup {r}
      /\ r \notin RcbsOf(RcbPool) => Inj(RcbPool)'
  <2>1. /\ <<r>> \in Seq(Rcb) /\ RcbsOf(<<r>>) = {r} /\ Inj(<<r>>)
        /\ RcbPool \in Seq(Rcb) /\ RcbPool' = <<r>> \o RcbPool /\ Inj(RcbPool)
    BY SMTT(30), <1>2, Single DEF Inv, RingTypes, Places
  <2>2. /\ RcbsOf(<<r>> \o RcbPool) = RcbsOf(<<r>>) \cup RcbsOf(RcbPool)
        /\ RcbsOf(<<r>>) \cap RcbsOf(RcbPool) = {} => Inj(<<r>> \o RcbPool)
        /\ <<r>> \o RcbPool \in Seq(Rcb)
    BY <2>1, JoinedRcbs, Joined
  <2>3. RcbsOf(RcbPool)' = RcbsOf(<<r>> \o RcbPool) /\ (Inj(RcbPool)' <=> Inj(<<r>> \o RcbPool))
    BY <2>1 DEF RcbsOf, Inj
  <2>. QED BY <2>1, <2>2, <2>3
<1>4. Hand' = Hand /\ N' = N
  BY <1>2 DEF Hand, N
<1>5. RingTypes'
  <2>1. owner' \in [Buf -> {"free", "hal", "os"}] /\ Dat' \in [Rcb -> Buf \cup {NULL}]
    BY <1>1, <1>2 DEF Inv, RingTypes
  <2>. QED BY SMTT(30), <1>2, <1>3, <2>1 DEF Inv, RingTypes, Rcb
<1>6. FlagTypes'
  BY <1>2 DEF Inv, FlagTypes, Pcs
<1>7. Stage'
  BY <1>2, <1>4 DEF Inv, Stage, Handling, InitRcbAdds, Answered
<1>8. /\ RcbsOf(RxActQueue)' = RcbsOf(RxActQueue) /\ RcbsOf(Needs)' = RcbsOf(Needs)
      /\ RcbsOf(chain)' = RcbsOf(chain) /\ RcbsOf(Hand)' = RcbsOf(Hand)
  BY <1>4 DEF RcbsOf
<1>9. /\ Inj(RxActQueue)' <=> Inj(RxActQueue)
      /\ Inj(Needs)' <=> Inj(Needs)
      /\ Inj(chain)' <=> Inj(chain)
      /\ Inj(Hand)' <=> Inj(Hand)
  BY <1>4 DEF Inj
<1>10. /\ r \notin RcbsOf(RcbPool) /\ r \notin RcbsOf(RxActQueue) /\ r \notin RcbsOf(Needs)
       /\ r \notin RcbsOf(chain) /\ r \notin RcbsOf(Hand)
  BY <1>2 DEF Inv, Places
<1>11. Places'
  BY SMTT(30), <1>2, <1>3, <1>8, <1>9, <1>10 DEF Inv, Places
<1>12. HeldRcbs' = HeldRcbs \cup {r} /\ r \notin HeldRcbs
  BY <1>2, <1>3, <1>8, <1>10 DEF HeldRcbs
<1>13. HeldRcbs \subseteq Rcb
  BY HeldAreRcbs
<1>14. Held'
  BY SMTT(30), <1>1, <1>2, <1>12, <1>13 DEF Inv, Held, RingTypes
<1>15. Linked' /\ Marked'
  BY <1>2, <1>4 DEF Inv, Linked, Marked, Fresh, Stage, Handling
<1>16. QueueKept
  <2>1. \A i \in 1 .. N : RxActQueue[i] \in Rcb /\ RxActQueue[i] # r
    BY SMTT(30), <1>10 DEF RcbsOf, N, Inv, RingTypes
  <2>. QED BY <1>1, <2>1 DEF QueueKept, Inv, RingTypes
<1>. QED BY <1>2, <1>5, <1>6, <1>7, <1>11, <1>14, <1>15, <1>16, RingAlone DEF Inv, Answered

\* An RCB of the pool is made ready to be queued.
LEMMA InitRcbStep == Inv /\ InitRcb => Inv'
<1>. SUFFICES ASSUME Inv, InitRcb PROVE Inv'
  OBVIOUS
<1>. USE DEF InitRcb, bufs, dma, dev, chan, free, intr, hist
<1>. DEFINE r == RcbPool[1]
<1>1. /\ r \in Rcb /\ Tail(RcbPool) \in Seq(Rcb) /\ RcbsOf(RcbPool) = {r} \cup RcbsOf(Tail(RcbPool))
      /\ Inj(Tail(RcbPool)) /\ r \notin RcbsOf(Tail(RcbPool))
  BY Rest, RestRcbs DEF Inv, RingTypes, Places
<1>2. Hand = <<>> /\ good = <<>> /\ chain = <<>> /\ Hand' = <<r>> /\ N' = N /\ good' = <<r>>
      /\ caller = "InitRcb"
  BY DEF Inv, Stage, Handling, Hand, N
<1>3. /\ <<r>> \in Seq(Rcb) /\ Len(<<r>>) = 1 /\ RcbsOf(<<r>>) = {r} /\ Inj(<<r>>)
      /\ RcbsOf(<<>>) = {} /\ <<r>> # <<>>
  BY <1>1, Single DEF RcbsOf
<1>4. RingTypes'
  <2>1. Own' \in [Rcb -> BOOLEAN] /\ Eof' \in [Rcb -> BOOLEAN] /\ Eoq' \in [Rcb -> BOOLEAN]
    BY Zenon DEF Inv, RingTypes, SetMode
  <2>. QED BY <1>1, <1>2, <1>3, <2>1 DEF Inv, RingTypes, Ptr
<1>5. FlagTypes'
  BY DEF Inv, FlagTypes, Pcs
<1>6. Stage'
  BY <1>2, <1>3 DEF Inv, Stage, Handling, InitRcbAdds, Answered
<1>7. /\ RcbsOf(RcbPool)' = RcbsOf(Tail(RcbPool)) /\ RcbsOf(RxActQueue)' = RcbsOf(RxActQueue)
      /\ RcbsOf(Needs)' = RcbsOf(Needs) /\ RcbsOf(chain)' = RcbsOf(chain)
      /\ RcbsOf(Hand) = {} /\ RcbsOf(Hand)' = {r}
  BY <1>2, <1>3 DEF RcbsOf
<1>8. /\ Inj(RcbPool)' <=> Inj(Tail(RcbPool))
      /\ Inj(RxActQueue)' <=> Inj(RxActQueue)
      /\ Inj(Needs)' <=> Inj(Needs)
      /\ Inj(chain)' <=> Inj(chain)
      /\ Inj(Hand)' <=> Inj(<<r>>)
  BY <1>2 DEF Inj
<1>9. Places'
  BY <1>1, <1>3, <1>7, <1>8 DEF Inv, Places
<1>10. HeldRcbs' = HeldRcbs
  BY <1>1, <1>7 DEF HeldRcbs
<1>11. Held'
  BY <1>10 DEF Inv, Held
<1>12. \A i \in 1 .. N : RxActQueue[i] \in Rcb /\ RxActQueue[i] # r
  BY <1>1, Member, RcbsAreRcbs DEF N, Inv, Places, RingTypes
<1>13. Linked'
  BY <1>1, <1>2, <1>12, LenProperties DEF Inv, Linked, N, RingTypes
<1>14. Marked'
  <2>1. Own'[r] /\ ~Eof'[r] /\ ~Eoq'[r]
    BY <1>1 DEF SetMode
  <2>. QED BY <1>2, <1>3, <2>1 DEF Marked, Fresh
<1>15. QueueKept
  BY <1>12 DEF QueueKept, SetMode
<1>. QED BY <1>4, <1>5, <1>6, <1>9, <1>11, <1>13, <1>14, <1>15, RingAlone DEF Inv, Answered

-----------------------------------------------------------------------------
(* halRxReturn(), and the RCBs without a buffer.                           *)

\* The last RCB of the Needs list leaves it.
LEMMA LastRcbs ==
  ASSUME NEW q \in Seq(Rcb), q # <<>>
  PROVE  LET t == SubSeq(q, 1, Len(q) - 1)
             x == q[Len(q)]
         IN  /\ t \in Seq(Rcb) /\ Len(t) = Len(q) - 1 /\ x \in Rcb
             /\ RcbsOf(q) = RcbsOf(t) \cup {x}
             /\ Inj(q) => Inj(t) /\ x \notin RcbsOf(t)
<1>. DEFINE t == SubSeq(q, 1, Len(q) - 1)
<1>1. Len(q) \in Nat /\ Len(q) >= 1 /\ q[Len(q)] \in Rcb /\ Len(q) - 1 \in 0 .. Len(q)
  BY EmptySeq, LenProperties
<1>2. t \in Seq(Rcb) /\ Len(t) = Len(q) - 1 /\ \A i \in 1 .. Len(q) - 1 : t[i] = q[i]
  BY ZenonT(60), <1>1, Cut
<1>3. \A i \in 1 .. Len(q) : i = Len(q) \/ i \in 1 .. Len(q) - 1
  BY <1>1
<1>4. RcbsOf(q) \subseteq RcbsOf(t) \cup {q[Len(q)]}
  BY <1>1, <1>2, <1>3 DEF RcbsOf
<1>5. RcbsOf(t) \cup {q[Len(q)]} \subseteq RcbsOf(q)
  BY <1>1, <1>2 DEF RcbsOf
<1>6. Inj(q) => Inj(t) /\ q[Len(q)] \notin RcbsOf(t)
  BY <1>1, <1>2 DEF Inj, RcbsOf
<1>. QED BY <1>1, <1>2, <1>4, <1>5, <1>6

\* No RCB of the queue is in hand.
LEMMA QueueApart ==
  ASSUME Inv
  PROVE  \A i \in 1 .. N : /\ RxActQueue[i] \in Rcb
                           /\ RxActQueue[i] \notin RcbsOf(Needs)
                           /\ RxActQueue[i] \notin RcbsOf(chain)
                           /\ RxActQueue[i] \notin RcbsOf(Hand)
  BY Member, RcbsAreRcbs DEF Inv, Places, N, RingTypes

\* NeedsCheck() takes the last RCB of the Needs list.
LEMMA NeedsCheckStep == Inv /\ NeedsCheck => Inv'
<1>. SUFFICES ASSUME Inv, NeedsCheck PROVE Inv'
  OBVIOUS
<1>. USE DEF NeedsCheck, RxReturn, bufs, dma, chan, intr, hist
<1>. DEFINE t == SubSeq(Needs, 1, Len(Needs) - 1)
            r == Needs[Len(Needs)]
<1>1. /\ t \in Seq(Rcb) /\ Len(t) = Len(Needs) - 1 /\ r \in Rcb
      /\ RcbsOf(Needs) = RcbsOf(t) \cup {r} /\ Inj(t) /\ r \notin RcbsOf(t)
      /\ Needs' = t
  BY LastRcbs DEF Inv, RingTypes, Places
<1>2. /\ <<r>> \in Seq(Rcb) /\ Len(<<r>>) = 1 /\ RcbsOf(<<r>>) = {r} /\ Inj(<<r>>)
      /\ RcbsOf(<<>>) = {} /\ <<r>> # <<>> /\ <<r>>[1] = r
  BY <1>1, Single DEF RcbsOf
<1>3. /\ chain' = <<r>> /\ HNext' = [HNext EXCEPT ![r] = NULL] /\ SetMode({r}, TRUE)
      /\ Hand = <<>> /\ good = <<>> /\ Hand' = <<>> /\ chain = <<>> /\ N' = N
  BY <1>2 DEF Inv, Stage, Hand, N
<1>4. RingTypes'
  <2>1. Own' \in [Rcb -> BOOLEAN] /\ Eof' \in [Rcb -> BOOLEAN] /\ Eoq' \in [Rcb -> BOOLEAN]
    BY <1>3, ModeSet DEF Inv
  <2>2. Len(t) <= MaxNeeds
    BY <1>1, LenProperties, RxAssumption DEF Inv, RingTypes
  <2>3. HNext' \in [Rcb -> Ptr]
    BY <1>1, <1>3 DEF Inv, RingTypes, Ptr
  <2>. QED BY <1>1, <1>2, <1>3, <2>1, <2>2, <2>3 DEF Inv, RingTypes
<1>5. FlagTypes'
  <2>1. Len(Needs) \in Nat /\ Len(Needs) > 0 /\ Len(Needs) <= MaxNeeds
    BY EmptySeq, LenProperties DEF Inv, RingTypes
  <2>2. stale' \in 0 .. MaxNeeds
    BY <2>1, RxAssumption DEF Inv, FlagTypes
  <2>3. usedFreed' \in BOOLEAN /\ failed' \in BOOLEAN
    BY Zenon
  <2>. QED BY <2>2, <2>3 DEF Inv, FlagTypes, Pcs
<1>6. Stage'
  <2>1. N > 0
    BY LenProperties DEF Inv, Stage, RingTypes, N
  <2>. QED BY <1>2, <1>3, <2>1 DEF Inv, Stage, Handling, InitRcbAdds, Answered
<1>7. /\ RcbsOf(RcbPool)' = RcbsOf(RcbPool) /\ RcbsOf(RxActQueue)' = RcbsOf(RxActQueue)
      /\ RcbsOf(Needs)' = RcbsOf(t) /\ RcbsOf(chain)' = {r} /\ RcbsOf(chain) = {}
      /\ RcbsOf(Hand) = {} /\ RcbsOf(Hand)' = {}
  BY <1>1, <1>2, <1>3 DEF RcbsOf
<1>8. /\ Inj(RcbPool)' <=> Inj(RcbPool)
      /\ Inj(RxActQueue)' <=> Inj(RxActQueue)
      /\ Inj(Needs)' <=> Inj(t)
      /\ Inj(chain)' <=> Inj(<<r>>)
      /\ Inj(Hand)' <=> Inj(Hand)
  BY <1>1, <1>3 DEF Inj
<1>9. Places'
  BY <1>1, <1>2, <1>7, <1>8 DEF Inv, Places
<1>10. HeldRcbs' = HeldRcbs
  BY <1>7 DEF HeldRcbs
<1>11. Held'
  BY <1>10 DEF Inv, Held
<1>12. \A i \in 1 .. N : RxActQueue[i] \in Rcb /\ RxActQueue[i] # r
  BY <1>1, QueueApart
<1>13. Linked'
  BY <1>1, <1>2, <1>3, <1>12, LenProperties DEF Inv, Linked, N, RingTypes
<1>14. Marked'
  <2>1. Own'[r] /\ ~Eof'[r] /\ ~Eoq'[r]
    BY <1>1, <1>3 DEF SetMode
  <2>. QED BY <1>2, <1>3, <2>1 DEF Marked, Fresh
<1>15. QueueKept
  <2>1. \A q \in Rcb \ {r} : Own'[q] = Own[q] /\ Eof'[q] = Eof[q] /\ Eoq'[q] = Eoq[q]
    BY <1>3, ModeSet DEF Inv
  <2>. QED BY <1>12, <2>1 DEF QueueKept
<1>. QED BY <1>4, <1>5, <1>6, <1>9, <1>11, <1>13, <1>14, <1>15, RingAlone DEF Inv, Answered

\* An RCB of the chain got a new buffer, and joins the run that is ready.
LEMMA RxReturnGoodStep == Inv /\ RxReturnGood => Inv'
<1>. SUFFICES ASSUME Inv, RxReturnGood PROVE Inv'
  OBVIOUS
<1>. USE DEF RxReturnGood, AttachBuffer, lists, modes, dma, dev, chan, free, intr, hist
<1>. DEFINE r == chain[1]
<1>1. PICK b \in Buf : /\ owner[b] = "free"
                       /\ owner' = [owner EXCEPT ![b] = "hal"]
                       /\ Dat' = [Dat EXCEPT ![r] = b]
  OBVIOUS
<1>2. /\ chain # <<>> /\ r \in Rcb /\ chain' = Tail(chain) /\ Tail(chain) \in Seq(Rcb)
      /\ RcbsOf(chain) = {r} \cup RcbsOf(Tail(chain))
      /\ Inj(Tail(chain)) /\ r \notin RcbsOf(Tail(chain))
      /\ Len(chain) \in Nat /\ Len(chain) >= 1 /\ Len(Tail(chain)) = Len(chain) - 1
      /\ \A i \in 1 .. Len(chain) - 1 : Tail(chain)[i] = chain[i + 1]
  BY SMTT(30), Rest, RestRcbs, LenProperties DEF Inv, RingTypes, Places, Stage
<1>3. Hand = good /\ Hand' = good' /\ N' = N /\ pc' \in {"AddToRxQueue", "RxReturn"}
      /\ (pc' = "AddToRxQueue" <=> chain' = <<>>) /\ good' = Append(good, r)
  BY DEF Hand, N
<1>4. r \notin RcbsOf(Hand) /\ r \notin RcbsOf(RxActQueue) /\ r \notin RcbsOf(RcbPool)
  BY <1>2 DEF Inv, Places
<1>5. /\ good' \in Seq(Rcb) /\ RcbsOf(Hand)' = RcbsOf(Hand) \cup {r} /\ Inj(Hand)'
      /\ Len(good) \in Nat /\ Len(good') = Len(good) + 1 /\ good'[Len(good) + 1] = r
      /\ \A i \in 1 .. Len(good) : good'[i] = good[i]
  <2>1. good \in Seq(Rcb) /\ Inj(good) /\ r \notin RcbsOf(good)
    BY <1>3, <1>4 DEF Inv, RingTypes, Places
  <2>2. RcbsOf(Hand)' = RcbsOf(Append(good, r)) /\ (Inj(Hand)' <=> Inj(Append(good, r)))
    BY <1>3 DEF RcbsOf, Inj
  <2>. QED BY <1>2, <1>3, <2>1, <2>2, Appended, AppendRcbs, LenProperties
<1>6. RingTypes'
  <2>1. owner' \in [Buf -> {"free", "hal", "os"}] /\ Dat' \in [Rcb -> Buf \cup {NULL}]
    BY <1>1, <1>2 DEF Inv, RingTypes
  <2>. QED BY <1>2, <1>5, <2>1 DEF Inv, RingTypes
<1>7. FlagTypes'
  BY <1>3 DEF Inv, FlagTypes, Pcs
<1>8. Stage'
  <2>1. good' # <<>>
    BY <1>5, EmptySeq
  <2>. QED BY <1>2, <1>3, <2>1 DEF Inv, Stage, Handling, InitRcbAdds, Answered
<1>9. /\ RcbsOf(RcbPool)' = RcbsOf(RcbPool) /\ RcbsOf(RxActQueue)' = RcbsOf(RxActQueue)
      /\ RcbsOf(Needs)' = RcbsOf(Needs) /\ RcbsOf(chain)' = RcbsOf(Tail(chain))
  BY <1>2 DEF RcbsOf
<1>10. /\ Inj(RcbPool)' <=> Inj(RcbPool)
       /\ Inj(RxActQueue)' <=> Inj(RxActQueue)
       /\ Inj(Needs)' <=> Inj(Needs)
       /\ Inj(chain)' <=> Inj(Tail(chain))
  BY <1>2 DEF Inj
<1>11. Places'
  BY <1>2, <1>4, <1>5, <1>9, <1>10 DEF Inv, Places
<1>12. HeldRcbs' = HeldRcbs \cup {r} /\ r \notin HeldRcbs /\ HeldRcbs \subseteq Rcb
  BY <1>3, <1>4, <1>5, <1>9, HeldAreRcbs DEF HeldRcbs
<1>13. Held'
  BY SMTT(30), <1>1, <1>2, <1>12 DEF Inv, Held, RingTypes
<1>14. Linked'
  <2>1. \A i \in 1 .. Len(chain') - 1 : HNext[chain'[i]] = chain'[i + 1]
    BY <1>2 DEF Inv, Linked
  <2>2. chain' # <<>> => HNext[chain'[Len(chain')]] = NULL /\ HNext[r] = chain'[1]
    <3>1. ASSUME chain' # <<>> PROVE Len(chain) > 1
      BY <1>2, <3>1, EmptySeq
    <3>. QED BY <1>2, <3>1 DEF Inv, Linked
  <2>3. chain' = <<>> => HNext[r] = NULL
    <3>1. ASSUME chain' = <<>> PROVE Len(chain) = 1
      BY <1>2, <3>1, EmptySeq
    <3>. QED BY <1>2, <3>1 DEF Inv, Linked
  <2>4. good # <<>> => HNext[good[Len(good)]] = r
    BY DEF Inv, Linked
  <2>5. \A i \in 1 .. Len(good') - 1 : HNext[good'[i]] = good'[i + 1]
    <3>1. TAKE i \in 1 .. Len(good') - 1
    <3>2. CASE i < Len(good)
      BY SMTT(30), <1>3, <1>5, <3>2 DEF Inv, Linked
    <3>3. CASE i = Len(good)
      BY <1>5, <2>4, <3>3, EmptySeq
    <3>. QED BY <1>5, <3>2, <3>3
  <2>. QED BY <1>3, <1>5, <2>1, <2>2, <2>3, <2>5 DEF Inv, Linked
<1>15. Marked'
  <2>1. \A i \in 1 .. Len(chain) : Fresh(chain[i])
    BY DEF Inv, Marked
  <2>2. \A i \in 1 .. Len(good) : Fresh(good[i])
    BY <1>3 DEF Inv, Marked
  <2>3. \A i \in 1 .. Len(good') : Fresh(good'[i])
    BY <1>2, <1>5, <2>1, <2>2
  <2>4. \A i \in 1 .. Len(chain') : Fresh(chain'[i])
    BY <1>2, <2>1
  <2>. QED BY <1>3, <2>3, <2>4 DEF Marked, Fresh
<1>16. QueueKept
  <2>1. \A i \in 1 .. N : RxActQueue[i] \in Rcb /\ RxActQueue[i] # r
    BY <1>2, QueueApart
  <2>. QED BY <1>1, <2>1 DEF QueueKept, Inv, RingTypes
<1>. QED BY <1>3, <1>6, <1>7, <1>8, <1>11, <1>13, <1>14, <1>15, <1>16, RingAlone DEF Inv, Answered

\* An RCB that finds no buffer goes on the Needs list or is dropped; the run that
\* was ready before it is closed, to be queued.
LEMMA RxReturnFailStep == Inv /\ RxReturnFail => Inv'
<1>. SUFFICES ASSUME Inv, RxReturnFail PROVE Inv'
  OBVIOUS
<1>. USE DEF RxReturnFail, bufs, dma, dev, chan, free, intr
<1>. DEFINE r == chain[1]
<1>1. /\ chain # <<>> /\ r \in Rcb /\ chain' = Tail(chain) /\ Tail(chain) \in Seq(Rcb)
      /\ RcbsOf(chain) = {r} \cup RcbsOf(Tail(chain))
      /\ Inj(Tail(chain)) /\ r \notin RcbsOf(Tail(chain))
      /\ Len(chain) \in Nat /\ Len(chain) >= 1 /\ Len(Tail(chain)) = Len(chain) - 1
      /\ \A i \in 1 .. Len(chain) - 1 : Tail(chain)[i] = chain[i + 1]
  BY Rest, RestRcbs, LenProperties DEF Inv, RingTypes, Places, Stage
<1>2. /\ pc' \in {"AddToRxQueue", "RxReturn", "RxTop", "RxInt"}
      /\ pc' = "AddToRxQueue" => good # <<>>
      /\ pc' # "AddToRxQueue" => good = <<>>
      /\ pc' = "RxReturn" => chain' # <<>>
      /\ pc' \in {"RxTop", "RxInt"} => chain' = <<>>
  BY DEF Continue, Inv, Stage, FlagTypes
<1>3. Hand = good /\ Hand' = good /\ N' = N /\ good' = good
  BY <1>2 DEF Hand, N
<1>4. r \notin RcbsOf(Hand) /\ r \notin RcbsOf(RxActQueue) /\ r \notin RcbsOf(RcbPool)
      /\ r \notin RcbsOf(Needs)
  BY <1>1 DEF Inv, Places
<1>5. /\ Needs' \in Seq(Rcb) /\ Len(Needs') <= MaxNeeds /\ Inj(Needs)' /\ lost' \subseteq Rcb
      /\ \/ RcbsOf(Needs)' = RcbsOf(Needs) \cup {r} /\ lost' = lost
         \/ RcbsOf(Needs)' = RcbsOf(Needs) /\ lost' = lost \cup {r}
  <2>1. Needs \in Seq(Rcb) /\ Len(Needs) \in Nat /\ Inj(Needs) /\ lost \subseteq Rcb
        /\ MaxNeeds \in Nat /\ Len(Needs) <= MaxNeeds
    BY LenProperties, RxAssumption DEF Inv, RingTypes, Places
  <2>2. CASE Len(Needs) < MaxNeeds
    <3>1. Needs' = Append(Needs, r) /\ lost' = lost
      BY <2>2 DEF NeedsBuffer
    <3>2. RcbsOf(Needs)' = RcbsOf(Append(Needs, r)) /\ (Inj(Needs)' <=> Inj(Append(Needs, r)))
      BY <3>1 DEF RcbsOf, Inj
    <3>. QED BY <1>1, <1>4, <2>1, <2>2, <3>1, <3>2, Appended, AppendRcbs
  <2>3. CASE ~(Len(Needs) < MaxNeeds)
    <3>1. Needs' = Needs /\ lost' = lost \cup {r}
      BY <2>3 DEF NeedsBuffer
    <3>2. RcbsOf(Needs)' = RcbsOf(Needs) /\ (Inj(Needs)' <=> Inj(Needs))
      BY <3>1 DEF RcbsOf, Inj
    <3>. QED BY <1>1, <2>1, <3>1, <3>2
  <2>. QED BY <2>2, <2>3
<1>6. /\ Own' \in [Rcb -> BOOLEAN] /\ Eof' \in [Rcb -> BOOLEAN] /\ Eoq' \in [Rcb -> BOOLEAN]
      /\ \A q \in Rcb \ {r} : Own'[q] = Own[q] /\ Eof'[q] = Eof[q] /\ Eoq'[q] = Eoq[q]
  <2>1. SetMode({r}, FALSE)
    OBVIOUS
  <2>. QED BY <2>1, ModeSet DEF Inv
<1>7. Len(good) \in Nat /\ \A i \in 1 .. Len(good) : good[i] \in Rcb
  BY LenProperties DEF Inv, RingTypes
<1>8. RingTypes'
  <2>1. HNext' \in [Rcb -> Ptr]
    BY <1>7 DEF Inv, RingTypes, Ptr
  <2>. QED BY <1>1, <1>3, <1>5, <1>6, <2>1 DEF Inv, RingTypes
<1>9. FlagTypes'
  <2>1. failed' \in BOOLEAN /\ pc' \in Pcs
    BY <1>2 DEF Pcs
  <2>2. UNCHANGED <<caller, PacketsServiced, MiiEn, chan, free, intr, RxActive, hwTd, HostErr>>
    OBVIOUS
  <2>. HIDE DEF RxReturnFail
  <2>. QED BY <2>1, <2>2 DEF Inv, FlagTypes
<1>10. Stage'
  <2>1. N > 0 /\ N' > 0 /\ caller # "InitRcb" /\ RxActive /\ ~HostErr /\ ~foreignFree
    BY <1>3 DEF Inv, Stage, Handling
  <2>2. UNCHANGED <<caller, RxActive, HostErr, foreignFree>>
    OBVIOUS
  <2>. HIDE DEF RxReturnFail
  <2>. QED BY <1>2, <1>3, <2>1, <2>2 DEF Stage, Handling, InitRcbAdds
<1>11. /\ RcbsOf(RcbPool)' = RcbsOf(RcbPool) /\ RcbsOf(RxActQueue)' = RcbsOf(RxActQueue)
       /\ RcbsOf(Hand)' = RcbsOf(Hand) /\ RcbsOf(chain)' = RcbsOf(Tail(chain))
  BY <1>1, <1>3 DEF RcbsOf
<1>12. /\ Inj(RcbPool)' <=> Inj(RcbPool)
       /\ Inj(RxActQueue)' <=> Inj(RxActQueue)
       /\ Inj(Hand)' <=> Inj(Hand)
       /\ Inj(chain)' <=> Inj(Tail(chain))
  BY <1>1, <1>3 DEF Inj
<1>13. nRcb' = nRcb
  OBVIOUS
<1>14. Places'
  <2>1. CASE RcbsOf(Needs)' = RcbsOf(Needs) \cup {r} /\ lost' = lost
    BY <1>1, <1>4, <1>5, <1>11, <1>12, <1>13, <2>1 DEF Inv, Places
  <2>2. CASE RcbsOf(Needs)' = RcbsOf(Needs) /\ lost' = lost \cup {r}
    BY <1>1, <1>4, <1>5, <1>11, <1>12, <1>13, <2>2 DEF Inv, Places
  <2>. QED BY <1>5, <2>1, <2>2
<1>15. Held'
  <2>1. HeldRcbs' = HeldRcbs
    BY <1>2, <1>11 DEF HeldRcbs
  <2>. QED BY <2>1 DEF Inv, Held
<1>16. /\ \A i \in 1 .. N : RxActQueue[i] \in Rcb /\ RxActQueue[i] # r
       /\ good # <<>> => \A i \in 1 .. N : RxActQueue[i] # good[Len(good)]
  <2>1. good # <<>> => good[Len(good)] \in RcbsOf(Hand)
    BY <1>3, <1>7, EmptySeq, Member DEF Inv, RingTypes
  <2>. QED BY <1>1, <2>1, QueueApart
<1>17. /\ \A i \in 1 .. Len(chain') : chain'[i] \in Rcb /\ chain'[i] # r
       /\ good # <<>> => \A i \in 1 .. Len(chain') : chain'[i] # good[Len(good)]
  <2>1. good # <<>> => good[Len(good)] \in RcbsOf(Hand)
    BY <1>3, <1>7, EmptySeq, Member DEF Inv, RingTypes
  <2>2. \A i \in 1 .. Len(chain') : chain'[i] \in RcbsOf(Tail(chain))
    BY <1>1, Member
  <2>. QED BY <1>1, <2>1, <2>2, RcbsAreRcbs DEF Inv, Places
<1>18. Linked'
  <2>1. \A i \in 1 .. Len(chain') - 1 : HNext[chain'[i]] = chain'[i + 1]
    BY <1>1 DEF Inv, Linked
  <2>2. chain' # <<>> => HNext[chain'[Len(chain')]] = NULL /\ Len(chain') >= 1
    <3>1. ASSUME chain' # <<>> PROVE Len(chain) > 1
      BY <1>1, <3>1, EmptySeq
    <3>. QED BY <1>1, <3>1 DEF Inv, Linked
  <2>3. CASE good = <<>>
    BY <1>1, <1>2, <1>3, <2>1, <2>2, <2>3 DEF Inv, Linked
  <2>4. CASE good # <<>>
    <3>1. HNext' = [HNext EXCEPT ![good[Len(good)]] = NULL] /\ pc' = "AddToRxQueue"
          /\ Len(good) >= 1 /\ good[Len(good)] \in Rcb /\ HNext \in [Rcb -> Ptr]
      BY <1>7, <2>4, EmptySeq DEF Inv, RingTypes
    <3>2. \A i \in 1 .. Len(good) - 1 : HNext'[good[i]] = good[i + 1]
      <4>1. \A i \in 1 .. Len(good) - 1 : good[i] # good[Len(good)]
        BY <1>3, <1>7, <3>1 DEF Inv, Places, Inj
      <4>. QED BY <1>3, <1>7, <3>1, <4>1 DEF Inv, Linked
    <3>3. \A q \in Rcb : q # good[Len(good)] => HNext'[q] = HNext[q]
      BY <3>1
    <3>4. /\ \A i \in 1 .. Len(chain') - 1 : HNext'[chain'[i]] = chain'[i + 1]
          /\ chain' # <<>> => HNext'[chain'[Len(chain')]] = NULL
      BY <1>1, <1>17, <2>1, <2>2, <2>4, <3>3
    <3>5. /\ \A i \in 1 .. N - 1 : HNext'[RxActQueue[i]] = RxActQueue[i + 1]
          /\ N > 0 => HNext'[RxActQueue[N]] = NULL
      BY SMTT(30), <1>16, <2>4, <3>3, LenProperties DEF Inv, Linked, N, RingTypes
    <3>6. HNext'[good[Len(good)]] = NULL
      BY <3>1
    <3>. QED BY <1>3, <3>1, <3>2, <3>4, <3>5, <3>6 DEF Linked
  <2>. QED BY <2>3, <2>4
<1>19. Marked'
  <2>1. \A i \in 1 .. Len(chain') : Fresh(chain[i])'
    <3>1. \A i \in 1 .. Len(chain') : Fresh(chain'[i])
      BY <1>1 DEF Inv, Marked
    <3>. QED BY <1>6, <1>17, <3>1 DEF Fresh
  <2>2. \A i \in 1 .. Len(good) : Fresh(good[i])'
    <3>1. \A i \in 1 .. Len(good) : good[i] # r
      BY <1>3, <1>4, Member
    <3>. QED BY <1>3, <1>6, <1>7, <3>1 DEF Inv, Marked, Fresh
  <2>. QED BY <1>3, <2>1, <2>2 DEF Marked, Fresh
<1>20. QueueKept
  BY <1>6, <1>16 DEF QueueKept
<1>. QED BY <1>2, <1>8, <1>9, <1>10, <1>14, <1>15, <1>18, <1>19, <1>20, RingAlone DEF Inv, Answered

-----------------------------------------------------------------------------
(* The receive callback.                                                   *)

\* The packet in hand goes to the network stack or is thrown away: it comes after
\* all that went before it, and before all that are still in the queue.
LEMMA HandedOver ==
  ASSUME Inv, pc = "Receive", pc' # "Receive", QueueKept,
         UNCHANGED <<hwPtr, hwCur, hwLatch, hwSop>>, Answered => Answered',
         \/ delivered' = Append(delivered, Contents(chain)) /\ discarded' = discarded
         \/ delivered' = delivered /\ discarded' = discarded \cup {Contents(chain)[1][1]}
  PROVE  /\ (\E d \in 0 .. N : Ring(d))' /\ InHandIntact' /\ DeliveredIntact'
         /\ delivered' \in Seq(Seq((0 .. MaxPkt) \X (0 .. MaxFrags)))
         /\ discarded' \subseteq 0 .. MaxPkt
<1>. DEFINE p == In(chain[1])[1]
            C == Contents(chain)
            Packet == Seq((0 .. MaxPkt) \X (0 .. MaxFrags))
<1>0. chain # <<>> /\ chain \in Seq(Rcb)
  BY DEF Inv, RingTypes, Stage
<1>1. /\ chain # <<>> /\ Len(chain) \in Nat /\ Len(chain) >= 1
      /\ \A k \in 1 .. Len(chain) : chain[k] \in RcbsOf(chain)
  BY <1>0, EmptySeq, LenProperties, Member
<1>2. \A k \in 1 .. Len(chain) : In(chain[k]) \in (0 .. MaxPkt) \X (0 .. MaxFrags)
  BY <1>1 DEF Inv, Held, HeldRcbs, RingTypes, In
<1>3. C \in Packet /\ Len(C) = Len(chain) /\ \A k \in 1 .. Len(chain) : C[k] = In(chain[k])
  BY <1>1, <1>2 DEF Contents, In
<1>4. /\ p \in 0 .. MaxPkt /\ C[1][1] = p
      /\ \A k \in 1 .. Len(C) : C[k] = <<p, k>>
      /\ p <= nRecv /\ Past(p)
  <2>1. /\ \A k \in 1 .. Len(chain) : In(chain[k]) = <<p, k>>
        /\ p <= nRecv /\ Past(p)
    BY DEF Inv, InHandIntact
  <2>2. 1 \in 1 .. Len(chain)
    BY <1>1
  <2>3. In(chain[1]) \in (0 .. MaxPkt) \X (0 .. MaxFrags)
    BY <1>2, <2>2
  <2>4. p \in 0 .. MaxPkt
    BY <2>3
  <2>. HIDE DEF C
  <2>5. C[1][1] = p
    BY <1>3, <2>2
  <2>. HIDE DEF p
  <2>. QED BY <1>3, <2>1, <2>4, <2>5
<1>5. /\ delivered \in Seq(Packet) /\ Len(delivered) \in Nat
      /\ discarded \subseteq 0 .. MaxPkt /\ nRecv \in Nat /\ MaxPkt \in Nat
  BY LenProperties, RxAssumption DEF Inv, RingTypes
<1>6. /\ Append(delivered, C) \in Seq(Packet) /\ Len(Append(delivered, C)) = Len(delivered) + 1
      /\ \A i \in 1 .. Len(delivered) : Append(delivered, C)[i] = delivered[i]
      /\ Append(delivered, C)[Len(delivered) + 1] = C
  BY <1>3, <1>5, Appended
<1>. HIDE DEF p, C, Packet
<1>7. /\ delivered' \in Seq(Packet) /\ Len(delivered') \in Nat
      /\ discarded' \subseteq 0 .. MaxPkt
      /\ \A i \in 1 .. Len(delivered') :
           \/ i \in 1 .. Len(delivered) /\ delivered'[i] = delivered[i]
           \/ i = Len(delivered) + 1 /\ delivered'[i] = C
      /\ \A x \in discarded' : x \in discarded \/ x = p
      /\ Len(delivered') <= Len(delivered) + 1
  <2>1. CASE delivered' = Append(delivered, C) /\ discarded' = discarded
    <3>1. \A i \in 1 .. Len(delivered) + 1 : i \in 1 .. Len(delivered) \/ i = Len(delivered) + 1
      BY <1>5
    <3>. QED BY <1>5, <1>6, <2>1, <3>1
  <2>2. CASE delivered' = delivered /\ discarded' = discarded \cup {p}
    BY <1>4, <1>5, <2>2
  <2>. QED BY <1>4, <2>1, <2>2 DEF C
<1>9. DeliveredIntact'
  <2>1. \A i \in 1 .. Len(delivered') : \A k \in 1 .. Len(delivered'[i]) :
          delivered'[i][k] = <<delivered'[i][1][1], k>>
    <3>1. SUFFICES ASSUME NEW i \in 1 .. Len(delivered'), NEW k \in 1 .. Len(delivered'[i])
                   PROVE  delivered'[i][k] = <<delivered'[i][1][1], k>>
      OBVIOUS
    <3>2. CASE i \in 1 .. Len(delivered) /\ delivered'[i] = delivered[i]
      BY <3>1, <3>2 DEF Inv, DeliveredIntact
    <3>3. CASE delivered'[i] = C
      BY <1>4, <3>1, <3>3
    <3>. QED BY <1>7, <3>2, <3>3
  <2>2. \A i, j \in 1 .. Len(delivered') : i < j => delivered'[i][1][1] < delivered'[j][1][1]
    <3>1. TAKE i, j \in 1 .. Len(delivered')
    <3>2. HAVE i < j
    <3>3. i \in 1 .. Len(delivered) /\ delivered'[i] = delivered[i]
      BY <1>5, <1>7, <3>2
    <3>4. CASE j \in 1 .. Len(delivered) /\ delivered'[j] = delivered[j]
      BY <3>2, <3>3, <3>4 DEF Inv, DeliveredIntact
    <3>5. CASE delivered'[j] = C
      BY <1>4, <3>3, <3>5 DEF Past
    <3>. QED BY <1>7, <3>4, <3>5
  <2>3. \A i \in 1 .. Len(delivered') : delivered'[i][1][1] \notin discarded'
    <3>1. CASE delivered' = Append(delivered, C) /\ discarded' = discarded
      BY <1>4, <1>5, <1>7, <3>1 DEF Inv, DeliveredIntact, Past
    <3>2. CASE delivered' = delivered /\ discarded' = discarded \cup {p}
      BY <1>4, <1>5, <1>7, <3>2 DEF Inv, DeliveredIntact, Past
    <3>. QED BY <1>4, <3>1, <3>2 DEF C
  <2>. QED BY <2>1, <2>2, <2>3 DEF DeliveredIntact
<1>10. PICK d \in 0 .. N : Ring(d)
  BY DEF Inv
<1>11. Packets(d)' /\ Filled(d)' /\ Engine(d)' /\ N' = N
  BY <1>10, RingKept, EngineKept DEF Inv, Ring
<1>12. Ordered(d)'
  <2>1. N \in Nat /\ hwFrag \in Nat /\ RxActQueue' = RxActQueue /\ nRecv' = nRecv
    BY RxAssumption DEF N, Inv, RingTypes, QueueKept
  <2>2. d + hwFrag <= N
    BY <1>10, <2>1 DEF Ring, Engine, HwStopped, HwRunning
  <2>3. \A i \in 1 .. d + hwFrag : In(RxActQueue[i])' = In(RxActQueue[i])
    BY <1>11, <2>1, <2>2 DEF In, QueueKept
  <2>4. Fills(d)' = 1 .. d + hwFrag /\ Fills(d) = 1 .. d + hwFrag
    BY DEF Fills, QueueKept
  <2>5. \A i \in 1 .. N : SopAt(i)' <=> SopAt(i)
    BY <2>1 DEF SopAt, QueueKept
  <2>6. Past(nRecv + 1)'
    <3>1. Past(nRecv + 1) /\ p < nRecv + 1
      BY <1>4, <1>5, <1>10 DEF Ring, Ordered, p
    <3>2. \A x \in discarded' : x < nRecv + 1
      BY <1>4, <1>5, <1>7, <3>1 DEF Past
    <3>3. \A k \in 1 .. Len(delivered') :
            delivered'[k][1][1] \in Nat /\ delivered'[k][1][1] < nRecv + 1
      BY <1>4, <1>5, <1>7, <3>1 DEF Past
    <3>. QED BY <2>1, <3>2, <3>3 DEF Past
  <2>7. \A i \in 1 .. d + hwFrag : SopAt(i) => Past(In(RxActQueue[i])[1])'
    <3>1. SUFFICES ASSUME NEW i \in 1 .. d + hwFrag, SopAt(i)
                   PROVE  Past(In(RxActQueue[i])[1])'
      OBVIOUS
    <3>. DEFINE n == In(RxActQueue[i])[1]
    <3>2. Past(n) /\ p < n /\ n' = n
      BY <1>10, <2>3, <2>4, <3>1 DEF Ring, Ordered, p
    <3>3. \A x \in discarded' : x < n
      BY <1>4, <1>7, <3>2 DEF Past
    <3>4. \A k \in 1 .. Len(delivered') : delivered'[k][1][1] \in Nat /\ delivered'[k][1][1] < n
      BY <1>4, <1>7, <3>2 DEF Past
    <3>. QED BY <3>2, <3>3, <3>4 DEF Past
  <2>. QED BY <1>11, <2>1, <2>2, <2>4, <2>5, <2>6, <2>7 DEF Ordered
<1>13. (\E d_1 \in 0 .. N : Ring(d_1))'
  BY <1>11, <1>12 DEF Ring
<1>14. InHandIntact'
  BY DEF InHandIntact
<1>. QED BY <1>7, <1>9, <1>13, <1>14 DEF Packet

\* The callback gives up the buffers of the chain, and of no other RCB.
LEMMA GivenUp ==
  ASSUME Inv, pc = "Receive", pc' # "Receive", UNCHANGED <<RcbPool, RxActQueue, Dat>>,
         Hand' = <<>>,
         \A b \in Buf : owner'[b] = "hal" <=> owner[b] = "hal" /\ b \notin BufsOf(chain)
  PROVE  Held'
<1>1. Hand = <<>> /\ RcbsOf(<<>>) = {}
  BY DEF Inv, Stage, Hand, RcbsOf
<1>2. /\ HeldRcbs = RcbsOf(RcbPool) \cup RcbsOf(RxActQueue) \cup RcbsOf(chain)
      /\ HeldRcbs' = RcbsOf(RcbPool) \cup RcbsOf(RxActQueue)
  BY <1>1 DEF HeldRcbs
<1>3. \A r \in RcbsOf(chain) : r \notin HeldRcbs'
  BY <1>2 DEF Inv, Places
<1>4. BufsOf(chain) = {Dat[r] : r \in RcbsOf(chain)}
  BY DEF BufsOf, RcbsOf
<1>5. \A r \in HeldRcbs' : Dat[r] \in Buf /\ Dat[r] \notin BufsOf(chain) /\ owner[Dat[r]] = "hal"
  BY <1>2, <1>3, <1>4 DEF Inv, Held
<1>6. \A b \in Buf : owner'[b] = "hal" => \E r \in HeldRcbs' : Dat[r] = b
  BY <1>2, <1>4 DEF Inv, Held
<1>7. \A r, s \in HeldRcbs' : Dat[r] = Dat[s] => r = s
  BY <1>2 DEF Inv, Held
<1>. QED BY <1>5, <1>6, <1>7 DEF Held

\* A frame goes up to the network stack, and its RCBs to halRxReturn().
LEMMA ReceiveUpStep == Inv /\ ReceiveUp => Inv'
<1>. SUFFICES ASSUME Inv, ReceiveUp PROVE Inv'
  OBVIOUS
<1>. USE DEF ReceiveUp, RxReturn, lists, dma, dev, chan, free, intr
<1>. DEFINE L == Len(chain)
            a == chain[1]
            z == chain[L]
<1>1. /\ L \in Nat /\ L >= 1 /\ chain # <<>> /\ good = <<>> /\ Hand = <<>>
      /\ \A k \in 1 .. L : chain[k] \in RcbsOf(chain) /\ chain[k] \in Rcb
  BY SMTT(30), EmptySeq, LenProperties, Member DEF Inv, RingTypes, Stage, Hand
<1>2. /\ chain' = chain /\ HNext' = [HNext EXCEPT ![z] = NULL] /\ SetMode({a, z}, TRUE)
      /\ pc' = "RxReturn" /\ good' = <<>> /\ Hand' = Hand /\ N' = N /\ RxActQueue' = RxActQueue
  BY <1>1 DEF Hand, N
<1>3. /\ owner' \in [Buf -> {"free", "hal", "os"}]
      /\ \A b \in Buf : owner'[b] = "hal" <=> owner[b] = "hal" /\ b \notin BufsOf(chain)
  <2>1. owner \in [Buf -> {"free", "hal", "os"}] /\ Dat[a] \in Buf
    BY <1>1 DEF Inv, RingTypes, Held, HeldRcbs
  <2>2. CASE L = 1
    <3>1. BufsOf(chain) = {Dat[a]}
      BY <2>2 DEF BufsOf
    <3>. QED BY <2>1, <2>2, <3>1
  <2>3. CASE L # 1
    <3>1. PICK b \in Buf : owner[b] = "free" /\ owner' = [FreeFrags(chain) EXCEPT ![b] = "os"]
      BY <2>3
    <3>. HIDE DEF ReceiveUp
    <3>. QED BY <2>1, <3>1 DEF FreeFrags
  <2>. QED BY <2>2, <2>3
<1>4. /\ Own' \in [Rcb -> BOOLEAN] /\ Eof' \in [Rcb -> BOOLEAN] /\ Eoq' \in [Rcb -> BOOLEAN]
      /\ \A q \in Rcb \ {a, z} : Own'[q] = Own[q] /\ Eof'[q] = Eof[q] /\ Eoq'[q] = Eoq[q]
      /\ \A q \in {a, z} : Own'[q] = TRUE /\ Eof'[q] = FALSE /\ Eoq'[q] = FALSE
  <2>1. SetMode({a, z}, TRUE) /\ RingTypes
    BY <1>2 DEF Inv
  <2>2. a \in Rcb /\ z \in Rcb
    BY <1>1
  <2>. HIDE DEF ReceiveUp, RxReturn, a, z
  <2>3. /\ Own' \in [Rcb -> BOOLEAN] /\ Eof' \in [Rcb -> BOOLEAN] /\ Eoq' \in [Rcb -> BOOLEAN]
        /\ \A q \in Rcb \ {a, z} : Own'[q] = Own[q] /\ Eof'[q] = Eof[q] /\ Eoq'[q] = Eoq[q]
        /\ \A q \in Rcb \cap {a, z} : Own'[q] = TRUE /\ Eof'[q] = FALSE /\ Eoq'[q] = FALSE
    BY <2>1, ModeSet, Zenon
  <2>. QED BY <2>2, <2>3, Zenon
<1>5. \A i \in 1 .. N : RxActQueue[i] \in Rcb /\ RxActQueue[i] # a /\ RxActQueue[i] # z
  BY <1>1, QueueApart
<1>6. QueueKept
  BY <1>4, <1>5 DEF QueueKept
<1>7. /\ (\E d \in 0 .. N : Ring(d))' /\ InHandIntact' /\ DeliveredIntact'
      /\ delivered' \in Seq(Seq((0 .. MaxPkt) \X (0 .. MaxFrags)))
  BY <1>2, <1>6, HandedOver DEF Answered
<1>8. RingTypes'
  <2>1. HNext' \in [Rcb -> Ptr]
    BY <1>1, <1>2 DEF Inv, RingTypes, Ptr
  <2>. HIDE DEF RxReturn
  <2>. QED BY <1>2, <1>3, <1>4, <1>7, <2>1 DEF Inv, RingTypes
<1>9. FlagTypes'
  <2>1. failed' \in BOOLEAN /\ pc' \in Pcs /\ caller' = "RxInt"
    BY DEF Pcs
  <2>2. UNCHANGED <<PacketsServiced, MiiEn, chan, free, intr, RxActive, hwTd, HostErr>>
    OBVIOUS
  <2>. HIDE DEF ReceiveUp, RxReturn
  <2>. QED BY <2>1, <2>2 DEF Inv, FlagTypes
<1>10. Stage'
  BY <1>1, <1>2 DEF Inv, Stage, Handling, InitRcbAdds, Answered
<1>11. Places'
  BY <1>2, PlacesKept DEF Inv
<1>12. Held'
  BY <1>1, <1>2, <1>3, GivenUp
<1>13. Linked'
  <2>1. \A q \in Rcb : q # z => HNext'[q] = HNext[q]
    BY <1>2 DEF Inv, RingTypes
  <2>2. HNext'[z] = NULL
    BY <1>1, <1>2 DEF Inv, RingTypes
  <2>3. \A i \in 1 .. L - 1 : chain[i] # z
    BY <1>1 DEF Inv, Places, Inj
  <2>4. \A i \in 1 .. L - 1 : HNext'[chain[i]] = chain[i + 1]
    BY <1>1, <2>1, <2>3 DEF Inv, Linked
  <2>5. /\ \A i \in 1 .. N - 1 : HNext'[RxActQueue[i]] = RxActQueue[i + 1]
        /\ N > 0 => HNext'[RxActQueue[N]] = NULL
    BY <1>5, <2>1, LenProperties DEF Inv, Linked, N, RingTypes
  <2>. HIDE DEF ReceiveUp, RxReturn
  <2>. QED BY <1>1, <1>2, <2>2, <2>4, <2>5 DEF Linked
<1>14. Marked'
  <2>1. \A i \in 1 .. L : Fresh(chain[i])'
    <3>1. \A i \in 1 .. L : chain[i] \in {a, z} \/ (1 < i /\ i < L)
      BY <1>1
    <3>. QED BY <1>1, <1>2, <1>4, <3>1 DEF Inv, Marked, Fresh
  <2>. QED BY <1>1, <1>2, <2>1 DEF Marked, Fresh
<1>. QED BY <1>7, <1>8, <1>9, <1>10, <1>11, <1>12, <1>13, <1>14 DEF Inv

\* A frame is thrown away, and its RCBs with it.
LEMMA ReceiveDropStep == Inv /\ ReceiveDrop => Inv'
<1>. SUFFICES ASSUME Inv, ReceiveDrop PROVE Inv'
  OBVIOUS
<1>. USE DEF ReceiveDrop, lists, modes, dma, dev, chan, free, intr
<1>1. /\ good = <<>> /\ Hand = <<>> /\ Hand' = <<>> /\ chain' = <<>> /\ N' = N
      /\ RcbsOf(<<>>) = {} /\ Inj(<<>>) /\ RcbsOf(chain) \subseteq Rcb
  BY RcbsAreRcbs DEF Inv, RingTypes, Stage, Hand, N, RcbsOf, Inj
<1>2. owner' \in [Buf -> {"free", "hal", "os"}]
  BY DEF Inv, RingTypes, FreeFrags
<1>3. Held'
  <2>1. \A b \in Buf : owner'[b] = "hal" <=> owner[b] = "hal" /\ b \notin BufsOf(chain)
    BY DEF FreeFrags
  <2>. QED BY <1>1, <2>1, GivenUp
<1>4. QueueKept
  BY DEF QueueKept
<1>5. /\ (\E d \in 0 .. N : Ring(d))' /\ InHandIntact' /\ DeliveredIntact'
      /\ discarded' \subseteq 0 .. MaxPkt
  BY <1>4, HandedOver DEF Answered
<1>6. RingTypes'
  BY <1>1, <1>2, <1>5 DEF Inv, RingTypes
<1>7. FlagTypes'
  BY DEF Inv, FlagTypes, Pcs
<1>8. Stage'
  BY <1>1 DEF Inv, Stage, Handling, InitRcbAdds, Answered
<1>9. Places'
  <2>1. /\ RcbsOf(RcbPool)' = RcbsOf(RcbPool) /\ RcbsOf(RxActQueue)' = RcbsOf(RxActQueue)
        /\ RcbsOf(Needs)' = RcbsOf(Needs) /\ RcbsOf(chain)' = {}
        /\ RcbsOf(Hand)' = {} /\ RcbsOf(Hand) = {}
    BY <1>1 DEF RcbsOf
  <2>2. /\ Inj(RcbPool)' <=> Inj(RcbPool)
        /\ Inj(RxActQueue)' <=> Inj(RxActQueue)
        /\ Inj(Needs)' <=> Inj(Needs)
        /\ Inj(chain)' /\ Inj(Hand)'
    BY <1>1 DEF Inj
  <2>3. lost' = lost \cup RcbsOf(chain) /\ nRcb' = nRcb
    OBVIOUS
  <2>. QED BY <2>1, <2>2, <2>3 DEF Inv, Places
<1>10. Linked' /\ Marked'
  BY <1>1 DEF Inv, Linked, Marked
<1>. QED BY <1>3, <1>5, <1>6, <1>7, <1>8, <1>9, <1>10 DEF Inv

-----------------------------------------------------------------------------
(* AddToRxQueue().                                                         *)

\* The first run is queued when the engine stands still, and starts it.
LEMMA AddToRxQueueFirstStep == Inv /\ AddToRxQueueFirst => Inv'
<1>. SUFFICES ASSUME Inv, AddToRxQueueFirst PROVE Inv'
  OBVIOUS
<1>. USE DEF AddToRxQueueFirst, modes, bufs, dev, chan, free, intr, hist
<1>1. /\ N = 0 /\ RxActive = FALSE /\ caller = "InitRcb" /\ chain = <<>> /\ good # <<>>
      /\ Hand = good
  BY EmptySeq DEF Inv, Stage, N, Handling, InitRcbAdds, Answered, FlagTypes, Hand
<1>2. /\ RxActQueue' = good /\ good' = <<>> /\ pc' = "InitRcb" /\ RxActive' = TRUE
      /\ Hand' = <<>> /\ N' = Len(good) /\ WriteHDP(good[1])
  BY <1>1 DEF Continue, Hand, N
<1>3. /\ good \in Seq(Rcb) /\ Len(good) \in Nat /\ Len(good) >= 1
      /\ \A i \in 1 .. Len(good) : good[i] \in Rcb /\ Fresh(good[i])
  BY <1>1, EmptySeq, LenProperties DEF Inv, RingTypes, Marked
<1>4. /\ Engine(0) /\ Past(nRecv + 1) /\ hwPtr = NULL /\ hwCur = NULL /\ hwLatch = NULL
      /\ hwSop = NULL /\ hwFrag = 0
  BY <1>1 DEF Inv, Ring, Ordered, Engine, HwStopped, HwRunning
<1>5. /\ hwPtr' = good[1] /\ hwCur' = NULL /\ hwLatch' = NULL /\ hwSop' = NULL /\ hwFrag' = 0
      /\ HostErr' = HostErr /\ hwTd' = hwTd
  BY <1>2, <1>4 DEF WriteHDP, HwIdle, Inv, Stage, FlagTypes
<1>6. RingTypes'
  BY SMTT(30), <1>2, <1>3, <1>5, RxAssumption DEF Inv, RingTypes, Ptr
<1>7. FlagTypes'
  BY <1>2, <1>5 DEF Inv, FlagTypes, Pcs
<1>8. Stage'
  BY <1>1, <1>2, <1>3, <1>5 DEF Inv, Stage, Handling, InitRcbAdds, Answered
<1>9. Places'
  <2>1. /\ RcbsOf(RcbPool)' = RcbsOf(RcbPool) /\ RcbsOf(RxActQueue)' = RcbsOf(Hand)
        /\ RcbsOf(Needs)' = RcbsOf(Needs) /\ RcbsOf(chain)' = RcbsOf(chain)
        /\ RcbsOf(Hand)' = {} /\ RcbsOf(RxActQueue) = {}
    BY <1>1, <1>2 DEF RcbsOf
  <2>2. /\ Inj(RcbPool)' <=> Inj(RcbPool)
        /\ Inj(RxActQueue)' <=> Inj(Hand)
        /\ Inj(Needs)' <=> Inj(Needs)
        /\ Inj(chain)' <=> Inj(chain)
        /\ Inj(Hand)'
    BY <1>1, <1>2 DEF Inj
  <2>3. nRcb' = nRcb /\ lost' = lost
    OBVIOUS
  <2>. HIDE DEF AddToRxQueueFirst
  <2>. QED BY <2>1, <2>2, <2>3 DEF Inv, Places
<1>10. Held'
  <2>1. HeldRcbs' = HeldRcbs
    BY <1>1, <1>2 DEF HeldRcbs, RcbsOf
  <2>. QED BY <2>1 DEF Inv, Held
<1>11. Linked'
  <2>1. \A i \in 1 .. Len(good) - 1 : HNext[good[i]] = good[i + 1]
    BY <1>1 DEF Inv, Linked
  <2>2. HNext[good[Len(good)]] = NULL
    BY DEF Inv, Linked
  <2>. QED BY <1>1, <1>2, <2>1, <2>2 DEF Linked
<1>12. Marked' /\ InHandIntact' /\ DeliveredIntact'
  BY <1>1, <1>2 DEF Inv, Marked, InHandIntact, DeliveredIntact
<1>13. Ring(0)'
  <2>1. \A i \in 1 .. Len(good) : Own'[good[i]] /\ ~Eof'[good[i]] /\ ~Eoq'[good[i]]
    BY <1>3 DEF Fresh
  <2>2. Packets(0)'
    BY <1>2, <1>3, <2>1 DEF Packets, NoEof
  <2>3. Engine(0)'
    BY <1>2, <1>3, <1>5, <2>1 DEF Engine, HwRunning
  <2>4. Filled(0)' /\ Ordered(0)'
    BY <1>2, <1>4, <1>5 DEF Filled, Ordered, Fills, Past
  <2>. QED BY <2>2, <2>3, <2>4 DEF Ring
<1>. QED BY <1>2, <1>3, <1>6, <1>7, <1>8, <1>9, <1>10, <1>11, <1>12, <1>13 DEF Inv

\* A run behind the queue changes nothing in front of it.
LEMMA QueueGrows ==
  ASSUME RingTypes, N > 0, NEW d \in 0 .. N, Ring(d), NEW t \in Seq(Rcb),
         \A i \in 1 .. Len(t) : Fresh(t[i]),
         N' = N + Len(t), \A i \in 1 .. N : RxActQueue'[i] = RxActQueue[i],
         \A i \in 1 .. Len(t) : RxActQueue'[N + i] = t[i], pc' # "Receive",
         UNCHANGED <<modes, Dat, data, hwPtr, hwCur, hwLatch, hwSop, hwFrag, nRecv, delivered,
                     discarded>>,
         Answered => Answered'
  PROVE  Ring(d)' /\ d \in 0 .. N'
<1>. USE DEF modes
<1>1. /\ N \in Nat /\ Len(t) \in Nat /\ hwFrag \in Nat /\ N' = N + Len(t)
      /\ \A i \in 1 .. N : RxActQueue'[i] = RxActQueue[i]
      /\ \A i \in 1 .. Len(t) : RxActQueue'[N + i] = t[i]
  <2>1. N \in Nat /\ hwFrag \in Nat
    BY LenProperties, RxAssumption DEF RingTypes, N
  <2>2. Len(t) \in Nat
    BY LenProperties
  <2>. QED BY <2>1, <2>2
<1>2. \A i \in N + 1 .. N' : Fresh(RxActQueue'[i])
  <2>1. TAKE i \in N + 1 .. N'
  <2>2. i - N \in 1 .. Len(t) /\ N + (i - N) = i
    BY <1>1
  <2>. QED BY <1>1, <2>2
<1>3. \A i \in 1 .. N' : i \in 1 .. N \/ i \in N + 1 .. N'
  BY <1>1
<1>4. \A i \in 1 .. N + 1 : SopAt(i)' <=> SopAt(i)
  BY <1>1 DEF SopAt
<1>5. \A i, j \in 0 .. N : NoEof(i + 1, j)' <=> NoEof(i + 1, j)
  BY <1>1 DEF NoEof
<1>6. Packets(d)'
  <2>1. d > 0 => Eof'[RxActQueue'[d]]
    BY <1>1 DEF Ring, Packets
  <2>2. NoEof(d + 1, N)'
    <3>1. \A i \in d + 1 .. N' : ~Eof[RxActQueue'[i]]
      BY <1>1, <1>2, <1>3 DEF Ring, Packets, NoEof, Fresh
    <3>. QED BY <3>1 DEF NoEof
  <2>3. \A i \in 1 .. N' : Own'[RxActQueue'[i]] <=> ~(SopAt(i)' /\ i <= d)
    <3>1. TAKE i \in 1 .. N'
    <3>2. CASE i \in 1 .. N
      BY <1>1, <1>4, <3>2 DEF Ring, Packets
    <3>3. CASE i \in N + 1 .. N'
      <4>1. ~(i <= d) /\ Own[RxActQueue'[i]]
        BY <1>1, <1>2, <3>3 DEF Fresh
      <4>. QED BY <4>1
    <3>. QED BY <1>3, <3>2, <3>3
  <2>4. \A i \in 1 .. d : SopAt(i)' => \E e \in i .. d : Eof'[RxActQueue'[e]] /\ NoEof(i, e - 1)'
    <3>1. SUFFICES ASSUME NEW i \in 1 .. d, SopAt(i)'
                   PROVE  \E e \in i .. d : Eof'[RxActQueue'[e]] /\ NoEof(i, e - 1)'
      OBVIOUS
    <3>2. PICK e \in i .. d : Eof[RxActQueue[e]] /\ NoEof(i, e - 1)
      BY <1>1, <1>4, <3>1 DEF Ring, Packets
    <3>3. e \in 1 .. N /\ Eof'[RxActQueue'[e]]
      BY <1>1, <3>2
    <3>4. NoEof(i, e - 1)'
      BY <1>1, <3>2 DEF NoEof
    <3>. QED BY <3>3, <3>4
  <2>5. \A i \in 1 .. N' : Eoq'[RxActQueue'[i]] => i = d
    BY <1>1, <1>2, <1>3 DEF Ring, Packets, Fresh
  <2>. QED BY <2>1, <2>2, <2>3, <2>4, <2>5 DEF Packets
<1>7. Engine(d)'
  <2>1. \A i \in 1 .. N' : Eoq'[RxActQueue'[i]] => i \in 1 .. N /\ Eoq[RxActQueue[i]]
    BY <1>1, <1>2, <1>3 DEF Fresh
  <2>2. CASE HwStopped(d)
    BY <1>1, <2>2 DEF Ring, Engine, HwStopped
  <2>3. CASE HwRunning(d)
    <3>1. hwSop = IF hwFrag = 0 THEN NULL ELSE RxActQueue[d + 1]
      BY DEF Ring, Engine
    <3>2. HwRunning(d)'
      BY <1>1, <2>1, <2>3 DEF HwRunning
    <3>. QED BY <1>1, <2>3, <3>1, <3>2 DEF Engine, HwRunning
  <2>. QED BY <2>2, <2>3 DEF Ring, Engine
<1>8. d + hwFrag <= N
  BY <1>1 DEF Ring, Engine, HwStopped, HwRunning
<1>9. /\ Fills(d)' = 1 .. d + hwFrag /\ Fills(d) = 1 .. d + hwFrag
      /\ \A i \in 1 .. d + hwFrag : In(RxActQueue[i])' = In(RxActQueue[i])
  BY <1>1, <1>8 DEF Fills, In
<1>10. \A i, j \in 1 .. N : NoEof(i, j - 1)' <=> NoEof(i, j - 1)
  BY <1>1 DEF NoEof
<1>11. Filled(d)'
  <2>1. \A i, j \in 1 .. d + hwFrag : SopAt(i)' /\ i <= j /\ NoEof(i, j - 1)' =>
          In(RxActQueue[j])' = <<In(RxActQueue[i])'[1], j - i + 1>>
    <3>1. SUFFICES ASSUME NEW i \in 1 .. d + hwFrag, NEW j \in 1 .. d + hwFrag,
                          SopAt(i)', i <= j, NoEof(i, j - 1)'
                   PROVE  In(RxActQueue[j])' = <<In(RxActQueue[i])'[1], j - i + 1>>
      OBVIOUS
    <3>2. i \in 1 .. N /\ j \in 1 .. N /\ i \in 1 .. N + 1
      BY <1>1, <1>8
    <3>3. SopAt(i) /\ NoEof(i, j - 1)
      BY <1>4, <1>10, <3>1, <3>2
    <3>4. In(RxActQueue[j]) = <<In(RxActQueue[i])[1], j - i + 1>>
      BY <1>9, <3>1, <3>3 DEF Ring, Filled
    <3>. QED BY <1>9, <3>4
  <2>2. \A i, j \in 1 .. d + hwFrag : SopAt(i)' /\ SopAt(j)' /\ i < j =>
          In(RxActQueue[i])'[1] < In(RxActQueue[j])'[1]
    BY <1>1, <1>4, <1>8, <1>9 DEF Ring, Filled
  <2>3. /\ \A i \in 1 .. d + hwFrag : In(RxActQueue[i])'[1] <= nRecv
        /\ hwFrag > 0 => In(RxActQueue[d + 1])'[1] = nRecv
    BY <1>1, <1>8, <1>9 DEF Ring, Filled
  <2>. QED BY <1>9, <2>1, <2>2, <2>3 DEF Filled
<1>12. Ordered(d)'
  <2>1. \A i \in 1 .. d + hwFrag : Past(In(RxActQueue[i])[1])' <=> Past(In(RxActQueue[i])[1])
    BY <1>9 DEF Past
  <2>2. Past(nRecv + 1)'
    BY DEF Ring, Ordered, Past
  <2>. QED BY <1>1, <1>4, <1>8, <1>9, <2>1, <2>2 DEF Ring, Ordered
<1>. QED BY <1>1, <1>6, <1>7, <1>11, <1>12 DEF Ring

\* The run is linked behind the old tail.
LEMMA AddToRxQueueLinkStep == Inv /\ AddToRxQueueLink => Inv'
<1>. SUFFICES ASSUME Inv, AddToRxQueueLink PROVE Inv'
  OBVIOUS
<1>. DEFINE z == RxActQueue[N]
            Q == RxActQueue \o good
<1>1. /\ pc = "AddToRxQueue" /\ pc' = "TestEoq" /\ OldTailRcb' = z /\ RxActQueue' = Q
      /\ HNext' = [HNext EXCEPT ![z] = good[1]] /\ RxActQueue # <<>>
      /\ UNCHANGED <<RcbPool, RxActive, Needs, modes, Dat, bufs, caller, chain, good, failed,
                     PacketsServiced, dma, dev, intr, hist>>
  BY DEF AddToRxQueueLink, N
<1>2. /\ N \in Nat /\ N > 0 /\ z \in Rcb /\ good # <<>> /\ good \in Seq(Rcb) /\ Len(good) \in Nat
      /\ Len(good) >= 1 /\ \A i \in 1 .. Len(good) : good[i] \in Rcb
      /\ \A i \in 1 .. N : RxActQueue[i] \in Rcb
      /\ Hand = good /\ Hand' = <<>> /\ RxActQueue \in Seq(Rcb)
  BY <1>1, EmptySeq, LenProperties, SMTT(30) DEF Inv, RingTypes, N, Stage, Hand
<1>3. /\ Q \in Seq(Rcb) /\ Len(Q) = N + Len(good)
      /\ \A i \in 1 .. N : Q[i] = RxActQueue[i]
      /\ \A i \in 1 .. Len(good) : Q[N + i] = good[i]
      /\ RcbsOf(Q) = RcbsOf(RxActQueue) \cup RcbsOf(good) /\ Inj(Q)
  BY <1>2, Joined, JoinedRcbs DEF N, Inv, Places
<1>. HIDE DEF Q
<1>4. N' = Len(Q)
  BY <1>1 DEF N
<1>5. RingTypes'
  BY SMTT(30), <1>1, <1>2, <1>3 DEF Inv, RingTypes, modes, bufs, dma, dev, chan, hist, Ptr
<1>6. FlagTypes'
  BY <1>1 DEF Inv, FlagTypes, Pcs, dma, dev, chan, free, intr
<1>7. Stage'
  <2>1. N \in 1 .. N' - 1 /\ OldTailRcb' = RxActQueue'[N] /\ good'[1] = RxActQueue'[N + 1]
    BY <1>1, <1>2, <1>3, <1>4
  <2>. HIDE DEF z
  <2>2. UNCHANGED <<RxActive, caller, chain, good, HostErr, foreignFree, rxInt, opens, nRcb, RcbStart,
                   lost>>
    BY <1>1 DEF dma, dev, chan, free, intr, hist
  <2>3. N' > 0
    BY <1>2, <1>3, <1>4
  <2>. QED BY <1>1, <1>2, <2>1, <2>2, <2>3 DEF Inv, Stage, Handling, InitRcbAdds, Answered
<1>8. Places'
  <2>1. /\ RcbsOf(RcbPool)' = RcbsOf(RcbPool) /\ RcbsOf(RxActQueue)' = RcbsOf(RxActQueue) \cup RcbsOf(Hand)
        /\ RcbsOf(Needs)' = RcbsOf(Needs) /\ RcbsOf(chain)' = RcbsOf(chain)
        /\ RcbsOf(Hand)' = {}
    <3>1. RcbsOf(RxActQueue)' = RcbsOf(Q)
      BY <1>1 DEF RcbsOf
    <3>2. /\ RcbsOf(RcbPool)' = RcbsOf(RcbPool) /\ RcbsOf(Needs)' = RcbsOf(Needs)
          /\ RcbsOf(chain)' = RcbsOf(chain) /\ RcbsOf(Hand)' = {}
      BY <1>1, <1>2 DEF RcbsOf
    <3>. QED BY <1>2, <1>3, <3>1, <3>2
  <2>2. /\ Inj(RcbPool)' <=> Inj(RcbPool)
        /\ Inj(RxActQueue)'
        /\ Inj(Needs)' <=> Inj(Needs)
        /\ Inj(chain)' <=> Inj(chain)
        /\ Inj(Hand)'
    BY <1>1, <1>2, <1>3 DEF Inj
  <2>3. nRcb' = nRcb /\ lost' = lost
    BY <1>1 DEF dev, chan, hist
  <2>. QED BY <2>1, <2>2, <2>3 DEF Inv, Places
<1>9. Held'
  <2>1. HeldRcbs' = HeldRcbs
    <3>1. RcbsOf(RxActQueue)' = RcbsOf(Q) /\ RcbsOf(RcbPool)' = RcbsOf(RcbPool) /\ RcbsOf(Hand)' = {}
      BY <1>1, <1>2 DEF RcbsOf
    <3>. QED BY <1>1, <1>2, <1>3, <3>1 DEF HeldRcbs
  <2>. QED BY <1>1, <2>1 DEF Inv, Held, bufs
<1>10. Linked'
  <2>1. HNext'[z] = good[1] /\ \A q \in Rcb : q # z => HNext'[q] = HNext[q]
    BY <1>1, <1>2 DEF Inv, RingTypes
  <2>2. z \in RcbsOf(RxActQueue)
    BY <1>2, Member DEF N
  <2>3. \A i \in 1 .. N - 1 : RxActQueue[i] # z
    BY <1>2 DEF Inv, Places, Inj, N
  <2>4. \A i \in 1 .. Len(good) : good[i] # z
    BY <1>2, <2>2, Member DEF Inv, Places
  <2>5. \A i \in 1 .. Len(chain) : chain[i] # z /\ chain[i] \in Rcb
    BY <2>2, Member DEF Inv, Places, RingTypes
  <2>. HIDE DEF z
  <2>6. \A i \in 1 .. N' - 1 : HNext'[Q[i]] = Q[i + 1]
    <3>1. TAKE i \in 1 .. N' - 1
    <3>2. CASE i < N
      <4>1. i \in 1 .. N - 1 /\ i \in 1 .. N /\ i + 1 \in 1 .. N
        BY <1>2, <3>2
      <4>2. HNext[RxActQueue[i]] = RxActQueue[i + 1]
        BY <4>1 DEF Inv, Linked
      <4>. QED BY <1>2, <1>3, <2>1, <2>3, <4>1, <4>2
    <3>3. CASE i = N
      BY <1>2, <1>3, <2>1, <3>3 DEF z
    <3>4. CASE i > N
      <4>1. i - N \in 1 .. Len(good) - 1 /\ N + (i - N) = i /\ N + (i - N + 1) = i + 1
        BY <1>2, <1>3, <1>4, <3>4
      <4>2. HNext[good[i - N]] = good[i - N + 1]
        BY <1>2, <4>1 DEF Inv, Linked
      <4>. QED BY <1>2, <1>3, <2>1, <2>4, <4>1, <4>2
    <3>. QED BY <1>2, <1>3, <1>4, <3>2, <3>3, <3>4
  <2>7. HNext'[Q[N']] = NULL
    <3>1. HNext[good[Len(good)]] = NULL
      BY <1>1 DEF Inv, Linked
    <3>2. Q[N'] = good[Len(good)]
      BY <1>2, <1>3, <1>4
    <3>. QED BY <1>2, <2>1, <2>4, <3>1, <3>2
  <2>8. /\ \A i \in 1 .. Len(chain) - 1 : HNext'[chain[i]] = chain[i + 1]
        /\ chain # <<>> => HNext'[chain[Len(chain)]] = NULL
    BY SMTT(30), <1>1, <2>1, <2>5, EmptySeq, LenProperties DEF Inv, Linked, RingTypes
  <2>. QED BY <1>1, <1>2, <2>6, <2>7, <2>8 DEF Linked
<1>11. Marked' /\ InHandIntact' /\ DeliveredIntact'
  BY <1>1, <1>2 DEF Inv, Marked, Fresh, InHandIntact, DeliveredIntact, modes, hist
<1>12. PICK d \in 0 .. N : Ring(d)
  BY DEF Inv
<1>13. \A i \in 1 .. Len(good) : Fresh(good[i])
  BY <1>2 DEF Inv, Marked
<1>14. Ring(d)' /\ d \in 0 .. N'
  BY <1>1, <1>2, <1>3, <1>4, <1>12, <1>13, QueueGrows DEF Inv, modes, bufs, dma, dev, chan, hist, Answered
<1>. QED BY <1>5, <1>6, <1>7, <1>8, <1>9, <1>10, <1>11, <1>14 DEF Inv

\* The old tail carries EOQ if and only if the engine stopped at it before it was
\* linked; then it is restarted at the run.
LEMMA AddToRxQueueTestEoqStep == Inv /\ AddToRxQueueTestEoq => Inv'
<1>. SUFFICES ASSUME Inv, AddToRxQueueTestEoq PROVE Inv'
  OBVIOUS
<1>1. /\ pc = "TestEoq" /\ good' = <<>> /\ OldTailRcb' = NULL /\ pc' = Continue(chain, failed)
      /\ UNCHANGED <<lists, HNext, Own, Eof, Dat, bufs, caller, chain, failed,
                     PacketsServiced, dev, intr, hist>>
      /\ IF Eoq[OldTailRcb] THEN WriteHDP(good[1]) /\ Eoq' = EoqAfterRestart
                            ELSE UNCHANGED <<dma, Eoq>>
  BY DEF AddToRxQueueTestEoq
<1>2. PICK k \in 1 .. N - 1 : OldTailRcb = RxActQueue[k] /\ good[1] = RxActQueue[k + 1]
  BY <1>1 DEF Inv, Stage
<1>3. /\ pc' \in {"RxReturn", "RxTop", "InitRcb", "NeedsCheck", "RxInt"}
      /\ pc' = "RxReturn" <=> chain # <<>>
      /\ pc' = "RxReturn" => caller # "InitRcb"
      /\ pc' = "InitRcb" => caller = "InitRcb"
  BY <1>1 DEF Inv, Stage, FlagTypes, Continue, InitRcbAdds, Answered
<1>4. /\ Hand = <<>> /\ Hand' = <<>> /\ N' = N /\ N \in Nat /\ N > 0 /\ RxActQueue' = RxActQueue
      /\ \A i \in 1 .. N : RxActQueue[i] \in Rcb
  BY <1>1, <1>2, <1>3, LenProperties DEF Hand, N, lists, Inv, RingTypes
<1>5. PICK d \in 0 .. N : Ring(d)
  BY DEF Inv
<1>6. ASSUME Eoq[OldTailRcb]
      PROVE  /\ d = k /\ d > 0 /\ hwFrag = 0 /\ hwPtr = NULL /\ hwCur = NULL /\ hwLatch = NULL
             /\ hwSop = NULL
             /\ hwPtr' = RxActQueue[d + 1] /\ HostErr' = HostErr
             /\ Eoq' = [Eoq EXCEPT ![RxActQueue[d]] = FALSE]
             /\ UNCHANGED <<hwCur, hwLatch, hwSop, hwFrag, hwTd>>
  <2>1. d = k /\ k \in 1 .. N /\ k + 1 \in 1 .. N
    BY <1>2, <1>4, <1>5, <1>6 DEF Ring, Packets
  <2>2. HwStopped(d) /\ hwSop = NULL
    BY <1>2, <1>5, <1>6, <2>1 DEF Ring, Engine, HwRunning, HwStopped
  <2>3. WriteHDP(good[1]) /\ Eoq' = EoqAfterRestart
    BY <1>1, <1>6
  <2>. QED BY <1>2, <2>1, <2>2, <2>3
       DEF HwStopped, WriteHDP, HwIdle, EoqAfterRestart, Inv, Stage, FlagTypes
<1>7. ~Eoq[OldTailRcb] => UNCHANGED <<dma, Eoq>>
  BY <1>1
<1>8. /\ HostErr' = HostErr /\ hwTd' = hwTd
      /\ UNCHANGED <<hwCur, hwLatch, hwSop, hwFrag>>
      /\ hwPtr' \in Ptr /\ Eoq' \in [Rcb -> BOOLEAN]
      /\ \A q \in Rcb \ {RxActQueue[k]} : Eoq'[q] = Eoq[q]
  <2>1. CASE Eoq[OldTailRcb]
    <3>1. RxActQueue[d] \in Rcb /\ RxActQueue[d + 1] \in Rcb
      BY <1>4, <1>6, <2>1
    <3>2. Eoq' \in [Rcb -> BOOLEAN]
      BY <1>6, <2>1, Zenon DEF Inv, RingTypes
    <3>. QED BY <1>6, <2>1, <3>1, <3>2 DEF Inv, RingTypes, Ptr
  <2>2. CASE ~Eoq[OldTailRcb]
    BY <1>7, <2>2 DEF dma, Inv, RingTypes
  <2>. QED BY <2>1, <2>2
<1>9. RingTypes'
  <2>1. <<>> \in Seq(Rcb) /\ NULL \in Ptr
    BY DEF Ptr
  <2>. QED BY <1>1, <1>8, <2>1 DEF Inv, RingTypes, lists, bufs, dev, chan, hist
<1>10. FlagTypes'
  BY <1>1, <1>3, <1>8 DEF Inv, FlagTypes, Pcs, dev, chan, free, intr, lists
<1>11. Stage'
  BY <1>1, <1>3, <1>4, <1>8 DEF Inv, Stage, Handling, InitRcbAdds, Answered, dev, chan, free, intr, lists, hist
<1>12. Places'
  BY <1>1, <1>4, PlacesKept DEF Inv, lists, dev, chan, hist
<1>13. Held'
  BY <1>1, <1>3, <1>4, HeldKept DEF Inv, lists, bufs
<1>14. Linked'
  BY <1>1, <1>3, <1>4 DEF Inv, Linked, lists
<1>15. Marked'
  <2>1. \A i \in 1 .. Len(chain) : chain[i] \in Rcb /\ chain[i] # RxActQueue[k]
    <3>1. RxActQueue[k] \in RcbsOf(RxActQueue)
      BY <1>2, <1>4, Member DEF N
    <3>. QED BY <3>1, Member DEF Inv, RingTypes, Places
  <2>2. \A i \in 1 .. Len(chain) : Fresh(chain[i])
    BY <1>1 DEF Inv, Marked
  <2>. QED BY <1>1, <1>3, <1>4, <1>8, <2>1, <2>2 DEF Marked, Fresh
<1>16. CASE ~Eoq[OldTailRcb]
  <2>1. QueueKept
    BY <1>1, <1>4, <1>7, <1>16 DEF QueueKept, lists, bufs, dma, hist
  <2>. QED BY <1>1, <1>3, <1>7, <1>9, <1>10, <1>11, <1>12, <1>13, <1>14, <1>15, <1>16, <2>1, RingAlone
       DEF Inv, dma, dev, chan, hist, Answered
<1>17. CASE Eoq[OldTailRcb]
  <2>1. \A i \in 1 .. N : ~Eoq'[RxActQueue[i]]
    BY <1>2, <1>4, <1>5, <1>6, <1>8, <1>17 DEF Ring, Packets, Inv, RingTypes
  <2>2. \A i \in 1 .. N + 1 : SopAt(i)' <=> SopAt(i)
    BY <1>1, <1>4 DEF SopAt
  <2>3. \A i, j \in Int : NoEof(i, j)' <=> NoEof(i, j)
    BY <1>1, <1>4 DEF NoEof
  <2>4. Packets(d)'
    BY SMTT(30), <1>1, <1>4, <1>5, <2>1, <2>2, <2>3 DEF Ring, Packets
  <2>5. Engine(d)'
    BY <1>2, <1>4, <1>6, <1>17, <2>1 DEF Engine, HwRunning
  <2>6. Fills(d)' = Fills(d) /\ \A q : In(q)' = In(q)
    BY <1>1, <1>6, <1>17 DEF Fills, In, bufs
  <2>7. hwFrag' = hwFrag /\ hwFrag = 0 /\ nRecv' = nRecv /\ d + hwFrag <= N /\ Fills(d) = 1 .. d
    BY <1>1, <1>6, <1>17 DEF hist, Fills
  <2>8. Filled(d)'
    BY <1>4, <1>5, <2>2, <2>3, <2>6, <2>7 DEF Ring, Filled
  <2>9. Ordered(d)'
    BY <1>1, <1>3, <1>4, <1>5, <2>2, <2>6, <2>7 DEF Ring, Ordered, Past, hist
  <2>10. InHandIntact' /\ DeliveredIntact'
    BY <1>1, <1>3 DEF Inv, InHandIntact, DeliveredIntact, hist
  <2>. QED BY <1>4, <1>9, <1>10, <1>11, <1>12, <1>13, <1>14, <1>15, <2>4, <2>5, <2>8, <2>9, <2>10
       DEF Inv, Ring
<1>. QED BY <1>16, <1>17

-----------------------------------------------------------------------------
(* RxInt().                                                                *)

\* The fragment loop ends at the EOP of the packet at the head of the queue, which
\* is one of those that are complete.
LEMMA HeadPacket ==
  ASSUME RingTypes, N > 0, NEW d \in 0 .. N, Packets(d), HeadDone
  PROVE  \E e \in 1 .. d : /\ Eof[RxActQueue[e]] /\ NoEof(1, e - 1)
                           /\ HeadFrags = SubSeq(RxActQueue, 1, e)
<1>1. N \in Nat /\ N = Len(RxActQueue)
  BY LenProperties DEF RingTypes, N
<1>2. d >= 1
  BY <1>1 DEF Packets, HeadDone
<1>3. PICK e \in 1 .. d : Eof[RxActQueue[e]] /\ NoEof(1, e - 1)
  BY <1>1, <1>2 DEF Packets, SopAt
<1>. DEFINE ends == {i \in 1 .. Len(RxActQueue) : Eof[RxActQueue[i]] \/ i = Len(RxActQueue)}
<1>4. e \in ends /\ \A j \in ends : e <= j
  BY <1>1, <1>3 DEF NoEof
<1>5. (CHOOSE i \in ends : \A j \in ends : i <= j) = e
  <2>1. \A i \in ends : (\A j \in ends : i <= j) => i = e
    BY <1>1, <1>4
  <2>. HIDE DEF ends
  <2>. QED BY <1>4, <2>1
<1>. QED BY <1>3, <1>5 DEF HeadFrags

\* The only packet is thrown away, and the engine, which has stopped behind it, gets
\* its RCBs back.
LEMMA RxIntRecycleStep == Inv /\ RxIntRecycle => Inv'
<1>. SUFFICES ASSUME Inv, RxIntRecycle PROVE Inv'
  OBVIOUS
<1>1. PICK d \in 0 .. N : Ring(d)
  BY DEF Inv
<1>2. /\ N \in Nat /\ N > 0 /\ N = Len(RxActQueue) /\ Hand = <<>> /\ chain = <<>> /\ good = <<>>
      /\ pc = "RxInt" /\ RxActQueue \in Seq(Rcb)
      /\ \A i \in 1 .. N : RxActQueue[i] \in Rcb
  BY LenProperties DEF RxIntRecycle, Inv, RingTypes, Stage, Handling, N, Hand
<1>3. PICK e \in 1 .. d : /\ Eof[RxActQueue[e]] /\ NoEof(1, e - 1)
                          /\ HeadFrags = SubSeq(RxActQueue, 1, e)
  BY <1>1, <1>2, HeadPacket DEF RxIntRecycle, Inv, Ring
<1>4. e = N /\ d = N /\ HeadFrags[1] = RxActQueue[1] /\ HeadFrags[Len(HeadFrags)] = RxActQueue[N]
  <2>1. Len(HeadFrags) = e /\ \A i \in 1 .. e : HeadFrags[i] = RxActQueue[i]
    BY <1>2, <1>3, Cut
  <2>2. Len(HeadFrags) = N
    BY <1>2 DEF RxIntRecycle, OnlyPacket
  <2>. QED BY <1>2, <2>1, <2>2
<1>. DEFINE a == RxActQueue[1]
            z == RxActQueue[N]
            p == In(a)[1]
<1>5. /\ rxInt' = (rxInt /\ cp # z) /\ SetMode({a, z}, TRUE) /\ WriteHDP(a)
      /\ discarded' = discarded \cup {p}
      /\ pc' = "idle" /\ PacketsServiced' = 0
      /\ tasklet' = tasklet /\ armed' = TRUE
      /\ UNCHANGED <<lists, HNext, Dat, bufs, caller, chain, good, OldTailRcb, failed, dev, cp,
                     nRecv, delivered, lost>>
  <2>1. tasklet' = tasklet /\ armed' = TRUE
    BY DEF RxIntRecycle, RxIntReturn, Inv, FlagTypes
  <2>. QED BY <1>4, <2>1 DEF RxIntRecycle, RxIntReturn, In
<1>6. /\ HwStopped(N) /\ hwFrag = 0 /\ hwSop = NULL
  BY <1>1, <1>2, <1>4, RxAssumption DEF Ring, Engine, HwRunning, HwStopped, Inv, RingTypes
<1>7. /\ hwPtr' = a /\ hwCur' = NULL /\ hwLatch' = NULL /\ hwSop' = NULL /\ hwFrag' = 0
      /\ HostErr' = HostErr /\ hwTd' = hwTd
  BY <1>5, <1>6 DEF HwStopped, WriteHDP, HwIdle, Inv, Stage, FlagTypes
<1>8. a \in Rcb /\ z \in Rcb /\ N' = N /\ Hand' = Hand /\ RxActQueue' = RxActQueue
  BY <1>2, <1>5 DEF N, lists, Hand
<1>9. /\ Own' \in [Rcb -> BOOLEAN] /\ Eof' \in [Rcb -> BOOLEAN] /\ Eoq' \in [Rcb -> BOOLEAN]
      /\ \A q \in Rcb \ {a, z} : Own'[q] = Own[q] /\ Eof'[q] = Eof[q] /\ Eoq'[q] = Eoq[q]
      /\ \A q \in {a, z} : Own'[q] = TRUE /\ Eof'[q] = FALSE /\ Eoq'[q] = FALSE
  <2>1. RingTypes /\ SetMode({a, z}, TRUE)
    BY <1>5 DEF Inv
  <2>. HIDE DEF a, z
  <2>2. /\ Own' \in [Rcb -> BOOLEAN] /\ Eof' \in [Rcb -> BOOLEAN] /\ Eoq' \in [Rcb -> BOOLEAN]
        /\ \A q \in Rcb \ {a, z} : Own'[q] = Own[q] /\ Eof'[q] = Eof[q] /\ Eoq'[q] = Eoq[q]
        /\ \A q \in Rcb \cap {a, z} : Own'[q] = TRUE /\ Eof'[q] = FALSE /\ Eoq'[q] = FALSE
    BY <2>1, ModeSet, Zenon
  <2>. QED BY <1>8, <2>2, Zenon
<1>10. p \in 0 .. MaxPkt /\ p <= nRecv /\ Past(p)
  <2>1. a \in HeldRcbs
    BY <1>2, Member DEF HeldRcbs
  <2>2. In(a) \in (0 .. MaxPkt) \X (0 .. MaxFrags)
    BY <2>1 DEF Inv, Held, RingTypes, In
  <2>3. 1 \in Fills(d) /\ SopAt(1)
    BY <1>2, <1>4, <1>6 DEF Fills, SopAt
  <2>. QED BY <1>1, <2>2, <2>3 DEF Ring, Filled, Ordered
<1>11. RingTypes'
  <2>1. hwPtr' \in Ptr /\ NULL \in Ptr /\ 0 \in 0 .. MaxFrags - 1
    BY <1>7, <1>8, RxAssumption DEF Ptr
  <2>2. discarded' \subseteq 0 .. MaxPkt
    BY <1>5, <1>10 DEF Inv, RingTypes
  <2>. QED BY <1>5, <1>7, <1>9, <2>1, <2>2 DEF Inv, RingTypes, lists, bufs, dev, chan
<1>12. FlagTypes'
  <2>1. rxInt' \in BOOLEAN /\ armed' \in BOOLEAN /\ pc' \in Pcs
    BY <1>5 DEF Pcs
  <2>2. PacketsServiced' \in 0 .. RxServiceMax
    BY <1>5, RxAssumption
  <2>. QED BY <1>5, <1>7, <2>1, <2>2 DEF Inv, FlagTypes, lists, dev, chan, free
<1>13. Stage'
  BY <1>2, <1>5, <1>7, <1>8 DEF Inv, Stage, Handling, InitRcbAdds, Answered, lists, dev, chan, free
<1>14. Places'
  BY <1>5, <1>8, PlacesKept DEF Inv, lists, dev, chan
<1>15. Held'
  BY <1>2, <1>5, <1>8, HeldKept DEF Inv, lists, bufs
<1>16. Linked' /\ Marked'
  BY <1>2, <1>5, <1>8 DEF Inv, Linked, Marked, lists
<1>17. InHandIntact' /\ DeliveredIntact'
  BY <1>5, <1>10, SMTT(30) DEF Inv, InHandIntact, DeliveredIntact, Past
<1>18. Ring(0)'
  <2>. HIDE DEF a, z, p
  <2>1. \A i \in 1 .. N : i = 1 \/ i = N \/ (1 < i /\ i < N /\ RxActQueue[i] \notin {a, z})
    BY <1>2 DEF a, z, Inv, Places, Inj
  <2>2. \A i \in 1 .. N : ~Eof'[RxActQueue[i]] /\ ~Eoq'[RxActQueue[i]]
    <3>1. TAKE i \in 1 .. N
    <3>2. CASE RxActQueue[i] \in {a, z}
      BY <1>9, <3>2
    <3>3. CASE 1 < i /\ i < N /\ RxActQueue[i] \notin {a, z}
      <4>1. ~Eof[RxActQueue[i]]
        BY <1>2, <1>3, <1>4, <3>3 DEF NoEof
      <4>2. ~Eoq[RxActQueue[i]]
        BY <1>1, <1>2, <1>4, <3>3 DEF Ring, Packets
      <4>. QED BY <1>2, <1>9, <3>3, <4>1, <4>2
    <3>. QED BY <2>1, <3>2, <3>3 DEF a, z
  <2>3. \A i \in 1 .. N : Own'[RxActQueue[i]]
    <3>1. TAKE i \in 1 .. N
    <3>2. CASE RxActQueue[i] \in {a, z}
      BY <1>9, <3>2
    <3>3. CASE 1 < i /\ i < N /\ RxActQueue[i] \notin {a, z}
      <4>1. ~SopAt(i)
        BY <1>2, <1>3, <1>4, <3>3 DEF NoEof, SopAt
      <4>2. Own[RxActQueue[i]]
        BY <1>1, <4>1 DEF Ring, Packets
      <4>. QED BY <1>2, <1>9, <3>3, <4>2
    <3>. QED BY <2>1, <3>2, <3>3 DEF a, z
  <2>4. Packets(0)'
    BY <1>2, <1>8, <2>2, <2>3 DEF Packets, NoEof
  <2>5. Engine(0)'
    BY <1>2, <1>7, <1>8, <2>2 DEF Engine, HwRunning, a
  <2>6. Past(nRecv + 1)'
    <3>1. nRecv \in Nat /\ Past(nRecv + 1)
      BY <1>1 DEF Inv, RingTypes, Ring, Ordered
    <3>. QED BY <1>5, <1>10, <3>1 DEF Past
  <2>7. Filled(0)' /\ Ordered(0)'
    BY <1>7, <2>6 DEF Filled, Ordered, Fills
  <2>. QED BY <2>4, <2>5, <2>7 DEF Ring
<1>. QED BY <1>8, <1>2, <1>11, <1>12, <1>13, <1>14, <1>15, <1>16, <1>17, <1>18 DEF Inv

\* The counters of the ring are natural numbers.
LEMMA RingNumbers == ASSUME RingTypes PROVE N \in Nat /\ hwFrag \in Nat /\ nRecv \in Nat
<1>1. N \in Nat
  BY LenProperties DEF RingTypes, N
<1>2. hwFrag \in Nat /\ nRecv \in Nat
  BY RxAssumption DEF RingTypes, RxAssumption
<1>. QED BY <1>1, <1>2

\* The queue without its first packet, which ends at position e: what follows is as
\* it was, e positions further to the front.
LEMMA QueueShrinks ==
  ASSUME RingTypes, Inj(RxActQueue), NEW d \in 0 .. N, Ring(d), NEW e \in 1 .. d, e < N,
         Eof[RxActQueue[e]], NoEof(1, e - 1),
         N' = N - e, \A i \in 1 .. N - e : RxActQueue'[i] = RxActQueue[e + i],
         \A q \in Rcb \ {RxActQueue[1]} : Own'[q] = Own[q] /\ Eof'[q] = Eof[q] /\ Eoq'[q] = Eoq[q],
         UNCHANGED <<Dat, data, hwFrag, nRecv, delivered, discarded>>,
         chain' # <<>>, chain'[1] = RxActQueue[1]
  PROVE  /\ Packets(d - e)' /\ Filled(d - e)' /\ Ordered(d - e)' /\ d + hwFrag <= N
         /\ \A i \in 1 .. N - e : Eoq'[RxActQueue'[i]] = Eoq[RxActQueue[e + i]]
<1>1. N \in Nat /\ N = Len(RxActQueue) /\ hwFrag \in Nat /\ \A i \in 1 .. N : RxActQueue[i] \in Rcb
  BY SMTT(30), LenProperties, RxAssumption DEF RingTypes, N
<1>2. \A i \in 1 .. N - e : /\ e + i \in 1 .. N /\ RxActQueue[e + i] # RxActQueue[1]
                            /\ RxActQueue'[i] = RxActQueue[e + i]
  BY <1>1 DEF Inj
<1>3. \A i \in 1 .. N - e : /\ Own'[RxActQueue'[i]] = Own[RxActQueue[e + i]]
                            /\ Eof'[RxActQueue'[i]] = Eof[RxActQueue[e + i]]
                            /\ Eoq'[RxActQueue'[i]] = Eoq[RxActQueue[e + i]]
                            /\ In(RxActQueue[i])' = In(RxActQueue[e + i])
  BY <1>1, <1>2 DEF In
<1>4. d + hwFrag <= N
  BY <1>1 DEF Ring, Engine, HwStopped, HwRunning
<1>5. \A i \in 1 .. N - e : SopAt(i)' <=> SopAt(e + i)
  <2>1. TAKE i \in 1 .. N - e
  <2>2. CASE i = 1
    BY <1>1, <2>2 DEF SopAt
  <2>3. CASE i # 1
    <3>1. i - 1 \in 1 .. N - e /\ e + (i - 1) = e + i - 1 /\ e + i # 1
      BY <1>1, <2>3
    <3>. QED BY <1>3, <2>3, <3>1 DEF SopAt
  <2>. QED BY <2>2, <2>3
<1>6. \A i, j \in 1 .. N - e + 1 : NoEof(i, j - 1)' <=> NoEof(e + i, e + j - 1)
  <2>1. TAKE i, j \in 1 .. N - e + 1
  <2>2. ASSUME NoEof(i, j - 1)' PROVE NoEof(e + i, e + j - 1)
    <3>1. SUFFICES ASSUME NEW k \in e + i .. e + j - 1 PROVE ~Eof[RxActQueue[k]]
      BY DEF NoEof
    <3>2. k - e \in i .. j - 1 /\ k - e \in 1 .. N - e /\ e + (k - e) = k
      BY <1>1
    <3>. QED BY <1>3, <2>2, <3>2, SMTT(30) DEF NoEof
  <2>3. ASSUME NoEof(e + i, e + j - 1) PROVE NoEof(i, j - 1)'
    <3>1. SUFFICES ASSUME NEW k \in i .. j - 1 PROVE ~Eof'[RxActQueue'[k]]
      BY DEF NoEof
    <3>2. e + k \in e + i .. e + j - 1 /\ k \in 1 .. N - e
      BY <1>1
    <3>. QED BY <1>3, <2>3, <3>2 DEF NoEof
  <2>. QED BY <2>2, <2>3
<1>7. Packets(d - e)'
  <2>1. d - e > 0 => Eof'[RxActQueue'[d - e]]
    BY <1>1, <1>3 DEF Ring, Packets
  <2>2. NoEof(d - e + 1, N)'
    <3>1. d - e + 1 \in 1 .. N - e + 1 /\ N - e + 1 \in 1 .. N - e + 1
          /\ e + (d - e + 1) = d + 1 /\ e + (N - e + 1) - 1 = N /\ (N - e + 1) - 1 = N'
      BY <1>1
    <3>2. NoEof(d + 1, N)
      BY DEF Ring, Packets
    <3>3. NoEof(e + (d - e + 1), e + (N - e + 1) - 1)
      BY <3>1, <3>2
    <3>4. \A k \in d - e + 1 .. N' : ~Eof'[RxActQueue'[k]]
      <4>1. TAKE k \in d - e + 1 .. N'
      <4>2. k \in 1 .. N - e /\ e + k \in d + 1 .. N
        BY <1>1
      <4>. QED BY <1>3, <3>2, <4>2 DEF NoEof
    <3>. QED BY <3>4 DEF NoEof
  <2>3. \A i \in 1 .. N' : Own'[RxActQueue'[i]] <=> ~(SopAt(i)' /\ i <= d - e)
    <3>1. TAKE i \in 1 .. N'
    <3>2. Own[RxActQueue[e + i]] <=> ~(SopAt(e + i) /\ e + i <= d)
      BY <1>1, <1>2 DEF Ring, Packets
    <3>3. e + i <= d <=> i <= d - e
      BY <1>1
    <3>. QED BY <1>3, <1>5, <3>2, <3>3
  <2>4. \A i \in 1 .. d - e : SopAt(i)' =>
          \E k \in i .. d - e : Eof'[RxActQueue'[k]] /\ NoEof(i, k - 1)'
    <3>1. SUFFICES ASSUME NEW i \in 1 .. d - e, SopAt(i)'
                   PROVE  \E k \in i .. d - e : Eof'[RxActQueue'[k]] /\ NoEof(i, k - 1)'
      OBVIOUS
    <3>2. i \in 1 .. N - e /\ e + i \in 1 .. d /\ SopAt(e + i)
      BY <1>1, <1>5, <3>1
    <3>3. PICK k \in e + i .. d : Eof[RxActQueue[k]] /\ NoEof(e + i, k - 1)
      BY <3>2 DEF Ring, Packets
    <3>4. k - e \in i .. d - e /\ k - e \in 1 .. N - e /\ e + (k - e) = k
      BY <1>1, <3>2, <3>3
    <3>5. Eof'[RxActQueue'[k - e]]
      BY <1>3, <3>3, <3>4
    <3>6. NoEof(i, (k - e) - 1)'
      <4>1. \A m \in i .. (k - e) - 1 : m \in 1 .. N - e /\ e + m \in e + i .. k - 1
        BY <1>1, <3>2, <3>4
      <4>2. \A m \in i .. (k - e) - 1 : ~Eof'[RxActQueue'[m]]
        BY <1>3, <3>3, <4>1 DEF NoEof
      <4>. QED BY <4>2 DEF NoEof
    <3>. QED BY <3>4, <3>5, <3>6
  <2>5. \A i \in 1 .. N' : Eoq'[RxActQueue'[i]] => i = d - e
    BY <1>1, <1>2, <1>3, SMTT(30) DEF Ring, Packets
  <2>. QED BY <2>1, <2>2, <2>3, <2>4, <2>5 DEF Packets
<1>8. /\ Fills(d - e)' = 1 .. d - e + hwFrag
      /\ Fills(d) = 1 .. d + hwFrag
      /\ \A i \in 1 .. d - e + hwFrag : i \in 1 .. N - e /\ e + i \in 1 .. d + hwFrag
  BY <1>1, <1>4 DEF Fills
<1>9. Filled(d - e)'
  <2>1. \A i, j \in 1 .. d - e + hwFrag : SopAt(i)' /\ i <= j /\ NoEof(i, j - 1)' =>
          In(RxActQueue[j])' = <<In(RxActQueue[i])'[1], j - i + 1>>
    <3>1. SUFFICES ASSUME NEW i \in 1 .. d - e + hwFrag, NEW j \in 1 .. d - e + hwFrag,
                          SopAt(i)', i <= j, NoEof(i, j - 1)'
                   PROVE  In(RxActQueue[j])' = <<In(RxActQueue[i])'[1], j - i + 1>>
      OBVIOUS
    <3>2. SopAt(e + i) /\ NoEof(e + i, e + j - 1) /\ e + i <= e + j
      <4>1. i \in 1 .. N - e /\ i \in 1 .. N - e + 1 /\ j \in 1 .. N - e + 1 /\ e + i <= e + j
        <5>1. i \in 1 .. N - e /\ j \in 1 .. N - e
          BY <1>8, Zenon
        <5>2. PICK n \in Nat : n = N
          BY RingNumbers
        <5>3. i \in 1 .. n - e /\ j \in 1 .. n - e
          BY <5>1, <5>2
        <5>4. i \in 1 .. n - e + 1 /\ j \in 1 .. n - e + 1 /\ e + i <= e + j
          BY <3>1, <5>3
        <5>. QED BY <5>2, <5>3, <5>4
      <4>. QED BY <1>5, <1>6, <3>1, <4>1
    <3>3. In(RxActQueue[e + j]) = <<In(RxActQueue[e + i])[1], (e + j) - (e + i) + 1>>
      BY <1>8, <3>2 DEF Ring, Filled
    <3>4. (e + j) - (e + i) + 1 = j - i + 1
      BY <1>1
    <3>. QED BY <1>3, <1>8, <3>3, <3>4
  <2>2. \A i, j \in 1 .. d - e + hwFrag : SopAt(i)' /\ SopAt(j)' /\ i < j =>
          In(RxActQueue[i])'[1] < In(RxActQueue[j])'[1]
    <3>1. SUFFICES ASSUME NEW i \in 1 .. d - e + hwFrag, NEW j \in 1 .. d - e + hwFrag,
                          SopAt(i)', SopAt(j)', i < j
                   PROVE  In(RxActQueue[i])'[1] < In(RxActQueue[j])'[1]
      OBVIOUS
    <3>2. SopAt(e + i) /\ SopAt(e + j) /\ e + i < e + j
      <4>1. i \in 1 .. N - e /\ j \in 1 .. N - e
        BY <1>8
      <4>2. e + i < e + j
        BY <1>1, <3>1
      <4>. QED BY <1>5, <3>1, <4>1, <4>2
    <3>3. In(RxActQueue[e + i])[1] < In(RxActQueue[e + j])[1]
      BY <1>8, <3>2 DEF Ring, Filled
    <3>. QED BY <1>3, <1>8, <3>3
  <2>3. \A i \in 1 .. d - e + hwFrag : In(RxActQueue[i])'[1] <= nRecv
    BY <1>3, <1>8 DEF Ring, Filled
  <2>4. hwFrag > 0 => In(RxActQueue[(d - e) + 1])'[1] = nRecv
    <3>1. SUFFICES ASSUME hwFrag > 0 PROVE In(RxActQueue[(d - e) + 1])'[1] = nRecv
      OBVIOUS
    <3>2. (d - e) + 1 \in 1 .. N - e /\ e + ((d - e) + 1) = d + 1
      BY <1>1, <1>4, <3>1
    <3>. QED BY <1>3, <3>1, <3>2 DEF Ring, Filled
  <2>. QED BY <1>8, <2>1, <2>2, <2>3, <2>4 DEF Filled
<1>10. Ordered(d - e)'
  <2>1. Past(nRecv + 1)'
    BY DEF Ring, Ordered, Past
  <2>2. \A i \in 1 .. d - e + hwFrag : SopAt(i)' =>
          Past(In(RxActQueue[i])[1])' /\ In(RxActQueue[1])[1] < In(RxActQueue[i])'[1]
    <3>1. SUFFICES ASSUME NEW i \in 1 .. d - e + hwFrag, SopAt(i)'
                   PROVE  Past(In(RxActQueue[i])[1])' /\ In(RxActQueue[1])[1] < In(RxActQueue[i])'[1]
      OBVIOUS
    <3>2. SopAt(e + i) /\ SopAt(1) /\ 1 < e + i /\ 1 \in 1 .. d + hwFrag
      BY SMTT(30), <1>1, <1>5, <1>8, <3>1 DEF SopAt
    <3>3. In(RxActQueue[1])[1] < In(RxActQueue[e + i])[1] /\ Past(In(RxActQueue[e + i])[1])
      BY <1>8, <3>2 DEF Ring, Filled, Ordered
    <3>4. Past(In(RxActQueue[i])[1])'
      BY <1>3, <1>8, <3>3 DEF Past
    <3>. QED BY <1>3, <1>8, <3>3, <3>4
  <2>3. In(chain[1])' = In(RxActQueue[1])
    BY DEF In
  <2>. QED BY <1>8, <2>1, <2>2, <2>3 DEF Ordered
<1>. QED BY <1>3, <1>4, <1>7, <1>9, <1>10

\* A list cut in two.
LEMMA CutRcbs ==
  ASSUME NEW q \in Seq(Rcb), NEW n \in 0 .. Len(q), Inj(q)
  PROVE  LET s == SubSeq(q, 1, n)
             t == SubSeq(q, n + 1, Len(q))
         IN  /\ RcbsOf(q) = RcbsOf(s) \cup RcbsOf(t) /\ RcbsOf(s) \cap RcbsOf(t) = {}
             /\ Inj(s) /\ Inj(t)
<1>. DEFINE s == SubSeq(q, 1, n)
            t == SubSeq(q, n + 1, Len(q))
<1>1. /\ Len(q) \in Nat /\ Len(s) = n /\ Len(t) = Len(q) - n
      /\ \A i \in 1 .. n : s[i] = q[i]
      /\ \A i \in 1 .. Len(q) - n : t[i] = q[n + i]
  BY Cut, LenProperties
<1>. HIDE DEF s, t
<1>2. \A i \in 1 .. Len(q) : \/ i \in 1 .. n /\ q[i] = s[i]
                             \/ i - n \in 1 .. Len(q) - n /\ q[i] = t[i - n]
  <2>1. TAKE i \in 1 .. Len(q)
  <2>2. i \in 1 .. n \/ (i - n \in 1 .. Len(q) - n /\ n + (i - n) = i)
    BY <1>1
  <2>. QED BY <1>1, <2>2
<1>3. RcbsOf(q) \subseteq RcbsOf(s) \cup RcbsOf(t)
  BY <1>1, <1>2 DEF RcbsOf
<1>4. RcbsOf(s) \subseteq RcbsOf(q)
  BY <1>1 DEF RcbsOf
<1>5. RcbsOf(t) \subseteq RcbsOf(q)
  <2>1. \A i \in 1 .. Len(q) - n : n + i \in 1 .. Len(q)
    BY <1>1
  <2>. QED BY <1>1, <2>1 DEF RcbsOf
<1>6. Inj(s) /\ Inj(t)
  <2>1. Inj(s)
    <3>1. \A i \in 1 .. Len(s) : i \in 1 .. Len(q) /\ s[i] = q[i]
      BY <1>1
    <3>. QED BY <3>1 DEF Inj
  <2>2. \A i \in 1 .. Len(t) : n + i \in 1 .. Len(q) /\ t[i] = q[n + i]
    BY <1>1
  <2>3. \A i, j \in 1 .. Len(t) : t[i] = t[j] => n + i = n + j
    BY <2>2 DEF Inj
  <2>4. \A i, j \in 1 .. Len(t) : n + i = n + j => i = j
    BY <1>1
  <2>. QED BY <2>1, <2>3, <2>4 DEF Inj
<1>7. \A i \in 1 .. n, j \in 1 .. Len(q) - n : s[i] # t[j]
  BY <1>1 DEF Inj
<1>8. RcbsOf(s) \cap RcbsOf(t) = {}
  BY <1>1, <1>7 DEF RcbsOf
<1>. QED BY <1>3, <1>4, <1>5, <1>6, <1>8 DEF s, t

\* A packet is taken off the queue.  If its EOP carries EOQ, the engine stopped there,
\* and is restarted at the next RCB.
LEMMA RxIntDequeueStep == Inv /\ RxIntDequeue => Inv'
<1>. SUFFICES ASSUME Inv, RxIntDequeue PROVE Inv'
  OBVIOUS
<1>1. PICK d \in 0 .. N : Ring(d)
  BY DEF Inv
<1>2. /\ N \in Nat /\ N > 0 /\ N = Len(RxActQueue) /\ Hand = <<>> /\ chain = <<>> /\ good = <<>>
      /\ pc = "RxInt" /\ RxActQueue \in Seq(Rcb) /\ Inj(RxActQueue)
      /\ \A i \in 1 .. N : RxActQueue[i] \in Rcb
  BY LenProperties DEF RxIntDequeue, Inv, RingTypes, Stage, Handling, N, Hand, Places
<1>3. PICK e \in 1 .. d : /\ Eof[RxActQueue[e]] /\ NoEof(1, e - 1)
                          /\ HeadFrags = SubSeq(RxActQueue, 1, e)
  BY <1>1, <1>2, HeadPacket DEF RxIntDequeue, Inv, Ring
<1>. DEFINE f == SubSeq(RxActQueue, 1, e)
            Q == SubSeq(RxActQueue, e + 1, Len(RxActQueue))
            a == RxActQueue[1]
            z == RxActQueue[e]
<1>4. /\ f \in Seq(Rcb) /\ Len(f) = e /\ \A i \in 1 .. e : f[i] = RxActQueue[i]
      /\ Q \in Seq(Rcb) /\ Len(Q) = N - e /\ \A i \in 1 .. N - e : Q[i] = RxActQueue[e + i]
      /\ RcbsOf(RxActQueue) = RcbsOf(f) \cup RcbsOf(Q) /\ RcbsOf(f) \cap RcbsOf(Q) = {}
      /\ Inj(f) /\ Inj(Q)
  <2>1. e \in 0 .. Len(RxActQueue)
    BY <1>2, <1>3
  <2>2. /\ f \in Seq(Rcb) /\ Len(f) = e /\ \A i \in 1 .. e : f[i] = RxActQueue[i]
        /\ Q \in Seq(Rcb) /\ Len(Q) = Len(RxActQueue) - e
        /\ \A i \in 1 .. Len(RxActQueue) - e : Q[i] = RxActQueue[e + i]
    BY <1>2, <2>1, Cut
  <2>3. /\ RcbsOf(RxActQueue) = RcbsOf(f) \cup RcbsOf(Q) /\ RcbsOf(f) \cap RcbsOf(Q) = {}
        /\ Inj(f) /\ Inj(Q)
    BY <1>2, <2>1, CutRcbs
  <2>. HIDE DEF f, Q
  <2>. QED BY <1>2, <2>2, <2>3
<1>5. /\ rxInt' = (rxInt /\ cp # z) /\ RxActQueue' = Q /\ MisqueueRestart(z)
      /\ SetMode({a}, FALSE) /\ chain' = f
      /\ PacketsServiced < RxServiceMax /\ PacketsServiced' = PacketsServiced + 1
      /\ pc' = "Receive" /\ e # N
      /\ UNCHANGED <<RcbPool, RxActive, Needs, HNext, Dat, bufs, caller, good,
                     OldTailRcb, failed, dev, cp, armed, tasklet, hist>>
  <2>1. HeadFrags = f /\ f[1] = a /\ f[Len(f)] = z /\ Len(f) = e
    BY <1>3, <1>4
  <2>2. Q = SubSeq(RxActQueue, Len(f) + 1, Len(RxActQueue))
    BY <2>1
  <2>. HIDE DEF f, Q
  <2>. QED BY <1>2, <2>1, <2>2 DEF RxIntDequeue, OnlyPacket
<1>. HIDE DEF f, Q
<1>6. /\ N' = N - e /\ e < N /\ Hand' = <<>> /\ chain' # <<>> /\ chain'[1] = a /\ a \in Rcb /\ z \in Rcb
  BY <1>2, <1>3, <1>4, <1>5, EmptySeq DEF N, Hand
<1>7. /\ Own' \in [Rcb -> BOOLEAN] /\ Eof' \in [Rcb -> BOOLEAN] /\ Eoq' \in [Rcb -> BOOLEAN]
      /\ \A q \in Rcb \ {a} : Own'[q] = Own[q] /\ Eof'[q] = Eof[q] /\ Eoq'[q] = Eoq[q]
  BY <1>5, ModeSet DEF Inv
<1>8. ASSUME Eoq[z]
      PROVE  /\ d = e /\ hwFrag = 0 /\ hwPtr = NULL /\ hwCur = NULL /\ hwLatch = NULL
             /\ hwSop = NULL
             /\ hwPtr' = RxActQueue[e + 1] /\ HostErr' = HostErr
             /\ UNCHANGED <<hwCur, hwLatch, hwSop, hwFrag, hwTd>>
  <2>1. d = e
    BY <1>1, <1>2, <1>3, <1>8 DEF Ring, Packets
  <2>2. HwStopped(d) /\ hwSop = NULL
    BY <1>1, <1>2, <1>3, <1>8, <2>1 DEF Ring, Engine, HwRunning, HwStopped
  <2>3. HNext[z] = RxActQueue[e + 1]
    BY <1>2, <1>3, <1>6 DEF Inv, Linked
  <2>4. WriteHDP(RxActQueue[e + 1])
    BY <1>5, <1>8, <2>3 DEF MisqueueRestart
  <2>. QED BY <2>1, <2>2, <2>4 DEF HwStopped, WriteHDP, HwIdle, Inv, Stage, FlagTypes
<1>9. ~Eoq[z] => UNCHANGED dma
  BY <1>5 DEF MisqueueRestart
<1>10. /\ HostErr' = HostErr /\ hwTd' = hwTd
       /\ UNCHANGED <<hwCur, hwLatch, hwSop, hwFrag>> /\ hwPtr' \in Ptr
  BY <1>2, <1>3, <1>6, <1>8, <1>9 DEF dma, Inv, RingTypes, Ptr
<1>11. RingTypes'
  BY <1>4, <1>5, <1>7, <1>10 DEF Inv, RingTypes, bufs, dev, chan, hist
<1>12. FlagTypes'
  <2>1. rxInt' \in BOOLEAN /\ pc' \in Pcs
    BY <1>5 DEF Pcs
  <2>2. PacketsServiced' \in 0 .. RxServiceMax
    BY <1>5, RxAssumption DEF Inv, FlagTypes
  <2>. QED BY <1>5, <1>10, <2>1, <2>2 DEF Inv, FlagTypes, dev, chan, free
<1>13. Stage'
  BY <1>2, <1>3, <1>5, <1>6, <1>10 DEF Inv, Stage, Handling, InitRcbAdds, Answered, dev, chan, free, hist
<1>14. /\ RcbsOf(RcbPool)' = RcbsOf(RcbPool) /\ RcbsOf(RxActQueue)' = RcbsOf(Q)
       /\ RcbsOf(Needs)' = RcbsOf(Needs) /\ RcbsOf(chain)' = RcbsOf(f) /\ RcbsOf(chain) = {}
       /\ RcbsOf(Hand) = {} /\ RcbsOf(Hand)' = {}
  BY <1>2, <1>5, <1>6 DEF RcbsOf
<1>15. Places'
  <2>1. /\ Inj(RcbPool)' <=> Inj(RcbPool)
        /\ Inj(RxActQueue)' <=> Inj(Q)
        /\ Inj(Needs)' <=> Inj(Needs)
        /\ Inj(chain)' <=> Inj(f)
        /\ Inj(Hand)'
    BY <1>5, <1>6 DEF Inj
  <2>2. nRcb' = nRcb /\ lost' = lost
    BY <1>5 DEF dev, chan, hist
  <2>. QED BY <1>4, <1>14, <2>1, <2>2 DEF Inv, Places
<1>16. Held'
  <2>1. HeldRcbs' = HeldRcbs
    BY <1>2, <1>4, <1>5, <1>14 DEF HeldRcbs
  <2>. QED BY <1>5, <2>1 DEF Inv, Held, bufs
<1>17. Linked'
  <2>1. \A i \in 1 .. N' - 1 : HNext[Q[i]] = Q[i + 1]
    <3>1. TAKE i \in 1 .. N' - 1
    <3>2. i \in 1 .. N - e /\ i + 1 \in 1 .. N - e /\ e + i \in 1 .. N - 1 /\ e + (i + 1) = (e + i) + 1
      BY <1>2, <1>3, <1>6
    <3>3. HNext[RxActQueue[e + i]] = RxActQueue[(e + i) + 1]
      BY <3>2 DEF Inv, Linked
    <3>. QED BY <1>4, <3>2, <3>3
  <2>2. HNext[Q[N']] = NULL
    <3>1. N' \in 1 .. N - e /\ e + N' = N
      BY <1>2, <1>3, <1>6
    <3>. QED BY <1>2, <1>4, <3>1 DEF Inv, Linked
  <2>3. \A i \in 1 .. Len(f) - 1 : HNext[f[i]] = f[i + 1]
    <3>1. TAKE i \in 1 .. Len(f) - 1
    <3>2. i \in 1 .. e /\ i + 1 \in 1 .. e /\ i \in 1 .. N - 1
      BY <1>2, <1>3, <1>4, <1>6
    <3>. QED BY <1>4, <3>2 DEF Inv, Linked
  <2>. QED BY <1>2, <1>5, <1>6, <2>1, <2>2, <2>3 DEF Linked
<1>18. Marked'
  <2>1. \A i \in 1 .. Len(f) : 1 < i /\ i < Len(f) =>
          RxActQueue[i] \in Rcb \ {a} /\ Fresh(RxActQueue[i]) /\ f[i] = RxActQueue[i]
    <3>1. SUFFICES ASSUME NEW i \in 1 .. Len(f), 1 < i, i < Len(f)
                   PROVE  RxActQueue[i] \in Rcb \ {a} /\ Fresh(RxActQueue[i]) /\ f[i] = RxActQueue[i]
      OBVIOUS
    <3>2. i \in 1 .. N /\ i \in 1 .. e - 1 /\ i - 1 \in 1 .. e - 1 /\ i \in 1 .. e /\ i # d
      BY <1>2, <1>3, <1>4, <1>6, <3>1
    <3>3. ~Eof[RxActQueue[i]] /\ ~SopAt(i)
      BY <1>3, <3>1, <3>2 DEF NoEof, SopAt
    <3>4. Own[RxActQueue[i]] /\ ~Eoq[RxActQueue[i]]
      BY <1>1, <3>2, <3>3 DEF Ring, Packets
    <3>5. RxActQueue[i] # a
      BY <1>2, <3>1, <3>2 DEF Inj
    <3>. QED BY <1>2, <1>4, <3>2, <3>3, <3>4, <3>5 DEF Fresh
  <2>2. \A i \in 1 .. Len(f) : 1 < i /\ i < Len(f) => Own'[f[i]] /\ ~Eof'[f[i]] /\ ~Eoq'[f[i]]
    BY <1>7, <2>1 DEF Fresh
  <2>. QED BY <1>5, <1>6, <2>2 DEF Marked, Fresh
<1>19. UNCHANGED <<Dat, data, hwFrag, nRecv, delivered, discarded>>
  BY <1>5, <1>10 DEF bufs, hist
<1>20. \A i \in 1 .. N - e : RxActQueue'[i] = RxActQueue[e + i]
  BY <1>4, <1>5
<1>21. /\ Packets(d - e)' /\ Filled(d - e)' /\ Ordered(d - e)' /\ d + hwFrag <= N
       /\ \A i \in 1 .. N - e : Eoq'[RxActQueue'[i]] = Eoq[RxActQueue[e + i]]
  <2>1. /\ RingTypes /\ Inj(RxActQueue) /\ d \in 0 .. N /\ Ring(d) /\ e \in 1 .. d /\ e < N
        /\ Eof[RxActQueue[e]] /\ NoEof(1, e - 1) /\ N' = N - e
        /\ chain' # <<>> /\ chain'[1] = RxActQueue[1]
    BY <1>1, <1>2, <1>3, <1>6 DEF Inv
  <2>2. \A q \in Rcb \ {RxActQueue[1]} : Own'[q] = Own[q] /\ Eof'[q] = Eof[q] /\ Eoq'[q] = Eoq[q]
    BY <1>7
  <2>. HIDE DEF a, z
  <2>. QED BY <1>19, <1>20, <2>1, <2>2, QueueShrinks
<1>22. hwFrag \in Nat /\ d - e \in 0 .. N'
  BY <1>2, <1>3, <1>6, RxAssumption DEF Inv, RingTypes
<1>23. Engine(d - e)'
  <2>1. CASE Eoq[z]
    <3>1. \A i \in 1 .. N - e : ~Eoq'[RxActQueue'[i]]
      BY <1>1, <1>2, <1>3, <1>8, <1>21, <2>1 DEF Ring, Packets
    <3>2. d - e = 0 /\ RxActQueue'[1] = RxActQueue[e + 1] /\ 1 \in 1 .. N - e
      BY <1>2, <1>3, <1>6, <1>8, <1>20, <2>1
    <3>. QED BY <1>6, <1>8, <2>1, <3>1, <3>2 DEF Engine, HwRunning
  <2>2. CASE ~Eoq[z]
    <3>1. UNCHANGED <<hwPtr, hwCur, hwLatch, hwSop, hwFrag>>
      BY <1>9, <2>2 DEF dma
    <3>2. hwSop' = IF hwFrag' = 0 THEN NULL ELSE RxActQueue'[d - e + 1]
      <4>1. hwFrag # 0 => d - e + 1 \in 1 .. N - e /\ e + (d - e + 1) = d + 1
        BY <1>2, <1>3, <1>21, <1>22
      <4>. QED BY <1>1, <1>20, <3>1, <4>1 DEF Ring, Engine
    <3>3. CASE HwStopped(d)
      <4>1. d \in Nat /\ e \in Nat /\ e <= d /\ N \in Nat /\ N' = N - e
        BY <1>2, <1>3, <1>6
      <4>2. CASE d > 0 /\ Eoq[RxActQueue[d]]
        <5>1. d # e
          BY <2>2, <4>2
        <5>2. d - e \in 1 .. N - e /\ e + (d - e) = d
          BY <1>2, <1>3, <5>1
        <5>. QED BY <1>2, <1>21, <3>1, <3>2, <3>3, <4>2, <5>2 DEF Engine, HwStopped
      <4>3. CASE Answered /\ d < N
        <5>1. Answered' /\ d - e < N'
          BY <1>5, <1>10, <4>1, <4>3 DEF Answered, dev, chan
        <5>. QED BY <3>1, <3>2, <3>3, <5>1 DEF Engine, HwStopped
      <4>4. N > 0
        BY <1>2, <1>3
      <4>. QED BY <3>3, <4>2, <4>3, <4>4 DEF HwStopped
    <3>4. CASE HwRunning(d)
      <4>. DEFINE c == d + hwFrag + 1
      <4>1. /\ c \in 1 .. N
            /\ \/ hwPtr = RxActQueue[c] /\ hwCur = NULL /\ hwLatch = NULL
               \/ /\ hwPtr = NULL /\ hwCur = RxActQueue[c]
                  /\ hwLatch = NULL \/ (c < N /\ hwLatch = RxActQueue[c + 1])
            /\ \A i \in 1 .. N : ~Eoq[RxActQueue[i]]
        BY <3>4 DEF HwRunning
      <4>2. /\ c - e \in 1 .. N - e /\ e + (c - e) = c /\ (d - e) + hwFrag + 1 = c - e
            /\ c < N => (c - e) + 1 \in 1 .. N - e /\ e + ((c - e) + 1) = c + 1
        BY <1>2, <1>3, <1>22, <4>1
      <4>3. RxActQueue'[c - e] = RxActQueue[c] /\ (c < N => RxActQueue'[(c - e) + 1] = RxActQueue[c + 1])
        BY <1>20, <4>2
      <4>4. \A i \in 1 .. N - e : e + i \in 1 .. N
        BY <1>2, <1>3
      <4>5. \A i \in 1 .. N' : ~Eoq'[RxActQueue'[i]]
        BY <1>6, <1>21, <4>1, <4>4
      <4>6. c < N => c - e < N - e
        BY <1>2, <1>3, <1>22
      <4>. HIDE DEF c
      <4>7. HwRunning(d - e)'
        BY <1>6, <3>1, <4>1, <4>2, <4>3, <4>5, <4>6 DEF HwRunning
      <4>. QED BY <3>2, <4>7 DEF Engine
    <3>. QED BY <1>1, <3>3, <3>4 DEF Ring, Engine
  <2>. QED BY <2>1, <2>2
<1>24. InHandIntact'
  <2>1. /\ Fills(d) = 1 .. d + hwFrag /\ SopAt(1) /\ \A k \in 1 .. e : k \in 1 .. d + hwFrag
    BY <1>2, <1>3, <1>22 DEF Fills, SopAt
  <2>2. \A k \in 1 .. e : In(RxActQueue[k]) = <<In(a)[1], k>>
    <3>1. TAKE k \in 1 .. e
    <3>2. NoEof(1, k - 1)
      BY <1>3 DEF NoEof
    <3>3. In(RxActQueue[k]) = <<In(RxActQueue[1])[1], k - 1 + 1>>
      BY <1>1, <2>1, <3>2 DEF Ring, Filled
    <3>. QED BY <3>3
  <2>3. Past(In(a)[1]) /\ In(a)[1] <= nRecv
    BY <1>1, <1>3, <2>1 DEF Ring, Filled, Ordered
  <2>4. \A k \in 1 .. e : In(chain[k])' = In(RxActQueue[k])
    BY <1>4, <1>5, <1>19 DEF In
  <2>5. In(chain[1])' = In(a) /\ Len(chain') = e
    BY <1>3, <1>4, <1>5, <2>4
  <2>6. Past(In(chain[1])[1])' /\ In(chain[1])'[1] <= nRecv'
    BY <1>19, <2>3, <2>5 DEF Past
  <2>. QED BY <2>2, <2>4, <2>5, <2>6 DEF InHandIntact
<1>25. DeliveredIntact'
  BY <1>19 DEF Inv, DeliveredIntact
<1>. QED BY <1>11, <1>12, <1>13, <1>15, <1>16, <1>17, <1>18, <1>21, <1>22, <1>23, <1>24, <1>25
     DEF Inv, Ring

-----------------------------------------------------------------------------
(* A buffer is filled.                                                     *)

\* The engine fills the RCB at position c of the queue, for packet p; the SOP of the
\* packet is at position d + 1.  Nothing else in the queue changes.
Fill(d, c, p, ends) ==
  /\ d \in 0 .. N /\ c = d + hwFrag + 1 /\ c \in 1 .. N
  /\ p = (IF hwFrag = 0 THEN nRecv + 1 ELSE nRecv) /\ nRecv' = p
  /\ hwCur = RxActQueue[c] /\ (hwLatch = NULL \/ (c < N /\ hwLatch = RxActQueue[c + 1]))
  /\ hwLatch = NULL => ends
  /\ \A i \in 1 .. N : /\ i # c => Eof'[RxActQueue[i]] = Eof[RxActQueue[i]]
                       /\ i # d + 1 => Own'[RxActQueue[i]] = Own[RxActQueue[i]]
                       /\ i # c => ~Eoq'[RxActQueue[i]]
                       /\ i # c => In(RxActQueue[i])' = In(RxActQueue[i])
  /\ Eof'[RxActQueue[c]] <=> ends
  /\ Eoq'[RxActQueue[c]] <=> hwLatch = NULL
  /\ Own'[RxActQueue[d + 1]] <=> ~ends
  /\ In(RxActQueue[c])' = <<p, hwFrag + 1>>
  /\ hwPtr' = hwLatch /\ hwCur' = NULL /\ hwLatch' = NULL
  /\ hwSop' = IF ends THEN NULL ELSE RxActQueue[d + 1]
  /\ hwFrag' = IF ends THEN 0 ELSE hwFrag + 1
  /\ RxActQueue' = RxActQueue /\ N' = N

\* Where packets begin, up to the RCB that is filled.
LEMMA FillSops ==
  ASSUME RingTypes, NEW d, NEW c, NEW p, NEW ends \in BOOLEAN, Fill(d, c, p, ends), Packets(d)
  PROVE  /\ \A i \in 1 .. c : SopAt(i)' <=> SopAt(i)
         /\ \A i \in 1 .. N, j \in 1 .. c : NoEof(i, j - 1)' <=> NoEof(i, j - 1)
         /\ SopAt(d + 1)
         /\ \A i \in d + 1 .. c : SopAt(i) => i = d + 1
         /\ \A i \in 1 .. c : SopAt(i) /\ NoEof(i, c - 1) => i = d + 1
         /\ NoEof(d + 1, c - 1)
<1>1. /\ N \in Nat /\ hwFrag \in Nat /\ d \in 0 .. N /\ c \in 1 .. N /\ c = d + hwFrag + 1
      /\ \A i \in 1 .. N : i # c => Eof'[RxActQueue[i]] = Eof[RxActQueue[i]]
      /\ RxActQueue' = RxActQueue
  BY LenProperties, RxAssumption DEF RingTypes, N, Fill
<1>2. \A i \in 1 .. c : SopAt(i)' <=> SopAt(i)
  BY <1>1 DEF SopAt
<1>3. \A i \in 1 .. N, j \in 1 .. c : NoEof(i, j - 1)' <=> NoEof(i, j - 1)
  BY <1>1 DEF NoEof
<1>4. SopAt(d + 1)
  BY <1>1 DEF Packets, SopAt
<1>5. \A i \in d + 1 .. c : SopAt(i) => i = d + 1
  BY <1>1 DEF Packets, SopAt, NoEof
<1>6. NoEof(d + 1, c - 1)
  BY <1>1 DEF Packets, NoEof
<1>7. \A i \in 1 .. c : SopAt(i) /\ NoEof(i, c - 1) => i = d + 1
  <2>1. SUFFICES ASSUME NEW i \in 1 .. c, SopAt(i), NoEof(i, c - 1), i # d + 1 PROVE FALSE
    OBVIOUS
  <2>2. i \in 1 .. d
    BY <1>1, <1>5, <2>1
  <2>3. PICK e \in i .. d : Eof[RxActQueue[e]]
    BY <2>1, <2>2 DEF Packets
  <2>4. e \in i .. c - 1
    BY <1>1, <2>2, <2>3
  <2>. QED BY <2>1, <2>3, <2>4 DEF NoEof
<1>. QED BY <1>2, <1>3, <1>4, <1>5, <1>6, <1>7

\* The packets, when the packet goes on and when it ends.
LEMMA FillPackets ==
  ASSUME RingTypes, NEW d, NEW c, NEW p, NEW ends \in BOOLEAN, Fill(d, c, p, ends), Packets(d)
  PROVE  Packets(IF ends THEN c ELSE d)'
<1>1. /\ N \in Nat /\ hwFrag \in Nat /\ d \in 0 .. N /\ c \in 1 .. N /\ c = d + hwFrag + 1
      /\ RxActQueue' = RxActQueue /\ N' = N /\ d + 1 \in 1 .. c
  <2>1. /\ N \in Nat /\ hwFrag \in Nat /\ nRecv \in Nat
        /\ d \in 0 .. N /\ c \in 1 .. N /\ c = d + hwFrag + 1
        /\ RxActQueue' = RxActQueue
    BY RingNumbers, Zenon DEF Fill
  <2>2. d + 1 \in 1 .. c
    BY <2>1
  <2>. QED BY <2>1, <2>2 DEF N
<1>2. /\ \A i \in 1 .. N : /\ i # c => Eof'[RxActQueue[i]] = Eof[RxActQueue[i]]
                           /\ i # d + 1 => Own'[RxActQueue[i]] = Own[RxActQueue[i]]
                           /\ i # c => ~Eoq'[RxActQueue[i]]
      /\ Eof'[RxActQueue[c]] <=> ends
      /\ Eoq'[RxActQueue[c]] <=> hwLatch = NULL
      /\ hwLatch = NULL => ends
      /\ Own'[RxActQueue[d + 1]] <=> ~ends
  BY DEF Fill
<1>3. /\ \A i \in 1 .. c : SopAt(i)' <=> SopAt(i)
      /\ \A i \in 1 .. N, j \in 1 .. c : NoEof(i, j - 1)' <=> NoEof(i, j - 1)
      /\ SopAt(d + 1)
      /\ \A i \in d + 1 .. c : SopAt(i) => i = d + 1
      /\ NoEof(d + 1, c - 1)
  BY FillSops
<1>4. \A i \in 1 .. d : SopAt(i)' => \E e \in i .. d : Eof'[RxActQueue[e]] /\ NoEof(i, e - 1)'
  <2>1. SUFFICES ASSUME NEW i \in 1 .. d, SopAt(i)'
                 PROVE  \E e \in i .. d : Eof'[RxActQueue[e]] /\ NoEof(i, e - 1)'
    OBVIOUS
  <2>2. PICK e \in i .. d : Eof[RxActQueue[e]] /\ NoEof(i, e - 1)
    BY <1>1, <1>3, <2>1 DEF Packets
  <2>3. e \in 1 .. c /\ e \in 1 .. N /\ e # c /\ i \in 1 .. N
    BY <1>1, <2>2
  <2>. QED BY <1>2, <1>3, <2>2, <2>3
<1>5. \A i \in 1 .. N : i <= d => (Own'[RxActQueue[i]] <=> ~SopAt(i)')
  <2>1. \A i \in 1 .. N : i <= d => i \in 1 .. c /\ i # d + 1
    BY <1>1
  <2>. QED BY <1>2, <1>3, <2>1 DEF Packets
<1>6. \A i \in 1 .. N : i > d + 1 => Own'[RxActQueue[i]]
  <2>1. \A i \in 1 .. N : i > d + 1 => i # d + 1 /\ ~(i <= d)
    BY <1>1
  <2>. QED BY <1>2, <2>1 DEF Packets
<1>7. CASE ~ends
  <2>1. d > 0 => Eof'[RxActQueue[d]]
    BY <1>1, <1>2 DEF Packets
  <2>2. NoEof(d + 1, N)'
    BY <1>1, <1>2, <1>7 DEF Packets, NoEof
  <2>3. \A i \in 1 .. N : Own'[RxActQueue[i]] <=> ~(SopAt(i)' /\ i <= d)
    <3>1. TAKE i \in 1 .. N
    <3>2. CASE i <= d
      BY <1>5, <3>2
    <3>3. CASE i = d + 1
      <4>1. ~(i <= d) /\ Own'[RxActQueue[i]]
        BY <1>1, <1>2, <1>7, <3>3
      <4>. QED BY <4>1
    <3>4. CASE i > d + 1
      <4>1. ~(i <= d)
        BY <1>1, <3>4
      <4>. QED BY <1>6, <3>4, <4>1
    <3>. QED BY <1>1, <3>2, <3>3, <3>4
  <2>4. \A i \in 1 .. N : ~Eoq'[RxActQueue[i]]
    BY <1>2, <1>7
  <2>. QED BY <1>1, <1>4, <1>7, <2>1, <2>2, <2>3, <2>4 DEF Packets
<1>8. CASE ends
  <2>1. Eof'[RxActQueue[c]]
    BY <1>2, <1>8
  <2>2. NoEof(c + 1, N)'
    BY <1>1, <1>2 DEF Packets, NoEof
  <2>3. \A i \in 1 .. N : Own'[RxActQueue[i]] <=> ~(SopAt(i)' /\ i <= c)
    <3>1. TAKE i \in 1 .. N
    <3>2. CASE i <= d
      BY <1>1, <1>5, <3>2
    <3>3. CASE i = d + 1
      <4>1. i <= c /\ SopAt(i)' /\ ~Own'[RxActQueue[i]]
        BY <1>1, <1>2, <1>3, <1>8, <3>3
      <4>. QED BY <4>1
    <3>4. CASE i > d + 1
      <4>1. Own'[RxActQueue[i]]
        BY <1>6, <3>4
      <4>2. i <= c => i \in d + 1 .. c /\ i \in 1 .. c /\ i # d + 1
        BY <1>1, <3>4
      <4>. QED BY <1>3, <4>1, <4>2
    <3>. QED BY <1>1, <3>2, <3>3, <3>4
  <2>4. \A i \in 1 .. c : SopAt(i)' => \E e \in i .. c : Eof'[RxActQueue[e]] /\ NoEof(i, e - 1)'
    <3>1. SUFFICES ASSUME NEW i \in 1 .. c, SopAt(i)'
                   PROVE  \E e \in i .. c : Eof'[RxActQueue[e]] /\ NoEof(i, e - 1)'
      OBVIOUS
    <3>2. CASE i \in 1 .. d
      <4>1. PICK e \in i .. d : Eof'[RxActQueue[e]] /\ NoEof(i, e - 1)'
        BY <1>4, <3>1, <3>2
      <4>2. e \in i .. c
        BY <1>1, <3>2, <4>1
      <4>. QED BY <4>1, <4>2
    <3>3. CASE ~(i \in 1 .. d)
      <4>1. i \in d + 1 .. c /\ i \in 1 .. N /\ c \in 1 .. c /\ c \in i .. c
        BY <1>1, <3>3
      <4>2. i = d + 1
        BY <1>3, <3>1, <4>1
      <4>3. NoEof(i, c - 1)'
        BY <1>3, <4>1, <4>2
      <4>. QED BY <2>1, <4>1, <4>3
    <3>. QED BY <3>2, <3>3
  <2>5. \A i \in 1 .. N : Eoq'[RxActQueue[i]] => i = c
    BY <1>2
  <2>. QED BY <1>1, <1>8, <2>1, <2>2, <2>3, <2>4, <2>5 DEF Packets
<1>. QED BY <1>7, <1>8

\* The engine stops if the RCB had no successor when it was fetched, and goes on to the
\* next one if it had.
LEMMA FillEngine ==
  ASSUME RingTypes, NEW d, NEW c, NEW p, NEW ends \in BOOLEAN, Fill(d, c, p, ends)
  PROVE  Engine(IF ends THEN c ELSE d)'
<1>1. /\ N \in Nat /\ hwFrag \in Nat /\ d \in 0 .. N /\ c \in 1 .. N /\ c = d + hwFrag + 1
      /\ RxActQueue' = RxActQueue /\ N' = N
      /\ \A i \in 1 .. N : RxActQueue[i] \in Rcb
  BY LenProperties, RxAssumption DEF RingTypes, N, Fill
<1>2. /\ hwLatch = NULL \/ (c < N /\ hwLatch = RxActQueue[c + 1])
      /\ hwLatch = NULL => ends
      /\ \A i \in 1 .. N : i # c => ~Eoq'[RxActQueue[i]]
      /\ Eoq'[RxActQueue[c]] <=> hwLatch = NULL
      /\ hwPtr' = hwLatch /\ hwCur' = NULL /\ hwLatch' = NULL
      /\ hwSop' = IF ends THEN NULL ELSE RxActQueue[d + 1]
      /\ hwFrag' = IF ends THEN 0 ELSE hwFrag + 1
  BY DEF Fill
<1>3. CASE hwLatch = NULL
  BY <1>1, <1>2, <1>3 DEF Engine, HwStopped
<1>4. CASE hwLatch # NULL
  <2>1. /\ hwPtr' = RxActQueue[c + 1] /\ c + 1 \in 1 .. N
        /\ \A i \in 1 .. N : ~Eoq'[RxActQueue[i]]
    BY <1>1, <1>2, <1>4
  <2>2. CASE ends
    BY <1>1, <1>2, <2>1, <2>2 DEF Engine, HwRunning
  <2>3. CASE ~ends
    BY <1>1, <1>2, <2>1, <2>3 DEF Engine, HwRunning
  <2>. QED BY <2>2, <2>3
<1>. QED BY <1>3, <1>4

\* The buffers up to the one that is filled hold packets in their order.
LEMMA FillData ==
  ASSUME Inv, NEW d, NEW c, NEW p, NEW ends \in BOOLEAN, Fill(d, c, p, ends), Ring(d),
         UNCHANGED <<delivered, discarded, pc>>,
         pc = "Receive" => In(chain[1])' = In(chain[1])
  PROVE  Filled(IF ends THEN c ELSE d)' /\ Ordered(IF ends THEN c ELSE d)'
<1>. DEFINE D == IF ends THEN c ELSE d
<1>1. /\ N \in Nat /\ hwFrag \in Nat /\ d \in 0 .. N /\ c \in 1 .. N /\ c = d + hwFrag + 1
      /\ RxActQueue' = RxActQueue /\ N' = N /\ nRecv \in Nat
      /\ \A i \in 1 .. c : i # c => i \in 1 .. d + hwFrag
      /\ d + 1 \in 1 .. c
  <2>1. /\ N \in Nat /\ hwFrag \in Nat /\ nRecv \in Nat
        /\ d \in 0 .. N /\ c \in 1 .. N /\ c = d + hwFrag + 1
        /\ RxActQueue' = RxActQueue
    BY RingNumbers, Zenon DEF Inv, Fill
  <2>2. PICK m \in Nat, h \in Nat : m = N /\ h = hwFrag
    BY <2>1
  <2>3. d \in 0 .. m /\ c \in 1 .. m /\ c = d + h + 1
    BY <2>1, <2>2
  <2>4. d + 1 \in 1 .. c /\ \A i \in 1 .. c : i # c => i \in 1 .. d + h
    BY <2>3
  <2>. QED BY <2>1, <2>2, <2>4 DEF N
<1>2. /\ p = (IF hwFrag = 0 THEN nRecv + 1 ELSE nRecv) /\ nRecv' = p
      /\ \A i \in 1 .. N : i # c => In(RxActQueue[i])' = In(RxActQueue[i])
      /\ In(RxActQueue[c])' = <<p, hwFrag + 1>>
      /\ hwFrag' = IF ends THEN 0 ELSE hwFrag + 1
  BY DEF Fill
<1>3. /\ \A i \in 1 .. c : SopAt(i)' <=> SopAt(i)
      /\ \A i \in 1 .. N, j \in 1 .. c : NoEof(i, j - 1)' <=> NoEof(i, j - 1)
      /\ \A i \in d + 1 .. c : SopAt(i) => i = d + 1
      /\ \A i \in 1 .. c : SopAt(i) /\ NoEof(i, c - 1) => i = d + 1
  BY FillSops DEF Inv, Ring
<1>4. Fills(D)' = 1 .. c /\ Fills(d) = 1 .. d + hwFrag
  BY <1>1, <1>2 DEF Fills
<1>5. In(RxActQueue[d + 1])'[1] = p
  <2>1. CASE hwFrag = 0
    BY <1>1, <1>2, <2>1
  <2>2. CASE hwFrag # 0
    <3>1. d + 1 # c /\ d + 1 \in 1 .. N /\ hwFrag > 0
      BY <1>1, <2>2
    <3>2. In(RxActQueue[d + 1])[1] = nRecv
      BY <3>1 DEF Ring, Filled
    <3>. QED BY <1>2, <2>2, <3>1, <3>2
  <2>. QED BY <2>1, <2>2
<1>6. SopAt(c) => hwFrag = 0 /\ p = nRecv + 1 /\ c = d + 1
  <2>1. c \in d + 1 .. c
    BY <1>1
  <2>. QED BY <1>1, <1>2, <1>3, <2>1
<1>7. \A i \in 1 .. d + hwFrag : In(RxActQueue[i])[1] <= nRecv /\ i \in 1 .. N /\ i # c
  BY <1>1, <1>4 DEF Ring, Filled
<1>8. nRecv <= p /\ p \in Nat
  BY <1>1, <1>2
<1>9. \A i, j \in 1 .. c : SopAt(i)' /\ i <= j /\ NoEof(i, j - 1)' =>
        In(RxActQueue[j])' = <<In(RxActQueue[i])'[1], j - i + 1>>
  <2>1. SUFFICES ASSUME NEW i \in 1 .. c, NEW j \in 1 .. c, SopAt(i)', i <= j, NoEof(i, j - 1)'
                 PROVE  In(RxActQueue[j])' = <<In(RxActQueue[i])'[1], j - i + 1>>
    OBVIOUS
  <2>2. i \in 1 .. N /\ SopAt(i) /\ NoEof(i, j - 1)
    BY <1>1, <1>3, <2>1
  <2>3. CASE j = c
    <3>1. i = d + 1 /\ j - i + 1 = hwFrag + 1
      BY <1>1, <1>3, <2>2, <2>3
    <3>. QED BY <1>2, <1>5, <2>3, <3>1
  <2>4. CASE j # c
    <3>1. i \in 1 .. d + hwFrag /\ j \in 1 .. d + hwFrag
      BY <1>1, <2>1, <2>4
    <3>2. In(RxActQueue[j]) = <<In(RxActQueue[i])[1], j - i + 1>>
      BY <1>4, <2>1, <2>2, <3>1 DEF Ring, Filled
    <3>. QED BY <1>2, <1>7, <3>1, <3>2
  <2>. QED BY <2>3, <2>4
<1>10. \A i, j \in 1 .. c : SopAt(i)' /\ SopAt(j)' /\ i < j =>
         In(RxActQueue[i])'[1] < In(RxActQueue[j])'[1]
  <2>1. SUFFICES ASSUME NEW i \in 1 .. c, NEW j \in 1 .. c, SopAt(i)', SopAt(j)', i < j
                 PROVE  In(RxActQueue[i])'[1] < In(RxActQueue[j])'[1]
    OBVIOUS
  <2>2. i \in 1 .. d + hwFrag /\ SopAt(i) /\ SopAt(j)
    BY <1>1, <1>3, <2>1
  <2>3. CASE j = c
    <3>1. In(RxActQueue[j])'[1] = nRecv + 1
      BY <1>2, <1>6, <2>2, <2>3
    <3>2. In(RxActQueue[i])'[1] <= nRecv /\ In(RxActQueue[i])' = In(RxActQueue[i])
      BY <1>2, <1>7, <2>2
    <3>3. In(RxActQueue[i])[1] \in Nat
      <4>1. RxActQueue[i] \in HeldRcbs
        BY <1>7, <2>2, Member DEF HeldRcbs, N
      <4>. QED BY <4>1, RxAssumption DEF Inv, Held, RingTypes, In
    <3>. QED BY <1>1, <3>1, <3>2, <3>3
  <2>4. CASE j # c
    <3>1. j \in 1 .. d + hwFrag
      BY <1>1, <2>4
    <3>2. In(RxActQueue[i])[1] < In(RxActQueue[j])[1]
      BY <1>4, <2>1, <2>2, <3>1 DEF Ring, Filled
    <3>. QED BY <1>2, <1>7, <2>2, <3>1, <3>2
  <2>. QED BY <2>3, <2>4
<1>11. \A i \in 1 .. c : In(RxActQueue[i])'[1] <= nRecv'
  <2>1. TAKE i \in 1 .. c
  <2>2. CASE i = c
    BY <1>2, <1>8, <2>2
  <2>3. CASE i # c
    <3>1. i \in 1 .. d + hwFrag
      BY <1>1, <2>3
    <3>2. In(RxActQueue[i])[1] <= nRecv /\ In(RxActQueue[i])' = In(RxActQueue[i])
      BY <1>2, <1>7, <3>1
    <3>3. In(RxActQueue[i])[1] \in Nat
      <4>1. RxActQueue[i] \in HeldRcbs
        BY <1>7, <3>1, Member DEF HeldRcbs, N
      <4>. QED BY <4>1, RxAssumption DEF Inv, Held, RingTypes, In
    <3>. QED BY <1>1, <1>2, <1>8, <3>2, <3>3
  <2>. QED BY <2>2, <2>3
<1>12. hwFrag' > 0 => In(RxActQueue[D + 1])'[1] = nRecv'
  BY <1>2, <1>5
<1>13. Filled(D)'
  BY <1>4, <1>9, <1>10, <1>11, <1>12 DEF Filled
<1>14. Ordered(D)'
  <2>1. \A k \in 1 .. Len(delivered) : delivered[k][1][1] \in Nat /\ delivered[k][1][1] < nRecv + 1
    BY DEF Ring, Ordered, Past
  <2>2. \A x \in discarded : x < nRecv + 1
    BY DEF Ring, Ordered, Past
  <2>3. Past(nRecv + 1)'
    <3>1. CASE p = nRecv
      BY <1>2, <2>1, <2>2, <3>1 DEF Past
    <3>2. CASE p = nRecv + 1
      <4>1. \A x \in discarded : x < p + 1
        BY <1>1, <2>2, <3>2, RxAssumption DEF Inv, RingTypes
      <4>2. \A k \in 1 .. Len(delivered) : delivered[k][1][1] \in Nat /\ delivered[k][1][1] < p + 1
        BY <1>1, <2>1, <3>2
      <4>. QED BY <1>2, <4>1, <4>2 DEF Past
    <3>. QED BY <1>2, <3>1, <3>2
  <2>4. \A i \in 1 .. c : SopAt(i)' =>
          /\ Past(In(RxActQueue[i])[1])'
          /\ pc = "Receive" => In(chain[1])'[1] < In(RxActQueue[i])'[1]
    <3>1. SUFFICES ASSUME NEW i \in 1 .. c, SopAt(i)'
                   PROVE  /\ Past(In(RxActQueue[i])[1])'
                          /\ pc = "Receive" => In(chain[1])'[1] < In(RxActQueue[i])'[1]
      OBVIOUS
    <3>2. SopAt(i)
      BY <1>3, <3>1
    <3>3. CASE i = c
      <4>1. In(RxActQueue[i])'[1] = nRecv + 1
        BY <1>2, <1>6, <3>2, <3>3
      <4>2. Past(In(RxActQueue[i])[1])'
        BY <2>1, <2>2, <4>1 DEF Past
      <4>3. pc = "Receive" => In(chain[1])[1] < nRecv + 1
        <5>1. SUFFICES ASSUME pc = "Receive" PROVE In(chain[1])[1] < nRecv + 1
          OBVIOUS
        <5>2. chain[1] \in HeldRcbs
          BY <5>1, EmptySeq, LenProperties, Member DEF HeldRcbs, Inv, Stage, RingTypes
        <5>3. In(chain[1])[1] \in Nat /\ In(chain[1])[1] <= nRecv
          BY <5>1, <5>2, RxAssumption DEF Inv, Held, RingTypes, In, InHandIntact
        <5>. QED BY <1>1, <5>3
      <4>. QED BY <4>1, <4>2, <4>3
    <3>4. CASE i # c
      <4>1. i \in 1 .. d + hwFrag
        BY <1>1, <3>4
      <4>2. In(RxActQueue[i])' = In(RxActQueue[i])
        BY <1>2, <1>7, <4>1
      <4>3. /\ Past(In(RxActQueue[i])[1])
            /\ pc = "Receive" => In(chain[1])[1] < In(RxActQueue[i])[1]
        BY <1>4, <3>2, <4>1 DEF Ring, Ordered
      <4>4. Past(In(RxActQueue[i])[1])'
        BY <4>2, <4>3 DEF Past
      <4>. QED BY <4>2, <4>3, <4>4
    <3>. QED BY <3>3, <3>4
  <2>. QED BY <1>4, <2>3, <2>4 DEF Ordered
<1>. QED BY <1>13, <1>14

\* The engine fills the buffer of the descriptor it has fetched.
LEMMA HwFillStep == ASSUME Inv, NEW last \in BOOLEAN, HwFill(last) PROVE Inv'
<1>1. PICK d \in 0 .. N : Ring(d)
  BY DEF Inv
<1>c. PICK c : c = d + hwFrag + 1
  OBVIOUS
<1>p. PICK p : p = IF hwFrag = 0 THEN nRecv + 1 ELSE nRecv
  OBVIOUS
<1>e. PICK ends \in BOOLEAN : ends <=> last \/ hwLatch = NULL
  OBVIOUS
<1>q. PICK q : q = RxActQueue[c]
  OBVIOUS
<1>s. PICK s : s = RxActQueue[d + 1]
  OBVIOUS
<1>2. /\ N \in Nat /\ hwFrag \in Nat /\ N = Len(RxActQueue) /\ nRecv \in Nat
      /\ \A i \in 1 .. N : RxActQueue[i] \in Rcb
      /\ hwCur # NULL
  BY LenProperties, RxAssumption DEF Inv, RingTypes, N, HwFill
<1>3. /\ c \in 1 .. N /\ hwPtr = NULL /\ hwCur = q
      /\ hwLatch = NULL \/ (c < N /\ hwLatch = RxActQueue[c + 1])
      /\ \A i \in 1 .. N : ~Eoq[RxActQueue[i]]
      /\ hwSop = IF hwFrag = 0 THEN NULL ELSE s
  BY <1>1, <1>2, <1>c, <1>q, <1>s DEF Ring, Engine, HwStopped, HwRunning
<1>4. d + 1 \in 1 .. N /\ s \in Rcb /\ q \in Rcb /\ (hwFrag = 0 => q = s) /\ s # NULL
  BY <1>2, <1>3, <1>c, <1>q, <1>s, NullIsNoRcb
<1>5. /\ (IF hwSop = NULL THEN hwCur ELSE hwSop) = s
      /\ (IF hwSop = NULL THEN nRecv + 1 ELSE nRecv) = p
  BY <1>3, <1>4, <1>p
<1>6. /\ p <= MaxPkt /\ nRecv' = p
      /\ hwFrag + 1 = MaxFrags => last
      /\ data' = [data EXCEPT ![Dat[q]] = <<p, hwFrag + 1>>]
      /\ Eof' = [Eof EXCEPT ![q] = ends]
      /\ Eoq' = [Eoq EXCEPT ![q] = (hwLatch = NULL)]
      /\ Own' = [Own EXCEPT ![s] = ~ends]
      /\ cp' = IF ends THEN q ELSE cp
      /\ rxInt' = (rxInt \/ ends)
      /\ hwPtr' = hwLatch
      /\ hwCur' = NULL /\ hwLatch' = NULL
      /\ hwSop' = IF ends THEN NULL ELSE s
      /\ hwFrag' = IF ends THEN 0 ELSE hwFrag + 1
      /\ UNCHANGED <<lists, HNext, Dat, owner, cpu, hwTd, HostErr, dev, armed,
                     tasklet, delivered, discarded, lost>>
  BY <1>3, <1>5, <1>e DEF HwFill
<1>7. /\ ends \in BOOLEAN /\ (hwLatch = NULL => ends) /\ (~ends => hwFrag + 1 # MaxFrags)
      /\ p \in Nat /\ nRecv <= p
  BY <1>2, <1>6, <1>e, <1>p
<1>8. /\ Eof' \in [Rcb -> BOOLEAN] /\ Eoq' \in [Rcb -> BOOLEAN] /\ Own' \in [Rcb -> BOOLEAN]
  BY <1>6, Zenon DEF Inv, RingTypes
<1>9. /\ \A r \in Rcb : /\ r # q => Eof'[r] = Eof[r] /\ Eoq'[r] = Eoq[r]
                        /\ r # s => Own'[r] = Own[r]
      /\ Eof'[q] <=> ends
      /\ Eoq'[q] <=> hwLatch = NULL
      /\ Own'[s] <=> ~ends
  BY <1>4, <1>6 DEF Inv, RingTypes
<1>10. UNCHANGED <<lists, HNext, Dat, owner, cpu, nRcb, lost>>
  BY <1>6 DEF dev, chan
<1>11. Places' /\ Held' /\ Linked' /\ Hand' = Hand /\ N' = N
  BY <1>10, HardwareLeaves
<1>12. q \in HeldRcbs /\ Dat[q] \in Buf /\ \A r \in HeldRcbs : r # q => Dat[r] # Dat[q]
  <2>1. q \in HeldRcbs
    BY <1>2, <1>3, <1>q, Member DEF HeldRcbs
  <2>. QED BY <2>1 DEF Inv, Held
<1>13. /\ In(q)' = <<p, hwFrag + 1>>
       /\ \A r \in HeldRcbs : r # q => In(r)' = In(r)
  <2>1. Dat' = Dat /\ data \in [Buf -> (0 .. MaxPkt) \X (0 .. MaxFrags)]
    BY <1>6 DEF Inv, RingTypes
  <2>2. /\ data'[Dat'[q]] = <<p, hwFrag + 1>>
        /\ \A r \in HeldRcbs : r # q => data'[Dat'[r]] = data[Dat[r]]
    BY <1>6, <1>12, <2>1
  <2>. QED BY <2>2 DEF In
<1>14. RingTypes'
  <2>1. hwFrag' \in 0 .. MaxFrags - 1 /\ hwFrag + 1 \in 0 .. MaxFrags
    BY <1>2, <1>6, <1>7, RxAssumption DEF Inv, RingTypes
  <2>2. p \in 0 .. MaxPkt
    BY <1>6, <1>7, RxAssumption
  <2>3. data' \in [Buf -> (0 .. MaxPkt) \X (0 .. MaxFrags)]
    BY <1>6, <1>12, <2>1, <2>2 DEF Inv, RingTypes
  <2>4. hwPtr' \in Ptr /\ hwSop' \in Ptr /\ hwCur' \in Ptr /\ hwLatch' \in Ptr
    BY <1>4, <1>6 DEF Inv, RingTypes, Ptr
  <2>. QED BY <1>6, <1>8, <2>1, <2>2, <2>3, <2>4 DEF Inv, RingTypes, lists, cpu, dev, chan
<1>15. FlagTypes'
  <2>1. rxInt' \in BOOLEAN
    BY <1>6
  <2>2. cp' \in Ptr \cup {TEARDOWN_VAL}
    BY <1>4, <1>6 DEF Inv, FlagTypes, Ptr
  <2>. QED BY <1>6, <2>1, <2>2 DEF Inv, FlagTypes, lists, cpu, dev, chan, free
<1>16. Stage'
  <2>1. N > 0
    BY <1>2, <1>3
  <2>. QED BY <1>6, <1>11, <2>1 DEF Inv, Stage, Handling, InitRcbAdds, Answered, lists, cpu, dev, chan, free
<1>17. Marked'
  <2>1. q \in RcbsOf(RxActQueue) /\ s \in RcbsOf(RxActQueue)
    BY <1>2, <1>3, <1>4, <1>q, <1>s, Member
  <2>2. \A i \in 1 .. Len(Hand) : Hand[i] \in Rcb /\ Hand[i] # q /\ Hand[i] # s
    <3>1. Hand \in Seq(Rcb)
      BY DEF Inv, RingTypes, Hand
    <3>. QED BY <2>1, <3>1, Member DEF Inv, Places
  <2>3. \A i \in 1 .. Len(chain) : chain[i] \in Rcb /\ chain[i] # q /\ chain[i] # s
    BY <2>1, Member DEF Inv, Places, RingTypes
  <2>4. \A r \in Rcb : r # q /\ r # s /\ Fresh(r) => Own'[r] /\ ~Eof'[r] /\ ~Eoq'[r]
    BY <1>9 DEF Fresh
  <2>5. chain' = chain /\ pc' = pc
    BY <1>6 DEF cpu
  <2>6. \A i \in 1 .. Len(Hand) : Own'[Hand[i]] /\ ~Eof'[Hand[i]] /\ ~Eoq'[Hand[i]]
    BY <2>2, <2>4 DEF Inv, Marked
  <2>7. \A i \in 1 .. Len(chain) : pc # "Receive" \/ (1 < i /\ i < Len(chain)) =>
          Own'[chain[i]] /\ ~Eof'[chain[i]] /\ ~Eoq'[chain[i]]
    BY <2>3, <2>4 DEF Inv, Marked
  <2>. QED BY <1>11, <2>5, <2>6, <2>7 DEF Marked, Fresh
<1>18. pc = "Receive" => \A k \in 1 .. Len(chain) : In(chain[k])' = In(chain[k])
  <2>1. SUFFICES ASSUME pc = "Receive", NEW k \in 1 .. Len(chain) PROVE In(chain[k])' = In(chain[k])
    OBVIOUS
  <2>2. chain[k] \in HeldRcbs /\ chain[k] \in RcbsOf(chain)
    BY <2>1, Member DEF HeldRcbs
  <2>3. chain[k] # q
    BY <1>2, <1>3, <1>q, <2>2, Member DEF Inv, Places
  <2>4. chain' = chain
    BY <1>6 DEF cpu
  <2>. QED BY <1>13, <2>2, <2>3, <2>4 DEF In
<1>19. pc = "Receive" => chain # <<>> /\ 1 \in 1 .. Len(chain)
  BY EmptySeq, LenProperties DEF Inv, Stage, RingTypes
<1>20. InHandIntact'
  <2>1. SUFFICES ASSUME pc = "Receive" PROVE InHandIntact'
    BY <1>6 DEF InHandIntact, cpu
  <2>2. chain' = chain /\ delivered' = delivered /\ discarded' = discarded
    BY <1>6 DEF cpu
  <2>3. In(chain[1])' = In(chain[1])
    BY <1>18, <1>19, <2>1
  <2>4. \A k \in 1 .. Len(chain') : In(chain[k])' = <<In(chain[1])'[1], k>>
    BY <1>18, <2>1, <2>2, <2>3 DEF Inv, InHandIntact
  <2>5. Past(In(chain[1])[1])'
    BY <2>1, <2>2, <2>3 DEF Inv, InHandIntact, Past
  <2>6. In(chain[1])'[1] <= nRecv'
    <3>1. chain[1] \in HeldRcbs
      BY <1>19, <2>1, Member DEF HeldRcbs
    <3>2. In(chain[1])[1] \in Nat /\ In(chain[1])[1] <= nRecv
      BY <2>1, <3>1, RxAssumption DEF Inv, Held, RingTypes, In, InHandIntact
    <3>. QED BY <1>2, <1>6, <1>7, <2>3, <3>2
  <2>. QED BY <2>4, <2>5, <2>6 DEF InHandIntact
<1>21. DeliveredIntact'
  BY <1>6 DEF Inv, DeliveredIntact
<1>22. Fill(d, c, p, ends)
  <2>1. /\ RxActQueue' = RxActQueue /\ N' = N /\ nRecv' = p
        /\ p = (IF hwFrag = 0 THEN nRecv + 1 ELSE nRecv)
        /\ c = d + hwFrag + 1 /\ c \in 1 .. N
    BY <1>3, <1>6, <1>11, <1>p, <1>c DEF lists
  <2>2. \A i \in 1 .. N : /\ i # c => RxActQueue[i] # q
                          /\ i # d + 1 => RxActQueue[i] # s
                          /\ RxActQueue[i] \in HeldRcbs
    BY <1>2, <1>3, <1>4, <1>q, <1>s, Member DEF Inv, Places, Inj, HeldRcbs
  <2>3. \A i \in 1 .. N : /\ i # c => Eof'[RxActQueue[i]] = Eof[RxActQueue[i]]
                          /\ i # d + 1 => Own'[RxActQueue[i]] = Own[RxActQueue[i]]
                          /\ i # c => ~Eoq'[RxActQueue[i]]
    BY <1>2, <1>3, <1>9, <2>2
  <2>4. \A i \in 1 .. N : i # c => In(RxActQueue[i])' = In(RxActQueue[i])
    <3>1. \A i \in 1 .. N : In(RxActQueue[i])' = data'[Dat'[RxActQueue[i]]]
      BY <2>1 DEF In
    <3>2. \A r \in HeldRcbs : r # q => data'[Dat'[r]] = In(r)
      BY <1>13 DEF In
    <3>. QED BY <2>2, <3>1, <3>2
  <2>5. In(RxActQueue[c])' = <<p, hwFrag + 1>>
    <3>1. data'[Dat'[q]] = <<p, hwFrag + 1>>
      BY <1>6, <1>12 DEF Inv, RingTypes
    <3>2. In(RxActQueue[c])' = data'[Dat'[RxActQueue[c]]]
      BY <2>1 DEF In
    <3>. QED BY <1>q, <3>1, <3>2
  <2>. QED BY <1>3, <1>6, <1>7, <1>9, <1>q, <1>s, <2>1, <2>3, <2>4, <2>5 DEF Fill
<1>. DEFINE D == IF ends THEN c ELSE d
<1>23. D \in 0 .. N
  BY <1>2, <1>3
<1>24. Packets(D)' /\ Engine(D)' /\ Filled(D)' /\ Ordered(D)'
  <2>1. RingTypes /\ Packets(d)
    BY <1>1 DEF Inv, Ring
  <2>2. UNCHANGED <<delivered, discarded, pc>>
    BY <1>6 DEF cpu
  <2>3. pc = "Receive" => In(chain[1])' = In(chain[1])
    BY <1>18, <1>19
  <2>4. Packets(D)'
    BY <1>22, <2>1, FillPackets
  <2>5. Engine(D)'
    BY <1>22, <2>1, FillEngine
  <2>6. Filled(D)' /\ Ordered(D)'
    BY <1>1, <1>22, <2>2, <2>3, FillData
  <2>. QED BY <2>4, <2>5, <2>6
<1>. QED BY <1>11, <1>14, <1>15, <1>16, <1>17, <1>20, <1>21, <1>23, <1>24 DEF Inv, Ring

\* The engine answers a teardown between two packets: it has filled all RCBs up to
\* position d, and stops there.
LEMMA HwTeardownStep == Inv /\ Asked /\ HwTeardown => Inv' /\ Answered'
<1>. SUFFICES ASSUME Inv, Asked, HwTeardown PROVE Inv' /\ Answered'
  OBVIOUS
<1>. USE DEF HwTeardown, lists, cpu, modes, bufs, hist, dev, chan, free
<1>1. PICK d \in 0 .. N : Ring(d)
  BY DEF Inv
<1>2. Places' /\ Held' /\ Linked' /\ Hand' = Hand /\ N' = N
  BY HardwareLeaves DEF Inv
<1>3. QueueKept
  BY DEF QueueKept
<1>4. Packets(d)' /\ Filled(d)' /\ Ordered(d)'
  BY <1>1, <1>3, RingKept, OrderKept DEF Inv, Ring, In
<1>5. N \in Nat /\ hwFrag \in Nat /\ \A i \in 1 .. N : RxActQueue[i] \in Rcb
  BY RxAssumption DEF Inv, RingTypes, N
<1>6. Answered'
  BY DEF Asked, Answered
<1>7. hwFrag = 0
  <2>1. CASE HwStopped(d)
    BY <2>1 DEF HwStopped
  <2>2. CASE HwRunning(d)
    <3>1. d + 1 \in 1 .. N
      BY <1>5, <2>2 DEF HwRunning
    <3>. QED BY <1>1, <1>5, <3>1, NullIsNoRcb DEF Ring, Engine
  <2>. QED BY <1>1, <2>1, <2>2 DEF Ring, Engine
<1>8. N > 0 => (d > 0 /\ Eoq[RxActQueue[d]]) \/ d < N
  <2>1. CASE HwStopped(d)
    BY <2>1 DEF HwStopped
  <2>2. CASE HwRunning(d)
    BY <1>5, <1>7, <2>2 DEF HwRunning
  <2>. QED BY <1>1, <2>1, <2>2 DEF Ring, Engine
<1>9. Engine(d)'
  <2>1. /\ hwPtr' = NULL /\ hwCur' = NULL /\ hwLatch' = NULL /\ hwFrag' = 0 /\ hwSop' = NULL
        /\ RxActQueue' = RxActQueue /\ Eoq' = Eoq
    BY <1>7
  <2>2. HwStopped(d)'
    BY <1>2, <1>6, <1>8, <2>1 DEF HwStopped
  <2>. QED BY <2>1, <2>2 DEF Engine
<1>10. RingTypes'
  BY <1>7 DEF Inv, RingTypes, Ptr
<1>11. FlagTypes'
  <2>1. /\ rxInt' \in BOOLEAN /\ hwTd' \in BOOLEAN /\ cp' \in Ptr \cup {TEARDOWN_VAL}
        /\ UNCHANGED <<pc, caller, PacketsServiced, RxTeardownPending, opens, stale, RxActive,
                       failed, HostErr, MiiEn, armed, tasklet, RcbStart, ChIsOpen, closing,
                       foreignFree, usedFreed>>
    OBVIOUS
  <2>. HIDE DEF HwTeardown
  <2>. QED BY <2>1 DEF Inv, FlagTypes
<1>12. Stage'
  BY <1>2, <1>6 DEF Inv, Stage, Handling, InitRcbAdds
<1>13. Marked' /\ InHandIntact' /\ DeliveredIntact'
  BY <1>2 DEF Inv, Marked, Fresh, InHandIntact, DeliveredIntact, Past, In
<1>. QED BY <1>2, <1>4, <1>6, <1>9, <1>10, <1>11, <1>12, <1>13 DEF Inv, Ring

-----------------------------------------------------------------------------
(* Closing, and opening again.                                             *)

\* RxTeardownInt() finds every RCB that was set up in the pool or in the queue, with
\* a buffer of its own: FreeRx() frees what is the driver's, each buffer once, and
\* without FreeRx() the RCBs can be used again.
LEMMA RxTeardownIntStep ==
  Inv /\ Asked /\ Unset /\ CleanClose /\ RxTeardownInt => Shut'
<1>. SUFFICES ASSUME Inv, Asked, Unset, CleanClose, RxTeardownInt PROVE Shut'
  OBVIOUS
<1>. USE DEF RxTeardownInt, RxIntReturn, modes, dma, hist
<1>1. /\ lost = {} /\ Needs = <<>> /\ chain = <<>> /\ good = <<>> /\ Hand = <<>>
      /\ RxTeardownPending = "partial" /\ RcbStart => nRcb = RxNumBuffers
      /\ ~hwTd /\ ~HostErr /\ ~foreignFree
  BY DEF CleanClose, Inv, Stage, Hand, Asked, Answered, TeardownSeen
<1>2. HeldRcbs = 1 .. nRcb
  <2>1. RcbsOf(<<>>) = {}
    BY DEF RcbsOf
  <2>. QED BY <1>1, <2>1 DEF Inv, Places, HeldRcbs
<1>3. /\ \A r \in 1 .. nRcb : r \in Rcb /\ Dat[r] \in Buf /\ owner[Dat[r]] = "hal"
      /\ \A r, s \in 1 .. nRcb : Dat[r] = Dat[s] => r = s
      /\ \A b \in Buf : owner[b] = "hal" => \E r \in 1 .. nRcb : Dat[r] = b
  <2>1. \A r \in 1 .. nRcb : r \in Rcb
    BY <1>2, HeldAreRcbs
  <2>. QED BY <1>2, <2>1 DEF Inv, Held
<1>4. nRcb \in Nat /\ RxNumBuffers \in Nat /\ \A r \in Rcb : r \in 1 .. nRcb \/ Dat[r] = NULL
  BY RxAssumption DEF Inv, RingTypes, Unset, Rcb
<1>5. DeliveredIntact' /\ Past(nRecv + 1)'
  <2>1. Past(nRecv + 1)
    BY DEF Inv, Ring, Ordered
  <2>. QED BY <2>1 DEF Inv, DeliveredIntact, Past
<1>h. HwHeld'
  BY DEF HwHeld
<1>6. CASE RxTeardownPending = "full"
  <2>1. FreeRx
    BY <1>6
  <2>2. \A b \in AllBufs : b \in Buf /\ owner[b] = "hal"
    BY <1>3, <1>4 DEF AllBufs
  <2>3. \A b \in Buf : owner[b] = "hal" => b \in AllBufs
    BY <1>3, BufAssumption DEF AllBufs
  <2>4. /\ ~RcbStart' /\ nRcb' = 0 /\ stale' = 0 /\ Dat' = [r \in Rcb |-> NULL]
        /\ \A b \in Buf : owner'[b] # "hal"
        /\ owner' \in [Buf -> {"free", "hal", "os"}]
    BY <1>1, <2>1, <2>3 DEF FreeRx, Inv, RingTypes
  <2>5. ~foreignFree'
    <3>1. \A r, s \in Rcb : r # s => Dat[r] # Dat[s] \/ Dat[r] = NULL
      BY <1>3, <1>4
    <3>. QED BY <1>1, <2>1, <2>2, <3>1 DEF FreeRx
  <2>6. RingTypes'
    BY <1>1, <1>4, <2>4, RxAssumption DEF Inv, RingTypes
  <2>7. FlagTypes'
    <3>1. stale' \in 0 .. MaxNeeds /\ PacketsServiced' \in 0 .. RxServiceMax
      BY <2>4, RxAssumption
    <3>2. armed' \in BOOLEAN /\ tasklet' \in BOOLEAN /\ pc' \in Pcs
      BY Zenon DEF Inv, FlagTypes, Pcs
    <3>3. UNCHANGED <<caller, cp, opens, failed, hwTd, HostErr, MiiEn, closing, usedFreed>>
      OBVIOUS
    <3>4. /\ RxTeardownPending' \in {"none", "full", "partial"} /\ RxActive' \in BOOLEAN
          /\ rxInt' \in BOOLEAN /\ ChIsOpen' \in BOOLEAN
      BY Zenon
    <3>5. RcbStart' \in BOOLEAN /\ foreignFree' \in BOOLEAN
      BY <2>1, Zenon DEF FreeRx
    <3>. HIDE DEF RxTeardownInt
    <3>. QED BY <3>1, <3>2, <3>3, <3>4, <3>5 DEF Inv, FlagTypes
  <2>. QED BY <1>1, <1>5, <1>h, <2>4, <2>5, <2>6, <2>7 DEF Shut
<1>7. CASE RxTeardownPending # "full"
  <2>1. UNCHANGED <<owner, foreignFree, Dat, RcbStart, nRcb, stale>>
    BY <1>7
  <2>2. RxTeardownPending = "partial"
    BY <1>7 DEF Inv, FlagTypes, TeardownSeen
  <2>3. RingTypes'
    BY <1>1, <2>1 DEF Inv, RingTypes
  <2>4. FlagTypes'
    <3>1. PacketsServiced' \in 0 .. RxServiceMax
      BY RxAssumption
    <3>2. armed' \in BOOLEAN /\ tasklet' \in BOOLEAN /\ pc' \in Pcs
      BY Zenon DEF Inv, FlagTypes, Pcs
    <3>. QED BY <1>1, <2>1, <3>1, <3>2 DEF Inv, FlagTypes
  <2>5. CASE RcbStart
    <3>1. nRcb = RxNumBuffers /\ Rcb = 1 .. nRcb
      BY <1>1, <2>2, <2>5 DEF Rcb
    <3>. QED BY <1>1, <1>3, <1>5, <1>h, <2>1, <2>3, <2>4, <2>5, <3>1 DEF Shut
  <2>6. CASE ~RcbStart
    <3>1. \A b \in Buf : owner[b] # "hal"
      BY <1>3, <2>6 DEF Unset
    <3>. QED BY <1>1, <1>5, <1>h, <2>1, <2>3, <2>4, <2>6, <3>1 DEF Shut
  <2>. QED BY <2>5, <2>6
<1>. QED BY <1>6, <1>7

\* What halOpen() begins with: the engine is reset and the lists are empty, except
\* for the pool.
LEMMA OpeningBegins ==
  ASSUME Shut, ChannelReset, pc' \in {"Malloc", "OpenEnd", "InitRcb"},
         pc' = "Malloc" => nRcb' = 0, SetMode(Rcb, FALSE),
         HNext' \in [Rcb -> Ptr], Dat' \in [Rcb -> Buf \cup {NULL}], RcbStart' \in BOOLEAN,
         nRcb' \in 0 .. RxNumBuffers, RcbPool' \in Seq(Rcb), Inj(RcbPool)',
         RcbsOf(RcbPool)' = 1 .. nRcb',
         \A r \in 1 .. nRcb' : Dat'[r] \in Buf /\ owner[Dat'[r]] = "hal",
         \A r, s \in 1 .. nRcb' : Dat'[r] = Dat'[s] => r = s,
         \A b \in Buf : owner[b] = "hal" => \E r \in 1 .. nRcb' : Dat'[r] = b
  PROVE  Inv'
<1>. USE DEF ChannelReset, HwReset, bufs, free
<1>0. RingTypes /\ FlagTypes /\ DeliveredIntact /\ Past(nRecv + 1)
  BY DEF Shut
<1>1. /\ Needs' = <<>> /\ chain' = <<>> /\ good' = <<>> /\ RxActQueue' = <<>> /\ lost' = {}
      /\ Hand' = <<>> /\ N' = 0 /\ ~RxActive' /\ ~HostErr' /\ ~foreignFree' /\ ~rxInt'
      /\ ~Answered' /\ caller' = "InitRcb" /\ UNCHANGED <<owner, data, nRecv, delivered, discarded>>
  BY DEF Shut, Hand, N, Answered
<1>2. RingTypes'
  <2>1. Own' \in [Rcb -> BOOLEAN] /\ Eof' \in [Rcb -> BOOLEAN] /\ Eoq' \in [Rcb -> BOOLEAN]
    BY Zenon DEF SetMode
  <2>2. UNCHANGED <<OldTailRcb>> /\ hwPtr' = NULL /\ hwCur' = NULL /\ hwLatch' = NULL /\ hwSop' = NULL
        /\ hwFrag' = 0
    OBVIOUS
  <2>. HIDE DEF ChannelReset, HwReset
  <2>3. MaxNeeds \in Nat /\ 0 \in 0 .. MaxFrags - 1 /\ Len(<<>>) = 0 /\ <<>> \in Seq(Rcb)
    BY RxAssumption
  <2>. QED BY <1>0, <1>1, <2>1, <2>2, <2>3 DEF RingTypes, Ptr
<1>3. FlagTypes'
  <2>1. opens' \in 0 .. MaxOpens /\ cp' \in Ptr
    BY <1>0, RxAssumption DEF FlagTypes, Ptr
  <2>2. pc' \in Pcs
    BY DEF Pcs
  <2>. QED BY <1>0, <2>1, <2>2 DEF FlagTypes
<1>4. Stage'
  BY <1>1, RxAssumption DEF Stage, Handling, InitRcbAdds
<1>5. RcbsOf(<<>>) = {} /\ Inj(<<>>)
  BY DEF RcbsOf, Inj
<1>6. /\ RcbsOf(RxActQueue)' = {} /\ RcbsOf(Needs)' = {} /\ RcbsOf(chain)' = {} /\ RcbsOf(Hand)' = {}
      /\ Inj(RxActQueue)' /\ Inj(Needs)' /\ Inj(chain)' /\ Inj(Hand)'
  BY <1>1, <1>5
<1>7. Places'
  BY <1>1, <1>6 DEF Places
<1>8. HeldRcbs' = 1 .. nRcb'
  BY <1>6 DEF HeldRcbs
<1>9. Held'
  BY <1>1, <1>8 DEF Held
<1>10. Linked' /\ Marked' /\ InHandIntact'
  BY <1>1 DEF Linked, Marked, InHandIntact
<1>11. DeliveredIntact'
  BY <1>0, <1>1 DEF DeliveredIntact
<1>12. Ring(0)'
  <2>1. Past(nRecv + 1)'
    BY <1>0, <1>1 DEF Past
  <2>. QED BY <1>1, <2>1 DEF Ring, Packets, Engine, HwStopped, Filled, Ordered, Fills, NoEof
<1>. QED BY <1>1, <1>2, <1>3, <1>4, <1>7, <1>9, <1>10, <1>11, <1>12 DEF Inv

\* Opening without RCBs begins with no buffer of the driver either.
LEMMA InitRcbNewStep == Shut /\ InitRcbNew => Inv'
<1>. SUFFICES ASSUME Shut, InitRcbNew PROVE Inv'
  OBVIOUS
<1>1. /\ ChannelReset /\ pc' \in {"Malloc", "OpenEnd"} /\ nRcb' = 0 /\ RcbPool' = <<>>
      /\ SetMode(Rcb, FALSE) /\ RcbStart' \in BOOLEAN
      /\ HNext' = [r \in Rcb |-> NULL] /\ Dat' = [r \in Rcb |-> NULL] /\ ~RcbStart
  BY DEF InitRcbNew
<1>2. /\ RcbPool' \in Seq(Rcb) /\ Inj(RcbPool)' /\ RcbsOf(RcbPool)' = {} /\ 1 .. nRcb' = {}
      /\ nRcb' \in 0 .. RxNumBuffers
  BY <1>1, RxAssumption DEF Inj, RcbsOf
<1>3. HNext' \in [Rcb -> Ptr] /\ Dat' \in [Rcb -> Buf \cup {NULL}]
  BY <1>1 DEF Ptr
<1>4. \A b \in Buf : owner[b] # "hal"
  BY <1>1 DEF Shut
<1>. QED BY <1>1, <1>2, <1>3, <1>4, OpeningBegins

\* The RCBs that are used again are all of them, each once.
LEMMA OldRcbsAreAll ==
  OldRcbs \in Seq(Rcb) /\ OldRcbs # <<>> /\ Inj(OldRcbs) /\ RcbsOf(OldRcbs) = Rcb
<1>1. RxNumBuffers \in Nat /\ RxNumBuffers >= 1
  BY RxAssumption
<1>2. /\ \A i \in 1 .. RxNumBuffers : RxNumBuffers + 1 - i \in 1 .. RxNumBuffers
      /\ \A i \in 1 .. RxNumBuffers : RxNumBuffers + 1 - (RxNumBuffers + 1 - i) = i
  BY <1>1
<1>3. OldRcbs \in [1 .. RxNumBuffers -> Rcb]
  BY <1>2 DEF OldRcbs, Rcb
<1>4. OldRcbs \in Seq(Rcb) /\ Len(OldRcbs) = RxNumBuffers
  BY <1>1, <1>3, LenProperties
<1>5. \A i \in 1 .. RxNumBuffers : OldRcbs[i] = RxNumBuffers + 1 - i
  BY DEF OldRcbs, Rcb
<1>6. Inj(OldRcbs)
  BY <1>1, <1>4, <1>5 DEF Inj
<1>7. RcbsOf(OldRcbs) \subseteq Rcb
  BY <1>4, RcbsAreRcbs
<1>8. Rcb \subseteq RcbsOf(OldRcbs)
  <2>1. SUFFICES ASSUME NEW r \in 1 .. RxNumBuffers PROVE r \in RcbsOf(OldRcbs)
    BY DEF Rcb
  <2>2. OldRcbs[RxNumBuffers + 1 - r] = r /\ RxNumBuffers + 1 - r \in 1 .. Len(OldRcbs)
    BY <1>2, <1>4, <1>5
  <2>. QED BY <2>2 DEF RcbsOf
<1>. QED BY <1>1, <1>4, <1>6, <1>7, <1>8

\* Opening with the RCBs of the last life finds each with a buffer of its own.
LEMMA InitRcbReuseStep == Shut /\ InitRcbReuse => Inv'
<1>. SUFFICES ASSUME Shut, InitRcbReuse PROVE Inv'
  OBVIOUS
<1>1. /\ ChannelReset /\ pc' = "InitRcb" /\ nRcb' = RxNumBuffers /\ RcbPool' = OldRcbs
      /\ SetMode(Rcb, FALSE) /\ RcbStart' = RcbStart /\ HNext' = HNext /\ Dat' = Dat
      /\ RcbStart
  BY Zenon DEF InitRcbReuse
<1>2. 1 .. nRcb' = Rcb /\ nRcb' \in 0 .. RxNumBuffers
  BY <1>1, RxAssumption DEF Rcb
<1>3. /\ RcbPool' \in Seq(Rcb) /\ Inj(RcbPool)' /\ RcbsOf(RcbPool)' = Rcb
  <2>1. RcbsOf(RcbPool)' = RcbsOf(OldRcbs) /\ (Inj(RcbPool)' <=> Inj(OldRcbs))
    BY <1>1 DEF RcbsOf, Inj
  <2>. QED BY <1>1, <2>1, OldRcbsAreAll
<1>4. /\ HNext' \in [Rcb -> Ptr] /\ Dat' \in [Rcb -> Buf \cup {NULL}] /\ RcbStart' \in BOOLEAN
  BY <1>1 DEF Shut, RingTypes, FlagTypes
<1>5. /\ \A r \in Rcb : Dat'[r] \in Buf /\ owner[Dat'[r]] = "hal"
      /\ \A r, s \in Rcb : Dat'[r] = Dat'[s] => r = s
      /\ \A b \in Buf : owner[b] = "hal" => \E r \in Rcb : Dat'[r] = b
  BY <1>1 DEF Shut
<1>. QED BY <1>1, <1>2, <1>3, <1>4, <1>5, OpeningBegins

\* Packets that came before packet m + 1 came before the later n + 1.
LEMMA Later == \A m, n, x \in Nat : m <= n /\ x < m + 1 => x < n + 1
  OBVIOUS

\* Everything that Shut says of the driver stays as it is.
LEMMA ShutKept ==
  ASSUME Shut, RingTypes', FlagTypes', HwHeld', pc' \in {"closed", "idle"},
         UNCHANGED <<RcbPool, RxActQueue, Needs, chain, good, lost, RxActive, ChIsOpen,
                     RxTeardownPending, foreignFree, RcbStart, nRcb, Dat, delivered, discarded>>,
         ~hwTd', ~HostErr', nRecv <= nRecv',
         \A b \in Buf : owner'[b] = "hal" <=> owner[b] = "hal"
  PROVE  Shut'
<1>1. DeliveredIntact'
  BY DEF Shut, DeliveredIntact
<1>2. Past(nRecv + 1)'
  <2>1. Past(nRecv + 1) /\ nRecv \in Nat /\ nRecv' \in Nat /\ discarded \subseteq Nat
    BY RxAssumption DEF Shut, RingTypes
  <2>2. PICK m \in Nat, n \in Nat : m = nRecv /\ n = nRecv' /\ m <= n
    BY <2>1
  <2>3. \A x \in Nat : x < m + 1 => x < n + 1
    BY <2>2, Later
  <2>4. /\ \A k \in 1 .. Len(delivered) : delivered[k][1][1] \in Nat /\ delivered[k][1][1] < m + 1
        /\ \A x \in discarded : x < m + 1
    BY <2>1, <2>2 DEF Past
  <2>5. /\ \A k \in 1 .. Len(delivered) : delivered[k][1][1] \in Nat /\ delivered[k][1][1] < n + 1
        /\ \A x \in discarded : x < n + 1
    BY <2>1, <2>3, <2>4
  <2>. QED BY <2>2, <2>5 DEF Past
<1>3. /\ RcbPool' = <<>> /\ RxActQueue' = <<>> /\ Needs' = <<>> /\ chain' = <<>> /\ good' = <<>>
      /\ lost' = {} /\ ~RxActive' /\ ~ChIsOpen' /\ RxTeardownPending' = "none" /\ ~foreignFree'
  BY DEF Shut
<1>4. CASE RcbStart
  BY <1>1, <1>2, <1>3, <1>4 DEF Shut
<1>5. CASE ~RcbStart
  BY <1>1, <1>2, <1>3, <1>5 DEF Shut
<1>. QED BY <1>4, <1>5

\* An engine that AddToRxQueue() restarted when it had answered the teardown goes on
\* until halClose() resets it; what it writes is not looked at any more.
LEMMA ShutFill == ASSUME Shut, NEW last \in BOOLEAN, HwFill(last) PROVE Shut'
<1>0. RingTypes /\ FlagTypes /\ pc \in {"closed", "idle"} /\ ~hwTd /\ ~HostErr
  BY DEF Shut
<1>p. PICK p : p = IF hwSop = NULL THEN nRecv + 1 ELSE nRecv
  OBVIOUS
<1>e. PICK ends \in BOOLEAN : ends <=> last \/ hwLatch = NULL
  OBVIOUS
<1>s. PICK s : s = IF hwSop = NULL THEN hwCur ELSE hwSop
  OBVIOUS
<1>1. /\ p <= MaxPkt /\ nRecv' = p
      /\ hwFrag + 1 = MaxFrags => last
      /\ data' = [data EXCEPT ![Dat[hwCur]] = <<p, hwFrag + 1>>]
      /\ Eof' = [Eof EXCEPT ![hwCur] = ends]
      /\ Eoq' = [Eoq EXCEPT ![hwCur] = (hwLatch = NULL)]
      /\ Own' = [Own EXCEPT ![s] = ~ends]
      /\ cp' = IF ends THEN hwCur ELSE cp
      /\ rxInt' = (rxInt \/ ends)
      /\ hwPtr' = hwLatch
      /\ hwCur' = NULL /\ hwLatch' = NULL
      /\ hwSop' = IF ends THEN NULL ELSE s
      /\ hwFrag' = IF ends THEN 0 ELSE hwFrag + 1
      /\ UNCHANGED <<lists, HNext, Dat, owner, cpu, hwTd, HostErr, dev, armed,
                     tasklet, delivered, discarded, lost>>
  BY <1>e, <1>p, <1>s DEF HwFill
<1>2. /\ nRecv \in Nat /\ hwFrag \in Nat /\ p \in 0 .. MaxPkt /\ nRecv <= p /\ s \in Ptr
      /\ (~ends => hwFrag + 1 # MaxFrags)
  BY <1>0, <1>1, <1>e, <1>p, <1>s, RxAssumption DEF RingTypes
<1>3. Eof' \in [Rcb -> BOOLEAN] /\ Eoq' \in [Rcb -> BOOLEAN] /\ Own' \in [Rcb -> BOOLEAN]
  BY <1>0, <1>1, Zenon DEF RingTypes
<1>4. hwFrag' \in 0 .. MaxFrags - 1 /\ hwFrag + 1 \in 0 .. MaxFrags
  BY <1>0, <1>1, <1>2, RxAssumption DEF RingTypes
<1>5. data' \in [Buf -> (0 .. MaxPkt) \X (0 .. MaxFrags)]
  BY <1>0, <1>1, <1>2, <1>4 DEF RingTypes
<1>6. hwPtr' \in Ptr /\ hwSop' \in Ptr /\ hwCur' \in Ptr /\ hwLatch' \in Ptr
  BY <1>0, <1>1, <1>2 DEF RingTypes, Ptr
<1>7. RingTypes'
  BY <1>0, <1>1, <1>2, <1>3, <1>4, <1>5, <1>6 DEF RingTypes, lists, cpu, dev, chan
<1>8. FlagTypes'
  <2>1. rxInt' \in BOOLEAN
    BY <1>1
  <2>2. cp' \in Ptr \cup {TEARDOWN_VAL}
    BY <1>0, <1>1 DEF RingTypes, FlagTypes
  <2>. QED BY <1>0, <1>1, <2>1, <2>2 DEF FlagTypes, lists, cpu, dev, chan, free
<1>9. UNCHANGED <<RcbPool, RxActQueue, Needs, chain, good, lost, RxActive, ChIsOpen, pc,
                  RxTeardownPending, foreignFree, RcbStart, nRcb, Dat, delivered, discarded,
                  hwTd, HostErr, owner>>
  BY <1>1 DEF lists, cpu, dev, chan, free
<1>10. HwHeld'
  BY <1>1, <1>9 DEF HwFill, HwHeld, Shut
<1>. QED BY <1>0, <1>1, <1>2, <1>7, <1>8, <1>9, <1>10, ShutKept

\* Until the next opening nothing changes but the engine, which halClose() resets,
\* and the buffers that the network stack frees.
LEMMA ShutStep ==
  Shut /\ Closes /\ ~Alive /\ [Next]_vars =>
    InitRcbNew \/ InitRcbReuse \/ (Shut' /\ ~Alive')
<1>. SUFFICES ASSUME Shut, Closes, ~Alive, [Next]_vars, ~InitRcbNew, ~InitRcbReuse
              PROVE  Shut' /\ ~Alive'
  OBVIOUS
<1>0. RingTypes /\ FlagTypes
  BY DEF Shut
<1>1. /\ pc \in {"closed", "idle"} /\ ~ChIsOpen /\ ~hwTd /\ ~HostErr
      /\ pc = "idle" => closing
      /\ RxTeardownPending = "none"
  BY DEF Shut, Alive
<1>2. ASSUME UNCHANGED <<pc, closing, ChIsOpen>> PROVE ~Alive'
  BY <1>2 DEF Alive
<1>h. HwHeld
  BY DEF Shut
<1>3. ASSUME UNCHANGED vars PROVE Shut' /\ ~Alive'
  <2>. USE DEF vars, lists, modes, bufs, cpu, dma, intr, hist, chan, free, dev
  <2>0. RingTypes'
    BY <1>0, <1>3 DEF RingTypes
  <2>1. RingTypes' /\ FlagTypes'
    BY <1>0, <1>3, <2>0 DEF FlagTypes
  <2>2. nRecv <= nRecv'
    BY <1>0, <1>3, RxAssumption DEF RingTypes
  <2>3. HwHeld'
    BY <1>3, <1>h DEF HwHeld
  <2>. QED BY <1>1, <1>2, <1>3, <2>1, <2>2, <2>3, ShutKept
<1>4. ASSUME HwFetch PROVE Shut' /\ ~Alive'
  <2>. USE DEF HwFetch, lists, modes, bufs, cpu, intr, hist, chan, free, dev
  <2>1. hwCur' \in Ptr /\ hwLatch' \in Ptr /\ hwPtr' \in Ptr
    BY <1>0, <1>4 DEF RingTypes, Ptr
  <2>2. RingTypes'
    BY <1>0, <1>4, <2>1 DEF RingTypes
  <2>3. FlagTypes'
    BY <1>0, <1>4 DEF FlagTypes
  <2>4. nRecv <= nRecv'
    BY <1>0, <1>4, RxAssumption DEF RingTypes
  <2>5. HwHeld'
    BY <1>4, <1>h DEF HwHeld
  <2>. QED BY <1>1, <1>2, <1>4, <2>2, <2>3, <2>4, <2>5, ShutKept
<1>5. ASSUME NEW last \in BOOLEAN, HwFill(last) PROVE Shut' /\ ~Alive'
  BY <1>2, <1>5, ShutFill DEF HwFill, cpu, dev, chan
<1>6. ASSUME halIsr PROVE Shut' /\ ~Alive'
  <2>. USE DEF halIsr, lists, modes, bufs, dma, hist, chan, free, dev
  <2>1. pc' = pc /\ armed' \in BOOLEAN /\ tasklet' \in BOOLEAN
    BY <1>1, <1>6, Zenon
  <2>2. RingTypes'
    BY <1>0, <1>6 DEF RingTypes
  <2>3. FlagTypes'
    BY <1>0, <1>6, <2>1 DEF FlagTypes
  <2>4. nRecv <= nRecv'
    BY <1>0, <1>6, RxAssumption DEF RingTypes
  <2>5. HwHeld'
    BY <1>6, <1>h, <2>1 DEF HwHeld
  <2>. QED BY <1>1, <1>2, <1>6, <2>1, <2>2, <2>3, <2>4, <2>5, ShutKept
<1>7. ASSUME NEW b \in Buf, OsFree(b) PROVE Shut' /\ ~Alive'
  <2>. USE DEF OsFree, lists, modes, cpu, dma, intr, hist, chan, free, dev
  <2>1. owner' \in [Buf -> {"free", "hal", "os"}] /\ \A c \in Buf : owner'[c] = "hal" <=> owner[c] = "hal"
    BY <1>0, <1>7 DEF RingTypes
  <2>2. RingTypes'
    BY <1>0, <1>7, <2>1 DEF RingTypes
  <2>3. FlagTypes'
    BY <1>0, <1>7 DEF FlagTypes
  <2>4. nRecv <= nRecv'
    BY <1>0, <1>7, RxAssumption DEF RingTypes
  <2>5. HwHeld'
    BY <1>7, <1>h DEF HwHeld
  <2>. QED BY <1>1, <1>2, <1>7, <2>1, <2>2, <2>3, <2>4, <2>5, ShutKept
<1>8. ASSUME halClose PROVE Shut' /\ ~Alive'
  <2>. USE DEF halClose, HwReset, lists, modes, bufs, hist, free
  <2>1. RingTypes'
    <3>1. /\ hwPtr' \in Ptr /\ hwCur' \in Ptr /\ hwLatch' \in Ptr /\ hwSop' \in Ptr
          /\ hwFrag' \in 0 .. MaxFrags - 1
      BY <1>8, RxAssumption DEF Ptr
    <3>2. UNCHANGED <<lists, HNext, modes, Dat, bufs, chain, good, OldTailRcb, nRcb, hist>>
      BY <1>8
    <3>. HIDE DEF halClose
    <3>. QED BY <1>0, <3>1, <3>2 DEF RingTypes
  <2>2. FlagTypes'
    <3>1. pc' \in Pcs /\ cp' \in Ptr \cup {TEARDOWN_VAL}
      BY <1>8 DEF Pcs, Ptr
    <3>2. /\ MiiEn' \in BOOLEAN /\ closing' \in BOOLEAN /\ hwTd' \in BOOLEAN
          /\ HostErr' \in BOOLEAN /\ rxInt' \in BOOLEAN /\ armed' \in BOOLEAN
      BY <1>8, Zenon
    <3>. QED BY <1>0, <1>8, <3>1, <3>2 DEF FlagTypes
  <2>3. nRecv <= nRecv'
    BY <1>0, <1>8, RxAssumption DEF RingTypes
  <2>4. ~Alive'
    BY <1>8 DEF Alive
  <2>5. HwHeld'
    BY <1>8 DEF HwHeld
  <2>. QED BY <1>8, <2>1, <2>2, <2>3, <2>4, <2>5, ShutKept
<1>9. ~HwTeardown /\ ~cpmac_hal_isr /\ ~cpmac_p_dev_disable /\ ~halChannelTeardown
  BY <1>1 DEF HwTeardown, cpmac_hal_isr, cpmac_p_dev_disable, halChannelTeardown
<1>10. ~RxTeardownInt /\ ~InitRcbBuffer /\ ~InitRcbFail /\ ~InitRcb /\ ~halOpenEnd
  BY <1>1 DEF RxTeardownInt, InitRcbBuffer, InitRcbFail, InitRcb, halOpenEnd
<1>11. ~NeedsCheck /\ ~NeedsCheckEnd /\ ~RxIntNoTeardown /\ ~RxReturnGood /\ ~RxReturnFail
  BY <1>1 DEF NeedsCheck, NeedsCheckEnd, RxIntNoTeardown, RxReturnGood, RxReturnFail
<1>12. ~AddToRxQueueFirst /\ ~AddToRxQueueLink /\ ~AddToRxQueueTestEoq
  BY <1>1 DEF AddToRxQueueFirst, AddToRxQueueLink, AddToRxQueueTestEoq
<1>13. ~RxIntRecycle /\ ~RxIntDequeue /\ ~RxIntEnd /\ ~ReceiveUp /\ ~ReceiveDrop
  BY <1>1 DEF RxIntRecycle, RxIntDequeue, RxIntEnd, ReceiveUp, ReceiveDrop
<1>. QED
  BY <1>3, <1>4, <1>5, <1>6, <1>7, <1>8, <1>9, <1>10, <1>11, <1>12, <1>13
  DEF Next, Hardware, Running

-----------------------------------------------------------------------------
(* The channel from one opening to the next.                               *)

\* While the channel lives, only RxTeardownInt() ends that life.  A teardown is
\* asked for and answered only once, halOpen() alone works on a channel that is not
\* open, and an RCB that was not set up has no buffer.
LEMMA AroundStep ==
  ASSUME Inv, Closes, Alive, Asked, Opening, Unset, [Next]_vars, ~RxTeardownInt
  PROVE  Alive' /\ Asked' /\ Opening' /\ Unset'
<1>. DEFINE Opens == {"Malloc", "InitRcb", "OpenEnd"}
<1>1. /\ pc # "closed" /\ caller \in {"InitRcb", "NeedsCheck", "RxInt"} /\ cp \in Ptr \cup {TEARDOWN_VAL}
      /\ InitRcbAdds => chain = <<>>
      /\ pc \in Opens => caller = "InitRcb"
      /\ pc = "RxReturn" => caller # "InitRcb"
  BY DEF Alive, Inv, FlagTypes, Stage
<1>2. pc \in Handling \cup {"idle"} => ChIsOpen
  BY DEF Opening, Handling, InitRcbAdds
<1>3. ASSUME UNCHANGED <<RcbStart, nRcb, Dat>> PROVE Unset'
  BY <1>3 DEF Unset
<1>4. ASSUME UNCHANGED <<hwTd, cp, RxTeardownPending>> PROVE Asked'
  BY <1>4 DEF Asked, Answered
<1>5. ASSUME UNCHANGED <<closing, ChIsOpen>>, pc' # "closed", pc' = "Malloc" => RcbStart',
             ChIsOpen \/ pc' \in Opens \/ (pc' \in {"AddToRxQueue", "TestEoq"} /\ caller' = "InitRcb")
      PROVE  Alive' /\ Opening'
  BY <1>5 DEF Alive, Opening, InitRcbAdds
<1>6. ASSUME UNCHANGED <<closing, ChIsOpen, pc, caller, RcbStart>> PROVE Alive' /\ Opening'
  BY <1>6 DEF Alive, Opening, InitRcbAdds
<1>. USE DEF lists, modes, bufs, cpu, dma, intr, hist, chan, free, dev
<1>7. CASE UNCHANGED vars
  BY <1>3, <1>4, <1>6, <1>7 DEF vars
<1>8. CASE HwFetch
  BY <1>3, <1>4, <1>6, <1>8 DEF HwFetch
<1>9. CASE HwTeardown
  <2>1. Answered'
    BY <1>9, HwTeardownStep
  <2>2. Asked'
    BY <1>9, <2>1 DEF HwTeardown, Asked
  <2>. QED BY <1>3, <1>6, <1>9, <2>2 DEF HwTeardown
<1>10. ASSUME NEW last \in BOOLEAN, HwFill(last) PROVE Alive' /\ Asked' /\ Opening' /\ Unset'
  <2>1. UNCHANGED <<hwTd, RxTeardownPending>> /\ (cp' = cp \/ cp' = hwCur) /\ hwCur # NULL
    BY <1>10 DEF HwFill
  <2>2. hwCur # TEARDOWN_VAL
    BY RxAssumption DEF Inv, RingTypes, Ptr, Rcb, NULL, TEARDOWN_VAL
  <2>3. Asked'
    BY <2>1, <2>2 DEF Asked, Answered
  <2>. QED BY <1>3, <1>6, <1>10, <2>3 DEF HwFill
<1>11. CASE InitRcbBuffer
  <2>1. /\ pc = "Malloc" /\ pc' \in Opens /\ RcbStart /\ RcbStart'
        /\ UNCHANGED <<closing, ChIsOpen, hwTd, cp, RxTeardownPending>>
    BY <1>11 DEF InitRcbBuffer, Opening
  <2>2. Unset'
    <3>1. nRcb \in Nat /\ nRcb < RxNumBuffers /\ nRcb' = nRcb + 1 /\ RcbStart' = RcbStart
      BY <1>11, RxAssumption DEF InitRcbBuffer, Inv, RingTypes, Stage
    <3>2. PICK b \in Buf : Dat' = [Dat EXCEPT ![nRcb + 1] = b]
      BY <1>11 DEF InitRcbBuffer
    <3>3. \A r \in Rcb : r > nRcb' => r > nRcb /\ r # nRcb + 1
      BY <3>1, RxAssumption DEF Rcb
    <3>. QED BY <2>1, <3>1, <3>2, <3>3 DEF Unset, Inv, RingTypes
  <2>. QED BY <1>4, <1>5, <2>1, <2>2
<1>12. CASE InitRcbFail
  BY <1>3, <1>4, <1>5, <1>12 DEF InitRcbFail
<1>13. CASE InitRcb
  BY <1>1, <1>3, <1>4, <1>5, <1>13 DEF InitRcb
<1>14. CASE halOpenEnd
  BY <1>3, <1>4, <1>14 DEF halOpenEnd, Alive, Opening
<1>15. CASE NeedsCheck
  BY <1>2, <1>3, <1>4, <1>5, <1>15 DEF NeedsCheck, RxReturn, Handling
<1>16. CASE NeedsCheckEnd \/ RxIntNoTeardown
  BY <1>2, <1>3, <1>4, <1>5, <1>16 DEF NeedsCheckEnd, RxIntNoTeardown, Handling
<1>17. CASE RxReturnGood
  <2>1. /\ pc = "RxReturn" /\ pc' \in {"AddToRxQueue", "RxReturn"}
        /\ UNCHANGED <<closing, ChIsOpen, hwTd, cp, RxTeardownPending, RcbStart, nRcb>>
    BY <1>17 DEF RxReturnGood
  <2>2. Unset'
    <3>1. chain # <<>> /\ chain \in Seq(Rcb) /\ chain[1] \in 1 .. nRcb /\ nRcb \in Nat
      <4>1. chain # <<>> /\ chain \in Seq(Rcb) /\ nRcb \in Nat /\ RcbsOf(chain) \subseteq 1 .. nRcb
        BY <2>1, RxAssumption DEF Inv, RingTypes, Stage, Places
      <4>2. 1 \in 1 .. Len(chain)
        BY <4>1, EmptySeq, LenProperties
      <4>. QED BY <4>1, <4>2, Member
    <3>2. PICK b \in Buf : Dat' = [Dat EXCEPT ![chain[1]] = b]
      BY <1>17 DEF RxReturnGood, AttachBuffer
    <3>3. \A r \in Rcb : r > nRcb => r # chain[1]
      BY <3>1 DEF Rcb
    <3>. QED BY <2>1, <3>2, <3>3 DEF Unset, Inv, RingTypes
  <2>. QED BY <1>2, <1>4, <1>5, <2>1, <2>2 DEF Handling
<1>18. CASE RxReturnFail
  <2>1. pc = "RxReturn" /\ pc' # "closed" /\ pc' # "Malloc"
    BY <1>1, <1>18 DEF RxReturnFail, Continue
  <2>. QED BY <1>2, <1>3, <1>4, <1>5, <1>18, <2>1 DEF RxReturnFail, Handling
<1>19. CASE AddToRxQueueFirst \/ AddToRxQueueLink \/ AddToRxQueueTestEoq
  <2>1. /\ pc \in {"AddToRxQueue", "TestEoq"} /\ caller' = caller
        /\ pc' = Continue(chain, failed) \/ pc' = "TestEoq"
    BY <1>19 DEF AddToRxQueueFirst, AddToRxQueueLink, AddToRxQueueTestEoq
  <2>2. pc' # "closed" /\ pc' # "Malloc" /\ (caller = "InitRcb" => pc' \in {"InitRcb", "TestEoq"})
    BY <1>1, <2>1 DEF Continue, InitRcbAdds
  <2>3. caller # "InitRcb" => ChIsOpen
    BY <2>1 DEF Opening, InitRcbAdds
  <2>4. UNCHANGED <<RcbStart, nRcb, Dat, hwTd, cp, RxTeardownPending, closing, ChIsOpen>>
    BY <1>19 DEF AddToRxQueueFirst, AddToRxQueueLink, AddToRxQueueTestEoq, WriteHDP
  <2>. QED BY <1>3, <1>4, <1>5, <2>1, <2>2, <2>3, <2>4
<1>20. CASE RxIntRecycle
  BY <1>2, <1>3, <1>4, <1>5, <1>20 DEF RxIntRecycle, RxIntReturn, WriteHDP, Handling
<1>21. CASE RxIntDequeue
  BY <1>2, <1>3, <1>4, <1>5, <1>21 DEF RxIntDequeue, MisqueueRestart, WriteHDP, Handling
<1>22. CASE RxIntEnd
  BY <1>2, <1>3, <1>4, <1>5, <1>22 DEF RxIntEnd, RxIntReturn, Handling
<1>23. CASE ReceiveUp \/ ReceiveDrop
  BY <1>2, <1>3, <1>4, <1>5, <1>23 DEF ReceiveUp, ReceiveDrop, RxReturn, Handling
<1>24. CASE cpmac_p_dev_disable
  BY <1>2, <1>3, <1>4, <1>24 DEF cpmac_p_dev_disable, Alive, Opening
<1>25. CASE halChannelTeardown
  <2>1. RxTeardownPending = "none" /\ RxTeardownPending' # "none" /\ UNCHANGED cp
    BY <1>25, RxAssumption DEF halChannelTeardown
  <2>2. Asked'
    BY <2>1 DEF Asked, Answered
  <2>. QED BY <1>3, <1>6, <1>25, <2>2 DEF halChannelTeardown
<1>26. ~halClose /\ ~InitRcbNew /\ ~InitRcbReuse
  BY <1>1 DEF halClose, InitRcbNew, InitRcbReuse, ChannelReset, Alive
<1>27. CASE cpmac_hal_isr
  BY <1>2, <1>3, <1>4, <1>5, <1>27 DEF cpmac_hal_isr
<1>28. CASE halIsr
  BY <1>2, <1>3, <1>4, <1>5, <1>28 DEF halIsr
<1>29. ASSUME NEW b \in Buf, OsFree(b) PROVE Alive' /\ Asked' /\ Opening' /\ Unset'
  BY <1>3, <1>4, <1>6, <1>29 DEF OsFree
<1>. QED
  BY <1>7, <1>8, <1>9, <1>10, <1>11, <1>12, <1>13, <1>14, <1>15, <1>16, <1>17, <1>18, <1>19,
     <1>20, <1>21, <1>22, <1>23, <1>24, <1>25, <1>26, <1>27, <1>28, <1>29
  DEF Next, Hardware, Running

\* Nothing happens.
LEMMA StutterStep == Inv /\ UNCHANGED vars => Inv'
<1>. SUFFICES ASSUME Inv, UNCHANGED vars PROVE Inv'
  OBVIOUS
<1>. USE DEF vars, lists, modes, bufs, cpu, dma, intr, hist, chan, free, dev
<1>1. FlagTypes' /\ owner' \in [Buf -> {"free", "hal", "os"}]
  BY DEF Inv, RingTypes, FlagTypes
<1>2. Stage'
  BY DEF Inv, Stage, N, InitRcbAdds, Answered
<1>3. Held'
  BY HeldKept DEF Inv, Hand
<1>. QED BY <1>1, <1>2, <1>3, Quiet DEF Answered

\* While the channel lives, every step but RxTeardownInt() keeps the ring in order.
LEMMA AliveStep ==
  ASSUME Inv, Asked, Alive, [Next]_vars, ~RxTeardownInt PROVE Inv'
<1>1. CASE UNCHANGED vars
  BY <1>1, StutterStep
<1>2. CASE Hardware
  BY <1>2, HwFetchStep, HwTeardownStep, HwFillStep DEF Hardware
<1>3. CASE Running
  <2>1. ~halClose
    BY DEF halClose, Alive
  <2>2. CASE InitRcbBuffer \/ InitRcbFail \/ InitRcb \/ halOpenEnd
    BY <2>2, InitRcbBufferStep, InitRcbFailStep, InitRcbStep, halOpenEndStep
  <2>3. CASE NeedsCheck \/ NeedsCheckEnd \/ RxIntNoTeardown \/ RxReturnGood \/ RxReturnFail
    BY <2>3, NeedsCheckStep, NeedsCheckEndStep, RxIntNoTeardownStep,
       RxReturnGoodStep, RxReturnFailStep
  <2>4. CASE AddToRxQueueFirst \/ AddToRxQueueLink \/ AddToRxQueueTestEoq
    BY <2>4, AddToRxQueueFirstStep, AddToRxQueueLinkStep, AddToRxQueueTestEoqStep
  <2>5. CASE RxIntRecycle \/ RxIntDequeue \/ RxIntEnd \/ ReceiveUp \/ ReceiveDrop
    BY <2>5, RxIntRecycleStep, RxIntDequeueStep, RxIntEndStep, ReceiveUpStep,
       ReceiveDropStep
  <2>6. CASE halChannelTeardown
    BY <2>6, halChannelTeardownStep
  <2>. QED BY <1>3, <2>1, <2>2, <2>3, <2>4, <2>5, <2>6 DEF Running
<1>4. CASE cpmac_hal_isr \/ halIsr \/ cpmac_p_dev_disable
  BY <1>4, cpmac_hal_isrStep, halIsrStep, cpmac_p_dev_disableStep
<1>5. ~InitRcbNew /\ ~InitRcbReuse
  BY DEF InitRcbNew, InitRcbReuse, ChannelReset, Alive
<1>6. ASSUME NEW b \in Buf, OsFree(b) PROVE Inv'
  BY <1>6, OsFreeStep
<1>. QED BY <1>1, <1>2, <1>3, <1>4, <1>5, <1>6 DEF Next

\* The device that was never opened is a closed one.
LEMMA InitLives == Init => Lives
<1>. SUFFICES ASSUME Init PROVE Lives
  OBVIOUS
<1>1. Closes /\ ~Alive
  BY DEF Init, Closes, Alive
<1>2. RingTypes
  <2>1. /\ Own \in [Rcb -> BOOLEAN] /\ Eof \in [Rcb -> BOOLEAN] /\ Eoq \in [Rcb -> BOOLEAN]
    BY Zenon DEF Init
  <2>2. <<0, 0>> \in (0 .. MaxPkt) \X (0 .. MaxFrags)
    BY RxAssumption
  <2>. QED BY <2>1, <2>2, RxAssumption DEF Init, RingTypes, Ptr, NULL
<1>3. FlagTypes
  <2>1. PacketsServiced \in 0 .. RxServiceMax /\ opens \in 0 .. MaxOpens /\ stale \in 0 .. MaxNeeds
    BY RxAssumption DEF Init
  <2>2. cp \in Ptr \cup {TEARDOWN_VAL}
    BY DEF Init, Ptr
  <2>. QED BY <2>1, <2>2, Zenon DEF Init, FlagTypes, Pcs
<1>4. DeliveredIntact /\ Past(nRecv + 1) /\ HwHeld
  BY DEF Init, DeliveredIntact, Past, HwHeld
<1>5. /\ RcbPool = <<>> /\ RxActQueue = <<>> /\ Needs = <<>> /\ chain = <<>> /\ good = <<>>
      /\ lost = {} /\ ~RxActive /\ pc \in {"closed", "idle"}
      /\ ~ChIsOpen /\ RxTeardownPending = "none" /\ ~hwTd
      /\ ~HostErr /\ ~foreignFree /\ ~RcbStart
      /\ \A b \in Buf : owner[b] # "hal"
  BY DEF Init
<1>. QED BY <1>1, <1>2, <1>3, <1>4, <1>5 DEF Lives, Shut

\* halOpen() begins a life, with new RCBs or with those of the life before.
LEMMA OpenStep ==
  ASSUME Shut, Closes, InitRcbNew \/ InitRcbReuse
  PROVE  Alive' /\ Inv' /\ Asked' /\ Opening' /\ Unset'
<1>1. pc = "closed" /\ ~ChIsOpen /\ RxTeardownPending = "none" /\ (pc # "closed" \/ ~closing)
  BY DEF InitRcbNew, InitRcbReuse, ChannelReset, Shut, Closes
<1>2. /\ ~hwTd' /\ cp' = NULL /\ UNCHANGED <<closing, ChIsOpen, RxTeardownPending>>
      /\ pc' \in {"Malloc", "InitRcb", "OpenEnd"} /\ (pc' = "Malloc" => RcbStart')
  BY DEF InitRcbNew, InitRcbReuse, ChannelReset, HwReset
<1>3. Inv'
  BY InitRcbNewStep, InitRcbReuseStep
<1>4. Alive'
  BY <1>1, <1>2 DEF Alive
<1>5. Asked' /\ Opening'
  BY <1>1, <1>2 DEF Asked, Opening, NULL, TEARDOWN_VAL
<1>6. Unset'
  <2>1. CASE InitRcbNew
    BY <2>1 DEF InitRcbNew, Unset
  <2>2. CASE InitRcbReuse
    <3>1. \A r \in Rcb : ~(r > RxNumBuffers)
      BY RxAssumption DEF Rcb
    <3>. QED BY <2>2, <3>1 DEF InitRcbReuse, Unset
  <2>. QED BY <2>1, <2>2
<1>. QED BY <1>3, <1>4, <1>5, <1>6

\* From one life to the next: a close that finds every RCB with its buffer leaves
\* a channel that can be opened again.
LEMMA NextLives ==
  Lives /\ [Next]_vars /\ (RxTeardownInt => CleanClose) => Lives'
<1>. SUFFICES ASSUME Lives, [Next]_vars, RxTeardownInt => CleanClose PROVE Lives'
  OBVIOUS
<1>1. Closes /\ Closes'
  BY ClosesStep DEF Lives
<1>2. CASE Alive /\ ~RxTeardownInt
  <2>1. Inv /\ Asked /\ Opening /\ Unset
    BY <1>2 DEF Lives
  <2>. QED BY <1>1, <1>2, <2>1, AliveStep, AroundStep DEF Lives
<1>3. CASE Alive /\ RxTeardownInt
  <2>1. Inv /\ Asked /\ Opening /\ Unset
    BY <1>3 DEF Lives
  <2>2. ~Alive'
    BY <1>1, <1>3 DEF RxTeardownInt, TeardownSeen, Closes, Alive
  <2>. QED BY <1>1, <1>3, <2>1, <2>2, RxTeardownIntStep DEF Lives
<1>4. CASE ~Alive
  <2>1. Shut
    BY <1>4 DEF Lives
  <2>2. CASE InitRcbNew \/ InitRcbReuse
    BY <1>1, <2>1, <2>2, OpenStep DEF Lives
  <2>3. CASE ~InitRcbNew /\ ~InitRcbReuse
    BY <1>1, <1>4, <2>1, <2>3, ShutStep DEF Lives
  <2>. QED BY <2>2, <2>3
<1>. QED BY <1>2, <1>3, <1>4

\* While the first life lasts, every step keeps the ring in order, whatever a close
\* will find.
LEMMA NextIInv == IInv /\ [Next]_vars => IInv'
<1>. SUFFICES ASSUME IInv, [Next]_vars PROVE IInv'
  OBVIOUS
<1>1. Closes /\ Closes'
  BY ClosesStep DEF IInv
<1>2. ASSUME FirstLife' PROVE Lives'
  BY <1>1, <1>2, FirstLifeBack, NextLives DEF IInv
<1>. QED BY <1>1, <1>2 DEF IInv

\* The invariant of the receive ring in its first life: from the initialisation of the
\* device until the first teardown has been handled, RCBs, buffers, links, marks,
\* engine and data agree as Inv says, whatever is allocated, dropped or received.
THEOREM Invariance == Spec => []IInv
<1>1. Init => IInv
  BY InitLives DEF IInv, Lives
<1>2. IInv /\ [Next]_vars => IInv'
  BY NextIInv
<1>. QED BY <1>1, <1>2, PTL DEF Spec

\* The invariant over all lives: where each RxTeardownInt() finds that no RCB was
\* dropped or waits for a buffer, every opening begins and every life goes on as the
\* first one did, however often the device is closed and opened, with FreeRx() or
\* with the RCBs of the life before.
THEOREM EveryLife == Spec /\ []CleanClose => []Lives
<1>1. Init => Lives
  BY InitLives
<1>2. Lives /\ [Next]_vars /\ CleanClose => Lives'
  BY NextLives
<1>. QED BY <1>1, <1>2, PTL DEF Spec

-----------------------------------------------------------------------------
(* What a life means for the driver.  Each theorem says it twice: of the   *)
(* first life, whatever fails or is dropped; and of every life, where each *)
(* close finds all RCBs with their buffers (CleanClose).                   *)

\* Every variable of the receive ring has its type.
THEOREM TypeCorrect ==
  /\ Spec => [](FirstLife => TypeOK)
  /\ Spec /\ []CleanClose => []TypeOK
<1>1. ASSUME RingTypes, FlagTypes PROVE TypeOK
  <2>1. {Own, Eof, Eoq} \subseteq [Rcb -> BOOLEAN]
    BY <1>1, Zenon DEF RingTypes
  <2>2. {RxActive, failed, hwTd, HostErr, MiiEn, rxInt, armed, tasklet, RcbStart,
         ChIsOpen, closing, foreignFree, usedFreed} \subseteq BOOLEAN
    BY <1>1, Zenon DEF FlagTypes
  <2>3. /\ {RcbPool, RxActQueue, Needs, chain, good} \subseteq Seq(Rcb)
        /\ {OldTailRcb, hwPtr, hwCur, hwLatch, hwSop} \subseteq Ptr
    BY <1>1 DEF RingTypes
  <2>. QED BY <1>1, <2>1, <2>2, <2>3 DEF RingTypes, FlagTypes, TypeOK, Pcs
<1>2. Lives => TypeOK
  BY <1>1 DEF Lives, Inv, Shut
<1>3. IInv => (FirstLife => TypeOK)
  BY <1>2 DEF IInv
<1>. QED BY <1>2, <1>3, Invariance, EveryLife, PTL

\* No RCB is in two places or disappears unnoticed: InitRcb(), RxInt(),
\* halRxReturn() with its Needs list, NeedsCheck(), AddToRxQueue() and the teardown
\* hand every RCB on exactly once.
THEOREM RcbsOnce ==
  /\ Spec => [](FirstLife => RcbsConserved)
  /\ Spec /\ []CleanClose => []RcbsConserved
<1>1. ASSUME Inv PROVE RcbsConserved
  <2>. DEFINE a == RcbPool \o RxActQueue
              b == a \o Needs
              c == b \o chain
              all == c \o Hand
  <2>0. Hand \in Seq(Rcb)
    BY <1>1 DEF Inv, RingTypes, Hand
  <2>1. a \in Seq(Rcb) /\ b \in Seq(Rcb) /\ c \in Seq(Rcb) /\ all \in Seq(Rcb)
    BY <1>1, <2>0, Joined DEF Inv, RingTypes
  <2>2. Inj(a) /\ RcbsOf(a) = RcbsOf(RcbPool) \cup RcbsOf(RxActQueue)
    BY <1>1, JoinedRcbs DEF Inv, RingTypes, Places
  <2>3. Inj(b) /\ RcbsOf(b) = RcbsOf(a) \cup RcbsOf(Needs)
    <3>1. RcbsOf(a) \cap RcbsOf(Needs) = {} /\ Inj(Needs) /\ Needs \in Seq(Rcb)
      BY <1>1, <2>2 DEF Inv, RingTypes, Places
    <3>. HIDE DEF a
    <3>. QED BY <3>1, <2>1, <2>2, JoinedRcbs
  <2>4. Inj(c) /\ RcbsOf(c) = RcbsOf(b) \cup RcbsOf(chain)
    <3>1. RcbsOf(b) \cap RcbsOf(chain) = {} /\ Inj(chain) /\ chain \in Seq(Rcb)
      BY <1>1, <2>2, <2>3 DEF Inv, RingTypes, Places
    <3>. HIDE DEF b
    <3>. QED BY <3>1, <2>1, <2>3, JoinedRcbs
  <2>5. Inj(all) /\ RcbsOf(all) = RcbsOf(c) \cup RcbsOf(Hand)
    <3>1. RcbsOf(c) \cap RcbsOf(Hand) = {} /\ Inj(Hand)
      BY <1>1, <2>2, <2>3, <2>4 DEF Inv, Places
    <3>. HIDE DEF c
    <3>. QED BY <3>1, <2>0, <2>1, <2>4, JoinedRcbs
  <2>6. RcbsOf(all) = (1 .. nRcb) \ lost
    BY <1>1, <2>2, <2>3, <2>4, <2>5 DEF Inv, Places
  <2>. QED BY <2>5, <2>6 DEF RcbsConserved, Hand, Inj, RcbsOf
<1>2. ASSUME Shut PROVE RcbsConserved
  <2>1. /\ RcbPool = <<>> /\ RxActQueue = <<>> /\ Needs = <<>> /\ chain = <<>> /\ good = <<>>
        /\ ~ChIsOpen
    BY <1>2 DEF Shut
  <2>2. <<>> \in Seq(Rcb) /\ Len(<<>>) = 0
    OBVIOUS
  <2>3. <<>> \o <<>> = <<>>
    BY <2>2
  <2>4. \A i, j \in 1 .. Len(<<>>) : FALSE
    BY <2>2
  <2>. QED BY <2>1, <2>3, <2>4 DEF RcbsConserved
<1>3. Lives => RcbsConserved
  BY <1>1, <1>2 DEF Lives
<1>4. IInv => (FirstLife => RcbsConserved)
  BY <1>3 DEF IInv
<1>. QED BY <1>3, <1>4, Invariance, EveryLife, PTL

\* RxInt() never reads the head of an empty queue: it keeps the last packet in the
\* queue and gives its RCBs back to the engine; and where InitRcb() queued nothing,
\* the first interrupt is the one of the teardown.
THEOREM HeadIsThere ==
  /\ Spec => [](FirstLife => QueueNeverEmpty)
  /\ Spec /\ []CleanClose => []QueueNeverEmpty
<1>1. Inv => QueueNeverEmpty
  BY DEF Inv, Stage, Handling, N, QueueNeverEmpty
<1>2. Shut => QueueNeverEmpty
  BY DEF Shut, QueueNeverEmpty
<1>3. Lives => QueueNeverEmpty
  BY <1>1, <1>2 DEF Lives
<1>4. IInv => (FirstLife => QueueNeverEmpty)
  BY <1>3 DEF IInv
<1>. QED BY <1>3, <1>4, Invariance, EveryLife, PTL

\* The engine writes only into buffers of queued RCBs, which are the driver's and
\* all different: never over a buffer that netif_rx() was given.  In later lives
\* this is said but for the time from RxTeardownInt() to the reset in halClose():
\* a handler that was adding to the queue when the engine answered the teardown may
\* have restarted it.
THEOREM EngineIsolated ==
  /\ Spec => [](FirstLife => BuffersIsolated)
  /\ Spec /\ []CleanClose => []((closing /\ ~ChIsOpen) \/ BuffersIsolated)
<1>1. ASSUME Inv PROVE BuffersIsolated
  <2>1. PICK d \in 0 .. N : Ring(d)
    BY <1>1 DEF Inv
  <2>2. N \in Nat /\ hwFrag \in Nat /\ \A i \in 1 .. N : InQueue(RxActQueue[i])
    BY <1>1 DEF Inv, RingTypes, N, InQueue
  <2>3. \A r \in {hwPtr, hwCur, hwLatch, hwSop} \ {NULL} : InQueue(r)
    BY <2>1, <2>2 DEF Ring, Engine, HwStopped, HwRunning
  <2>4. \A i \in 1 .. Len(RxActQueue) : RxActQueue[i] \in HeldRcbs
    BY Member DEF HeldRcbs
  <2>5. \A i \in 1 .. Len(RxActQueue) : owner[Dat[RxActQueue[i]]] = "hal"
    BY <1>1, <2>4 DEF Inv, Held
  <2>6. \A i, j \in 1 .. Len(RxActQueue) :
          Dat[RxActQueue[i]] = Dat[RxActQueue[j]] => i = j
    BY <1>1, <2>4 DEF Inv, Held, Places, Inj
  <2>. QED BY <2>3, <2>5, <2>6 DEF BuffersIsolated
<1>2. ASSUME Shut, pc = "closed" PROVE BuffersIsolated
  <2>1. /\ \A r \in {hwPtr, hwCur, hwLatch, hwSop} : r = NULL
        /\ \A i \in 1 .. Len(RxActQueue) : FALSE
    BY <1>2 DEF Shut, HwHeld
  <2>. QED BY <2>1 DEF BuffersIsolated
<1>3. Lives => (closing /\ ~ChIsOpen) \/ BuffersIsolated
  BY <1>1, <1>2 DEF Lives, Alive
<1>4. IInv => (FirstLife => BuffersIsolated)
  <2>1. SUFFICES ASSUME IInv, FirstLife PROVE ~(closing /\ ~ChIsOpen)
    BY <1>3 DEF IInv
  <2>2. opens = 0 \/ opens = 1
    BY <2>1 DEF FirstLife, IInv, Closes
  <2>. QED BY <2>1, <2>2 DEF FirstLife, IInv, Closes, Alive
<1>. QED BY <1>3, <1>4, Invariance, EveryLife, PTL

\* Neither a failed allocation nor a frame that the callback drops leaks a buffer:
\* each buffer of the driver is attached to an RCB that is queued or in hand.  And
\* FreeRx() frees each of them once, and no other.
THEOREM NoBufferLeaks ==
  /\ Spec => [](FirstLife => BuffersConserved)
  /\ Spec /\ []CleanClose => []BuffersConserved
<1>1. ASSUME Inv PROVE BuffersConserved
  <2>1. ~foreignFree
    BY <1>1 DEF Inv, Stage
  <2>2. HeldRcbs \subseteq Rcb
    BY <1>1, HeldAreRcbs
  <2>3. HeldRcbs \cap lost = {} /\ HeldRcbs \cap RcbsOf(Needs) = {}
    BY <1>1 DEF Inv, Places, HeldRcbs
  <2>4. \A r \in HeldRcbs : \A i \in 1 .. Len(Needs) : Needs[i] # r
    BY <2>3 DEF RcbsOf
  <2>. QED BY <1>1, <2>1, <2>2, <2>3, <2>4 DEF Inv, Held, BuffersConserved
<1>2. ASSUME Shut PROVE BuffersConserved
  BY <1>2 DEF Shut, BuffersConserved
<1>3. Lives => BuffersConserved
  BY <1>1, <1>2 DEF Lives
<1>4. IInv => (FirstLife => BuffersConserved)
  BY <1>3 DEF IInv
<1>. QED BY <1>3, <1>4, Invariance, EveryLife, PTL

\* No restart hits a running engine: neither the one AddToRxQueue() bases on the
\* EOQ bit of the old tail, nor the one of RxInt() for a misqueued RCB, nor the
\* recycling of the last packet, nor the first one of an opening.
THEOREM HdpWritesAreSafe ==
  /\ Spec => [](FirstLife => NoHostError)
  /\ Spec /\ []CleanClose => []NoHostError
<1>1. Lives => NoHostError
  BY DEF Lives, Inv, Stage, Shut, NoHostError
<1>2. IInv => (FirstLife => NoHostError)
  BY <1>1 DEF IInv
<1>. QED BY <1>1, <1>2, Invariance, EveryLife, PTL

\* When the engine stops, the RCB where it stopped is in the queue and carries EOQ,
\* so that AddToRxQueue() or RxInt() restarts it.
THEOREM StallsAreSeen ==
  /\ Spec => [](FirstLife => NoHiddenStall)
  /\ Spec /\ []CleanClose => []NoHiddenStall
<1>1. ASSUME Inv PROVE NoHiddenStall
  <2>1. PICK d \in 0 .. N : Ring(d)
    BY <1>1 DEF Inv
  <2>2. N \in Nat /\ (RxActQueue # <<>> => N > 0)
    BY <1>1, EmptySeq DEF Inv, RingTypes, N
  <2>3. \A i \in 1 .. N : RxActQueue[i] # NULL
    BY <1>1, NullIsNoRcb DEF Inv, RingTypes, N
  <2>. QED BY <2>1, <2>2, <2>3 DEF NoHiddenStall, Ring, Engine, HwStopped, HwRunning, HwIdle, N, Answered
<1>2. Shut => NoHiddenStall
  BY DEF Shut, NoHiddenStall
<1>3. Lives => NoHiddenStall
  BY <1>1, <1>2 DEF Lives
<1>4. IInv => (FirstLife => NoHiddenStall)
  BY <1>3 DEF IInv
<1>. QED BY <1>3, <1>4, Invariance, EveryLife, PTL

\* netif_rx() gets the fragments of each packet in order, packets in the order of
\* their arrival, each at most once and none that was thrown away.
THEOREM PacketsIntact ==
  /\ Spec => [](FirstLife => DeliveredIntact)
  /\ Spec /\ []CleanClose => []DeliveredIntact
<1>1. Lives => DeliveredIntact
  BY DEF Lives, Inv, Shut
<1>2. IInv => (FirstLife => DeliveredIntact)
  BY <1>1 DEF IInv
<1>. QED BY <1>1, <1>2, Invariance, EveryLife, PTL

-----------------------------------------------------------------------------
(* A device that InitRcb() gave its RCBs can receive, although allocations *)
(* fail later on.                                                          *)

\* InitRcb() does not give up for want of memory.
InitComplete == pc # "OpenEnd"

\* InitRcb() queues at least one RCB, and RxInt() never takes the last packet.
Opened ==
  /\ pc = "InitRcb" => N > 0 \/ RcbPool # <<>>
  /\ ChIsOpen => N > 0

\* Only an InitRcb() that gave up opens the device without an RCB in the queue:
\* neither an RCB that finds no buffer nor a dropped frame takes the last one.
LEMMA OpenedStep ==
  Lives /\ InitComplete /\ [Next]_vars /\ Opened => Opened'
<1>. SUFFICES ASSUME Lives, InitComplete, [Next]_vars, Opened PROVE Opened'
  OBVIOUS
<1>0. CASE Shut /\ ~Alive
  <2>1. CASE InitRcbNew \/ InitRcbReuse
    <3>1. /\ UNCHANGED ChIsOpen /\ ~ChIsOpen
          /\ pc' \in {"Malloc", "OpenEnd"} \/ (pc' = "InitRcb" /\ RcbPool' = OldRcbs)
      BY <1>0, <2>1 DEF InitRcbNew, InitRcbReuse, ChannelReset, Shut
    <3>2. OldRcbs # <<>>
      BY OldRcbsAreAll, RxAssumption
    <3>. QED BY <3>1, <3>2 DEF Opened
  <2>2. CASE ~InitRcbNew /\ ~InitRcbReuse
    <3>1. Shut'
      BY <1>0, <2>2, ShutStep DEF Lives
    <3>. QED BY <3>1 DEF Shut, Opened
  <2>. QED BY <2>1, <2>2
<1>. SUFFICES ASSUME Inv, Alive PROVE Opened'
  BY <1>0 DEF Lives
<1>1. Inv
  OBVIOUS
<1>. USE DEF dma, dev, chan, cpu, intr, free, lists
<1>2. ASSUME UNCHANGED <<RxActQueue, RcbPool, ChIsOpen>>, pc' # "InitRcb" \/ pc' = pc
      PROVE  Opened'
  BY <1>2 DEF Opened, N
<1>3. CASE UNCHANGED vars
  BY <1>2, <1>3 DEF vars
<1>4. CASE HwFetch
  BY <1>2, <1>4 DEF HwFetch
<1>5. CASE HwTeardown
  BY <1>2, <1>5 DEF HwTeardown
<1>6. ASSUME NEW last \in BOOLEAN, HwFill(last) PROVE Opened'
  BY <1>2, <1>6 DEF HwFill
<1>7. CASE InitRcbBuffer
  <2>1. UNCHANGED <<RxActQueue, ChIsOpen>> /\ pc' \in {"InitRcb", "Malloc"}
    BY <1>7 DEF InitRcbBuffer
  <2>2. RcbPool' = <<nRcb + 1>> \o RcbPool /\ nRcb \in Nat /\ RcbPool \in Seq(Rcb)
    BY <1>1, <1>7, RxAssumption DEF InitRcbBuffer, Inv, RingTypes
  <2>4. nRcb < RxNumBuffers
    BY <1>1, <1>7 DEF InitRcbBuffer, Inv, Stage
  <2>3. RcbPool' # <<>>
    <3>1. <<nRcb + 1>> \in Seq(Rcb) /\ Len(<<nRcb + 1>>) = 1
      BY <2>2, <2>4, RxAssumption, Single DEF Rcb
    <3>2. Len(<<nRcb + 1>> \o RcbPool) = 1 + Len(RcbPool) /\ Len(RcbPool) \in Nat
      BY <2>2, <3>1, Joined, LenProperties
    <3>. QED BY <2>2, <3>2
  <2>. QED BY <2>1, <2>3 DEF Opened, N
<1>8. CASE InitRcbFail
  BY <1>2, <1>8 DEF InitRcbFail
<1>9. CASE InitRcb
  BY <1>9 DEF InitRcb, Opened, N
<1>10. CASE halOpenEnd
  BY <1>10 DEF halOpenEnd, Opened, N, InitComplete
<1>11. CASE NeedsCheck
  BY <1>2, <1>11 DEF NeedsCheck, RxReturn
<1>12. CASE NeedsCheckEnd
  BY <1>2, <1>12 DEF NeedsCheckEnd
<1>13. CASE RxIntNoTeardown
  BY <1>2, <1>13 DEF RxIntNoTeardown
<1>14. CASE RxReturnGood
  BY <1>2, <1>14 DEF RxReturnGood
<1>15. CASE RxReturnFail
  <2>1. caller \in {"NeedsCheck", "RxInt"}
    BY <1>1, <1>15 DEF RxReturnFail, Inv, Stage, FlagTypes
  <2>. QED BY <1>2, <1>15, <2>1 DEF RxReturnFail, Continue
<1>16. CASE AddToRxQueueFirst \/ AddToRxQueueLink \/ AddToRxQueueTestEoq
  <2>1. N' > 0
    <3>1. CASE AddToRxQueueFirst
      BY <1>1, <3>1, AddToRxQueueFirstStep DEF AddToRxQueueFirst, Inv, Stage
    <3>2. CASE AddToRxQueueLink
      BY <1>1, <3>2, LenProperties DEF AddToRxQueueLink, Inv, Stage, RingTypes, N
    <3>3. CASE AddToRxQueueTestEoq
      BY <1>1, <3>3 DEF AddToRxQueueTestEoq, Inv, Stage, RingTypes, N
    <3>. QED BY <1>16, <3>1, <3>2, <3>3
  <2>. QED BY <2>1 DEF Opened
<1>17. CASE RxIntRecycle
  BY <1>2, <1>17 DEF RxIntRecycle, RxIntReturn
<1>18. CASE RxIntDequeue
  BY <1>1, <1>18, RxIntDequeueStep DEF RxIntDequeue, Opened, Inv, Stage, Handling
<1>19. CASE RxIntEnd
  BY <1>2, <1>19 DEF RxIntEnd, RxIntReturn
<1>20. CASE ReceiveUp
  BY <1>2, <1>20 DEF ReceiveUp, RxReturn
<1>21. CASE ReceiveDrop
  BY <1>2, <1>21 DEF ReceiveDrop
<1>22. CASE halChannelTeardown
  BY <1>2, <1>22 DEF halChannelTeardown
<1>23. CASE cpmac_p_dev_disable
  BY <1>2, <1>23 DEF cpmac_p_dev_disable
<1>24. CASE RxTeardownInt
  BY <1>24 DEF RxTeardownInt, RxIntReturn, Opened
<1>25. CASE cpmac_hal_isr
  BY <1>2, <1>25 DEF cpmac_hal_isr
<1>26. CASE halIsr
  BY <1>2, <1>26 DEF halIsr
<1>27. ~halClose /\ ~InitRcbNew /\ ~InitRcbReuse
  BY DEF halClose, InitRcbNew, InitRcbReuse, ChannelReset, Alive
<1>28. ASSUME NEW b \in Buf, OsFree(b) PROVE Opened'
  BY <1>2, <1>28 DEF OsFree
<1>. QED
  BY <1>3, <1>4, <1>5, <1>6, <1>7, <1>8, <1>9, <1>10, <1>11, <1>12, <1>13, <1>14, <1>15,
     <1>16, <1>17, <1>18, <1>19, <1>20, <1>21, <1>22, <1>23, <1>24, <1>25, <1>26, <1>27, <1>28
  DEF Next, Hardware, Running

\* Where InitRcb() does not give up, the opened device keeps RCBs in its queue, each
\* with a buffer, whether InitRcb() made it or uses it again: however many of the
\* allocations of halRxReturn() fail, and whatever frames the callback drops.
THEOREM OpenedCanReceive ==
  /\ Spec /\ []InitComplete => [](FirstLife => OpenCanReceive)
  /\ Spec /\ []CleanClose /\ []InitComplete => []OpenCanReceive
<1>. DEFINE J == FirstLife => Opened
<1>1. Init => Opened
  BY DEF Init, Opened
<1>2. IInv /\ J /\ InitComplete /\ [Next]_vars => J'
  <2>1. SUFFICES ASSUME IInv, J, InitComplete, [Next]_vars, FirstLife' PROVE Opened'
    OBVIOUS
  <2>2. FirstLife /\ Lives
    BY <2>1, FirstLifeBack DEF IInv
  <2>. QED BY <2>1, <2>2, OpenedStep
<1>3. Lives /\ Opened /\ InitComplete /\ [Next]_vars => Opened'
  BY OpenedStep
<1>4. ASSUME Inv, Opened PROVE OpenCanReceive
  <2>1. \A i \in 1 .. Len(RxActQueue) : RxActQueue[i] \in HeldRcbs
    BY Member DEF HeldRcbs
  <2>2. \A i \in 1 .. Len(RxActQueue) : Dat[RxActQueue[i]] \in Buf /\ owner[Dat[RxActQueue[i]]] = "hal"
    BY <1>4, <2>1 DEF Inv, Held
  <2>. QED BY <1>4, <2>2, BufAssumption DEF OpenCanReceive, Opened, N
<1>5. ASSUME Shut PROVE OpenCanReceive
  BY <1>5 DEF Shut, OpenCanReceive
<1>6. Lives /\ Opened => OpenCanReceive
  BY <1>4, <1>5 DEF Lives
<1>7. IInv /\ J => (FirstLife => OpenCanReceive)
  BY <1>6 DEF IInv
<1>8. Spec /\ []InitComplete => []J
  <2>1. Init => J
    BY <1>1
  <2>. HIDE DEF J
  <2>. QED BY <1>2, <2>1, Invariance, PTL DEF Spec
<1>9. Spec /\ []CleanClose /\ []InitComplete => []Opened
  BY <1>1, <1>3, EveryLife, PTL DEF Spec
<1>. HIDE DEF J
<1>. QED BY <1>6, <1>7, <1>8, <1>9, Invariance, EveryLife, PTL

-----------------------------------------------------------------------------
(* NeedsCheck() mends what failed allocations left before RxInt() looks    *)
(* for a teardown, so that such closes are clean.                          *)

\* The call of NeedsCheck() right before RxTeardownInt() got each buffer that it
\* asked for.
Refilled == pc = "RxTop" /\ TeardownSeen => ~(failed /\ caller = "NeedsCheck")

\* No RCB was dropped, none waits for a buffer when RxInt() looks for a teardown
\* unless NeedsCheck() has just failed, and InitRcb() has set up all RCBs.
Kept ==
  /\ lost = {}
  /\ pc = "RxTop" => Needs = <<>> \/ (failed /\ caller = "NeedsCheck")
  /\ RcbStart /\ pc # "Malloc" => nRcb = RxNumBuffers

\* The size of an interval of positions or of RCBs.
LEMMA UpTo ==
  ASSUME NEW n \in Nat
  PROVE  IsFiniteSet(1 .. n) /\ Cardinality(1 .. n) = n
<1>1. 1 \in Int /\ n \in Int
  OBVIOUS
<1>2. IsFiniteSet(1 .. n) /\ Cardinality(1 .. n) = IF 1 > n THEN 0 ELSE n - 1 + 1
  BY <1>1, FS_Interval
<1>. QED BY <1>2

\* halRxReturn() finds room on the Needs list: one RCB stays in the queue, and one
\* is in hand.
LEMMA NeedsHasRoom ==
  ASSUME RxNumBuffers <= MaxNeeds + 1, Inv, pc = "RxReturn"
  PROVE  Len(Needs) < MaxNeeds
<1>1. /\ Needs \in Seq(Rcb) /\ Len(Needs) \in Nat
      /\ chain \in Seq(Rcb) /\ chain # <<>>
      /\ RxActQueue \in Seq(Rcb) /\ Len(RxActQueue) > 0
  BY LenProperties DEF Inv, RingTypes, Stage, Handling, N
<1>2. 1 \in 1 .. Len(chain) /\ 1 \in 1 .. Len(RxActQueue)
  BY <1>1, EmptySeq, LenProperties
<1>3. PICK a, b \in Rcb : a = chain[1] /\ b = RxActQueue[1]
  BY <1>1, <1>2, ElementOfSeq
<1>4. a \in RcbsOf(chain) /\ b \in RcbsOf(RxActQueue)
  BY <1>2, <1>3, Member
<1>5. a # b /\ a \notin RcbsOf(Needs) /\ b \notin RcbsOf(Needs) /\ Inj(Needs)
  BY <1>4 DEF Inv, Places
<1>. DEFINE T == (Rcb \ {a}) \ {b}
<1>6. IsFiniteSet(Rcb) /\ Cardinality(Rcb) = RxNumBuffers
  BY UpTo, RxAssumption DEF Rcb
<1>7. IsFiniteSet(T) /\ Cardinality(T) = RxNumBuffers - 2
  <2>1. IsFiniteSet(Rcb \ {a}) /\ Cardinality(Rcb \ {a}) = RxNumBuffers - 1
    BY <1>3, <1>6, FS_RemoveElement
  <2>2. b \in Rcb \ {a}
    BY <1>3, <1>5
  <2>3. Cardinality(T) = Cardinality(Rcb \ {a}) - 1 /\ IsFiniteSet(T)
    BY <2>1, <2>2, FS_RemoveElement
  <2>. QED BY <2>1, <2>3, RxAssumption
<1>8. Needs \in Injection(1 .. Len(Needs), T)
  <2>1. Needs \in [1 .. Len(Needs) -> Rcb]
    BY <1>1
  <2>2. \A i \in 1 .. Len(Needs) : Needs[i] \in T
    BY <1>5, <2>1, Member
  <2>3. Needs \in [1 .. Len(Needs) -> T]
    BY <2>1, <2>2
  <2>. QED BY <1>5, <2>3 DEF Injection, IsInjective, Inj
<1>9. Cardinality(1 .. Len(Needs)) = Len(Needs)
  BY <1>1, UpTo
<1>10. Cardinality(1 .. Len(Needs)) <= Cardinality(T)
  BY <1>7, <1>8, FS_Injection
<1>. QED BY <1>1, <1>7, <1>9, <1>10, RxAssumption

\* Only a dropped frame and an InitRcb() that gives up take an RCB out of use for
\* good.
LEMMA KeptStep ==
  ASSUME RxNumBuffers <= MaxNeeds + 1, Lives, Kept, [Next]_vars,
         [~ReceiveDrop]_vars, InitComplete'
  PROVE  Kept'
<1>. USE DEF lists, cpu, hist, dev, chan, free
<1>1. ASSUME UNCHANGED <<lost, RcbStart, nRcb>>, pc' = pc \/ pc # "Malloc",
             pc' = "RxTop" => pc = "RxTop" /\ UNCHANGED <<Needs, failed, caller>>
      PROVE  Kept'
  BY <1>1 DEF Kept
<1>0. caller \in {"InitRcb", "NeedsCheck", "RxInt"}
  BY DEF Lives, Inv, Shut, FlagTypes
<1>2. CASE UNCHANGED vars
  BY <1>1, <1>2 DEF vars
<1>3. CASE Hardware
  BY <1>1, <1>3 DEF Hardware, HwFetch, HwTeardown, HwFill
<1>4. CASE InitRcbNew
  BY <1>4 DEF InitRcbNew, ChannelReset, Kept
<1>5. CASE InitRcbReuse
  BY <1>5 DEF InitRcbReuse, ChannelReset, Kept
<1>6. CASE InitRcbBuffer
  BY <1>6 DEF InitRcbBuffer, Kept
<1>7. ~InitRcbFail
  BY DEF InitRcbFail, InitComplete
<1>8. CASE InitRcb \/ halOpenEnd \/ RxIntNoTeardown
  BY <1>1, <1>8 DEF InitRcb, halOpenEnd, RxIntNoTeardown
<1>9. CASE NeedsCheck
  BY <1>1, <1>9 DEF NeedsCheck, RxReturn
<1>10. CASE NeedsCheckEnd
  BY <1>10 DEF NeedsCheckEnd, Kept
<1>11. CASE RxReturnGood \/ ReceiveUp
  BY <1>1, <1>11 DEF RxReturnGood, ReceiveUp, RxReturn
<1>12. CASE RxReturnFail
  <2>1. pc = "RxReturn" /\ Inv
    BY <1>12 DEF RxReturnFail, Lives, Shut
  <2>2. Len(Needs) < MaxNeeds
    BY <2>1, NeedsHasRoom
  <2>3. lost' = lost
    BY <1>12, <2>2 DEF RxReturnFail, NeedsBuffer
  <2>4. pc' = "RxTop" => failed' /\ caller' = "NeedsCheck"
    BY <1>0, <1>12 DEF RxReturnFail, Continue
  <2>5. UNCHANGED <<RcbStart, nRcb>>
    BY <1>12 DEF RxReturnFail
  <2>. QED BY <2>1, <2>3, <2>4, <2>5 DEF Kept
<1>13. CASE AddToRxQueueFirst \/ AddToRxQueueLink \/ AddToRxQueueTestEoq
  <2>1. pc # "Malloc" /\ UNCHANGED <<lost, RcbStart, nRcb, failed, caller>>
    BY <1>13 DEF AddToRxQueueFirst, AddToRxQueueLink, AddToRxQueueTestEoq
  <2>2. pc' = "RxTop" => failed' /\ caller' = "NeedsCheck"
    BY <1>0, <1>13, <2>1
    DEF AddToRxQueueFirst, AddToRxQueueLink, AddToRxQueueTestEoq, Continue
  <2>. QED BY <2>1, <2>2 DEF Kept
<1>14. CASE RxIntRecycle \/ RxIntDequeue \/ RxIntEnd
  BY <1>1, <1>14 DEF RxIntRecycle, RxIntDequeue, RxIntEnd, RxIntReturn
<1>15. ~ReceiveDrop \/ UNCHANGED vars
  OBVIOUS
<1>16. CASE halChannelTeardown \/ halClose \/ cpmac_p_dev_disable
  BY <1>1, <1>16 DEF halChannelTeardown, halClose, cpmac_p_dev_disable
<1>17. CASE RxTeardownInt
  BY <1>17 DEF RxTeardownInt, FreeRx, RxIntReturn, Kept
<1>18. CASE cpmac_hal_isr \/ halIsr
  BY <1>1, <1>18 DEF cpmac_hal_isr, halIsr
<1>19. CASE \E b \in Buf : OsFree(b)
  BY <1>1, <1>19 DEF OsFree
<1>. QED
  BY <1>2, <1>3, <1>4, <1>5, <1>6, <1>7, <1>8, <1>9, <1>10, <1>11, <1>12, <1>13, <1>14,
     <1>15, <1>16, <1>17, <1>18, <1>19
  DEF Next, Running

\* halRxReturn() may fail at any time and as often as it likes while packets arrive,
\* provided that the Needs list is as long as the shipped one (512 entries for 256
\* RCBs): no RCB is lost, and each RxTeardownInt() finds all of them with their
\* buffers, which is what the theorems above ask of a close.  Four steps of the code
\* spoil it, and the conditions name them: a frame that the callback drops, a list
\* that is too short, an InitRcb() that gives up, and a NeedsCheck() that still finds
\* no buffer in the very call that sees the teardown.
THEOREM ClosesAreClean ==
  ASSUME RxNumBuffers <= MaxNeeds + 1
  PROVE  Spec /\ [][~ReceiveDrop]_vars /\ []InitComplete /\ []Refilled
           => [](CleanClose /\ NoRcbLost)
<1>1. Init => Lives /\ Kept
  BY InitLives DEF Init, Kept
<1>2. Kept /\ Refilled => CleanClose /\ NoRcbLost
  BY DEF Kept, Refilled, CleanClose, NoRcbLost
<1>3. /\ Lives /\ Kept /\ Refilled /\ InitComplete'
      /\ [Next]_vars /\ [~ReceiveDrop]_vars
      => Lives' /\ Kept'
  BY <1>2, KeptStep, NextLives
<1>. QED BY <1>1, <1>2, <1>3, PTL DEF Spec

\* Nothing of a freed channel is used: a full teardown that finds the Needs list empty
\* leaves no entry that NeedsCheck() could take out of freed memory.
THEOREM NothingFreedUsed == Spec /\ []CleanClose => []NoFreedRcb
<1>. DEFINE J == stale = 0 /\ ~usedFreed
<1>1. Init => J
  BY DEF Init
<1>2. ASSUME Lives, CleanClose, J, [Next]_vars PROVE J'
  <2>. USE DEF dev, free
  <2>1. CASE UNCHANGED free
    BY <1>2, <2>1
  <2>2. CASE NeedsCheck
    <3>1. Len(Needs) \in Nat /\ Needs # <<>> /\ Len(Needs) # 0
      BY <1>2, <2>2, EmptySeq DEF NeedsCheck, Lives, Inv, Shut, RingTypes
    <3>2. stale = 0 /\ ~usedFreed /\ ~(Len(Needs) <= stale)
      BY <1>2, <3>1
    <3>3. stale' = stale
      BY <2>2, <3>2 DEF NeedsCheck
    <3>4. ~usedFreed'
      BY <2>2, <3>2, Zenon DEF NeedsCheck
    <3>. QED BY <3>2, <3>3, <3>4
  <2>3. CASE RxTeardownInt
    BY <1>2, <2>3 DEF RxTeardownInt, FreeRx, CleanClose
  <2>4. ASSUME ~NeedsCheck, ~RxTeardownInt PROVE UNCHANGED free
    <3>1. CASE Hardware \/ UNCHANGED vars
      BY <3>1 DEF Hardware, HwFetch, HwTeardown, HwFill, vars
    <3>2. CASE InitRcbNew \/ InitRcbReuse
      BY <3>2 DEF InitRcbNew, InitRcbReuse, ChannelReset
    <3>3. CASE InitRcbBuffer \/ InitRcbFail \/ InitRcb \/ halOpenEnd
      BY <3>3 DEF InitRcbBuffer, InitRcbFail, InitRcb, halOpenEnd
    <3>4. CASE NeedsCheckEnd \/ RxIntNoTeardown \/ RxReturnGood \/ RxReturnFail
      BY <3>4 DEF NeedsCheckEnd, RxIntNoTeardown, RxReturnGood, RxReturnFail
    <3>5. CASE AddToRxQueueFirst \/ AddToRxQueueLink \/ AddToRxQueueTestEoq
      BY <3>5 DEF AddToRxQueueFirst, AddToRxQueueLink, AddToRxQueueTestEoq
    <3>6. CASE RxIntRecycle \/ RxIntDequeue \/ RxIntEnd \/ ReceiveUp \/ ReceiveDrop
      BY <3>6 DEF RxIntRecycle, RxIntDequeue, RxIntEnd, ReceiveUp, ReceiveDrop
    <3>7. CASE halChannelTeardown \/ halClose \/ cpmac_p_dev_disable
      BY <3>7 DEF halChannelTeardown, halClose, cpmac_p_dev_disable
    <3>8. CASE cpmac_hal_isr \/ halIsr \/ \E b \in Buf : OsFree(b)
      BY <3>8 DEF cpmac_hal_isr, halIsr, OsFree
    <3>. QED BY <1>2, <2>4, <3>1, <3>2, <3>3, <3>4, <3>5, <3>6, <3>7, <3>8 DEF Next, Running
  <2>. QED BY <2>1, <2>2, <2>3, <2>4
<1>3. J => NoFreedRcb
  BY DEF NoFreedRcb
<1>4. Lives /\ CleanClose /\ J /\ [Next]_vars => J'
  BY <1>2
<1>. HIDE DEF J
<1>. QED BY <1>1, <1>3, <1>4, EveryLife, PTL DEF Spec

\* The receive channel may then be closed and opened any number of times, with a full
\* or a partial teardown each time, while allocations fail between the openings and
\* the closes: no life leaks a buffer or frees one of the network stack, every opening
\* can receive, no RCB is in two places, no restart hits a running engine, packets
\* are delivered once, whole and in order, and no freed RCB is used.
THEOREM OpenedAgain ==
  ASSUME RxNumBuffers <= MaxNeeds + 1
  PROVE  Spec /\ [][~ReceiveDrop]_vars /\ []InitComplete /\ []Refilled
           => [](/\ BuffersConserved /\ OpenCanReceive /\ RcbsConserved
                 /\ QueueNeverEmpty /\ NoHostError /\ NoHiddenStall
                 /\ DeliveredIntact /\ NoFreedRcb)
  BY ClosesAreClean, NoBufferLeaks, OpenedCanReceive, RcbsOnce, HeadIsThere,
     HdpWritesAreSafe, StallsAreSeen, PacketsIntact, NothingFreedUsed, PTL

-----------------------------------------------------------------------------
\* A channel that nobody closes: it was opened, and no teardown is asked for.
NeverClosed ==
  /\ opens \in Nat /\ opens <= 1
  /\ opens = 1 => pc # "closed"
  /\ opens = 0 => pc = "closed"
  /\ ~closing /\ RxTeardownPending = "none"

\* Where no teardown is ever asked for, each theorem above holds without its
\* condition: halOpen() is called once and the first life does not end.
THEOREM OneLife == ASSUME Teardowns = {} PROVE Spec => []FirstLife
<1>1. Init => NeverClosed
  BY DEF Init, NeverClosed
<1>2. ASSUME IInv, NeverClosed, [Next]_vars PROVE NeverClosed'
  <2>. USE DEF dma, dev, chan, cpu, intr, free, lists
  <2>0. caller \in {"InitRcb", "NeedsCheck", "RxInt"}
    <3>1. Lives
      BY <1>2 DEF NeverClosed, FirstLife, Alive, IInv
    <3>. QED BY <3>1 DEF Lives, Inv, Shut, FlagTypes
  <2>1. CASE InitRcbNew \/ InitRcbReuse
    <3>1. /\ pc = "closed" /\ pc' # "closed"
          /\ opens' = opens + 1 /\ UNCHANGED <<closing, RxTeardownPending>>
      BY <2>1 DEF InitRcbNew, InitRcbReuse, ChannelReset
    <3>2. opens = 0
      BY <1>2, <3>1 DEF NeverClosed
    <3>. QED BY <1>2, <3>1, <3>2 DEF NeverClosed
  <2>2. ASSUME UNCHANGED <<closing, opens, RxTeardownPending>>,
               pc' = pc \/ (pc # "closed" /\ pc' # "closed")
        PROVE  NeverClosed'
    BY <1>2, <2>2 DEF NeverClosed
  <2>3. CASE Hardware \/ UNCHANGED vars
    BY <2>2, <2>3 DEF Hardware, HwFetch, HwTeardown, HwFill, vars
  <2>4. CASE InitRcbBuffer \/ InitRcbFail \/ InitRcb \/ halOpenEnd
    BY <2>2, <2>4 DEF InitRcbBuffer, InitRcbFail, InitRcb, halOpenEnd
  <2>5. CASE NeedsCheck \/ NeedsCheckEnd \/ RxIntNoTeardown
    BY <2>2, <2>5 DEF NeedsCheck, NeedsCheckEnd, RxIntNoTeardown, RxReturn
  <2>6. CASE RxReturnGood \/ RxReturnFail
    <3>1. /\ pc = "RxReturn" /\ UNCHANGED <<closing, opens, RxTeardownPending>>
          /\ \/ pc' \in {"RxReturn", "AddToRxQueue"}
             \/ \E f \in BOOLEAN : pc' = Continue(chain', f)
      BY <2>6 DEF RxReturnGood, RxReturnFail
    <3>. QED BY <2>0, <2>2, <3>1 DEF Continue
  <2>7. CASE AddToRxQueueFirst \/ AddToRxQueueLink \/ AddToRxQueueTestEoq
    BY <2>0, <2>2, <2>7
    DEF AddToRxQueueFirst, AddToRxQueueLink, AddToRxQueueTestEoq, Continue
  <2>8. CASE RxIntRecycle \/ RxIntDequeue \/ RxIntEnd
    BY <2>2, <2>8 DEF RxIntRecycle, RxIntDequeue, RxIntEnd, RxIntReturn, RxReturn
  <2>9. CASE ReceiveUp \/ ReceiveDrop
    BY <2>2, <2>9 DEF ReceiveUp, ReceiveDrop, RxReturn
  <2>10. ~(halChannelTeardown \/ RxTeardownInt \/ halClose \/ cpmac_p_dev_disable)
    BY <1>2 DEF NeverClosed, halChannelTeardown, RxTeardownInt, TeardownSeen, halClose,
                cpmac_p_dev_disable
  <2>11. CASE cpmac_hal_isr \/ halIsr
    BY <2>2, <2>11 DEF cpmac_hal_isr, halIsr
  <2>12. CASE \E b \in Buf : OsFree(b)
    BY <2>2, <2>12 DEF OsFree
  <2>. QED
    BY <1>2, <2>1, <2>3, <2>4, <2>5, <2>6, <2>7, <2>8, <2>9, <2>10, <2>11, <2>12
    DEF Next, Running
<1>3. NeverClosed => FirstLife
  BY DEF NeverClosed, FirstLife, Alive
<1>4. IInv /\ NeverClosed /\ [Next]_vars => NeverClosed'
  BY <1>2
<1>. QED BY <1>1, <1>3, <1>4, Invariance, PTL DEF Spec
=============================================================================

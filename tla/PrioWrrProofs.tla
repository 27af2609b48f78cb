--------------------------- MODULE PrioWrrProofs ---------------------------
(***************************************************************************)
(* The packet count of the scheduler never misses a packet, and is exact   *)
(* until a queue is grafted, for every set of flows, every set of tc       *)
(* requests and every length of the device queue. Shape gives what the     *)
(* steps need of the state: every slot of the table, half filled or not,   *)
(* names a band, and the packet in the hands of the driver has a band to   *)
(* go back to.                                                             *)
(*                                                                         *)
(* Flows stay in order, and expedited ones go first, if each is classified *)
(* into the same band before and after priowrr_enqueue() has overwritten   *)
(* its priority (Stable): InOrder says that every queue holds the flows of *)
(* its band only, each in the order of its numbers, behind the packet in   *)
(* the hands of the driver.  Tuned follows priowrr_tune() through its      *)
(* loops: how much of the table and of the limits has been set from the    *)
(* weights and lengths that are stored.                                    *)
(***************************************************************************)
EXTENDS PrioWrr, SequenceTheorems, FiniteSetTheorems, TLAPS

Shape ==
  /\ queue \in [Band -> Seq(Packet)] /\ hand \in Packet \cup {None}
  /\ qlen \in Int /\ wted_idx \in 0..(TCQ_MAX_ST - 1)
  /\ sch_table \in [0..(TCQ_MAX_ST - 1) -> Band]
  /\ enqueued \in [Flow -> Nat] /\ grafts \in Nat

(* The exact length, with the types it needs.                               *)
IInv == Shape /\ QlenExact

(* priowrr_classify() gives a band for every priority and class.            *)
LEMMA ClassifyBand ==
  ASSUME NEW p \in Nat, NEW c \in Nat
  PROVE  priowrr_classify(p, c) \in Band
<1>1. \A i \in 1..16 : prio2band[i] \in Band
  BY DEF prio2band, Band
<1>2. \A i \in Nat : ClassBand(i) \in Band
  BY <1>1 DEF ClassBand, Band
<1>3. (p % 16) + 1 \in 1..16 /\ p % 65536 \in Nat
  OBVIOUS
<1>4. prio2band[1] \in Band /\ prio2band[(p % 16) + 1] \in Band
  BY <1>1, <1>3
<1>5. 0 \in Band /\ 1 \in Band /\ 2 \in Band /\ 3 \in Band
  BY DEF Band
<1> QED
  BY <1>2, <1>3, <1>4, <1>5 DEF priowrr_classify

(* So every packet has a band.                                              *)
LEMMA PacketBand ==
  ASSUME NEW pkt \in Packet
  PROVE  BandOf(pkt) \in Band
<1>1. pkt.pr \in Nat /\ FlowClass[pkt.f] \in Nat
  BY FlowAssumption DEF Packet
<1> QED
  BY <1>1, ClassifyBand DEF BandOf

(* Replacing the queue of one band changes the backlog by what that queue   *)
(* gained or lost, and the count may lose no more than that; it must lose   *)
(* as much until a queue is grafted.                                        *)
LEMMA OneQueue ==
  ASSUME IInv, NEW b \in Band, NEW s \in Seq(Packet), NEW d \in Int, NEW e \in Int,
         Len(s) = Len(queue[b]) + d, d <= e, grafts' = 0 => grafts = 0 /\ d = e,
         queue' = [queue EXCEPT ![b] = s], qlen' = qlen + e
  PROVE  queue' \in [Band -> Seq(Packet)] /\ qlen' \in Int /\ QlenExact'
<1>1. \A c \in Band : Len(queue[c]) \in Nat
  BY DEF IInv, Shape
<1>2. queue' \in [Band -> Seq(Packet)] /\ qlen' \in Int
  BY DEF IInv, Shape
<1>3. queue'[b] = s /\ \A c \in Band \ {b} : queue'[c] = queue[c]
  BY DEF IInv, Shape
<1>4. \A c \in Band : Len(queue'[c]) = IF c = b THEN Len(queue[c]) + d ELSE Len(queue[c])
  BY <1>3
<1> DEFINE n(c) == Len(queue[c])
           m(c) == Len(queue'[c])
<1>5. n(0) \in Nat /\ n(1) \in Nat /\ n(2) \in Nat /\ n(3) \in Nat
  BY <1>1 DEF Band
<1>6. /\ m(0) = IF 0 = b THEN n(0) + d ELSE n(0)
      /\ m(1) = IF 1 = b THEN n(1) + d ELSE n(1)
      /\ m(2) = IF 2 = b THEN n(2) + d ELSE n(2)
      /\ m(3) = IF 3 = b THEN n(3) + d ELSE n(3)
  BY <1>4 DEF Band
<1>7. b \in {0, 1, 2, 3}
  BY DEF Band
<1>8. /\ n(0) + n(1) + n(2) + n(3) \in Int
      /\ m(0) + m(1) + m(2) + m(3) = n(0) + n(1) + n(2) + n(3) + d
  <2> HIDE DEF n, m
  <2>1. CASE b = 0
    BY <1>5, <1>6, <2>1, SMTT(30)
  <2>2. CASE b = 1
    BY <1>5, <1>6, <2>2, SMTT(30)
  <2>3. CASE b = 2
    BY <1>5, <1>6, <2>3, SMTT(30)
  <2>4. CASE b = 3
    BY <1>5, <1>6, <2>4, SMTT(30)
  <2> QED
    BY <1>7, <2>1, <2>2, <2>3, <2>4
<1>9. Backlog \in Int /\ Backlog' = Backlog + d
  BY <1>8 DEF Backlog
<1>10. QlenExact'
  BY <1>2, <1>9 DEF IInv, Shape, QlenExact
<1> QED
  BY <1>2, <1>10

(* priowrr_init(): four empty queues.                                       *)
LEMMA InitInv == Init => IInv
<1> SUFFICES ASSUME Init PROVE IInv
  OBVIOUS
<1>1. queue = [b \in Band |-> <<>>] /\ queue \in [Band -> Seq(Packet)]
  BY DEF Init
<1>2. sch_table \in [0..(TCQ_MAX_ST - 1) -> Band]
  BY DEF Init, SlotBand, BEQ1, BEQ2, Band
<1>3. \A b \in Band : Len(queue[b]) = 0
  BY <1>1
<1>4. Backlog = 0
  <2>1. Len(queue[0]) = 0 /\ Len(queue[1]) = 0 /\ Len(queue[2]) = 0 /\ Len(queue[3]) = 0
    BY <1>3 DEF Band
  <2> QED
    BY <2>1 DEF Backlog
<1>5. QlenExact
  BY <1>4 DEF Init, QlenExact
<1> QED
  BY <1>1, <1>2, <1>5 DEF Init, IInv, Shape, TCQ_MAX_ST

(* priowrr_enqueue(), which queues one packet or drops it.                  *)
LEMMA EnqueueInv ==
  ASSUME IInv, NEW f \in Flow, priowrr_enqueue(f)
  PROVE  IInv'
<1> DEFINE pkt == [f |-> f, n |-> enqueued[f] + 1, pr |-> FlowPriority[f]]
           b == BandOf(pkt)
           new == [pkt EXCEPT !.pr = NewPriority(b)]
<1>1. pkt \in Packet
  BY FlowAssumption DEF Packet, IInv, Shape
<1>2. b \in Band
  BY <1>1, PacketBand
<1>3. NewPriority(b) \in Nat
  BY <1>2 DEF NewPriority, Band, EF
<1>4. new \in Packet
  BY <1>1, <1>3 DEF Packet
<1>5. /\ hand' = hand /\ wted_idx' = wted_idx /\ sch_table' = sch_table /\ grafts' = grafts
      /\ enqueued' = [enqueued EXCEPT ![f] = @ + 1]
  BY DEF priowrr_enqueue, cfgVars
<1>6. enqueued' \in [Flow -> Nat]
  BY <1>5 DEF IInv, Shape
<1>7. CASE queue' = [queue EXCEPT ![b] = Append(@, new)] /\ qlen' = qlen + 1
  <2> HIDE DEF pkt, b, new
  <2>1. queue[b] \in Seq(Packet)
    BY <1>2 DEF IInv, Shape
  <2>2. Append(queue[b], new) \in Seq(Packet) /\ Len(Append(queue[b], new)) = Len(queue[b]) + 1
    BY <2>1, <1>4
  <2>3. queue' \in [Band -> Seq(Packet)] /\ qlen' \in Int /\ QlenExact'
    <3>1. queue' = [queue EXCEPT ![b] = Append(queue[b], new)] /\ 1 \in Int /\ 1 <= 1
      BY <1>7
    <3> QED
      BY <1>2, <1>5, <1>7, <2>2, <3>1, OneQueue, Zenon
  <2> QED
    BY <1>5, <1>6, <2>3 DEF IInv, Shape
<1>8. CASE UNCHANGED <<queue, qlen>>
  BY <1>5, <1>6, <1>8 DEF IInv, Shape, QlenExact, Backlog
<1> QED
  BY <1>7, <1>8 DEF priowrr_enqueue

(* Taking the head of a queue that is not empty takes one off the length.   *)
LEMMA ServeQueue ==
  ASSUME IInv, NEW b \in Band, queue[b] # <<>>, Serve(b), grafts' = grafts
  PROVE  /\ queue' \in [Band -> Seq(Packet)] /\ qlen' \in Int /\ QlenExact'
         /\ hand' \in Packet
<1>1. queue[b] \in Seq(Packet)
  BY DEF IInv, Shape
<1>2. /\ Head(queue[b]) \in Packet /\ Tail(queue[b]) \in Seq(Packet)
      /\ Len(Tail(queue[b])) = Len(queue[b]) + (-1)
  BY <1>1, HeadTailProperties
<1>3. queue' = [queue EXCEPT ![b] = Tail(queue[b])] /\ qlen' = qlen + (-1)
  BY DEF Serve, IInv, Shape
<1>4. queue' \in [Band -> Seq(Packet)] /\ qlen' \in Int /\ QlenExact'
  <2>1. -1 \in Int /\ -1 <= -1
    OBVIOUS
  <2> QED
    BY <1>2, <1>3, <2>1, OneQueue, Zenon
<1> QED
  BY <1>2, <1>4 DEF Serve

(* priowrr_dequeue(): an expedited band, a slot of the table, or nothing.   *)
LEMMA DequeueInv ==
  ASSUME IInv, priowrr_dequeue
  PROVE  IInv'
<1>1. sch_table' = sch_table /\ enqueued' = enqueued /\ grafts' = grafts
  BY DEF priowrr_dequeue
<1>2. ASSUME NEW b \in EFReady, Serve(b), UNCHANGED wted_idx PROVE IInv'
  <2>1. b \in Band /\ queue[b] # <<>>
    BY <1>2 DEF EFReady, EF, Band
  <2>2. queue' \in [Band -> Seq(Packet)] /\ qlen' \in Int /\ QlenExact' /\ hand' \in Packet
    BY <1>1, <1>2, <2>1, ServeQueue
  <2> QED
    BY <1>1, <1>2, <2>2 DEF IInv, Shape
<1>3. ASSUME NEW k \in Hits, Serve(sch_table[Slot(k)]), wted_idx' = Slot(k + 1) PROVE IInv'
  <2>1. k \in 0..9 /\ wted_idx \in 0..9
    BY <1>3 DEF Hits, IInv, Shape, TCQ_MAX_ST
  <2>2. Slot(k) \in 0..(TCQ_MAX_ST - 1) /\ Slot(k + 1) \in 0..(TCQ_MAX_ST - 1)
    BY <2>1 DEF Slot, TCQ_MAX_ST
  <2>3. sch_table[Slot(k)] \in Band /\ queue[sch_table[Slot(k)]] # <<>>
    BY <1>3, <2>2 DEF Hits, IInv, Shape
  <2>4. queue' \in [Band -> Seq(Packet)] /\ qlen' \in Int /\ QlenExact' /\ hand' \in Packet
    BY <1>1, <1>3, <2>3, ServeQueue
  <2> QED
    BY <1>1, <1>3, <2>2, <2>4 DEF IInv, Shape
<1>4. CASE UNCHANGED <<queue, qlen, hand, wted_idx>>
  BY <1>1, <1>4 DEF IInv, Shape, QlenExact, Backlog
<1> QED
  BY <1>2, <1>3, <1>4 DEF priowrr_dequeue

(* priowrr_requeue() of the packet that the driver refused, or its loss.    *)
LEMMA RefusedInv ==
  ASSUME IInv, XmitRefused
  PROVE  IInv'
<1>1. /\ hand' = None /\ wted_idx' = wted_idx /\ sch_table' = sch_table
      /\ grafts' = grafts /\ enqueued' = enqueued
  BY DEF XmitRefused, cfgVars
<1>2. hand \in Packet
  BY DEF XmitRefused, IInv, Shape
<1> DEFINE b == BandOf(hand)
<1>3. b \in Band
  BY <1>2, PacketBand
<1>4. CASE queue' = [queue EXCEPT ![b] = <<hand>> \o @] /\ qlen' = qlen + 1
  <2> HIDE DEF b
  <2>1. queue[b] \in Seq(Packet) /\ <<hand>> \in Seq(Packet)
    BY <1>2, <1>3 DEF IInv, Shape
  <2>2. /\ <<hand>> \o queue[b] \in Seq(Packet)
        /\ Len(<<hand>> \o queue[b]) = Len(queue[b]) + 1
    BY <2>1
  <2>3. queue' \in [Band -> Seq(Packet)] /\ qlen' \in Int /\ QlenExact'
    <3>1. queue' = [queue EXCEPT ![b] = <<hand>> \o queue[b]] /\ 1 \in Int /\ 1 <= 1
      BY <1>4
    <3> QED
      BY <1>1, <1>3, <1>4, <2>2, <3>1, OneQueue, Zenon
  <2> QED
    BY <1>1, <2>3 DEF IInv, Shape
<1>5. CASE UNCHANGED <<queue, qlen>>
  BY <1>1, <1>5 DEF IInv, Shape, QlenExact, Backlog
<1> QED
  BY <1>4, <1>5 DEF XmitRefused, priowrr_requeue

(* priowrr_drop() of the last packet of some band.                          *)
LEMMA DropInv ==
  ASSUME IInv, priowrr_drop
  PROVE  IInv'
<1>1. /\ hand' = hand /\ wted_idx' = wted_idx /\ sch_table' = sch_table
      /\ grafts' = grafts /\ enqueued' = enqueued
  BY DEF priowrr_drop, cfgVars
<1>2. PICK b \in Band : /\ queue[b] # <<>>
                        /\ queue' = [queue EXCEPT ![b] = SubSeq(@, 1, Len(@) - 1)]
  BY DEF priowrr_drop
<1>3. queue[b] \in Seq(Packet) /\ Len(queue[b]) \in Nat \ {0}
  BY <1>2 DEF IInv, Shape
<1>4. /\ SubSeq(queue[b], 1, Len(queue[b]) - 1) \in Seq(Packet)
      /\ Len(SubSeq(queue[b], 1, Len(queue[b]) - 1)) = Len(queue[b]) + (-1)
  BY <1>3
<1>5. qlen' = qlen + (-1)
  BY DEF priowrr_drop, IInv, Shape
<1>6. queue' \in [Band -> Seq(Packet)] /\ qlen' \in Int /\ QlenExact'
  <2>1. /\ queue' = [queue EXCEPT ![b] = SubSeq(queue[b], 1, Len(queue[b]) - 1)]
        /\ -1 \in Int /\ -1 <= -1
    BY <1>2
  <2> QED
    BY <1>1, <1>4, <1>5, <2>1, OneQueue, Zenon
<1> QED
  BY <1>1, <1>6 DEF IInv, Shape

(* The steps of priowrr_tune() touch neither queues nor length.             *)
LEMMA TuneInv ==
  ASSUME IInv, Tune
  PROVE  IInv'
<1>1. /\ queue' = queue /\ qlen' = qlen /\ hand' = hand /\ wted_idx' = wted_idx
      /\ enqueued' = enqueued /\ grafts' = grafts
  BY DEF Tune, TuneClear, TuneSlot, TuneLimit
<1>2. sch_table' \in [0..(TCQ_MAX_ST - 1) -> Band]
  <2>1. CASE TuneClear
    BY <2>1 DEF TuneClear, IInv, Shape, Band
  <2>2. CASE TuneSlot
    <3>1. \A i : SlotBand(i) \in Band
      BY DEF SlotBand, BEQ1, BEQ2, Band
    <3> QED
      BY <2>2, <3>1 DEF TuneSlot, IInv, Shape
  <2>3. CASE TuneLimit
    BY <2>3 DEF TuneLimit, IInv, Shape
  <2> QED
    BY <2>1, <2>2, <2>3 DEF Tune
<1> QED
  BY <1>1, <1>2 DEF IInv, Shape, QlenExact, Backlog

(* priowrr_graft() empties one queue and leaves the count alone.            *)
LEMMA GraftInv ==
  ASSUME IInv, NEW b \in Band, priowrr_graft(b)
  PROVE  IInv'
<1>1. /\ hand' = hand /\ wted_idx' = wted_idx /\ sch_table' = sch_table
      /\ grafts' = grafts + 1 /\ enqueued' = enqueued /\ qlen' = qlen
      /\ queue' = [queue EXCEPT ![b] = <<>>]
  BY DEF priowrr_graft
<1> DEFINE d == -Len(queue[b])
<1>2. Len(queue[b]) \in Nat /\ <<>> \in Seq(Packet)
  BY DEF IInv, Shape
<1>3. d \in Int /\ d <= 0 /\ Len(<<>>) = Len(queue[b]) + d
  BY <1>2
<1>4. grafts' \in Nat /\ grafts' # 0 /\ qlen' = qlen + 0 /\ 0 \in Int
  BY <1>1 DEF IInv, Shape
<1>5. queue' \in [Band -> Seq(Packet)] /\ qlen' \in Int /\ QlenExact'
  <2> HIDE DEF d
  <2> QED
    BY <1>1, <1>2, <1>3, <1>4, OneQueue, Zenon
<1> QED
  BY <1>1, <1>4, <1>5 DEF IInv, Shape

(* Every step keeps the count.                                              *)
LEMMA NextInv == IInv /\ [Next]_vars => IInv'
<1> SUFFICES ASSUME IInv, [Next]_vars PROVE IInv'
  OBVIOUS
<1>1. ASSUME NEW f \in Flow, priowrr_enqueue(f) PROVE IInv'
  BY <1>1, EnqueueInv
<1>2. CASE priowrr_dequeue
  BY <1>2, DequeueInv
<1>3. CASE XmitTaken
  BY <1>3 DEF XmitTaken, cfgVars, IInv, Shape, QlenExact, Backlog
<1>4. CASE XmitRefused
  BY <1>4, RefusedInv
<1>5. CASE priowrr_drop
  BY <1>5, DropInv
<1>6. CASE priowrr_reset
  <2>1. /\ hand' = hand /\ wted_idx' = wted_idx /\ sch_table' = sch_table
        /\ grafts' = grafts /\ enqueued' = enqueued /\ qlen' = 0
        /\ queue' = [c \in Band |-> <<>>]
    BY <1>6 DEF priowrr_reset, cfgVars
  <2>2. queue' \in [Band -> Seq(Packet)] /\ \A c \in Band : Len(queue'[c]) = 0
    BY <2>1
  <2>3. Backlog' = 0
    BY <2>2 DEF Backlog, Band
  <2>4. QlenExact'
    BY <2>1, <2>3 DEF QlenExact
  <2> QED
    BY <2>1, <2>2, <2>4 DEF IInv, Shape
<1>7. ASSUME NEW b \in Band, priowrr_graft(b) PROVE IInv'
  BY <1>7, GraftInv
<1>8. ASSUME NEW o \in Options, TuneMaps(o) PROVE IInv'
  <2>1. /\ queue' = queue /\ qlen' = qlen /\ hand' = hand /\ wted_idx' = 0
        /\ sch_table' = sch_table /\ enqueued' = enqueued /\ grafts' = grafts
    BY <1>8 DEF TuneMaps
  <2>2. QlenExact'
    BY <2>1 DEF IInv, QlenExact, Backlog
  <2> QED
    BY <2>1, <2>2, SMTT(30) DEF IInv, Shape, TCQ_MAX_ST
<1>9. CASE Tune
  BY <1>9, TuneInv
<1>10. CASE UNCHANGED vars
  BY <1>10 DEF vars, IInv, Shape, QlenExact, Backlog
<1> QED
  BY <1>1, <1>2, <1>3, <1>4, <1>5, <1>6, <1>7, <1>8, <1>9, <1>10 DEF Next

(* In every state of every behaviour sch->q.qlen is at least the number of  *)
(* packets in the four queues, and exactly that number until a queue is     *)
(* grafted: enqueues at the limit, packets the driver refuses, drops,       *)
(* resets and retuning all keep it.                                         *)
THEOREM QlenAlwaysExact == Spec => []QlenExact
<1>1. IInv => QlenExact
  BY DEF IInv
<1> QED
  BY InitInv, NextInv, <1>1, PTL DEF Spec

----------------------------------------------------------------------------
(* Order and priority.  They rest on the band of a requeued packet, which   *)
(* priowrr_requeue() reads from the priority that priowrr_enqueue() wrote:  *)
(* it is the old band where a filter, or the new priority itself, says so.  *)

FlowBand(f) == priowrr_classify(FlowPriority[f], FlowClass[f])

(* Every flow is sent back to the band it came from.                        *)
Stable == \A f \in Flow : priowrr_classify(NewPriority(FlowBand(f)), FlowClass[f]) = FlowBand(f)

(* A flow that a tc filter puts into a class is such a flow, whatever its   *)
(* priority was, as long as that was not one that goes before the filters.  *)
LEMMA FilteredIsStable ==
  ASSUME NEW f \in Flow, FlowClass[f] # 0, FlowPriority[f] < 64173
  PROVE  priowrr_classify(NewPriority(FlowBand(f)), FlowClass[f]) = FlowBand(f)
<1>1. FlowPriority[f] \in Nat /\ FlowClass[f] \in Nat
  BY FlowAssumption
<1>2. ASSUME NEW p \in Nat, p < 64173
      PROVE  priowrr_classify(p, FlowClass[f]) = ClassBand(FlowClass[f])
  <2>1. p # 65535 /\ p # 64173 /\ p # 64221 /\ p # 64989
    BY <1>2
  <2>2. p \div 65536 # 1
    BY <1>2
  <2> QED BY <2>1, <2>2 DEF priowrr_classify, Handle
<1>3. FlowBand(f) = ClassBand(FlowClass[f])
  BY <1>1, <1>2 DEF FlowBand
<1>4. FlowBand(f) \in Band
  BY <1>1, ClassifyBand DEF FlowBand
<1>5. NewPriority(FlowBand(f)) \in Nat /\ NewPriority(FlowBand(f)) < 64173
  <2>1. ASSUME NEW b \in Band PROVE NewPriority(b) \in Nat /\ NewPriority(b) < 64173
    BY DEF NewPriority, Band, EF
  <2> QED BY <1>4, <2>1
<1> QED BY <1>2, <1>3, <1>5

(* Without a filter it is the band that decides: the priority written for a *)
(* best effort band leads back to it, the one written for an expedited band *)
(* to the band below.                                                       *)
LEMMA UnfilteredIsStable ==
  ASSUME NEW b \in Band
  PROVE  priowrr_classify(NewPriority(b), 0) = IF b \in EF THEN b + 1 ELSE b
<1>1. b = 0 \/ b = 1 \/ b = 2 \/ b = 3
  BY DEF Band
<1>2. NewPriority(b) = IF b < 2 THEN b + 7 ELSE b
  BY <1>1 DEF NewPriority, EF
<1>3. \A p \in 0..15 : priowrr_classify(p, 0) = prio2band[p + 1]
  <2> TAKE p \in 0..15
  <2>1. p # 65535 /\ p # 64173 /\ p # 64221 /\ p # 64989
    OBVIOUS
  <2>2. p \div 65536 = 0 /\ p % 16 = p
    OBVIOUS
  <2> QED BY <2>1, <2>2 DEF priowrr_classify, Handle
<1>4. NewPriority(b) \in 0..15
  BY <1>1, <1>2
<1>5. priowrr_classify(NewPriority(b), 0) = prio2band[NewPriority(b) + 1]
  BY <1>3, <1>4
<1> QED BY <1>1, <1>2, <1>5 DEF prio2band, EF

(* The queue of band b: its packets belong there, none of them is out yet,  *)
(* and those of a flow stand in the order they came.                        *)
Lane(s, b, out, made) ==
  /\ \A i \in 1..Len(s) : /\ s[i].pr = NewPriority(b) /\ FlowBand(s[i].f) = b
                          /\ out[s[i].f] < s[i].n /\ s[i].n <= made[s[i].f]
  /\ \A i, j \in 1..Len(s) : i < j /\ s[i].f = s[j].f => s[i].n < s[j].n

(* The packet h is older than those of its flow in s.                       *)
Older(h, s) == \A i \in 1..Len(s) : s[i].f = h.f => h.n < s[i].n

(* A packet that the driver holds may go out, or back where it came from.   *)
Held(h, q, out, made) ==
  /\ h.pr = NewPriority(FlowBand(h.f))
  /\ out[h.f] < h.n /\ h.n <= made[h.f]
  /\ Older(h, q[FlowBand(h.f)])

InOrder ==
  /\ lastOut \in [Flow -> Nat] /\ \A f \in Flow : lastOut[f] <= enqueued[f]
  /\ \A b \in Band : Lane(queue[b], b, lastOut, enqueued)
  /\ hand # None => Held(hand, queue, lastOut, enqueued)

(* A new packet goes to the tail of its lane.                               *)
LEMMA LaneAppend ==
  ASSUME NEW b \in Band, NEW s \in Seq(Packet), NEW out \in [Flow -> Nat],
         NEW made \in [Flow -> Nat], Lane(s, b, out, made), NEW f \in Flow,
         FlowBand(f) = b, NEW pkt \in Packet, pkt.f = f, pkt.n = made[f] + 1,
         pkt.pr = NewPriority(b), out[f] <= made[f]
  PROVE  Lane(Append(s, pkt), b, out, [made EXCEPT ![f] = @ + 1])
<1> DEFINE t == Append(s, pkt)
           more == [made EXCEPT ![f] = @ + 1]
<1>1. /\ Len(t) = Len(s) + 1 /\ Len(s) \in Nat /\ t[Len(s) + 1] = pkt
      /\ \A i \in 1..Len(s) : t[i] = s[i] /\ s[i] \in Packet
  OBVIOUS
<1>2. more[f] = made[f] + 1 /\ \A g \in Flow : more[g] \in Nat /\ made[g] <= more[g]
  OBVIOUS
<1> HIDE DEF t, more
<1>3. \A i \in 1..Len(t) : /\ t[i].pr = NewPriority(b) /\ FlowBand(t[i].f) = b
                           /\ out[t[i].f] < t[i].n /\ t[i].n <= more[t[i].f]
  <2> TAKE i \in 1..Len(t)
  <2>1. CASE i = Len(s) + 1
    BY <1>1, <1>2, <2>1 DEF Packet
  <2>2. CASE i \in 1..Len(s)
    <3>1. s[i].f \in Flow /\ s[i].n \in Nat
      BY <1>1, <2>2 DEF Packet
    <3>2. made[s[i].f] \in Nat /\ made[s[i].f] <= more[s[i].f] /\ more[s[i].f] \in Nat
      BY <1>2, <3>1
    <3>3. /\ s[i].pr = NewPriority(b) /\ FlowBand(s[i].f) = b
          /\ out[s[i].f] < s[i].n /\ s[i].n <= made[s[i].f]
      BY <2>2 DEF Lane
    <3> QED BY <1>1, <2>2, <3>1, <3>2, <3>3
  <2> QED BY <1>1, <2>1, <2>2
<1>4. \A i, j \in 1..Len(t) : i < j /\ t[i].f = t[j].f => t[i].n < t[j].n
  <2> TAKE i, j \in 1..Len(t)
  <2> HAVE i < j /\ t[i].f = t[j].f
  <2>0. i \in 1..Len(s) /\ (j = Len(s) + 1 \/ j \in 1..Len(s))
    <3>1. PICK m \in Nat : m = Len(s) /\ Len(t) = m + 1
      BY <1>1
    <3>2. i \in 1..m + 1 /\ j \in 1..m + 1 /\ i < j
      BY <3>1
    <3>3. i \in 1..m /\ (j = m + 1 \/ j \in 1..m)
      BY <3>2
    <3> QED BY <3>1, <3>3
  <2>1. s[i].n \in Nat /\ s[i].n <= made[s[i].f]
    BY <1>1, <2>0 DEF Lane, Packet
  <2>2. CASE j = Len(s) + 1
    BY <1>1, <2>0, <2>1, <2>2
  <2>3. CASE j \in 1..Len(s)
    BY <1>1, <2>0, <2>3 DEF Lane
  <2> QED BY <2>0, <2>2, <2>3
<1> QED BY <1>3, <1>4 DEF Lane, t, more

(* Without its head or its tail a lane is one, and the head was the oldest  *)
(* of its flow.                                                             *)
LEMMA LaneTail ==
  ASSUME NEW b \in Band, NEW s \in Seq(Packet), s # <<>>, NEW out \in [Flow -> Nat],
         NEW made \in [Flow -> Nat], Lane(s, b, out, made)
  PROVE  /\ Lane(Tail(s), b, out, made)
         /\ Head(s).pr = NewPriority(b) /\ FlowBand(Head(s).f) = b
         /\ out[Head(s).f] < Head(s).n /\ Head(s).n <= made[Head(s).f]
         /\ Older(Head(s), Tail(s))
<1> DEFINE t == Tail(s)
<1>1. /\ Len(s) \in Nat /\ Len(s) >= 1 /\ Len(t) = Len(s) - 1 /\ Head(s) = s[1]
      /\ \A i \in 1..Len(t) : t[i] = s[i + 1]
  OBVIOUS
<1> HIDE DEF t
<1>2. 1 \in 1..Len(s) /\ \A i \in 1..Len(t) : i + 1 \in 1..Len(s) /\ 1 < i + 1
  BY <1>1
<1>3. Lane(t, b, out, made)
  <2>1. \A i \in 1..Len(t) : /\ t[i].pr = NewPriority(b) /\ FlowBand(t[i].f) = b
                             /\ out[t[i].f] < t[i].n /\ t[i].n <= made[t[i].f]
    BY <1>1, <1>2 DEF Lane
  <2>2. ASSUME NEW i \in 1..Len(t), NEW j \in 1..Len(t), i < j, t[i].f = t[j].f
        PROVE  t[i].n < t[j].n
    <3>1. i + 1 \in 1..Len(s) /\ j + 1 \in 1..Len(s) /\ i + 1 < j + 1
      BY <1>2, <2>2
    <3>2. t[i] = s[i + 1] /\ t[j] = s[j + 1]
      BY <1>1
    <3> QED BY <2>2, <3>1, <3>2 DEF Lane
  <2> QED BY <2>1, <2>2 DEF Lane
<1>4. Older(s[1], t)
  BY <1>1, <1>2 DEF Lane, Older
<1> QED BY <1>1, <1>2, <1>3, <1>4 DEF Lane, t

(* priowrr_drop() takes the last.                                           *)
LEMMA LaneFront ==
  ASSUME NEW b \in Band, NEW s \in Seq(Packet), s # <<>>, NEW out \in [Flow -> Nat],
         NEW made \in [Flow -> Nat], Lane(s, b, out, made)
  PROVE  /\ Lane(SubSeq(s, 1, Len(s) - 1), b, out, made)
         /\ \A h : Older(h, s) => Older(h, SubSeq(s, 1, Len(s) - 1))
<1> DEFINE t == SubSeq(s, 1, Len(s) - 1)
<1>1. /\ Len(s) \in Nat /\ Len(s) >= 1 /\ Len(t) = Len(s) - 1
      /\ \A i \in 1..Len(t) : t[i] = s[i]
  <2>1. Len(s) \in Nat /\ Len(s) >= 1
    OBVIOUS
  <2>2. Len(s) - 1 \in Int /\ 1 \in Int /\ \A i \in 1..(Len(s) - 1) : s[i] \in Packet
    BY <2>1
  <2>3. /\ Len(t) = IF 1 <= Len(s) - 1 THEN (Len(s) - 1) - 1 + 1 ELSE 0
        /\ \A i \in 1..((Len(s) - 1) - 1 + 1) : t[i] = s[1 + i - 1]
    BY <2>2, SubSeqProperties
  <2> HIDE DEF t
  <2>4. Len(t) = Len(s) - 1
    <3>1. Len(t) = IF 1 <= Len(s) - 1 THEN (Len(s) - 1) - 1 + 1 ELSE 0
      BY <2>3
    <3>2. CASE Len(s) = 1 BY <3>1, <3>2
    <3>3. CASE Len(s) > 1 BY <2>1, <3>1, <3>3
    <3>4. \A n \in Nat : n >= 1 => n = 1 \/ n > 1
      OBVIOUS
    <3>5. Len(s) = 1 \/ Len(s) > 1
      BY <2>1, <3>4
    <3> QED BY <3>2, <3>3, <3>5
  <2>5. \A i \in 1..Len(t) : i \in 1..((Len(s) - 1) - 1 + 1) /\ 1 + i - 1 = i
    BY <2>1, <2>4
  <2> QED BY <2>1, <2>3, <2>4, <2>5
<1> HIDE DEF t
<1>2. \A i \in 1..Len(t) : i \in 1..Len(s)
  BY <1>1
<1> QED BY <1>1, <1>2 DEF Lane, Older, t

(* A packet that is older than the others of its flow goes to the head.     *)
LEMMA LanePush ==
  ASSUME NEW b \in Band, NEW s \in Seq(Packet), NEW out \in [Flow -> Nat],
         NEW made \in [Flow -> Nat], Lane(s, b, out, made), NEW h \in Packet,
         FlowBand(h.f) = b, h.pr = NewPriority(b), out[h.f] < h.n, h.n <= made[h.f],
         Older(h, s)
  PROVE  Lane(<<h>> \o s, b, out, made)
<1> DEFINE t == <<h>> \o s
<1>1. /\ Len(t) = Len(s) + 1 /\ Len(s) \in Nat /\ t[1] = h
      /\ \A i \in 2..Len(t) : t[i] = s[i - 1]
  OBVIOUS
<1> HIDE DEF t
<1>2. \A i \in 1..Len(t) : i = 1 \/ (i \in 2..Len(t) /\ i - 1 \in 1..Len(s))
  BY <1>1
<1>3. \A i \in 1..Len(t) : /\ t[i].pr = NewPriority(b) /\ FlowBand(t[i].f) = b
                           /\ out[t[i].f] < t[i].n /\ t[i].n <= made[t[i].f]
  BY <1>1, <1>2 DEF Lane
<1>4. \A i, j \in 1..Len(t) : i < j /\ t[i].f = t[j].f => t[i].n < t[j].n
  <2> TAKE i, j \in 1..Len(t)
  <2> HAVE i < j /\ t[i].f = t[j].f
  <2>1. j \in 2..Len(t) /\ j - 1 \in 1..Len(s) /\ t[j] = s[j - 1]
    BY <1>1, <1>2
  <2>2. CASE i = 1
    BY <1>1, <2>1, <2>2 DEF Older
  <2>3. CASE i # 1
    <3>1. i - 1 \in 1..Len(s) /\ t[i] = s[i - 1] /\ i - 1 < j - 1
      BY <1>1, <1>2, <2>1, <2>3
    <3> QED BY <2>1, <3>1 DEF Lane
  <2> QED BY <2>2, <2>3
<1> QED BY <1>3, <1>4 DEF Lane, t

(* The lanes are empty at first.                                            *)
LEMMA InitOrder == Init => InOrder
<1> SUFFICES ASSUME Init PROVE InOrder
  OBVIOUS
<1>1. lastOut \in [Flow -> Nat] /\ hand = None /\ \A f \in Flow : lastOut[f] <= enqueued[f]
  BY DEF Init
<1>2. \A b \in Band : queue[b] = <<>> /\ Len(queue[b]) = 0
  BY DEF Init
<1> QED BY <1>1, <1>2 DEF InOrder, Lane

(* Every step keeps the order, if a requeued packet keeps its band.         *)
LEMMA NextOrder ==
  ASSUME Stable, IInv, InOrder, [Next]_vars
  PROVE  InOrder'
<1>0. /\ queue \in [Band -> Seq(Packet)] /\ hand \in Packet \cup {None}
      /\ enqueued \in [Flow -> Nat] /\ lastOut \in [Flow -> Nat]
      /\ \A f \in Flow : lastOut[f] <= enqueued[f]
      /\ \A b \in Band : Lane(queue[b], b, lastOut, enqueued)
      /\ hand # None => Held(hand, queue, lastOut, enqueued)
  BY DEF IInv, Shape, InOrder
<1>1. ASSUME NEW f \in Flow, priowrr_enqueue(f) PROVE InOrder'
  <2> DEFINE pkt == [f |-> f, n |-> enqueued[f] + 1, pr |-> FlowPriority[f]]
             b == FlowBand(f)
             new == [pkt EXCEPT !.pr = NewPriority(b)]
             made == [enqueued EXCEPT ![f] = @ + 1]
  <2>1. pkt \in Packet /\ BandOf(pkt) = b
    BY <1>0, FlowAssumption DEF Packet, BandOf, FlowBand
  <2>2. b \in Band
    BY <2>1, PacketBand
  <2>3. NewPriority(b) \in Nat
    BY <2>2 DEF NewPriority, Band, EF
  <2>4. new \in Packet /\ new.f = f /\ new.n = enqueued[f] + 1 /\ new.pr = NewPriority(b)
    BY <2>1, <2>3 DEF Packet
  <2>5. /\ hand' = hand /\ lastOut' = lastOut /\ enqueued' = made
        /\ queue' = queue \/ queue' = [queue EXCEPT ![b] = Append(queue[b], new)]
    BY <1>1, <2>1 DEF priowrr_enqueue
  <2>6. made \in [Flow -> Nat] /\ \A g \in Flow : enqueued[g] <= made[g]
    BY <1>0
  <2>7. made[f] = enqueued[f] + 1
    BY <1>0
  <2> HIDE DEF pkt, b, new
  <2>8. \A c \in Band : Lane(queue[c], c, lastOut, made)
    <3> TAKE c \in Band
    <3>1. ASSUME NEW i \in 1..Len(queue[c]) PROVE queue[c][i].n <= made[queue[c][i].f]
      <4>1. queue[c][i] \in Packet
        BY <1>0
      <4>2. queue[c][i].f \in Flow /\ queue[c][i].n \in Nat
        BY <4>1 DEF Packet
      <4>3. queue[c][i].n <= enqueued[queue[c][i].f]
        BY <1>0 DEF Lane
      <4>4. /\ enqueued[queue[c][i].f] <= made[queue[c][i].f]
            /\ enqueued[queue[c][i].f] \in Nat /\ made[queue[c][i].f] \in Nat
        BY <1>0, <2>6, <4>2
      <4> QED BY <4>2, <4>3, <4>4
    <3> HIDE DEF made
    <3> QED BY <1>0, <3>1 DEF Lane
  <2>9. \A c \in Band : Lane(queue'[c], c, lastOut, made)
    <3>1. CASE queue' = queue
      BY <2>8, <3>1
    <3>2. CASE queue' = [queue EXCEPT ![b] = Append(queue[b], new)]
      <4>1. Lane(Append(queue[b], new), b, lastOut, made)
        BY <1>0, <2>2, <2>4, LaneAppend DEF b
      <4>2. queue'[b] = Append(queue[b], new) /\ \A c \in Band \ {b} : queue'[c] = queue[c]
        BY <1>0, <2>2, <3>2
      <4> HIDE DEF made
      <4> QED BY <2>8, <4>1, <4>2
    <3> QED BY <2>5, <3>1, <3>2
  <2>10. hand # None => Held(hand, queue', lastOut, made)
    <3> SUFFICES ASSUME hand # None PROVE Held(hand, queue', lastOut, made)
      OBVIOUS
    <3>1. hand \in Packet /\ hand.f \in Flow /\ hand.n \in Nat
      BY <1>0 DEF Packet
    <3>2. /\ hand.pr = NewPriority(FlowBand(hand.f))
          /\ lastOut[hand.f] < hand.n /\ hand.n <= enqueued[hand.f]
          /\ Older(hand, queue[FlowBand(hand.f)])
      BY <1>0 DEF Held
    <3>3. hand.n <= made[hand.f]
      <4>1. /\ enqueued[hand.f] <= made[hand.f]
            /\ enqueued[hand.f] \in Nat /\ made[hand.f] \in Nat
        BY <1>0, <2>6, <3>1
      <4> QED BY <3>1, <3>2, <4>1
    <3>4. FlowBand(hand.f) \in Band
      BY <3>1, FlowAssumption, ClassifyBand DEF FlowBand
    <3>5. Older(hand, queue'[FlowBand(hand.f)])
      <4>1. CASE queue'[FlowBand(hand.f)] = queue[FlowBand(hand.f)]
        BY <3>2, <4>1
      <4>2. CASE FlowBand(hand.f) = b /\ queue'[b] = Append(queue[b], new)
        <5>1. /\ Len(Append(queue[b], new)) = Len(queue[b]) + 1 /\ Len(queue[b]) \in Nat
              /\ Append(queue[b], new)[Len(queue[b]) + 1] = new
              /\ \A i \in 1..Len(queue[b]) : Append(queue[b], new)[i] = queue[b][i]
          BY <1>0, <2>2, <2>4
        <5>2. new.f = hand.f => hand.n < new.n
          BY <1>0, <2>4, <3>1, <3>2
        <5> QED BY <3>2, <4>2, <5>1, <5>2 DEF Older
      <4> QED BY <1>0, <2>2, <2>5, <3>4, <4>1, <4>2
    <3> HIDE DEF made
    <3> QED BY <3>2, <3>3, <3>5 DEF Held
  <2>11. \A g \in Flow : lastOut[g] <= made[g]
    <3> TAKE g \in Flow
    <3>1. lastOut[g] \in Nat /\ enqueued[g] \in Nat /\ made[g] \in Nat
      BY <1>0, <2>6
    <3> HIDE DEF made
    <3> QED BY <1>0, <2>6, <3>1
  <2> HIDE DEF made
  <2> QED BY <1>0, <2>5, <2>9, <2>10, <2>11 DEF InOrder
<1>2. CASE priowrr_dequeue
  <2>1. enqueued' = enqueued /\ lastOut' = lastOut /\ hand = None
    BY <1>2 DEF priowrr_dequeue
  <2>2. ASSUME NEW b \in Band, queue[b] # <<>>, Serve(b) PROVE InOrder'
    <3>1. queue' = [queue EXCEPT ![b] = Tail(queue[b])] /\ hand' = Head(queue[b])
      BY <2>2 DEF Serve
    <3>2. /\ Lane(Tail(queue[b]), b, lastOut, enqueued)
          /\ Head(queue[b]).pr = NewPriority(b) /\ FlowBand(Head(queue[b]).f) = b
          /\ lastOut[Head(queue[b]).f] < Head(queue[b]).n
          /\ Head(queue[b]).n <= enqueued[Head(queue[b]).f]
          /\ Older(Head(queue[b]), Tail(queue[b]))
      BY <1>0, <2>2, LaneTail
    <3>3. queue'[b] = Tail(queue[b]) /\ \A c \in Band \ {b} : queue'[c] = queue[c]
      BY <1>0, <3>1
    <3>4. Held(hand', queue', lastOut, enqueued)
      BY <3>1, <3>2, <3>3 DEF Held
    <3>5. \A c \in Band : Lane(queue'[c], c, lastOut, enqueued)
      BY <1>0, <3>2, <3>3
    <3> QED BY <1>0, <2>1, <3>4, <3>5 DEF InOrder
  <2>3. ASSUME NEW b \in EFReady, Serve(b) PROVE InOrder'
    BY <2>2, <2>3 DEF EFReady, EF, Band
  <2>4. ASSUME NEW k \in Hits, Serve(sch_table[Slot(k)]) PROVE InOrder'
    <3>1. k \in 0..9 /\ wted_idx \in 0..9
      BY <2>4 DEF Hits, IInv, Shape, TCQ_MAX_ST
    <3>2. Slot(k) \in 0..(TCQ_MAX_ST - 1)
      BY <3>1 DEF Slot, TCQ_MAX_ST
    <3>3. sch_table[Slot(k)] \in Band /\ queue[sch_table[Slot(k)]] # <<>>
      BY <2>4, <3>2 DEF Hits, IInv, Shape
    <3> QED BY <2>2, <2>4, <3>3
  <2>5. CASE UNCHANGED <<queue, qlen, hand, wted_idx>>
    BY <1>0, <2>1, <2>5 DEF InOrder
  <2> QED BY <1>2, <2>3, <2>4, <2>5 DEF priowrr_dequeue
<1>3. CASE XmitTaken
  <2>1. /\ hand \in Packet /\ hand # None /\ hand' = None
        /\ lastOut' = [lastOut EXCEPT ![hand.f] = hand.n]
        /\ queue' = queue /\ enqueued' = enqueued
    BY <1>0, <1>3 DEF XmitTaken
  <2>2. hand.f \in Flow /\ hand.n \in Nat
    BY <2>1 DEF Packet
  <2>3. lastOut' \in [Flow -> Nat] /\ \A f \in Flow : lastOut'[f] <= enqueued[f]
    BY <1>0, <2>1, <2>2 DEF Held
  <2>4. ASSUME NEW c \in Band, NEW i \in 1..Len(queue[c])
        PROVE  lastOut'[queue[c][i].f] < queue[c][i].n
    <3>1. queue[c][i] \in Packet
      BY <1>0
    <3>2. queue[c][i].f \in Flow
      BY <3>1 DEF Packet
    <3>3. FlowBand(queue[c][i].f) = c /\ lastOut[queue[c][i].f] < queue[c][i].n
      BY <1>0 DEF Lane
    <3>4. CASE queue[c][i].f = hand.f
      BY <1>0, <2>1, <2>2, <3>3, <3>4 DEF Held, Older
    <3>5. CASE queue[c][i].f # hand.f
      BY <1>0, <2>1, <2>2, <3>2, <3>3, <3>5
    <3> QED BY <3>4, <3>5
  <2>5. \A c \in Band : Lane(queue[c], c, lastOut', enqueued)
    BY <1>0, <2>4 DEF Lane
  <2> QED BY <2>1, <2>3, <2>5 DEF InOrder
<1>4. CASE XmitRefused
  <2>1. /\ hand \in Packet /\ hand # None /\ hand' = None
        /\ lastOut' = lastOut /\ enqueued' = enqueued
    BY <1>0, <1>4 DEF XmitRefused
  <2> DEFINE b == FlowBand(hand.f)
  <2>2. BandOf(hand) = b /\ hand.f \in Flow
    BY <1>0, <2>1 DEF Held, BandOf, Stable, Packet
  <2>3. b \in Band
    BY <2>1, <2>2, PacketBand
  <2>4. queue' = queue \/ queue' = [queue EXCEPT ![b] = <<hand>> \o queue[b]]
    BY <1>4, <2>2 DEF XmitRefused, priowrr_requeue
  <2>5. Lane(<<hand>> \o queue[b], b, lastOut, enqueued)
    BY <1>0, <2>1, <2>3, LanePush DEF Held
  <2> HIDE DEF b
  <2>6. \A c \in Band : Lane(queue'[c], c, lastOut, enqueued)
    <3>1. CASE queue' = queue
      BY <1>0, <3>1
    <3>2. CASE queue' = [queue EXCEPT ![b] = <<hand>> \o queue[b]]
      <4>1. /\ queue'[b] = <<hand>> \o queue[b]
            /\ \A c \in Band \ {b} : queue'[c] = queue[c]
        BY <1>0, <2>3, <3>2
      <4> QED BY <1>0, <2>5, <4>1
    <3> QED BY <2>4, <3>1, <3>2
  <2> QED BY <1>0, <2>1, <2>6 DEF InOrder
<1>5. ASSUME NEW b \in Band, NEW s, queue' = [queue EXCEPT ![b] = s],
             Lane(s, b, lastOut, enqueued), \A h : Older(h, queue[b]) => Older(h, s),
             hand' = hand, lastOut' = lastOut, enqueued' = enqueued
      PROVE  InOrder'
  <2>1. queue'[b] = s /\ \A c \in Band \ {b} : queue'[c] = queue[c]
    BY <1>0, <1>5
  <2>2. \A c \in Band : Lane(queue'[c], c, lastOut, enqueued)
    BY <1>0, <1>5, <2>1
  <2>3. hand # None => Held(hand, queue', lastOut, enqueued)
    <3> SUFFICES ASSUME hand # None PROVE Held(hand, queue', lastOut, enqueued)
      OBVIOUS
    <3>1. FlowBand(hand.f) \in Band
      BY <1>0, FlowAssumption, ClassifyBand DEF FlowBand, Packet
    <3>2. Older(hand, queue'[FlowBand(hand.f)])
      BY <1>0, <1>5, <2>1, <3>1 DEF Held
    <3> QED BY <1>0, <3>2 DEF Held
  <2> QED BY <1>0, <1>5, <2>2, <2>3 DEF InOrder
<1>6. CASE priowrr_drop
  <2>1. hand' = hand /\ lastOut' = lastOut /\ enqueued' = enqueued
    BY <1>6 DEF priowrr_drop
  <2>2. PICK b \in Band :
          /\ queue[b] # <<>>
          /\ queue' = [queue EXCEPT ![b] = SubSeq(queue[b], 1, Len(queue[b]) - 1)]
    BY <1>6 DEF priowrr_drop
  <2>3. /\ Lane(SubSeq(queue[b], 1, Len(queue[b]) - 1), b, lastOut, enqueued)
        /\ \A h : Older(h, queue[b]) => Older(h, SubSeq(queue[b], 1, Len(queue[b]) - 1))
    BY <1>0, <2>2, LaneFront
  <2> QED BY <1>5, <2>1, <2>2, <2>3
<1>7. CASE priowrr_reset
  <2>1. /\ hand' = hand /\ lastOut' = lastOut /\ enqueued' = enqueued
        /\ \A c \in Band : queue'[c] = <<>>
    BY <1>7 DEF priowrr_reset
  <2>2. \A c \in Band : Lane(queue'[c], c, lastOut, enqueued)
    BY <2>1 DEF Lane
  <2>3. hand # None => FlowBand(hand.f) \in Band
    BY <1>0, FlowAssumption, ClassifyBand DEF FlowBand, Packet
  <2>4. hand # None => Held(hand, queue', lastOut, enqueued)
    BY <1>0, <2>1, <2>3 DEF Held, Older
  <2> QED BY <1>0, <2>1, <2>2, <2>4 DEF InOrder
<1>8. ASSUME NEW b \in Band, priowrr_graft(b) PROVE InOrder'
  <2>1. /\ hand' = hand /\ lastOut' = lastOut /\ enqueued' = enqueued
        /\ queue' = [queue EXCEPT ![b] = <<>>]
    BY <1>8 DEF priowrr_graft
  <2>2. Lane(<<>>, b, lastOut, enqueued) /\ \A h : Older(h, <<>>)
    BY DEF Lane, Older
  <2> QED BY <1>5, <2>1, <2>2
<1>9. CASE \/ \E o \in Options : TuneMaps(o)
           \/ Tune
           \/ UNCHANGED vars
  <2>1. UNCHANGED <<queue, hand, enqueued, lastOut>>
    BY <1>9 DEF TuneMaps, Tune, TuneClear, TuneSlot, TuneLimit, vars
  <2> QED BY <1>0, <2>1 DEF InOrder
<1> QED BY <1>1, <1>2, <1>3, <1>4, <1>6, <1>7, <1>8, <1>9 DEF Next

(* A packet that goes out is newer than the last one of its flow.           *)
LEMMA StepOrder ==
  ASSUME IInv, InOrder, [Next]_vars
  PROVE  \A f \in Flow : lastOut'[f] >= lastOut[f]
<1> TAKE f \in Flow
<1>0. lastOut[f] \in Nat
  BY DEF InOrder
<1>1. CASE XmitTaken
  <2>1. hand \in Packet /\ hand # None /\ lastOut' = [lastOut EXCEPT ![hand.f] = hand.n]
    BY <1>1 DEF XmitTaken, IInv, Shape
  <2>2. hand.n \in Nat /\ lastOut[hand.f] < hand.n
    BY <2>1 DEF Packet, InOrder, Held
  <2> QED BY <1>0, <2>1, <2>2 DEF InOrder
<1>2. CASE ~XmitTaken
  <2>1. lastOut' = lastOut
    BY <1>2 DEF Next, priowrr_enqueue, priowrr_dequeue, XmitRefused, priowrr_drop,
                priowrr_reset, priowrr_graft, TuneMaps, Tune, TuneClear, TuneSlot, TuneLimit,
                vars
  <2> QED BY <1>0, <2>1
<1> QED BY <1>1, <1>2

(* A best effort packet is served when the expedited bands are empty, and   *)
(* those have all the packets of the expedited flows.                       *)
LEMMA StepPriority ==
  ASSUME IInv, InOrder, [Next]_vars, hand = None, hand' # None, ~Expedited(hand'.f)
  PROVE  \A p \in Waiting : ~Expedited(p.f)
<1>1. priowrr_dequeue
  BY DEF Next, priowrr_enqueue, XmitTaken, XmitRefused, priowrr_drop, priowrr_reset,
         priowrr_graft, TuneMaps, Tune, TuneClear, TuneSlot, TuneLimit, vars
<1>2. \A b \in Band : \A i \in 1..Len(queue[b]) : FlowBand(queue[b][i].f) = b
  BY DEF InOrder, Lane
<1>3. \A b \in Band : queue[b] \in Seq(Packet)
  BY DEF IInv, Shape
<1>4. ASSUME NEW b \in EFReady, Serve(b) PROVE FALSE
  <2>1. b \in Band /\ b \in EF /\ queue[b] # <<>> /\ hand' = Head(queue[b])
    BY <1>4 DEF EFReady, EF, Band, Serve
  <2>2. Head(queue[b]) = queue[b][1] /\ 1 \in 1..Len(queue[b])
    BY <1>3, <2>1
  <2>3. FlowBand(hand'.f) = b
    BY <1>2, <2>1, <2>2
  <2> QED BY <2>1, <2>3 DEF Expedited, FlowBand
<1>5. EFReady = {}
  BY <1>1, <1>4 DEF priowrr_dequeue
<1>6. ASSUME NEW p \in Waiting PROVE ~Expedited(p.f)
  <2>1. PICK b \in Band : \E i \in DOMAIN queue[b] : p = queue[b][i]
    BY DEF Waiting
  <2>2. PICK i \in 1..Len(queue[b]) : p = queue[b][i]
    BY <1>3, <2>1
  <2>3. queue[b] # <<>>
    BY <2>2
  <2>4. b \notin EF
    BY <1>5, <2>3 DEF EFReady
  <2> QED BY <1>2, <2>2, <2>4 DEF Expedited, FlowBand
<1> QED BY <1>6

(* The order of every behaviour.                                            *)
LEMMA OrderInv == ASSUME Stable PROVE Spec => [](IInv /\ InOrder)
<1>1. IInv /\ InOrder /\ [Next]_vars => InOrder'
  BY NextOrder
<1> QED BY InitInv, NextInv, InitOrder, <1>1, PTL DEF Spec

(* Packets of a flow leave in the order they came, through every pattern of *)
(* refusals, drops, resets, grafts and retunings, for any number of flows   *)
(* whose band a requeued packet keeps.                                      *)
THEOREM FlowsKeepOrder == ASSUME Stable PROVE Spec => FlowOrder
<1>1. IInv /\ InOrder /\ [Next]_vars => [\A f \in Flow : lastOut'[f] >= lastOut[f]]_vars
  BY StepOrder
<1> QED BY OrderInv, <1>1, PTL DEF Spec, FlowOrder

(* For such flows no best effort packet is handed to the driver while one   *)
(* of an expedited flow waits.                                              *)
THEOREM ExpeditedFirst == ASSUME Stable PROVE Spec => StrictPriority
<1>1. IInv /\ InOrder /\ [Next]_vars
        => [hand = None /\ hand' # None /\ ~Expedited(hand'.f)
              => \A p \in Waiting : ~Expedited(p.f)]_vars
  BY StepPriority
<1> QED BY OrderInv, <1>1, PTL DEF Spec, StrictPriority

----------------------------------------------------------------------------
(* Tuning.                                                                  *)

In(i, S) == IF i \in S THEN 1 ELSE 0

(* One slot more counts if it is in the set.                                *)
LEMMA CountSlot ==
  ASSUME NEW S \in SUBSET (0..9), NEW k \in 0..9
  PROVE  /\ Cardinality(S \cap (0..k)) = Cardinality(S \cap (0..(k - 1))) + In(k, S)
         /\ Cardinality(S \cap (0..(k - 1))) \in Nat
<1> DEFINE T == S \cap (0..(k - 1))
<1>1. IsFiniteSet(0..(k - 1))
  BY FS_Interval
<1>2. IsFiniteSet(T)
  BY <1>1, FS_Subset
<1>3. Cardinality(T) \in Nat
  BY <1>2, FS_CardinalityType
<1>4. k \notin T
  OBVIOUS
<1>5. CASE k \in S
  <2>1. S \cap (0..k) = T \cup {k}
    BY <1>5
  <2>2. Cardinality(T \cup {k}) = Cardinality(T) + 1
    BY <1>2, <1>4, FS_AddElement
  <2> QED BY <1>3, <1>5, <2>1, <2>2 DEF In
<1>6. CASE k \notin S
  <2>1. S \cap (0..k) = T
    BY <1>6
  <2> QED BY <1>3, <1>6, <2>1 DEF In
<1> QED BY <1>3, <1>5, <1>6

(* The size of a set of slots.                                              *)
LEMMA CountSlots ==
  ASSUME NEW S \in SUBSET (0..9)
  PROVE  Cardinality(S) = In(0, S) + In(1, S) + In(2, S) + In(3, S) + In(4, S)
                            + In(5, S) + In(6, S) + In(7, S) + In(8, S) + In(9, S)
<1> DEFINE c(k) == Cardinality(S \cap (0..k))
<1>1. \A k \in 0..9 : c(k) = c(k - 1) + In(k, S) /\ c(k - 1) \in Nat
  BY CountSlot
<1>2. S \cap (0..(-1)) = {} /\ S \cap (0..9) = S
  <2>1. 0..(-1) = {}
    OBVIOUS
  <2> QED BY <2>1, Zenon
<1>3. c(-1) = 0 /\ c(9) = Cardinality(S)
  BY <1>2, FS_EmptySet
<1>4. \A k \in 0..9 : In(k, S) \in Nat
  BY DEF In
<1> HIDE DEF c
<1>5. c(0) = c(0 - 1) + In(0, S) /\ c(1) = c(1 - 1) + In(1, S) /\ c(2) = c(2 - 1) + In(2, S)
      /\ c(3) = c(3 - 1) + In(3, S) /\ c(4) = c(4 - 1) + In(4, S) /\ c(5) = c(5 - 1) + In(5, S)
      /\ c(6) = c(6 - 1) + In(6, S) /\ c(7) = c(7 - 1) + In(7, S) /\ c(8) = c(8 - 1) + In(8, S)
      /\ c(9) = c(9 - 1) + In(9, S)
  BY <1>1
<1>6. /\ 0 - 1 = -1 /\ 1 - 1 = 0 /\ 2 - 1 = 1 /\ 3 - 1 = 2 /\ 4 - 1 = 3 /\ 5 - 1 = 4
      /\ 6 - 1 = 5 /\ 7 - 1 = 6 /\ 8 - 1 = 7 /\ 9 - 1 = 8
  OBVIOUS
<1>7. /\ In(0, S) \in Nat /\ In(1, S) \in Nat /\ In(2, S) \in Nat /\ In(3, S) \in Nat
      /\ In(4, S) \in Nat /\ In(5, S) \in Nat /\ In(6, S) \in Nat /\ In(7, S) \in Nat
      /\ In(8, S) \in Nat /\ In(9, S) \in Nat
  BY <1>4
<1> QED BY <1>3, <1>5, <1>6, <1>7

(* sch_default_pattern[] gives BEQ1 as many slots as its weight says, and   *)
(* BEQ2 the others.                                                         *)
LEMMA PatternWeighs ==
  ASSUME NEW w \in 0..10
  PROVE  /\ Cardinality({i \in 0..9 : i \notin Pattern[w]}) = w
         /\ Cardinality({i \in 0..9 : i \in Pattern[w]}) = 10 - w
<1> DEFINE A == {i \in 0..9 : i \notin Pattern[w]}
           B == {i \in 0..9 : i \in Pattern[w]}
<1>1. A \in SUBSET (0..9) /\ B \in SUBSET (0..9)
  OBVIOUS
<1>2. \A i \in 0..9 : In(i, A) = (IF i \in Pattern[w] THEN 0 ELSE 1) /\ In(i, B) = 1 - In(i, A)
  BY DEF In
<1>3. /\ Cardinality(A) = In(0, A) + In(1, A) + In(2, A) + In(3, A) + In(4, A)
                            + In(5, A) + In(6, A) + In(7, A) + In(8, A) + In(9, A)
      /\ Cardinality(B) = In(0, B) + In(1, B) + In(2, B) + In(3, B) + In(4, B)
                            + In(5, B) + In(6, B) + In(7, B) + In(8, B) + In(9, B)
  BY <1>1, CountSlots
<1> HIDE DEF A, B
<1>4. Cardinality(A) = w /\ Cardinality(B) = 10 - w
  <2>0. w = 0 \/ w = 1 \/ w = 2 \/ w = 3 \/ w = 4 \/ w = 5 \/ w = 6 \/ w = 7 \/ w = 8
          \/ w = 9 \/ w = 10
    OBVIOUS
  <2>1. CASE w = 0 BY <1>2, <1>3, <2>1 DEF Pattern
  <2>2. CASE w = 1 BY <1>2, <1>3, <2>2 DEF Pattern
  <2>3. CASE w = 2 BY <1>2, <1>3, <2>3 DEF Pattern
  <2>4. CASE w = 3 BY <1>2, <1>3, <2>4 DEF Pattern
  <2>5. CASE w = 4 BY <1>2, <1>3, <2>5 DEF Pattern
  <2>6. CASE w = 5 BY <1>2, <1>3, <2>6 DEF Pattern
  <2>7. CASE w = 6 BY <1>2, <1>3, <2>7 DEF Pattern
  <2>8. CASE w = 7 BY <1>2, <1>3, <2>8 DEF Pattern
  <2>9. CASE w = 8 BY <1>2, <1>3, <2>9 DEF Pattern
  <2>10. CASE w = 9 BY <1>2, <1>3, <2>10 DEF Pattern
  <2>11. CASE w = 10 BY <1>2, <1>3, <2>11 DEF Pattern
  <2> QED BY <2>0, <2>1, <2>2, <2>3, <2>4, <2>5, <2>6, <2>7, <2>8, <2>9, <2>10, <2>11
<1> QED BY <1>4 DEF A, B

(* The first n slots have been filled by the pattern of the weights.        *)
Filled(n) == \A j \in 0..(n - 1) : sch_table[j] = SlotBand(j)

(* Where priowrr_tune() is, and how far the table has been filled.          *)
TableInv ==
  /\ weight2band \in [Band -> 0..255]
  /\ sch_table \in [0..9 -> Band]
  /\ tune = Idle /\ Fits => Filled(10)
  /\ \A i \in 0..9 : tune = <<"slot", i>> => Fits /\ Filled(i)
  /\ \A b \in Band : tune = <<"band", b>> => Fits /\ Filled(10)

(* A table that is filled has the slots in proportion.                      *)
LEMMA FilledInProportion ==
  ASSUME weight2band \in [Band -> 0..255], sch_table \in [0..9 -> Band], Fits, Filled(10)
  PROVE  /\ Cardinality({i \in DOMAIN sch_table : sch_table[i] = BEQ1}) = wt_afq
         /\ Cardinality({i \in DOMAIN sch_table : sch_table[i] = BEQ2}) = TCQ_MAX_ST - wt_afq
<1>1. weight2band[BEQ1] \in 0..255 /\ weight2band[BEQ2] \in 0..255
  BY DEF Band, BEQ1, BEQ2
<1>2. wt_afq \in Nat /\ wt_bfq \in Nat
  BY <1>1 DEF wt_afq, wt_bfq
<1>3. wt_afq \in 0..10
  BY <1>2 DEF Fits, TCQ_MAX_ST
<1>4. \A i \in 0..9 : sch_table[i] = IF i \in Pattern[wt_afq] THEN BEQ2 ELSE BEQ1
  BY DEF Filled, SlotBand
<1>5. BEQ1 # BEQ2
  BY DEF BEQ1, BEQ2
<1>6. DOMAIN sch_table = 0..9
  OBVIOUS
<1>7. /\ {i \in DOMAIN sch_table : sch_table[i] = BEQ1} = {i \in 0..9 : i \notin Pattern[wt_afq]}
      /\ {i \in DOMAIN sch_table : sch_table[i] = BEQ2} = {i \in 0..9 : i \in Pattern[wt_afq]}
  BY <1>4, <1>5, <1>6
<1> QED BY <1>3, <1>7, PatternWeighs DEF TCQ_MAX_ST

(* What is left of t after three queues, in eight bits.                     *)
Rest(t, a, b, c) == (t - (a + b) - c) % 256

(* It is no less than what is left.                                         *)
LEMMA RestIsEnough ==
  \A t, a, b, c \in 0..255 :
    Rest(t, a, b, c) \in 0..255 /\ a + b + c + Rest(t, a, b, c) >= t
<1> TAKE t, a, b, c \in 0..255
<1>1. CASE t - (a + b) - c >= 0
  BY <1>1 DEF Rest
<1>2. CASE t - (a + b) - c < 0
  BY <1>2 DEF Rest
<1> QED BY <1>1, <1>2

(* The lengths that priowrr_tune() computes are eight bits each.            *)
LEMMA LengthsType ==
  ASSUME NEW o \in Options, NEW w \in [Band -> 0..255], NEW q \in [Band -> 0..255]
  PROVE  Lengths(o, w, q) \in [Band -> 0..255]
<1> DEFINE l == IF o.q[0] = 0 \/ o.q[1] = 0 THEN q ELSE o.q
           left == tx_queue_len - (l[0] + l[1])
           part == ((left * Weights(o, w)[BEQ1]) \div 100) % 256
           be1 == IF l[BEQ1] = 0 THEN part ELSE l[BEQ1]
           be2 == IF l[BEQ2] = 0 THEN (left - be1) % 256 ELSE l[BEQ2]
<1>1. o.w \in [Band -> 0..255] /\ o.q \in [Band -> 0..255]
  BY OptionsAssumption
<1>2. l \in [Band -> 0..255]
  BY <1>1
<1>3. Weights(o, w) \in [Band -> 0..255]
  BY <1>1 DEF Weights
<1>4. 0 \in Band /\ 1 \in Band /\ BEQ1 \in Band /\ BEQ2 \in Band
  BY DEF Band, BEQ1, BEQ2
<1>5. Lengths(o, w, q) = [l EXCEPT ![BEQ1] = be1, ![BEQ2] = be2]
  <2>1. l[BEQ2] = [l EXCEPT ![BEQ1] = be1][BEQ2]
    BY <1>2 DEF BEQ1, BEQ2, Band
  <2> QED BY <2>1 DEF Lengths
<1> HIDE DEF l
<1>6. \A b \in Band : l[b] \in 0..255
  BY <1>2
<1>7. l[0] \in 0..255 /\ l[1] \in 0..255 /\ l[BEQ1] \in 0..255 /\ l[BEQ2] \in 0..255
  BY <1>4, <1>6, Zenon
<1>8. left \in Int
  <2>1. PICK a \in 0..255, b \in 0..255 : a = l[0] /\ b = l[1]
    BY <1>7
  <2>2. left = tx_queue_len - (a + b)
    BY <2>1
  <2> HIDE DEF left
  <2> QED BY <2>2, QueueAssumption
<1>9. Weights(o, w)[BEQ1] \in Int
  BY <1>3, <1>4
<1> HIDE DEF left
<1>10. part \in 0..255
  <2>1. (left * Weights(o, w)[BEQ1]) \div 100 \in Int
    BY <1>8, <1>9
  <2> QED BY <2>1
<1> HIDE DEF part
<1>11. be1 \in 0..255
  BY <1>7, <1>10
<1> HIDE DEF be1
<1>12. be2 \in 0..255
  BY <1>7, <1>8, <1>11
<1> HIDE DEF be2
<1> QED BY <1>2, <1>5, <1>11, <1>12, ZenonT(60)

(* A request that gives the lengths of the expedited queues and leaves that *)
(* of the last queue open.                                                  *)
LeavesOpen(o) == o.q[0] # 0 /\ o.q[1] # 0 /\ o.q[BEQ2] = 0

(* Such a request shares out the whole pool, if priowrr_tune() accepts it   *)
(* and eight bits can count the pool: what the other three queues leave     *)
(* wraps round only where it makes the sum too large.                       *)
THEOREM OpenLengthUsesPool ==
  ASSUME tx_queue_len <= 255,
         NEW o \in Options, NEW w \in [Band -> 0..255], NEW q \in [Band -> 0..255],
         Accepted(o, w, q), LeavesOpen(o)
  PROVE  Total(Lengths(o, w, q)) = tx_queue_len
<1> DEFINE L == Lengths(o, w, q)
<1>1. o.q \in [Band -> 0..255]
  BY OptionsAssumption
<1>2. L \in [Band -> 0..255]
  BY LengthsType
<1>3. 0 \in Band /\ 1 \in Band /\ BEQ1 \in Band /\ BEQ2 \in Band
  BY DEF Band, BEQ1, BEQ2
<1>4. L[0] = o.q[0] /\ L[1] = o.q[1]
      /\ L[BEQ2] = (tx_queue_len - (o.q[0] + o.q[1]) - L[BEQ1]) % 256
  <2> DEFINE left == tx_queue_len - (o.q[0] + o.q[1])
             be1 == IF o.q[BEQ1] = 0 THEN ((left * Weights(o, w)[BEQ1]) \div 100) % 256
                    ELSE o.q[BEQ1]
             be2 == (left - be1) % 256
  <2>1. L = [o.q EXCEPT ![BEQ1] = be1, ![BEQ2] = be2]
    <3>1. [o.q EXCEPT ![BEQ1] = be1][BEQ2] = 0
      BY <1>1 DEF LeavesOpen, BEQ1, BEQ2, Band
    <3> QED BY <3>1 DEF LeavesOpen, Lengths
  <2> HIDE DEF be1, left, L
  <2>2. L[0] = o.q[0] /\ L[1] = o.q[1] /\ L[BEQ1] = be1 /\ L[BEQ2] = (left - be1) % 256
    BY <1>1, <1>3, <2>1 DEF BEQ1, BEQ2
  <2> QED BY <2>2 DEF left
<1> HIDE DEF L
<1>5. \A b \in Band : L[b] \in 0..255
  BY <1>2
<1>6. L[0] \in 0..255 /\ L[1] \in 0..255 /\ L[BEQ1] \in 0..255 /\ L[BEQ2] \in 0..255
  BY <1>3, <1>5, Zenon
<1>7. tx_queue_len \in 0..255
  BY QueueAssumption
<1>8. PICK a \in 0..255, b \in 0..255, c \in 0..255, t \in 0..255 :
        a = L[0] /\ b = L[1] /\ c = L[BEQ1] /\ t = tx_queue_len
  BY <1>6, <1>7, ZenonT(60)
<1>9. L[BEQ2] = Rest(t, a, b, c)
  BY <1>4, <1>8, ZenonT(60) DEF Rest
<1>10. Rest(t, a, b, c) \in 0..255 /\ a + b + c + Rest(t, a, b, c) >= t
  BY RestIsEnough
<1>11. Total(L) = a + b + c + Rest(t, a, b, c)
  BY <1>8, <1>9 DEF Total, BEQ1, BEQ2
<1>12. Total(L) <= tx_queue_len
  BY DEF Accepted, L
<1>13. PICK d \in 0..255 : d = Rest(t, a, b, c) /\ a + b + c + d >= t
  BY <1>10
<1>14. a + b + c + d <= t
  <2>1. Total(L) = a + b + c + d
    BY <1>11, <1>13
  <2> QED BY <1>8, <1>12, <2>1
<1>15. a + b + c + d = t
  BY <1>13, <1>14
<1>16. Total(L) = tx_queue_len
  BY <1>8, <1>11, <1>13, <1>15, Zenon
<1> QED BY <1>16 DEF L

----------------------------------------------------------------------------
(* The limits: those below the band that priowrr_tune() has come to are the *)
(* stored ones, and until it comes there the old ones fit the pool.         *)
LimitInv ==
  /\ limit \in [Band -> Nat] /\ qlen2band \in [Band -> 0..255] /\ grafts \in Nat
  /\ Total(qlen2band) <= tx_queue_len
  /\ \A b \in Band : tune = <<"band", b>> =>
                       \A c \in Band : c < b => limit[c] = qlen2band[c]
  /\ grafts = 0 =>
       /\ tune = Idle /\ Fits => limit = qlen2band
       /\ tune = Idle \/ tune = <<"check", 0>> => Total(limit) <= tx_queue_len

Tuned == TableInv /\ LimitInv

(* priowrr_init() fills the table and makes the queues before the scheduler *)
(* is used.                                                                 *)
LEMMA InitTuned == ASSUME Init PROVE Tuned
<1> DEFINE z == [b \in Band |-> 0]
<1>1. z \in [Band -> 0..255]
  OBVIOUS
<1>2. PICK o \in Options : /\ Accepted(o, z, z)
                           /\ weight2band = Weights(o, z) /\ qlen2band = Lengths(o, z, z)
  BY DEF Init
<1>3. weight2band \in [Band -> 0..255]
  BY <1>1, <1>2, OptionsAssumption DEF Weights
<1>4. qlen2band \in [Band -> 0..255] /\ Total(qlen2band) <= tx_queue_len
  BY <1>1, <1>2, LengthsType DEF Accepted
<1>5. sch_table = [i \in 0..9 |-> SlotBand(i)] /\ tune = Idle
  BY DEF Init, TCQ_MAX_ST
<1>6. \A i : SlotBand(i) \in Band
  BY DEF SlotBand, BEQ1, BEQ2, Band
<1>7. sch_table \in [0..9 -> Band] /\ Filled(10)
  BY <1>5, <1>6 DEF Filled
<1>8. TableInv
  BY <1>3, <1>5, <1>7 DEF TableInv, Idle
<1>9. limit = qlen2band /\ grafts = 0
  BY DEF Init
<1>10. limit \in [Band -> Nat]
  BY <1>4, <1>9
<1>11. LimitInv
  BY <1>4, <1>5, <1>9, <1>10 DEF LimitInv, Idle
<1> QED BY <1>8, <1>11 DEF Tuned

(* Every step of a retuning, and every other step, keeps the table as far   *)
(* as priowrr_tune() has filled it.                                         *)
LEMMA NextTable == ASSUME TableInv, [Next]_vars PROVE TableInv'
<1>0. weight2band \in [Band -> 0..255] /\ sch_table \in [0..9 -> Band]
  BY DEF TableInv
<1>1. ASSUME NEW o \in Options, TuneMaps(o) PROVE TableInv'
  <2>1. /\ weight2band' = Weights(o, weight2band)
        /\ tune' = <<"check", 0>> /\ sch_table' = sch_table
    BY <1>1 DEF TuneMaps
  <2>2. weight2band' \in [Band -> 0..255]
    BY <1>0, <2>1, OptionsAssumption DEF Weights
  <2>4. /\ tune' # Idle /\ \A i \in 0..9 : tune' # <<"slot", i>>
        /\ \A b \in Band : tune' # <<"band", b>>
    BY <2>1 DEF Idle
  <2> QED BY <1>0, <2>1, <2>2, <2>4 DEF TableInv
<1>2. CASE TuneClear
  <2>1. weight2band' = weight2band
    BY <1>2 DEF TuneClear
  <2>2. CASE tune' = Idle /\ ~Fits /\ sch_table' = sch_table
    <3>1. ~Fits'
      BY <2>1, <2>2 DEF Fits, wt_afq, wt_bfq
    <3>2. \A i : tune' # <<"slot", i>> /\ tune' # <<"band", i>>
      BY <2>2 DEF Idle
    <3> QED BY <1>0, <2>1, <2>2, <3>1, <3>2 DEF TableInv
  <2>3. CASE tune' = <<"slot", 0>> /\ Fits /\ sch_table' = [i \in 0..(TCQ_MAX_ST - 1) |-> 0]
    <3>1. Fits'
      BY <2>1, <2>3 DEF Fits, wt_afq, wt_bfq
    <3>2. sch_table' \in [0..9 -> Band]
      BY <2>3 DEF TCQ_MAX_ST, Band
    <3>3. tune' # Idle /\ \A i : tune' # <<"band", i>> /\ (tune' = <<"slot", i>> => i = 0)
      BY <2>3 DEF Idle
    <3>4. Filled(0)'
      BY DEF Filled
    <3> QED BY <1>0, <2>1, <3>1, <3>2, <3>3, <3>4 DEF TableInv
  <2> QED BY <1>2, <2>2, <2>3 DEF TuneClear
<1>3. CASE TuneSlot
  <2>1. PICK i \in 0..9 : /\ tune = <<"slot", i>>
                          /\ sch_table' = [sch_table EXCEPT ![i] = SlotBand(i)]
                          /\ tune' = IF i < 9 THEN <<"slot", i + 1>> ELSE <<"band", 0>>
    <3>1. TCQ_MAX_ST - 1 = 9
      BY DEF TCQ_MAX_ST
    <3>2. PICK i \in 0..(TCQ_MAX_ST - 1) :
            /\ tune = <<"slot", i>>
            /\ sch_table' = [sch_table EXCEPT ![i] = SlotBand(i)]
            /\ tune' = IF i < TCQ_MAX_ST - 1 THEN <<"slot", i + 1>> ELSE <<"band", 0>>
      BY <1>3 DEF TuneSlot
    <3> QED BY <3>1, <3>2
  <2>2. weight2band' = weight2band
    BY <1>3 DEF TuneSlot
  <2>3. Fits /\ Filled(i)
    BY <2>1 DEF TableInv
  <2>4. Fits' /\ \A j : SlotBand(j)' = SlotBand(j)
    BY <2>2, <2>3 DEF Fits, wt_afq, wt_bfq, SlotBand
  <2>5. sch_table' \in [0..9 -> Band]
    BY <1>0, <2>1 DEF SlotBand, BEQ1, BEQ2, Band
  <2>6. \A j \in 0..i : sch_table'[j] = SlotBand(j)
    BY <1>0, <2>1, <2>3 DEF Filled
  <2>7. Filled(i + 1)'
    BY <2>4, <2>6 DEF Filled
  <2>8. CASE i < 9
    <3>1. tune' # Idle /\ \A j : tune' # <<"band", j>> /\ (tune' = <<"slot", j>> => j = i + 1)
      BY <2>1, <2>8 DEF Idle
    <3> QED BY <1>0, <2>2, <2>4, <2>5, <2>7, <3>1 DEF TableInv
  <2>9. CASE i = 9
    <3>1. tune' # Idle /\ \A j : tune' # <<"slot", j>>
      BY <2>1, <2>9 DEF Idle
    <3>2. Filled(10)'
      BY <2>7, <2>9
    <3> QED BY <1>0, <2>2, <2>4, <2>5, <3>1, <3>2 DEF TableInv
  <2> QED BY <2>8, <2>9
<1>4. CASE TuneLimit
  <2>1. PICK b \in Band : /\ tune = <<"band", b>>
                          /\ tune' = IF b < 3 THEN <<"band", b + 1>> ELSE Idle
    BY <1>4 DEF TuneLimit
  <2>2. UNCHANGED <<weight2band, sch_table>>
    BY <1>4 DEF TuneLimit
  <2>3. Fits /\ Filled(10)
    BY <2>1 DEF TableInv
  <2>4. Fits' /\ Filled(10)'
    BY <2>2, <2>3 DEF Fits, wt_afq, wt_bfq, SlotBand, Filled
  <2>5. \A j : tune' # <<"slot", j>>
    BY <2>1 DEF Idle
  <2> QED BY <1>0, <2>2, <2>4, <2>5 DEF TableInv
<1>5. ASSUME UNCHANGED <<weight2band, sch_table, tune>> PROVE TableInv'
  <2>1. Fits' = Fits /\ \A n : Filled(n)' <=> Filled(n)
    BY <1>5 DEF Fits, wt_afq, wt_bfq, SlotBand, Filled
  <2> QED BY <1>0, <1>5, <2>1 DEF TableInv
<1>6. CASE \/ \E f \in Flow : priowrr_enqueue(f)
           \/ priowrr_dequeue \/ XmitTaken \/ XmitRefused
           \/ priowrr_drop \/ priowrr_reset
           \/ \E b \in Band : priowrr_graft(b)
           \/ UNCHANGED vars
  BY <1>5, <1>6 DEF priowrr_enqueue, priowrr_dequeue, XmitTaken, XmitRefused, priowrr_drop,
                    priowrr_reset, priowrr_graft, cfgVars, vars
<1> QED BY <1>1, <1>2, <1>3, <1>4, <1>6 DEF Next, Tune

(* Two maps of the bands with the same entries are the same map.            *)
LEMMA SameMap ==
  ASSUME NEW m \in [Band -> Nat], NEW n \in [Band -> 0..255],
         \A c \in Band : m[c] = n[c]
  PROVE  m = n
  OBVIOUS

(* Every step of a retuning, and every other step, keeps the limits as far  *)
(* as priowrr_tune() has set them.                                          *)
LEMMA NextLimit == ASSUME TableInv, LimitInv, [Next]_vars PROVE LimitInv'
<1>0. /\ limit \in [Band -> Nat] /\ qlen2band \in [Band -> 0..255] /\ grafts \in Nat
      /\ Total(qlen2band) <= tx_queue_len /\ weight2band \in [Band -> 0..255]
  BY DEF LimitInv, TableInv
<1>1. ASSUME NEW o \in Options, TuneMaps(o) PROVE LimitInv'
  <2>1. /\ Accepted(o, weight2band, qlen2band) /\ tune = Idle
        /\ qlen2band' = Lengths(o, weight2band, qlen2band)
        /\ tune' = <<"check", 0>> /\ limit' = limit /\ grafts' = grafts
    BY <1>1 DEF TuneMaps
  <2>2. qlen2band' \in [Band -> 0..255] /\ Total(qlen2band') <= tx_queue_len
    BY <1>0, <2>1, LengthsType DEF Accepted
  <2>3. tune' # Idle /\ \A b \in Band : tune' # <<"band", b>>
    BY <2>1 DEF Idle
  <2>4. grafts' = 0 => Total(limit') <= tx_queue_len
    BY <2>1 DEF LimitInv
  <2>5. Total(qlen2band)' = Total(qlen2band') /\ Total(limit)' = Total(limit')
    BY DEF Total
  <2> QED BY <1>0, <2>1, <2>2, <2>3, <2>4, <2>5 DEF LimitInv
<1>2. CASE TuneClear
  <2>1. UNCHANGED <<weight2band, qlen2band, limit, grafts>> /\ tune = <<"check", 0>>
    BY <1>2 DEF TuneClear
  <2>2. Fits' = Fits /\ Total(qlen2band)' = Total(qlen2band) /\ Total(limit)' = Total(limit)
    BY <2>1 DEF Fits, wt_afq, wt_bfq, Total
  <2>3. (tune' = Idle /\ ~Fits) \/ tune' = <<"slot", 0>>
    BY <1>2 DEF TuneClear
  <2>4. \A b : tune' # <<"band", b>>
    BY <2>3 DEF Idle
  <2>5. tune' # <<"check", 0>> /\ (tune' = Idle => ~Fits)
    BY <2>3 DEF Idle
  <2>6. grafts = 0 => Total(limit) <= tx_queue_len
    BY <2>1 DEF LimitInv
  <2> QED BY <1>0, <2>1, <2>2, <2>4, <2>5, <2>6 DEF LimitInv
<1>3. CASE TuneSlot
  <2>1. UNCHANGED <<weight2band, qlen2band, limit, grafts>>
    BY <1>3 DEF TuneSlot
  <2>2. \E i : tune' = <<"slot", i>> \/ tune' = <<"band", 0>>
    BY <1>3 DEF TuneSlot
  <2>3. tune' # Idle /\ tune' # <<"check", 0>> /\ \A b : tune' = <<"band", b>> => b = 0
    BY <2>2 DEF Idle
  <2>4. Total(qlen2band)' = Total(qlen2band)
    BY <2>1 DEF Total
  <2>5. \A c \in Band : ~(c < 0)
    BY DEF Band
  <2> QED BY <1>0, <2>1, <2>3, <2>4, <2>5 DEF LimitInv
<1>4. CASE TuneLimit
  <2>1. PICK b \in Band : /\ tune = <<"band", b>>
                          /\ limit' = [limit EXCEPT ![b] = qlen2band[b]]
                          /\ tune' = IF b < 3 THEN <<"band", b + 1>> ELSE Idle
    BY <1>4 DEF TuneLimit
  <2>2. qlen2band' = qlen2band /\ grafts' = grafts
    BY <1>4 DEF TuneLimit
  <2>3. qlen2band[b] \in Nat
    BY <1>0
  <2>4. limit' \in [Band -> Nat]
    BY <1>0, <2>1, <2>3
  <2>5. \A c \in Band : c <= b => limit'[c] = qlen2band[c]
    <3>1. \A c \in Band : c < b => limit[c] = qlen2band[c]
      BY <2>1 DEF LimitInv
    <3> QED BY <1>0, <2>1, <3>1 DEF Band
  <2>6. Total(qlen2band)' = Total(qlen2band)
    BY <2>2 DEF Total
  <2>7. CASE b < 3
    <3>1. /\ tune' # Idle /\ tune' # <<"check", 0>>
          /\ \A c : tune' = <<"band", c>> => c = b + 1
      BY <2>1, <2>7 DEF Idle
    <3>2. \A c \in Band : c < b + 1 => limit'[c] = qlen2band'[c]
      BY <2>2, <2>5 DEF Band
    <3> QED BY <1>0, <2>2, <2>4, <2>6, <3>1, <3>2 DEF LimitInv
  <2>8. CASE ~(b < 3)
    <3>1. tune' = Idle /\ \A c : tune' # <<"band", c>>
      BY <2>1, <2>8 DEF Idle
    <3>2. \A c \in Band : limit'[c] = qlen2band[c]
      BY <2>5, <2>8 DEF Band
    <3>3. limit' = qlen2band'
      BY <1>0, <2>2, <2>4, <3>2, SameMap
    <3>4. Total(limit)' = Total(qlen2band)'
      BY <3>3 DEF Total
    <3> QED BY <1>0, <2>2, <2>4, <2>6, <3>1, <3>3, <3>4 DEF LimitInv
  <2> QED BY <2>7, <2>8
<1>5. ASSUME NEW b \in Band, priowrr_graft(b) PROVE LimitInv'
  <2>1. /\ UNCHANGED <<qlen2band, tune>> /\ tune = Idle /\ grafts' = grafts + 1
        /\ limit' = limit \/ limit' = [limit EXCEPT ![b] = tx_queue_len]
    BY <1>5 DEF priowrr_graft
  <2>2. limit' \in [Band -> Nat]
    BY <1>0, <2>1, QueueAssumption
  <2>3. grafts' \in Nat /\ grafts' # 0
    BY <1>0, <2>1
  <2>4. Total(qlen2band)' = Total(qlen2band)
    BY <2>1 DEF Total
  <2>5. \A c : tune' # <<"band", c>>
    BY <2>1 DEF Idle
  <2> QED BY <1>0, <2>1, <2>2, <2>3, <2>4, <2>5 DEF LimitInv
<1>6. ASSUME UNCHANGED <<weight2band, qlen2band, limit, tune, grafts>> PROVE LimitInv'
  <2>1. Fits' = Fits /\ Total(qlen2band)' = Total(qlen2band) /\ Total(limit)' = Total(limit)
    BY <1>6 DEF Fits, wt_afq, wt_bfq, Total
  <2> QED BY <1>6, <2>1 DEF LimitInv
<1>7. CASE \/ \E f \in Flow : priowrr_enqueue(f)
           \/ priowrr_dequeue \/ XmitTaken \/ XmitRefused
           \/ priowrr_drop \/ priowrr_reset
           \/ UNCHANGED vars
  BY <1>6, <1>7 DEF priowrr_enqueue, priowrr_dequeue, XmitTaken, XmitRefused, priowrr_drop,
                    priowrr_reset, cfgVars, vars
<1> QED BY <1>1, <1>2, <1>3, <1>4, <1>5, <1>7 DEF Next, Tune

(* Whatever requests priowrr_tune() takes, in whatever order and however    *)
(* they interleave with the traffic: once it is done the table gives BEQ1   *)
(* the slots of its weight and BEQ2 the others, the limits in force are the *)
(* lengths shown, and they fit the pool.                                    *)
THEOREM TuningAgrees == Spec => []TunedAsShown
<1>1. Init => Tuned
  BY InitTuned
<1>2. Tuned /\ [Next]_vars => Tuned'
  BY NextTable, NextLimit DEF Tuned
<1>3. Tuned => TunedAsShown
  BY FilledInProportion DEF Tuned, TableInv, LimitInv, TunedAsShown
<1> QED BY <1>1, <1>2, <1>3, PTL DEF Spec
=============================================================================

------------------------------ MODULE PrioWrr ------------------------------
(***************************************************************************)
(* TI's packet scheduler for the nas and ppp interfaces                     *)
(* (net/sched/sch_priowrr.c): two expedited (EF) bands served in strict     *)
(* priority, two best effort (BE) bands served by a table of ten slots.     *)
(* qdisc_restart() dequeues a packet, drops the queue lock to call the      *)
(* driver, and requeues the packet if the driver refuses it.  A retuning    *)
(* with tc runs in process context; only its first part holds the lock, so  *)
(* the rest interleaves with all of this.                                   *)
(***************************************************************************)
EXTENDS Integers, Sequences, FiniteSets

CONSTANTS
  Flow,         \* flows: packets whose order matters
  FlowPriority, \* skb->priority of a flow's packets when they reach the qdisc
  FlowClass,    \* minor of the class a tc filter gives the flow, 0: no match
  MaxSeq,       \* bound: packets of a flow
  MaxRefusals,  \* bound: refusals by the driver, and drops
  MaxTunes,     \* bound: tc requests
  Options,      \* the requests: [w |-> weightmap, q |-> qlenmap]
  tx_queue_len,
  MaxGrafts     \* bound: replacements of a band's queue with tc

ASSUME FlowAssumption ==
  FlowPriority \in [Flow -> Nat] /\ FlowClass \in [Flow -> Nat]

ASSUME QueueAssumption == tx_queue_len \in Nat

None == [f |-> "none"]           \* no packet in the hands of the driver
Idle == <<"idle", 0>>             \* no priowrr_tune() under way
Band == 0..3
EF == {0, 1}                      \* PRIOWRR_EFQ1, PRIOWRR_EFQ2
BEQ1 == 2
BEQ2 == 3
TCQ_MAX_ST == 10
Handle == 1                       \* major number of the qdisc
prio2band == <<3, 3, 2, 3, 2, 3, 1, 1, 2, 2, 2, 2, 2, 2, 2, 2>>

(* sch_default_pattern[], bit 9 first: the slots of BEQ2, by weight of BEQ1 *)
Pattern ==
  [w \in 0..10 |->
    CASE w = 0 -> 0..9                        \* 0x3FF
      [] w = 1 -> (0..9) \ {4}                \* 0x3DF
      [] w = 2 -> (0..9) \ {2, 7}             \* 0x37B
      [] w = 3 -> 0..6                        \* 0x3F8
      [] w = 4 -> {0, 1, 2, 5, 6, 7}          \* 0x39C
      [] w = 5 -> {1, 3, 5, 7, 9}             \* 0x155
      [] w = 6 -> {3, 4, 8, 9}                \* 0x63
      [] w = 7 -> {7, 8, 9}                   \* 0x7
      [] w = 8 -> {2, 7}                      \* 0x84
      [] w = 9 -> {4}                         \* 0x20
      [] w = 10 -> {}]                        \* 0x0

\* struct tc_priowrr_qopt: eight bits for each weight and each length.
ASSUME OptionsAssumption ==
  Options \subseteq [w : [Band -> 0..255], q : [Band -> 0..255]]

VARIABLES
  queue,       \* the pfifo of each band
  limit,       \* its limit
  noop,        \* the bands whose queue is the noop_qdisc
  qlen,        \* sch->q.qlen
  wted_idx, sch_table, weight2band, qlen2band,   \* struct priowrr_sched_data
  tune,        \* where priowrr_tune() is: idle, check, slot or band
  hand,        \* the packet the driver has been called with
  run,         \* qdisc_run() is under way or scheduled
  enqueued, lastOut,    \* of each flow: packets made, last one transmitted
  refusals, tunes, grafts   \* counters for the bounds

vars == <<queue, limit, noop, qlen, wted_idx, sch_table, weight2band, qlen2band, tune,
          hand, run, enqueued, lastOut, refusals, tunes, grafts>>
cfgVars == <<wted_idx, sch_table, weight2band, qlen2band, tune, tunes, grafts>>
----------------------------------------------------------------------------
(* The band of a class: its minor less one, if there is such a band.        *)
ClassBand(c) == IF c \in 1..4 THEN c - 1 ELSE prio2band[1]

(* priowrr_classify(), with what the filters make of the flow.              *)
priowrr_classify(priority, class) ==
  CASE priority = 65535 -> 0      \* 0xFFFF
    [] priority = 64173 -> 1      \* 0xFAAD
    [] priority = 64221 -> 2      \* 0xFADD
    [] priority = 64989 -> 3      \* 0xFDDD
    [] OTHER ->
       IF priority \div 65536 = Handle THEN ClassBand(priority % 65536)
       ELSE IF class # 0 THEN ClassBand(class)
       ELSE IF priority \div 65536 # 0 THEN prio2band[1]
       ELSE prio2band[(priority % 16) + 1]

BandOf(pkt) == priowrr_classify(pkt.pr, FlowClass[pkt.f])

(* The priority priowrr_enqueue() leaves in the packet.                     *)
NewPriority(band) == IF band \in EF THEN band + 7 ELSE band

(* priowrr_enqueue() into the pfifo of the band: tail drop at the limit.    *)
priowrr_enqueue(f) ==
  LET pkt == [f |-> f, n |-> enqueued[f] + 1, pr |-> FlowPriority[f]]
      b   == BandOf(pkt)
  IN  /\ enqueued[f] < MaxSeq
      /\ enqueued' = [enqueued EXCEPT ![f] = @ + 1]
      /\ IF b \notin noop /\ Len(queue[b]) < limit[b]
         THEN /\ queue' = [queue EXCEPT ![b] = Append(@, [pkt EXCEPT !.pr = NewPriority(b)])]
              /\ qlen' = qlen + 1
         ELSE UNCHANGED <<queue, qlen>>
      /\ run' = TRUE              \* dev_queue_xmit() goes on to qdisc_run()
      /\ UNCHANGED <<limit, noop, hand, lastOut, refusals, cfgVars>>

\* Mutant: a requeued packet goes to the tail.
RequeueTail ==
  LET b == BandOf(hand)
  IN  IF b \in noop THEN UNCHANGED <<queue, qlen>>
      ELSE queue' = [queue EXCEPT ![b] = Append(@, hand)] /\ qlen' = qlen + 1

\* Mutant: a requeued packet is not counted.
RequeueUncounted ==
  LET b == BandOf(hand)
  IN  IF b \in noop THEN UNCHANGED <<queue, qlen>>
      ELSE queue' = [queue EXCEPT ![b] = <<hand>> \o @] /\ qlen' = qlen

(* priowrr_requeue(): to the head of the band the packet has NOW.  A noop   *)
(* queue drops it.                                                          *)
priowrr_requeue ==
  LET b == BandOf(hand)
  IN  IF b \in noop THEN UNCHANGED <<queue, qlen>>
      ELSE queue' = [queue EXCEPT ![b] = <<hand>> \o @] /\ qlen' = qlen + 1

\* Mutant: only the first expedited band is looked at.
EFReadyFirst == {b \in {0} : queue[b] # <<>>}

(* The EF bands that have a packet; the first of them is served.            *)
EFReady == {b \in EF : queue[b] # <<>>}

(* The slots of the table in the order priowrr_dequeue() tries them: once   *)
(* round, from wted_idx.                                                    *)
Slot(k) == (wted_idx + k) % TCQ_MAX_ST
Hits == {k \in 0..(TCQ_MAX_ST - 1) : queue[sch_table[Slot(k)]] # <<>>}

Serve(b) ==
  /\ hand' = Head(queue[b])
  /\ queue' = [queue EXCEPT ![b] = Tail(@)]
  /\ qlen' = qlen - 1
  /\ UNCHANGED run

(* qdisc_restart() calls priowrr_dequeue(); without a packet qdisc_run()    *)
(* ends, whatever qlen says.                                                *)
priowrr_dequeue ==
  /\ run /\ hand = None
  /\ \/ \E b \in EFReady : /\ \A c \in EFReady : b <= c
                           /\ Serve(b) /\ UNCHANGED wted_idx
     \/ /\ EFReady = {}
        /\ \E k \in Hits : /\ \A j \in Hits : k <= j
                          /\ Serve(sch_table[Slot(k)]) /\ wted_idx' = Slot(k + 1)
     \/ /\ EFReady = {} /\ Hits = {}
        /\ run' = FALSE
        /\ UNCHANGED <<queue, qlen, hand, wted_idx>>
  /\ UNCHANGED <<limit, noop, sch_table, weight2band, qlen2band, tune, tunes, grafts,
                 enqueued, lastOut, refusals>>

(* The driver takes the packet ...                                          *)
XmitTaken ==
  /\ hand # None
  /\ lastOut' = [lastOut EXCEPT ![hand.f] = hand.n]
  /\ hand' = None
  /\ UNCHANGED <<queue, limit, noop, qlen, run, enqueued, refusals, cfgVars>>

(* ... or refuses it: requeue, and netif_schedule() for another try.        *)
XmitRefused ==
  /\ hand # None /\ refusals < MaxRefusals
  /\ priowrr_requeue
  /\ hand' = None
  /\ refusals' = refusals + 1
  /\ UNCHANGED <<limit, noop, run, enqueued, lastOut, cfgVars>>

(* priowrr_drop(): the last packet of the lowest band that has one.  It     *)
(* calls the drop operation of every band it passes; a noop queue has none, *)
(* and a call that comes to one jumps to address 0: no step models that.    *)
priowrr_drop ==
  /\ refusals < MaxRefusals /\ refusals' = refusals + 1
  /\ \E b \in Band :
       /\ queue[b] # <<>>
       /\ \A c \in Band : c > b => queue[c] = <<>> /\ c \notin noop
       /\ queue' = [queue EXCEPT ![b] = SubSeq(@, 1, Len(@) - 1)]
  /\ qlen' = qlen - 1
  /\ UNCHANGED <<limit, noop, hand, run, enqueued, lastOut, cfgVars>>

(* priowrr_reset(), from dev_deactivate() for instance.                     *)
priowrr_reset ==
  /\ refusals < MaxRefusals /\ refusals' = refusals + 1
  /\ queue' = [b \in Band |-> <<>>]
  /\ qlen' = 0
  /\ UNCHANGED <<limit, noop, hand, run, enqueued, lastOut, cfgVars>>

(* priowrr_graft(): another queue, or none, for a band; the old queue is    *)
(* emptied and the count of the scheduler left alone.                       *)
priowrr_graft(b) ==
  /\ grafts < MaxGrafts /\ tune = Idle       \* both hold the rtnl semaphore
  /\ grafts' = grafts + 1
  /\ queue' = [queue EXCEPT ![b] = <<>>]
  /\ \/ noop' = noop \cup {b} /\ UNCHANGED limit
     \/ noop' = noop \ {b} /\ limit' = [limit EXCEPT ![b] = tx_queue_len]
  /\ UNCHANGED <<qlen, hand, run, enqueued, lastOut, refusals, wted_idx, sch_table,
                 weight2band, qlen2band, tune, tunes>>
----------------------------------------------------------------------------
(* The request as priowrr_tune() completes it: values that are not defined  *)
(* are the old ones, and the lengths of the BE queues divide what the EF    *)
(* queues leave of tx_queue_len by weight, in eight bits.                   *)
Weights(o, w) == IF o.w[BEQ1] = 0 /\ o.w[BEQ2] = 0 THEN w ELSE o.w

Lengths(o, w, q) ==
  LET l == IF o.q[0] = 0 \/ o.q[1] = 0 THEN q ELSE o.q
      left == tx_queue_len - (l[0] + l[1])
      be1 == IF l[BEQ1] = 0 THEN ((left * Weights(o, w)[BEQ1]) \div 100) % 256 ELSE l[BEQ1]
  IN  [l EXCEPT ![BEQ1] = be1, ![BEQ2] = IF @ = 0 THEN (left - be1) % 256 ELSE @]

Total(m) == m[0] + m[1] + m[2] + m[3]

Accepted(o, w, q) ==
  /\ \A b \in 1..3 : Weights(o, w)[b] <= 100
  /\ Total(Weights(o, w)) <= 300
  /\ Total(Lengths(o, w, q)) <= tx_queue_len

(* The part of priowrr_tune() that holds the lock.                          *)
TuneMaps(o) ==
  /\ tune = Idle /\ tunes < MaxTunes
  /\ Accepted(o, weight2band, qlen2band)
  /\ wted_idx' = 0
  /\ weight2band' = Weights(o, weight2band)
  /\ qlen2band' = Lengths(o, weight2band, qlen2band)
  /\ tune' = <<"check", 0>> /\ tunes' = tunes + 1
  /\ UNCHANGED <<queue, limit, noop, qlen, sch_table, hand, run, enqueued, lastOut, refusals,
                 grafts>>

wt_afq == (weight2band[BEQ1] * 10) \div 100
wt_bfq == (weight2band[BEQ2] * 10) \div 100

(* The BE weights that are stored have room in the table.                   *)
Fits == wt_afq + wt_bfq <= TCQ_MAX_ST

(* Its check of the BE weights, which may come too late, and the memset().  *)
TuneClear ==
  /\ tune = <<"check", 0>>
  /\ IF ~Fits
     THEN tune' = Idle /\ UNCHANGED sch_table
     ELSE tune' = <<"slot", 0>> /\ sch_table' = [i \in 0..(TCQ_MAX_ST - 1) |-> 0]
  /\ UNCHANGED <<queue, limit, noop, qlen, wted_idx, weight2band, qlen2band, hand, run,
                 enqueued, lastOut, refusals, tunes, grafts>>

\* Mutant: the pattern is chosen by the weight of the other band.
SlotBandByLow(i) == IF i \in Pattern[wt_bfq] THEN BEQ2 ELSE BEQ1
SlotBand(i) == IF i \in Pattern[wt_afq] THEN BEQ2 ELSE BEQ1

(* One turn of the loop that fills the table.                               *)
TuneSlot ==
  /\ \E i \in 0..(TCQ_MAX_ST - 1) :
       /\ tune = <<"slot", i>>
       /\ sch_table' = [sch_table EXCEPT ![i] = SlotBand(i)]
       /\ tune' = IF i < TCQ_MAX_ST - 1 THEN <<"slot", i + 1>> ELSE <<"band", 0>>
  /\ UNCHANGED <<queue, limit, noop, qlen, wted_idx, weight2band, qlen2band, hand, run,
                 enqueued, lastOut, refusals, tunes, grafts>>

(* One turn of the loop that sets the limits and makes missing queues.      *)
TuneLimit ==
  /\ \E b \in Band :
       /\ tune = <<"band", b>>
       /\ limit' = [limit EXCEPT ![b] = qlen2band[b]]
       /\ noop' = noop \ {b}
       /\ tune' = IF b < 3 THEN <<"band", b + 1>> ELSE Idle
  /\ UNCHANGED <<queue, qlen, wted_idx, sch_table, weight2band, qlen2band, hand, run,
                 enqueued, lastOut, refusals, tunes, grafts>>

(* priowrr_init(): the first request, before the qdisc is attached.         *)
Init ==
  /\ \E o \in Options : LET z == [b \in Band |-> 0] IN
       /\ Accepted(o, z, z)
       /\ weight2band = Weights(o, z) /\ qlen2band = Lengths(o, z, z)
  /\ Fits
  /\ sch_table = [i \in 0..(TCQ_MAX_ST - 1) |-> SlotBand(i)]
  /\ limit = qlen2band
  /\ queue = [b \in Band |-> <<>>] /\ noop = {} /\ qlen = 0
  /\ wted_idx = 0 /\ tune = Idle /\ hand = None /\ run = FALSE
  /\ enqueued = [f \in Flow |-> 0] /\ lastOut = [f \in Flow |-> 0]
  /\ refusals = 0 /\ tunes = 0 /\ grafts = 0

Tune == TuneClear \/ TuneSlot \/ TuneLimit

Next ==
  \/ \E f \in Flow : priowrr_enqueue(f)
  \/ priowrr_dequeue \/ XmitTaken \/ XmitRefused
  \/ priowrr_drop \/ priowrr_reset
  \/ \E b \in Band : priowrr_graft(b)
  \/ \E o \in Options : TuneMaps(o)
  \/ Tune

Spec == Init /\ [][Next]_vars

(* qdisc_run() and the tc request run on; the driver takes a packet in the  *)
(* end (MaxRefusals bounds how often it does not).                          *)
FairSpec == Spec /\ WF_vars(priowrr_dequeue) /\ WF_vars(XmitTaken) /\ WF_vars(Tune)
----------------------------------------------------------------------------
Waiting == UNION {{queue[b][i] : i \in DOMAIN queue[b]} : b \in Band}
Expedited(f) == priowrr_classify(FlowPriority[f], FlowClass[f]) \in EF

Packet == [f : Flow, n : Nat, pr : Nat]

\* Types; in particular the lengths that priowrr_tune() accepts fit the pool.
TypeOK ==
  /\ queue \in [Band -> Seq(Packet)] /\ hand \in Packet \cup {None}
  /\ limit \in [Band -> 0..tx_queue_len] /\ noop \subseteq Band
  /\ qlen \in Nat /\ wted_idx \in 0..(TCQ_MAX_ST - 1)
  /\ sch_table \in [0..(TCQ_MAX_ST - 1) -> Band]
  /\ weight2band \in [Band -> 0..100] /\ qlen2band \in [Band -> 0..255]
  /\ run \in BOOLEAN /\ enqueued \in [Flow -> 0..MaxSeq] /\ grafts \in Nat

Backlog == Len(queue[0]) + Len(queue[1]) + Len(queue[2]) + Len(queue[3])

(* sch->q.qlen never misses a packet of the four queues, and counts them    *)
(* exactly, through requeues, drops, resets and retuning, until a queue     *)
(* has been replaced.                                                       *)
QlenExact == Backlog <= qlen /\ (grafts = 0 => qlen = Backlog)

(* The packets of a flow leave in the order they came, also when the driver *)
(* refuses one and it is requeued.                                          *)
FlowOrder == [][\A f \in Flow : lastOut'[f] >= lastOut[f]]_vars

(* No best effort packet is handed to the driver while a packet of an       *)
(* expedited flow waits.                                                    *)
StrictPriority ==
  [][hand = None /\ hand' # None /\ ~Expedited(hand'.f)
       => \A p \in Waiting : ~Expedited(p.f)]_vars

(* Once priowrr_tune() is done, what is in force agrees with what           *)
(* priowrr_dump() shows, whatever was asked for before and however far an   *)
(* earlier request came: BEQ1 has as many slots of the table as its weight  *)
(* in tenths and BEQ2 the others, and each queue has the limit shown.  The  *)
(* exception is a request that was stored and then turned down for its      *)
(* weights; after that the old table and limits are in force.  In either    *)
(* case the four limits do not add up to more than the pool of              *)
(* tx_queue_len buffers, until a queue is grafted.                          *)
TunedAsShown ==
  /\ tune = Idle /\ Fits =>
       /\ Cardinality({i \in DOMAIN sch_table : sch_table[i] = BEQ1}) = wt_afq
       /\ Cardinality({i \in DOMAIN sch_table : sch_table[i] = BEQ2}) = TCQ_MAX_ST - wt_afq
  /\ tune = Idle /\ grafts = 0 =>
       /\ Total(limit) <= tx_queue_len
       /\ Fits => limit = qlen2band

(* Every packet that was queued is served: the backlog does not stay, as    *)
(* long as no retuning has shown qdisc_run() a table that is being filled.  *)
BacklogServed == (Waiting # {}) ~> (Waiting = {} \/ tunes > 0)
=============================================================================

------------------------------- MODULE DevTx -------------------------------
(***************************************************************************)
(* Who owns an sk_buff on its way out: dev_queue_xmit() and the queueing   *)
(* discipline above cpmac_dev_tx(), the transmit ring of the HAL below it. *)
(* The kernel's rule for hard_start_xmit is that 0 means the driver took   *)
(* the buffer, and anything else that the kernel still has it: it frees    *)
(* the buffer where there is no queue, and puts it back at the head of the *)
(* queue and schedules the queue again where there is one.                 *)
(*                                                                         *)
(* The ring is what CppiTx shows it to be: a queue that gives each packet  *)
(* back once.  A frame is either one that cpmac_dev_tx() sends or one that *)
(* it turns down by its length or its 802.1q tag; both are fixed by the    *)
(* frame and the configuration.  One processor: qdisc_run() runs with      *)
(* bottom halves off, so one transmission attempt is one step.             *)
(***************************************************************************)
EXTENDS Integers, Sequences, FiniteSets

CONSTANTS
  Skb,           \* buffers; each is sent once
  Unwanted,      \* those that are too short, or whose tag is not wanted
  QueueLens,     \* what tx_queue_len may be set to
  RingSize,      \* packets the transmit ring holds
  MaxEvents      \* bound on link changes, opens and closes

ASSUME SkbAssumption == Unwanted \subseteq Skb

ASSUME LimitAssumption == QueueLens \cup {RingSize, MaxEvents} \subseteq Nat

VARIABLES
  tx_queue_len,  \* 0: no queue; otherwise pfifo_fast with this limit; never changes
  TxIntDisable,  \* CFG_TX_INT_DISABLE (shipped: TRUE); never changes
  queue,         \* the queueing discipline, head first
  ring,          \* the active queue of the HAL
  handed,        \* buffers given to dev_queue_xmit()
  freed,         \* how often each buffer was freed
  up,            \* the device has its queueing discipline and an open HAL
  stopped,       \* __LINK_STATE_XOFF
  sched,         \* __LINK_STATE_SCHED: on the output queue of the softirq
  running,       \* qdisc_run() is in its loop
  Linked,        \* HalDev->Linked
  events

conf == <<tx_queue_len, TxIntDisable>>

vars == <<conf, queue, ring, handed, freed, up, stopped, sched, running,
          Linked, events>>

Queued == tx_queue_len > 0

In(seq) == {seq[i] : i \in DOMAIN seq}

\* kfree_skb() of the buffers in S, and of those in T after them.
Free(S, T) ==
  freed' = [s \in Skb |-> freed[s] + (IF s \in S THEN 1 ELSE 0)
                                   + (IF s \in T THEN 1 ELSE 0)]

Init ==
  /\ tx_queue_len \in QueueLens /\ TxIntDisable \in BOOLEAN
  /\ queue = <<>> /\ ring = <<>>
  /\ handed = {} /\ freed = [s \in Skb |-> 0]
  /\ up = TRUE /\ stopped = FALSE /\ sched = FALSE /\ running = FALSE
  /\ Linked = FALSE
  /\ events = 0
-----------------------------------------------------------------------------
(* cpmac_dev_tx(): what it returns, the ring after Send(), what it frees.  *)
(* halSend() fails without a link and without room in the ring.            *)

SendWorks == Linked /\ Len(ring) < RingSize

Taken(s) == [ret |-> 0, ring |-> Append(ring, s), free |-> {}]
TurnedDown == [ret |-> -1, ring |-> ring, free |-> {}]

\* Mutant: the error path of Send() frees the buffer and falls through to the drop.
cpmac_dev_tx_both(s) ==
  IF s \in Unwanted THEN TurnedDown
  ELSE IF SendWorks THEN Taken(s)
  ELSE [ret |-> -1, ring |-> ring, free |-> {s}]

cpmac_dev_tx(s) ==
  IF s \in Unwanted THEN TurnedDown
  ELSE IF SendWorks THEN Taken(s)
  ELSE [ret |-> 0, ring |-> ring, free |-> {s}]
-----------------------------------------------------------------------------
(* The kernel: dev_queue_xmit() with and without a queue.                  *)

Hand(s) == s \notin handed /\ handed' = handed \cup {s}

(* pfifo_fast_enqueue(), and qdisc_run() unless the queue is stopped.      *)
XmitQueued(s) ==
  /\ Queued /\ up /\ ~running
  /\ Hand(s)
  /\ IF Len(queue) <= tx_queue_len
     THEN queue' = Append(queue, s) /\ freed' = freed
     ELSE queue' = queue /\ Free({s}, {})
  /\ running' = ~stopped
  /\ UNCHANGED <<conf, ring, up, stopped, sched, Linked, events>>

XmitDirect(s) ==
  LET r == cpmac_dev_tx(s)
  IN  /\ ~Queued /\ up /\ ~stopped
      /\ Hand(s)
      /\ ring' = r.ring
      /\ Free(r.free, IF r.ret = 0 THEN {} ELSE {s})
      /\ UNCHANGED <<conf, queue, up, stopped, sched, running, Linked, events>>

(* noop_enqueue() of a device that is down, or no queue and a stopped one. *)
XmitRefused(s) ==
  /\ ~up \/ (~Queued /\ stopped)
  /\ Hand(s)
  /\ Free({s}, {})
  /\ UNCHANGED <<conf, queue, ring, up, stopped, sched, running, Linked, events>>

(* One turn of qdisc_run().  On an error pfifo_fast_requeue() puts the     *)
(* buffer back where it was, and netif_schedule() asks for another run.    *)
qdisc_restart ==
  LET s == Head(queue)
      r == cpmac_dev_tx(s)
  IN  /\ running /\ ~stopped /\ queue # <<>>
      /\ ring' = r.ring
      /\ Free(r.free, {})
      /\ queue' = IF r.ret = 0 THEN Tail(queue) ELSE queue
      /\ running' = (r.ret = 0)
      /\ sched' = (sched \/ r.ret # 0)
      /\ UNCHANGED <<conf, handed, up, stopped, Linked, events>>

QdiscRunEnds ==
  /\ running
  /\ stopped \/ queue = <<>>
  /\ running' = FALSE
  /\ UNCHANGED <<conf, queue, ring, handed, freed, up, stopped, sched, Linked, events>>

net_tx_action ==
  /\ sched /\ ~running
  /\ sched' = FALSE
  /\ running' = (up /\ ~stopped)
  /\ UNCHANGED <<conf, queue, ring, handed, freed, up, stopped, Linked, events>>
-----------------------------------------------------------------------------
(* TxInt() through cpmac_hal_send_complete(): from the interrupt, or with  *)
(* TxIntDisable from a halSend() at the threshold and from the interrupt   *)
(* that a halSend() behind a running packet lets through.                  *)
SendComplete ==
  /\ ring # <<>>
  /\ ring' = Tail(ring)
  /\ Free({Head(ring)}, {})
  /\ UNCHANGED <<conf, queue, handed, up, stopped, sched, running, Linked, events>>

\* Mutant: the queue is started without asking for a run.
LinkUpStarts ==
  /\ up /\ ~Linked /\ ~running /\ events < MaxEvents
  /\ Linked' = TRUE
  /\ stopped' = FALSE
  /\ events' = events + 1
  /\ UNCHANGED <<conf, queue, ring, handed, freed, up, sched, running>>

(* cpmac_p_process_status_ind() on a link that came up: netif_wake_queue() *)
(* schedules the queue if it was stopped.                                  *)
LinkUp ==
  /\ up /\ ~Linked /\ ~running /\ events < MaxEvents
  /\ Linked' = TRUE
  /\ stopped' = FALSE
  /\ sched' = (sched \/ stopped)
  /\ events' = events + 1
  /\ UNCHANGED <<conf, queue, ring, handed, freed, up, running>>

LinkDown ==
  /\ up /\ Linked /\ ~running /\ events < MaxEvents
  /\ Linked' = FALSE
  /\ stopped' = TRUE
  /\ events' = events + 1
  /\ UNCHANGED <<conf, queue, ring, handed, freed, up, sched, running>>

\* The packets in the ring are forgotten.
DevCloseForgets ==
  /\ up /\ ~running /\ events < MaxEvents
  /\ up' = FALSE /\ stopped' = TRUE
  /\ queue' = <<>> /\ ring' = <<>>
  /\ Free(In(queue), {})
  /\ events' = events + 1
  /\ UNCHANGED <<conf, handed, sched, running, Linked>>

(* dev_deactivate() empties the queue; cpmac_dev_close() stops the device; *)
(* TxTeardownInt() gives every packet of the ring back.                    *)
DevClose ==
  /\ up /\ ~running /\ events < MaxEvents
  /\ up' = FALSE /\ stopped' = TRUE
  /\ queue' = <<>> /\ ring' = <<>>
  /\ Free(In(queue), In(ring))
  /\ events' = events + 1
  /\ UNCHANGED <<conf, handed, sched, running, Linked>>

(* cpmac_dev_open(); the link is negotiated anew.                          *)
DevOpen ==
  /\ ~up /\ ~sched /\ events < MaxEvents
  /\ up' = TRUE /\ stopped' = FALSE /\ Linked' = FALSE
  /\ events' = events + 1
  /\ UNCHANGED <<conf, queue, ring, handed, freed, sched, running>>

Next ==
  \/ \E s \in Skb : XmitQueued(s) \/ XmitDirect(s) \/ XmitRefused(s)
  \/ qdisc_restart \/ QdiscRunEnds \/ net_tx_action
  \/ SendComplete
  \/ LinkUp \/ LinkDown \/ DevClose \/ DevOpen

Spec == Init /\ [][Next]_vars

(* The softirq runs.  The hardware sends what it was given and interrupts; *)
(* with that interrupt masked nothing but a later Send() looks at what was *)
(* sent, and a later Send() need not come.                                 *)
FairSpec ==
  Spec /\ WF_vars(qdisc_restart) /\ WF_vars(QdiscRunEnds)
       /\ WF_vars(net_tx_action) /\ WF_vars(SendComplete /\ ~TxIntDisable)
-----------------------------------------------------------------------------
\* Types; in particular the queue exceeds tx_queue_len by no more than the buffer
\* that qdisc_restart() puts back, and Send() keeps to the ring.
TypeOK ==
  /\ tx_queue_len \in QueueLens /\ TxIntDisable \in BOOLEAN
  /\ queue \in Seq(Skb) /\ ring \in Seq(Skb)
  /\ handed \subseteq Skb /\ freed \in [Skb -> 0 .. 2]
  /\ {up, stopped, sched, running, Linked} \subseteq BOOLEAN
  /\ events \in 0 .. MaxEvents
  /\ Len(queue) <= tx_queue_len + 1 /\ Len(ring) <= RingSize

Places(s) ==
  Cardinality({i \in DOMAIN queue : queue[i] = s})
    + Cardinality({i \in DOMAIN ring : ring[i] = s}) + freed[s]

(* A buffer handed to dev_queue_xmit() is at every moment in exactly one   *)
(* place: once in the queue, once in the ring, or freed once.  The return  *)
(* values of cpmac_dev_tx() agree with what it did to the buffer on every  *)
(* path, so none is leaked, freed twice or used after it was freed.        *)
OneOwner == \A s \in Skb : Places(s) = IF s \in handed THEN 1 ELSE 0

(* While the link is up, every buffer leaves the queue for the ring, or is *)
(* dropped, and leaves the ring too if transmit interrupts are on: none    *)
(* waits in a queue that nobody runs.  With the interrupts masked, as they *)
(* are shipped, the last packets stay in the ring until another is sent.   *)
(* One that cpmac_dev_tx() turns down stays at the head of the queue, and  *)
(* holds up those behind it.                                               *)
Blocked == queue # <<>> /\ Head(queue) \in Unwanted

EverySkbGoesOut ==
  \A s \in Skb :
    (s \in handed /\ Linked) ~>
       \/ freed[s] > 0
       \/ TxIntDisable /\ s \in In(ring)
       \/ ~Linked \/ Blocked
=============================================================================

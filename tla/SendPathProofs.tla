--------------------------- MODULE SendPathProofs ---------------------------
(***************************************************************************)
(* What the send path owes to the transmit ring and to the kernel above    *)
(* it.  Interrupts stay off while a section of CriticalSection is open,    *)
(* for every service limit and every length of the Needs list: that is     *)
(* what lets the ring take halSend() and TxInt() as atomic.  And a buffer  *)
(* has one owner on its way through DevTx, for every set of buffers, every *)
(* length of the queue and of the ring.                                    *)
(***************************************************************************)
EXTENDS CriticalSection, DevTx, FiniteSetTheorems, TLAPS

MaskInv == ThresholdReloaded /\ NestedSavesOff /\ SectionsMasked

\* The driver starts outside every section.
LEMMA InitMasked == CSInit => MaskInv
  BY CriticalAssumption
  DEF CriticalAssumption, CSInit, MaskInv, ThresholdReloaded, NestedSavesOff, SectionsMasked

\* Opening an outer section turns interrupts off.
LEMMA EnterOuterMasks ==
  ASSUME MaskInv, NEW f, f # "none", EnterOuter(f),
         ThresholdReloaded'
  PROVE  MaskInv'
  BY DEF MaskInv, NestedSavesOff, SectionsMasked, EnterOuter, os_critical_on

\* Closing an outer section leaves no section open.
LEMMA LeaveOuterMasks ==
  ASSUME MaskInv, LeaveOuter, ThresholdReloaded'
  PROVE  MaskInv'
  BY DEF MaskInv, NestedSavesOff, SectionsMasked, LeaveOuter, os_critical_off

\* Opening an inner section saves "off": the outer one has interrupts off.
LEMMA EnterInnerMasks ==
  ASSUME MaskInv, NEW f, outer # "none", EnterInner(f),
         ThresholdReloaded'
  PROVE  MaskInv'
  BY DEF MaskInv, NestedSavesOff, SectionsMasked, EnterInner, os_critical_on

\* Closing an inner section therefore restores "off".
LEMMA LeaveInnerMasks ==
  ASSUME MaskInv, inner # "none", LeaveInner,
         ThresholdReloaded'
  PROVE  MaskInv'
  BY DEF MaskInv, NestedSavesOff, SectionsMasked, LeaveInner, os_critical_off

\* Every step of halSend(), halIsr() and the kernel keeps the invariant.
LEMMA NextMasked == MaskInv /\ [CSNext]_csVars => MaskInv'
<1> SUFFICES ASSUME MaskInv, [CSNext]_csVars
             PROVE  MaskInv'
  OBVIOUS
<1>1. TxIntThreshold \in 0 .. TxServiceMax /\ TxServiceMax \in Nat \ {0}
  BY CriticalAssumption DEF MaskInv, ThresholdReloaded, CriticalAssumption
<1>2. CASE SendEnter
  <2>1. ThresholdReloaded'
    BY <1>1, <1>2 DEF SendEnter, EnterOuter, MaskInv, ThresholdReloaded
  <2> QED
    BY <1>2, <2>1, EnterOuterMasks DEF SendEnter
<1>3. CASE SendCallsTxInt
  <2>1. ThresholdReloaded'
    BY <1>1, <1>3 DEF SendCallsTxInt, EnterInner, MaskInv, ThresholdReloaded
  <2> QED
    BY <1>3, <2>1, EnterInnerMasks DEF SendCallsTxInt
<1>4. CASE TxIntBackInSend
  <2>1. ThresholdReloaded'
    BY <1>1, <1>4 DEF TxIntBackInSend, LeaveInner, MaskInv, ThresholdReloaded
  <2> QED
    BY <1>4, <2>1, LeaveInnerMasks DEF TxIntBackInSend
<1>5. CASE SendReturn
  <2>1. ThresholdReloaded'
    BY <1>1, <1>5 DEF SendReturn, LeaveOuter, MaskInv, ThresholdReloaded
  <2> QED
    BY <1>5, <2>1, LeaveOuterMasks DEF SendReturn
<1>6. CASE IsrTxInt
  <2>1. ThresholdReloaded'
    BY <1>1, <1>6 DEF IsrTxInt, EnterOuter, MaskInv, ThresholdReloaded
  <2> QED
    BY <1>6, <2>1, EnterOuterMasks DEF IsrTxInt
<1>7. CASE TxIntBackInIsr
  <2>1. ThresholdReloaded'
    BY <1>1, <1>7 DEF TxIntBackInIsr, LeaveOuter, MaskInv, ThresholdReloaded
  <2> QED
    BY <1>7, <2>1, LeaveOuterMasks DEF TxIntBackInIsr
<1>8. CASE NeedsCheckEnter
  <2>1. ThresholdReloaded'
    BY <1>1, <1>8 DEF NeedsCheckEnter, EnterOuter, MaskInv, ThresholdReloaded
  <2> QED
    BY <1>8, <2>1, EnterOuterMasks DEF NeedsCheckEnter
<1>9. CASE NeedsCheckGood
  <2>1. ThresholdReloaded'
    BY <1>1, <1>9 DEF NeedsCheckGood, EnterInner, MaskInv, ThresholdReloaded
  <2> QED
    BY <1>9, <2>1, EnterInnerMasks DEF NeedsCheckGood
<1>10. CASE AddBackInNeedsCheck
  <2>1. ThresholdReloaded'
    BY <1>1, <1>10 DEF AddBackInNeedsCheck, LeaveInner, MaskInv, ThresholdReloaded
  <2> QED
    BY <1>10, <2>1, LeaveInnerMasks DEF AddBackInNeedsCheck
<1>11. CASE NeedsCheckReturn
  <2>1. ThresholdReloaded'
    BY <1>1, <1>11 DEF NeedsCheckReturn, LeaveOuter, MaskInv, ThresholdReloaded
  <2> QED
    BY <1>11, <2>1, LeaveOuterMasks DEF NeedsCheckReturn
<1>12. CASE ReturnQueues
  <2>1. ThresholdReloaded'
    BY <1>1, <1>12 DEF ReturnQueues, EnterOuter, MaskInv, ThresholdReloaded
  <2> QED
    BY <1>12, <2>1, EnterOuterMasks DEF ReturnQueues
<1>13. CASE AddBackInRxInt
  <2>1. ThresholdReloaded'
    BY <1>1, <1>13 DEF AddBackInRxInt, LeaveOuter, MaskInv, ThresholdReloaded
  <2> QED
    BY <1>13, <2>1, LeaveOuterMasks DEF AddBackInRxInt
<1>14. CASE IsrRxInt \/ ReturnNeeds \/ RxIntReturn \/ KernelSetsIe \/ UNCHANGED csVars
  BY <1>14 DEF IsrRxInt, ReturnNeeds, RxIntReturn, KernelSetsIe, csVars,
               MaskInv, ThresholdReloaded, NestedSavesOff, SectionsMasked
<1> QED
  BY <1>2, <1>3, <1>4, <1>5, <1>6, <1>7, <1>8, <1>9, <1>10, <1>11, <1>12,
     <1>13, <1>14 DEF CSNext

\* Interrupts are off whenever os_critical_on() has been called more often than
\* os_critical_off(), although all sections share one irq_flags.
THEOREM MaskedSections == CSSpec => []SectionsMasked
<1>1. CSSpec => []MaskInv
  BY InitMasked, NextMasked, PTL DEF CSSpec
<1>2. MaskInv => SectionsMasked
  BY DEF MaskInv
<1> QED
  BY <1>1, <1>2, PTL
-----------------------------------------------------------------------------
\* How often x is in the list q.
Times(q, x) == Cardinality({i \in DOMAIN q : q[i] = x})

\* The positions of x in a list are finitely many.
LEMMA TimesType ==
  ASSUME NEW S, NEW q \in Seq(S), NEW x
  PROVE  /\ IsFiniteSet({i \in DOMAIN q : q[i] = x}) /\ Times(q, x) \in Nat
         /\ (Times(q, x) = 0) <=> (x \notin In(q))
<1>1. DOMAIN q = 1 .. Len(q) /\ Len(q) \in Nat
  OBVIOUS
<1>2. IsFiniteSet(1 .. Len(q))
  BY <1>1, FS_Interval
<1>3. {i \in DOMAIN q : q[i] = x} \subseteq 1 .. Len(q)
  BY <1>1
<1>4. IsFiniteSet({i \in DOMAIN q : q[i] = x})
  BY <1>2, <1>3, FS_Subset
<1>5. Times(q, x) \in Nat
  BY <1>4, FS_CardinalityType DEF Times
<1>6. (Times(q, x) = 0) <=> ({i \in DOMAIN q : q[i] = x} = {})
  BY <1>4, FS_EmptySet DEF Times
<1>7. ({i \in DOMAIN q : q[i] = x} = {}) <=> (x \notin In(q))
  BY DEF In
<1>. QED BY <1>4, <1>5, <1>6, <1>7

\* An empty list holds nothing.
LEMMA TimesEmpty == ASSUME NEW x PROVE Times(<< >>, x) = 0
<1>1. {i \in DOMAIN << >> : << >>[i] = x} = {}
  OBVIOUS
<1>. QED BY <1>1, FS_EmptySet DEF Times

\* A buffer put at the end of a list is there once more.
LEMMA TimesAppend ==
  ASSUME NEW S, NEW q \in Seq(S), NEW s \in S, NEW x
  PROVE  Times(Append(q, s), x) = Times(q, x) + (IF x = s THEN 1 ELSE 0)
<1>. DEFINE A == {i \in DOMAIN q : q[i] = x}
            B == {i \in DOMAIN Append(q, s) : Append(q, s)[i] = x}
<1>1. /\ DOMAIN q = 1 .. Len(q) /\ Len(q) \in Nat
      /\ DOMAIN Append(q, s) = 1 .. Len(q) + 1
      /\ \A i \in 1 .. Len(q) : Append(q, s)[i] = q[i]
      /\ Append(q, s)[Len(q) + 1] = s
  OBVIOUS
<1>2. IsFiniteSet(A)
  BY TimesType
<1>3. B = IF x = s THEN A \cup {Len(q) + 1} ELSE A
  BY <1>1
<1>4. Len(q) + 1 \notin A
  BY <1>1
<1>5. Cardinality(A \cup {Len(q) + 1}) = Cardinality(A) + 1
  BY <1>2, <1>4, FS_AddElement
<1>6. Cardinality(A) \in Nat
  BY <1>2, FS_CardinalityType
<1>7. Times(q, x) = Cardinality(A) /\ Times(Append(q, s), x) = Cardinality(B)
  BY DEF Times
<1>. HIDE DEF A, B
<1>8. CASE x = s
  BY <1>3, <1>5, <1>7, <1>8
<1>9. CASE x # s
  BY <1>3, <1>6, <1>7, <1>9
<1>. QED BY <1>8, <1>9

\* The head of a list is there once more than in the rest.
LEMMA TimesTail ==
  ASSUME NEW S, NEW q \in Seq(S), q # << >>, NEW x
  PROVE  /\ Head(q) \in S /\ Tail(q) \in Seq(S)
         /\ Times(q, x) = Times(Tail(q), x) + (IF x = Head(q) THEN 1 ELSE 0)
<1>. DEFINE A == {i \in DOMAIN Tail(q) : Tail(q)[i] = x}
            C == {i \in DOMAIN q : q[i] = x /\ i # 1}
            B == {i \in DOMAIN q : q[i] = x}
            f == [i \in A |-> i + 1]
<1>1. /\ DOMAIN q = 1 .. Len(q) /\ Len(q) \in Nat /\ Len(q) >= 1
      /\ DOMAIN Tail(q) = 1 .. Len(q) - 1
      /\ \A i \in 1 .. Len(q) - 1 : Tail(q)[i] = q[i + 1]
      /\ Head(q) = q[1] /\ Head(q) \in S /\ Tail(q) \in Seq(S)
  OBVIOUS
<1>2. IsFiniteSet(A) /\ IsFiniteSet(B)
  BY <1>1, TimesType, ZenonT(60)
<1>3. f \in Bijection(A, C)
  <2>1. f \in [A -> C] /\ \A i, j \in A : f[i] = f[j] => i = j
    BY <1>1
  <2>2. ASSUME NEW j \in C PROVE \E i \in A : f[i] = j
    <3>1. j - 1 \in A
      BY <1>1
    <3>2. f[j - 1] = j
      BY <1>1, <3>1
    <3>. QED BY <3>1, <3>2
  <2>. HIDE DEF A, C, f
  <2>. QED BY <2>1, <2>2 DEF Bijection, Injection, IsInjective, Surjection
<1>4. IsFiniteSet(C) /\ Cardinality(C) = Cardinality(A)
  <2>. HIDE DEF A, C, f
  <2>1. ExistsBijection(A, C)
    BY <1>3 DEF ExistsBijection
  <2>. QED BY <1>2, <2>1, FS_Bijection
<1>5. B = IF x = Head(q) THEN C \cup {1} ELSE C
  BY <1>1
<1>6. Cardinality(C \cup {1}) = Cardinality(C) + 1
  BY <1>4, FS_AddElement
<1>7. Cardinality(A) \in Nat
  BY <1>2, FS_CardinalityType
<1>8. Times(q, x) = Cardinality(B) /\ Times(Tail(q), x) = Cardinality(A)
  BY DEF Times
<1>. HIDE DEF A, B, C, f
<1>9. CASE x = Head(q)
  BY <1>1, <1>4, <1>5, <1>6, <1>8, <1>9
<1>10. CASE x # Head(q)
  BY <1>1, <1>4, <1>5, <1>7, <1>8, <1>10
<1>. QED BY <1>9, <1>10
-----------------------------------------------------------------------------
\* The part of the types that the counts need.
Shapes ==
  /\ queue \in Seq(Skb) /\ ring \in Seq(Skb)
  /\ handed \subseteq Skb /\ freed \in [Skb -> Nat]

\* OneOwner is inductive as soon as the lists are lists.
OwnInv == Shapes /\ OneOwner

\* OneOwner with the two counts named.
LEMMA PlacesCounted ==
  OneOwner <=> \A s \in Skb : Times(queue, s) + Times(ring, s) + freed[s]
                                = IF s \in handed THEN 1 ELSE 0
  BY DEF OneOwner, Places, Times

\* The same after a step.
LEMMA PlacesCountedNext ==
  OneOwner' <=> \A s \in Skb : Times(queue', s) + Times(ring', s) + freed'[s]
                                = IF s \in handed' THEN 1 ELSE 0
  BY DEF OneOwner, Places, Times

\* cpmac_dev_tx() either takes the buffer and says so, or frees it and says it took
\* it, or leaves it alone and says that.
LEMMA TxTells ==
  ASSUME NEW s
  PROVE  \/ cpmac_dev_tx(s).ret # 0 /\ cpmac_dev_tx(s).ring = ring
              /\ cpmac_dev_tx(s).free = {}
         \/ cpmac_dev_tx(s).ret = 0 /\ cpmac_dev_tx(s).ring = Append(ring, s)
              /\ cpmac_dev_tx(s).free = {}
         \/ cpmac_dev_tx(s).ret = 0 /\ cpmac_dev_tx(s).ring = ring
              /\ cpmac_dev_tx(s).free = {s}
  BY DEF cpmac_dev_tx, Taken, TurnedDown

\* The counts are numbers.
LEMMA Numbers ==
  ASSUME Shapes, NEW s \in Skb
  PROVE  Times(queue, s) \in Nat /\ Times(ring, s) \in Nat /\ freed[s] \in Nat
  BY TimesType DEF Shapes

\* kfree_skb() keeps the count of frees a count.
LEMMA FreeKeeps ==
  ASSUME Shapes, NEW S, NEW T, Free(S, T) PROVE freed' \in [Skb -> Nat]
<1>1. \A x \in Skb : freed[x] \in Nat
  BY DEF Shapes
<1>2. ASSUME NEW x \in Skb
      PROVE  freed[x] + (IF x \in S THEN 1 ELSE 0) + (IF x \in T THEN 1 ELSE 0) \in Nat
  BY <1>1
<1>. QED BY <1>2 DEF Free

\* Nothing has been handed to the kernel, and nothing is anywhere.
LEMMA TxInit == Init => OwnInv
<1>. SUFFICES ASSUME Init PROVE OwnInv
  OBVIOUS
<1>1. Shapes
  BY DEF Init, Shapes
<1>2. ASSUME NEW s \in Skb PROVE Times(queue, s) + Times(ring, s) + freed[s] = 0
  BY TimesEmpty DEF Init
<1>. QED BY <1>1, <1>2, PlacesCounted DEF OwnInv, Init

\* A new buffer, which is nowhere yet, is put in the queue.
LEMMA XmitQueuedStep == ASSUME OwnInv, NEW s \in Skb, XmitQueued(s) PROVE OwnInv'
<1>. USE DEF OwnInv
<1>1. CASE queue' = Append(queue, s) /\ freed' = freed
  <2>1. Shapes'
    BY <1>1 DEF Shapes, XmitQueued, Hand
  <2>2. ASSUME NEW x \in Skb
        PROVE  Times(queue', x) + Times(ring', x) + freed'[x]
                 = IF x \in handed' THEN 1 ELSE 0
    <3>1. Times(queue', x) = Times(queue, x) + (IF x = s THEN 1 ELSE 0)
      BY <1>1, TimesAppend DEF Shapes
    <3>2. ring' = ring /\ handed' = handed \cup {s} /\ s \notin handed
      BY DEF XmitQueued, Hand
    <3>. QED BY <1>1, <3>1, <3>2, Numbers, PlacesCounted
  <2>. QED BY <2>1, <2>2, PlacesCountedNext
<1>2. CASE queue' = queue /\ Free({s}, {})
  <2>1. Shapes'
    BY <1>2 DEF Shapes, XmitQueued, Hand, Free
  <2>2. ASSUME NEW x \in Skb
        PROVE  Times(queue', x) + Times(ring', x) + freed'[x]
                 = IF x \in handed' THEN 1 ELSE 0
    <3>1. freed'[x] = freed[x] + (IF x = s THEN 1 ELSE 0)
      BY <1>2, Numbers DEF Free
    <3>2. ring' = ring /\ handed' = handed \cup {s} /\ s \notin handed
      BY DEF XmitQueued, Hand
    <3>. QED BY <1>2, <3>1, <3>2, Numbers, PlacesCounted
  <2>. QED BY <2>1, <2>2, PlacesCountedNext
<1>. QED BY <1>1, <1>2 DEF XmitQueued

\* Without a queue the buffer is freed by the driver, or by the kernel, or in the ring.
LEMMA XmitDirectStep == ASSUME OwnInv, NEW s \in Skb, XmitDirect(s) PROVE OwnInv'
<1>. USE DEF OwnInv
<1>0. /\ queue' = queue /\ handed' = handed \cup {s} /\ s \notin handed
      /\ ring' = cpmac_dev_tx(s).ring
      /\ Free(cpmac_dev_tx(s).free, IF cpmac_dev_tx(s).ret = 0 THEN {} ELSE {s})
  BY DEF XmitDirect, Hand
<1>1. \/ ring' = Append(ring, s) /\ Free({}, {})
      \/ ring' = ring /\ (Free({s}, {}) \/ Free({}, {s}))
  BY <1>0, TxTells
<1>2. Shapes'
  <2>1. queue' \in Seq(Skb) /\ handed' \subseteq Skb
    BY <1>0 DEF Shapes
  <2>2. Append(ring, s) \in Seq(Skb) /\ ring' \in {ring, Append(ring, s)}
    BY <1>1 DEF Shapes
  <2>3. freed' \in [Skb -> Nat]
    BY <1>0, FreeKeeps
  <2>. QED BY <2>1, <2>2, <2>3 DEF Shapes
<1>3. ASSUME NEW x \in Skb
      PROVE  Times(queue', x) + Times(ring', x) + freed'[x]
               = IF x \in handed' THEN 1 ELSE 0
  <2>1. Times(Append(ring, s), x) = Times(ring, x) + (IF x = s THEN 1 ELSE 0)
    BY TimesAppend DEF Shapes
  <2>2. \/ ring' = Append(ring, s) /\ freed'[x] = freed[x]
        \/ ring' = ring /\ freed'[x] = freed[x] + (IF x = s THEN 1 ELSE 0)
    BY <1>1, Numbers DEF Free
  <2>3. Times(queue, x) \in Nat /\ Times(ring, x) \in Nat /\ freed[x] \in Nat
    BY Numbers
  <2>4. Times(queue, x) + Times(ring, x) + freed[x] = IF x \in handed THEN 1 ELSE 0
    BY PlacesCounted
  <2>5. queue' = queue /\ (x \in handed' <=> x \in handed \/ x = s) /\ s \notin handed
    BY <1>0
  <2>6. CASE ring' = Append(ring, s) /\ freed'[x] = freed[x]
    <3>1. Times(ring', x) = Times(ring, x) + (IF x = s THEN 1 ELSE 0)
      BY <2>1, <2>6, Zenon
    <3>. QED BY <2>3, <2>4, <2>5, <2>6, <3>1
  <2>7. CASE ring' = ring /\ freed'[x] = freed[x] + (IF x = s THEN 1 ELSE 0)
    BY <2>3, <2>4, <2>5, <2>7
  <2>. QED BY <2>2, <2>6, <2>7
<1>. QED BY <1>2, <1>3, PlacesCountedNext

\* A device that is down, or stopped and without a queue, frees the buffer.
LEMMA XmitRefusedStep == ASSUME OwnInv, NEW s \in Skb, XmitRefused(s) PROVE OwnInv'
<1>. USE DEF OwnInv
<1>0. /\ queue' = queue /\ ring' = ring /\ handed' = handed \cup {s} /\ s \notin handed
      /\ Free({s}, {})
  BY DEF XmitRefused, Hand
<1>1. Shapes'
  BY <1>0 DEF Shapes, Free
<1>2. ASSUME NEW x \in Skb
      PROVE  Times(queue', x) + Times(ring', x) + freed'[x]
               = IF x \in handed' THEN 1 ELSE 0
  <2>1. freed'[x] = freed[x] + (IF x = s THEN 1 ELSE 0)
    BY <1>0, Numbers DEF Free
  <2>. QED BY <1>0, <2>1, Numbers, PlacesCounted
<1>. QED BY <1>1, <1>2, PlacesCountedNext

\* The queue gives up the buffer exactly if cpmac_dev_tx() says that it took it.
LEMMA RestartStep == ASSUME OwnInv, qdisc_restart PROVE OwnInv'
<1>. USE DEF OwnInv
<1>. DEFINE s == Head(queue)
<1>0. /\ queue # << >> /\ handed' = handed
      /\ queue' = IF cpmac_dev_tx(s).ret = 0 THEN Tail(queue) ELSE queue
      /\ ring' = cpmac_dev_tx(s).ring
      /\ Free(cpmac_dev_tx(s).free, {})
  BY DEF qdisc_restart
<1>1. s \in Skb /\ Tail(queue) \in Seq(Skb)
  BY <1>0, TimesTail DEF Shapes
<1>2. \/ queue' = queue /\ ring' = ring /\ Free({}, {})
      \/ queue' = Tail(queue) /\ ring' = Append(ring, s) /\ Free({}, {})
      \/ queue' = Tail(queue) /\ ring' = ring /\ Free({s}, {})
  BY <1>0, TxTells
<1>3. Shapes'
  <2>1. handed' \subseteq Skb /\ queue' \in Seq(Skb)
    BY <1>0, <1>1 DEF Shapes
  <2>2. Append(ring, s) \in Seq(Skb)
    BY <1>1 DEF Shapes
  <2>3. ring' \in Seq(Skb)
    BY <1>2, <2>2 DEF Shapes
  <2>4. freed' \in [Skb -> Nat]
    BY <1>0, FreeKeeps
  <2>. QED BY <2>1, <2>3, <2>4 DEF Shapes
<1>4. ASSUME NEW x \in Skb
      PROVE  Times(queue', x) + Times(ring', x) + freed'[x]
               = IF x \in handed' THEN 1 ELSE 0
  <2>1. Times(Append(ring, s), x) = Times(ring, x) + (IF x = s THEN 1 ELSE 0)
    BY <1>1, TimesAppend DEF Shapes
  <2>2. Times(queue, x) = Times(Tail(queue), x) + (IF x = s THEN 1 ELSE 0)
    BY <1>0, TimesTail DEF Shapes
  <2>3. Times(Tail(queue), x) \in Nat
    BY <1>1, TimesType
  <2>4. \/ queue' = queue /\ ring' = ring /\ freed'[x] = freed[x]
        \/ queue' = Tail(queue) /\ ring' = Append(ring, s) /\ freed'[x] = freed[x]
        \/ queue' = Tail(queue) /\ ring' = ring
             /\ freed'[x] = freed[x] + (IF x = s THEN 1 ELSE 0)
    BY <1>2, Numbers DEF Free
  <2>5. Times(ring, x) \in Nat /\ freed[x] \in Nat
    BY Numbers
  <2>6. Times(queue, x) + Times(ring, x) + freed[x] = IF x \in handed THEN 1 ELSE 0
    BY PlacesCounted
  <2>. HIDE DEF s
  <2>7. Times(queue', x) + Times(ring', x) + freed'[x]
          = Times(queue, x) + Times(ring, x) + freed[x]
    <3>1. CASE queue' = queue /\ ring' = ring /\ freed'[x] = freed[x]
      BY <3>1, Zenon
    <3>2. CASE /\ queue' = Tail(queue) /\ ring' = Append(ring, s)
               /\ freed'[x] = freed[x]
      <4>1. Times(ring', x) = Times(ring, x) + (IF x = s THEN 1 ELSE 0)
        BY <2>1, <3>2, Zenon
      <4>2. Times(queue, x) = Times(queue', x) + (IF x = s THEN 1 ELSE 0)
              /\ Times(queue', x) \in Nat
        BY <2>2, <2>3, <3>2, Zenon
      <4>. QED BY <2>5, <3>2, <4>1, <4>2
    <3>3. CASE /\ queue' = Tail(queue) /\ ring' = ring
               /\ freed'[x] = freed[x] + (IF x = s THEN 1 ELSE 0)
      <4>1. Times(queue, x) = Times(queue', x) + (IF x = s THEN 1 ELSE 0)
              /\ Times(queue', x) \in Nat
        BY <2>2, <2>3, <3>3, Zenon
      <4>. QED BY <2>5, <3>3, <4>1
    <3>. QED BY <2>4, <3>1, <3>2, <3>3
  <2>8. handed' = handed
    BY <1>0
  <2>. QED BY <2>6, <2>7, <2>8
<1>. QED BY <1>3, <1>4, PlacesCountedNext

\* A packet leaves the ring when it is given back and freed.
LEMMA SendCompleteStep == ASSUME OwnInv, SendComplete PROVE OwnInv'
<1>. USE DEF OwnInv
<1>. DEFINE s == Head(ring)
<1>0. /\ ring # << >> /\ handed' = handed /\ queue' = queue /\ ring' = Tail(ring)
      /\ Free({s}, {})
  BY DEF SendComplete
<1>1. Tail(ring) \in Seq(Skb)
  BY <1>0, TimesTail DEF Shapes
<1>2. Shapes'
  BY <1>0, <1>1 DEF Shapes, Free
<1>3. ASSUME NEW x \in Skb
      PROVE  Times(queue', x) + Times(ring', x) + freed'[x]
               = IF x \in handed' THEN 1 ELSE 0
  <2>1. Times(ring, x) = Times(Tail(ring), x) + (IF x = s THEN 1 ELSE 0)
    BY <1>0, TimesTail DEF Shapes
  <2>2. Times(Tail(ring), x) \in Nat
    BY <1>1, TimesType
  <2>3. freed'[x] = freed[x] + (IF x = s THEN 1 ELSE 0)
    BY <1>0, Numbers DEF Free
  <2>. QED BY <1>0, <2>1, <2>2, <2>3, Numbers, PlacesCounted
<1>. QED BY <1>2, <1>3, PlacesCountedNext

\* A close frees what is in the queue and what is in the ring; since no buffer is in
\* both, or twice in one, each of them is freed once.
LEMMA DevCloseStep == ASSUME OwnInv, DevClose PROVE OwnInv'
<1>. USE DEF OwnInv
<1>0. /\ queue' = << >> /\ ring' = << >> /\ handed' = handed
      /\ Free(In(queue), In(ring))
  BY DEF DevClose
<1>1. Shapes'
  BY <1>0 DEF Shapes, Free
<1>2. ASSUME NEW x \in Skb
      PROVE  Times(queue', x) + Times(ring', x) + freed'[x]
               = IF x \in handed' THEN 1 ELSE 0
  <2>1. Times(queue, x) + Times(ring, x) + freed[x] = IF x \in handed THEN 1 ELSE 0
    BY PlacesCounted
  <2>2. Times(queue, x) \in {0, 1} /\ Times(ring, x) \in {0, 1}
    BY <2>1, Numbers
  <2>3. /\ x \in In(queue) <=> Times(queue, x) = 1
        /\ x \in In(ring) <=> Times(ring, x) = 1
    <3>1. queue \in Seq(Skb) /\ ring \in Seq(Skb)
      BY DEF Shapes
    <3>2. /\ Times(queue, x) = 0 <=> x \notin In(queue)
          /\ Times(ring, x) = 0 <=> x \notin In(ring)
      BY <3>1, TimesType
    <3>. QED BY <2>2, <3>2
  <2>4. freed'[x] = freed[x] + (IF x \in In(queue) THEN 1 ELSE 0)
                             + (IF x \in In(ring) THEN 1 ELSE 0)
    BY <1>0 DEF Free
  <2>5. freed'[x] = freed[x] + Times(queue, x) + Times(ring, x)
    BY <2>2, <2>3, <2>4, Numbers
  <2>6. Times(queue', x) = 0 /\ Times(ring', x) = 0
    BY <1>0, TimesEmpty
  <2>. QED BY <1>0, <2>1, <2>5, <2>6, Numbers
<1>. QED BY <1>1, <1>2, PlacesCountedNext

\* Every step keeps the invariant.
LEMMA TxNext == OwnInv /\ [Next]_vars => OwnInv'
<1>. SUFFICES ASSUME OwnInv, [Next]_vars PROVE OwnInv'
  OBVIOUS
<1>1. CASE UNCHANGED <<queue, ring, handed, freed>>
  BY <1>1 DEF OwnInv, Shapes, OneOwner, Places
<1>2. CASE \E s \in Skb : XmitQueued(s) \/ XmitDirect(s) \/ XmitRefused(s)
  BY <1>2, XmitQueuedStep, XmitDirectStep, XmitRefusedStep
<1>3. CASE qdisc_restart \/ SendComplete \/ DevClose
  BY <1>3, RestartStep, SendCompleteStep, DevCloseStep
<1>4. CASE QdiscRunEnds \/ net_tx_action \/ LinkUp \/ LinkDown \/ DevOpen
  BY <1>1, <1>4 DEF QdiscRunEnds, net_tx_action, LinkUp, LinkDown, DevOpen
<1>5. CASE UNCHANGED vars
  BY <1>1, <1>5 DEF vars
<1>. QED BY <1>2, <1>3, <1>4, <1>5 DEF Next

\* A buffer handed to dev_queue_xmit() is at every moment in the queue once, in the
\* ring once, or freed once: what cpmac_dev_tx() returns agrees with what it did on
\* every path, with a queue and without, and a close in between frees each once.
THEOREM OwnersUnique == Spec => []OneOwner
<1>1. OwnInv => OneOwner
  BY DEF OwnInv
<1>. QED BY <1>1, TxInit, TxNext, PTL DEF Spec

\* A list of the queueing discipline or the ring, one longer or one shorter.
LEMMA Lengths ==
  ASSUME NEW S, NEW q \in Seq(S)
  PROVE  /\ Len(q) \in Nat
         /\ \A s \in S : Len(Append(q, s)) = Len(q) + 1
         /\ q # << >> => Len(Tail(q)) \in Nat /\ Len(Tail(q)) <= Len(q)
  OBVIOUS

\* The part of the type invariant that is not about the lists.
Bounds ==
  /\ tx_queue_len \in QueueLens
  /\ {up, stopped, sched, running, Linked} \subseteq BOOLEAN
  /\ events \in 0 .. MaxEvents
  /\ Len(queue) <= tx_queue_len + 1 /\ Len(ring) <= RingSize

\* The ring grows only where halSend() found room in it.
LEMMA TxFits ==
  ASSUME NEW s \in Skb, ring \in Seq(Skb), Len(ring) <= RingSize
  PROVE  /\ Len(cpmac_dev_tx(s).ring) <= RingSize
         /\ (cpmac_dev_tx(s).ret = 0) \in BOOLEAN
<1>0. RingSize \in Nat
  BY LimitAssumption
<1>1. cpmac_dev_tx(s).ring = ring \/ (SendWorks /\ cpmac_dev_tx(s).ring = Append(ring, s))
  BY DEF cpmac_dev_tx, Taken, TurnedDown
<1>2. CASE cpmac_dev_tx(s).ring = ring
  BY <1>2
<1>3. CASE SendWorks /\ cpmac_dev_tx(s).ring = Append(ring, s)
  <2>1. Len(ring) \in Nat /\ Len(Append(ring, s)) = Len(ring) + 1 /\ Len(ring) < RingSize
    BY <1>3, Lengths DEF SendWorks
  <2>. QED BY <1>0, <1>3, <2>1
<1>. QED BY <1>1, <1>2, <1>3

\* Every step keeps to the length of the queue and of the ring.
LEMMA BoundsKept == OwnInv /\ Bounds /\ [Next]_vars => Bounds'
<1>. SUFFICES ASSUME OwnInv, Bounds, [Next]_vars PROVE Bounds'
  OBVIOUS
<1>0. /\ queue \in Seq(Skb) /\ ring \in Seq(Skb) /\ tx_queue_len \in Nat
      /\ RingSize \in Nat /\ MaxEvents \in Nat /\ Len(queue) \in Nat /\ Len(ring) \in Nat
  BY LimitAssumption DEF OwnInv, Shapes, Bounds
<1>. USE DEF Bounds, conf
<1>1. ASSUME NEW s \in Skb, XmitQueued(s) PROVE Bounds'
  <2>1. Len(Append(queue, s)) = Len(queue) + 1
    BY <1>0, Lengths
  <2>2. Len(queue') <= tx_queue_len + 1
    BY <1>0, <1>1, <2>1 DEF XmitQueued
  <2>. QED BY <1>1, <2>2 DEF XmitQueued
<1>2. ASSUME NEW s \in Skb, XmitDirect(s) PROVE Bounds'
  BY <1>0, <1>2, TxFits DEF XmitDirect
<1>3. ASSUME NEW s \in Skb, XmitRefused(s) PROVE Bounds'
  BY <1>3 DEF XmitRefused
<1>4. CASE qdisc_restart
  <2>1. Head(queue) \in Skb /\ Len(Tail(queue)) \in Nat /\ Len(Tail(queue)) <= Len(queue)
    BY <1>0, <1>4, Lengths, TimesTail DEF qdisc_restart
  <2>2. Len(ring') <= RingSize
    BY <1>0, <1>4, <2>1, TxFits DEF qdisc_restart
  <2>3. Len(queue') <= tx_queue_len + 1
    BY <1>0, <1>4, <2>1 DEF qdisc_restart
  <2>. QED BY <1>4, <2>2, <2>3 DEF qdisc_restart
<1>5. CASE QdiscRunEnds \/ net_tx_action
  BY <1>5 DEF QdiscRunEnds, net_tx_action
<1>6. CASE SendComplete
  <2>1. Len(Tail(ring)) \in Nat /\ Len(Tail(ring)) <= Len(ring)
    BY <1>0, <1>6, Lengths DEF SendComplete
  <2>2. Len(ring') <= RingSize
    BY <1>0, <1>6, <2>1 DEF SendComplete
  <2>. QED BY <1>6, <2>2 DEF SendComplete
<1>7. CASE LinkUp
  <2>1. events' \in 0 .. MaxEvents
    BY <1>0, <1>7 DEF LinkUp
  <2>2. {up', stopped', sched', running', Linked'} \subseteq BOOLEAN
    BY <1>7, Zenon DEF LinkUp
  <2>. QED BY <1>7, <2>1, <2>2 DEF LinkUp
<1>8. CASE LinkDown
  <2>1. events' \in 0 .. MaxEvents
    BY <1>0, <1>8 DEF LinkDown
  <2>2. {up', stopped', sched', running', Linked'} \subseteq BOOLEAN
    BY <1>8, Zenon DEF LinkDown
  <2>. QED BY <1>8, <2>1, <2>2 DEF LinkDown
<1>9. CASE DevOpen
  <2>1. events' \in 0 .. MaxEvents
    BY <1>0, <1>9 DEF DevOpen
  <2>2. {up', stopped', sched', running', Linked'} \subseteq BOOLEAN
    BY <1>9, Zenon DEF DevOpen
  <2>. QED BY <1>9, <2>1, <2>2 DEF DevOpen
<1>10. CASE DevClose
  <2>1. events' \in 0 .. MaxEvents
    BY <1>0, <1>10 DEF DevClose
  <2>2. {up', stopped', sched', running', Linked'} \subseteq BOOLEAN
    BY <1>10, Zenon DEF DevClose
  <2>3. Len(queue') = 0 /\ Len(ring') = 0
    BY <1>10 DEF DevClose
  <2>4. tx_queue_len' = tx_queue_len
    BY <1>10 DEF DevClose
  <2>. QED BY <1>0, <2>1, <2>2, <2>3, <2>4
<1>11. CASE UNCHANGED vars
  BY <1>11 DEF vars
<1>. QED BY <1>1, <1>2, <1>3, <1>4, <1>5, <1>6, <1>7, <1>8, <1>9,
            <1>10, <1>11 DEF Next

\* The queue exceeds tx_queue_len by no more than the buffer that qdisc_restart()
\* puts back, the ring never holds more than its size, and no buffer is freed twice.
THEOREM SendTypes == Spec => []TypeOK
<1>1. Init => Bounds
  <2>. SUFFICES ASSUME Init PROVE Bounds
    OBVIOUS
  <2>1. {up, stopped, sched, running, Linked} \subseteq BOOLEAN
    BY Zenon DEF Init
  <2>2. Len(queue) = 0 /\ Len(ring) = 0
    BY DEF Init
  <2>3. /\ tx_queue_len \in QueueLens /\ tx_queue_len \in Nat /\ RingSize \in Nat
        /\ MaxEvents \in Nat /\ events = 0
    BY LimitAssumption DEF Init
  <2>. QED BY <2>1, <2>2, <2>3 DEF Bounds
<1>2. OwnInv /\ Bounds /\ TxIntDisable \in BOOLEAN => TypeOK
  <2>. SUFFICES ASSUME OwnInv, Bounds, TxIntDisable \in BOOLEAN PROVE TypeOK
    OBVIOUS
  <2>1. ASSUME NEW s \in Skb PROVE freed[s] \in 0 .. 2
    BY Numbers, PlacesCounted DEF OwnInv
  <2>2. freed \in [Skb -> 0 .. 2]
    BY <2>1 DEF OwnInv, Shapes
  <2>. QED BY <2>2 DEF TypeOK, OwnInv, Shapes, Bounds
<1>3. Init => TxIntDisable \in BOOLEAN
  BY Zenon DEF Init
<1>4. TxIntDisable \in BOOLEAN /\ [Next]_vars => (TxIntDisable \in BOOLEAN)'
  <2>. SUFFICES ASSUME TxIntDisable \in BOOLEAN, [Next]_vars
                PROVE  TxIntDisable' = TxIntDisable
    OBVIOUS
  <2>. QED BY DEF Next, vars, conf, XmitQueued, XmitDirect, XmitRefused,
     qdisc_restart, QdiscRunEnds, net_tx_action, SendComplete, LinkUp, LinkDown,
     DevClose, DevOpen
<1>. QED BY <1>1, <1>2, <1>3, <1>4, TxInit, TxNext, BoundsKept, PTL DEF Spec
=============================================================================

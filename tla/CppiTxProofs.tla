---------------------------- MODULE CppiTxProofs ----------------------------
(***************************************************************************)
(* The safety of the transmit ring, and that it implements TxFifo, for     *)
(* every number of TCBs, fragments and packets.                            *)
(***************************************************************************)
EXTENDS CppiTx, SequenceTheorems, FiniteSetTheorems, WellFoundedInduction, TLAPS

\* The null pointer is no TCB.
LEMMA NullIsNoTcb == NULL \notin Tcb
  BY TxAssumption DEF TxAssumption, NULL, Tcb

(* What FillTcbs() and the two list updates of halSend() do, by position.  *)

\* Positions of a pool that loses its first n TCBs and of the chain made of
\* them (the TcbPool updates of halSend()).
LEMMA PoolSplit ==
  ASSUME NEW S, NEW p \in Seq(S), NEW n \in 1 .. Len(p)
  PROVE  /\ SubSeq(p, 1, n) \in Seq(S)
         /\ Len(SubSeq(p, 1, n)) = n
         /\ \A i \in 1 .. n : SubSeq(p, 1, n)[i] = p[i]
         /\ SubSeq(p, n + 1, Len(p)) \in Seq(S)
         /\ Len(SubSeq(p, n + 1, Len(p))) = Len(p) - n
         /\ \A i \in 1 .. Len(p) - n : SubSeq(p, n + 1, Len(p))[i] = p[n + i]
<1>1. Len(p) \in Nat /\ n \in Int /\ \A i \in 1 .. Len(p) : p[i] \in S
  BY SMT
<1>2. \A i \in 1 .. n : p[i] \in S
  BY <1>1
<1>3. \A i \in n + 1 .. Len(p) : p[i] \in S
  BY <1>1
<1>4. /\ SubSeq(p, 1, n) \in Seq(S)
      /\ Len(SubSeq(p, 1, n)) = IF 1 <= n THEN n - 1 + 1 ELSE 0
      /\ \A i \in 1 .. n - 1 + 1 : SubSeq(p, 1, n)[i] = p[1 + i - 1]
  BY <1>1, <1>2, SubSeqProperties, SMT
<1>5. /\ SubSeq(p, n + 1, Len(p)) \in Seq(S)
      /\ Len(SubSeq(p, n + 1, Len(p))) = IF n + 1 <= Len(p) THEN Len(p) - (n + 1) + 1 ELSE 0
      /\ \A i \in 1 .. Len(p) - (n + 1) + 1 :
           SubSeq(p, n + 1, Len(p))[i] = p[(n + 1) + i - 1]
  BY <1>1, <1>3, SubSeqProperties, SMT
<1> QED
  BY <1>1, <1>4, <1>5

\* Positions of a queue that gets a chain appended (TxActQueue in halSend()),
\* and of a stack that gets one pushed (TcbPool in TxInt()).
LEMMA ConcatAt ==
  ASSUME NEW S, NEW s \in Seq(S), NEW t \in Seq(S)
  PROVE  /\ s \o t \in Seq(S)
         /\ Len(s \o t) = Len(s) + Len(t)
         /\ \A i \in 1 .. Len(s) : (s \o t)[i] = s[i]
         /\ \A i \in 1 .. Len(t) : (s \o t)[Len(s) + i] = t[i]
<1>1. Len(s) \in Nat /\ Len(t) \in Nat
  BY SMT
<1>2. /\ s \o t \in Seq(S)
      /\ Len(s \o t) = Len(s) + Len(t)
      /\ \A i \in 1 .. Len(s) + Len(t) : (s \o t)[i] =
                     IF i <= Len(s) THEN s[i] ELSE t[i - Len(s)]
  BY ConcatProperties
<1> QED
  BY <1>1, <1>2

(* halSend(), by position: packet n of the pool moves behind the queue.    *)

MovedToQueue(n) ==
  /\ n \in 1 .. Len(TcbPool)
  /\ TcbPool' \in Seq(Tcb) /\ TxActQueue' \in Seq(Tcb)
  /\ Len(TcbPool') = Len(TcbPool) - n
  /\ Len(TxActQueue') = Len(TxActQueue) + n
  /\ \A i \in 1 .. Len(TcbPool) - n : TcbPool'[i] = TcbPool[n + i]
  /\ \A i \in 1 .. Len(TxActQueue) : TxActQueue'[i] = TxActQueue[i]
  /\ \A i \in 1 .. n : TxActQueue'[Len(TxActQueue) + i] = TcbPool[i]

Filled(n) ==
  /\ \A i \in 1 .. n - 1 : HNext'[TcbPool[i]] = TcbPool[i + 1]
  /\ HNext'[TcbPool[n]] = NULL
  /\ \A i \in 1 .. n : Own'[TcbPool[i]] /\ ~Eoq'[TcbPool[i]]
  /\ \A i \in 1 .. n : Eof'[TcbPool[i]] <=> i = n
  /\ Eop'[TcbPool[1]] = TcbPool[n]
  /\ \A i \in 1 .. Len(TxActQueue) :
       LET t == TxActQueue[i]
       IN  /\ Own'[t] = Own[t] /\ Eof'[t] = Eof[t] /\ Eoq'[t] = Eoq[t]
           /\ Eop'[t] = Eop[t]
           /\ HNext'[t] = IF i = Len(TxActQueue) THEN TcbPool[1] ELSE HNext[t]
  /\ HNext' \in [Tcb -> Ptr] /\ Eop' \in [Tcb -> Ptr]
  /\ Own' \in [Tcb -> BOOLEAN] /\ Eof' \in [Tcb -> BOOLEAN]
  /\ Eoq' \in [Tcb -> BOOLEAN] /\ OsInfo' \in [Tcb -> 0 .. MaxSend]

\* Both list updates of halSend() move the first n TCBs of the pool.
LEMMA SendMoves ==
  ASSUME TypeOK, NEW n \in 1 .. Len(TcbPool),
         TcbPool' = SubSeq(TcbPool, n + 1, Len(TcbPool)),
         TxActQueue' = TxActQueue \o Frags(n)
  PROVE  MovedToQueue(n)
<1>1. TcbPool \in Seq(Tcb) /\ TxActQueue \in Seq(Tcb)
  BY DEF TypeOK
<1>2. /\ Frags(n) \in Seq(Tcb) /\ Len(Frags(n)) = n
      /\ \A i \in 1 .. n : Frags(n)[i] = TcbPool[i]
      /\ TcbPool' \in Seq(Tcb) /\ Len(TcbPool') = Len(TcbPool) - n
      /\ \A i \in 1 .. Len(TcbPool) - n : TcbPool'[i] = TcbPool[n + i]
  BY <1>1, PoolSplit DEF Frags
<1>3. /\ TxActQueue' \in Seq(Tcb)
      /\ Len(TxActQueue') = Len(TxActQueue) + n
      /\ \A i \in 1 .. Len(TxActQueue) : TxActQueue'[i] = TxActQueue[i]
      /\ \A i \in 1 .. n : TxActQueue'[Len(TxActQueue) + i] = TcbPool[i]
  <2> DEFINE f == Frags(n)
             q == TxActQueue
  <2>1. f \in Seq(Tcb) /\ q \in Seq(Tcb) /\ Len(f) = n
    BY <1>1, <1>2
  <2> HIDE DEF f, q
  <2>2. /\ q \o f \in Seq(Tcb)
        /\ Len(q \o f) = Len(q) + Len(f)
        /\ \A i \in 1 .. Len(q) : (q \o f)[i] = q[i]
        /\ \A i \in 1 .. Len(f) : (q \o f)[Len(q) + i] = f[i]
    BY <2>1, ConcatAt
  <2> QED
    BY <2>1, <2>2, <1>2 DEF f, q
<1> QED
  BY <1>2, <1>3 DEF MovedToQueue

\* The fragment loop of halSend(): a NULL-terminated chain, and no other TCB
\* of the queue changes except the HNext of the old tail.
LEMMA SendFills ==
  ASSUME TypeOK, TcbsConserved, nSend < MaxSend,
         NEW n \in 1 .. Len(TcbPool), NEW tail,
         IF TxActQueue = <<>> THEN tail = NULL
                              ELSE tail = TxActQueue[Len(TxActQueue)],
         FillTcbs(n, tail)
  PROVE  Filled(n)
<1> DEFINE f == Frags(n)
           F == {f[i] : i \in 1 .. n}
           N == Len(TxActQueue)
<1>1. /\ TcbPool \in Seq(Tcb) /\ TxActQueue \in Seq(Tcb)
      /\ n \in Nat \ {0} /\ Len(TcbPool) \in Nat /\ N \in Nat
  BY DEF TypeOK
<1>2. \A i \in 1 .. n : f[i] = TcbPool[i]
  BY <1>1, PoolSplit DEF Frags
<1>3. /\ \A i \in 1 .. n : TcbPool[i] \in Tcb
      /\ \A i \in 1 .. N : TxActQueue[i] \in Tcb
  BY <1>1
<1>4. \A i, j \in 1 .. n : TcbPool[i] = TcbPool[j] => i = j
  BY <1>1 DEF TcbsConserved
<1>5. \A i \in 1 .. N : TxActQueue[i] \notin F
  BY <1>1, <1>2 DEF TcbsConserved
<1>6. \A i \in 1 .. n : TcbPool[i] \in F
  BY <1>2
<1>7. \A i \in 1 .. n : (CHOOSE j \in 1 .. n : f[j] = TcbPool[i]) = i
  BY <1>2, <1>4
<1>8. \A t \in F : \E i \in 1 .. n : t = TcbPool[i]
  BY <1>2
<1>9. 1 \in 1 .. n /\ n \in 1 .. n
  BY <1>1
<1> HIDE DEF f, F
<1>10. /\ \A t \in Tcb : HNext'[t] =
                     IF t = f[n] THEN NULL
                     ELSE IF t \in F THEN f[1 + (CHOOSE i \in 1 .. n : f[i] = t)]
                     ELSE IF t = tail THEN f[1]
                     ELSE HNext[t]
       /\ \A t \in Tcb : Own'[t] = IF t \in F THEN TRUE ELSE Own[t]
       /\ \A t \in Tcb : Eof'[t] = IF t \in F THEN t = f[n] ELSE Eof[t]
       /\ \A t \in Tcb : Eoq'[t] = IF t \in F THEN FALSE ELSE Eoq[t]
       /\ \A t \in Tcb : OsInfo'[t] = IF t \in F THEN nSend + 1 ELSE OsInfo[t]
       /\ Eop' = [Eop EXCEPT ![f[1]] = f[n]]
  BY DEF FillTcbs, f, F
<1>20. /\ HNext' = [t \in Tcb |-> HNext'[t]]
       /\ OsInfo' = [t \in Tcb |-> OsInfo'[t]]
       /\ Own' = [t \in Tcb |-> Own'[t]]
       /\ Eof' = [t \in Tcb |-> Eof'[t]]
       /\ Eoq' = [t \in Tcb |-> Eoq'[t]]
  BY DEF FillTcbs
<1>11. /\ HNext'[TcbPool[n]] = NULL
       /\ \A i \in 1 .. n : Own'[TcbPool[i]] /\ ~Eoq'[TcbPool[i]]
  BY <1>10, <1>2, <1>3, <1>6, <1>9
<1>12. \A i \in 1 .. n - 1 : HNext'[TcbPool[i]] = TcbPool[i + 1]
  <2> SUFFICES ASSUME NEW i \in 1 .. n - 1
               PROVE  HNext'[TcbPool[i]] = TcbPool[i + 1]
    OBVIOUS
  <2>1. i \in 1 .. n /\ i + 1 \in 1 .. n /\ i # n
    BY <1>1
  <2>2. TcbPool[i] # f[n] /\ TcbPool[i] \in F /\ TcbPool[i] \in Tcb
    BY <2>1, <1>2, <1>3, <1>4, <1>6, <1>9
  <2>3. HNext'[TcbPool[i]] = f[1 + (CHOOSE j \in 1 .. n : f[j] = TcbPool[i])]
    BY <2>2, <1>10
  <2>4. HNext'[TcbPool[i]] = f[1 + i]
    BY <2>1, <2>3, <1>7
  <2> QED
    BY <2>1, <2>4, <1>2, <1>1
<1>13. \A i \in 1 .. n : Eof'[TcbPool[i]] <=> i = n
  <2> SUFFICES ASSUME NEW i \in 1 .. n PROVE Eof'[TcbPool[i]] <=> i = n
    OBVIOUS
  <2>1. TcbPool[i] = f[n] <=> i = n
    BY <1>2, <1>4, <1>9
  <2>2. Eof'[TcbPool[i]] = (TcbPool[i] = f[n])
    BY <1>10, <1>3, <1>6
  <2> QED
    BY <2>1, <2>2
<1>14. Eop'[TcbPool[1]] = TcbPool[n]
  BY <1>10, <1>2, <1>3, <1>9 DEF TypeOK
<1>15. \A i \in 1 .. N :
         LET t == TxActQueue[i]
         IN  /\ Own'[t] = Own[t] /\ Eof'[t] = Eof[t] /\ Eoq'[t] = Eoq[t]
             /\ Eop'[t] = Eop[t]
             /\ HNext'[t] = IF i = Len(TxActQueue) THEN TcbPool[1] ELSE HNext[t]
  <2> SUFFICES ASSUME NEW i \in 1 .. N
               PROVE  LET t == TxActQueue[i]
                      IN  /\ Own'[t] = Own[t] /\ Eof'[t] = Eof[t] /\ Eoq'[t] = Eoq[t]
                          /\ Eop'[t] = Eop[t]
                          /\ HNext'[t] = IF i = N THEN TcbPool[1] ELSE HNext[t]
    OBVIOUS
  <2> DEFINE t == TxActQueue[i]
  <2>1. t \in Tcb /\ t \notin F /\ t # f[n] /\ t # f[1]
    BY <1>3, <1>5, <1>6, <1>2, <1>9
  <2>2. t = tail <=> i = N
    BY <1>1 DEF TcbsConserved
  <2>3. Own'[t] = Own[t] /\ Eof'[t] = Eof[t] /\ Eoq'[t] = Eoq[t]
    BY <2>1, <1>10
  <2>4. Eop'[t] = Eop[t]
    BY <2>1, <1>10 DEF TypeOK
  <2>5. HNext'[t] = IF t = tail THEN f[1] ELSE HNext[t]
    BY <2>1, <1>10
  <2> QED
    BY <2>2, <2>3, <2>4, <2>5, <1>2, <1>9
<1>16. HNext' \in [Tcb -> Ptr]
  <2> SUFFICES ASSUME NEW t \in Tcb PROVE HNext'[t] \in Ptr
    BY <1>20
  <2>1. CASE t \in F
    <3>1. PICK i \in 1 .. n : t = TcbPool[i]
      BY <2>1, <1>8
    <3>2. CASE i = n
      BY <3>1, <3>2, <1>11 DEF Ptr
    <3>3. CASE i # n
      <4>1. i \in 1 .. n - 1 /\ i + 1 \in 1 .. n
        BY <3>3, <1>1
      <4> QED
        BY <4>1, <3>1, <1>12, <1>3 DEF Ptr
    <3> QED
      BY <3>2, <3>3
  <2>2. CASE t \notin F
    <3>1. f[1] \in Ptr /\ f[n] \in F
      BY <1>2, <1>3, <1>6, <1>9 DEF Ptr
    <3>2. HNext'[t] = IF t = tail THEN f[1] ELSE HNext[t]
      BY <2>2, <3>1, <1>10
    <3>3. HNext[t] \in Ptr
      BY DEF TypeOK
    <3> QED
      BY <3>1, <3>2, <3>3
  <2> QED
    BY <2>1, <2>2
<1>17. /\ Own' \in [Tcb -> BOOLEAN] /\ Eof' \in [Tcb -> BOOLEAN]
       /\ Eoq' \in [Tcb -> BOOLEAN]
  <2>1. \A t \in Tcb : Own[t] \in BOOLEAN /\ Eof[t] \in BOOLEAN /\ Eoq[t] \in BOOLEAN
    BY DEF TypeOK
  <2>2. \A t \in Tcb : Own'[t] \in BOOLEAN /\ Eof'[t] \in BOOLEAN /\ Eoq'[t] \in BOOLEAN
    BY <2>1, <1>10
  <2> QED
    BY <2>2, <1>20
<1>18. OsInfo' \in [Tcb -> 0 .. MaxSend]
  <2>1. nSend + 1 \in 0 .. MaxSend
    BY TxAssumption DEF TypeOK, TxAssumption
  <2>2. \A t \in Tcb : OsInfo'[t] \in 0 .. MaxSend
    BY <2>1, <1>10 DEF TypeOK
  <2> QED
    BY <2>2, <1>20
<1>19. Eop' \in [Tcb -> Ptr]
  BY <1>10, <1>2, <1>3, <1>9 DEF TypeOK, Ptr
<1> QED
  BY <1>11, <1>12, <1>13, <1>14, <1>15, <1>16, <1>17, <1>18, <1>19 DEF Filled

\* halSend() keeps the TCBs partitioned: n of them change list.
LEMMA SendConserves ==
  ASSUME TypeOK, TcbsConserved, NEW n, MovedToQueue(n)
  PROVE  TcbsConserved'
<1> DEFINE P == Len(TcbPool)
           N == Len(TxActQueue)
<1>1. P \in Nat /\ N \in Nat /\ n \in 1 .. P
  <2>1. TcbPool \in Seq(Tcb) /\ TxActQueue \in Seq(Tcb)
    BY DEF TypeOK
  <2>2. n \in 1 .. P
    BY DEF MovedToQueue
  <2> QED
    BY <2>1, <2>2
<1>2. Len(TcbPool') = P - n /\ Len(TxActQueue') = N + n
  BY DEF MovedToQueue
<1>3. \A i \in 1 .. P - n : TcbPool'[i] = TcbPool[n + i]
  BY DEF MovedToQueue
<1>4. \A i \in 1 .. N + n :
        TxActQueue'[i] = IF i <= N THEN TxActQueue[i] ELSE TcbPool[i - N]
  <2> SUFFICES ASSUME NEW i \in 1 .. N + n
               PROVE  TxActQueue'[i] = IF i <= N THEN TxActQueue[i]
                                                 ELSE TcbPool[i - N]
    OBVIOUS
  <2>1. CASE i <= N
    <3>1. i \in 1 .. N
      BY <1>1, <2>1
    <3> QED
      BY <2>1, <3>1 DEF MovedToQueue
  <2>2. CASE ~(i <= N)
    <3>1. PICK j \in 1 .. n : i = N + j /\ j = i - N
      BY <1>1, <2>2
    <3>2. TxActQueue'[N + j] = TcbPool[j]
      BY DEF MovedToQueue
    <3> QED
      BY <2>2, <3>1, <3>2
  <2> QED
    BY <2>1, <2>2
<1> HIDE DEF P, N
<1>5. Len(TcbPool') + Len(TxActQueue') = TxNumBuffers
  BY <1>1, <1>2 DEF TcbsConserved, P, N
<1>6. /\ \A i, j \in 1 .. P : TcbPool[i] = TcbPool[j] => i = j
      /\ \A i, j \in 1 .. N : TxActQueue[i] = TxActQueue[j] => i = j
      /\ \A i \in 1 .. P, j \in 1 .. N : TcbPool[i] # TxActQueue[j]
  BY DEF TcbsConserved, P, N
<1>7. \A i, j \in 1 .. P - n : TcbPool'[i] = TcbPool'[j] => i = j
  BY <1>1, <1>3, <1>6
<1>8. \A i, j \in 1 .. N + n : TxActQueue'[i] = TxActQueue'[j] => i = j
  BY <1>1, <1>4, <1>6
<1>9. \A i \in 1 .. P - n, j \in 1 .. N + n : TcbPool'[i] # TxActQueue'[j]
  BY <1>1, <1>3, <1>4, <1>6
<1> QED
  BY <1>2, <1>5, <1>7, <1>8, <1>9 DEF TcbsConserved

\* ... and the queue a sequence of whole packets whose hardware chain follows
\* the software list.
LEMMA SendKeepsPackets ==
  ASSUME TypeOK, TcbsConserved, PacketsWhole, ChainFollowsQueue,
         NEW n, MovedToQueue(n), Filled(n)
  PROVE  PacketsWhole' /\ ChainFollowsQueue'
<1> DEFINE P == Len(TcbPool)
           q == TxActQueue
<1>0. PICK N \in Nat : N = Len(TxActQueue)
  BY DEF TypeOK
<1>1. P \in Nat /\ N \in Nat /\ n \in 1 .. P /\ Len(TxActQueue') = N + n
  BY <1>0 DEF TypeOK, MovedToQueue
<1>2. \A i \in 1 .. N : TxActQueue'[i] = q[i]
  BY <1>0 DEF MovedToQueue
<1>3. \A i \in 1 .. n : TxActQueue'[N + i] = TcbPool[i]
  BY <1>0 DEF MovedToQueue
<1>4. /\ \A i \in 1 .. N : Eof'[q[i]] = Eof[q[i]] /\ Eop'[q[i]] = Eop[q[i]]
      /\ \A i \in 1 .. N : HNext'[q[i]] = IF i = N THEN TcbPool[1] ELSE HNext[q[i]]
  BY <1>0 DEF Filled
<1>5. /\ \A i \in 1 .. n : Eof'[TcbPool[i]] <=> i = n
      /\ Eop'[TcbPool[1]] = TcbPool[n]
      /\ \A i \in 1 .. n - 1 : HNext'[TcbPool[i]] = TcbPool[i + 1]
      /\ HNext'[TcbPool[n]] = NULL
  BY <1>0 DEF Filled
<1>6. N > 0 <=> q # <<>>
  BY <1>0 DEF TypeOK
<1>7. /\ N > 0 => Eof[q[N]] /\ HNext[q[N]] = NULL
      /\ \A i \in 1 .. N - 1 : HNext[q[i]] = q[i + 1]
  BY <1>0, <1>6 DEF PacketsWhole, ChainFollowsQueue
<1>8. Eof'[TxActQueue'[N + n]] /\ HNext'[TxActQueue'[N + n]] = NULL
  BY <1>1, <1>3, <1>5
<1>9. \A i \in 1 .. N + n - 1 : HNext'[TxActQueue'[i]] = TxActQueue'[i + 1]
  <2> SUFFICES ASSUME NEW i \in 1 .. N + n - 1
               PROVE  HNext'[TxActQueue'[i]] = TxActQueue'[i + 1]
    OBVIOUS
  <2>1. CASE i < N
    BY <2>1, <1>1, <1>2, <1>4, <1>7
  <2>2. CASE i = N
    BY <2>2, <1>1, <1>2, <1>3, <1>4
  <2>3. CASE i > N
    <3>1. i - N \in 1 .. n - 1 /\ i - N \in 1 .. n /\ i + 1 - N \in 1 .. n
      BY <2>3, <1>1
    <3>2. TxActQueue'[i] = TcbPool[i - N] /\ TxActQueue'[i + 1] = TcbPool[i + 1 - N]
      BY <3>1, <1>1, <1>3
    <3>3. HNext'[TcbPool[i - N]] = TcbPool[(i - N) + 1]
      BY <3>1, <1>5
    <3> QED
      BY <3>1, <3>2, <3>3, <1>1
  <2> QED
    BY <2>1, <2>2, <2>3, <1>1
<1>10. ASSUME NEW i \in 1 .. N + n, SopAt(i)'
       PROVE  \E e \in i .. N + n :
                 /\ Eop'[TxActQueue'[i]] = TxActQueue'[e]
                 /\ Eof'[TxActQueue'[e]]
                 /\ NoEof(i, e - 1)'
  <2>1. CASE i <= N
    <3>1. i \in 1 .. N /\ SopAt(i)
      BY <2>1, <1>10, <1>1, <1>2, <1>4 DEF SopAt
    <3>2. PICK e \in i .. N : Eop[q[i]] = q[e] /\ Eof[q[e]] /\ NoEof(i, e - 1)
      BY <1>0, <3>1 DEF PacketsWhole
    <3>3. Eop'[TxActQueue'[i]] = TxActQueue'[e] /\ Eof'[TxActQueue'[e]]
      BY <3>1, <3>2, <1>1, <1>2, <1>4
    <3>4. NoEof(i, e - 1)'
      BY <3>1, <3>2, <1>1, <1>2, <1>4 DEF NoEof
    <3> QED
      BY <3>1, <3>2, <3>3, <3>4, <1>1
  <2>2. CASE i > N
    <3>1. i = N + 1
      <4> SUFFICES ASSUME i > N + 1 PROVE FALSE
        BY <2>2, <1>1
      <4>1. i - 1 - N \in 1 .. n /\ i - 1 - N # n
        BY <1>1
      <4>2. TxActQueue'[i - 1] = TcbPool[i - 1 - N]
        BY <4>1, <1>1, <1>3
      <4>3. i # 1 /\ ~Eof'[TxActQueue'[i - 1]]
        BY <4>1, <4>2, <1>1, <1>5
      <4> QED
        BY <4>3, <1>10 DEF SopAt
    <3>2. PICK e \in i .. N + n : e = N + n
      BY <3>1, <1>1
    <3>3. Eop'[TxActQueue'[i]] = TxActQueue'[e] /\ Eof'[TxActQueue'[e]]
      BY <3>1, <3>2, <1>1, <1>3, <1>5, <1>8
    <3>4. NoEof(i, e - 1)'
      <4> SUFFICES ASSUME NEW m \in i .. e - 1
                   PROVE  ~Eof'[TxActQueue'[m]]
        BY DEF NoEof
      <4>1. m - N \in 1 .. n /\ m - N # n
        BY <3>1, <3>2, <1>1
      <4>2. TxActQueue'[m] = TcbPool[m - N]
        BY <4>1, <1>1, <1>3
      <4> QED
        BY <4>1, <4>2, <1>5
    <3> QED
      BY <3>3, <3>4
  <2> QED
    BY <2>1, <2>2, <1>1
<1>11. PacketsWhole'
  BY <1>1, <1>8, <1>10 DEF PacketsWhole
<1>12. ChainFollowsQueue'
  BY <1>1, <1>8, <1>9 DEF ChainFollowsQueue
<1> QED
  BY <1>11, <1>12

\* A packet linked behind the queue of a channel with packets left does not
\* disturb what the engine knows: it is done to the same place, and stopped,
\* fetching or sending there.
LEMMA SendKeepsHw ==
  ASSUME TypeOK, TcbsConserved, PacketsWhole, HwInQueue, TxActQueue # <<>>,
         NEW n, MovedToQueue(n), Filled(n), UNCHANGED dma
  PROVE  HwInQueue'
<1>0. PICK N \in Nat : N = Len(TxActQueue)
  BY DEF TypeOK
<1> DEFINE q == TxActQueue
<1>1. N > 0 /\ n \in Nat \ {0} /\ Len(TxActQueue') = N + n
  BY <1>0 DEF TypeOK, MovedToQueue
<1>2. \A i \in 1 .. N : TxActQueue'[i] = q[i]
  BY <1>0 DEF MovedToQueue
<1>3. \A i \in 1 .. n : TxActQueue'[N + i] = TcbPool[i]
  BY <1>0 DEF MovedToQueue
<1>4. \A i \in 1 .. N : /\ Eof'[q[i]] = Eof[q[i]] /\ Own'[q[i]] = Own[q[i]]
                        /\ Eoq'[q[i]] = Eoq[q[i]]
  BY <1>0 DEF Filled
<1>5. /\ \A i \in 1 .. n : Eof'[TcbPool[i]] <=> i = n
      /\ \A i \in 1 .. n : Own'[TcbPool[i]] /\ ~Eoq'[TcbPool[i]]
  BY DEF Filled
<1>6. Eof[q[N]]
  BY <1>0 DEF PacketsWhole
<1>7. PICK d \in 0 .. N : HwDoneTo(d)
  BY <1>0 DEF HwInQueue
<1>8. d \in 0 .. N + n /\ (d > 0 => Eof'[TxActQueue'[d]])
  BY <1>1, <1>2, <1>4, <1>7 DEF HwDoneTo
<1>9. \A i \in 1 .. N : SopAt(i)' => SopAt(i)
  BY <1>1, <1>2, <1>4 DEF SopAt
<1>10. ASSUME NEW i \in 1 .. N + n, SopAt(i)'
       PROVE  Own'[TxActQueue'[i]] <=> i > d
  <2>1. CASE i <= N
    BY <2>1, <1>0, <1>1, <1>2, <1>4, <1>7, <1>9, <1>10 DEF HwDoneTo
  <2>2. CASE i > N
    <3>1. i - N \in 1 .. n /\ i > d
      BY <2>2, <1>1
    <3>2. TxActQueue'[i] = TcbPool[i - N]
      BY <3>1, <1>1, <1>3
    <3> QED
      BY <3>1, <3>2, <1>5
  <2> QED
    BY <2>1, <2>2, <1>1
<1>11. HwStopped(d) => HwStopped(d)'
  BY <1>0, <1>1, <1>2, <1>4 DEF HwStopped, dma
<1>12. ASSUME NEW i \in 1 .. N + n, Eoq'[TxActQueue'[i]]
       PROVE  i = d /\ HwStopped(d)'
  <2>1. CASE i <= N
    BY <2>1, <1>0, <1>1, <1>2, <1>4, <1>7, <1>11, <1>12 DEF HwDoneTo
  <2>2. CASE i > N
    <3>1. i - N \in 1 .. n
      BY <2>2, <1>1
    <3>2. TxActQueue'[i] = TcbPool[i - N]
      BY <3>1, <1>1, <1>3
    <3> QED
      BY <3>1, <3>2, <1>5, <1>12
  <2> QED
    BY <2>1, <2>2, <1>1
<1>13. \/ HwStopped(d)'
       \/ \E c \in d + 1 .. N + n : HwFetching(d, c)' \/ HwSending(d, c)'
  <2>1. CASE HwStopped(d)
    BY <2>1, <1>11
  <2>2. ASSUME NEW c \in d + 1 .. N, HwFetching(d, c)
        PROVE  HwFetching(d, c)'
    <3>1. NoEof(d + 1, c - 1)'
      BY <2>2, <1>1, <1>2, <1>4 DEF HwFetching, NoEof
    <3>2. TxActQueue'[c] = q[c] /\ TxActQueue'[d + 1] = q[d + 1]
      BY <1>1, <1>2
    <3> QED
      BY <2>2, <3>1, <3>2 DEF HwFetching, dma
  <2>3. ASSUME NEW c \in d + 1 .. N, HwSending(d, c)
        PROVE  HwSending(d, c)'
    <3>1. NoEof(d + 1, c - 1)'
      BY <2>3, <1>1, <1>2, <1>4 DEF HwSending, NoEof
    <3>2. TxActQueue'[c] = q[c] /\ TxActQueue'[d + 1] = q[d + 1] /\ Eof'[q[c]] = Eof[q[c]]
      BY <1>1, <1>2, <1>4
    <3>3. c < N => c < N + n /\ TxActQueue'[c + 1] = q[c + 1]
      BY <1>1, <1>2
    <3> QED
      BY <2>3, <3>1, <3>2, <3>3, <1>0, <1>1 DEF HwSending, dma
  <2>4. \A c \in d + 1 .. N : c \in d + 1 .. N + n
    BY <1>1
  <2> QED
    BY <1>0, <1>7, <2>1, <2>2, <2>3, <2>4 DEF HwDoneTo
<1>14. HwDoneTo(d)'
  BY <1>1, <1>8, <1>10, <1>12, <1>13 DEF HwDoneTo
<1> QED
  BY <1>1, <1>8, <1>14 DEF HwInQueue

\* The engine's steps: fetching a descriptor.
LEMMA FetchStep == IInv /\ HwFetch => IInv'
<1> SUFFICES ASSUME IInv, HwFetch PROVE IInv'
  OBVIOUS
<1>0. PICK N \in Nat : N = Len(TxActQueue)
  BY DEF IInv, TypeOK
<1> DEFINE q == TxActQueue
<1>1. PICK d \in 0 .. N : HwDoneTo(d)
  BY <1>0 DEF IInv, HwInQueue
<1>2. PICK c \in d + 1 .. N : HwFetching(d, c)
  BY <1>0, <1>1 DEF HwFetch, HwDoneTo, HwStopped, HwSending
<1>3. UNCHANGED <<sw, tcbs, cpu, HostErr, intr, hist>>
  BY DEF HwFetch
<1>4. q[c] \in Tcb /\ q[d + 1] \in Tcb /\ hwPtr = q[c] /\ q[c] # NULL
        /\ q[d + 1] # NULL
  BY <1>0, <1>2, NullIsNoTcb DEF IInv, TypeOK, HwFetching
<1>5. TypeOK'
  BY SMTT(30), <1>3, <1>4 DEF IInv, TypeOK, HwFetch, sw, tcbs, cpu, intr, hist, Ptr
<1>6. HwSending(d, c)'
  <2>1. hwCur' = q[c] /\ hwPtr' = NULL /\ hwLatch' = HNext[q[c]]
    BY <1>4 DEF HwFetch
  <2>2. hwSop' = q[d + 1]
    BY <1>2, <1>4 DEF HwFetch, HwFetching
  <2>3. NoEof(d + 1, c - 1)'
    BY <1>2, <1>3 DEF HwFetching, NoEof, tcbs, sw
  <2>4. \/ HNext[q[c]] = NULL /\ Eof[q[c]]
        \/ c < N /\ HNext[q[c]] = q[c + 1]
    <3>1. CASE c = N
      BY <1>0, <3>1 DEF IInv, ChainFollowsQueue, PacketsWhole
    <3>2. CASE c < N
      BY <1>0, <3>2 DEF IInv, ChainFollowsQueue
    <3> QED
      BY <3>1, <3>2
  <2> QED
    BY <1>0, <1>3, <2>1, <2>2, <2>3, <2>4 DEF HwSending, sw, tcbs
<1>7. HwDoneTo(d)'
  <2>1. ~HwStopped(d)
    BY <1>4 DEF HwStopped
  <2>2. \A i \in 1 .. N : ~Eoq[q[i]]
    BY <1>0, <1>1, <2>1 DEF HwDoneTo
  <2> QED
    BY <1>0, <1>1, <1>3, <1>6, <2>2 DEF HwDoneTo, SopAt, sw, tcbs
<1> QED
  BY <1>0, <1>3, <1>5, <1>7
  DEF IInv, HwInQueue, TcbsConserved, PacketsWhole, ChainFollowsQueue, LinkLocals,
      ThresholdPositive, ActiveIffQueued, NoHostError, SopAt, NoEof, sw, tcbs, cpu

\* ... going on to the next fragment.
LEMMA NextFragStep == IInv /\ HwNextFrag => IInv'
<1> SUFFICES ASSUME IInv, HwNextFrag PROVE IInv'
  OBVIOUS
<1>0. PICK N \in Nat : N = Len(TxActQueue)
  BY DEF IInv, TypeOK
<1> DEFINE q == TxActQueue
<1>1. PICK d \in 0 .. N : HwDoneTo(d)
  BY <1>0 DEF IInv, HwInQueue
<1>2. PICK c \in d + 1 .. N : HwSending(d, c)
  BY <1>0, <1>1 DEF HwNextFrag, HwDoneTo, HwStopped, HwFetching
<1>3. UNCHANGED <<sw, tcbs, cpu, hwSop, HostErr, intr, hist>>
  BY DEF HwNextFrag
<1>4. c < N /\ hwLatch = q[c + 1] /\ ~Eof[q[c]] /\ hwSop = q[d + 1] /\ hwCur # NULL
  BY <1>0, <1>2 DEF HwSending, HwNextFrag
<1>5. TypeOK'
  BY <1>3 DEF IInv, TypeOK, HwNextFrag, sw, tcbs, cpu, intr, hist, Ptr, NULL
<1>6. HwFetching(d, c + 1)'
  <2>1. hwCur' = NULL /\ hwPtr' = q[c + 1] /\ hwLatch' = NULL /\ hwSop' = q[d + 1]
    BY <1>3, <1>4 DEF HwNextFrag
  <2>2. NoEof(d + 1, c)'
    BY <1>2, <1>3, <1>4 DEF HwSending, NoEof, tcbs, sw
  <2> QED
    BY <1>3, <2>1, <2>2 DEF HwFetching, NoEof, sw, tcbs
<1>7. HwDoneTo(d)'
  <2>1. ~HwStopped(d) /\ c + 1 \in d + 1 .. N
    BY <1>4 DEF HwStopped
  <2>2. \A i \in 1 .. N : ~Eoq[q[i]]
    BY <1>0, <1>1, <2>1 DEF HwDoneTo
  <2>3. \E x \in d + 1 .. N : HwFetching(d, x)' \/ HwSending(d, x)'
    BY <1>6, <2>1 DEF HwFetching, NoEof
  <2> QED
    BY <1>0, <1>1, <1>3, <2>2, <2>3 DEF HwDoneTo, SopAt, sw, tcbs
<1> QED
  BY <1>0, <1>3, <1>5, <1>7
  DEF IInv, HwInQueue, TcbsConserved, PacketsWhole, ChainFollowsQueue, LinkLocals,
      ThresholdPositive, ActiveIffQueued, NoHostError, SopAt, NoEof, sw, tcbs, cpu

\* ... completing a packet.
LEMMA CompleteStep == IInv /\ HwComplete => IInv'
<1> SUFFICES ASSUME IInv, HwComplete PROVE IInv'
  OBVIOUS
<1>0. PICK N \in Nat : N = Len(TxActQueue)
  BY DEF IInv, TypeOK
<1> DEFINE q == TxActQueue
<1>1. PICK d \in 0 .. N : HwDoneTo(d)
  BY <1>0 DEF IInv, HwInQueue
<1>2. PICK c \in d + 1 .. N : HwSending(d, c)
  BY <1>0, <1>1 DEF HwComplete, HwDoneTo, HwStopped, HwFetching
<1>3. UNCHANGED <<sw, HNext, Eof, OsInfo, Eop, cpu, HostErr, txMask, armed,
                  tasklet, hist>>
  BY DEF HwComplete
<1>4. /\ hwCur = q[c] /\ hwSop = q[d + 1] /\ Eof[q[c]] /\ hwCur # NULL
      /\ NoEof(d + 1, c - 1) /\ c \in 1 .. N /\ d + 1 \in 1 .. N
      /\ \/ hwLatch = NULL
         \/ c < N /\ hwLatch = q[c + 1]
  BY <1>0, <1>2 DEF HwSending, HwComplete
<1>5. \A i \in 1 .. N : q[i] \in Tcb
  BY <1>0 DEF IInv, TypeOK
<1>6. \A i, j \in 1 .. N : q[i] = q[j] => i = j
  BY <1>0 DEF IInv, TcbsConserved
<1>7. /\ Eoq' = [Eoq EXCEPT ![q[c]] = (hwLatch = NULL)]
      /\ Own' = [Own EXCEPT ![q[d + 1]] = FALSE]
      /\ hwPtr' = hwLatch /\ hwCur' = NULL /\ hwSop' = NULL /\ hwLatch' = NULL
      /\ cp' = q[c]
  BY <1>4 DEF HwComplete
<1>8. /\ Eoq' \in [Tcb -> BOOLEAN] /\ Own' \in [Tcb -> BOOLEAN]
  BY <1>7 DEF IInv, TypeOK
<1>9. TypeOK'
  BY SMTT(30), <1>3, <1>4, <1>5, <1>7, <1>8
  DEF IInv, TypeOK, HwComplete, sw, cpu, hist, Ptr
<1>10. \A i \in 1 .. N : Own'[q[i]] = IF i = d + 1 THEN FALSE ELSE Own[q[i]]
  BY <1>4, <1>5, <1>6, <1>7 DEF IInv, TypeOK
<1>11. \A i \in 1 .. N : ~Eoq[q[i]]
  <2>1. ~HwStopped(d)
    BY <1>4 DEF HwStopped
  <2> QED
    BY <1>0, <1>1, <2>1 DEF HwDoneTo
<1>12. \A i \in 1 .. N : Eoq'[q[i]] <=> i = c /\ hwLatch = NULL
  BY <1>4, <1>5, <1>6, <1>7, <1>11 DEF IInv, TypeOK
<1>13. \A i \in 1 .. N : SopAt(i) => (Own'[q[i]] <=> i > c)
  <2> SUFFICES ASSUME NEW i \in 1 .. N, SopAt(i)
               PROVE  Own'[q[i]] <=> i > c
    OBVIOUS
  <2>1. Own[q[i]] <=> i > d
    BY <1>0, <1>1 DEF HwDoneTo
  <2>2. ~(i > d + 1 /\ i <= c)
    <3> SUFFICES ASSUME i > d + 1, i <= c PROVE FALSE
      OBVIOUS
    <3>1. i # 1 /\ i - 1 \in d + 1 .. c - 1
      OBVIOUS
    <3> QED
      BY <3>1, <1>4 DEF SopAt, NoEof
  <2>3. c > d /\ d \in Int /\ c \in Int
    BY <1>2
  <2>4. CASE i = d + 1
    <3>1. Own'[q[i]] = FALSE
      BY <2>4, <1>10
    <3> QED
      BY <3>1, <2>3, <2>4
  <2>5. CASE i # d + 1
    <3>1. Own'[q[i]] = Own[q[i]]
      BY <2>5, <1>10
    <3>2. i > d <=> i > c
      BY <2>2, <2>3, <2>5
    <3> QED
      BY <3>1, <3>2, <2>1
  <2> QED
    BY <2>4, <2>5
<1>14. HwDoneTo(c)'
  <2>1. hwLatch = NULL => HwStopped(c)'
    BY <1>0, <1>3, <1>4, <1>7, <1>12 DEF HwStopped, sw
  <2>2. hwLatch # NULL => c + 1 \in c + 1 .. N /\ HwFetching(c, c + 1)'
    BY <1>3, <1>4, <1>7 DEF HwFetching, NoEof, sw
  <2>3. \/ HwStopped(c)'
        \/ \E x \in c + 1 .. N : HwFetching(c, x)' \/ HwSending(c, x)'
    BY <2>1, <2>2 DEF HwFetching, NoEof
  <2>4. \A i \in 1 .. N : Eoq'[q[i]] => i = c /\ HwStopped(c)'
    BY <1>12, <2>1
  <2> QED
    BY <1>0, <1>3, <1>4, <1>13, <2>3, <2>4 DEF HwDoneTo, SopAt, sw
<1>15. HwInQueue'
  BY <1>0, <1>3, <1>4, <1>14 DEF HwInQueue, sw
<1> QED
  BY <1>3, <1>9, <1>15
  DEF IInv, TcbsConserved, PacketsWhole, ChainFollowsQueue, LinkLocals,
      ThresholdPositive, ActiveIffQueued, NoHostError, SopAt, NoEof, sw, cpu

(* The steps of the CPU that touch no TCB and no register of the engine.   *)

\* What IInv says of the lists, the TCBs and the engine survives such a step.
LEMMA RingUntouched ==
  ASSUME IInv, UNCHANGED <<TcbPool, TxActQueue, TxActive, tcbs, dma>>
  PROVE  /\ TcbsConserved' /\ PacketsWhole' /\ ChainFollowsQueue'
         /\ HwInQueue' /\ ActiveIffQueued' /\ NoHostError'
<1>1. PICK N \in Nat : N = Len(TxActQueue)
  BY DEF IInv, TypeOK
<1>2. PICK d \in 0 .. N : HwDoneTo(d)
  BY <1>1 DEF IInv, HwInQueue
<1>3. HwDoneTo(d)'
  BY <1>1, <1>2
  DEF HwDoneTo, SopAt, HwStopped, HwFetching, HwSending, NoEof, tcbs, dma
<1>4. HwInQueue'
  BY <1>1, <1>3 DEF HwInQueue
<1> QED
  BY <1>4 DEF IInv, TcbsConserved, PacketsWhole, ChainFollowsQueue, ActiveIffQueued,
              NoHostError, SopAt, NoEof, tcbs, dma

\* A Send() that finds too few TCBs.
LEMMA NoTcbsStep == ASSUME IInv, NEW n, halSendNoTcbs(n) PROVE IInv'
<1>1. UNCHANGED <<TcbPool, TxActQueue, TxActive, tcbs, dma>>
  BY DEF halSendNoTcbs, sw
<1>2. TypeOK'
  BY TxAssumption DEF IInv, TypeOK, TxAssumption, halSendNoTcbs, SendCall, sw, tcbs, dma, intr
<1>3. LinkLocals' /\ ThresholdPositive'
  BY DEF IInv, halSendNoTcbs, SendCall, LinkLocals, ThresholdPositive, sw
<1> QED
  BY <1>1, <1>2, <1>3, RingUntouched DEF IInv

\* The end of halSend(), with or without a call of TxInt().
LEMMA ExitSendStep == IInv /\ ExitSend => IInv'
<1> SUFFICES ASSUME IInv, ExitSend PROVE IInv'
  OBVIOUS
<1>1. UNCHANGED <<TcbPool, TxActQueue, TxActive, tcbs, dma>>
  BY DEF ExitSend
<1>2. TxIntThreshold # 0 /\ TxIntThreshold \in 0 .. TxServiceMax
  BY DEF IInv, ThresholdPositive, ExitSend, TypeOK
<1>3. TxIntThreshold' \in 0 .. TxServiceMax
  BY <1>2, TxAssumption DEF ExitSend, TxAssumption
<1>4. TypeOK'
  BY <1>3 DEF IInv, TypeOK, ExitSend, tcbs, dma, intr, hist
<1>5. LinkLocals'
  BY DEF ExitSend, LinkLocals
<1>6. ThresholdPositive'
  BY <1>2, <1>3 DEF ExitSend, ThresholdPositive
<1> QED
  BY <1>1, <1>4, <1>5, <1>6, RingUntouched DEF IInv

\* The beginning of TxInt() ...
LEMMA TxIntBeginStep == IInv /\ TxIntBegin => IInv'
<1> SUFFICES ASSUME IInv, TxIntBegin PROVE IInv'
  OBVIOUS
<1>1. UNCHANGED <<TcbPool, TxActQueue, TxActive, tcbs, dma>>
  BY DEF TxIntBegin, sw
<1>2. TypeOK'
  BY DEF IInv, TypeOK, TxIntBegin, sw, tcbs, dma, intr, hist
<1>3. LinkLocals' /\ ThresholdPositive'
  BY DEF IInv, TxIntBegin, LinkLocals, ThresholdPositive, sw
<1> QED
  BY <1>1, <1>2, <1>3, RingUntouched DEF IInv

\* ... and its return to halSend() or to the tasklet.
LEMMA TxIntEndStep == IInv /\ TxIntEnd => IInv'
<1> SUFFICES ASSUME IInv, TxIntEnd PROVE IInv'
  OBVIOUS
<1>1. UNCHANGED <<TcbPool, TxActQueue, TxActive, tcbs, dma>>
  BY DEF TxIntEnd
<1>2. HeadDone \in BOOLEAN
  BY DEF HeadDone
<1>3. /\ TxIntThreshold' = IF caller = "send" THEN TxServiceMax ELSE TxIntThreshold
      /\ TxIntThreshold' \in 0 .. TxServiceMax
      /\ tasklet' \in BOOLEAN /\ armed' \in BOOLEAN /\ pc' = "idle"
  BY <1>2, TxAssumption DEF IInv, TypeOK, TxIntEnd, TxIntReturn, TxAssumption
<1>4. TypeOK'
  BY <1>3 DEF IInv, TypeOK, TxIntEnd, tcbs, dma, hist
<1>5. LinkLocals' /\ ThresholdPositive'
  BY <1>3, TxAssumption DEF IInv, TxIntEnd, LinkLocals, ThresholdPositive, TxAssumption
<1> QED
  BY <1>1, <1>4, <1>5, RingUntouched DEF IInv

\* Delivery of an interrupt to the tasklet and from there to TxInt().
LEMMA InterruptStep == IInv /\ (cpmac_hal_isr \/ halIsr) => IInv'
<1> SUFFICES ASSUME IInv, cpmac_hal_isr \/ halIsr PROVE IInv'
  OBVIOUS
<1>1. UNCHANGED <<TcbPool, TxActQueue, TxActive, tcbs, dma>>
  BY DEF cpmac_hal_isr, halIsr, sw
<1>2. TypeOK'
  BY TxAssumption
  DEF IInv, TypeOK, cpmac_hal_isr, halIsr, sw, tcbs, cpu, dma, hist, TxAssumption
<1>3. LinkLocals' /\ ThresholdPositive'
  BY DEF IInv, cpmac_hal_isr, halIsr, LinkLocals, ThresholdPositive, sw, cpu
<1> QED
  BY <1>1, <1>2, <1>3, RingUntouched DEF IInv

(* The steps of halSend() that queue a packet and that restart the engine. *)

\* A packet sent on an idle channel: the engine is started at its first TCB.
LEMMA SendFirstStep == ASSUME IInv, NEW n, halSendFirst(n) PROVE IInv'
<1>1. n \in 1 .. Len(TcbPool) /\ nSend < MaxSend /\ pc = "idle" /\ TxActQueue = <<>>
  BY TxAssumption DEF halSendFirst, SendCall, TxAssumption, IInv, TypeOK
<1>2. TxActQueue' = TxActQueue \o Frags(n)
  <2>1. Frags(n) \in Seq(Tcb)
    BY <1>1, PoolSplit DEF Frags, IInv, TypeOK
  <2> QED
    BY <1>1, <2>1, ConcatEmptySeq DEF halSendFirst
<1>3. MovedToQueue(n)
  BY <1>1, <1>2, SendMoves DEF IInv, halSendFirst
<1>4. Filled(n)
  BY <1>1, SendFills DEF IInv, halSendFirst
<1>5. TcbsConserved' /\ PacketsWhole' /\ ChainFollowsQueue'
  BY <1>3, <1>4, SendConserves, SendKeepsPackets DEF IInv
<1>6. ~TxActive /\ HwStopped(0) /\ Len(TxActQueue) = 0
  <2>1. PICK d \in 0 .. 0 : HwDoneTo(d)
    BY <1>1 DEF IInv, HwInQueue
  <2> QED
    BY <1>1, <2>1 DEF IInv, ActiveIffQueued, HwDoneTo
<1>7. /\ Len(TxActQueue') = n /\ n \in Nat \ {0}
      /\ \A i \in 1 .. n : TxActQueue'[i] = TcbPool[i]
  BY <1>1, <1>3, <1>6 DEF MovedToQueue, IInv, TypeOK
<1>8. /\ Frags(n)[1] = TcbPool[1] /\ TcbPool[1] \in Tcb
  BY <1>1, PoolSplit DEF Frags, IInv, TypeOK
<1>9. /\ hwPtr' = TxActQueue'[1] /\ hwPtr' \in Tcb
      /\ HostErr' = FALSE
      /\ hwCur' = NULL /\ hwLatch' = NULL /\ hwSop' = NULL
  BY <1>6, <1>7, <1>8 DEF halSendFirst, WriteHDP, HwIdle, HwStopped, IInv, NoHostError, TypeOK
<1>10. TypeOK'
  <2>1. nSend' \in 0 .. MaxSend
    BY TxAssumption DEF IInv, TypeOK, TxAssumption, halSendFirst, SendCall
  <2>2. {hwPtr', hwCur', hwLatch', hwSop'} \subseteq Ptr /\ HostErr' \in BOOLEAN
    BY <1>9 DEF Ptr
  <2>3. /\ TcbPool' \in Seq(Tcb) /\ TxActQueue' \in Seq(Tcb)
        /\ HNext' \in [Tcb -> Ptr] /\ Eop' \in [Tcb -> Ptr]
        /\ Own' \in [Tcb -> BOOLEAN] /\ Eof' \in [Tcb -> BOOLEAN]
        /\ Eoq' \in [Tcb -> BOOLEAN] /\ OsInfo' \in [Tcb -> 0 .. MaxSend]
    BY <1>3, <1>4 DEF MovedToQueue, Filled
  <2>4. /\ TxActive' \in BOOLEAN /\ pc' = "exitSend"
        /\ UNCHANGED <<TxIntThreshold, pTailTcb, pCurrentTcb, caller, PacketsServiced,
                       intr, returned>>
    BY DEF halSendFirst
  <2> QED
    BY <2>1, <2>2, <2>3, <2>4 DEF IInv, TypeOK, intr
<1>11. HwDoneTo(0)'
  <2>1. HwFetching(0, 1)'
    BY <1>9 DEF HwFetching, NoEof
  <2>2. PICK c \in 0 + 1 .. n : c = 1
    BY <1>7
  <2>3. \E x \in 0 + 1 .. n : HwFetching(0, x)' \/ HwSending(0, x)'
    BY <2>1, <2>2 DEF HwFetching, NoEof
  <2>4. \A i \in 1 .. n : Own'[TxActQueue'[i]] /\ ~Eoq'[TxActQueue'[i]]
    BY <1>4, <1>7 DEF Filled
  <2> QED
    BY <1>7, <2>3, <2>4 DEF HwDoneTo
<1>12. HwInQueue'
  BY <1>7, <1>11 DEF HwInQueue
<1>13. LinkLocals' /\ ThresholdPositive'
  BY <1>1 DEF IInv, halSendFirst, LinkLocals, ThresholdPositive
<1>14. ActiveIffQueued' /\ NoHostError'
  BY <1>7, <1>9 DEF ActiveIffQueued, NoHostError, halSendFirst
<1> QED
  BY <1>5, <1>10, <1>12, <1>13, <1>14 DEF IInv

\* A packet linked behind the tail of a busy channel.
LEMMA SendLinkStep == ASSUME IInv, NEW n, halSendLink(n) PROVE IInv'
<1>1. n \in 1 .. Len(TcbPool) /\ nSend < MaxSend /\ pc = "idle" /\ TxActQueue # <<>>
  BY TxAssumption DEF halSendLink, SendCall, TxAssumption, IInv, TypeOK
<1>2. MovedToQueue(n)
  BY <1>1, SendMoves DEF IInv, halSendLink
<1>3. Filled(n)
  <2>1. FillTcbs(n, TxActQueue[Len(TxActQueue)])
    BY DEF halSendLink
  <2> QED
    BY <1>1, <2>1, SendFills DEF IInv
<1>4. TcbsConserved' /\ PacketsWhole' /\ ChainFollowsQueue'
  BY <1>2, <1>3, SendConserves, SendKeepsPackets DEF IInv
<1>5. UNCHANGED dma
  BY DEF halSendLink
<1>6. HwInQueue'
  BY <1>1, <1>2, <1>3, <1>5, SendKeepsHw DEF IInv
<1>7. PICK N \in Nat : N = Len(TxActQueue)
  BY DEF IInv, TypeOK
<1>8. N > 0 /\ n \in Nat \ {0} /\ Len(TxActQueue') = N + n
  <2>1. TxActQueue \in Seq(Tcb) /\ TcbPool \in Seq(Tcb)
    BY DEF IInv, TypeOK
  <2>2. N # 0
    BY <1>1, <1>7, <2>1, EmptySeq
  <2> QED
    BY <1>1, <1>2, <1>7, <2>1, <2>2 DEF MovedToQueue
<1>9. /\ TxActQueue'[N] = TxActQueue[N] /\ TxActQueue'[N + 1] = TcbPool[1]
      /\ Eof'[TxActQueue[N]] = Eof[TxActQueue[N]]
  <2>1. N \in 1 .. Len(TxActQueue) /\ 1 \in 1 .. n /\ Len(TxActQueue) + 1 = N + 1
    BY <1>7, <1>8
  <2>2. TxActQueue'[N] = TxActQueue[N] /\ TxActQueue'[Len(TxActQueue) + 1] = TcbPool[1]
    BY <1>2, <2>1 DEF MovedToQueue
  <2>3. Eof'[TxActQueue[N]] = Eof[TxActQueue[N]]
    BY <1>3, <2>1 DEF Filled
  <2> QED
    BY <2>1, <2>2, <2>3
<1>10. Frags(n)[1] = TcbPool[1] /\ TcbPool[1] \in Tcb /\ TxActQueue[N] \in Tcb
  <2>1. TcbPool \in Seq(Tcb) /\ TxActQueue \in Seq(Tcb)
    BY DEF IInv, TypeOK
  <2>2. 1 \in 1 .. n /\ 1 \in 1 .. Len(TcbPool) /\ N \in 1 .. Len(TxActQueue)
    BY <1>1, <1>7, <1>8
  <2>3. TcbPool[1] \in Tcb /\ TxActQueue[N] \in Tcb
    BY <2>1, <2>2
  <2>4. Frags(n)[1] = TcbPool[1]
    BY <1>1, <2>1, <2>2, PoolSplit DEF Frags
  <2> QED
    BY <2>3, <2>4
<1>11. TypeOK'
  <2>1. nSend' \in 0 .. MaxSend
    BY TxAssumption DEF IInv, TypeOK, TxAssumption, halSendLink, SendCall
  <2>2. {pTailTcb', pCurrentTcb'} \subseteq Ptr
    BY <1>7, <1>10 DEF Ptr, halSendLink
  <2>3. /\ TcbPool' \in Seq(Tcb) /\ TxActQueue' \in Seq(Tcb)
        /\ HNext' \in [Tcb -> Ptr] /\ Eop' \in [Tcb -> Ptr]
        /\ Own' \in [Tcb -> BOOLEAN] /\ Eof' \in [Tcb -> BOOLEAN]
        /\ Eoq' \in [Tcb -> BOOLEAN] /\ OsInfo' \in [Tcb -> 0 .. MaxSend]
    BY <1>2, <1>3 DEF MovedToQueue, Filled
  <2>4. /\ pc' = "testEoq"
        /\ UNCHANGED <<TxActive, TxIntThreshold, caller, PacketsServiced, dma,
                       intr, returned>>
    BY DEF halSendLink
  <2> QED
    BY <2>1, <2>2, <2>3, <2>4 DEF IInv, TypeOK, intr, dma
<1>12. LinkLocals'
  <2>1. N \in 1 .. Len(TxActQueue') - 1
    BY <1>8
  <2>2. pTailTcb' = TxActQueue'[N] /\ pCurrentTcb' = TxActQueue'[N + 1]
    BY <1>7, <1>9, <1>10 DEF halSendLink
  <2>3. Eof'[TxActQueue'[N]]
    BY <1>1, <1>7, <1>9 DEF IInv, PacketsWhole
  <2> QED
    BY <2>1, <2>2, <2>3 DEF LinkLocals
<1>13. ThresholdPositive'
  BY <1>1 DEF IInv, halSendLink, ThresholdPositive
<1>14. ActiveIffQueued' /\ NoHostError'
  BY <1>1, <1>8 DEF IInv, ActiveIffQueued, NoHostError, halSendLink, dma
<1> QED
  BY <1>4, <1>6, <1>11, <1>12, <1>13, <1>14 DEF IInv

\* The EOQ test of halSend(): a set bit means that the engine stopped exactly
\* at the old tail, so that the HDP register may be written.
LEMMA TestEoqStep == IInv /\ halSendTestEoq => IInv'
<1> SUFFICES ASSUME IInv, halSendTestEoq PROVE IInv'
  OBVIOUS
<1>0. PICK N \in Nat : N = Len(TxActQueue)
  BY DEF IInv, TypeOK
<1> DEFINE q == TxActQueue
<1>1. PICK j \in 1 .. N - 1 : /\ pTailTcb = q[j] /\ pCurrentTcb = q[j + 1] /\ Eof[q[j]]
  BY <1>0 DEF IInv, LinkLocals, halSendTestEoq
<1>2. /\ j \in 1 .. N /\ j + 1 \in 1 .. N /\ q[j] \in Tcb /\ q[j + 1] \in Tcb
      /\ N > 0 /\ q # <<>>
  BY <1>0 DEF IInv, TypeOK
<1>3. LinkLocals' /\ ThresholdPositive'
  BY DEF IInv, halSendTestEoq, LinkLocals, ThresholdPositive, sw
<1>4. CASE ~Eoq[q[j]]
  <2>1. UNCHANGED <<TcbPool, TxActQueue, TxActive, tcbs, dma>>
    BY <1>1, <1>4 DEF halSendTestEoq, sw, tcbs
  <2>2. TypeOK'
    BY <1>1, <1>4, TxAssumption
    DEF IInv, TypeOK, halSendTestEoq, sw, tcbs, dma, hist, TxAssumption, Ptr
  <2> QED
    BY <1>3, <2>1, <2>2, RingUntouched DEF IInv
<1>5. CASE Eoq[q[j]]
  <2>1. PICK d \in 0 .. N : HwDoneTo(d)
    BY <1>0 DEF IInv, HwInQueue
  <2>2. d = j /\ HwStopped(d)
    BY <1>0, <1>2, <1>5, <2>1 DEF HwDoneTo
  <2>3. /\ Eoq' = [Eoq EXCEPT ![q[j]] = FALSE]
        /\ hwPtr' = q[j + 1] /\ HostErr' = FALSE
        /\ hwCur' = NULL /\ hwLatch' = NULL /\ hwSop' = NULL
        /\ UNCHANGED <<sw, HNext, Own, Eof, OsInfo, Eop, intr>>
    BY <1>1, <1>5, <2>2
    DEF halSendTestEoq, EoqAfterRestart, WriteHDP, HwIdle, HwStopped, IInv,
        NoHostError, TypeOK
  <2>4. Eoq' \in [Tcb -> BOOLEAN]
    BY <2>3 DEF IInv, TypeOK
  <2>5. TypeOK'
    BY <1>2, <2>3, <2>4 DEF IInv, TypeOK, halSendTestEoq, sw, intr, hist, Ptr
  <2>6. \A i \in 1 .. N : ~Eoq'[q[i]]
    <3> SUFFICES ASSUME NEW i \in 1 .. N, Eoq'[q[i]] PROVE FALSE
      OBVIOUS
    <3>1. q[i] \in Tcb
      BY <1>0 DEF IInv, TypeOK
    <3>2. CASE i = j
      BY <1>2, <2>3, <3>2 DEF IInv, TypeOK
    <3>3. CASE i # j
      <4>1. ~Eoq[q[i]]
        BY <1>0, <2>1, <2>2, <3>3 DEF HwDoneTo
      <4>2. q[i] # q[j]
        BY <1>0, <1>2, <3>3 DEF IInv, TcbsConserved
      <4> QED
        BY <1>2, <2>3, <3>1, <4>1, <4>2 DEF IInv, TypeOK
    <3> QED
      BY <3>2, <3>3
  <2>7. PICK c \in d + 1 .. N : c = d + 1
    BY <1>2, <2>2
  <2>8. HwFetching(d, c)'
    BY <2>2, <2>3, <2>7 DEF HwFetching, NoEof, sw
  <2>9. HwDoneTo(d)'
    BY <1>0, <2>1, <2>3, <2>6, <2>8 DEF HwDoneTo, SopAt, sw
  <2>10. HwInQueue'
    BY <1>0, <2>3, <2>9 DEF HwInQueue, sw
  <2>11. NoHostError'
    BY <2>3 DEF NoHostError
  <2> QED
    BY <1>3, <2>3, <2>5, <2>10, <2>11
    DEF IInv, TcbsConserved, PacketsWhole, ChainFollowsQueue, ActiveIffQueued,
        SopAt, NoEof, sw
<1> QED
  BY <1>4, <1>5

(* TxInt(), by position: the first e TCBs of the queue go on top of the    *)
(* pool.                                                                   *)

Popped(e) ==
  /\ e \in 1 .. Len(TxActQueue)
  /\ TcbPool' \in Seq(Tcb) /\ TxActQueue' \in Seq(Tcb)
  /\ Len(TcbPool') = Len(TcbPool) + e
  /\ Len(TxActQueue') = Len(TxActQueue) - e
  /\ \A i \in 1 .. e : TcbPool'[i] = TxActQueue[i]
  /\ \A i \in 1 .. Len(TcbPool) : TcbPool'[e + i] = TcbPool[i]
  /\ \A i \in 1 .. Len(TxActQueue) - e : TxActQueue'[i] = TxActQueue[e + i]

\* What one turn of the loop of TxInt() does to the two lists.
LEMMA PopMoves ==
  ASSUME TypeOK, NEW e \in 1 .. Len(TxActQueue),
         TxActQueue' = SubSeq(TxActQueue, e + 1, Len(TxActQueue)),
         TcbPool' = SubSeq(TxActQueue, 1, e) \o TcbPool
  PROVE  Popped(e)
<1>1. TcbPool \in Seq(Tcb) /\ TxActQueue \in Seq(Tcb)
  BY DEF TypeOK
<1>2. /\ SubSeq(TxActQueue, 1, e) \in Seq(Tcb)
      /\ Len(SubSeq(TxActQueue, 1, e)) = e
      /\ \A i \in 1 .. e : SubSeq(TxActQueue, 1, e)[i] = TxActQueue[i]
      /\ TxActQueue' \in Seq(Tcb)
      /\ Len(TxActQueue') = Len(TxActQueue) - e
      /\ \A i \in 1 .. Len(TxActQueue) - e : TxActQueue'[i] = TxActQueue[e + i]
  BY <1>1, PoolSplit
<1>3. /\ TcbPool' \in Seq(Tcb)
      /\ Len(TcbPool') = Len(TcbPool) + e
      /\ \A i \in 1 .. e : TcbPool'[i] = TxActQueue[i]
      /\ \A i \in 1 .. Len(TcbPool) : TcbPool'[e + i] = TcbPool[i]
  <2> DEFINE f == SubSeq(TxActQueue, 1, e)
             p == TcbPool
  <2>1. f \in Seq(Tcb) /\ p \in Seq(Tcb) /\ Len(f) = e
    BY <1>1, <1>2
  <2>2. \A i \in 1 .. e : f[i] = TxActQueue[i]
    BY <1>2
  <2>3. TcbPool' = f \o p
    OBVIOUS
  <2> HIDE DEF f, p
  <2>4. /\ f \o p \in Seq(Tcb)
        /\ Len(f \o p) = Len(f) + Len(p)
        /\ \A i \in 1 .. Len(f) : (f \o p)[i] = f[i]
        /\ \A i \in 1 .. Len(p) : (f \o p)[Len(f) + i] = p[i]
    BY <2>1, ConcatAt, SMTT(30)
  <2>5. Len(TcbPool') = Len(p) + e
    <3>1. Len(TcbPool') = Len(f) + Len(p)
      BY <2>3, <2>4, Zenon
    <3>2. Len(p) \in Nat
      BY <2>1
    <3> QED
      BY <2>1, <3>1, <3>2, SMTT(30)
  <2>6. \A i \in 1 .. e : TcbPool'[i] = TxActQueue[i]
    BY <2>1, <2>2, <2>3, <2>4
  <2>7. \A i \in 1 .. Len(p) : TcbPool'[e + i] = p[i]
    BY <2>1, <2>3, <2>4
  <2> QED
    BY <2>3, <2>4, <2>5, <2>6, <2>7 DEF p
<1> QED
  BY <1>2, <1>3 DEF Popped

\* The TCBs stay partitioned: e of them change list.
LEMMA PopConserves ==
  ASSUME TypeOK, TcbsConserved, NEW e, Popped(e)
  PROVE  TcbsConserved'
<1> DEFINE P == Len(TcbPool)
           N == Len(TxActQueue)
<1>1. P \in Nat /\ N \in Nat /\ e \in 1 .. N
  <2>1. TcbPool \in Seq(Tcb) /\ TxActQueue \in Seq(Tcb)
    BY DEF TypeOK
  <2>2. e \in 1 .. N
    BY DEF Popped
  <2> QED
    BY <2>1, <2>2
<1>2. Len(TcbPool') = P + e /\ Len(TxActQueue') = N - e
  BY DEF Popped
<1>3. \A i \in 1 .. N - e : TxActQueue'[i] = TxActQueue[e + i]
  BY DEF Popped
<1>4. \A i \in 1 .. P + e :
        TcbPool'[i] = IF i <= e THEN TxActQueue[i] ELSE TcbPool[i - e]
  <2> SUFFICES ASSUME NEW i \in 1 .. P + e
               PROVE  TcbPool'[i] = IF i <= e THEN TxActQueue[i] ELSE TcbPool[i - e]
    OBVIOUS
  <2>1. CASE i <= e
    <3>1. i \in 1 .. e
      BY <1>1, <2>1
    <3> QED
      BY <2>1, <3>1 DEF Popped
  <2>2. CASE ~(i <= e)
    <3>1. i - e \in 1 .. P /\ e + (i - e) = i
      BY <1>1, <2>2
    <3>2. TcbPool'[e + (i - e)] = TcbPool[i - e]
      BY <3>1 DEF Popped
    <3> QED
      BY <2>2, <3>1, <3>2
  <2> QED
    BY <2>1, <2>2
<1> HIDE DEF P, N
<1>5. Len(TcbPool') + Len(TxActQueue') = TxNumBuffers
  BY <1>1, <1>2 DEF TcbsConserved, P, N
<1>6. /\ \A i, j \in 1 .. P : TcbPool[i] = TcbPool[j] => i = j
      /\ \A i, j \in 1 .. N : TxActQueue[i] = TxActQueue[j] => i = j
      /\ \A i \in 1 .. P, j \in 1 .. N : TcbPool[i] # TxActQueue[j]
  BY DEF TcbsConserved, P, N
<1>7. \A i, j \in 1 .. N - e : TxActQueue'[i] = TxActQueue'[j] => i = j
  BY <1>1, <1>3, <1>6
<1>8. \A i, j \in 1 .. P + e : TcbPool'[i] = TcbPool'[j] => i = j
  BY <1>1, <1>4, <1>6
<1>9. \A i \in 1 .. P + e, j \in 1 .. N - e : TcbPool'[i] # TxActQueue'[j]
  BY <1>1, <1>3, <1>4, <1>6
<1> QED
  BY <1>2, <1>5, <1>7, <1>8, <1>9 DEF TcbsConserved

\* Cutting the queue after the end of a packet leaves whole packets.
LEMMA PopKeepsPackets ==
  ASSUME TypeOK, PacketsWhole, ChainFollowsQueue, NEW e, Popped(e),
         Eof[TxActQueue[e]], UNCHANGED tcbs
  PROVE  /\ PacketsWhole' /\ ChainFollowsQueue'
         /\ \A i \in 1 .. Len(TxActQueue) - e : SopAt(i)' => SopAt(e + i)
<1>0. PICK N \in Nat : N = Len(TxActQueue)
  BY DEF TypeOK
<1> DEFINE q == TxActQueue
<1>1. e \in 1 .. N /\ Len(TxActQueue') = N - e
  BY <1>0 DEF Popped
<1>2. \A i \in 1 .. N - e : TxActQueue'[i] = q[e + i]
  BY <1>0 DEF Popped
<1>3. TxActQueue' # <<>> => N > e
  BY <1>1 DEF Popped
<1>4. N > 0 /\ q # <<>>
  BY <1>0, <1>1 DEF TypeOK
<1>5. Eof' = Eof /\ Eop' = Eop /\ HNext' = HNext
  BY DEF tcbs
<1>6. \A i \in 1 .. N - e : SopAt(i)' => SopAt(e + i)
  <2> SUFFICES ASSUME NEW i \in 1 .. N - e, SopAt(i)' PROVE SopAt(e + i)
    OBVIOUS
  <2>1. CASE i = 1
    BY <1>1, <2>1 DEF SopAt
  <2>2. CASE i # 1
    <3>1. i - 1 \in 1 .. N - e /\ e + (i - 1) = (e + i) - 1
      BY <1>1, <2>2
    <3>2. Eof'[TxActQueue'[i - 1]]
      BY <2>2 DEF SopAt
    <3> QED
      BY <1>2, <1>5, <3>1, <3>2 DEF SopAt
  <2> QED
    BY <2>1, <2>2
<1>7. TxActQueue' # <<>> => /\ Eof'[TxActQueue'[N - e]]
                            /\ HNext'[TxActQueue'[N - e]] = NULL
  <2> SUFFICES ASSUME N > e
               PROVE  Eof'[TxActQueue'[N - e]] /\ HNext'[TxActQueue'[N - e]] = NULL
    BY <1>3
  <2>1. TxActQueue'[N - e] = q[N]
    BY <1>1, <1>2
  <2> QED
    BY <1>0, <1>4, <1>5, <2>1 DEF PacketsWhole, ChainFollowsQueue
<1>8. \A i \in 1 .. (N - e) - 1 : HNext'[TxActQueue'[i]] = TxActQueue'[i + 1]
  <2> SUFFICES ASSUME NEW i \in 1 .. (N - e) - 1
               PROVE  HNext'[TxActQueue'[i]] = TxActQueue'[i + 1]
    OBVIOUS
  <2>1. TxActQueue'[i] = q[e + i] /\ TxActQueue'[i + 1] = q[(e + i) + 1]
    BY <1>1, <1>2
  <2>2. e + i \in 1 .. N - 1
    BY <1>1
  <2> QED
    BY <1>0, <1>5, <2>1, <2>2 DEF ChainFollowsQueue
<1>9. ASSUME NEW i \in 1 .. N - e, SopAt(i)'
      PROVE  \E x \in i .. N - e : /\ Eop'[TxActQueue'[i]] = TxActQueue'[x]
                                   /\ Eof'[TxActQueue'[x]]
                                   /\ NoEof(i, x - 1)'
  <2>1. e + i \in 1 .. N /\ SopAt(e + i)
    BY <1>1, <1>6, <1>9
  <2>2. PICK y \in e + i .. N : Eop[q[e + i]] = q[y] /\ Eof[q[y]] /\ NoEof(e + i, y - 1)
    BY <1>0, <2>1 DEF PacketsWhole
  <2>3. PICK x \in i .. N - e : y = e + x
    <3>1. y - e \in i .. N - e /\ y = e + (y - e)
      BY <1>1
    <3> QED
      BY <3>1
  <2>4. TxActQueue'[i] = q[e + i] /\ TxActQueue'[x] = q[y]
    BY <1>1, <1>2, <2>3
  <2>5. NoEof(i, x - 1)'
    <3> SUFFICES ASSUME NEW m \in i .. x - 1 PROVE ~Eof'[TxActQueue'[m]]
      BY DEF NoEof
    <3>1. e + m \in e + i .. y - 1 /\ m \in 1 .. N - e
      BY <1>1, <2>3
    <3> QED
      BY <1>2, <1>5, <2>2, <3>1 DEF NoEof
  <2> QED
    BY <1>5, <2>2, <2>4, <2>5
<1>10. PacketsWhole'
  BY <1>1, <1>7, <1>9 DEF PacketsWhole
<1>11. ChainFollowsQueue'
  BY <1>1, <1>7, <1>8 DEF ChainFollowsQueue
<1> QED
  BY <1>0, <1>6, <1>10, <1>11

\* One turn of the loop of TxInt().  The head packet is among those the engine
\* is done with; if its last TCB carries EOQ it is the last of them and the
\* engine has stopped there, so that the HDP register may be written.
LEMMA PopStep == IInv /\ TxIntPop => IInv'
<1> SUFFICES ASSUME IInv, TxIntPop PROVE IInv'
  OBVIOUS
<1>0. PICK N \in Nat : N = Len(TxActQueue)
  BY DEF IInv, TypeOK
<1> DEFINE q == TxActQueue
<1>1. TxActQueue \in Seq(Tcb) /\ q # <<>> /\ ~Own[q[1]]
  BY DEF IInv, TypeOK, TxIntPop, HeadDone
<1>2. N > 0
  BY <1>0, <1>1, EmptySeq
<1>3. PICK d \in 0 .. N : HwDoneTo(d)
  BY <1>0 DEF IInv, HwInQueue
<1>4. d > 0 /\ Eof[q[d]]
  BY <1>0, <1>1, <1>2, <1>3 DEF HwDoneTo, SopAt
<1>5. PICK e \in 1 .. N : Eop[q[1]] = q[e] /\ Eof[q[e]] /\ NoEof(1, e - 1)
  BY <1>0, <1>2 DEF IInv, PacketsWhole, SopAt
<1>6. e <= d
  <2> SUFFICES ASSUME d < e PROVE FALSE
    OBVIOUS
  <2>1. d \in 1 .. e - 1
    BY <1>4
  <2> QED
    BY <1>4, <1>5, <2>1 DEF NoEof
<1>7. \A i, j \in 1 .. N : q[i] = q[j] => i = j
  BY <1>0 DEF IInv, TcbsConserved
<1>8. (CHOOSE i \in DOMAIN TxActQueue : TxActQueue[i] = Eop[q[1]]) = e
  <2>1. DOMAIN TxActQueue = 1 .. N
    BY <1>0, <1>1
  <2> QED
    BY <1>5, <1>7, <2>1
<1> DEFINE rest == SubSeq(TxActQueue, e + 1, Len(TxActQueue))
<1>9. /\ TxActQueue' = rest
      /\ TcbPool' = SubSeq(TxActQueue, 1, e) \o TcbPool
      /\ IF Eoq[q[e]] /\ rest # <<>> THEN WriteHDP(HNext[q[e]]) ELSE UNCHANGED dma
      /\ TxActive' = (TxActive /\ ~(Eoq[q[e]] /\ rest = <<>>))
      /\ returned' = Append(returned, <<OsInfo[q[1]], ~Own[q[1]]>>)
      /\ txInt' = (txInt /\ cp # q[e])
      /\ PacketsServiced' = PacketsServiced + 1
      /\ UNCHANGED <<TxIntThreshold, tcbs, pc, pTailTcb, pCurrentTcb, caller,
                     cp, txMask, armed, tasklet, nSend>>
  BY <1>5, <1>8 DEF TxIntPop, PushTcbs, MisqueueRestart, ActiveAfter
<1>10. Popped(e)
  BY <1>0, <1>9, PopMoves DEF IInv
<1>11. TcbsConserved'
  BY <1>10, PopConserves DEF IInv
<1>12. /\ PacketsWhole' /\ ChainFollowsQueue'
       /\ \A i \in 1 .. N - e : SopAt(i)' => SopAt(e + i)
  BY <1>0, <1>5, <1>9, <1>10, PopKeepsPackets DEF IInv
<1>13. /\ Len(TxActQueue') = N - e
       /\ \A i \in 1 .. N - e : TxActQueue'[i] = q[e + i]
       /\ TxActQueue' \in Seq(Tcb) /\ TcbPool' \in Seq(Tcb)
  BY <1>0, <1>10 DEF Popped
<1> HIDE DEF rest
<1>14. rest = <<>> <=> N = e
  <2>1. rest \in Seq(Tcb) /\ Len(rest) = N - e
    BY <1>9, <1>13
  <2>2. rest = <<>> <=> Len(rest) = 0
    BY <2>1, EmptySeq
  <2> QED
    BY <2>1, <2>2
<1>15. Eof' = Eof /\ Eoq' = Eoq /\ Own' = Own
  BY <1>9 DEF tcbs
<1>16. LinkLocals' /\ ThresholdPositive'
  BY <1>9 DEF IInv, LinkLocals, ThresholdPositive, TxIntPop
<1>17. ASSUME {hwPtr', hwCur', hwLatch', hwSop'} \subseteq Ptr, HostErr' \in BOOLEAN
       PROVE  TypeOK'
  <2>1. <<OsInfo[q[1]], ~Own[q[1]]>> \in (0 .. MaxSend) \X BOOLEAN
    <3>1. q[1] \in Tcb
      BY <1>0, <1>1, <1>2
    <3> QED
      BY <3>1 DEF IInv, TypeOK
  <2>2. returned' \in Seq((0 .. MaxSend) \X BOOLEAN)
    BY <1>9, <2>1, AppendProperties DEF IInv, TypeOK
  <2>3. TxActive' \in BOOLEAN /\ txInt' \in BOOLEAN /\ PacketsServiced' \in Nat
    BY <1>9 DEF IInv, TypeOK
  <2> QED
    BY <1>9, <1>13, <1>17, <2>2, <2>3 DEF IInv, TypeOK, tcbs
<1>18. PICK b \in 0 .. N - e : d = e + b
  <2>1. d - e \in 0 .. N - e /\ d = e + (d - e)
    BY <1>6
  <2> QED
    BY <2>1
<1>19. b > 0 => Eof'[TxActQueue'[b]]
  BY <1>4, <1>13, <1>15, <1>18
<1>20. ASSUME NEW i \in 1 .. N - e, SopAt(i)'
       PROVE  Own'[TxActQueue'[i]] <=> i > b
  <2>1. e + i \in 1 .. N /\ SopAt(e + i)
    BY <1>12, <1>20
  <2>2. Own[q[e + i]] <=> e + i > d
    BY <1>0, <1>3, <2>1 DEF HwDoneTo
  <2>3. e + i > d <=> i > b
    BY <1>18
  <2>4. Own'[TxActQueue'[i]] = Own[q[e + i]]
    BY <1>13, <1>15
  <2> QED
    BY <2>2, <2>3, <2>4
<1>21. \A i \in 1 .. N : Eoq[q[i]] => i = d /\ HwStopped(d)
  BY <1>0, <1>3 DEF HwDoneTo
<1>22. CASE Eoq[q[e]]
  <2>1. d = e /\ b = 0 /\ HwStopped(d)
    BY <1>18, <1>21, <1>22
  <2>2. \A i \in 1 .. N - e : ~Eoq'[TxActQueue'[i]]
    <3> SUFFICES ASSUME NEW i \in 1 .. N - e, Eoq'[TxActQueue'[i]] PROVE FALSE
      OBVIOUS
    <3>1. e + i \in 1 .. N /\ Eoq[q[e + i]] /\ e + i # e
      BY <1>13, <1>15
    <3> QED
      BY <1>21, <2>1, <3>1
  <2>3. CASE rest = <<>>
    <3>1. UNCHANGED dma /\ ~TxActive'
      BY <1>9, <1>22, <2>3
    <3>2. TypeOK'
      BY <1>17, <3>1 DEF dma, IInv, TypeOK
    <3>3. HwStopped(b)'
      BY <1>9, <2>1, <2>3, <3>1 DEF HwStopped, dma
    <3>4. HwDoneTo(b)'
      BY <1>13, <1>19, <1>20, <2>2, <3>3 DEF HwDoneTo
    <3>5. HwInQueue'
      BY <1>13, <3>4 DEF HwInQueue
    <3>6. ActiveIffQueued' /\ NoHostError'
      BY <1>9, <2>3, <3>1 DEF ActiveIffQueued, NoHostError, IInv, dma
    <3> QED
      BY <1>11, <1>12, <1>16, <3>2, <3>5, <3>6 DEF IInv
  <2>4. CASE rest # <<>>
    <3>1. e < N /\ e \in 1 .. N - 1
      BY <1>14, <2>4
    <3>2. HNext[q[e]] = q[e + 1] /\ q[e + 1] = TxActQueue'[1] /\ q[e + 1] \in Tcb
      BY <1>0, <1>1, <1>13, <3>1 DEF IInv, ChainFollowsQueue
    <3>3. /\ hwPtr' = TxActQueue'[1] /\ HostErr' = FALSE
          /\ hwCur' = NULL /\ hwLatch' = NULL /\ hwSop' = NULL
      BY <1>9, <1>22, <2>1, <2>4, <3>2
      DEF WriteHDP, HwIdle, HwStopped, IInv, NoHostError, TypeOK
    <3>4. TypeOK'
      BY <1>17, <3>2, <3>3 DEF Ptr
    <3>5. PICK c \in b + 1 .. N - e : c = b + 1
      BY <2>1, <3>1
    <3>6. HwFetching(b, c)'
      BY <2>1, <3>3, <3>5 DEF HwFetching, NoEof
    <3>7. HwDoneTo(b)'
      BY <1>13, <1>19, <1>20, <2>2, <3>6 DEF HwDoneTo
    <3>8. HwInQueue'
      BY <1>13, <3>7 DEF HwInQueue
    <3>9. ActiveIffQueued' /\ NoHostError'
      BY <1>1, <1>9, <2>4, <3>3 DEF ActiveIffQueued, NoHostError, IInv
    <3> QED
      BY <1>11, <1>12, <1>16, <3>4, <3>8, <3>9 DEF IInv
  <2> QED
    BY <2>3, <2>4
<1>23. CASE ~Eoq[q[e]]
  <2>1. UNCHANGED dma /\ TxActive' = TxActive
    BY <1>9, <1>23 DEF IInv, TypeOK
  <2>2. TypeOK'
    BY <1>17, <2>1 DEF dma, IInv, TypeOK
  <2>3. HwStopped(d) => HwStopped(b)' /\ b > 0
    <3> SUFFICES ASSUME HwStopped(d) PROVE HwStopped(b)' /\ b > 0
      OBVIOUS
    <3>1. Eoq[q[d]]
      BY <1>1 DEF HwStopped
    <3>2. b > 0
      BY <1>18, <1>23, <3>1
    <3>3. TxActQueue'[b] = q[d]
      BY <1>13, <1>18, <3>2
    <3> QED
      BY <1>15, <2>1, <3>1, <3>2, <3>3 DEF HwStopped, dma
  <2>4. ASSUME NEW c \in d + 1 .. N, HwFetching(d, c) \/ HwSending(d, c)
        PROVE  \E x \in b + 1 .. N - e : HwFetching(b, x)' \/ HwSending(b, x)'
    <3>1. PICK x \in b + 1 .. N - e : c = e + x
      <4>1. c - e \in b + 1 .. N - e /\ c = e + (c - e)
        BY <1>18
      <4> QED
        BY <4>1
    <3>2. TxActQueue'[x] = q[c] /\ TxActQueue'[b + 1] = q[d + 1]
      BY <1>13, <1>18, <3>1
    <3>3. NoEof(d + 1, c - 1) => NoEof(b + 1, x - 1)'
      <4> SUFFICES ASSUME NoEof(d + 1, c - 1), NEW m \in b + 1 .. x - 1
                   PROVE  ~Eof'[TxActQueue'[m]]
        BY DEF NoEof
      <4>1. e + m \in d + 1 .. c - 1 /\ m \in 1 .. N - e
        BY <1>18, <3>1
      <4> QED
        BY <1>13, <1>15, <4>1 DEF NoEof
    <3>4. x = b + 1 <=> c = d + 1
      BY <1>18, <3>1
    <3>5. c < N => x < N - e /\ TxActQueue'[x + 1] = q[c + 1]
      BY <1>13, <1>18, <3>1
    <3>6. HwFetching(d, c) => HwFetching(b, x)'
      BY <2>1, <3>2, <3>3, <3>4 DEF HwFetching, dma
    <3>7. HwSending(d, c) => HwSending(b, x)'
      BY <1>0, <1>13, <1>15, <2>1, <3>2, <3>3, <3>5 DEF HwSending, dma
    <3> QED
      BY <2>4, <3>6, <3>7
  <2>5. HwStopped(d) \/ \E c \in d + 1 .. N : HwFetching(d, c) \/ HwSending(d, c)
    BY <1>0, <1>3 DEF HwDoneTo
  <2>6. \A i \in 1 .. N - e : Eoq'[TxActQueue'[i]] => i = b /\ HwStopped(b)'
    <3> SUFFICES ASSUME NEW i \in 1 .. N - e, Eoq'[TxActQueue'[i]]
                 PROVE  i = b /\ HwStopped(b)'
      OBVIOUS
    <3>1. e + i \in 1 .. N /\ Eoq[q[e + i]]
      BY <1>13, <1>15
    <3>2. e + i = d /\ HwStopped(d)
      BY <1>21, <3>1
    <3> QED
      BY <1>18, <2>3, <3>2
  <2>7. HwDoneTo(b)'
    BY <1>13, <1>19, <1>20, <2>3, <2>4, <2>5, <2>6 DEF HwDoneTo
  <2>8. HwInQueue'
    BY <1>13, <2>7 DEF HwInQueue
  <2>9. rest # <<>>
    <3> SUFFICES ASSUME N = e PROVE FALSE
      BY <1>14
    <3>1. d = e /\ HwStopped(d)
      BY <1>6, <2>5
    <3> QED
      BY <1>18, <2>3, <3>1
  <2>10. ActiveIffQueued' /\ NoHostError'
    BY <1>1, <1>9, <2>1, <2>9 DEF ActiveIffQueued, NoHostError, IInv, dma
  <2> QED
    BY <1>11, <1>12, <1>16, <2>2, <2>8, <2>10 DEF IInv
<1> QED
  BY <1>22, <1>23

-----------------------------------------------------------------------------
(* The theorems.                                                           *)

\* The channel ChannelConfigApply() opened satisfies the invariant.
LEMMA InitIInv == Init => IInv
<1> SUFFICES ASSUME Init PROVE IInv
  OBVIOUS
<1>1. TxNumBuffers \in Nat \ {0}
  BY TxAssumption DEF TxAssumption
<1>2. /\ TcbPool \in [1 .. TxNumBuffers -> Tcb]
      /\ TcbPool \in Seq(Tcb) /\ Len(TcbPool) = TxNumBuffers
      /\ \A i \in 1 .. TxNumBuffers : TcbPool[i] = TxNumBuffers + 1 - i
  <2>1. \A i \in 1 .. TxNumBuffers : TxNumBuffers + 1 - i \in Tcb
    BY <1>1 DEF Tcb
  <2>2. TcbPool = [i \in 1 .. TxNumBuffers |-> TxNumBuffers + 1 - i]
    BY DEF Init, InitTcbPool
  <2>3. TcbPool \in [1 .. TxNumBuffers -> Tcb]
    BY <2>1, <2>2
  <2>4. TcbPool \in Seq(Tcb)
    BY <1>1, <2>3, SeqDef
  <2>5. Len(TcbPool) = TxNumBuffers
    BY <1>1, <2>3, <2>4, LenProperties
  <2> QED
    BY <2>2, <2>3, <2>4, <2>5
<1>3. TxActQueue = <<>> /\ TxActQueue \in Seq(Tcb) /\ Len(TxActQueue) = 0
  BY DEF Init
<1>4. returned \in Seq((0 .. MaxSend) \X BOOLEAN)
  BY DEF Init
<1>5. TypeOK
  <2>1. /\ HNext \in [Tcb -> Ptr] /\ Eop \in [Tcb -> Ptr]
        /\ {pTailTcb, pCurrentTcb, hwPtr, hwCur, hwLatch, hwSop, cp} \subseteq Ptr
    BY DEF Init, Ptr
  <2>2. /\ Own \in [Tcb -> BOOLEAN] /\ Eof \in [Tcb -> BOOLEAN]
        /\ Eoq \in [Tcb -> BOOLEAN]
    BY DEF Init
  <2>3. 0 \in 0 .. MaxSend /\ TxServiceMax \in 0 .. TxServiceMax
    BY TxAssumption DEF TxAssumption
  <2>4. OsInfo \in [Tcb -> 0 .. MaxSend] /\ nSend \in 0 .. MaxSend
    BY <2>3 DEF Init
  <2>5. txMask \in BOOLEAN /\ TxIntThreshold \in 0 .. TxServiceMax
    BY <2>3, TxAssumption DEF Init, TxAssumption
  <2> QED
    BY <1>2, <1>3, <1>4, <2>1, <2>2, <2>4, <2>5 DEF Init, TypeOK
<1>6. TcbsConserved
  BY <1>1, <1>2, <1>3 DEF TcbsConserved
<1>7. PacketsWhole /\ ChainFollowsQueue /\ ActiveIffQueued /\ NoHostError
  BY <1>3 DEF PacketsWhole, ChainFollowsQueue, ActiveIffQueued, NoHostError, Init
<1>8. HwDoneTo(0)
  BY <1>3 DEF HwDoneTo, HwStopped, Init
<1>9. HwInQueue
  BY <1>3, <1>8 DEF HwInQueue
<1>10. LinkLocals /\ ThresholdPositive
  BY TxAssumption DEF LinkLocals, ThresholdPositive, Init, TxAssumption
<1> QED
  BY <1>5, <1>6, <1>7, <1>9, <1>10 DEF IInv

\* Every step of the driver and of the engine preserves it.
LEMMA NextIInv == IInv /\ [Next]_vars => IInv'
<1> SUFFICES ASSUME IInv, [Next]_vars PROVE IInv'
  OBVIOUS
<1>1. CASE Hardware
  BY <1>1, FetchStep, NextFragStep, CompleteStep DEF Hardware
<1>2. CASE Send
  <2>1. PICK n \in 1 .. MaxFrags :
          halSendNoTcbs(n) \/ halSendFirst(n) \/ halSendLink(n)
    BY <1>2 DEF Send
  <2> QED
    BY <2>1, NoTcbsStep, SendFirstStep, SendLinkStep
<1>3. CASE Running
  BY <1>3, TestEoqStep, ExitSendStep, TxIntBeginStep, PopStep, TxIntEndStep
  DEF Running
<1>4. CASE cpmac_hal_isr \/ halIsr
  BY <1>4, InterruptStep
<1>5. CASE UNCHANGED vars
  <2>1. UNCHANGED <<TcbPool, TxActQueue, TxActive, tcbs, dma>>
    BY <1>5 DEF vars, sw
  <2>2. TypeOK' /\ LinkLocals' /\ ThresholdPositive'
    BY <1>5 DEF IInv, TypeOK, LinkLocals, ThresholdPositive,
                vars, sw, tcbs, cpu, dma, intr, hist
  <2> QED
    BY <2>1, <2>2, RingUntouched DEF IInv
<1> QED
  BY <1>1, <1>2, <1>3, <1>4, <1>5 DEF Next

\* The whole invariant of the transmit ring holds throughout: whatever the
\* engine does between two steps of halSend() or TxInt(), the lists, the
\* hardware chain and the engine's place in it agree.
THEOREM RingInvariant == Spec => []IInv
  BY InitIInv, NextIInv, PTL DEF Spec

\* Type correctness of the transmit ring.
THEOREM TypeCorrect == Spec => []TypeOK
<1>1. IInv => TypeOK
  BY DEF IInv
<1> QED
  BY <1>1, RingInvariant, PTL

\* halSend() and TxInt() never lose a TCB and never have one on two lists, for
\* any number of TCBs and of fragments, and for both settings of TxIntDisable.
THEOREM TcbConservation == Spec => []TcbsConserved
<1>1. IInv => TcbsConserved
  BY DEF IInv
<1> QED
  BY <1>1, RingInvariant, PTL

\* The HDP register is only ever written while the engine is stopped: the two
\* places that restart it after a misqueue never do so for the same stop.
THEOREM RestartSafe == Spec => []NoHostError
<1>1. IInv => NoHostError
  BY DEF IInv
<1> QED
  BY <1>1, RingInvariant, PTL

\* TxInt() clears TxActive exactly when it empties the queue.
THEOREM ActiveFlag == Spec => []ActiveIffQueued
<1>1. IInv => ActiveIffQueued
  BY DEF IInv
<1> QED
  BY <1>1, RingInvariant, PTL

\* The engine never holds a pointer to a TCB that TxInt() put back in the pool.
THEOREM DmaInQueue == Spec => []DmaOnlyActive
<1>1. IInv => DmaOnlyActive
  <2> SUFFICES ASSUME IInv PROVE DmaOnlyActive
    OBVIOUS
  <2>0. PICK N \in Nat : N = Len(TxActQueue)
    BY DEF IInv, TypeOK
  <2>1. PICK d \in 0 .. N : HwDoneTo(d)
    BY <2>0 DEF IInv, HwInQueue
  <2>2. CASE HwStopped(d)
    BY <2>2 DEF HwStopped, DmaOnlyActive
  <2>3. ASSUME NEW c \in d + 1 .. N, HwFetching(d, c) \/ HwSending(d, c)
        PROVE  DmaOnlyActive
    <3>1. c \in 1 .. N /\ d + 1 \in 1 .. N /\ (c < N => c + 1 \in 1 .. N)
      BY <2>3
    <3>2. /\ hwPtr = NULL \/ hwPtr = TxActQueue[c]
          /\ hwCur = NULL \/ hwCur = TxActQueue[c]
          /\ hwSop = NULL \/ hwSop = TxActQueue[d + 1]
          /\ hwLatch = NULL \/ (c < N /\ hwLatch = TxActQueue[c + 1])
      BY <2>0, <2>3 DEF HwFetching, HwSending
    <3> QED
      BY <2>0, <3>1, <3>2 DEF DmaOnlyActive
  <2> QED
    BY <2>0, <2>1, <2>2, <2>3 DEF HwDoneTo
<1> QED
  BY <1>1, RingInvariant, PTL

\* An engine that stopped with packets left has left its EOQ mark on a packet
\* of the queue, where halSend() or TxInt() will find it.
THEOREM StallVisible == Spec => []NoHiddenStall
<1>1. IInv => NoHiddenStall
  <2> SUFFICES ASSUME IInv, HwIdle, TxActQueue # <<>>
               PROVE  \E i \in 1 .. Len(TxActQueue) :
                         Eoq[TxActQueue[i]] /\ Eof[TxActQueue[i]]
    BY DEF NoHiddenStall
  <2>0. PICK N \in Nat : N = Len(TxActQueue)
    BY DEF IInv, TypeOK
  <2>1. PICK d \in 0 .. N : HwDoneTo(d)
    BY <2>0 DEF IInv, HwInQueue
  <2>2. \A c \in d + 1 .. N : TxActQueue[c] # NULL
    BY <2>0, NullIsNoTcb DEF IInv, TypeOK
  <2>3. HwStopped(d)
    BY <2>0, <2>1, <2>2 DEF HwDoneTo, HwFetching, HwSending, HwIdle
  <2> QED
    BY <2>0, <2>1, <2>3 DEF HwDoneTo, HwStopped
<1> QED
  BY <1>1, RingInvariant, PTL

-----------------------------------------------------------------------------
(* The refinement of TxFifo: the positions of a set in ascending order.    *)

\* A set of natural numbers that is not empty has a least member.
LEMMA LeastPosition ==
  ASSUME NEW T \in SUBSET Nat, T # {}
  PROVE  \E x \in T : \A y \in T : x <= y
<1> DEFINE R == {ss \in Nat \X Nat : ss[1] < ss[2]}
<1>1. IsWellFoundedOn(R, Nat)
  BY NatLessThanWellFounded DEF OpToRel
<1> HIDE DEF R
<1>2. PICK x \in T : \A y \in T : ~(<<y, x>> \in R)
  BY <1>1, WFMin
<1>3. \A y \in T : ~(y < x)
  BY <1>2 DEF R
<1> QED
  BY <1>3

\* f lists the n members of S in ascending order.
Lists(f, n, S) ==
  /\ n \in Nat /\ f \in [1 .. n -> S]
  /\ \A j, k \in 1 .. n : j < k => f[j] < f[k]
  /\ \A i \in S : \E k \in 1 .. n : f[k] = i

\* Such a list is the one that Ascending() chooses.
LEMMA ListIsAscending ==
  ASSUME NEW S \in SUBSET Nat, NEW n, NEW f, Lists(f, n, S)
  PROVE  IsFiniteSet(S) /\ Cardinality(S) = n /\ Ascending(S) = f
<1>1. n \in Nat /\ f \in [1 .. n -> S] /\ \A k \in 1 .. n : f[k] \in Nat
  BY DEF Lists
<1>2. IsFiniteSet(1 .. n) /\ Cardinality(1 .. n) = n
  BY <1>1, FS_Interval
<1>3. ASSUME NEW g \in [1 .. n -> S], \A j, k \in 1 .. n : j < k => g[j] < g[k]
      PROVE  g \in Injection(1 .. n, S)
  <2>1. \A k \in 1 .. n : g[k] \in Nat
    OBVIOUS
  <2>2. \A j, k \in 1 .. n : g[j] = g[k] => j = k
    BY <1>1, <1>3, <2>1
  <2> QED
    BY <2>2 DEF Injection, IsInjective
<1>4. f \in Bijection(1 .. n, S)
  BY <1>3 DEF Lists, Bijection, Surjection
<1>5. IsFiniteSet(S) /\ Cardinality(S) = n
  BY <1>2, <1>4, FS_Bijection DEF ExistsBijection
<1>6. PICK g \in [1 .. n -> S] :
        g = Ascending(S) /\ \A j, k \in 1 .. n : j < k => g[j] < g[k]
  BY <1>5 DEF Ascending, Lists
<1>7. \A i \in S : \E k \in 1 .. n : g[k] = i
  <2>1. g \in Injection(1 .. n, S)
    BY <1>3, <1>6
  <2>2. g \in Surjection(1 .. n, S)
    BY <1>2, <1>5, <2>1, FS_Injection
  <2> QED
    BY <2>2 DEF Surjection
<1>8. ASSUME NEW u \in [1 .. n -> S], NEW v \in [1 .. n -> S], NEW x \in 1 .. n,
             \A j, k \in 1 .. n : j < k => u[j] < u[k],
             \A j, k \in 1 .. n : j < k => v[j] < v[k],
             \A i \in S : \E k \in 1 .. n : v[k] = i,
             \A j \in 1 .. n : j < x => u[j] = v[j]
      PROVE  ~(u[x] < v[x])
  <2>1. PICK j \in 1 .. n : v[j] = u[x]
    BY <1>8
  <2>2. u[x] \in Nat /\ v[x] \in Nat /\ v[j] \in Nat
    OBVIOUS
  <2>3. CASE j < x
    BY <1>8, <2>1, <2>2, <2>3
  <2>4. CASE x < j
    BY <1>8, <2>1, <2>2, <2>4
  <2>5. CASE j = x
    BY <2>1, <2>2, <2>5
  <2> QED
    BY <1>1, <2>3, <2>4, <2>5
<1>9. \A k \in 1 .. n : f[k] = g[k]
  <2> DEFINE T == {k \in 1 .. n : f[k] # g[k]}
  <2> SUFFICES ASSUME T # {} PROVE FALSE
    OBVIOUS
  <2>1. T \in SUBSET Nat
    BY <1>1
  <2>2. PICK x \in T : \A y \in T : x <= y
    BY <2>1, LeastPosition
  <2>3. x \in 1 .. n /\ \A j \in 1 .. n : j < x => f[j] = g[j]
    BY <1>1, <2>2
  <2>4. ~(f[x] < g[x])
    <3>1. /\ \A j, k \in 1 .. n : j < k => f[j] < f[k]
          /\ \A j \in 1 .. n : j < x => f[j] = g[j]
      BY <2>3 DEF Lists
    <3> QED
      BY ZenonT(60), <1>1, <1>6, <1>7, <1>8, <2>3, <3>1
  <2>6. ~(g[x] < f[x])
    <3>1. /\ \A j, k \in 1 .. n : j < k => f[j] < f[k]
          /\ \A i \in S : \E k \in 1 .. n : f[k] = i
          /\ \A j \in 1 .. n : j < x => g[j] = f[j]
      BY <2>3 DEF Lists
    <3> QED
      BY <1>1, <1>6, <1>8, <2>3, <3>1
  <2>5. f[x] \in Nat /\ g[x] \in Nat /\ f[x] # g[x]
    BY <1>1, <1>6, <2>2
  <2> QED
    BY <2>4, <2>5, <2>6
<1>10. f = g
  BY <1>1, <1>6, <1>9
<1> QED
  BY <1>5, <1>6, <1>10

\* A list grows by a position behind all others ...
LEMMA ListGrows ==
  ASSUME NEW S \in SUBSET Nat, NEW n, NEW f, Lists(f, n, S),
         NEW m \in Nat, \A i \in S : i < m
  PROVE  Lists([k \in 1 .. n + 1 |-> IF k = n + 1 THEN m ELSE f[k]], n + 1, S \cup {m})
<1> DEFINE g == [k \in 1 .. n + 1 |-> IF k = n + 1 THEN m ELSE f[k]]
<1>1. n \in Nat /\ f \in [1 .. n -> S] /\ \A k \in 1 .. n : f[k] \in S
  BY DEF Lists
<1>2. /\ g[n + 1] = m
      /\ \A k \in 1 .. n : g[k] = f[k]
      /\ \A k \in 1 .. n + 1 : k = n + 1 \/ k \in 1 .. n
  BY <1>1
<1>3. g \in [1 .. n + 1 -> S \cup {m}]
  BY <1>1
<1>4. \A k \in 1 .. n : g[k] \in Nat /\ g[k] < m
  BY <1>1, <1>2
<1>5. \A j, k \in 1 .. n : j < k => g[j] < g[k]
  BY <1>2 DEF Lists
<1> HIDE DEF g
<1>6. \A j, k \in 1 .. n + 1 : j < k => g[j] < g[k]
  BY <1>1, <1>2, <1>4, <1>5
<1>7. \A i \in S \cup {m} : \E k \in 1 .. n + 1 : g[k] = i
  <2>1. n + 1 \in 1 .. n + 1 /\ \A k \in 1 .. n : k \in 1 .. n + 1
    BY <1>1
  <2>2. \A i \in S : \E k \in 1 .. n : g[k] = i
    BY <1>2 DEF Lists
  <2> QED
    BY <1>2, <2>1, <2>2
<1> QED
  BY <1>1, <1>3, <1>6, <1>7 DEF Lists, g

\* ... and every set of positions has a list.
LEMMA ListExists ==
  ASSUME NEW N \in Nat, NEW S \in SUBSET (1 .. N)
  PROVE  \E n, f : Lists(f, n, S)
<1> DEFINE T == {m \in Nat : \E U \in SUBSET (1 .. m) : ~\E n, f : Lists(f, n, U)}
<1> SUFFICES ASSUME T # {} PROVE FALSE
  OBVIOUS
<1>1. PICK m \in T : \A y \in T : m <= y
  BY LeastPosition
<1>2. PICK U \in SUBSET (1 .. m) : ~\E n, f : Lists(f, n, U)
  OBVIOUS
<1>3. m \in Nat
  OBVIOUS
<1>4. U # {}
  <2> SUFFICES ASSUME U = {} PROVE FALSE
    OBVIOUS
  <2>1. Lists([k \in 1 .. 0 |-> 0], 0, U)
    BY DEF Lists
  <2> QED
    BY <1>2, <2>1
<1>5. m # 0
  <2>1. PICK i \in 1 .. m : i \in U
    BY <1>4
  <2> QED
    BY <1>3, <2>1
<1>6. m - 1 \in Nat /\ m - 1 \notin T
  BY <1>1, <1>3, <1>5
<1>7. U \ {m} \in SUBSET (1 .. m - 1)
  BY <1>3, <1>5
<1>8. PICK n, f : Lists(f, n, U \ {m})
  BY <1>6, <1>7
<1>9. m \in U
  <2> SUFFICES ASSUME m \notin U PROVE FALSE
    OBVIOUS
  <2>1. U \ {m} = U
    OBVIOUS
  <2> QED
    BY <1>2, <1>8, <2>1
<1>10. U = (U \ {m}) \cup {m} /\ U \ {m} \in SUBSET Nat /\ \A i \in U \ {m} : i < m
  BY <1>3, <1>7, <1>9
<1> DEFINE V == U \ {m}
           g == [k \in 1 .. n + 1 |-> IF k = n + 1 THEN m ELSE f[k]]
<1>11. V \in SUBSET Nat /\ Lists(f, n, V) /\ \A i \in V : i < m
  BY <1>8, <1>10
<1> HIDE DEF V
<1>12. Lists(g, n + 1, V \cup {m})
  BY <1>3, <1>11, ListGrows
<1> HIDE DEF g
<1> QED
  BY <1>2, <1>10, <1>12 DEF V

\* U is S without its member 1, the only one up to e, and counted from e.
Cut(S, e, U) ==
  /\ S \in SUBSET Nat /\ U \in SUBSET Nat
  /\ e \in Nat /\ 1 <= e
  /\ 1 \in S /\ \A i \in S : i = 1 \/ i > e
  /\ \A i \in Nat : i \in U <=> i > 0 /\ e + i \in S

\* Without its first position, and counted from e, a list is a list.
LEMMA ListShrinks ==
  ASSUME NEW S, NEW e, NEW U, Cut(S, e, U), NEW n, NEW f, Lists(f, n, S)
  PROVE  /\ n > 0 /\ f[1] = 1
         /\ Lists([k \in 1 .. n - 1 |-> f[k + 1] - e], n - 1, U)
<1> USE DEF Cut
<1> DEFINE g == [k \in 1 .. n - 1 |-> f[k + 1] - e]
<1>1. /\ n \in Nat /\ \A k \in 1 .. n : f[k] \in S /\ f[k] \in Nat
      /\ \A j, k \in 1 .. n : j < k => f[j] < f[k]
      /\ \A i \in S : \E k \in 1 .. n : f[k] = i
  BY DEF Lists
<1>2. PICK x \in 1 .. n : f[x] = 1
  BY <1>1
<1>3. n > 0 /\ 1 \in 1 .. n
  BY <1>1, <1>2
<1>4. f[1] = 1
  BY <1>1, <1>2, <1>3
<1>5. \A k \in 1 .. n - 1 : k + 1 \in 1 .. n /\ f[k + 1] > e
  <2> SUFFICES ASSUME NEW k \in 1 .. n - 1 PROVE k + 1 \in 1 .. n /\ f[k + 1] > e
    OBVIOUS
  <2>1. k + 1 \in 1 .. n /\ 1 < k + 1
    BY <1>1
  <2>2. f[k + 1] \in S /\ f[1] < f[k + 1] /\ f[k + 1] \in Nat
    BY <1>1, <1>3, <2>1
  <2> QED
    BY <1>4, <2>1, <2>2
<1>6. \A k \in 1 .. n - 1 : g[k] \in Nat /\ g[k] > 0 /\ e + g[k] = f[k + 1]
  BY <1>1, <1>5
<1>7. \A k \in 1 .. n - 1 : g[k] \in U
  BY <1>1, <1>5, <1>6
<1>8. g \in [1 .. n - 1 -> U]
  BY <1>7
<1> HIDE DEF g
<1>9. \A j, k \in 1 .. n - 1 : j < k => g[j] < g[k]
  <2> SUFFICES ASSUME NEW j \in 1 .. n - 1, NEW k \in 1 .. n - 1, j < k
               PROVE  g[j] < g[k]
    OBVIOUS
  <2>1. f[j + 1] < f[k + 1]
    BY <1>1, <1>5
  <2> QED
    BY <1>6, <2>1
<1>10. \A i \in U : \E k \in 1 .. n - 1 : g[k] = i
  <2> SUFFICES ASSUME NEW i \in U PROVE \E k \in 1 .. n - 1 : g[k] = i
    OBVIOUS
  <2>1. i \in Nat /\ i > 0 /\ e + i \in S
    OBVIOUS
  <2>2. PICK y \in 1 .. n : f[y] = e + i
    BY <1>1, <2>1
  <2>3. y # 1
    BY <1>4, <2>1, <2>2
  <2>4. PICK k \in 1 .. n - 1 : y = k + 1
    <3>1. y - 1 \in 1 .. n - 1 /\ y = (y - 1) + 1
      BY <1>1, <2>3
    <3> QED
      BY <3>1
  <2>5. e + g[k] = e + i /\ g[k] \in Nat
    BY <1>6, <2>2, <2>4
  <2> QED
    BY <2>1, <2>5
<1> QED
  BY <1>1, <1>3, <1>4, <1>8, <1>9, <1>10 DEF Lists, g

\* The packets that begin at the positions S of a queue q.
At(q, info, S) == [k \in 1 .. Cardinality(S) |-> info[q[Ascending(S)[k]]]]

\* They follow any list of those positions.
LEMMA PacketsListed ==
  ASSUME NEW q, NEW info, NEW S \in SUBSET Nat, NEW n, NEW f, Lists(f, n, S)
  PROVE  At(q, info, S) = [k \in 1 .. n |-> info[q[f[k]]]]
<1>1. Cardinality(S) = n /\ Ascending(S) = f
  BY ListIsAscending
<1> QED
  BY <1>1 DEF At

\* A sequence with one more element ...
LEMMA IsAppend ==
  ASSUME NEW T, NEW n \in Nat, NEW s \in [1 .. n -> T], NEW p \in T,
         NEW t \in [1 .. n + 1 -> T], \A k \in 1 .. n : t[k] = s[k], t[n + 1] = p
  PROVE  t = Append(s, p) /\ s \in Seq(T) /\ Len(s) = n
<1>1. s \in Seq(T) /\ t \in Seq(T) /\ Len(s) = n /\ Len(t) = n + 1
  BY SeqDef, LenProperties
<1>2. /\ Append(s, p) \in Seq(T) /\ Len(Append(s, p)) = n + 1
      /\ \A k \in 1 .. n : Append(s, p)[k] = s[k]
      /\ Append(s, p)[n + 1] = p
  BY <1>1, AppendProperties
<1>3. \A k \in 1 .. n + 1 : t[k] = Append(s, p)[k]
  <2>1. \A k \in 1 .. n + 1 : k \in 1 .. n \/ k = n + 1
    OBVIOUS
  <2> QED
    BY <1>2, <2>1
<1> QED
  BY <1>1, <1>2, <1>3, SeqEqual

\* ... and one without the first.
LEMMA IsTail ==
  ASSUME NEW T, NEW n \in Nat \ {0}, NEW s \in [1 .. n -> T],
         NEW t \in [1 .. n - 1 -> T], \A k \in 1 .. n - 1 : t[k] = s[k + 1]
  PROVE  t = Tail(s) /\ s \in Seq(T) /\ Len(s) = n /\ Head(s) = s[1]
<1>1. s \in Seq(T) /\ t \in Seq(T) /\ Len(s) = n /\ Len(t) = n - 1
  BY SeqDef, LenProperties
<1>2. s # <<>>
  BY <1>1
<1>3. /\ Tail(s) \in Seq(T) /\ Len(Tail(s)) = n - 1
      /\ \A k \in 1 .. n - 1 : Tail(s)[k] = s[k + 1]
  BY <1>1, <1>2, HeadTailProperties
<1>4. t = Tail(s)
  BY <1>1, <1>3, SeqEqual
<1> QED
  BY <1>1, <1>4

\* S holds positions of a queue of length N.
Positions(S, N) == N \in Nat /\ S \in SUBSET (1 .. N)

\* ... and U in addition the position behind them.
Grows(S, N, U) == Positions(S, N) /\ U = S \cup {N + 1}

\* Queue r shows the packets of queue q at the same positions, and p behind them.
Extends(r, new, q, info, N, p) ==
  /\ \A i \in 1 .. N : new[r[i]] = info[q[i]]
  /\ new[r[N + 1]] = p

\* The packets at U in r are those at S in q, and p behind them.
Enqueued(r, new, U, q, info, S, p) == At(r, new, U) = Append(At(q, info, S), p)

\* A packet begun at a position behind the queue is appended to the packets.
LEMMA PacketAppended ==
  ASSUME NEW N, NEW S, NEW U, Grows(S, N, U), NEW q, NEW r,
         NEW info, NEW new, NEW p, Extends(r, new, q, info, N, p)
  PROVE  Enqueued(r, new, U, q, info, S, p)
<1> USE DEF Positions, Grows
<1>0. PICK T : p \in T /\ \A i \in 1 .. N : info[q[i]] \in T
  <2>1. p \in {info[q[i]] : i \in 1 .. N} \cup {p}
    OBVIOUS
  <2>2. \A i \in 1 .. N : info[q[i]] \in {info[q[j]] : j \in 1 .. N} \cup {p}
    OBVIOUS
  <2> QED
    BY <2>1, <2>2, Zenon
<1> USE DEF Extends
<1>1. PICK n, f : Lists(f, n, S)
  BY ListExists
<1>2. S \in SUBSET Nat /\ N + 1 \in Nat /\ \A i \in S : i < N + 1
  OBVIOUS
<1>3. n \in Nat /\ \A k \in 1 .. n : f[k] \in S
  BY <1>1 DEF Lists
<1> DEFINE g == [k \in 1 .. n + 1 |-> IF k = n + 1 THEN N + 1 ELSE f[k]]
           s == [k \in 1 .. n |-> info[q[f[k]]]]
           t == [k \in 1 .. n + 1 |-> new[r[g[k]]]]
<1>4. Lists(g, n + 1, S \cup {N + 1})
  BY <1>1, <1>2, ListGrows
<1>5. At(q, info, S) = s
  BY <1>1, <1>2, PacketsListed
<1>6. /\ g[n + 1] = N + 1
      /\ \A k \in 1 .. n : g[k] = f[k]
      /\ \A k \in 1 .. n + 1 : k \in 1 .. n \/ k = n + 1
  BY <1>3
<1> HIDE DEF g
<1>7. PICK V \in SUBSET Nat : V = U
  BY <1>2
<1>8. At(r, new, U) = t
  <2>1. PICK m \in Nat : m = n + 1
    BY <1>3
  <2>2. Lists(g, m, V)
    BY <1>4, <1>7, <2>1
  <2>3. At(r, new, V) = [k \in 1 .. m |-> new[r[g[k]]]]
    BY <2>2, PacketsListed
  <2> QED
    BY <1>7, <2>1, <2>3
<1>9. \A k \in 1 .. n : f[k] \in 1 .. N
  BY <1>3
<1>10. \A k \in 1 .. n : s[k] \in T /\ t[k] = s[k]
  <2> SUFFICES ASSUME NEW k \in 1 .. n PROVE s[k] \in T /\ t[k] = s[k]
    OBVIOUS
  <2>1. k \in 1 .. n + 1 /\ g[k] = f[k] /\ f[k] \in 1 .. N
    BY <1>3, <1>6, <1>9
  <2>2. t[k] = new[r[f[k]]] /\ s[k] = info[q[f[k]]]
    BY <2>1
  <2> QED
    BY <1>0, <2>1, <2>2
<1>11. t[n + 1] = p
  <2>1. n + 1 \in 1 .. n + 1
    BY <1>3
  <2> QED
    BY <1>6, <2>1
<1>12. s \in [1 .. n -> T]
  BY <1>10
<1>13. t \in [1 .. n + 1 -> T]
  <2>1. \A k \in 1 .. n + 1 : t[k] \in T
    BY <1>0, <1>6, <1>10, <1>11
  <2> QED
    BY <2>1
<1> HIDE DEF s, t
<1>14. t = Append(s, p)
  BY <1>0, <1>3, <1>10, <1>11, <1>12, <1>13, IsAppend
<1> QED
  BY <1>5, <1>8, <1>14 DEF Enqueued

\* Queue r is queue q, of length N, without its first e positions.
Drops(r, q, N, e) == e \in 1 .. N /\ \A i \in 1 .. N - e : r[i] = q[e + i]

\* The packets at U in r are those at S in q without the first.
Dequeued(r, U, q, S, info) ==
  /\ At(r, info, U) = Tail(At(q, info, S))
  /\ Head(At(q, info, S)) = info[q[1]]

\* A queue cut behind the end of its first packet loses that packet.
LEMMA PacketRemoved ==
  ASSUME NEW N, NEW S, Positions(S, N), NEW q, NEW r, NEW info, NEW e, NEW U,
         Cut(S, e, U), Drops(r, q, N, e)
  PROVE  Dequeued(r, U, q, S, info)
<1> USE DEF Positions, Drops
<1>0. PICK T : \A i \in 1 .. N : info[q[i]] \in T
  <2>1. \A i \in 1 .. N : info[q[i]] \in {info[q[j]] : j \in 1 .. N}
    OBVIOUS
  <2> QED
    BY <2>1, Zenon
<1>1. PICK n, f : Lists(f, n, S)
  BY ListExists
<1>2. S \in SUBSET Nat /\ U \in SUBSET Nat /\ \A i \in U : i > 0
  BY DEF Cut
<1>3. n \in Nat /\ \A k \in 1 .. n : f[k] \in S
  BY <1>1 DEF Lists
<1> DEFINE g == [k \in 1 .. n - 1 |-> f[k + 1] - e]
           s == [k \in 1 .. n |-> info[q[f[k]]]]
           t == [k \in 1 .. n - 1 |-> info[r[g[k]]]]
<1>4. n > 0 /\ f[1] = 1 /\ Lists(g, n - 1, U)
  BY <1>1, ListShrinks
<1>22. At(q, info, S) = s
  BY <1>1, <1>2, PacketsListed
<1>5. At(q, info, S) = s /\ At(r, info, U) = t
  <2> HIDE DEF g
  <2>1. PICK m \in Nat : m = n - 1
    BY <1>3, <1>4
  <2>2. Lists(g, m, U)
    BY <1>4, <2>1
  <2>4. PICK V \in SUBSET Nat : V = U
    BY <1>2
  <2>5. Lists(g, m, V)
    BY <2>2, <2>4
  <2>3. At(r, info, V) = [k \in 1 .. m |-> info[r[g[k]]]]
    BY <2>5, PacketsListed
  <2> QED
    BY <1>22, <2>1, <2>3, <2>4
<1>6. \A k \in 1 .. n : f[k] \in 1 .. N
  BY <1>3
<1>7. s \in [1 .. n -> T]
  BY <1>0, <1>6
<1>8. \A k \in 1 .. n - 1 : t[k] = s[k + 1]
  <2> SUFFICES ASSUME NEW k \in 1 .. n - 1 PROVE t[k] = s[k + 1]
    OBVIOUS
  <2>1. k + 1 \in 1 .. n /\ f[k + 1] \in 1 .. N
    BY <1>3, <1>6
  <2>2. g[k] \in U /\ g[k] = f[k + 1] - e
    <3>1. g \in [1 .. n - 1 -> U]
      BY <1>4 DEF Lists
    <3> QED
      BY <3>1
  <2>3. PICK m \in Nat : m = g[k]
    BY <1>2, <2>2
  <2>4. m \in 1 .. N - e /\ e + m = f[k + 1]
    <3>1. PICK x \in 1 .. N : x = f[k + 1]
      BY <2>1
    <3>2. m > 0 /\ m = x - e
      BY <1>2, <2>2, <2>3, <3>1
    <3> QED
      BY <3>1, <3>2
  <2>5. r[g[k]] = q[f[k + 1]]
    BY <2>3, <2>4
  <2> QED
    BY <2>1, <2>5
<1>9. t \in [1 .. n - 1 -> T]
  <2>1. \A k \in 1 .. n - 1 : k + 1 \in 1 .. n
    BY <1>3
  <2>2. \A k \in 1 .. n - 1 : t[k] \in T
    BY <1>7, <1>8, <2>1
  <2> QED
    BY <2>2
<1>10. s[1] = info[q[1]] /\ n \in Nat \ {0}
  BY <1>3, <1>4
<1> HIDE DEF s, t
<1>11. t = Tail(s) /\ Head(s) = s[1]
  BY <1>7, <1>8, <1>9, <1>10, IsTail
<1> QED
  BY <1>5, <1>10, <1>11 DEF Dequeued

\* The number of packets, and where each of them begins.
LEMMA PacketsCounted ==
  ASSUME NEW N, NEW S, Positions(S, N), NEW q, NEW info
  PROVE  /\ Len(At(q, info, S)) = Cardinality(S) /\ Cardinality(S) \in Nat
         /\ IsFiniteSet(S)
         /\ \A k \in 1 .. Cardinality(S) : \E i \in S : At(q, info, S)[k] = info[q[i]]
<1> USE DEF Positions
<1>1. PICK n, f : Lists(f, n, S)
  BY ListExists
<1>2. n \in Nat /\ \A k \in 1 .. n : f[k] \in S
  BY <1>1 DEF Lists
<1>3. S \in SUBSET Nat
  OBVIOUS
<1>4. IsFiniteSet(S) /\ Cardinality(S) = n
  BY <1>1, <1>3, ListIsAscending
<1> DEFINE s == [k \in 1 .. n |-> info[q[f[k]]]]
<1>5. At(q, info, S) = s
  BY <1>1, <1>3, PacketsListed
<1>6. Len(s) = n
  <2>1. DOMAIN s = 1 .. n
    OBVIOUS
  <2>2. s \in Seq({s[k] : k \in 1 .. n})
    BY <1>2, SeqDef
  <2> HIDE DEF s
  <2> QED
    BY <1>2, <2>1, <2>2, LenProperties
<1> QED
  BY <1>2, <1>4, <1>5, <1>6

\* The cut takes one position of a set that holds the first.
LEMMA CountDrops ==
  ASSUME NEW N, NEW S, Positions(S, N), NEW e, NEW U, Cut(S, e, U)
  PROVE  Cardinality(S) > 0 /\ Cardinality(U) = Cardinality(S) - 1
<1> USE DEF Positions
<1>1. PICK n, f : Lists(f, n, S)
  BY ListExists
<1>2. S \in SUBSET Nat /\ U \in SUBSET Nat
  BY DEF Cut
<1> DEFINE g == [k \in 1 .. n - 1 |-> f[k + 1] - e]
<1>3. n > 0 /\ Lists(g, n - 1, U)
  BY <1>1, ListShrinks
<1> HIDE DEF g
<1>4. Cardinality(S) = n /\ Cardinality(U) = n - 1
  BY <1>1, <1>2, <1>3, ListIsAscending
<1> QED
  BY <1>3, <1>4
(* The steps of the ring as steps of TxFifo.                               *)

\* The positions of the packets that have been on the wire.
Sent == {i \in Sops : ~Own[TxActQueue[i]]}

\* No packet in the ring or given back is newer than the last Send().
Numbered ==
  /\ \A i \in 1 .. Len(TxActQueue) : OsInfo[TxActQueue[i]] <= nSend
  /\ \A i \in 1 .. Len(returned) : returned[i][1] <= nSend

\* The fragment loop of halSend() marks the TCBs it takes with the new packet
\* and leaves those of the queue alone.
LEMMA SendMarks ==
  ASSUME TypeOK, TcbsConserved, NEW n \in 1 .. Len(TcbPool), NEW tail,
         FillTcbs(n, tail)
  PROVE  /\ \A i \in 1 .. n : OsInfo'[TcbPool[i]] = nSend + 1
         /\ \A i \in 1 .. Len(TxActQueue) : OsInfo'[TxActQueue[i]] = OsInfo[TxActQueue[i]]
<1> DEFINE f == Frags(n)
           F == {f[i] : i \in 1 .. n}
<1>1. TcbPool \in Seq(Tcb) /\ TxActQueue \in Seq(Tcb) /\ Len(TcbPool) \in Nat
  BY DEF TypeOK
<1>2. \A i \in 1 .. n : f[i] = TcbPool[i]
  BY <1>1, PoolSplit DEF Frags
<1>3. /\ \A i \in 1 .. n : TcbPool[i] \in Tcb
      /\ \A i \in 1 .. Len(TxActQueue) : TxActQueue[i] \in Tcb
  BY <1>1
<1>4. \A i \in 1 .. Len(TxActQueue) : TxActQueue[i] \notin F
  BY <1>1, <1>2 DEF TcbsConserved
<1>5. \A i \in 1 .. n : TcbPool[i] \in F
  BY <1>2
<1>6. \A t \in Tcb : OsInfo'[t] = IF t \in F THEN nSend + 1 ELSE OsInfo[t]
  BY DEF FillTcbs
<1> HIDE DEF F
<1> QED
  BY <1>3, <1>4, <1>5, <1>6

\* A packet moved behind the queue begins at the next position and has not
\* been on the wire; no other packet begins, ends or goes out.
LEMMA SendBegins ==
  ASSUME TypeOK, PacketsWhole, NEW N, N = Len(TxActQueue),
         NEW n, MovedToQueue(n), Filled(n)
  PROVE  Sops' = Sops \cup {N + 1} /\ Sent' = Sent
<1> DEFINE q == TxActQueue
<1>1. N \in Nat /\ n \in Nat \ {0} /\ Len(TxActQueue') = N + n
  BY SMTT(30) DEF TypeOK, MovedToQueue
<1>2. \A i \in 1 .. N : TxActQueue'[i] = q[i]
  BY DEF MovedToQueue
<1>3. \A i \in 1 .. n : TxActQueue'[N + i] = TcbPool[i]
  BY DEF MovedToQueue
<1>4. \A i \in 1 .. N : Eof'[q[i]] = Eof[q[i]] /\ Own'[q[i]] = Own[q[i]]
  BY DEF Filled
<1>5. /\ \A i \in 1 .. n : Eof'[TcbPool[i]] <=> i = n
      /\ \A i \in 1 .. n : Own'[TcbPool[i]]
  BY DEF Filled
<1>6. N > 0 => Eof[q[N]]
  BY <1>1 DEF PacketsWhole, TypeOK
<1>7. \A i \in 1 .. N : SopAt(i)' <=> SopAt(i)
  <2> SUFFICES ASSUME NEW i \in 1 .. N PROVE SopAt(i)' <=> SopAt(i)
    OBVIOUS
  <2>1. CASE i = 1
    BY <2>1 DEF SopAt
  <2>2. CASE i # 1
    <3>1. i - 1 \in 1 .. N
      BY <1>1, <2>2
    <3>2. Eof'[TxActQueue'[i - 1]] = Eof[q[i - 1]]
      BY <1>2, <1>4, <3>1
    <3> QED
      BY <3>2 DEF SopAt
  <2> QED
    BY <2>1, <2>2
<1>8. SopAt(N + 1)'
  <2>1. CASE N = 0
    BY <2>1 DEF SopAt
  <2>2. CASE N # 0
    <3>1. N \in 1 .. N /\ (N + 1) - 1 = N /\ N > 0
      BY <1>1, <2>2
    <3>2. Eof'[TxActQueue'[N]]
      BY <1>2, <1>4, <1>6, <3>1
    <3>3. Eof'[TxActQueue'[(N + 1) - 1]]
      BY <3>1, <3>2
    <3> QED
      BY <3>3 DEF SopAt
  <2> QED
    BY <2>1, <2>2
<1>9. \A i \in N + 2 .. N + n : ~SopAt(i)'
  <2> SUFFICES ASSUME NEW i \in N + 2 .. N + n PROVE ~SopAt(i)'
    OBVIOUS
  <2>1. PICK j \in 1 .. n : i - 1 = N + j /\ j # n /\ i # 1
    <3>1. i - 1 - N \in 1 .. n /\ i - 1 - N # n /\ i - 1 = N + (i - 1 - N) /\ i # 1
      BY <1>1
    <3> QED
      BY <3>1, Zenon
  <2>2. TxActQueue'[i - 1] = TcbPool[j]
    BY <1>3, <2>1
  <2>3. ~Eof'[TxActQueue'[i - 1]]
    BY <1>5, <2>1, <2>2
  <2> QED
    BY <2>1, <2>3 DEF SopAt
<1>10. Sops' = {i \in 1 .. N + n : SopAt(i)'} /\ Sops = {i \in 1 .. N : SopAt(i)}
  BY <1>1 DEF Sops
<1>11. Sops' = Sops \cup {N + 1}
  <2>1. \A i \in 1 .. N + n : i \in 1 .. N \/ i = N + 1 \/ i \in N + 2 .. N + n
    BY <1>1
  <2>2. N + 1 \in 1 .. N + n /\ \A i \in 1 .. N : i \in 1 .. N + n
    BY <1>1
  <2> QED
    BY <1>7, <1>8, <1>9, <1>10, <2>1, <2>2
<1>12. \A i \in Sops : i \in 1 .. N
  BY DEF Sops
<1>13. Own'[TxActQueue'[N + 1]]
  <2>1. TxActQueue'[N + 1] = TcbPool[1] /\ 1 \in 1 .. n
    BY <1>1, <1>3
  <2> QED
    BY <1>5, <2>1
<1>14. \A i \in Sops : Own'[TxActQueue'[i]] = Own[q[i]]
  BY <1>2, <1>4, <1>12
<1>15. Sent' = {i \in Sops' : ~Own'[TxActQueue'[i]]} /\ Sent = {i \in Sops : ~Own[q[i]]}
  BY DEF Sent
<1>16. Sent' = Sent
  BY <1>11, <1>13, <1>14, <1>15
<1> QED
  BY <1>11, <1>16
\* What the ring shows of its queue is a list of packets by position.
LEMMA RingShows ==
  ASSUME TypeOK
  PROVE  /\ Len(TxActQueue) \in Nat
         /\ Sops \in SUBSET (1 .. Len(TxActQueue)) /\ Sent \in SUBSET Sops
         /\ Queued = At(TxActQueue, OsInfo, Sops)
         /\ OnWire = Cardinality(Sent)
         /\ \A i \in 1 .. Len(TxActQueue) :
              TxActQueue[i] \in Tcb /\ OsInfo[TxActQueue[i]] \in 0 .. MaxSend
<1>1. TxActQueue \in Seq(Tcb) /\ OsInfo \in [Tcb -> 0 .. MaxSend]
  BY DEF TypeOK
<1>2. Len(TxActQueue) \in Nat /\ \A i \in 1 .. Len(TxActQueue) : TxActQueue[i] \in Tcb
  BY <1>1
<1>3. Sops \in SUBSET (1 .. Len(TxActQueue)) /\ Sent \in SUBSET Sops
  BY DEF Sops, Sent
<1>4. Queued = At(TxActQueue, OsInfo, Sops) /\ OnWire = Cardinality(Sent)
  BY DEF Queued, At, OnWire, Sent
<1> QED
  BY <1>1, <1>2, <1>3, <1>4

\* halSend() that takes TCBs is the Accept step of the next packet.
LEMMA SendAccepts ==
  ASSUME TypeOK, TcbsConserved, PacketsWhole, Numbered, nSend < MaxSend,
         NEW n, MovedToQueue(n), Filled(n), NEW tail, FillTcbs(n, tail),
         nSend' = nSend + 1, returned' = returned
  PROVE  Fifo!Accept(nSend + 1) /\ nSend + 1 \in Pkt /\ Numbered'
<1>0. PICK N \in Nat : N = Len(TxActQueue)
  BY RingShows
<1>1. n \in 1 .. Len(TcbPool) /\ n \in Nat \ {0} /\ nSend \in Nat /\ MaxSend \in Nat
  BY TxAssumption DEF TypeOK, TxAssumption, MovedToQueue
<1>2. /\ \A i \in 1 .. n : OsInfo'[TcbPool[i]] = nSend + 1
      /\ \A i \in 1 .. N : OsInfo'[TxActQueue[i]] = OsInfo[TxActQueue[i]]
  BY <1>0, <1>1, SendMarks
<1>3. Sops' = Sops \cup {N + 1} /\ Sent' = Sent
  BY <1>0, SendBegins
<1>4. /\ Len(TxActQueue') = N + n
      /\ \A i \in 1 .. N : TxActQueue'[i] = TxActQueue[i]
      /\ \A i \in 1 .. n : TxActQueue'[N + i] = TcbPool[i]
  BY <1>0 DEF MovedToQueue
<1>5. /\ Sops \in SUBSET (1 .. N) /\ Sent \in SUBSET Sops
      /\ Queued = At(TxActQueue, OsInfo, Sops)
      /\ OnWire = Cardinality(Sent)
      /\ \A i \in 1 .. N : OsInfo[TxActQueue[i]] \in 0 .. MaxSend
  BY <1>0, RingShows
<1>6. /\ Queued' = At(TxActQueue', OsInfo', Sops')
      /\ OnWire' = Cardinality(Sent')
  BY DEF Queued, At, OnWire, Sent
<1>7. PICK p \in 0 .. MaxSend : p = nSend + 1
  BY <1>1
<1>8. /\ \A i \in 1 .. N : OsInfo'[TxActQueue'[i]] = OsInfo[TxActQueue[i]]
      /\ OsInfo'[TxActQueue'[N + 1]] = p
  <2>1. TxActQueue'[N + 1] = TcbPool[1] /\ 1 \in 1 .. n
    BY <1>1, <1>4
  <2> QED
    BY <1>2, <1>4, <1>7, <2>1
<1>9. Queued' = Append(Queued, p)
  <2>1. PICK q, r, info, new, S :
          q = TxActQueue /\ r = TxActQueue' /\ info = OsInfo /\ new = OsInfo' /\ S = Sops
    OBVIOUS
  <2>2. Positions(S, N) /\ Extends(r, new, q, info, N, p)
    BY <1>5, <1>8, <2>1 DEF Positions, Extends
  <2>3. PICK U : U = S \cup {N + 1} /\ Grows(S, N, U)
    BY <2>2 DEF Grows
  <2>5. Grows(S, N, U) /\ Extends(r, new, q, info, N, p)
    BY <2>2, <2>3
  <2>4. Enqueued(r, new, U, q, info, S, p)
    BY <2>5, PacketAppended
  <2> QED
    BY <1>3, <1>5, <1>6, <2>1, <2>3, <2>4 DEF Enqueued
<1>10. OnWire' = OnWire
  BY <1>3, <1>5, <1>6
<1>11. /\ \A i \in 1 .. N : OsInfo[TxActQueue[i]] <= nSend
       /\ \A i \in 1 .. Len(returned) : returned[i][1] <= nSend
  BY <1>0 DEF Numbered
<1>12. \A i \in 1 .. Len(Queued) : Queued[i] # p
  <2>1. PICK q, info, S : q = TxActQueue /\ info = OsInfo /\ S = Sops
    OBVIOUS
  <2>6. Positions(S, N)
    BY <1>5, <2>1 DEF Positions
  <2>2. /\ Len(At(q, info, S)) = Cardinality(S)
        /\ \A k \in 1 .. Cardinality(S) : \E i \in S : At(q, info, S)[k] = info[q[i]]
    BY <2>6, PacketsCounted
  <2>3. Len(Queued) = Cardinality(S)
    BY <1>5, <2>1, <2>2
  <2> SUFFICES ASSUME NEW k \in 1 .. Cardinality(S) PROVE Queued[k] # p
    BY <2>3
  <2>4. PICK i \in S : Queued[k] = info[q[i]]
    BY <1>5, <2>1, <2>2
  <2>5. info[q[i]] \in 0 .. MaxSend /\ info[q[i]] <= nSend
    BY <1>5, <1>11, <2>1
  <2> QED
    BY <1>1, <1>7, <2>4, <2>5
<1>13. \A i \in 1 .. Len(returned) : returned[i][1] # p
  <2> SUFFICES ASSUME NEW i \in 1 .. Len(returned) PROVE returned[i][1] # p
    OBVIOUS
  <2>1. returned[i][1] \in 0 .. MaxSend
    BY DEF TypeOK
  <2>2. PICK x \in 0 .. MaxSend : x = returned[i][1]
    BY <2>1
  <2>3. x <= nSend
    BY <1>11, <2>2
  <2> QED
    BY <1>1, <1>7, <2>2, <2>3
<1>14. Fifo!Accept(p)
  BY <1>9, <1>10, <1>12, <1>13 DEF Fifo!Accept
<1>15. p \in Pkt
  BY <1>1, <1>7 DEF Pkt
<1>16. Numbered'
  <2>1. \A i \in 1 .. N + n : OsInfo'[TxActQueue'[i]] <= nSend + 1
    <3> SUFFICES ASSUME NEW i \in 1 .. N + n PROVE OsInfo'[TxActQueue'[i]] <= nSend + 1
      OBVIOUS
    <3>1. CASE i \in 1 .. N
      <4>1. PICK x \in 0 .. MaxSend : x = OsInfo[TxActQueue[i]]
        BY <1>5, <3>1
      <4>2. x <= nSend /\ OsInfo'[TxActQueue'[i]] = x
        BY <1>8, <1>11, <3>1, <4>1
      <4> QED
        BY <1>1, <4>1, <4>2
    <3>2. CASE i \notin 1 .. N
      <4>1. PICK j \in 1 .. n : i = N + j
        <5>1. i - N \in 1 .. n /\ i = N + (i - N)
          BY <1>1, <3>2
        <5> QED
          BY <5>1
      <4>2. OsInfo'[TxActQueue'[i]] = nSend + 1
        BY <1>2, <1>4, <4>1
      <4> QED
        BY <1>1, <4>2
    <3> QED
      BY <3>1, <3>2
  <2>2. \A i \in 1 .. Len(returned') : returned'[i][1] <= nSend + 1
    <3> SUFFICES ASSUME NEW i \in 1 .. Len(returned) PROVE returned[i][1] <= nSend + 1
      OBVIOUS
    <3>1. returned[i][1] \in 0 .. MaxSend
      BY DEF TypeOK
    <3>2. PICK x \in 0 .. MaxSend : x = returned[i][1]
      BY <3>1
    <3>3. x <= nSend
      BY <1>11, <3>2
    <3> QED
      BY <1>1, <3>2, <3>3
  <2> QED
    BY <1>4, <2>1, <2>2 DEF Numbered
<1> QED
  BY <1>7, <1>14, <1>15, <1>16
\* The engine that completes a packet has put the first unsent one on the wire.
LEMMA CompleteTransmits == ASSUME IInv, HwComplete PROVE Fifo!Transmit
<1>0. PICK N \in Nat : N = Len(TxActQueue)
  BY DEF IInv, TypeOK
<1> DEFINE q == TxActQueue
<1>1. PICK d \in 0 .. N : HwDoneTo(d)
  BY <1>0 DEF IInv, HwInQueue
<1>2. PICK c \in d + 1 .. N : HwSending(d, c)
  BY <1>0, <1>1 DEF HwComplete, HwDoneTo, HwStopped, HwFetching
<1>3. UNCHANGED <<TxActQueue, Eof, OsInfo, returned>>
  BY DEF HwComplete, sw, hist
<1>4. d + 1 \in 1 .. N /\ hwSop = q[d + 1] /\ Own' = [Own EXCEPT ![q[d + 1]] = FALSE]
  BY <1>2 DEF HwSending, HwComplete
<1>5. \A i \in 1 .. N : q[i] \in Tcb
  BY <1>0 DEF IInv, TypeOK
<1>6. \A i, j \in 1 .. N : q[i] = q[j] => i = j
  BY <1>0 DEF IInv, TcbsConserved
<1>7. \A i \in 1 .. N : Own'[q[i]] = IF i = d + 1 THEN FALSE ELSE Own[q[i]]
  BY <1>4, <1>5, <1>6 DEF IInv, TypeOK
<1>8. SopAt(d + 1) /\ Own[q[d + 1]]
  <2>1. SopAt(d + 1)
    <3>1. CASE d = 0
      BY <3>1 DEF SopAt
    <3>2. CASE d # 0
      <4>1. d > 0 /\ (d + 1) - 1 = d
        BY <3>2
      <4>2. Eof[q[(d + 1) - 1]]
        BY <1>1, <4>1 DEF HwDoneTo
      <4> QED
        BY <4>2 DEF SopAt
    <3> QED
      BY <3>1, <3>2
  <2>2. SopAt(d + 1) => (Own[q[d + 1]] <=> d + 1 > d)
    BY <1>0, <1>1, <1>4 DEF HwDoneTo
  <2> QED
    BY <2>1, <2>2
<1>9. Sops' = Sops
  BY <1>3 DEF Sops, SopAt
<1>10. d + 1 \in Sops /\ d + 1 \notin Sent /\ \A i \in Sops : i \in 1 .. N
  BY <1>0, <1>4, <1>8 DEF Sops, Sent
<1>11. Sent' = Sent \cup {d + 1}
  <2>1. Sent' = {i \in Sops : ~Own'[q[i]]} /\ Sent = {i \in Sops : ~Own[q[i]]}
    BY <1>3, <1>9 DEF Sent
  <2> QED
    BY <1>7, <1>10, <2>1
<1>12. /\ Sops \in SUBSET (1 .. N) /\ Sent \in SUBSET Sops
       /\ Queued = At(TxActQueue, OsInfo, Sops) /\ OnWire = Cardinality(Sent)
  BY <1>0, RingShows DEF IInv
<1>13. PICK S, W, m : S = Sops /\ W = Sent /\ m = d + 1
  OBVIOUS
<1>14. Positions(S, N)
  BY <1>12, <1>13 DEF Positions
<1>15. IsFiniteSet(S) /\ Cardinality(S) \in Nat /\ Len(Queued) = Cardinality(S)
  BY <1>12, <1>13, <1>14, PacketsCounted
<1>16. W \subseteq S /\ m \in S /\ m \notin W
  BY <1>10, <1>12, <1>13
<1>17. IsFiniteSet(W) /\ Cardinality(W) \in Nat
  BY <1>15, <1>16, FS_Subset, FS_CardinalityType
<1>18. Cardinality(W \cup {m}) = Cardinality(W) + 1
  BY <1>16, <1>17, FS_AddElement
<1>19. Cardinality(W \cup {m}) <= Cardinality(S)
  <2>1. W \cup {m} \subseteq S
    BY <1>16
  <2> QED
    BY <1>15, <2>1, FS_Subset
<1>20. OnWire' = OnWire + 1 /\ OnWire < Len(Queued)
  <2>1. OnWire' = Cardinality(Sent')
    BY DEF OnWire, Sent
  <2>2. OnWire' = Cardinality(W \cup {m}) /\ OnWire = Cardinality(W)
    BY <1>11, <1>12, <1>13, <2>1
  <2> QED
    BY <1>15, <1>17, <1>18, <1>19, <2>2
<1>21. Queued' = Queued
  BY <1>3, <1>9 DEF Queued
<1> QED
  BY <1>3, <1>20, <1>21 DEF Fifo!Transmit

\* One turn of the loop of TxInt() is the Complete step, and the packet it
\* gives back is in the channel's numbering.
LEMMA PopCompletes == ASSUME IInv, Numbered, TxIntPop PROVE Fifo!Complete /\ Numbered'
<1>0. PICK N \in Nat : N = Len(TxActQueue)
  BY DEF IInv, TypeOK
<1> DEFINE q == TxActQueue
<1>1. TxActQueue \in Seq(Tcb) /\ q # <<>> /\ ~Own[q[1]]
  BY DEF IInv, TypeOK, TxIntPop, HeadDone
<1>2. N > 0
  BY <1>0, <1>1, EmptySeq
<1>5. PICK e \in 1 .. N : Eop[q[1]] = q[e] /\ Eof[q[e]] /\ NoEof(1, e - 1)
  BY <1>0, <1>2 DEF IInv, PacketsWhole, SopAt
<1>7. \A i, j \in 1 .. N : q[i] = q[j] => i = j
  BY <1>0 DEF IInv, TcbsConserved
<1>8. (CHOOSE i \in DOMAIN TxActQueue : TxActQueue[i] = Eop[q[1]]) = e
  <2>1. DOMAIN TxActQueue = 1 .. N
    BY <1>0, <1>1
  <2> QED
    BY <1>5, <1>7, <2>1
<1>9. /\ TxActQueue' = SubSeq(TxActQueue, e + 1, Len(TxActQueue))
      /\ TcbPool' = SubSeq(TxActQueue, 1, e) \o TcbPool
      /\ returned' = Append(returned, <<OsInfo[q[1]], ~Own[q[1]]>>)
      /\ UNCHANGED <<tcbs, nSend>>
  BY <1>5, <1>8 DEF TxIntPop, PushTcbs
<1>10. Popped(e)
  BY <1>0, <1>9, PopMoves DEF IInv
<1>11. UNCHANGED <<Eof, Own, OsInfo, nSend>>
  BY <1>9 DEF tcbs
<1>12. returned' = Append(returned, <<OsInfo[q[1]], TRUE>>)
  BY <1>1, <1>9
<1>13. /\ Len(TxActQueue') = N - e
       /\ \A i \in 1 .. N - e : TxActQueue'[i] = q[e + i]
  BY <1>0, <1>10 DEF Popped
<1>14. \A i \in 1 .. N - e : SopAt(i)' <=> SopAt(e + i)
  <2> SUFFICES ASSUME NEW i \in 1 .. N - e PROVE SopAt(i)' <=> SopAt(e + i)
    OBVIOUS
  <2>1. CASE i = 1
    <3>1. (e + 1) - 1 = e
      OBVIOUS
    <3>2. Eof[q[(e + 1) - 1]]
      BY <1>5, <3>1
    <3> QED
      BY <2>1, <3>2 DEF SopAt
  <2>2. CASE i # 1
    <3>1. i - 1 \in 1 .. N - e /\ e + (i - 1) = (e + i) - 1 /\ e + i # 1
      BY <2>2
    <3>2. Eof'[TxActQueue'[i - 1]] = Eof[q[(e + i) - 1]]
      BY <1>11, <1>13, <3>1
    <3> QED
      BY <2>2, <3>1, <3>2 DEF SopAt
  <2> QED
    BY <2>1, <2>2
<1>15. \A i \in 2 .. e : ~SopAt(i)
  <2> SUFFICES ASSUME NEW i \in 2 .. e PROVE ~SopAt(i)
    OBVIOUS
  <2>1. i - 1 \in 1 .. e - 1 /\ i # 1
    OBVIOUS
  <2> QED
    BY <1>5, <2>1 DEF SopAt, NoEof
<1>16. /\ Sops = {i \in 1 .. N : SopAt(i)}
       /\ Sops' = {i \in 1 .. N - e : SopAt(i)'}
  BY <1>0, <1>13 DEF Sops
<1>17. 1 \in Sops /\ 1 \in Sent
  BY <1>1, <1>2, <1>16 DEF SopAt, Sent
<1>18. \A i \in Sops : i = 1 \/ i > e
  BY <1>15, <1>16
<1>19. \A i \in Nat : i \in Sops' <=> i > 0 /\ e + i \in Sops
  <2> SUFFICES ASSUME NEW i \in Nat PROVE i \in Sops' <=> i > 0 /\ e + i \in Sops
    OBVIOUS
  <2>1. i \in 1 .. N - e <=> i > 0 /\ e + i \in 1 .. N
    OBVIOUS
  <2> QED
    BY <1>14, <1>16, <2>1
<1>20. \A i \in Nat : i \in Sent' <=> i > 0 /\ e + i \in Sent
  <2> SUFFICES ASSUME NEW i \in Nat PROVE i \in Sent' <=> i > 0 /\ e + i \in Sent
    OBVIOUS
  <2>1. i \in Sops' => Own'[TxActQueue'[i]] = Own[q[e + i]]
    BY <1>11, <1>13, <1>16
  <2>2. Sent' = {j \in Sops' : ~Own'[TxActQueue'[j]]} /\ Sent = {j \in Sops : ~Own[q[j]]}
    BY DEF Sent
  <2> QED
    BY <1>19, <2>1, <2>2
<1>21. /\ Sops \in SUBSET (1 .. N) /\ Sent \in SUBSET Sops
       /\ Queued = At(TxActQueue, OsInfo, Sops) /\ OnWire = Cardinality(Sent)
       /\ \A i \in 1 .. N : OsInfo[TxActQueue[i]] \in 0 .. MaxSend
  BY <1>0, RingShows DEF IInv
<1>22. /\ Queued' = At(TxActQueue', OsInfo, Sops') /\ OnWire' = Cardinality(Sent')
       /\ Sops' \in SUBSET Nat /\ Sent' \in SUBSET Nat
  <2>1. Queued' = At(TxActQueue', OsInfo, Sops') /\ OnWire' = Cardinality(Sent')
    BY <1>11 DEF Queued, At, OnWire, Sent
  <2>2. Sops' \in SUBSET Nat /\ Sent' \in SUBSET Sops'
    BY <1>16 DEF Sent
  <2> QED
    BY <2>1, <2>2
<1>23. PICK S, W, r, U, V :
         S = Sops /\ W = Sent /\ r = TxActQueue' /\ U = Sops' /\ V = Sent'
  OBVIOUS
<1>24. PICK s, info : s = TxActQueue /\ info = OsInfo
  OBVIOUS
<1>25. Positions(S, N) /\ Positions(W, N)
  BY <1>21, <1>23 DEF Positions
<1>26. Cut(S, e, U)
  BY <1>17, <1>18, <1>19, <1>21, <1>22, <1>23 DEF Cut
<1>27. Cut(W, e, V)
  BY <1>17, <1>18, <1>20, <1>21, <1>22, <1>23 DEF Cut
<1>28. Drops(r, s, N, e)
  BY <1>13, <1>23, <1>24 DEF Drops
<1>29. At(r, info, U) = Tail(At(s, info, S)) /\ Head(At(s, info, S)) = info[s[1]]
  <2>1. Positions(S, N) /\ Cut(S, e, U) /\ Drops(r, s, N, e)
    BY <1>25, <1>26, <1>28
  <2>2. Dequeued(r, U, s, S, info)
    BY <2>1, PacketRemoved
  <2> QED
    BY <2>2 DEF Dequeued
<1>30. Cardinality(W) > 0 /\ Cardinality(V) = Cardinality(W) - 1
  BY <1>25, <1>27, CountDrops
<1>31. /\ Queued' = Tail(Queued) /\ Head(Queued) = OsInfo[q[1]]
       /\ OnWire > 0 /\ OnWire' = OnWire - 1
  BY <1>21, <1>22, <1>23, <1>24, <1>29, <1>30
<1>32. Fifo!Complete
  BY <1>12, <1>31 DEF Fifo!Complete
<1>33. Numbered'
  <2>1. \A i \in 1 .. N - e : OsInfo[TxActQueue'[i]] <= nSend
    <3>1. \A i \in 1 .. N - e : e + i \in 1 .. N
      OBVIOUS
    <3>2. \A i \in 1 .. N : OsInfo[q[i]] <= nSend
      BY <1>0 DEF Numbered
    <3> QED
      BY <1>13, <3>1, <3>2
  <2>2. PICK L \in Nat : L = Len(returned)
    BY DEF IInv, TypeOK
  <2>3. /\ Len(returned') = L + 1 /\ returned'[L + 1] = <<OsInfo[q[1]], TRUE>>
        /\ \A i \in 1 .. L : returned'[i] = returned[i]
    <3>4. PICK y \in 0 .. MaxSend : y = OsInfo[q[1]]
      BY <1>2, <1>21
    <3>5. <<y, TRUE>> \in (0 .. MaxSend) \X BOOLEAN
      BY Zenon
    <3>1. PICK x \in (0 .. MaxSend) \X BOOLEAN : x = <<OsInfo[q[1]], TRUE>>
      BY <3>4, <3>5, Zenon
    <3>2. returned \in Seq((0 .. MaxSend) \X BOOLEAN) /\ returned' = Append(returned, x)
      BY <1>12, <3>1 DEF IInv, TypeOK
    <3>3. /\ Len(Append(returned, x)) = Len(returned) + 1
          /\ \A i \in 1 .. Len(returned) : Append(returned, x)[i] = returned[i]
          /\ Append(returned, x)[Len(returned) + 1] = x
      BY <3>2, AppendProperties
    <3> QED
      BY <2>2, <3>1, <3>2, <3>3, Zenon
  <2>4. OsInfo[q[1]] <= nSend
    BY <1>0, <1>2 DEF Numbered
  <2>5. \A i \in 1 .. L + 1 : i = L + 1 \/ i \in 1 .. L
    OBVIOUS
  <2>6. \A i \in 1 .. L : returned[i][1] <= nSend
    BY <2>2 DEF Numbered
  <2>7. \A i \in 1 .. L + 1 : returned'[i][1] <= nSend
    BY <2>3, <2>4, <2>5, <2>6
  <2> QED
    BY <1>11, <1>13, <2>1, <2>3, <2>7 DEF Numbered
<1> QED
  BY <1>32, <1>33
\* A step that touches neither the active queue nor the packets in it shows
\* nothing to the caller.
LEMMA SilentStep ==
  ASSUME Numbered, UNCHANGED <<TxActQueue, Eof, Own, OsInfo, returned>>,
         nSend' = nSend
  PROVE  UNCHANGED <<Queued, OnWire, returned>> /\ Numbered'
<1>1. Sops' = Sops
  BY DEF Sops, SopAt
<1>2. Queued' = Queued /\ OnWire' = OnWire
  BY <1>1 DEF Queued, OnWire
<1>3. Numbered'
  BY DEF Numbered
<1> QED
  BY <1>2, <1>3

\* So does a Send() that finds too few TCBs: its number is used up.
LEMMA NoTcbsSilent ==
  ASSUME IInv, Numbered, NEW n, halSendNoTcbs(n)
  PROVE  UNCHANGED <<Queued, OnWire, returned>> /\ Numbered'
<1>1. UNCHANGED <<TxActQueue, Eof, Own, OsInfo, returned>> /\ nSend' = nSend + 1
  BY DEF halSendNoTcbs, SendCall, sw, tcbs
<1>2. Sops' = Sops
  BY <1>1 DEF Sops, SopAt
<1>3. Queued' = Queued /\ OnWire' = OnWire
  BY <1>1, <1>2 DEF Queued, OnWire
<1>4. nSend \in Nat /\ nSend <= nSend + 1
  BY TxAssumption DEF IInv, TypeOK, TxAssumption
<1>5. \A i \in 1 .. Len(TxActQueue) : OsInfo[TxActQueue[i]] <= nSend + 1
  <2> SUFFICES ASSUME NEW i \in 1 .. Len(TxActQueue)
               PROVE  OsInfo[TxActQueue[i]] <= nSend + 1
    OBVIOUS
  <2>1. PICK x \in 0 .. MaxSend : x = OsInfo[TxActQueue[i]]
    BY RingShows DEF IInv
  <2>2. x <= nSend
    BY <2>1 DEF Numbered
  <2> QED
    BY <1>4, <2>1, <2>2
<1>6. \A i \in 1 .. Len(returned) : returned[i][1] <= nSend + 1
  <2> SUFFICES ASSUME NEW i \in 1 .. Len(returned) PROVE returned[i][1] <= nSend + 1
    OBVIOUS
  <2>1. returned[i][1] \in 0 .. MaxSend
    BY DEF IInv, TypeOK
  <2>2. PICK x \in 0 .. MaxSend : x = returned[i][1]
    BY <2>1
  <2>3. x <= nSend
    BY <2>2 DEF Numbered
  <2> QED
    BY <1>4, <2>2, <2>3
<1>7. Numbered'
  BY <1>1, <1>5, <1>6 DEF Numbered
<1> QED
  BY <1>1, <1>3, <1>7

\* halSend() with enough TCBs, whether the queue was empty or not.
LEMMA SendRefines ==
  ASSUME IInv, Numbered, NEW n, halSendFirst(n) \/ halSendLink(n)
  PROVE  Fifo!Next /\ Numbered'
<1>1. /\ n \in 1 .. Len(TcbPool) /\ nSend < MaxSend
      /\ nSend' = nSend + 1 /\ returned' = returned
      /\ TcbPool' = SubSeq(TcbPool, n + 1, Len(TcbPool))
  <2>1. /\ SendCall(n) /\ n <= Len(TcbPool) /\ returned' = returned
        /\ TcbPool' = SubSeq(TcbPool, n + 1, Len(TcbPool))
    BY Zenon DEF halSendFirst, halSendLink
  <2>2. n \in 1 .. MaxFrags /\ nSend < MaxSend /\ nSend' = nSend + 1
    BY <2>1 DEF SendCall
  <2>3. Len(TcbPool) \in Nat
    BY DEF IInv, TypeOK
  <2>4. n \in 1 .. Len(TcbPool)
    BY <2>1, <2>2, <2>3, TxAssumption DEF TxAssumption
  <2> QED
    BY <2>1, <2>2, <2>4, Zenon
<1>2. TxActQueue' = TxActQueue \o Frags(n)
  <2>1. Frags(n) \in Seq(Tcb)
    BY <1>1, PoolSplit DEF Frags, IInv, TypeOK
  <2> QED
    BY <2>1, ConcatEmptySeq DEF halSendFirst, halSendLink
<1>3. MovedToQueue(n)
  BY <1>1, <1>2, SendMoves DEF IInv
<1>4. PICK tail : /\ FillTcbs(n, tail)
                  /\ IF TxActQueue = <<>> THEN tail = NULL
                                          ELSE tail = TxActQueue[Len(TxActQueue)]
  <2>1. CASE halSendFirst(n)
    BY <2>1, Zenon DEF halSendFirst
  <2>2. CASE halSendLink(n)
    BY <2>2, Zenon DEF halSendLink
  <2> QED
    BY <2>1, <2>2
<1>5. Filled(n)
  BY <1>1, <1>4, SendFills DEF IInv
<1>6. Fifo!Accept(nSend + 1) /\ nSend + 1 \in Pkt /\ Numbered'
  BY <1>1, <1>3, <1>4, <1>5, SendAccepts DEF IInv
<1> QED
  BY <1>6 DEF Fifo!Next

\* Every step of the ring is a step of the FIFO channel, or one that it does
\* not see.
LEMMA NextRefines ==
  ASSUME IInv, Numbered, [Next]_vars
  PROVE  [Fifo!Next]_(Fifo!fifoVars) /\ Numbered'
<1>1. ASSUME UNCHANGED <<TxActQueue, Eof, Own, OsInfo, returned>>, nSend' = nSend
      PROVE  [Fifo!Next]_(Fifo!fifoVars) /\ Numbered'
  BY <1>1, SilentStep DEF Fifo!fifoVars
<1>2. CASE Hardware
  <2>1. CASE HwFetch \/ HwNextFrag
    BY <1>1, <2>1 DEF HwFetch, HwNextFrag, sw, tcbs, hist
  <2>2. CASE HwComplete
    <3>1. Fifo!Transmit
      BY <2>2, CompleteTransmits
    <3>2. Numbered'
      BY <2>2 DEF Numbered, HwComplete, sw, hist
    <3> QED
      BY <3>1, <3>2 DEF Fifo!Next
  <2> QED
    BY <1>2, <2>1, <2>2 DEF Hardware
<1>3. CASE Send
  <2>1. PICK n \in 1 .. MaxFrags :
          halSendNoTcbs(n) \/ halSendFirst(n) \/ halSendLink(n)
    BY <1>3 DEF Send
  <2>2. CASE halSendNoTcbs(n)
    BY <2>2, NoTcbsSilent DEF Fifo!fifoVars
  <2>3. CASE halSendFirst(n) \/ halSendLink(n)
    BY <2>3, SendRefines
  <2> QED
    BY <2>1, <2>2, <2>3
<1>4. CASE Running
  <2>1. CASE halSendTestEoq \/ ExitSend
    BY <1>1, <2>1 DEF halSendTestEoq, ExitSend, sw, tcbs, hist
  <2>2. CASE TxIntBegin \/ TxIntEnd
    BY <1>1, <2>2 DEF TxIntBegin, TxIntEnd, sw, tcbs, hist
  <2>3. CASE TxIntPop
    <3>1. Fifo!Complete /\ Numbered'
      BY <2>3, PopCompletes
    <3> QED
      BY <3>1 DEF Fifo!Next
  <2> QED
    BY <1>4, <2>1, <2>2, <2>3 DEF Running
<1>5. CASE cpmac_hal_isr \/ halIsr
  BY <1>1, <1>5 DEF cpmac_hal_isr, halIsr, sw, tcbs, hist
<1>6. CASE UNCHANGED vars
  BY <1>1, <1>6 DEF vars, sw, tcbs, hist
<1> QED
  BY <1>2, <1>3, <1>4, <1>5, <1>6 DEF Next

\* The opened channel is an empty FIFO.
LEMMA InitRefines == Init => Fifo!Init /\ Numbered
<1> SUFFICES ASSUME Init PROVE Fifo!Init /\ Numbered
  OBVIOUS
<1>1. TxActQueue = <<>> /\ returned = <<>>
  BY DEF Init
<1>2. Sops = {} /\ Sent = {}
  BY <1>1 DEF Sops, Sent
<1>3. Cardinality({}) = 0
  BY FS_EmptySet
<1>4. OnWire = 0
  BY <1>2, <1>3 DEF OnWire, Sent
<1>5. Queued = [k \in 1 .. 0 |-> OsInfo[TxActQueue[Ascending({})[k]]]]
  BY <1>2, <1>3 DEF Queued
<1>6. Queued = <<>>
  <2>1. Queued \in Seq({}) /\ Len(Queued) = 0
    <3>1. Queued \in [1 .. 0 -> {}]
      BY <1>5
    <3> QED
      BY <3>1, SeqDef, LenProperties
  <2> QED
    BY <2>1, EmptySeq
<1>7. Numbered
  BY <1>1 DEF Numbered
<1> QED
  BY <1>1, <1>4, <1>6, <1>7 DEF Fifo!Init

\* The transmit ring implements the FIFO channel of TxFifo: whatever the engine
\* misses between a link and its EOQ test, and whoever calls TxInt(), every
\* accepted packet is given back once, in order, and after it was on the wire.
THEOREM RingImplementsFifo == Spec => ImplementsFifo
<1>1. IInv /\ Numbered /\ [Next]_vars => [Fifo!Next]_(Fifo!fifoVars) /\ Numbered'
  BY NextRefines
<1> QED
  BY <1>1, InitRefines, RingInvariant, PTL DEF Spec, ImplementsFifo, Fifo!Spec
=============================================================================

--------------------------- MODULE SkbPoolProofs ---------------------------
(***************************************************************************)
(* The TI sk_buff pool, for any number of blocks and headers and in both    *)
(* modes.                                                                   *)
(*                                                                         *)
(* The pool mark of an sk_buff tells in every state where its block will    *)
(* go, whatever softirqs do between the two steps of ti_alloc_skb(): a      *)
(* block of the pool stays in it, and one of kmalloc() enters it only under *)
(* a mark that skb_copy_ipcomp() copied.  Two things are needed with it.    *)
(* The free list holds blocks of the pool only (ListType): a block outside  *)
(* it pushed on the list is what a wrong mark leads to.  And kmalloc() has  *)
(* given away every block that an unmarked header holds, which rests on the *)
(* reference counts of those headers (Slab): no race spoils these.          *)
(*                                                                         *)
(* Until such a softirq has moved the head of the list under an allocation, *)
(* no block has two owners and the list holds exactly the blocks that       *)
(* nobody holds (Pool).  The list is treated as a set: the least one that   *)
(* holds the head and is closed under next.                                 *)
(***************************************************************************)
EXTENDS SkbPool, FiniteSetTheorems, WellFoundedInduction, TLAPS

-----------------------------------------------------------------------------
(* The reference counts, as functions of the headers l that are handed out, *)
(* their data dt, their cloned bits cl, the counts dr and the blocks us     *)
(* that kmalloc() has given away.                                           *)

Sharing(l, dt, s) == {t \in l : dt[t] = dt[s]}
HeldBy(l, dt) == {dt[t] : t \in l}

Counted(l, dt, cl, dr, us) ==
  /\ IsFiniteSet(l)
  /\ \A s \in l : /\ dt[s] \in Buf \cup us
                  /\ dr[dt[s]] = Cardinality(Sharing(l, dt, s))
                  /\ ~cl[s] => Sharing(l, dt, s) = {s}

Counters(l, dt, cl, dr, us) ==
  /\ l \subseteq Skb /\ dt \in [Skb -> Block \cup {NULL}]
  /\ cl \in [Skb -> BOOLEAN] /\ dr \in [Block -> Int] /\ us \subseteq Dyn

Give(dt, s, d) == [dt EXCEPT ![s] = d]
Unshared(cl, s) == [cl EXCEPT ![s] = FALSE]
One(dr, d) == [dr EXCEPT ![d] = 1]

(* A header that gets a block adds it to those that are held.               *)
LEMMA TakeHolds ==
  ASSUME NEW l \in SUBSET Skb, NEW dt \in [Skb -> Block \cup {NULL}],
         NEW s \in Skb, s \notin l, NEW d
  PROVE  HeldBy(l \cup {s}, Give(dt, s, d)) = HeldBy(l, dt) \cup {d}
  BY DEF HeldBy, Give

(* A header that gets a block nobody holds is its only owner.               *)
LEMMA TakeCounts ==
  ASSUME NEW l, NEW dt, NEW cl, NEW dr, NEW us, Counters(l, dt, cl, dr, us),
         Counted(l, dt, cl, dr, us), NEW s \in Skb, s \notin l,
         NEW d, d \in Buf \cup us, d \notin HeldBy(l, dt)
  PROVE  Counted(l \cup {s}, Give(dt, s, d), Unshared(cl, s), One(dr, d), us)
<1>. DEFINE eu == Give(dt, s, d)
            cm == Unshared(cl, s)
            es == One(dr, d)
            m  == l \cup {s}
<1>1. /\ eu[s] = d /\ ~cm[s] /\ es[d] = 1
      /\ \A t \in l : t # s /\ eu[t] = dt[t] /\ cm[t] = cl[t] /\ dt[t] # d
                      /\ es[dt[t]] = dr[dt[t]] /\ dt[t] \in Buf \cup us
  BY DEF Counters, Counted, HeldBy, Give, Unshared, One, Block
<1>2. IsFiniteSet(m)
  BY FS_AddElement DEF Counted
<1>. HIDE DEF eu, cm, es
<1>3. Sharing(m, eu, s) = {s} /\ Cardinality({s}) = 1
  BY <1>1, FS_Singleton DEF Sharing
<1>4. \A t \in l : Sharing(m, eu, t) = Sharing(l, dt, t)
  BY <1>1 DEF Sharing
<1>5. Counted(m, eu, cm, es, us)
  BY <1>1, <1>2, <1>3, <1>4 DEF Counted
<1>. QED BY <1>5 DEF eu, cm, es

Last(s, dt, cl, dr) == ~cl[s] \/ dr[dt[s]] = 1
Down(s, dt, cl, dr) == [dr EXCEPT ![dt[s]] = IF cl[s] THEN @ - 1 ELSE @]

(* A header that is freed leaves the counts right, and its block has no     *)
(* owner left exactly when the last reference went.                         *)
LEMMA FreeCounts ==
  ASSUME NEW l, NEW dt, NEW cl, NEW dr, NEW us, Counters(l, dt, cl, dr, us),
         Counted(l, dt, cl, dr, us), NEW s \in l,
         NEW ut, us \ {dt[s]} \subseteq ut, ~Last(s, dt, cl, dr) => us \subseteq ut
  PROVE  /\ Counted(l \ {s}, dt, cl, Down(s, dt, cl, dr), ut)
         /\ HeldBy(l \ {s}, dt) =
              IF Last(s, dt, cl, dr) THEN HeldBy(l, dt) \ {dt[s]} ELSE HeldBy(l, dt)
<1>. DEFINE es == Down(s, dt, cl, dr)
            m  == l \ {s}
            d  == dt[s]
<1>1. d \in Block /\ IsFiniteSet(m) /\ s \in Sharing(l, dt, s)
  BY FS_RemoveElement DEF Counters, Counted, Sharing, Block
<1>2. /\ \A b \in Block : b # d => es[b] = dr[b]
      /\ es[d] = IF cl[s] THEN dr[d] - 1 ELSE dr[d]
  BY <1>1 DEF Counters, Down
<1>. HIDE DEF es
<1>3. \A t \in l : dt[t] \in Block
  BY DEF Counters, Counted, Block
<1>4. \A t \in l : IsFiniteSet(Sharing(l, dt, t)) /\ Cardinality(Sharing(l, dt, t)) \in Nat
  <2>1. \A t \in l : Sharing(l, dt, t) \in SUBSET l
    BY DEF Sharing
  <2>. QED BY <2>1, FS_Subset, FS_CardinalityType DEF Counted
<1>5. \A t \in m : dt[t] # d => Sharing(m, dt, t) = Sharing(l, dt, t)
  BY DEF Sharing
<1>6. \A t \in m : dt[t] = d => Sharing(m, dt, t) = Sharing(l, dt, s) \ {s}
                                /\ Sharing(l, dt, t) = Sharing(l, dt, s)
  BY DEF Sharing
<1>7. Cardinality(Sharing(l, dt, s) \ {s}) = Cardinality(Sharing(l, dt, s)) - 1
  BY <1>1, <1>4, FS_RemoveElement
<1>8. Last(s, dt, cl, dr) => \A t \in m : dt[t] # d
  <2>1. SUFFICES ASSUME Last(s, dt, cl, dr), NEW t \in m, dt[t] = d PROVE FALSE
    OBVIOUS
  <2>2. t \in Sharing(l, dt, s) /\ t # s
    BY <2>1 DEF Sharing
  <2>3. CASE ~cl[s]
    BY <2>2, <2>3 DEF Counted
  <2>4. CASE dr[d] = 1
    <3>1. Cardinality(Sharing(l, dt, s)) = 1
      BY <2>4 DEF Counted
    <3>2. PICK x : Sharing(l, dt, s) = {x}
      BY <1>4, <3>1, FS_Singleton
    <3>. QED BY <1>1, <2>2, <3>2
  <2>. QED BY <2>1, <2>3, <2>4 DEF Last
<1>9. ASSUME NEW t \in m
      PROVE  /\ dt[t] \in Buf \cup ut
             /\ es[dt[t]] = Cardinality(Sharing(m, dt, t))
             /\ ~cl[t] => Sharing(m, dt, t) = {t}
  <2>1. /\ dt[t] \in Buf \cup us
        /\ dr[dt[t]] = Cardinality(Sharing(l, dt, t))
        /\ ~cl[t] => Sharing(l, dt, t) = {t}
    BY DEF Counted
  <2>2. CASE dt[t] # d
    BY <1>2, <1>3, <1>5, <2>1, <2>2
  <2>3. CASE dt[t] = d
    <3>1. ~Last(s, dt, cl, dr)
      BY <1>8, <2>3
    <3>2. cl[s] /\ cl[t]
      BY <1>1, <1>6, <2>1, <2>3, <3>1 DEF Last
    <3>. QED BY <1>2, <1>6, <1>7, <2>1, <2>3, <3>1, <3>2
  <2>. QED BY <2>2, <2>3
<1>10. Counted(m, dt, cl, es, ut)
  BY <1>1, <1>9 DEF Counted
<1>11. CASE Last(s, dt, cl, dr)
  BY <1>8, <1>10, <1>11 DEF HeldBy, es
<1>12. CASE ~Last(s, dt, cl, dr)
  <2>1. \E t \in m : dt[t] = d
    <3>1. cl[s] /\ dr[d] # 1 /\ dr[d] = Cardinality(Sharing(l, dt, s))
      BY <1>12 DEF Last, Counted
    <3>2. Sharing(l, dt, s) # {s}
      BY <3>1, FS_Singleton
    <3>. QED BY <1>1, <3>2 DEF Sharing
  <2>. QED BY <1>10, <1>12, <2>1 DEF HeldBy, es
<1>. QED BY <1>11, <1>12

(* A clone makes one owner more of the same block, and marks both.          *)
LEMMA CloneCounts ==
  ASSUME NEW l, NEW dt, NEW cl, NEW dr, NEW us, Counters(l, dt, cl, dr, us),
         Counted(l, dt, cl, dr, us), NEW src \in l, NEW s \in Skb \ l
  PROVE  LET eu == [dt EXCEPT ![s] = dt[src]] IN
         /\ Counted(l \cup {s}, eu, [cl EXCEPT ![s] = TRUE, ![src] = TRUE],
                    [dr EXCEPT ![dt[src]] = @ + 1], us)
         /\ HeldBy(l \cup {s}, eu) = HeldBy(l, dt)
<1>. DEFINE d  == dt[src]
            eu == [dt EXCEPT ![s] = d]
            cm == [cl EXCEPT ![s] = TRUE, ![src] = TRUE]
            es == [dr EXCEPT ![d] = @ + 1]
            m  == l \cup {s}
<1>1. d \in Block /\ IsFiniteSet(m)
  BY FS_AddElement DEF Counters, Counted, Block
<1>2. /\ eu[s] = d /\ cm[s] /\ cm[src] /\ es[d] = dr[d] + 1
      /\ \A t \in l : t # s /\ eu[t] = dt[t] /\ (cl[t] => cm[t]) /\ dt[t] \in Buf \cup us
      /\ \A b \in Block : b # d => es[b] = dr[b]
      /\ \A t \in l : t # src => (cm[t] <=> cl[t])
  BY <1>1 DEF Counters, Counted
<1>. HIDE DEF eu, cm, es
<1>3. us \subseteq Dyn
  BY DEF Counters
<1>4. \A t \in m : eu[t] = d => Sharing(m, eu, t) = Sharing(l, dt, src) \cup {s}
  BY <1>2 DEF Sharing
<1>5. \A t \in m : eu[t] # d => t \in l /\ Sharing(m, eu, t) = Sharing(l, dt, t)
  BY <1>2 DEF Sharing
<1>6. Cardinality(Sharing(l, dt, src) \cup {s}) = Cardinality(Sharing(l, dt, src)) + 1
  <2>1. Sharing(l, dt, src) \in SUBSET l /\ s \notin Sharing(l, dt, src)
    BY DEF Sharing
  <2>2. IsFiniteSet(Sharing(l, dt, src))
    BY <2>1, FS_Subset DEF Counted
  <2>. QED BY <2>1, <2>2, FS_AddElement
<1>7. \A t \in l : ~cl[t] => Sharing(l, dt, t) = {t}
  BY DEF Counted
<1>8. \A t \in l : dr[dt[t]] = Cardinality(Sharing(l, dt, t))
  BY DEF Counted
<1>9. ASSUME NEW t \in m
      PROVE  /\ eu[t] \in Buf \cup us
             /\ es[eu[t]] = Cardinality(Sharing(m, eu, t))
             /\ ~cm[t] => Sharing(m, eu, t) = {t}
  <2>1. eu[t] \in Buf \cup us /\ eu[t] \in Block
    BY <1>2, <1>3 DEF Block
  <2>2. CASE eu[t] # d
    BY <1>2, <1>5, <1>7, <1>8, <2>1, <2>2
  <2>3. CASE eu[t] = d
    <3>1. cm[t]
      <4>1. CASE t \in {s, src}
        BY <1>2, <4>1
      <4>2. CASE t \notin {s, src}
        <5>1. t \in l /\ src \in Sharing(l, dt, t) /\ src # t
          BY <1>2, <2>3, <4>2 DEF Sharing
        <5>. QED BY <1>2, <1>7, <5>1
      <4>. QED BY <4>1, <4>2
    <3>. QED BY <1>2, <1>4, <1>6, <1>8, <2>1, <2>3, <3>1
  <2>. QED BY <2>2, <2>3
<1>10. Counted(m, eu, cm, es, us)
  BY <1>1, <1>9 DEF Counted
<1>11. HeldBy(m, eu) = HeldBy(l, dt)
  BY <1>2 DEF HeldBy
<1>. QED BY <1>10, <1>11 DEF eu, cm, es

(* What happens to other headers and other blocks leaves the counts right.  *)
LEMMA CountsKept ==
  ASSUME NEW l, NEW dt, NEW cl, NEW dr, NEW us, Counted(l, dt, cl, dr, us),
         NEW eu, NEW cm, NEW es, NEW ut, us \subseteq ut,
         \A t \in l : eu[t] = dt[t] /\ cm[t] = cl[t] /\ es[dt[t]] = dr[dt[t]]
  PROVE  Counted(l, eu, cm, es, ut)
<1>1. \A t \in l : Sharing(l, eu, t) = Sharing(l, dt, t)
  BY DEF Sharing
<1>. QED BY <1>1 DEF Counted

(* A header h that gets a block d of kmalloc() after s was released.        *)
LEMMA MoveCounts ==
  ASSUME NEW l, NEW dt, NEW cl, NEW dr, NEW us, Counters(l, dt, cl, dr, us),
         Counted(l, dt, cl, dr, us), NEW s \in l, NEW d \in Dyn \ us,
         NEW h \in Skb, h \notin l \ {s},
         NEW ut, us \ {dt[s]} \subseteq ut, ~Last(s, dt, cl, dr) => us \subseteq ut,
         ut \subseteq us
  PROVE  /\ Counted((l \ {s}) \cup {h}, Give(dt, h, d), Unshared(cl, h),
                    One(Down(s, dt, cl, dr), d), ut \cup {d})
         /\ HeldBy((l \ {s}) \cup {h}, Give(dt, h, d)) = HeldBy(l \ {s}, dt) \cup {d}
<1>. DEFINE m  == l \ {s}
            es == Down(s, dt, cl, dr)
<1>1. Counted(m, dt, cl, es, ut)
  BY FreeCounts
<1>2. Counters(m, dt, cl, es, ut \cup {d})
  <2>1. dt[s] \in Block
    BY PoolAssumption DEF Counters, Counted, Block
  <2>2. (IF cl[s] THEN dr[dt[s]] - 1 ELSE dr[dt[s]]) \in Int
    BY <2>1 DEF Counters
  <2>3. es \in [Block -> Int]
    BY <2>1, <2>2 DEF Counters, Down
  <2>. HIDE DEF es
  <2>. QED BY <2>3 DEF Counters
<1>. HIDE DEF es
<1>3. d \notin HeldBy(m, dt)
  BY <1>1, PoolAssumption DEF Counted, HeldBy
<1>4. Counted(m, dt, cl, es, ut \cup {d})
  BY <1>1 DEF Counted
<1>5. h \notin m /\ d \in Buf \cup (ut \cup {d})
  OBVIOUS
<1>. HIDE DEF m
<1>6. Counted(m \cup {h}, Give(dt, h, d), Unshared(cl, h), One(es, d), ut \cup {d})
  BY <1>2, <1>3, <1>4, <1>5, TakeCounts
<1>7. HeldBy(m \cup {h}, Give(dt, h, d)) = HeldBy(m, dt) \cup {d}
  BY <1>2, <1>5, TakeHolds DEF Counters
<1>. QED BY <1>6, <1>7 DEF m, es

-----------------------------------------------------------------------------
(* The marks.                                                               *)

(* The list and its readers hold blocks of the pool only, and a block that  *)
(* strayed into it is never given back to kmalloc().                        *)
ListType ==
  /\ head \in Pooled \cup {NULL} /\ next \in [Block -> Pooled \cup {NULL}] /\ num \in Int
  /\ ptr_node \in Pooled \cup {NULL}
  /\ used \subseteq Dyn /\ strayed \subseteq used /\ IsFiniteSet(strayed)

FlagType ==
  /\ in_alloc \in BOOLEAN /\ hybrid_mode \in BOOLEAN /\ undef \in BOOLEAN
  /\ raced \in BOOLEAN /\ leaked \in BOOLEAN

HeaderType ==
  /\ live \subseteq Skb /\ data \in [Skb -> Block \cup {NULL}]
  /\ mark \in [Skb -> BOOLEAN] /\ cloned \in [Skb -> BOOLEAN]
  /\ dataref \in [Block -> Int]

(* The headers whose data go to kfree(): their counts are always right.     *)
Unmarked == {s \in live : ~mark[s]}
Slab == Counted(Unmarked, data, cloned, dataref, used)

(* Inductive: what is released goes by the mark, and what is allocated by   *)
(* the list and by kmalloc(), so marks, list and counts need each other.    *)
IInv == ListType /\ FlagType /\ HeaderType /\ MarkTellsPool /\ Slab

(* Where blocks come from: what the pool holds is a block, and none that    *)
(* kmalloc() has left is in the pool or under a live header.                *)
LEMMA BlockFacts ==
  /\ Buf \subseteq Block /\ Dyn \subseteq Block /\ NULL \notin Block
  /\ \A d \in Dyn : d \notin Buf
  /\ IInv => /\ Pooled \subseteq Block
             /\ \A d \in Dyn \ used : d \notin Pooled /\ \A t \in live : data[t] # d
             /\ \A t \in live : data[t] \in Buf \cup used
<1>1. /\ Buf \subseteq Block /\ Dyn \subseteq Block /\ NULL \notin Block
      /\ \A d \in Dyn : d \notin Buf
  BY PoolAssumption DEF Block
<1>2. ASSUME IInv
      PROVE  /\ Pooled \subseteq Block
             /\ \A d \in Dyn \ used : d \notin Pooled
             /\ \A t \in live : data[t] \in Buf \cup used
  <2>1. strayed \subseteq used /\ used \subseteq Dyn
    BY <1>2 DEF IInv, ListType
  <2>2. \A t \in live : ~mark[t] => data[t] \in Buf \cup used
    BY <1>2 DEF IInv, Slab, Counted, Unmarked
  <2>3. \A t \in live : mark[t] => data[t] \in Buf \cup strayed
    BY <1>2 DEF IInv, MarkTellsPool, Pooled
  <2>. QED BY <1>1, <2>1, <2>2, <2>3 DEF Pooled
<1>. QED BY <1>1, <1>2

(* The invariant gives the types.                                           *)
LEMMA InvTypes == IInv => TypeOK
<1>. SUFFICES ASSUME IInv PROVE TypeOK
  OBVIOUS
<1>1. Pooled \subseteq Block /\ next \in [Block -> Pooled \cup {NULL}]
  BY BlockFacts DEF IInv, ListType
<1>2. next \in [Block -> Block \cup {NULL}]
  BY <1>1
<1>. QED BY <1>1, <1>2 DEF IInv, ListType, FlagType, HeaderType, TypeOK

(* In terms of the lemmas on counts.                                        *)
LEMMA InvCounters ==
  IInv => /\ Counters(live, data, cloned, dataref, used)
          /\ Counters(Unmarked, data, cloned, dataref, used)
  BY DEF IInv, ListType, HeaderType, Unmarked, Counters

(* Every header that is handed out gets a mark that tells its block, and    *)
(* the counts of the slab stay right: the block is new to the slab, or it   *)
(* is none of the slab's.                                                   *)
LEMMA SetUpInv ==
  ASSUME IInv, NEW s \in Skb, s \notin live, NEW d \in Block, NEW m \in BOOLEAN,
         SetUp(s, d, m), m <=> d \in Pooled',
         strayed \subseteq strayed', strayed' \ strayed \subseteq {d},
         \A t \in live : data[t] = d => m /\ mark[t],
         m \/ d \in used', used \subseteq used',
         ListType', FlagType'
  PROVE  IInv'
<1>1. HeaderType'
  BY DEF IInv, HeaderType, SetUp
<1>2. /\ live' = live \cup {s} /\ mark'[s] = m /\ data'[s] = d /\ ~cloned'[s]
      /\ \A t \in live : t # s /\ mark'[t] = mark[t] /\ data'[t] = data[t] /\ cloned'[t] = cloned[t]
  BY DEF IInv, HeaderType, SetUp
<1>3. MarkTellsPool'
  <2>1. SUFFICES ASSUME NEW t \in live' PROVE mark'[t] <=> data'[t] \in Pooled'
    BY DEF MarkTellsPool
  <2>2. CASE t = s
    BY <1>2, <2>2
  <2>3. CASE t # s
    <3>1. t \in live /\ (mark[t] <=> data[t] \in Pooled)
      BY <1>2, <2>1, <2>3 DEF IInv, MarkTellsPool
    <3>2. CASE data[t] = d
      BY <1>2, <3>1, <3>2
    <3>3. CASE data[t] # d
      BY <1>2, <3>1, <3>3 DEF Pooled
    <3>. QED BY <3>2, <3>3
  <2>. QED BY <2>2, <2>3
<1>4. \A t \in Unmarked : /\ data'[t] = data[t] /\ cloned'[t] = cloned[t] /\ data[t] # d
                          /\ data[t] \in Buf \cup used
  BY <1>2, BlockFacts DEF Unmarked
<1>5. \A t \in Unmarked : dataref'[data[t]] = dataref[data[t]]
  BY <1>4, BlockFacts DEF IInv, HeaderType, ListType, SetUp
<1>6. Slab'
  <2>1. CASE m
    <3>1. Unmarked' = Unmarked
      BY <1>2, <2>1 DEF Unmarked
    <3>. QED BY <1>4, <1>5, <3>1, CountsKept DEF IInv, Slab
  <2>2. CASE ~m
    <3>1. Unmarked' = Unmarked \cup {s} /\ s \notin Unmarked
      BY <1>2, <2>2 DEF Unmarked
    <3>2. d \notin HeldBy(Unmarked, data) /\ d \in Buf \cup used'
      BY <1>4, <2>2 DEF HeldBy
    <3>3. Counted(Unmarked, data, cloned, dataref, used') /\ Counters(Unmarked, data, cloned, dataref, used')
      BY InvCounters DEF IInv, Slab, Counted, Counters, ListType
    <3>4. Counted(Unmarked \cup {s}, Give(data, s, d), Unshared(cloned, s), One(dataref, d), used')
      BY <3>1, <3>2, <3>3, TakeCounts
    <3>5. data' = Give(data, s, d) /\ cloned' = Unshared(cloned, s) /\ dataref' = One(dataref, d)
      BY DEF SetUp, Give, Unshared, One
    <3>. QED BY <3>1, <3>4, <3>5 DEF Slab
  <2>. QED BY <2>1, <2>2
<1> QED
  BY <1>1, <1>3, <1>6 DEF IInv

(* alloc_skb() gives a block of kmalloc(), which is none of the pool's.     *)
LEMMA AllocSkbInv ==
  ASSUME IInv, NEW s \in Skb, AllocSkb(s), ptr_node' \in Pooled \cup {NULL},
         in_alloc' \in BOOLEAN, raced' \in BOOLEAN
  PROVE  IInv'
<1>1. PICK d \in Dyn \ used : SetUp(s, d, FALSE) /\ used' = used \cup {d}
  BY DEF AllocSkb
<1>2. d \in Block /\ d \notin Pooled /\ \A t \in live : data[t] # d
  BY BlockFacts
<1>3. strayed' = strayed /\ Pooled' = Pooled /\ s \notin live
  BY DEF AllocSkb, Pooled
<1>4. ListType' /\ FlagType'
  BY <1>1, <1>3 DEF AllocSkb, IInv, ListType, FlagType
<1> QED
  BY <1>1, <1>2, <1>3, <1>4, SetUpInv

(* ti_alloc_skb() gives a block of the pool, or falls back to alloc_skb().  *)
LEMMA TiAllocInv ==
  ASSUME IInv, NEW s \in Skb, NEW n \in Pooled \cup {NULL}, NEW src, TiAlloc(s, n, src),
         ptr_node' \in Pooled \cup {NULL}, in_alloc' \in BOOLEAN, raced' \in BOOLEAN
  PROVE  IInv'
<1>1. CASE n # NULL /\ Pop(s, n, src)
  <2>1. SetUp(s, n, TRUE) /\ s \notin live /\ strayed' = strayed /\ used' = used
    BY <1>1 DEF Pop, CopiedMark
  <2>2. n \in Pooled /\ n \in Block /\ Pooled' = Pooled
    BY <1>1, <2>1, BlockFacts DEF Pooled
  <2>3. \A t \in live : data[t] = n => mark[t]
    BY <2>2 DEF IInv, MarkTellsPool
  <2>4. ListType' /\ FlagType'
    BY <1>1, <2>2 DEF Pop, IInv, ListType, FlagType
  <2> QED
    BY <2>1, <2>2, <2>3, <2>4, SetUpInv
<1>2. CASE n = NULL /\ hybrid_mode /\ AllocSkb(s)
  BY <1>2, AllocSkbInv
<1> QED
  BY <1>1, <1>2 DEF TiAlloc

(* skb_copy_ipcomp() gives a block of kmalloc() the mark of another header; *)
(* from then on the block counts as one of the pool.                        *)
LEMMA IpcompInv ==
  ASSUME IInv, NEW s \in Skb, NEW src \in Skb, skb_copy_ipcomp(src, s)
  PROVE  IInv'
<1>1. PICK d \in Dyn \ used :
        /\ SetUp(s, d, mark[src])
        /\ used' = used \cup {d}
        /\ strayed' = strayed \cup (IF mark[src] THEN {d} ELSE {})
  BY DEF skb_copy_ipcomp
<1>2. d \in Block /\ d \notin Pooled /\ \A t \in live : data[t] # d
  BY BlockFacts
<1>3. s \notin live /\ mark[src] \in BOOLEAN /\ (mark[src] <=> d \in Pooled')
  BY <1>1, <1>2 DEF skb_copy_ipcomp, IInv, HeaderType, Pooled
<1>4. IsFiniteSet(strayed')
  <2>1. IsFiniteSet(strayed) /\ IsFiniteSet(strayed \cup {d})
    BY FS_AddElement DEF IInv, ListType
  <2>2. strayed' = strayed \/ strayed' = strayed \cup {d}
    BY <1>1
  <2>. QED BY <2>1, <2>2
<1>5. Pooled \subseteq Pooled'
  BY <1>1 DEF Pooled
<1>6. ListType' /\ FlagType'
  BY <1>1, <1>4, <1>5 DEF skb_copy_ipcomp, task, IInv, ListType, FlagType
<1> QED
  BY <1>1, <1>2, <1>3, <1>6, SetUpInv

(* Releasing the data of a live sk_buff keeps the free list inside the      *)
(* pool: only a block of the pool carries the mark.                         *)
LEMMA ReleaseType ==
  ASSUME IInv, NEW s \in live, NEW taken \in SUBSET Dyn, ReleaseData(s, taken),
         UNCHANGED <<task, undef>>
  PROVE  ListType' /\ FlagType' /\ Pooled' = Pooled
<1>1. /\ strayed' = strayed /\ Pooled' = Pooled
      /\ used' = taken \cup IF ~mark[s] /\ LastReference(s) THEN used \ {data[s]} ELSE used
  BY DEF ReleaseData, Pooled
<1>2. used' \subseteq Dyn /\ strayed' \subseteq used'
  BY <1>1 DEF IInv, ListType, MarkTellsPool, Pooled
<1>3. FlagType'
  BY DEF ReleaseData, IInv, FlagType, task
<1>4. CASE mark[s] /\ LastReference(s) /\ head # NULL
  <2>1. data[s] \in Pooled /\ data[s] \in Block
    BY <1>4, BlockFacts DEF IInv, MarkTellsPool
  <2> QED
    BY <1>1, <1>2, <1>3, <1>4, <2>1 DEF ReleaseData, TiReleaseData, IInv, ListType, task
<1>5. CASE ~(mark[s] /\ LastReference(s) /\ head # NULL)
  BY <1>1, <1>2, <1>3, <1>5 DEF ReleaseData, TiReleaseData, IInv, ListType, task
<1> QED
  BY <1>4, <1>5

(* The count that a release leaves is a number for every block.             *)
LEMMA CountedDownType ==
  ASSUME IInv, NEW s \in Skb
  PROVE  CountedDown(s) \in [Block -> Int]
<1> DEFINE n == IF cloned[s] THEN dataref[data[s]] - 1 ELSE dataref[data[s]]
<1>1. CASE data[s] \in Block
  <2>1. n \in Int
    BY <1>1 DEF IInv, HeaderType
  <2> HIDE DEF n
  <2>2. [dataref EXCEPT ![data[s]] = n] \in [Block -> Int]
    BY <2>1 DEF IInv, HeaderType
  <2> QED
    BY <2>2 DEF CountedDown, n
<1>2. CASE data[s] \notin Block
  <2>1. CountedDown(s) = dataref
    BY <1>2 DEF CountedDown, IInv, HeaderType
  <2> QED
    BY <2>1 DEF IInv, HeaderType
<1> QED
  BY <1>1, <1>2

(* A release in the terms of the lemmas on counts.                          *)
LEMMA ReleaseTerms ==
  ASSUME NEW s
  PROVE  /\ LastReference(s) <=> Last(s, data, cloned, dataref)
         /\ CountedDown(s) = Down(s, data, cloned, dataref)
  BY DEF LastReference, Last, CountedDown, Down

(* A release of a marked header does not touch the counts of the others.    *)
LEMMA MarkedRelease ==
  ASSUME IInv, NEW s \in live, mark[s]
  PROVE  \A t \in Unmarked : CountedDown(s)[data[t]] = dataref[data[t]]
<1>1. data[s] \in Pooled /\ \A t \in Unmarked : data[t] \notin Pooled
  BY DEF IInv, MarkTellsPool, Unmarked
<1>2. data[s] \in Block /\ \A t \in Unmarked : data[t] \in Block /\ data[t] # data[s]
  BY <1>1, BlockFacts DEF Unmarked, IInv, ListType
<1>. QED BY <1>2 DEF CountedDown, IInv, HeaderType

(* A release followed by a block d of kmalloc() for the header h, which is  *)
(* unmarked from then on: pskb_expand_head() and tcp_collapse().            *)
LEMMA MoveInv ==
  ASSUME IInv, NEW s \in live, NEW d \in Dyn \ used, ReleaseData(s, {d}),
         NEW h \in Skb, h \notin live \ {s}, live' = (live \ {s}) \cup {h},
         data' = [data EXCEPT ![h] = d], cloned' = [cloned EXCEPT ![h] = FALSE],
         dataref' = [CountedDown(s) EXCEPT ![d] = 1],
         mark' = [mark EXCEPT ![h] = FALSE, ![s] = FALSE],
         UNCHANGED <<task, undef>>
  PROVE  IInv'
<1>1. d \in Block /\ d \notin Pooled /\ {d} \in SUBSET Dyn /\ \A t \in live : data[t] # d
  BY BlockFacts
<1>2. ListType' /\ FlagType' /\ Pooled' = Pooled
  BY <1>1, ReleaseType
<1>3. HeaderType'
  <2>1. dataref' \in [Block -> Int]
    BY <1>1, CountedDownType DEF IInv, HeaderType
  <2>2. live' \subseteq Skb /\ data' \in [Skb -> Block \cup {NULL}]
    BY <1>1 DEF IInv, HeaderType
  <2>3. mark' \in [Skb -> BOOLEAN] /\ cloned' \in [Skb -> BOOLEAN]
    BY DEF IInv, HeaderType
  <2>. QED BY <2>1, <2>2, <2>3 DEF HeaderType
<1>4. /\ data'[h] = d /\ ~mark'[h] /\ h \in Skb /\ s \in Skb
      /\ \A t \in live \ {s} : t # h /\ data'[t] = data[t] /\ mark'[t] = mark[t]
                               /\ cloned'[t] = cloned[t]
  BY DEF IInv, HeaderType
<1>5. MarkTellsPool'
  <2>1. SUFFICES ASSUME NEW t \in live' PROVE mark'[t] <=> data'[t] \in Pooled
    BY <1>2 DEF MarkTellsPool
  <2>2. CASE t = h
    BY <1>1, <1>4, <2>2
  <2>3. CASE t # h
    BY <1>4, <2>1, <2>3 DEF IInv, MarkTellsPool
  <2>. QED BY <2>2, <2>3
<1>6. Unmarked' = (Unmarked \ {s}) \cup {h} /\ h \notin Unmarked \ {s}
  BY <1>4 DEF Unmarked
<1>7. /\ data' = Give(data, h, d) /\ cloned' = Unshared(cloned, h)
      /\ dataref' = One(CountedDown(s), d)
      /\ used' = {d} \cup IF ~mark[s] /\ LastReference(s) THEN used \ {data[s]} ELSE used
  BY DEF Give, Unshared, One, ReleaseData
<1>8. Slab'
  <2>1. CASE ~mark[s]
    <3>. DEFINE ut == IF LastReference(s) THEN used \ {data[s]} ELSE used
    <3>1. s \in Unmarked
      BY <2>1 DEF Unmarked
    <3>2. Counters(Unmarked, data, cloned, dataref, used) /\ Counted(Unmarked, data, cloned, dataref, used)
      BY InvCounters DEF IInv, Slab
    <3>3. /\ used \ {data[s]} \subseteq ut /\ ut \subseteq used
          /\ ~Last(s, data, cloned, dataref) => used \subseteq ut
      BY ReleaseTerms
    <3>4. used' = ut \cup {d}
      BY <1>7, <2>1
    <3>. HIDE DEF ut
    <3>5. Counted((Unmarked \ {s}) \cup {h}, Give(data, h, d), Unshared(cloned, h),
                  One(Down(s, data, cloned, dataref), d), ut \cup {d})
      BY <1>6, <3>1, <3>2, <3>3, MoveCounts
    <3>. QED BY <1>6, <1>7, <3>4, <3>5, ReleaseTerms DEF Slab
  <2>2. CASE mark[s]
    <3>1. Unmarked \ {s} = Unmarked /\ used' = used \cup {d}
      BY <1>7, <2>2 DEF Unmarked
    <3>2. Counted(Unmarked, data, cloned, CountedDown(s), used')
      BY <2>2, <3>1, MarkedRelease, CountsKept DEF IInv, Slab
    <3>3. Counters(Unmarked, data, cloned, CountedDown(s), used')
      BY <3>1, InvCounters, CountedDownType DEF Counters, IInv, HeaderType
    <3>4. d \notin HeldBy(Unmarked, data) /\ d \in Buf \cup used'
      BY <1>1, <3>1 DEF HeldBy, Unmarked
    <3>5. Counted(Unmarked \cup {h}, Give(data, h, d), Unshared(cloned, h), One(CountedDown(s), d), used')
      BY <1>6, <3>1, <3>2, <3>3, <3>4, TakeCounts
    <3>. QED BY <1>6, <1>7, <3>1, <3>5 DEF Slab
  <2>. QED BY <2>1, <2>2
<1>. QED BY <1>2, <1>3, <1>5, <1>8 DEF IInv

(* __kfree_skb() leaves one header less.                                    *)
LEMMA FreeInv ==
  ASSUME IInv, NEW s \in Skb, kfree_skb(s)
  PROVE  IInv'
<1>1. /\ s \in live /\ ReleaseData(s, {}) /\ UNCHANGED <<task, undef>> /\ {} \in SUBSET Dyn
      /\ live' = live \ {s} /\ mark' = [mark EXCEPT ![s] = FALSE]
      /\ data' = data /\ cloned' = cloned /\ dataref' = CountedDown(s)
  BY DEF kfree_skb
<1>2. ListType' /\ FlagType' /\ Pooled' = Pooled
  BY <1>1, ReleaseType
<1>3. HeaderType'
  BY <1>1, CountedDownType DEF IInv, HeaderType
<1>4. \A t \in live' : t \in live /\ t # s /\ mark'[t] = mark[t]
  BY <1>1 DEF IInv, HeaderType
<1>5. MarkTellsPool'
  BY <1>1, <1>2, <1>4 DEF IInv, MarkTellsPool
<1>6. Unmarked' = Unmarked \ {s}
  BY <1>1, <1>4 DEF Unmarked
<1>7. used' = IF ~mark[s] /\ LastReference(s) THEN used \ {data[s]} ELSE used
  BY <1>1 DEF ReleaseData
<1>8. Slab'
  <2>1. CASE ~mark[s]
    <3>1. s \in Unmarked
      BY <1>1, <2>1 DEF Unmarked
    <3>2. Counters(Unmarked, data, cloned, dataref, used) /\ Counted(Unmarked, data, cloned, dataref, used)
      BY InvCounters DEF IInv, Slab
    <3>3. used \ {data[s]} \subseteq used' /\ (~Last(s, data, cloned, dataref) => used \subseteq used')
      BY <1>7, ReleaseTerms
    <3>4. Counted(Unmarked \ {s}, data, cloned, Down(s, data, cloned, dataref), used')
      BY <3>1, <3>2, <3>3, FreeCounts
    <3>. QED BY <1>1, <1>6, <3>4, ReleaseTerms DEF Slab
  <2>2. CASE mark[s]
    <3>1. Unmarked' = Unmarked /\ used' = used
      BY <1>6, <1>7, <2>2 DEF Unmarked
    <3>. QED BY <1>1, <2>2, <3>1, MarkedRelease, CountsKept DEF IInv, Slab
  <2>. QED BY <2>1, <2>2
<1>. QED BY <1>2, <1>3, <1>5, <1>8 DEF IInv

(* skb_clone() copies the mark with the block.                              *)
LEMMA CloneInv ==
  ASSUME IInv, NEW s \in Skb, NEW src \in Skb, skb_clone(src, s)
  PROVE  IInv'
<1>1. /\ src \in live /\ s \notin live /\ live' = live \cup {s}
      /\ data' = [data EXCEPT ![s] = data[src]] /\ mark' = [mark EXCEPT ![s] = mark[src]]
      /\ cloned' = [cloned EXCEPT ![s] = TRUE, ![src] = TRUE]
      /\ dataref' = [dataref EXCEPT ![data[src]] = @ + 1]
      /\ UNCHANGED <<hybrid_mode, head, next, num, used, task, undef, raced, leaked, strayed>>
  BY DEF skb_clone
<1>2. ListType' /\ FlagType' /\ Pooled' = Pooled
  BY <1>1 DEF IInv, ListType, FlagType, Pooled, task
<1>3. data[src] \in Block
  BY <1>1, BlockFacts DEF IInv, ListType
<1>4. HeaderType'
  <2>1. dataref[data[src]] + 1 \in Int
    BY <1>3 DEF IInv, HeaderType
  <2>2. dataref' \in [Block -> Int]
    BY <1>1, <2>1 DEF IInv, HeaderType
  <2>3. live' \subseteq Skb /\ data' \in [Skb -> Block \cup {NULL}]
    BY <1>1, <1>3 DEF IInv, HeaderType
  <2>4. mark' \in [Skb -> BOOLEAN] /\ cloned' \in [Skb -> BOOLEAN]
    BY <1>1 DEF IInv, HeaderType
  <2>. QED BY <2>2, <2>3, <2>4 DEF HeaderType
<1>5. /\ data'[s] = data[src] /\ mark'[s] = mark[src]
      /\ \A t \in live : t # s /\ data'[t] = data[t] /\ mark'[t] = mark[t]
      /\ \A t \in live : t # src => cloned'[t] = cloned[t]
  BY <1>1 DEF IInv, HeaderType
<1>6. MarkTellsPool'
  BY <1>1, <1>2, <1>5 DEF IInv, MarkTellsPool
<1>7. Slab'
  <2>1. CASE ~mark[src]
    <3>1. src \in Unmarked /\ s \in Skb \ Unmarked /\ Unmarked' = Unmarked \cup {s}
      BY <1>1, <1>5, <2>1 DEF Unmarked
    <3>2. Counters(Unmarked, data, cloned, dataref, used) /\ Counted(Unmarked, data, cloned, dataref, used)
      BY InvCounters DEF IInv, Slab
    <3>3. Counted(Unmarked \cup {s}, [data EXCEPT ![s] = data[src]],
                  [cloned EXCEPT ![s] = TRUE, ![src] = TRUE],
                  [dataref EXCEPT ![data[src]] = @ + 1], used)
      BY <3>1, <3>2, CloneCounts
    <3>. QED BY <1>1, <3>1, <3>3 DEF Slab
  <2>2. CASE mark[src]
    <3>1. Unmarked' = Unmarked /\ src \notin Unmarked /\ used' = used
      BY <1>1, <1>5, <2>2 DEF Unmarked
    <3>2. data[src] \in Pooled /\ \A t \in Unmarked : data[t] \notin Pooled
      BY <1>1, <2>2 DEF IInv, MarkTellsPool, Unmarked
    <3>3. \A t \in Unmarked : data'[t] = data[t] /\ cloned'[t] = cloned[t]
      BY <1>5, <3>1 DEF Unmarked
    <3>4. \A t \in Unmarked : dataref'[data[t]] = dataref[data[t]]
      <4>1. \A t \in Unmarked : data[t] # data[src] /\ data[t] \in Block
        BY <3>2, BlockFacts DEF Unmarked, IInv, ListType
      <4>. QED BY <1>1, <4>1 DEF IInv, HeaderType
    <3>. QED BY <3>1, <3>3, <3>4, CountsKept DEF IInv, Slab
  <2>. QED BY <2>1, <2>2
<1>. QED BY <1>2, <1>4, <1>6, <1>7 DEF IInv

(* skb_init() has handed out no sk_buff yet.                                *)
LEMMA InitInv == Init => IInv
<1> SUFFICES ASSUME Init PROVE IInv
  OBVIOUS
<1>1. Cardinality(Buf) \in Int
  BY PoolAssumption, FS_CardinalityType
<1>2. Pooled = Buf /\ strayed = {} /\ used = {} /\ IsFiniteSet({})
  BY FS_EmptySet DEF Init, Pooled
<1>3. ListType
  BY <1>1, <1>2 DEF Init, ListType
<1>4. FlagType
  BY DEF Init, FlagType
<1>5. live \subseteq Skb /\ data \in [Skb -> Block \cup {NULL}]
  BY DEF Init
<1>6. mark \in [Skb -> BOOLEAN] /\ cloned \in [Skb -> BOOLEAN]
  BY Zenon DEF Init
<1>7. dataref \in [Block -> Int]
  <2>1. 0 \in Int
    OBVIOUS
  <2> QED
    BY <2>1, Zenon DEF Init
<1>8. MarkTellsPool /\ Slab
  <2>1. Unmarked = {} /\ live = {}
    BY DEF Init, Unmarked
  <2>. QED BY <1>2, <2>1 DEF MarkTellsPool, Slab, Counted
<1> QED
  BY <1>3, <1>4, <1>5, <1>6, <1>7, <1>8 DEF IInv, HeaderType

(* Each operation of skbuff.c, tcp_collapse() and skb_copy_ipcomp() keep    *)
(* lists, marks and counts.                                                 *)
LEMMA NextInv == IInv /\ [Next]_vars => IInv'
<1> SUFFICES ASSUME IInv, [Next]_vars PROVE IInv'
  OBVIOUS
<1>0. ASSUME UNCHANGED <<next, num, live, data, mark, cloned, dataref, used, strayed>>,
             head' \in Pooled \cup {NULL}, ptr_node' \in Pooled \cup {NULL}, FlagType'
      PROVE  IInv'
  BY <1>0 DEF IInv, ListType, HeaderType, MarkTellsPool, Slab, Unmarked, Pooled, Counted, Sharing
<1>1. CASE TiAllocRead
  <2>1. /\ UNCHANGED <<next, num, live, data, mark, cloned, dataref, used, strayed>>
        /\ head' \in Pooled \cup {NULL} /\ ptr_node' \in Pooled \cup {NULL} /\ FlagType'
    BY <1>1 DEF TiAllocRead, IInv, ListType, FlagType
  <2>. QED BY <1>0, <2>1
<1>2. CASE AllocFailure
  <2>1. /\ UNCHANGED <<next, num, live, data, mark, cloned, dataref, used, strayed>>
        /\ head' \in Pooled \cup {NULL} /\ ptr_node' \in Pooled \cup {NULL} /\ FlagType'
    BY <1>2 DEF AllocFailure, task, IInv, ListType, FlagType
  <2>. QED BY <1>0, <2>1
<1>3. ASSUME NEW s \in Skb, alloc_skb(s) PROVE IInv'
  BY <1>3, AllocSkbInv DEF alloc_skb, task, IInv, ListType, FlagType
<1>4. ASSUME NEW s \in Skb, ti_alloc_skb(s) PROVE IInv'
  BY <1>4, TiAllocInv DEF ti_alloc_skb, task, IInv, ListType, FlagType
<1>5. ASSUME NEW s \in Skb, TiAllocTake(s) PROVE IInv'
  BY <1>5, TiAllocInv DEF TiAllocTake, task, IInv, ListType, FlagType
<1>6. ASSUME NEW s \in Skb, kfree_skb(s) PROVE IInv'
  BY <1>6, FreeInv
<1>7. ASSUME NEW s \in Skb, pskb_expand_head(s) PROVE IInv'
  <2>1. PICK d \in Dyn \ used :
          /\ ReleaseData(s, {d})
          /\ data' = [data EXCEPT ![s] = d]
          /\ dataref' = [CountedDown(s) EXCEPT ![d] = 1]
    BY <1>7 DEF pskb_expand_head
  <2>2. /\ s \in live /\ live' = (live \ {s}) \cup {s} /\ s \notin live \ {s}
        /\ cloned' = [cloned EXCEPT ![s] = FALSE]
        /\ UNCHANGED <<task, undef>>
    BY <1>7 DEF pskb_expand_head
  <2>3. mark' = [mark EXCEPT ![s] = FALSE, ![s] = FALSE]
    BY <1>7 DEF pskb_expand_head, IInv, HeaderType
  <2> QED
    BY <2>1, <2>2, <2>3, MoveInv
<1>8. ASSUME NEW s \in Skb, NEW src \in Skb, skb_copy(src, s) PROVE IInv'
  BY <1>8, TiAllocInv DEF skb_copy, task, IInv, ListType, FlagType
<1>9. ASSUME NEW s \in Skb, NEW src \in Skb, skb_clone(src, s) PROVE IInv'
  BY <1>9, CloneInv
<1>10. ASSUME NEW s \in Skb, NEW src \in Skb, tcp_collapse(src, s) PROVE IInv'
  <2>1. PICK d \in Dyn \ used :
          /\ ReleaseData(src, {d})
          /\ data' = [data EXCEPT ![s] = d]
          /\ dataref' = [CountedDown(src) EXCEPT ![d] = 1]
    BY <1>10 DEF tcp_collapse
  <2>2. /\ src \in live /\ live' = (live \ {src}) \cup {s} /\ s \notin live \ {src}
        /\ cloned' = [cloned EXCEPT ![s] = FALSE]
        /\ mark' = [mark EXCEPT ![s] = FALSE, ![src] = FALSE]
        /\ UNCHANGED <<task, undef>>
    BY <1>10 DEF tcp_collapse, CollapsedMark
  <2> QED
    BY <2>1, <2>2, MoveInv
<1>11. ASSUME NEW s \in Skb, NEW src \in Skb, skb_copy_ipcomp(src, s) PROVE IInv'
  BY <1>11, IpcompInv
<1>12. CASE UNCHANGED vars
  <2>1. /\ UNCHANGED <<next, num, live, data, mark, cloned, dataref, used, strayed>>
        /\ head' \in Pooled \cup {NULL} /\ ptr_node' \in Pooled \cup {NULL} /\ FlagType'
    BY <1>12 DEF vars, task, IInv, ListType, FlagType
  <2>. QED BY <1>0, <2>1
<1> QED
  BY <1>1, <1>2, <1>3, <1>4, <1>5, <1>6, <1>7, <1>8, <1>9, <1>10, <1>11, <1>12 DEF Next

(* Whatever tasks and softirqs do, the mark in cb[45] of every sk_buff that *)
(* is handed out tells where __kfree_skb() sends its block: one of the pool *)
(* never to kfree(), and one of kmalloc() to the pool only after            *)
(* skb_copy_ipcomp() copied a mark to it.                                   *)
THEOREM MarkAlwaysTells == Spec => []MarkTellsPool
<1>1. IInv => MarkTellsPool
  BY DEF IInv
<1> QED
  BY InitInv, NextInv, <1>1, PTL DEF Spec

-----------------------------------------------------------------------------
(* The free list as a set: what a walk from h along nx meets.               *)

Closed(C, h, nx) == h \in C \cup {NULL} /\ \A b \in C : nx[b] \in C \cup {NULL}
List(h, nx) == {b \in Block : \A C \in SUBSET Block : Closed(C, h, nx) => b \in C}

(* The list as ti_alloc_skb() and ti_skb_release_data() keep it: no two     *)
(* blocks have the same successor, and nothing comes before the head.       *)
Chain(h, nx) ==
  /\ \A b, c \in List(h, nx) : nx[b] = nx[c] /\ nx[b] # NULL => b = c
  /\ \A b \in List(h, nx) : nx[b] # h

(* The walk stays on the list, and the list is the least such set.          *)
LEMMA WalkStays ==
  ASSUME NEW h \in Block \cup {NULL}, NEW nx \in [Block -> Block \cup {NULL}]
  PROVE  /\ List(h, nx) \subseteq Block /\ Closed(List(h, nx), h, nx)
         /\ \A C \in SUBSET Block : Closed(C, h, nx) => List(h, nx) \subseteq C
         /\ h = NULL => List(h, nx) = {}
<1>1. List(h, nx) \subseteq Block
  BY DEF List
<1>2. \A C \in SUBSET Block : Closed(C, h, nx) => List(h, nx) \subseteq C
  BY DEF List
<1>3. h \in List(h, nx) \cup {NULL}
  BY DEF List, Closed
<1>4. \A b \in List(h, nx) : nx[b] \in List(h, nx) \cup {NULL}
  <2>1. TAKE b \in List(h, nx)
  <2>2. SUFFICES ASSUME nx[b] # NULL PROVE nx[b] \in List(h, nx)
    OBVIOUS
  <2>3. nx[b] \in Block
    BY <1>1, <2>2
  <2>4. ASSUME NEW C \in SUBSET Block, Closed(C, h, nx) PROVE nx[b] \in C
    BY <1>2, <2>2, <2>4 DEF Closed
  <2>. QED BY <2>3, <2>4 DEF List
<1>5. h = NULL => List(h, nx) = {}
  <2>1. {} \in SUBSET Block /\ (h = NULL => Closed({}, h, nx))
    BY DEF Closed
  <2>. QED BY <1>2, <2>1
<1>. QED BY <1>1, <1>2, <1>3, <1>4, <1>5 DEF Closed

(* ti_alloc_skb() takes the head off the list and nothing else.             *)
LEMMA PopList ==
  ASSUME NEW h \in Block, NEW nx \in [Block -> Block \cup {NULL}], Chain(h, nx)
  PROVE  LET ny == [nx EXCEPT ![h] = NULL] IN
         /\ h \in List(h, nx)
         /\ List(nx[h], ny) = List(h, nx) \ {h}
         /\ Chain(nx[h], ny)
<1>. DEFINE ny == [nx EXCEPT ![h] = NULL]
            F == List(h, nx)
            G == List(nx[h], ny)
<1>1. /\ ny \in [Block -> Block \cup {NULL}] /\ nx[h] \in Block \cup {NULL} /\ h # NULL
      /\ ny[h] = NULL /\ \A b \in Block : b # h => ny[b] = nx[b]
  BY PoolAssumption DEF Block
<1>. HIDE DEF ny
<1>2. /\ F \subseteq Block /\ h \in F /\ \A b \in F : nx[b] \in F \cup {NULL}
      /\ \A C \in SUBSET Block : Closed(C, h, nx) => F \subseteq C
  BY <1>1, WalkStays DEF Closed
<1>3. /\ G \subseteq Block /\ nx[h] \in G \cup {NULL} /\ \A b \in G : ny[b] \in G \cup {NULL}
      /\ \A C \in SUBSET Block : Closed(C, nx[h], ny) => G \subseteq C
  BY <1>1, WalkStays DEF Closed
<1>4. /\ \A b, c \in F : nx[b] = nx[c] /\ nx[b] # NULL => b = c
      /\ \A b \in F : nx[b] # h
  BY DEF Chain
<1>. HIDE DEF F, G
<1>5. G \subseteq F \ {h}
  <2>1. Closed(F \ {h}, nx[h], ny) /\ F \ {h} \in SUBSET Block
    BY <1>1, <1>2, <1>4 DEF Closed
  <2>. QED BY <1>3, <2>1
<1>6. F \subseteq G \cup {h}
  <2>1. Closed(G \cup {h}, h, nx) /\ G \cup {h} \in SUBSET Block
    BY <1>1, <1>3 DEF Closed
  <2>. QED BY <1>2, <2>1
<1>7. G = F \ {h}
  BY <1>5, <1>6
<1>8. /\ \A b, c \in G : ny[b] = ny[c] /\ ny[b] # NULL => b = c
      /\ \A b \in G : ny[b] # nx[h]
  <2>1. \A b \in G : b \in F /\ b # h /\ ny[b] = nx[b]
    BY <1>1, <1>2, <1>7
  <2>2. nx[h] = NULL => G = {}
    <3>1. {} \in SUBSET Block /\ (nx[h] = NULL => Closed({}, nx[h], ny))
      BY DEF Closed
    <3>. QED BY <1>3, <3>1
  <2>. QED BY <1>2, <1>4, <2>1, <2>2
<1>. QED BY <1>2, <1>7, <1>8 DEF Chain, F, G, ny

(* ti_skb_release_data() puts a block in front of the list and nothing else. *)
LEMMA PushList ==
  ASSUME NEW h \in Block \cup {NULL}, NEW nx \in [Block -> Block \cup {NULL}], Chain(h, nx),
         NEW d \in Block \ List(h, nx)
  PROVE  LET ny == [nx EXCEPT ![d] = h] IN
         List(d, ny) = List(h, nx) \cup {d} /\ Chain(d, ny)
<1>. DEFINE ny == [nx EXCEPT ![d] = h]
            F == List(h, nx)
            G == List(d, ny)
<1>1. /\ ny \in [Block -> Block \cup {NULL}] /\ d # NULL
      /\ ny[d] = h /\ \A b \in Block : b # d => ny[b] = nx[b]
  BY PoolAssumption DEF Block
<1>. HIDE DEF ny
<1>2. /\ F \subseteq Block /\ h \in F \cup {NULL} /\ \A b \in F : nx[b] \in F \cup {NULL}
      /\ \A C \in SUBSET Block : Closed(C, h, nx) => F \subseteq C
  BY <1>1, WalkStays DEF Closed
<1>3. /\ G \subseteq Block /\ d \in G /\ \A b \in G : ny[b] \in G \cup {NULL}
      /\ \A C \in SUBSET Block : Closed(C, d, ny) => G \subseteq C
  BY <1>1, WalkStays DEF Closed
<1>4. /\ \A b, c \in F : nx[b] = nx[c] /\ nx[b] # NULL => b = c
      /\ \A b \in F : nx[b] # h
      /\ d \notin F
  BY DEF Chain
<1>. HIDE DEF F, G
<1>5. G \subseteq F \cup {d}
  <2>1. Closed(F \cup {d}, d, ny) /\ F \cup {d} \in SUBSET Block
    BY <1>1, <1>2 DEF Closed
  <2>. QED BY <1>3, <2>1
<1>6. F \subseteq G
  <2>1. \A b \in G \ {d} : nx[b] \in (G \ {d}) \cup {NULL}
    BY <1>1, <1>2, <1>3, <1>4, <1>5
  <2>2. h \in (G \ {d}) \cup {NULL}
    BY <1>1, <1>2, <1>3, <1>4
  <2>3. Closed(G \ {d}, h, nx) /\ G \ {d} \in SUBSET Block
    BY <1>3, <2>1, <2>2 DEF Closed
  <2>. QED BY <1>2, <2>3
<1>7. G = F \cup {d}
  BY <1>3, <1>5, <1>6
<1>8. /\ \A b, c \in G : ny[b] = ny[c] /\ ny[b] # NULL => b = c
      /\ \A b \in G : ny[b] # d
  <2>1. \A b \in F : b # d /\ ny[b] = nx[b] /\ nx[b] \in F \cup {NULL}
    BY <1>1, <1>2, <1>4
  <2>. QED BY <1>1, <1>2, <1>4, <1>7, <2>1
<1>. QED BY <1>7, <1>8 DEF Chain, F, G, ny

(* A set of natural numbers has a least member.                             *)
LEMMA LeastMember ==
  ASSUME NEW T \in SUBSET Nat, T # {}
  PROVE  \E x \in T : \A y \in T : x <= y
<1>. DEFINE R == {ss \in Nat \X Nat : ss[1] < ss[2]}
<1>1. IsWellFoundedOn(R, Nat)
  BY NatLessThanWellFounded DEF OpToRel
<1>. HIDE DEF R
<1>2. PICK x \in T : \A y \in T : ~(<<y, x>> \in R)
  BY <1>1, WFMin
<1>3. \A y \in T : ~(y < x)
  BY <1>2 DEF R
<1>. QED BY <1>3

(* skb_init() leaves all blocks on one list.                                *)
LEMMA InitList ==
  ASSUME Init
  PROVE  List(head, next) = Buf /\ Chain(head, next)
<1>. DEFINE n == Cardinality(Buf)
<1>1. PICK order \in [1 .. n -> Buf] : Linked(order)
  BY DEF Init
<1>2. n \in Nat /\ (n = 0 <=> Buf = {}) /\ IsFiniteSet(Buf)
  BY PoolAssumption, FS_CardinalityType, FS_EmptySet
<1>3. /\ head \in Buf \cup {NULL} /\ next \in [Block -> Buf \cup {NULL}]
      /\ Buf \subseteq Block
  BY BlockFacts DEF Init
<1>4. \A b \in Buf : \E i \in 1 .. n : order[i] = b
  <2>1. order \in Injection(1 .. n, Buf)
    BY <1>1 DEF Linked, Injection, IsInjective
  <2>2. Cardinality(1 .. n) = n
    BY <1>2, FS_Interval
  <2>3. order \in Surjection(1 .. n, Buf)
    BY <1>2, <2>1, <2>2, FS_Injection
  <2>. QED BY <2>3 DEF Surjection
<1>5. /\ \A i, j \in 1 .. n : order[i] = order[j] => i = j
      /\ n > 0 => head = order[n]
      /\ n = 0 => head = NULL
      /\ \A i \in 1 .. n : next[order[i]] = IF i = 1 THEN NULL ELSE order[i - 1]
  BY <1>1, <1>2 DEF Linked
<1>. HIDE DEF n
<1>6. ASSUME NEW C \in SUBSET Block, Closed(C, head, next) PROVE Buf \subseteq C
  <2>1. SUFFICES ASSUME NEW b \in Buf \ C PROVE FALSE
    OBVIOUS
  <2>. DEFINE T == {k \in 0 .. n : n - k \in 1 .. n /\ order[n - k] \notin C}
  <2>2. PICK i \in 1 .. n : order[i] = b
    BY <1>4
  <2>3. n - i \in T /\ T \in SUBSET Nat
    BY <1>2, <2>1, <2>2
  <2>4. PICK k \in T : \A y \in T : k <= y
    <3>. HIDE DEF T
    <3>. QED BY <2>3, LeastMember
  <2>5. k # 0
    BY <1>2, <1>5, <1>6, <2>4, PoolAssumption DEF Closed
  <2>6. k - 1 \notin T /\ k \in 1 .. n /\ n - k \in 1 .. n /\ order[n - k] \notin C
    BY <1>2, <2>4, <2>5
  <2>7. n - k + 1 \in 1 .. n /\ order[n - k + 1] \in C
    BY <1>2, <2>6
  <2>8. next[order[n - k + 1]] = order[n - k] /\ order[n - k] \in Buf
    BY <1>2, <1>5, <2>6, <2>7
  <2>. QED BY <1>6, <2>6, <2>7, <2>8, PoolAssumption DEF Closed
<1>7. List(head, next) = Buf
  <2>1. Closed(Buf, head, next) /\ Buf \in SUBSET Block
    BY <1>3 DEF Closed
  <2>2. List(head, next) \subseteq Buf
    BY <2>1 DEF List
  <2>3. Buf \subseteq List(head, next)
    BY <1>3, <1>6 DEF List
  <2>. QED BY <2>2, <2>3
<1>8. Chain(head, next)
  <2>1. \A b, c \in Buf : next[b] = next[c] /\ next[b] # NULL => b = c
    <3>1. TAKE b \in Buf, c \in Buf
    <3>2. PICK i \in 1 .. n, j \in 1 .. n : order[i] = b /\ order[j] = c
      BY <1>4
    <3>3. SUFFICES ASSUME next[b] = next[c], next[b] # NULL PROVE b = c
      OBVIOUS
    <3>4. CASE i # 1 /\ j # 1
      BY <1>2, <1>5, <3>2, <3>3, <3>4
    <3>5. CASE i = 1 \/ j = 1
      BY <1>5, <3>2, <3>3, <3>5
    <3>. QED BY <3>4, <3>5
  <2>2. \A b \in Buf : next[b] # head
    <3>1. TAKE b \in Buf
    <3>2. PICK i \in 1 .. n : order[i] = b
      BY <1>4
    <3>3. n > 0 /\ head = order[n] /\ head # NULL
      BY <1>2, <1>5, <3>2, PoolAssumption
    <3>4. CASE i = 1
      BY <1>5, <3>2, <3>3, <3>4
    <3>5. CASE i # 1
      BY <1>2, <1>5, <3>2, <3>3, <3>5
    <3>. QED BY <3>4, <3>5
  <2>. QED BY <1>7, <2>1, <2>2 DEF Chain
<1>. QED BY <1>7, <1>8

-----------------------------------------------------------------------------
(* The pool, as long as no softirq has moved the head of the list under an  *)
(* allocation: the counts are right, what is on the list is held by nobody, *)
(* and until a block leaked every block is on the list or held.             *)

HeldBlocks == HeldBy(live, data)

Pool ==
  /\ Counted(live, data, cloned, dataref, used)
  /\ Chain(head, next)
  /\ FreeList \cap HeldBlocks = {}
  /\ ~leaked => /\ FreeList \cup (HeldBlocks \cap Pooled) = Pooled
                /\ num = Cardinality(FreeList)

PInv == IInv /\ (~raced => Pool)

(* The free list in the terms of the lemmas above.                          *)
LEMMA FreeListIsList ==
  /\ FreeList = List(head, next) /\ FreeList' = List(head', next')
  /\ HeldBlocks' = HeldBy(live', data')
  /\ IInv => Counters(live, data, cloned, dataref, used)
<1>1. /\ FreeList = List(head, next) /\ FreeList' = List(head', next')
      /\ HeldBlocks' = HeldBy(live', data')
  BY DEF FreeList, Walked, List, Closed, HeldBlocks, HeldBy
<1>. QED BY <1>1, InvCounters

(* The free list is a finite set of blocks of the pool.                     *)
LEMMA FreeListFinite == IInv => IsFiniteSet(FreeList) /\ FreeList \subseteq Pooled
<1>. SUFFICES ASSUME IInv PROVE IsFiniteSet(FreeList) /\ FreeList \subseteq Pooled
  OBVIOUS
<1>1. Closed(Pooled, head, next) /\ Pooled \in SUBSET Block
  BY BlockFacts DEF IInv, ListType, Closed
<1>2. FreeList \subseteq Pooled
  BY <1>1, FreeListIsList DEF List
<1>3. IsFiniteSet(Pooled)
  BY PoolAssumption, FS_Union DEF IInv, ListType, Pooled
<1>. QED BY <1>2, <1>3, FS_Subset

(* alloc_skb() takes a block that kmalloc() has not given away before.      *)
LEMMA AllocSkbPool ==
  ASSUME IInv, Pool, NEW s \in Skb, AllocSkb(s)
  PROVE  Pool'
<1>1. PICK d \in Dyn \ used : SetUp(s, d, FALSE) /\ used' = used \cup {d}
  BY DEF AllocSkb
<1>2. d \notin HeldBlocks /\ d \notin Pooled
  BY BlockFacts DEF HeldBlocks, HeldBy
<1>3. Counters(live, data, cloned, dataref, used)
  BY FreeListIsList
<1>4. Counted(live, data, cloned, dataref, used)' /\ HeldBlocks' = HeldBlocks \cup {d}
  <2>1. s \notin live /\ d \in Buf \cup used' /\ d \notin HeldBy(live, data)
    BY <1>1, <1>2 DEF AllocSkb, HeldBlocks
  <2>2. Counted(live, data, cloned, dataref, used')
    BY <1>1 DEF Pool, Counted
  <2>3. Counters(live, data, cloned, dataref, used')
    BY <1>1, <1>3 DEF Counters
  <2>4. Counted(live \cup {s}, Give(data, s, d), Unshared(cloned, s), One(dataref, d), used')
    BY <2>1, <2>2, <2>3, TakeCounts
  <2>6. HeldBy(live \cup {s}, Give(data, s, d)) = HeldBy(live, data) \cup {d}
    BY <1>3, <2>1, TakeHolds DEF Counters
  <2>5. /\ live' = live \cup {s} /\ data' = Give(data, s, d)
        /\ cloned' = Unshared(cloned, s) /\ dataref' = One(dataref, d)
    BY <1>1 DEF SetUp, Give, Unshared, One
  <2>. QED BY <2>4, <2>5, <2>6, FreeListIsList DEF HeldBlocks
<1>5. UNCHANGED <<head, next, num, leaked>> /\ FreeList' = FreeList /\ Pooled' = Pooled
  BY FreeListIsList DEF AllocSkb, Pooled
<1>6. FreeList \subseteq Pooled
  BY FreeListFinite
<1>. QED BY <1>2, <1>4, <1>5, <1>6 DEF Pool

(* ti_alloc_skb() takes the head of the list, which nobody holds.           *)
LEMMA PopPool ==
  ASSUME IInv, Pool, NEW s \in Skb, NEW src, head # NULL, Pop(s, head, src)
  PROVE  Pool'
<1>1. head \in Block /\ head \in Pooled /\ next \in [Block -> Block \cup {NULL}] /\ Pooled' = Pooled
  BY InvTypes, BlockFacts DEF IInv, ListType, TypeOK, Pop, Pooled
<1>2. head \in FreeList /\ FreeList' = FreeList \ {head} /\ Chain(head, next)'
  BY <1>1, PopList, FreeListIsList DEF Pool, Pop
<1>3. Counted(live, data, cloned, dataref, used)' /\ HeldBlocks' = HeldBlocks \cup {head}
  <2>1. s \notin live /\ head \in Buf \cup used /\ head \notin HeldBy(live, data)
    BY <1>1, <1>2 DEF Pop, Pool, HeldBlocks, Pooled, IInv, ListType
  <2>2. used' = used /\ SetUp(s, head, CopiedMark(src, TRUE))
    BY DEF Pop
  <2>3. /\ Counted(live, data, cloned, dataref, used)
        /\ Counters(live, data, cloned, dataref, used)
    BY FreeListIsList DEF Pool
  <2>4. Counted(live \cup {s}, Give(data, s, head), Unshared(cloned, s), One(dataref, head), used)
    BY <2>1, <2>3, TakeCounts
  <2>6. HeldBy(live \cup {s}, Give(data, s, head)) = HeldBy(live, data) \cup {head}
    BY <2>1, <2>3, TakeHolds DEF Counters
  <2>5. /\ live' = live \cup {s} /\ data' = Give(data, s, head)
        /\ cloned' = Unshared(cloned, s) /\ dataref' = One(dataref, head)
    BY <2>2 DEF SetUp, Give, Unshared, One
  <2>. QED BY <2>2, <2>4, <2>5, <2>6, FreeListIsList DEF HeldBlocks
<1>4. num' = num - 1 /\ leaked' = leaked
  BY DEF Pop
<1>5. Cardinality(FreeList \ {head}) = Cardinality(FreeList) - 1
  BY <1>2, FreeListFinite, FS_RemoveElement
<1>6. FreeList' \cap HeldBlocks' = {}
  BY <1>2, <1>3 DEF Pool
<1>7. ~leaked' => FreeList' \cup (HeldBlocks' \cap Pooled') = Pooled'
  BY <1>1, <1>2, <1>3, <1>4 DEF Pool
<1>. QED BY <1>2, <1>3, <1>4, <1>5, <1>6, <1>7 DEF Pool

(* ti_alloc_skb() as a whole.                                               *)
LEMMA TiAllocPool ==
  ASSUME IInv, Pool, NEW s \in Skb, NEW n \in {NULL, head}, NEW src, TiAlloc(s, n, src)
  PROVE  Pool'
  BY PopPool, AllocSkbPool DEF TiAlloc

(* A release puts the block on the list with the last reference, or leaks   *)
(* it, and otherwise leaves the list alone.                                 *)
LEMMA ReleaseList ==
  ASSUME IInv, Pool, NEW s \in live, NEW taken, ReleaseData(s, taken)
  PROVE  /\ Chain(head, next)'
         /\ FreeList' = IF mark[s] /\ LastReference(s) /\ head # NULL
                        THEN FreeList \cup {data[s]} ELSE FreeList
         /\ num = Cardinality(FreeList) => num' = Cardinality(FreeList')
<1>1. CASE mark[s] /\ LastReference(s) /\ head # NULL
  <2>1. data[s] \in Block \ FreeList
    BY <1>1, BlockFacts DEF IInv, MarkTellsPool, Pool, HeldBlocks, HeldBy
  <2>2. next' = [next EXCEPT ![data[s]] = head] /\ head' = data[s] /\ num' = num + 1
    BY <1>1 DEF ReleaseData, TiReleaseData
  <2>3. head \in Block \cup {NULL} /\ next \in [Block -> Block \cup {NULL}]
    BY InvTypes DEF TypeOK
  <2>4. FreeList' = FreeList \cup {data[s]} /\ Chain(head, next)'
    BY ZenonT(60), <2>1, <2>2, <2>3, PushList, FreeListIsList DEF Pool
  <2>5. Cardinality(FreeList \cup {data[s]}) = Cardinality(FreeList) + 1
    BY <2>1, FreeListFinite, FS_AddElement
  <2>. QED BY <1>1, <2>2, <2>4, <2>5
<1>2. CASE ~(mark[s] /\ LastReference(s) /\ head # NULL)
  <2>1. UNCHANGED <<head, next, num>>
    BY <1>2 DEF ReleaseData, TiReleaseData
  <2>. QED BY <1>2, <2>1, FreeListIsList DEF Pool
<1>. QED BY <1>1, <1>2

(* What a release leaves of the pool, before anything else happens: the     *)
(* headers but s, their blocks, and what kmalloc() still has out.           *)
LEMMA ReleasePool ==
  ASSUME IInv, Pool, NEW s \in live, NEW taken \in SUBSET (Dyn \ used), ReleaseData(s, taken)
  PROVE  /\ Counted(live \ {s}, data, cloned, CountedDown(s), used' \ taken)
         /\ used' \ taken \subseteq used /\ used' = (used' \ taken) \cup taken
         /\ FreeList' \cap HeldBy(live \ {s}, data) = {}
         /\ ~leaked' => /\ FreeList' \cup (HeldBy(live \ {s}, data) \cap Pooled) = Pooled
                        /\ num' = Cardinality(FreeList')
<1>1. Counters(live, data, cloned, dataref, used)
  BY FreeListIsList
<1>2. /\ LastReference(s) <=> Last(s, data, cloned, dataref)
      /\ CountedDown(s) = Down(s, data, cloned, dataref)
  BY DEF LastReference, Last, CountedDown, Down
<1>3. used' = taken \cup IF ~mark[s] /\ LastReference(s) THEN used \ {data[s]} ELSE used
  BY DEF ReleaseData
<1>4. used \ {data[s]} \subseteq used' \ taken /\ (~LastReference(s) => used \subseteq used' \ taken)
  BY <1>3
<1>5. /\ Counted(live \ {s}, data, cloned, CountedDown(s), used' \ taken)
      /\ HeldBy(live \ {s}, data) = IF LastReference(s) THEN HeldBlocks \ {data[s]} ELSE HeldBlocks
  <2>1. Counted(live, data, cloned, dataref, used)
    BY DEF Pool
  <2>2. /\ used \ {data[s]} \subseteq used' \ taken
        /\ ~Last(s, data, cloned, dataref) => used \subseteq used' \ taken
    BY <1>2, <1>4
  <2>3. /\ Counted(live \ {s}, data, cloned, Down(s, data, cloned, dataref), used' \ taken)
        /\ HeldBy(live \ {s}, data) =
             IF Last(s, data, cloned, dataref) THEN HeldBy(live, data) \ {data[s]}
             ELSE HeldBy(live, data)
    BY <1>1, <2>1, <2>2, FreeCounts
  <2>. QED BY <1>2, <2>3 DEF HeldBlocks
<1>6. mark[s] <=> data[s] \in Pooled
  BY DEF IInv, MarkTellsPool
<1>7. data[s] \in HeldBlocks
  BY DEF HeldBlocks, HeldBy
<1>8. FreeList' \cap HeldBy(live \ {s}, data) = {}
  BY <1>5, <1>7, ReleaseList DEF Pool
<1>9. leaked' <=> leaked \/ (mark[s] /\ LastReference(s) /\ head = NULL)
  BY DEF ReleaseData
<1>10. ~leaked' => FreeList' \cup (HeldBy(live \ {s}, data) \cap Pooled) = Pooled
  BY <1>5, <1>6, <1>7, <1>9, ReleaseList DEF Pool
<1>11. ~leaked' => num' = Cardinality(FreeList')
  BY <1>9, ReleaseList DEF Pool
<1>. QED BY <1>3, <1>5, <1>8, <1>10, <1>11

(* A release followed by a block d of kmalloc() for the header h:           *)
(* pskb_expand_head() and tcp_collapse().                                   *)
LEMMA MovePool ==
  ASSUME IInv, Pool, NEW s \in live, NEW d \in Dyn \ used, ReleaseData(s, {d}),
         NEW h \in Skb, h \notin live \ {s}, live' = (live \ {s}) \cup {h},
         data' = [data EXCEPT ![h] = d], cloned' = [cloned EXCEPT ![h] = FALSE],
         dataref' = [CountedDown(s) EXCEPT ![d] = 1]
  PROVE  Pool'
<1>. DEFINE l == live \ {s}
            us == used' \ {d}
<1>1. {d} \in SUBSET (Dyn \ used) /\ d \notin Pooled /\ Pooled' = Pooled
  BY BlockFacts DEF ReleaseData, Pooled
<1>2. /\ Counted(l, data, cloned, CountedDown(s), us)
      /\ us \subseteq used /\ used' = us \cup {d}
      /\ FreeList' \cap HeldBy(l, data) = {}
      /\ ~leaked' => /\ FreeList' \cup (HeldBy(l, data) \cap Pooled) = Pooled
                     /\ num' = Cardinality(FreeList')
  BY <1>1, ReleasePool
<1>3. Counters(l, data, cloned, CountedDown(s), us)
  BY <1>2, CountedDownType, InvTypes DEF TypeOK, Counters
<1>4. d \notin HeldBy(l, data)
  BY BlockFacts DEF HeldBy
<1>. HIDE DEF l, us
<1>5. h \notin l
  BY DEF l
<1>6. Counted(live, data, cloned, dataref, used)' /\ HeldBlocks' = HeldBy(l, data) \cup {d}
  <2>1. /\ d \in Buf \cup used' /\ Counted(l, data, cloned, CountedDown(s), used')
        /\ Counters(l, data, cloned, CountedDown(s), used')
    BY <1>2, <1>3 DEF Counted, Counters
  <2>2. Counted(l \cup {h}, Give(data, h, d), Unshared(cloned, h), One(CountedDown(s), d), used')
    BY <1>4, <1>5, <2>1, TakeCounts
  <2>4. HeldBy(l \cup {h}, Give(data, h, d)) = HeldBy(l, data) \cup {d}
    BY <1>5, <2>1, TakeHolds DEF Counters
  <2>3. /\ live' = l \cup {h} /\ data' = Give(data, h, d)
        /\ cloned' = Unshared(cloned, h) /\ dataref' = One(CountedDown(s), d)
    BY DEF l, Give, Unshared, One
  <2>. QED BY <2>2, <2>3, <2>4, FreeListIsList
<1>7. d \notin FreeList'
  <2>1. FreeList' \subseteq FreeList \cup {data[s]} /\ data[s] # d
    BY ReleaseList, BlockFacts
  <2>. QED BY <1>1, <2>1, FreeListFinite
<1>8. Chain(head, next)'
  BY ReleaseList
<1>. QED BY <1>1, <1>2, <1>6, <1>7, <1>8 DEF Pool

(* skb_copy_ipcomp() takes a block that kmalloc() has not given away        *)
(* before; with the mark it joins the blocks of the pool that are held.     *)
LEMMA IpcompPool ==
  ASSUME IInv, Pool, NEW s \in Skb, NEW src \in Skb, skb_copy_ipcomp(src, s)
  PROVE  Pool'
<1>1. PICK d \in Dyn \ used :
        /\ SetUp(s, d, mark[src])
        /\ used' = used \cup {d}
        /\ strayed' = strayed \cup (IF mark[src] THEN {d} ELSE {})
  BY DEF skb_copy_ipcomp
<1>2. d \notin HeldBlocks /\ d \notin Pooled /\ d \notin FreeList
  BY BlockFacts, FreeListFinite DEF HeldBlocks, HeldBy
<1>3. Counted(live, data, cloned, dataref, used)' /\ HeldBlocks' = HeldBlocks \cup {d}
  <2>1. s \notin live /\ d \in Buf \cup used' /\ d \notin HeldBy(live, data)
    BY <1>1, <1>2 DEF skb_copy_ipcomp, HeldBlocks
  <2>2. Counted(live, data, cloned, dataref, used')
    BY <1>1 DEF Pool, Counted
  <2>3. Counters(live, data, cloned, dataref, used')
    BY <1>1, InvCounters DEF Counters
  <2>4. Counted(live \cup {s}, Give(data, s, d), Unshared(cloned, s), One(dataref, d), used')
    BY <2>1, <2>2, <2>3, TakeCounts
  <2>5. HeldBy(live \cup {s}, Give(data, s, d)) = HeldBy(live, data) \cup {d}
    BY <2>1, <2>3, TakeHolds DEF Counters
  <2>6. /\ live' = live \cup {s} /\ data' = Give(data, s, d)
        /\ cloned' = Unshared(cloned, s) /\ dataref' = One(dataref, d)
    BY <1>1 DEF SetUp, Give, Unshared, One
  <2>. QED BY <2>4, <2>5, <2>6, FreeListIsList DEF HeldBlocks
<1>4. UNCHANGED <<head, next, num, leaked>> /\ FreeList' = FreeList
  BY FreeListIsList DEF skb_copy_ipcomp
<1>5. Pooled' = Pooled \/ Pooled' = Pooled \cup {d}
  BY <1>1 DEF Pooled
<1>6. Chain(head, next)' /\ FreeList' \cap HeldBlocks' = {}
  BY <1>2, <1>3, <1>4 DEF Pool
<1>7. ~leaked' => FreeList' \cup (HeldBlocks' \cap Pooled') = Pooled' /\ num' = Cardinality(FreeList')
  BY <1>2, <1>3, <1>4, <1>5 DEF Pool
<1>. QED BY <1>3, <1>6, <1>7 DEF Pool

(* Each operation of skbuff.c, tcp_collapse() and skb_copy_ipcomp() keep    *)
(* the pool in order, but for an allocation whose list head was moved.      *)
LEMMA NextPool == PInv /\ [Next]_vars => PInv'
<1>. SUFFICES ASSUME PInv, [Next]_vars PROVE PInv'
  OBVIOUS
<1>0. IInv /\ IInv'
  BY NextInv DEF PInv
<1>. SUFFICES ASSUME ~raced' PROVE Pool'
  BY <1>0 DEF PInv
<1>1. ASSUME ~raced, UNCHANGED <<head, next, num, live, data, cloned, dataref, used, leaked, strayed>>
      PROVE  Pool'
  <2>1. FreeList' = FreeList /\ HeldBlocks' = HeldBlocks /\ Pooled' = Pooled
    BY <1>1, FreeListIsList DEF HeldBlocks, Pooled
  <2>. QED BY <1>1, <2>1 DEF Pool, PInv
<1>2. CASE TiAllocRead
  BY <1>1, <1>2 DEF TiAllocRead
<1>3. CASE AllocFailure
  BY <1>1, <1>3 DEF AllocFailure, task
<1>4. ASSUME NEW s \in Skb, alloc_skb(s) PROVE Pool'
  BY <1>0, <1>4, AllocSkbPool DEF alloc_skb, PInv
<1>5. ASSUME NEW s \in Skb, ti_alloc_skb(s) PROVE Pool'
  BY <1>0, <1>5, TiAllocPool DEF ti_alloc_skb, PInv
<1>6. ASSUME NEW s \in Skb, TiAllocTake(s) PROVE Pool'
  BY <1>0, <1>6, TiAllocPool DEF TiAllocTake, PInv
<1>7. ASSUME NEW s \in Skb, kfree_skb(s) PROVE Pool'
  <2>1. s \in live /\ ReleaseData(s, {}) /\ Pool /\ {} \in SUBSET (Dyn \ used)
    BY <1>7 DEF kfree_skb, ReleaseData, PInv
  <2>2. used' \ {} = used'
    OBVIOUS
  <2>3. /\ Counted(live \ {s}, data, cloned, CountedDown(s), used')
        /\ FreeList' \cap HeldBy(live \ {s}, data) = {}
        /\ ~leaked' => /\ FreeList' \cup (HeldBy(live \ {s}, data) \cap Pooled) = Pooled
                       /\ num' = Cardinality(FreeList')
        /\ Chain(head, next)'
    <3>1. /\ Counted(live \ {s}, data, cloned, CountedDown(s), used' \ {})
          /\ FreeList' \cap HeldBy(live \ {s}, data) = {}
          /\ ~leaked' => /\ FreeList' \cup (HeldBy(live \ {s}, data) \cap Pooled) = Pooled
                         /\ num' = Cardinality(FreeList')
      BY <1>0, <2>1, ReleasePool
    <3>2. Chain(head, next)'
      BY <1>0, <2>1, ReleaseList
    <3>. QED BY <2>2, <3>1, <3>2
  <2>4. /\ live' = live \ {s} /\ data' = data /\ cloned' = cloned
        /\ dataref' = CountedDown(s) /\ HeldBlocks' = HeldBy(live \ {s}, data)
        /\ Pooled' = Pooled
    BY <1>7, FreeListIsList DEF kfree_skb, ReleaseData, Pooled
  <2>. QED BY <2>3, <2>4 DEF Pool
<1>8. ASSUME NEW s \in Skb, pskb_expand_head(s) PROVE Pool'
  <2>1. PICK d \in Dyn \ used :
          /\ ReleaseData(s, {d})
          /\ data' = [data EXCEPT ![s] = d]
          /\ dataref' = [CountedDown(s) EXCEPT ![d] = 1]
    BY <1>8 DEF pskb_expand_head
  <2>2. /\ s \in live /\ Pool /\ live' = (live \ {s}) \cup {s} /\ s \notin live \ {s}
        /\ cloned' = [cloned EXCEPT ![s] = FALSE]
    BY <1>8, <2>1 DEF pskb_expand_head, ReleaseData, PInv
  <2>. QED BY <1>0, <2>1, <2>2, MovePool
<1>9. ASSUME NEW s \in Skb, NEW src \in Skb, skb_copy(src, s) PROVE Pool'
  BY <1>0, <1>9, TiAllocPool DEF skb_copy, PInv
<1>10. ASSUME NEW s \in Skb, NEW src \in Skb, skb_clone(src, s) PROVE Pool'
  <2>1. Pool /\ src \in live /\ s \in Skb \ live
    BY <1>10 DEF skb_clone, PInv
  <2>2. Counted(live, data, cloned, dataref, used)' /\ HeldBlocks' = HeldBlocks
    <3>1. /\ Counted(live, data, cloned, dataref, used)
          /\ Counters(live, data, cloned, dataref, used)
      BY <1>0, <2>1, FreeListIsList DEF Pool
    <3>2. /\ Counted(live \cup {s}, [data EXCEPT ![s] = data[src]],
                     [cloned EXCEPT ![s] = TRUE, ![src] = TRUE],
                     [dataref EXCEPT ![data[src]] = @ + 1], used)
          /\ HeldBy(live \cup {s}, [data EXCEPT ![s] = data[src]]) = HeldBy(live, data)
      BY <2>1, <3>1, CloneCounts
    <3>. QED BY <1>10, <3>2, FreeListIsList DEF skb_clone, HeldBlocks
  <2>3. UNCHANGED <<head, next, num, leaked>> /\ FreeList' = FreeList /\ Pooled' = Pooled
    BY <1>10, FreeListIsList DEF skb_clone, Pooled
  <2>. QED BY <2>1, <2>2, <2>3 DEF Pool
<1>11. ASSUME NEW s \in Skb, NEW src \in Skb, tcp_collapse(src, s) PROVE Pool'
  <2>1. PICK d \in Dyn \ used :
          /\ ReleaseData(src, {d})
          /\ data' = [data EXCEPT ![s] = d]
          /\ dataref' = [CountedDown(src) EXCEPT ![d] = 1]
    BY <1>11 DEF tcp_collapse
  <2>2. /\ src \in live /\ Pool /\ live' = (live \ {src}) \cup {s} /\ s \notin live \ {src}
        /\ cloned' = [cloned EXCEPT ![s] = FALSE]
    BY <1>11, <2>1 DEF tcp_collapse, ReleaseData, PInv
  <2>. QED BY <1>0, <2>1, <2>2, MovePool
<1>12. ASSUME NEW s \in Skb, NEW src \in Skb, skb_copy_ipcomp(src, s) PROVE Pool'
  BY <1>0, <1>12, IpcompPool DEF skb_copy_ipcomp, PInv
<1>13. CASE UNCHANGED vars
  BY <1>1, <1>13 DEF vars
<1>. QED BY <1>2, <1>3, <1>4, <1>5, <1>6, <1>7, <1>8, <1>9, <1>10, <1>11, <1>12, <1>13 DEF Next

(* skb_init() leaves all blocks on the list and none held.                  *)
LEMMA InitPool == Init => PInv
<1>. SUFFICES ASSUME Init PROVE PInv
  OBVIOUS
<1>1. FreeList = Buf /\ Chain(head, next)
  BY InitList, FreeListIsList
<1>2. HeldBlocks = {} /\ Counted(live, data, cloned, dataref, used)
  BY FS_EmptySet DEF Init, HeldBlocks, HeldBy, Counted
<1>3. num = Cardinality(Buf) /\ Pooled = Buf
  BY DEF Init, Pooled
<1>. QED BY <1>1, <1>2, <1>3, InitInv DEF PInv, Pool

(* No block has two owners that do not know of each other: as long as no    *)
(* softirq moved the head of the list under an allocation, headers with the *)
(* same block are clones that dataref counts, for any number of clones.     *)
THEOREM OwnersCounted == Spec => []SharersCounted
<1>1. PInv => SharersCounted
  <2>1. SUFFICES ASSUME PInv, ~raced, NEW s \in live
                 PROVE  LET n == Cardinality(Sharers(data[s]))
                        IN  IF cloned[s] THEN dataref[data[s]] = n ELSE n = 1
    BY DEF SharersCounted
  <2>2. Sharers(data[s]) = Sharing(live, data, s)
    BY DEF Sharers, Sharing
  <2>3. Cardinality({s}) = 1
    BY FS_Singleton
  <2>. QED BY <2>1, <2>2, <2>3 DEF PInv, Pool, Counted
<1>. QED BY InitPool, NextPool, <1>1, PTL DEF Spec

(* No block of the pool is free and in use at once, none is lost and        *)
(* num_available_buffers counts the list, for a pool of any size, until a   *)
(* block was freed to an empty list or the head was moved.                  *)
THEOREM PoolIsConserved == Spec => []PoolConserved
<1>1. PInv => PoolConserved
  <2>1. {data[s] : s \in live} = HeldBlocks
    BY DEF HeldBlocks, HeldBy
  <2>. QED BY <2>1 DEF PInv, Pool, PoolConserved
<1>. QED BY InitPool, NextPool, <1>1, PTL DEF Spec
=============================================================================

------------------------------ MODULE SkbPool ------------------------------
(***************************************************************************)
(* The static pool of packet data blocks that TI put under the kernel's     *)
(* sk_buff allocator (net/core/skbuff.c, TI_STATIC_ALLOCATIONS).            *)
(*                                                                         *)
(* skb_init() allocates the blocks Buf once and links them through          *)
(* ptr_next; ti_alloc_skb() takes one from the head of the list and marks   *)
(* the sk_buff in cb[45]; whoever frees the sk_buff returns the block to    *)
(* the pool if the mark is set and to kmalloc() otherwise.  Blocks are      *)
(* shared by clones and counted in dataref.  One copier of the tree, the    *)
(* skb_copy_ipcomp() of IPsec, copies the mark to a block of kmalloc(),     *)
(* which then strays into the pool.                                         *)
(*                                                                         *)
(* ti_alloc_skb() reads the head of the list BEFORE it locks interrupts     *)
(* out, so the allocation made by a task is two steps here; everything an   *)
(* interrupt or a softirq does to the pool runs to completion between them. *)
(***************************************************************************)
EXTENDS Integers, FiniteSets

CONSTANTS
  Buf,          \* the DRIVER_BUFFERs of the static pool
  Dyn,          \* data blocks kmalloc() has to offer
  Skb,          \* sk_buff headers of skbuff_head_cache
  NULL

ASSUME PoolAssumption ==
  IsFiniteSet(Buf) /\ NULL \notin Buf \cup Dyn /\ Buf \cap Dyn = {}

Block == Buf \cup Dyn

VARIABLES
  hybrid_mode, \* the environment variable StaticMode was set at boot; never changes
  head,     \* driver_mcb.ptr_available_driver_buffers
  next,     \* ptr_next at the start of every block that is on the list
  num,      \* driver_mcb.num_available_buffers
  live,     \* the sk_buffs that have been handed out
  data,     \* skb->head
  mark,     \* skb->cb[45] = 1
  cloned,   \* skb->cloned
  dataref,  \* skb_shinfo(skb)->dataref, kept in the data block
  used,     \* the blocks kmalloc() has given away
  ptr_node, \* what the allocating task has read from the head of the list
  in_alloc, \* the task is between that read and local_irq_save()
  undef,    \* a failed allocation has left the code with a pointer it never got
  raced,    \* history: a block was taken that was no longer the head of the list
  leaked,   \* history: a block was not returned, since the list was empty
  strayed   \* history: blocks of kmalloc() under a mark that was copied

task == <<ptr_node, in_alloc>>
vars == <<hybrid_mode, head, next, num, live, data, mark, cloned, dataref, used, task,
          undef, raced, leaked, strayed>>
----------------------------------------------------------------------------
(* What is on the free list: the blocks a walk from the head meets, which   *)
(* are in every set that holds the head and what follows its members.       *)
Walked(C) == head \in C \cup {NULL} /\ \A b \in C : next[b] \in C \cup {NULL}
FreeList == {b \in Block : \A C \in SUBSET Block : Walked(C) => b \in C}

Sharers(d) == {s \in live : data[s] = d}

(* The blocks that belong to the pool by now.                               *)
Pooled == Buf \cup strayed

\* Types; in particular the data of an sk_buff are a block of the pool, memory of
\* the slab, or missing.
TypeOK ==
  /\ head \in Block \cup {NULL} /\ next \in [Block -> Block \cup {NULL}] /\ num \in Int
  /\ live \subseteq Skb /\ data \in [Skb -> Block \cup {NULL}]
  /\ mark \in [Skb -> BOOLEAN] /\ cloned \in [Skb -> BOOLEAN]
  /\ dataref \in [Block -> Int] /\ used \subseteq Dyn
  /\ ptr_node \in Block \cup {NULL} /\ in_alloc \in BOOLEAN
  /\ hybrid_mode \in BOOLEAN /\ undef \in BOOLEAN /\ raced \in BOOLEAN /\ leaked \in BOOLEAN
  /\ strayed \subseteq Dyn

(* skb_init(): every block that kmalloc() gives goes in front of the list.  *)
Linked(order) ==
  /\ \A i, j \in DOMAIN order : order[i] = order[j] => i = j
  /\ head = IF Buf = {} THEN NULL ELSE order[Cardinality(Buf)]
  /\ \A i \in DOMAIN order : next[order[i]] = IF i = 1 THEN NULL ELSE order[i - 1]
Init ==
  /\ hybrid_mode \in BOOLEAN
  /\ head \in Buf \cup {NULL} /\ next \in [Block -> Buf \cup {NULL}]
  /\ \A d \in Dyn : next[d] = NULL
  /\ \E order \in [1 .. Cardinality(Buf) -> Buf] : Linked(order)
  /\ num = Cardinality(Buf)
  /\ live = {} /\ data = [s \in Skb |-> NULL]
  /\ mark = [s \in Skb |-> FALSE] /\ cloned = [s \in Skb |-> FALSE]
  /\ dataref = [d \in Block |-> 0] /\ used = {}
  /\ ptr_node = NULL /\ in_alloc = FALSE
  /\ undef = FALSE /\ raced = FALSE /\ leaked = FALSE /\ strayed = {}
----------------------------------------------------------------------------
(* A header s gets the data block d to itself; m is its cb[45].             *)
SetUp(s, d, m) ==
  /\ live' = live \cup {s}
  /\ data' = [data EXCEPT ![s] = d]
  /\ mark' = [mark EXCEPT ![s] = m]
  /\ cloned' = [cloned EXCEPT ![s] = FALSE]
  /\ dataref' = [dataref EXCEPT ![d] = 1]

(* alloc_skb(): data from kmalloc(), cb[45] as skb_headerinit() left it.    *)
AllocSkb(s) ==
  /\ s \notin live
  /\ \E d \in Dyn \ used : SetUp(s, d, FALSE) /\ used' = used \cup {d}
  /\ UNCHANGED <<hybrid_mode, head, next, num, undef, leaked, strayed>>

(* The failures.  Without memory for the data alloc_skb() jumps over the    *)
(* free of the header and returns it with the data pointers of its last     *)
(* use; without memory for the header both allocators free the NULL they    *)
(* got, ti_alloc_skb() with interrupts still locked out.  What the kernel   *)
(* does from there on is undefined, and the model ends.                     *)
AllocFailure ==
  /\ undef' = TRUE
  /\ UNCHANGED <<hybrid_mode, head, next, num, live, data, mark, cloned, dataref, used,
                 task, raced, leaked, strayed>>

alloc_skb(s) == AllocSkb(s) /\ UNCHANGED <<task, raced>>

\* Mutant: the mark is copied with the header.
CopiedMarkInherited(src, m) == IF src = NULL THEN m ELSE mark[src]

(* cb[45] of a new sk_buff: copy_skb_header() copies the cb of the source   *)
(* but retains the value the allocation gave (src = NULL: nothing copied).  *)
CopiedMark(src, m) == m

(* The pop of ti_alloc_skb(), with interrupts locked out: the list head     *)
(* becomes what follows n, wherever the head is by now.                     *)
Pop(s, n, src) ==
  /\ s \notin live
  /\ head' = next[n]
  /\ next' = [next EXCEPT ![n] = NULL]
  /\ num' = num - 1
  /\ SetUp(s, n, CopiedMark(src, TRUE))
  /\ UNCHANGED <<hybrid_mode, used, undef, leaked, strayed>>

(* ti_alloc_skb() once its read of the list head has found n.               *)
TiAlloc(s, n, src) ==
  \/ n # NULL /\ Pop(s, n, src)
  \/ n = NULL /\ hybrid_mode /\ AllocSkb(s)

(* ti_alloc_skb() from a softirq, or in a task nothing interrupts.          *)
ti_alloc_skb(s) == TiAlloc(s, head, NULL) /\ UNCHANGED <<task, raced>>

(* A task that is interrupted in ti_alloc_skb(): the read of the list head  *)
TiAllocRead ==
  /\ ~in_alloc
  /\ head # NULL \/ hybrid_mode
  /\ ptr_node' = head /\ in_alloc' = TRUE
  /\ UNCHANGED <<hybrid_mode, head, next, num, live, data, mark, cloned, dataref, used,
                 undef, raced, leaked, strayed>>

(* ... and the rest of it, which uses what was read.                        *)
TiAllocTake(s) ==
  /\ in_alloc
  /\ TiAlloc(s, ptr_node, NULL)
  /\ in_alloc' = FALSE /\ ptr_node' = NULL
  /\ raced' = (raced \/ ptr_node \notin {NULL, head})

(* skb_copy(), pskb_copy() and skb_copy_expand(): a block of its own from   *)
(* ti_alloc_skb(), the header copied from src.                              *)
skb_copy(src, s) ==
  /\ src \in live
  /\ TiAlloc(s, head, src)
  /\ UNCHANGED <<task, raced>>

(* skb_copy_ipcomp(): a block from alloc_skb(), and the whole cb of the     *)
(* received packet src over what skb_headerinit() left, cb[45] with it.     *)
skb_copy_ipcomp(src, s) ==
  /\ src \in live /\ s \notin live
  /\ \E d \in Dyn \ used :
       /\ SetUp(s, d, mark[src])
       /\ used' = used \cup {d}
       /\ strayed' = strayed \cup (IF mark[src] THEN {d} ELSE {})
  /\ UNCHANGED <<hybrid_mode, head, next, num, task, undef, raced, leaked>>
----------------------------------------------------------------------------
(* dataref is counted down, and looked at, only if the header was cloned.   *)
LastReference(s) == ~cloned[s] \/ dataref[data[s]] = 1
CountedDown(s) == [dataref EXCEPT ![data[s]] = IF cloned[s] THEN @ - 1 ELSE @]

(* ti_skb_release_data() gives the block back only when the pool has        *)
(* another one: it reads the list head and does nothing if it is NULL.      *)
TiReleaseData(s) ==
  IF LastReference(s) /\ head # NULL
  THEN /\ next' = [next EXCEPT ![data[s]] = head]
       /\ head' = data[s]
       /\ num' = num + 1
  ELSE UNCHANGED <<head, next, num>>

TiReleaseDataBlind(s) ==
  IF head # NULL
  THEN /\ next' = [next EXCEPT ![data[s]] = head]
       /\ head' = data[s]
       /\ num' = num + 1
  ELSE UNCHANGED <<head, next, num>>

\* Mutant: the data are returned without asking for the last reference.
ReleaseDataBlind(s, taken) ==
  /\ IF mark[s] THEN TiReleaseDataBlind(s) ELSE UNCHANGED <<head, next, num>>
  /\ used' = taken \cup IF ~mark[s] THEN used \ {data[s]} ELSE used
  /\ leaked' = (leaked \/ (mark[s] /\ head = NULL))
  /\ UNCHANGED <<hybrid_mode, raced, strayed>>

(* The data of s goes to the allocator cb[45] names; taken is what          *)
(* kmalloc() gave away in the same step.                                    *)
ReleaseData(s, taken) ==
  /\ IF mark[s] THEN TiReleaseData(s) ELSE UNCHANGED <<head, next, num>>
  /\ used' = taken \cup IF ~mark[s] /\ LastReference(s) THEN used \ {data[s]} ELSE used
  /\ leaked' = (leaked \/ (mark[s] /\ LastReference(s) /\ head = NULL))
  /\ UNCHANGED <<hybrid_mode, raced, strayed>>

(* __kfree_skb(): skb_headerinit() clears cb, the header goes to the slab.  *)
kfree_skb(s) ==
  /\ s \in live
  /\ ReleaseData(s, {})
  /\ dataref' = CountedDown(s)
  /\ live' = live \ {s}
  /\ mark' = [mark EXCEPT ![s] = FALSE]
  /\ UNCHANGED <<data, cloned, task, undef>>

\* Mutant: the clone does not mark the original as cloned.
skb_clone_half(src, s) ==
  /\ src \in live /\ s \notin live
  /\ live' = live \cup {s}
  /\ data' = [data EXCEPT ![s] = data[src]]
  /\ mark' = [mark EXCEPT ![s] = mark[src]]
  /\ cloned' = [cloned EXCEPT ![s] = TRUE]
  /\ dataref' = [dataref EXCEPT ![data[src]] = @ + 1]
  /\ UNCHANGED <<hybrid_mode, head, next, num, used, task, undef, raced, leaked,
                 strayed>>

(* skb_clone(): a second header for the same data, cb copied.               *)
skb_clone(src, s) ==
  /\ src \in live /\ s \notin live
  /\ live' = live \cup {s}
  /\ data' = [data EXCEPT ![s] = data[src]]
  /\ mark' = [mark EXCEPT ![s] = mark[src]]
  /\ cloned' = [cloned EXCEPT ![s] = TRUE, ![src] = TRUE]
  /\ dataref' = [dataref EXCEPT ![data[src]] = @ + 1]
  /\ UNCHANGED <<hybrid_mode, head, next, num, used, task, undef, raced, leaked,
                 strayed>>

(* pskb_expand_head() and skb_linearize(): the data of s moves to a block   *)
(* from kmalloc(), the old block is released and cb[45] cleared.            *)
pskb_expand_head(s) ==
  /\ s \in live
  /\ \E d \in Dyn \ used :
       /\ ReleaseData(s, {d})
       /\ data' = [data EXCEPT ![s] = d]
       /\ dataref' = [CountedDown(s) EXCEPT ![d] = 1]
  /\ mark' = [mark EXCEPT ![s] = FALSE]
  /\ cloned' = [cloned EXCEPT ![s] = FALSE]
  /\ UNCHANGED <<live, task, undef>>

(* tcp_collapse(): the segment src is copied to an sk_buff of alloc_skb()   *)
(* and freed; cb is copied and cb[45] then set to zero.                     *)
CollapsedMark(src) == FALSE

tcp_collapse(src, s) ==
  /\ src \in live /\ s \notin live
  /\ \E d \in Dyn \ used :
       /\ ReleaseData(src, {d})
       /\ data' = [data EXCEPT ![s] = d]
       /\ dataref' = [CountedDown(src) EXCEPT ![d] = 1]
  /\ live' = (live \ {src}) \cup {s}
  /\ mark' = [mark EXCEPT ![s] = CollapsedMark(src), ![src] = FALSE]
  /\ cloned' = [cloned EXCEPT ![s] = FALSE]
  /\ UNCHANGED <<task, undef>>

Next ==
  /\ ~undef
  /\ \/ TiAllocRead \/ AllocFailure
     \/ \E s \in Skb :
          \/ alloc_skb(s) \/ ti_alloc_skb(s) \/ TiAllocTake(s)
          \/ kfree_skb(s) \/ pskb_expand_head(s)
          \/ \E src \in Skb : \/ skb_copy(src, s) \/ skb_clone(src, s)
                              \/ tcp_collapse(src, s) \/ skb_copy_ipcomp(src, s)

Spec == Init /\ [][Next]_vars
----------------------------------------------------------------------------
(* A block of the pool never goes to kfree(), and one of kmalloc() goes to  *)
(* the pool only after skb_copy_ipcomp() copied a mark to it: through       *)
(* clones, copies, reallocations and collapsed TCP segments cb[45] is set   *)
(* exactly for the blocks of the pool and those that strayed into it, which *)
(* stay there.                                                              *)
MarkTellsPool == \A s \in live : mark[s] <=> data[s] \in Pooled

(* No block has two owners: headers that hold the same block are clones of  *)
(* each other and dataref counts them, so the last one frees the block and  *)
(* no earlier one does.  It holds until a softirq has moved the head of the *)
(* list between the two steps of ti_alloc_skb().                            *)
SharersCounted ==
  ~raced => \A s \in live :
    LET n == Cardinality(Sharers(data[s]))
    IN  IF cloned[s] THEN dataref[data[s]] = n ELSE n = 1

(* No block of the pool is lost, and none is free and in use: each one, and *)
(* each that strayed into it, is on the list or held by a live sk_buff, and *)
(* num_available_buffers counts the list.  It holds until a block was freed *)
(* while the list was empty, or the head was moved under an allocation.     *)
PoolConserved ==
  LET held == {data[s] : s \in live} \cap Pooled
  IN  ~raced /\ ~leaked => /\ FreeList \cap held = {}
                          /\ FreeList \cup held = Pooled
                          /\ num = Cardinality(FreeList)
=============================================================================

---------------------------- MODULE EventHeapProofs ----------------------------
(***************************************************************************)
(* For every number of nodes, the two lists threaded through the array of  *)
(* the event heap stay two disjoint lists that share out all the nodes.    *)
(*                                                                         *)
(* The invariant that says so, TwoLists, names the enumerations of the     *)
(* used and of the free nodes as witnesses.  push_back moves the first     *)
(* free node to the end of the used ones, delete_slot moves the node it is *)
(* given from any place among the used ones to the front of the free ones, *)
(* and the lemmas below give the new enumerations.  The type invariant is  *)
(* not inductive without it: push_back follows free_head, and only the     *)
(* free list tells that free_head is a slot while the heap is not full.    *)
(***************************************************************************)
EXTENDS EventHeap, DataProofs, FiniteSetTheorems, FunctionTheorems, SequenceTheorems,
        TLAPS

(* No index of the array is the mark of a missing node.                    *)
LEMMA NoNodeIsNoSlot == NoNode \notin Slot
  BY HeapAssumption, SMT DEF Slot

(* The header and the nodes are well typed at first.                       *)
LEMMA InitTypeOK == Init => TypeOK
  BY HeapAssumption, SMT DEF Init, TypeOK, Slot

-----------------------------------------------------------------------------
(* The positions after and before position i in a ring of c nodes.         *)
After(i, c) == IF i = c THEN 1 ELSE i + 1
Before(i, c) == IF i = 1 THEN c ELSE i - 1

(* The neighbours of a position are positions, and undo each other.        *)
LEMMA RingPositions ==
  ASSUME NEW c \in Nat, NEW i \in 1..c
  PROVE  /\ After(i, c) \in 1..c /\ Before(i, c) \in 1..c
         /\ Before(After(i, c), c) = i /\ After(Before(i, c), c) = i
  BY SMT DEF After, Before

(* RingOf, which treats the closing link apart, says that next and prev    *)
(* follow the positions around the ring.                                   *)
LEMMA RingLinks ==
  ASSUME NEW c \in Nat, c = count, NEW u \in [1..c -> Slot], RingOf(u), NEW i \in 1..c
  PROVE  next[u[i]] = u[After(i, c)] /\ prev[u[i]] = u[Before(i, c)]
<1>1. next[u[c]] = u[1] /\ prev[u[1]] = u[c]
    BY SMT DEF RingOf, IsEmpty
<1>2. \A j \in 1..(c - 1) : next[u[j]] = u[j + 1] /\ prev[u[j + 1]] = u[j]
    BY SMT DEF RingOf
<1>3. next[u[i]] = u[After(i, c)]
  <2>1. i # c => i \in 1..(c - 1)
      BY SMT
  <2> QED
      BY <1>1, <1>2, <2>1 DEF After
<1>4. prev[u[i]] = u[Before(i, c)]
  <2>1. i # 1 => i - 1 \in 1..(c - 1) /\ (i - 1) + 1 = i
      BY SMT
  <2> QED
      BY <1>1, <1>2, <2>1 DEF Before
<1> QED
    BY <1>3, <1>4
-----------------------------------------------------------------------------
(* What a step makes of the enumerations u of the c used nodes and f of    *)
(* the n free ones.                                                        *)
Pushed(c, u, s) == [i \in 1..(c + 1) |-> IF i <= c THEN u[i] ELSE s]
Taken(n, f) == [j \in 1..(n - 1) |-> f[j + 1]]
Removed(c, u, k) == [i \in 1..(c - 1) |-> IF i < k THEN u[i] ELSE u[i + 1]]
Returned(n, f, s) == [j \in 1..(n + 1) |-> IF j = 1 THEN s ELSE f[j - 1]]

Enumerated(c, n, u, f) ==
  /\ c = count /\ n = MaxNumEvents - count
  /\ u \in [1..c -> Slot] /\ f \in [1..n -> Slot]
  /\ RingOf(u) /\ FreeListOf(f) /\ Partition(u, f)

(* At first the ring is empty and the free list is the array in order.     *)
LEMMA InitLists ==
  ASSUME Init
  PROVE  Enumerated(0, MaxNumEvents, [i \in 1..0 |-> 0], [i \in 1..MaxNumEvents |-> i - 1])
<1> DEFINE u == [i \in 1..0 |-> 0]
           f == [i \in 1..MaxNumEvents |-> i - 1]
<1>1. count = 0 /\ MaxNumEvents \in Nat \ {0} /\ MaxNumEvents - count = MaxNumEvents
    BY HeapAssumption, SMT DEF Init
<1>2. u \in [1..0 -> Slot] /\ f \in [1..MaxNumEvents -> Slot]
    BY <1>1, SMT DEF Slot
<1>3. RingOf(u)
    BY <1>1, SMT DEF RingOf, IsEmpty, Init
<1>4. FreeListOf(f)
    BY <1>1, SMT DEF FreeListOf, Init, Slot
<1>5. Partition(u, f)
    BY <1>1, SMT DEF Partition, Slot
<1> HIDE DEF u, f
<1>6. Enumerated(0, MaxNumEvents, u, f)
    BY <1>1, <1>2, <1>3, <1>4, <1>5 DEF Enumerated
<1> QED
    BY <1>6 DEF u, f

(* push_back: the first free node becomes the last used one.               *)
LEMMA PushLists ==
  ASSUME TypeOK, NEW c \in Nat, NEW n \in Nat, NEW u, NEW f,
         Enumerated(c, n, u, f), NEW v \in Events, PushBack(v)
  PROVE  /\ TypeOK' /\ n >= 1 /\ free_head = f[1]
         /\ Enumerated(c + 1, n - 1, Pushed(c, u, f[1]), Taken(n, f))'
<1> /\ c = count /\ n = MaxNumEvents - count
    /\ u \in [1..c -> Slot] /\ f \in [1..n -> Slot]
    /\ RingOf(u) /\ FreeListOf(f) /\ Partition(u, f)
    BY DEF Enumerated
<1>n. /\ n >= 1 /\ count' = c + 1 /\ MaxNumEvents - count' = n - 1
      /\ c = count /\ n = MaxNumEvents - count
    BY HeapAssumption, SMT DEF TypeOK, PushBack, IsFull
<1>m. count' - 1 = c
    BY <1>n, SMT
<1>h. free_head = f[1] /\ f[1] \in Slot
    BY <1>n, SMT DEF FreeListOf
<1> DEFINE s == f[1]
           w == Pushed(c, u, f[1])
           g == Taken(n, f)
<1> USE DEF Pushed, Taken
<1>w. w \in [1..count' -> Slot] /\ g \in [1..(MaxNumEvents - count') -> Slot]
    BY <1>n, <1>h, SMT
<1>d. /\ \A i \in 1..c : u[i] # s
      /\ \A j \in 2..n : f[j] # s
    BY <1>n, SMT DEF Partition
<1>u. c >= 1 => used_head = u[1] /\ prev[u[1]] = u[c] /\ next[u[c]] = u[1]
                    /\ u[1] \in Slot /\ u[c] \in Slot
    BY <1>n, SMT DEF RingOf, IsEmpty
<1>t. TypeOK'
  <2>1. free_head' \in Slot \cup {NoNode}
      BY <1>h DEF PushBack, FreeHeadAfterPush, TypeOK
  <2>2. used_head' \in Slot \cup {NoNode}
      BY <1>h DEF PushBack, UsedHeadAfterPush, TypeOK
  <2>3. count' \in 0..MaxNumEvents /\ seq_num' \in 0..MaxSeqNum
      BY <1>n, HeapAssumption, SMT DEF PushBack, TypeOK
  <2>4. next' \in [Slot -> Slot \cup {NoNode}] /\ prev' \in [Slot -> Slot \cup {NoNode}]
    <3>1. CASE IsEmpty
        BY <1>h, <3>1, SMT DEF PushBack, NextAfterPush, PrevAfterPush, TypeOK
    <3>2. CASE ~IsEmpty
      <4>1. used_head \in Slot /\ prev[used_head] \in Slot
          BY <1>u, <1>n, <3>2, SMT DEF IsEmpty
      <4> QED
          BY <4>1, <1>h, <3>2, SMT DEF PushBack, NextAfterPush, PrevAfterPush, TypeOK
    <3> QED
        BY <3>1, <3>2
  <2>5. event' \in [Slot -> Events \cup {NoEvent}]
      BY DEF PushBack, TypeOK
  <2> QED
      BY <2>1, <2>2, <2>3, <2>4, <2>5 DEF TypeOK
\* Where the links of each node lead after the push.
<1>lf. \A j \in 2..n : next'[f[j]] = next[f[j]] /\ prev'[f[j]] = prev[f[j]]
  <2> SUFFICES ASSUME NEW j \in 2..n
               PROVE  next'[f[j]] = next[f[j]] /\ prev'[f[j]] = prev[f[j]]
      OBVIOUS
  <2>1. f[j] # s /\ f[j] \in Slot /\ \A i \in 1..c : u[i] # f[j]
      BY <1>n, <1>d, SMT DEF Partition
  <2>2. CASE IsEmpty
      BY <2>1, <2>2, <1>h, SMT DEF PushBack, NextAfterPush, PrevAfterPush, TypeOK
  <2>3. CASE ~IsEmpty
    <3>1. used_head # f[j] /\ prev[used_head] # f[j]
        BY <2>1, <2>3, <1>u, <1>n, SMT DEF IsEmpty
    <3> QED
        BY <2>1, <2>3, <3>1, <1>h, SMT DEF PushBack, NextAfterPush, PrevAfterPush, TypeOK
  <2> QED
      BY <2>2, <2>3
<1>lu. ASSUME c >= 1
       PROVE  /\ next'[u[c]] = s /\ prev'[s] = u[c]
              /\ next'[s] = u[1] /\ prev'[u[1]] = s
              /\ \A i \in 1..(c - 1) : next'[u[i]] = u[i + 1] /\ prev'[u[i + 1]] = u[i]
  <2>1. /\ next' = [next EXCEPT ![u[c]] = s, ![s] = u[1]]
        /\ prev' = [prev EXCEPT ![u[1]] = s, ![s] = u[c]]
    <3>1. ~IsEmpty /\ free_head = s /\ used_head = u[1] /\ prev[u[1]] = u[c]
        BY <1>lu, <1>u, <1>h, <1>n, SMT DEF IsEmpty
    <3>2. /\ next' = [next EXCEPT ![prev[used_head]] = s, ![s] = used_head]
          /\ prev' = [prev EXCEPT ![used_head] = s, ![s] = prev[used_head]]
        BY <3>1 DEF PushBack, NextAfterPush, PrevAfterPush
    <3> QED
        BY <3>1, <3>2
  <2>2. s \in Slot /\ u[1] # s /\ u[c] # s /\ u[1] \in Slot /\ u[c] \in Slot
      BY <1>lu, <1>n, <1>d, <1>h, SMT
  <2>3. \A i \in 1..(c - 1) : next'[u[i]] = u[i + 1] /\ prev'[u[i + 1]] = u[i]
    <3> SUFFICES ASSUME NEW i \in 1..(c - 1)
                 PROVE  next'[u[i]] = u[i + 1] /\ prev'[u[i + 1]] = u[i]
        OBVIOUS
    <3>1. /\ u[i] \in Slot /\ u[i] # s /\ u[i] # u[c]
          /\ u[i + 1] \in Slot /\ u[i + 1] # s /\ u[i + 1] # u[1]
        BY <1>n, <1>d, SMT DEF Partition
    <3>2. next[u[i]] = u[i + 1] /\ prev[u[i + 1]] = u[i]
        BY DEF RingOf
    <3> QED
        BY <2>1, <2>2, <3>1, <3>2, SMT DEF TypeOK
  <2>4. next \in [Slot -> Slot \cup {NoNode}] /\ prev \in [Slot -> Slot \cup {NoNode}]
      BY DEF TypeOK
  <2>5. next'[u[c]] = s /\ next'[s] = u[1]
      BY <2>1, <2>2, <2>4
  <2>6. prev'[s] = u[c] /\ prev'[u[1]] = s
      BY <2>1, <2>2, <2>4
  <2> QED
      BY <2>3, <2>5, <2>6
<1>le. ASSUME c = 0
       PROVE  next'[s] = s /\ prev'[s] = s /\ used_head' = s
    BY <1>le, <1>h, SMT DEF PushBack, NextAfterPush, PrevAfterPush, UsedHeadAfterPush, IsEmpty, TypeOK
<1>1. RingOf(w)'
  <2>1. CASE c = 0
      BY <2>1, <1>le, <1>n, SMT DEF RingOf, IsEmpty
  <2>2. CASE c >= 1
    <3>1. used_head' = u[1]
        BY <2>2, <1>u, SMT DEF PushBack, UsedHeadAfterPush, IsEmpty
    <3>2. w[1] = u[1] /\ w[count'] = s /\ ~IsEmpty'
        BY <2>2, <1>n, SMT DEF IsEmpty
    <3>3. \A i \in 1..(count' - 1) : next'[w[i]] = w[i + 1] /\ prev'[w[i + 1]] = w[i]
      <4> SUFFICES ASSUME NEW i \in 1..c
                   PROVE  next'[w[i]] = w[i + 1] /\ prev'[w[i + 1]] = w[i]
          BY <1>m
      <4>1. CASE i < c
        <5>1. w[i] = u[i] /\ w[i + 1] = u[i + 1] /\ i \in 1..(c - 1)
            BY <4>1, <1>n, SMT
        <5> QED
            BY <5>1, <2>2, <1>lu
      <4>2. CASE i = c
        <5>1. w[i] = u[c] /\ w[i + 1] = s
            BY <4>2, <1>n, SMT
        <5> QED
            BY <5>1, <2>2, <1>lu
      <4>3. i < c \/ i = c
          BY SMT
      <4> QED
          BY <4>1, <4>2, <4>3
    <3> QED
        BY <3>1, <3>2, <3>3, <2>2, <1>lu DEF RingOf
  <2> QED
      BY <2>1, <2>2, <1>n, SMT
<1>2. FreeListOf(g)'
  <2>1. free_head' = next[s]
      BY <1>h DEF PushBack, FreeHeadAfterPush
  <2>2. \A j \in 1..(n - 1) : prev'[g[j]] = NoNode
    <3> SUFFICES ASSUME NEW j \in 1..(n - 1) PROVE prev'[g[j]] = NoNode
        OBVIOUS
    <3>1. g[j] = f[j + 1] /\ j + 1 \in 2..n /\ j + 1 \in 1..n
        BY <1>n, SMT
    <3>2. prev[f[j + 1]] = NoNode
        BY <3>1 DEF FreeListOf
    <3> QED
        BY <3>1, <3>2, <1>lf
  <2>3. \A j \in 1..(n - 2) : next'[g[j]] = g[j + 1]
    <3> SUFFICES ASSUME NEW j \in 1..(n - 2) PROVE next'[g[j]] = g[j + 1]
        OBVIOUS
    <3>1. /\ g[j] = f[j + 1] /\ g[j + 1] = f[(j + 1) + 1]
          /\ j + 1 \in 2..n /\ j + 1 \in 1..(n - 1)
        BY <1>n, SMT
    <3>2. next[f[j + 1]] = f[(j + 1) + 1]
        BY <3>1 DEF FreeListOf
    <3> QED
        BY <3>1, <3>2, <1>lf
  <2>4. CASE n = 1
    <3>1. next[f[1]] = NoNode
        BY <2>4, SMT DEF FreeListOf
    <3> QED
        BY <2>1, <2>2, <2>3, <2>4, <3>1, <1>n, SMT DEF FreeListOf
  <2>5. CASE n >= 2
    <3>1. next[f[1]] = f[2] /\ next[f[n]] = NoNode
        BY <2>5, <1>n, SMT DEF FreeListOf
    <3>2. g[1] = f[2] /\ g[n - 1] = f[n] /\ n \in 2..n
        BY <2>5, <1>n, SMT
    <3>3. next'[g[n - 1]] = NoNode /\ free_head' = g[1]
        BY <2>1, <3>1, <3>2, <1>lf
    <3>4. MaxNumEvents - count' = n - 1 /\ n - 1 # 0 /\ (n - 1) - 1 = n - 2
        BY <2>5, <1>n, SMT
    <3> HIDE DEF g
    <3> QED
        BY <2>2, <2>3, <3>3, <3>4 DEF FreeListOf
  <2> QED
      BY <2>4, <2>5, <1>n, SMT
<1>3. Partition(w, g)
  <2>1. \A i, j \in DOMAIN w : w[i] = w[j] => i = j
      BY <1>n, <1>d, SMT DEF Partition
  <2>2. \A i, j \in DOMAIN g : g[i] = g[j] => i = j
      BY <1>n, SMT DEF Partition
  <2>3. \A i \in DOMAIN w, j \in DOMAIN g : w[i] # g[j]
      BY <1>n, <1>d, SMT DEF Partition
  <2>4. \A t \in Slot : (\E i \in DOMAIN w : w[i] = t) \/ (\E j \in DOMAIN g : g[j] = t)
    <3> SUFFICES ASSUME NEW t \in Slot
                 PROVE  (\E i \in DOMAIN w : w[i] = t) \/ (\E j \in DOMAIN g : g[j] = t)
        OBVIOUS
    <3>1. CASE \E i \in DOMAIN u : u[i] = t
      <4> PICK i \in 1..c : u[i] = t
          BY <3>1
      <4> i \in DOMAIN w /\ w[i] = t
          BY <1>n, SMT
      <4> QED
          OBVIOUS
    <3>2. CASE \E j \in DOMAIN f : f[j] = t
      <4> PICK j \in 1..n : f[j] = t
          BY <3>2
      <4>1. CASE j = 1
        <5> c + 1 \in DOMAIN w /\ w[c + 1] = t
            BY <4>1, <1>n, SMT
        <5> QED
            OBVIOUS
      <4>2. CASE j # 1
        <5> j - 1 \in DOMAIN g /\ g[j - 1] = t
            BY <4>2, <1>n, SMT
        <5> QED
            OBVIOUS
      <4> QED
          BY <4>1, <4>2
    <3> QED
        BY <3>1, <3>2 DEF Partition
  <2> HIDE DEF w, g
  <2> QED
      BY <2>1, <2>2, <2>3, <2>4 DEF Partition
<1> HIDE DEF w, g, Pushed, Taken
<1>e. Enumerated(c + 1, n - 1, w, g)'
    BY <1>n, <1>w, <1>1, <1>2, <1>3 DEF Enumerated
<1> QED
    BY <1>n, <1>h, <1>t, <1>e DEF w, g
-----------------------------------------------------------------------------
(* delete_slot: a used node becomes the first free one, and its neighbours *)
(* in the ring become each other's neighbours.                             *)

LEMMA DeleteLists ==
  ASSUME TypeOK, NEW c \in Nat, NEW n \in Nat, NEW u, NEW f,
         Enumerated(c, n, u, f), NEW s \in Slot, DeleteSlot(s)
  PROVE  /\ TypeOK'
         /\ \E k \in 1..c : /\ u[k] = s
                           /\ Enumerated(c - 1, n + 1, Removed(c, u, k), Returned(n, f, s))'
<1> /\ c = count /\ n = MaxNumEvents - count
    /\ u \in [1..c -> Slot] /\ f \in [1..n -> Slot]
    /\ RingOf(u) /\ FreeListOf(f) /\ Partition(u, f)
    BY DEF Enumerated
<1>n. /\ c >= 1 /\ count' = c - 1 /\ MaxNumEvents - count' = n + 1
      /\ c = count /\ n = MaxNumEvents - count
    BY HeapAssumption, SMT DEF TypeOK, DeleteSlot, IsEmpty
<1>p. /\ \A i, j \in 1..c : u[i] = u[j] => i = j
      /\ \A i, j \in 1..n : f[i] = f[j] => i = j
      /\ \A i \in 1..c, j \in 1..n : u[i] # f[j]
      /\ \A t \in Slot : (\E i \in 1..c : u[i] = t) \/ (\E j \in 1..n : f[j] = t)
    BY DEF Partition
<1>o. /\ \A i \in 1..c : u[i] \in Slot
      /\ \A j \in 1..n : f[j] \in Slot
    OBVIOUS
<1>k. PICK k \in 1..c : u[k] = s
  <2>1. \A j \in 1..n : prev[f[j]] = NoNode
      BY <1>n DEF FreeListOf
  <2>2. prev[s] # NoNode
      BY DEF DeleteSlot, IsFree
  <2> QED
      BY <2>1, <2>2, <1>p
<1> DEFINE N(i) == After(i, c)
           P(i) == Before(i, c)
           w == Removed(c, u, k)
           g == Returned(n, f, s)
<1> USE DEF Removed, Returned
<1>i. \A i \in 1..c : N(i) \in 1..c /\ P(i) \in 1..c
    BY RingPositions
<1>r. \A i \in 1..c : next[u[i]] = u[N(i)] /\ prev[u[i]] = u[P(i)]
    BY <1>n, RingLinks
<1> HIDE DEF N, P
<1>y. next \in [Slot -> Slot \cup {NoNode}] /\ prev \in [Slot -> Slot \cup {NoNode}]
    BY DEF TypeOK
<1>x. /\ next' = [next EXCEPT ![u[P(k)]] = u[N(k)], ![s] = free_head]
      /\ prev' = [prev EXCEPT ![u[N(k)]] = u[P(k)], ![s] = NoNode]
    BY <1>r, <1>k DEF DeleteSlot, NextAfterDelete, PrevAfterDelete
<1>z. u[P(k)] \in Slot /\ u[N(k)] \in Slot
    BY <1>i, <1>o
<1>t. TypeOK'
  <2>1. free_head' \in Slot /\ free_head \in Slot \cup {NoNode}
      BY DEF DeleteSlot, TypeOK
  <2>2. used_head' \in Slot \cup {NoNode}
      BY <1>z, <1>r, <1>k DEF DeleteSlot, UsedHeadAfterDelete, TypeOK
  <2>3. count' \in 0..MaxNumEvents /\ seq_num' \in 0..MaxSeqNum
      BY <1>n, HeapAssumption, SMT DEF DeleteSlot, TypeOK
  <2>4. next' \in [Slot -> Slot \cup {NoNode}] /\ prev' \in [Slot -> Slot \cup {NoNode}]
      BY <1>x, <1>y, <1>z, <2>1
  <2>5. event' \in [Slot -> Events \cup {NoEvent}]
      BY DEF DeleteSlot, EventAfterDelete, TypeOK
  <2> QED
      BY <2>1, <2>2, <2>3, <2>4, <2>5 DEF TypeOK
\* Where the links of each node lead after the deletion.
<1>ls. next'[s] = free_head /\ prev'[s] = NoNode
    BY <1>x, <1>y
<1>lo. \A t \in Slot : /\ t # s /\ t # u[P(k)] => next'[t] = next[t]
                       /\ t # s /\ t # u[N(k)] => prev'[t] = prev[t]
    BY <1>x, <1>y
<1>lf. \A j \in 1..n : next'[f[j]] = next[f[j]] /\ prev'[f[j]] = prev[f[j]]
    BY <1>lo, <1>p, <1>i, <1>o, <1>k
<1>ln. ASSUME c >= 2
       PROVE  next'[u[P(k)]] = u[N(k)] /\ prev'[u[N(k)]] = u[P(k)]
  <2>1. P(k) # k /\ N(k) # k
      BY <1>ln, <1>n, SMT DEF N, P, After, Before
  <2>2. u[P(k)] # s /\ u[N(k)] # s
      BY <2>1, <1>p, <1>i, <1>k
  <2> QED
      BY <2>2, <1>x, <1>y, <1>z
<1>lu. \A i \in 1..c : /\ i # k /\ i # P(k) => next'[u[i]] = u[N(i)]
                       /\ i # k /\ i # N(k) => prev'[u[i]] = u[P(i)]
  <2> SUFFICES ASSUME NEW i \in 1..c, i # k
               PROVE  /\ i # P(k) => next'[u[i]] = u[N(i)]
                      /\ i # N(k) => prev'[u[i]] = u[P(i)]
      OBVIOUS
  <2>1. /\ u[i] \in Slot /\ u[i] # s
        /\ i # P(k) => u[i] # u[P(k)]
        /\ i # N(k) => u[i] # u[N(k)]
      BY <1>p, <1>i, <1>o, <1>k
  <2>2. next[u[i]] = u[N(i)] /\ prev[u[i]] = u[P(i)]
      BY <1>r
  <2> QED
      BY <1>lo, <2>1, <2>2
<1>1. RingOf(w)'
  <2>1. CASE c = 1
    <3>1. IsEmpty' /\ used_head' = NoNode
        BY <2>1, <1>n, SMT DEF DeleteSlot, UsedHeadAfterDelete, IsEmpty
    <3>2. \A i \in 1..(count' - 1) : FALSE
        BY <2>1, <1>n, SMT
    <3> QED
        BY <3>1, <3>2 DEF RingOf
  <2>2. CASE c >= 2
    <3>1. used_head' = w[1]
      <4>1. used_head = u[1] /\ ~(count = 1)
          BY <2>2, <1>n, SMT DEF RingOf, IsEmpty
      <4>2. CASE k = 1
        <5>1. N(k) = 2 /\ w[1] = u[2]
            BY <4>2, <2>2, <1>n, SMT DEF N, After
        <5> QED
            BY <4>1, <4>2, <5>1, <1>k, <1>r DEF DeleteSlot, UsedHeadAfterDelete
      <4>3. CASE k # 1
        <5>1. w[1] = u[1] /\ 1 \in 1..c
            BY <4>3, <2>2, <1>n, SMT
        <5> QED
            BY <4>1, <4>3, <5>1, <1>k, <1>p DEF DeleteSlot, UsedHeadAfterDelete
      <4> QED
          BY <4>2, <4>3
    <3>2. next'[w[c - 1]] = w[1] /\ prev'[w[1]] = w[c - 1]
      <4>1. CASE k = 1
        <5>1. w[c - 1] = u[c] /\ w[1] = u[2] /\ P(k) = c /\ N(k) = 2
            BY <4>1, <2>2, <1>n, SMT DEF N, P, After, Before
        <5> QED
            BY <5>1, <1>ln, <2>2
      <4>2. CASE k = c
        <5>1. w[c - 1] = u[c - 1] /\ w[1] = u[1] /\ P(k) = c - 1 /\ N(k) = 1
            BY <4>2, <2>2, <1>n, SMT DEF N, P, After, Before
        <5> QED
            BY <5>1, <1>ln, <2>2
      <4>3. CASE k # 1 /\ k # c
        <5>1. /\ w[c - 1] = u[c] /\ w[1] = u[1]
              /\ c # P(k) /\ 1 # N(k) /\ N(c) = 1 /\ P(1) = c
              /\ c \in 1..c /\ 1 \in 1..c
            BY <4>3, <2>2, <1>n, SMT DEF N, P, After, Before
        <5> QED
            BY <5>1, <4>3, <1>lu
      <4> QED
          BY <4>1, <4>2, <4>3
    <3>3. \A i \in 1..(c - 2) : next'[w[i]] = w[i + 1] /\ prev'[w[i + 1]] = w[i]
      <4> SUFFICES ASSUME NEW i \in 1..(c - 2)
                   PROVE  next'[w[i]] = w[i + 1] /\ prev'[w[i + 1]] = w[i]
          OBVIOUS
      <4>1. CASE i + 1 < k
        <5>1. /\ w[i] = u[i] /\ w[i + 1] = u[i + 1]
              /\ i \in 1..c /\ i # k /\ i # P(k) /\ N(i) = i + 1
              /\ i + 1 \in 1..c /\ i + 1 # k /\ i + 1 # N(k) /\ P(i + 1) = i
            BY <4>1, <1>n, SMT DEF N, P, After, Before
        <5> QED
            BY <5>1, <1>lu
      <4>2. CASE i + 1 = k
        <5>1. w[i] = u[i] /\ w[i + 1] = u[k + 1] /\ P(k) = i /\ N(k) = k + 1
            BY <4>2, <1>n, SMT DEF N, P, After, Before
        <5> QED
            BY <5>1, <2>2, <1>ln
      <4>3. CASE k < i + 1
        <5>1. /\ w[i] = u[i + 1] /\ w[i + 1] = u[i + 2]
              /\ i + 1 \in 1..c /\ i + 1 # k /\ i + 1 # P(k) /\ N(i + 1) = i + 2
              /\ i + 2 \in 1..c /\ i + 2 # k /\ i + 2 # N(k) /\ P(i + 2) = i + 1
            BY <4>3, <1>n, SMT DEF N, P, After, Before
        <5> QED
            BY <5>1, <1>lu
      <4>4. i + 1 < k \/ i + 1 = k \/ k < i + 1
          BY SMT
      <4> QED
          BY <4>1, <4>2, <4>3, <4>4
    <3>4. count' = c - 1 /\ count' - 1 = c - 2 /\ ~IsEmpty'
        BY <2>2, <1>n, SMT DEF IsEmpty
    <3> HIDE DEF w
    <3> QED
        BY <3>1, <3>2, <3>3, <3>4 DEF RingOf
  <2>3. c = 1 \/ c >= 2
      BY <1>n, SMT
  <2> QED
      BY <2>1, <2>2, <2>3
<1>2. FreeListOf(g)'
  <2>1. free_head' = s /\ g[1] = s
      BY <1>n, SMT DEF DeleteSlot
  <2>2. /\ \A j \in 1..n : prev[f[j]] = NoNode
        /\ \A j \in 1..(n - 1) : next[f[j]] = f[j + 1]
        /\ n = 0 => free_head = NoNode
        /\ n # 0 => free_head = f[1] /\ next[f[n]] = NoNode
      BY <1>n DEF FreeListOf
  <2>3. \A j \in 1..(n + 1) : prev'[g[j]] = NoNode
    <3> SUFFICES ASSUME NEW j \in 1..(n + 1) PROVE prev'[g[j]] = NoNode
        OBVIOUS
    <3>1. j = 1 \/ (g[j] = f[j - 1] /\ j - 1 \in 1..n)
        BY SMT
    <3> QED
        BY <3>1, <2>1, <2>2, <1>ls, <1>lf
  <2>4. \A j \in 1..n : next'[g[j]] = g[j + 1]
    <3> SUFFICES ASSUME NEW j \in 1..n PROVE next'[g[j]] = g[j + 1]
        OBVIOUS
    <3>1. g[j + 1] = f[j] /\ n # 0
        BY SMT
    <3>2. CASE j = 1
        BY <3>1, <3>2, <2>1, <2>2, <1>ls
    <3>3. CASE j # 1
      <4>1. g[j] = f[j - 1] /\ j - 1 \in 1..(n - 1) /\ j - 1 \in 1..n /\ (j - 1) + 1 = j
          BY <3>3, SMT
      <4>2. next[f[j - 1]] = f[(j - 1) + 1] /\ next'[f[j - 1]] = next[f[j - 1]]
          BY <4>1, <2>2, <1>lf
      <4> QED
          BY <4>1, <4>2, <3>1
    <3> QED
        BY <3>2, <3>3
  <2>5. next'[g[n + 1]] = NoNode
    <3>1. CASE n = 0
        BY <3>1, <2>1, <2>2, <1>ls
    <3>2. CASE n # 0
      <4>1. g[n + 1] = f[n] /\ n \in 1..n
          BY <3>2, SMT
      <4> QED
          BY <4>1, <3>2, <2>2, <1>lf
    <3> QED
        BY <3>1, <3>2
  <2>6. MaxNumEvents - count' = n + 1 /\ n + 1 # 0 /\ (n + 1) - 1 = n
      BY <1>n, SMT
  <2> HIDE DEF g
  <2> QED
      BY <2>1, <2>3, <2>4, <2>5, <2>6 DEF FreeListOf
<1>3. Partition(w, g)
  <2>1. \A i, j \in DOMAIN w : w[i] = w[j] => i = j
      BY <1>n, <1>p, SMT
  <2>2. \A i, j \in DOMAIN g : g[i] = g[j] => i = j
      BY <1>n, <1>p, <1>k, SMT
  <2>3. \A i \in DOMAIN w, j \in DOMAIN g : w[i] # g[j]
    <3> SUFFICES ASSUME NEW i \in 1..(c - 1), NEW j \in 1..(n + 1) PROVE w[i] # g[j]
        OBVIOUS
    <3>1. PICK m \in 1..c : w[i] = u[m] /\ m # k
      <4>1. CASE i < k
          BY <4>1, <1>n, SMT
      <4>2. CASE ~(i < k)
        <5> i + 1 \in 1..c /\ w[i] = u[i + 1] /\ i + 1 # k
            BY <4>2, <1>n, SMT
        <5> QED
            OBVIOUS
      <4> QED
          BY <4>1, <4>2
    <3>2. j = 1 \/ (g[j] = f[j - 1] /\ j - 1 \in 1..n)
        BY SMT
    <3>3. g[1] = s
        BY SMT
    <3> HIDE DEF w, g
    <3> QED
        BY <3>1, <3>2, <3>3, <1>p, <1>k
  <2>4. \A t \in Slot : (\E i \in DOMAIN w : w[i] = t) \/ (\E j \in DOMAIN g : g[j] = t)
    <3> SUFFICES ASSUME NEW t \in Slot
                 PROVE  (\E i \in DOMAIN w : w[i] = t) \/ (\E j \in DOMAIN g : g[j] = t)
        OBVIOUS
    <3>1. ASSUME NEW i \in 1..c, u[i] = t
          PROVE  (\E m \in DOMAIN w : w[m] = t) \/ (\E j \in DOMAIN g : g[j] = t)
      <4>1. CASE i < k
        <5> i \in DOMAIN w /\ w[i] = t
            BY <4>1, <3>1, <1>n, SMT
        <5> QED
            OBVIOUS
      <4>2. CASE i = k
        <5> 1 \in DOMAIN g /\ g[1] = t
            BY <4>2, <3>1, <1>k, <1>n, SMT
        <5> QED
            OBVIOUS
      <4>3. CASE k < i
        <5> i - 1 \in DOMAIN w /\ w[i - 1] = t
            BY <4>3, <3>1, <1>n, SMT
        <5> QED
            OBVIOUS
      <4>4. i < k \/ i = k \/ k < i
          BY SMT
      <4> QED
          BY <4>1, <4>2, <4>3, <4>4
    <3>2. ASSUME NEW j \in 1..n, f[j] = t
          PROVE  \E m \in DOMAIN g : g[m] = t
      <4> j + 1 \in DOMAIN g /\ g[j + 1] = t
          BY <3>2, SMT
      <4> QED
          OBVIOUS
    <3> QED
        BY <3>1, <3>2, <1>p
  <2> HIDE DEF w, g
  <2> QED
      BY <2>1, <2>2, <2>3, <2>4 DEF Partition
<1>w. w \in [1..count' -> Slot] /\ g \in [1..(MaxNumEvents - count') -> Slot]
  <2>1. \A i \in 1..(c - 1) : w[i] \in Slot
    <3> SUFFICES ASSUME NEW i \in 1..(c - 1) PROVE w[i] \in Slot
        OBVIOUS
    <3>1. i \in 1..c /\ i + 1 \in 1..c
        BY SMT
    <3> QED
        BY <3>1, <1>o
  <2>2. \A j \in 1..(n + 1) : g[j] \in Slot
    <3> SUFFICES ASSUME NEW j \in 1..(n + 1) PROVE g[j] \in Slot
        OBVIOUS
    <3>1. j # 1 => j - 1 \in 1..n
        BY SMT
    <3> QED
        BY <3>1, <1>o
  <2> QED
      BY <2>1, <2>2, <1>n
<1> HIDE DEF w, g, Removed, Returned
<1>e. Enumerated(c - 1, n + 1, w, g)'
    BY <1>n, <1>w, <1>1, <1>2, <1>3 DEF Enumerated
<1> QED
    BY <1>k, <1>t, <1>e DEF w, g
-----------------------------------------------------------------------------
(* The invariant: types and lists together are inductive.                  *)
HeapInv == TypeOK /\ TwoLists

(* The enumerations of a state, with its numbers of used and free nodes.   *)
LEMMA ListsEnumerated ==
  ASSUME HeapInv
  PROVE  \E c, n \in Nat : \E u, f : Enumerated(c, n, u, f)
<1>1. count \in Nat /\ MaxNumEvents - count \in Nat
    BY HeapAssumption, SMT DEF HeapInv, TypeOK
<1>2. PICK u \in [1..count -> Slot], f \in [1..(MaxNumEvents - count) -> Slot] :
           RingOf(u) /\ FreeListOf(f) /\ Partition(u, f)
    BY DEF HeapInv, TwoLists
<1>3. Enumerated(count, MaxNumEvents - count, u, f)
    BY <1>2 DEF Enumerated
<1> QED
    BY <1>1, <1>3

(* Every step of the heap keeps the two lists.                             *)
LEMMA StepHeapInv == HeapInv /\ [Next]_vars => HeapInv'
<1> SUFFICES ASSUME HeapInv, [Next]_vars PROVE HeapInv'
    OBVIOUS
<1>0. TypeOK
    BY DEF HeapInv
<1> PICK c \in Nat, n \in Nat : \E u, f : Enumerated(c, n, u, f)
    BY ListsEnumerated
<1> PICK u, f : Enumerated(c, n, u, f)
    OBVIOUS
<1>1. ASSUME NEW v \in Events, PushBack(v) PROVE HeapInv'
  <2>1. TypeOK' /\ Enumerated(c + 1, n - 1, Pushed(c, u, f[1]), Taken(n, f))'
      BY <1>0, <1>1, PushLists
  <2> QED
      BY <2>1 DEF HeapInv, TwoLists, Enumerated
<1>2. ASSUME NEW s \in Slot, DeleteSlot(s) PROVE HeapInv'
  <2>1. TypeOK' /\ \E k \in 1..c : Enumerated(c - 1, n + 1, Removed(c, u, k), Returned(n, f, s))'
      BY <1>0, <1>2, DeleteLists
  <2> QED
      BY <2>1 DEF HeapInv, TwoLists, Enumerated
<1>3. CASE PopFront
  <2>1. used_head \in Slot
      BY <1>3 DEF PopFront, DeleteSlot
  <2> QED
      BY <1>2, <1>3, <2>1 DEF PopFront
<1>4. CASE UNCHANGED vars
  <2>1. TypeOK'
      BY <1>0, <1>4 DEF vars, TypeOK
  <2>2. Enumerated(c, n, u, f)'
      BY <1>4 DEF vars, Enumerated, RingOf, FreeListOf, IsEmpty
  <2> QED
      BY <2>1, <2>2 DEF HeapInv, TwoLists, Enumerated
<1> QED
    BY <1>1, <1>2, <1>3, <1>4 DEF Next

(* In every reachable state both lists exist and the types hold.           *)
LEMMA HeapInvAlways == Spec => []HeapInv
<1>1. Init => HeapInv
    BY InitTypeOK, InitLists DEF HeapInv, Enumerated, TwoLists
<1> QED
    BY <1>1, StepHeapInv, PTL DEF Spec

(* Type correctness of heap.rs: every index stored in the header or in a   *)
(* node is a slot of the array or NO_NODE, whatever events are pushed and  *)
(* whatever slots deleted.                                                 *)
THEOREM TypeCorrect == Spec => []TypeOK
<1>1. HeapInv => TypeOK
    BY DEF HeapInv
<1> QED
    BY <1>1, HeapInvAlways, PTL

(* The used ring and the free list always share out the nodes: push_back   *)
(* and delete_slot never lose, duplicate or leak one.                      *)
THEOREM TwoListsAlways == Spec => []TwoLists
<1>1. HeapInv => TwoLists
    BY DEF HeapInv
<1> QED
    BY <1>1, HeapInvAlways, PTL
-----------------------------------------------------------------------------
(* What the lists say of the nodes that IsFree() tells apart: a node is    *)
(* used exactly when it is on the ring.                                    *)
LEMMA UsedAreRing ==
  ASSUME TypeOK, NEW c \in Nat, c = count, NEW n \in Nat, n = MaxNumEvents - count,
         NEW u \in [1..c -> Slot], NEW f \in [1..n -> Slot],
         RingOf(u), FreeListOf(f), Partition(u, f)
  PROVE  /\ \A i \in 1..c : u[i] \in Used
         /\ \A s \in Used : \E i \in 1..c : u[i] = s
         /\ \A j \in 1..n : f[j] \notin Used
<1>1. \A j \in 1..n : prev[f[j]] = NoNode
    BY DEF FreeListOf
<1>2. ASSUME NEW i \in 1..c PROVE u[i] \in Used
  <2>1. prev[u[i]] = u[Before(i, c)] /\ Before(i, c) \in 1..c
      BY RingLinks, RingPositions
  <2>2. u[Before(i, c)] # NoNode /\ u[i] \in Slot
      BY <2>1, NoNodeIsNoSlot
  <2> QED
      BY <2>1, <2>2 DEF Used, IsFree
<1>3. ASSUME NEW s \in Used PROVE \E i \in 1..c : u[i] = s
    BY <1>1 DEF Partition, Used, IsFree
<1> QED
    BY <1>1, <1>2, <1>3 DEF Used, IsFree

(* The pending events of heap.rs are a doubly linked ring entered at       *)
(* used_head.                                                              *)
LEMMA RingIsUsedRing == HeapInv => UsedRing
<1> SUFFICES ASSUME TypeOK, TwoLists PROVE UsedRing
    BY DEF HeapInv
<1> PICK c \in Nat, n \in Nat : c = count /\ n = MaxNumEvents - count
    BY HeapAssumption, SMT DEF TypeOK
<1> PICK u \in [1..c -> Slot], f \in [1..n -> Slot] :
         RingOf(u) /\ FreeListOf(f) /\ Partition(u, f)
    BY DEF TwoLists
<1>1. /\ \A i \in 1..c : u[i] \in Used
      /\ \A s \in Used : \E i \in 1..c : u[i] = s
    BY UsedAreRing
<1>2. ASSUME NEW s \in Used
      PROVE  /\ next[s] \in Used /\ prev[s] \in Used
             /\ prev[next[s]] = s /\ next[prev[s]] = s
  <2>1. PICK i \in 1..c : u[i] = s
      BY <1>1
  <2>2. next[s] = u[After(i, c)] /\ prev[s] = u[Before(i, c)]
      BY <2>1, RingLinks
  <2>3. /\ After(i, c) \in 1..c /\ Before(i, c) \in 1..c
        /\ Before(After(i, c), c) = i /\ After(Before(i, c), c) = i
      BY RingPositions
  <2>4. prev[u[After(i, c)]] = u[i] /\ next[u[Before(i, c)]] = u[i]
      BY <2>3, RingLinks
  <2> QED
      BY <1>1, <2>1, <2>2, <2>3, <2>4
<1>3. IF IsEmpty THEN used_head = NoNode ELSE used_head \in Used
  <2>1. CASE IsEmpty
      BY <2>1 DEF RingOf
  <2>2. CASE ~IsEmpty
    <3>1. used_head = u[1] /\ 1 \in 1..c
        BY <2>2, SMT DEF RingOf, IsEmpty
    <3> QED
        BY <3>1, <1>1, <2>2
  <2> QED
      BY <2>1, <2>2
<1> QED
    BY <1>2, <1>3 DEF UsedRing

(* The ring of pending events is well formed in every reachable state.     *)
THEOREM UsedRingAlways == Spec => []UsedRing
  BY RingIsUsedRing, HeapInvAlways, PTL

(* len() counts the nodes that hold an event, and the free list has a node *)
(* exactly while the heap is not full.                                     *)
LEMMA ListsLoseNoNode == HeapInv => NoNodeLost
<1> SUFFICES ASSUME TypeOK, TwoLists PROVE NoNodeLost
    BY DEF HeapInv
<1> PICK c \in Nat, n \in Nat : c = count /\ n = MaxNumEvents - count
    BY HeapAssumption, SMT DEF TypeOK
<1> PICK u \in [1..c -> Slot], f \in [1..n -> Slot] :
         RingOf(u) /\ FreeListOf(f) /\ Partition(u, f)
    BY DEF TwoLists
<1>1. /\ \A i \in 1..c : u[i] \in Used
      /\ \A s \in Used : \E i \in 1..c : u[i] = s
      /\ \A j \in 1..n : f[j] \notin Used
    BY UsedAreRing
<1>2. Cardinality(Used) = count
  <2>1. u \in Bijection(1..c, Used)
    <3>1. u \in [1..c -> Used]
        BY <1>1
    <3>2. \A i, j \in 1..c : u[i] = u[j] => i = j
        BY DEF Partition
    <3> QED
        BY <1>1, <3>1, <3>2, Fun_IsBij
  <2>2. ExistsBijection(1..c, Used)
      BY <2>1 DEF ExistsBijection
  <2> QED
      BY <2>2, FS_CountingElements
<1>3. IsFull <=> n = 0
    BY HeapAssumption, SMT DEF IsFull, TypeOK
<1>4. n = 0 => free_head = NoNode
    BY DEF FreeListOf
<1>5. n # 0 => free_head = f[1] /\ 1 \in 1..n
    BY SMT DEF FreeListOf
<1>6. free_head = NoNode <=> IsFull
    BY <1>3, <1>4, <1>5, NoNodeIsNoSlot
<1>7. ~IsFull => free_head \notin Used
    BY <1>1, <1>3, <1>5
<1>8. ASSUME NEW s \in Slot \ Used PROVE next[s] \notin Used
  <2>1. PICK j \in 1..n : f[j] = s
      BY <1>1 DEF Partition
  <2>2. CASE j = n
    <3>1. next[f[n]] = NoNode
        BY SMT DEF FreeListOf
    <3> QED
        BY <2>1, <2>2, <3>1, NoNodeIsNoSlot DEF Used
  <2>3. CASE j # n
    <3>1. j \in 1..(n - 1) /\ j + 1 \in 1..n
        BY <2>3, SMT
    <3>2. next[f[j]] = f[j + 1]
        BY <3>1 DEF FreeListOf
    <3> QED
        BY <1>1, <2>1, <3>1, <3>2
  <2> QED
      BY <2>2, <2>3
<1> QED
    BY <1>2, <1>6, <1>7, <1>8 DEF NoNodeLost

(* No node of the array is ever lost or shared by the two lists.           *)
THEOREM NoNodeLostAlways == Spec => []NoNodeLost
  BY ListsLoseNoNode, HeapInvAlways, PTL
-----------------------------------------------------------------------------
(* A step of the heap leaves the event of a used slot where it is, or      *)
(* deletes just that slot: push_back writes only the slot it takes from    *)
(* the free list, and delete_slot relinks the neighbours but does not      *)
(* touch their events.                                                     *)
THEOREM SlotsAreStable == Spec => SlotStable
<1> DEFINE Stable == \A s \in Used : \/ event'[s] = event[s] /\ prev'[s] # NoNode
                                     \/ prev'[s] = NoNode /\ count' = count - 1
<1>1. ASSUME TypeOK, NoNodeLost, UsedRing, Next PROVE Stable
  <2> SUFFICES ASSUME NEW s \in Used
               PROVE  \/ event'[s] = event[s] /\ prev'[s] # NoNode
                      \/ prev'[s] = NoNode /\ count' = count - 1
      OBVIOUS
  <2>1. /\ s \in Slot /\ prev[s] # NoNode
        /\ prev \in [Slot -> Slot \cup {NoNode}]
        /\ event \in [Slot -> Events \cup {NoEvent}]
      BY <1>1 DEF Used, IsFree, TypeOK
  <2>2. ASSUME NEW v \in Events, PushBack(v)
        PROVE  event'[s] = event[s] /\ prev'[s] # NoNode
    <3>1. free_head # s /\ free_head # NoNode
        BY <1>1, <2>2 DEF NoNodeLost, PushBack
    <3>2. event'[s] = event[s]
        BY <2>1, <2>2, <3>1 DEF PushBack
    <3>3. prev'[s] # NoNode
        BY <2>1, <2>2, <3>1 DEF PushBack, PrevAfterPush
    <3> QED
        BY <3>2, <3>3
  <2>3. ASSUME NEW t \in Slot, DeleteSlot(t)
        PROVE  \/ event'[s] = event[s] /\ prev'[s] # NoNode
               \/ prev'[s] = NoNode /\ count' = count - 1
    <3>1. prev' = [prev EXCEPT ![next[t]] = prev[t], ![t] = NoNode] /\ prev[t] # NoNode
        BY <2>3 DEF DeleteSlot, PrevAfterDelete, IsFree
    <3>2. CASE s = t
        BY <2>1, <2>3, <3>1, <3>2 DEF DeleteSlot
    <3>3. CASE s # t
      <4>1. event'[s] = event[s]
          BY <2>1, <2>3, <3>3 DEF DeleteSlot, EventAfterDelete
      <4>2. prev'[s] # NoNode
          BY <2>1, <3>1, <3>3
      <4> QED
          BY <4>1, <4>2
    <3> QED
        BY <3>2, <3>3
  <2>4. CASE PopFront
    <3>1. used_head \in Slot
        BY <2>4 DEF PopFront, DeleteSlot
    <3> QED
        BY <2>3, <2>4, <3>1 DEF PopFront
  <2> QED
      BY <1>1, <2>2, <2>3, <2>4 DEF Next
<1>2. TypeOK /\ NoNodeLost /\ UsedRing /\ [Next]_vars => [Stable]_vars
    BY <1>1
<1> HIDE DEF Stable
<1>3. Spec => [][Stable]_vars
    BY <1>2, TypeCorrect, NoNodeLostAlways, UsedRingAlways, PTL DEF Spec
<1> QED
    BY <1>3 DEF SlotStable, Stable
-----------------------------------------------------------------------------
(* The heap implements the queue.  The traversals follow the enumerations: *)
(* iter() shows the events of u in order, and the free slots come as in f. *)

\* A walk of m steps that starts at h and follows nx.
Follows(m, h, nx, g) == g = [i \in 1..m |-> IF i = 1 THEN h ELSE nx[g[i - 1]]]

LEMMA OneWalk ==
  ASSUME NEW m \in Nat, NEW h, NEW nx, NEW u, NEW g, Follows(m, h, nx, u), Follows(m, h, nx, g)
  PROVE  g = u
<1> DEFINE T == {i \in Nat : i \in 1..m => g[i] = u[i]}
<1>1. ASSUME NEW i \in 1..m
      PROVE  /\ g[i] = IF i = 1 THEN h ELSE nx[g[i - 1]]
             /\ u[i] = IF i = 1 THEN h ELSE nx[u[i - 1]]
    BY DEF Follows
<1>2. 0 \in T
    OBVIOUS
<1>3. ASSUME NEW i \in Nat, i \in T PROVE i + 1 \in T
  <2>1. CASE i = 0 /\ i + 1 \in 1..m
      BY <1>1, <2>1
  <2>2. CASE i # 0 /\ i + 1 \in 1..m
    <3>1. i \in 1..m /\ i + 1 # 1 /\ (i + 1) - 1 = i
        BY <2>2, SMT
    <3>2. g[i] = u[i]
        BY <1>3, <3>1
    <3>3. g[i + 1] = nx[g[i]] /\ u[i + 1] = nx[u[i]]
        BY <1>1, <2>2, <3>1
    <3> QED
        BY <3>2, <3>3
  <2> QED
      BY <2>1, <2>2
<1>4. \A i \in Nat : i \in T
  <2> HIDE DEF T
  <2> QED
      BY <1>2, <1>3, NatSetInduction
<1>5. \A i \in 1..m : g[i] = u[i]
    BY <1>4
<1>6. g = [i \in 1..m |-> g[i]] /\ u = [i \in 1..m |-> u[i]]
    BY DEF Follows
<1> QED
    BY <1>5, <1>6

\* What iter() yields when it visits the slots u.
Visited(c, u, e) == [i \in 1..c |-> [slot |-> u[i], event |-> e[u[i]]]]

TraversalsFollow ==
  \A c, n \in Nat : \A u, f :
    Enumerated(c, n, u, f) => Iter = Visited(c, u, event) /\ FreeList = f

LEMMA Traversals == TraversalsFollow
<1> SUFFICES ASSUME NEW c \in Nat, NEW n \in Nat, NEW u, NEW f, Enumerated(c, n, u, f)
             PROVE  Iter = Visited(c, u, event) /\ FreeList = f
    BY DEF TraversalsFollow
<1>0. /\ c = count /\ n = MaxNumEvents - count
      /\ u \in [1..c -> Slot] /\ f \in [1..n -> Slot]
      /\ RingOf(u) /\ FreeListOf(f)
    BY DEF Enumerated
<1>1. Follows(c, used_head, next, u)
  <2>1. ASSUME NEW i \in 1..c PROVE u[i] = IF i = 1 THEN used_head ELSE next[u[i - 1]]
    <3>1. CASE i = 1
        BY <1>0, <3>1, SMT DEF RingOf, IsEmpty
    <3>2. CASE i # 1
      <4>1. i - 1 \in 1..(c - 1) /\ (i - 1) + 1 = i
          BY <3>2, SMT
      <4>2. next[u[i - 1]] = u[(i - 1) + 1]
          BY <1>0, <4>1 DEF RingOf
      <4> QED
          BY <3>2, <4>1, <4>2
    <3> QED
        BY <3>1, <3>2
  <2>2. u = [i \in 1..c |-> u[i]]
      BY <1>0
  <2> QED
      BY <2>1, <2>2 DEF Follows
<1>2. Follows(n, free_head, next, f)
  <2>1. ASSUME NEW i \in 1..n PROVE f[i] = IF i = 1 THEN free_head ELSE next[f[i - 1]]
    <3>1. CASE i = 1
        BY <1>0, <3>1, SMT DEF FreeListOf
    <3>2. CASE i # 1
      <4>1. i - 1 \in 1..(n - 1) /\ (i - 1) + 1 = i
          BY <3>2, SMT
      <4>2. next[f[i - 1]] = f[(i - 1) + 1]
          BY <1>0, <4>1 DEF FreeListOf
      <4> QED
          BY <3>2, <4>1, <4>2
    <3> QED
        BY <3>1, <3>2
  <2>2. f = [i \in 1..n |-> f[i]]
      BY <1>0
  <2> QED
      BY <2>1, <2>2 DEF Follows
<1>3. IterSlot = u
  <2>1. IterSlot = CHOOSE g : Follows(count, used_head, next, g)
      BY DEF IterSlot, Follows
  <2>2. Follows(count, used_head, next, IterSlot)
      BY <1>0, <1>1, <2>1
  <2> QED
      BY <1>0, <1>1, <2>2, OneWalk
<1>4. FreeList = f
  <2>1. FreeList = CHOOSE g : Follows(MaxNumEvents - count, free_head, next, g)
      BY DEF FreeList, Follows
  <2>2. Follows(MaxNumEvents - count, free_head, next, FreeList)
      BY <1>0, <1>2, <2>1
  <2> QED
      BY <1>0, <1>2, <2>2, OneWalk
<1> QED
    BY <1>0, <1>3, <1>4 DEF Iter, Visited

LEMMA TraversalsNext == TraversalsFollow'
  BY Traversals, PTL

-----------------------------------------------------------------------------
\* The queue's operations on sequences, as the enumerations make them.
LEMMA FunctionIsSeq ==
  ASSUME NEW S, NEW c \in Nat, NEW s \in [1..c -> S]
  PROVE  s \in Seq(S) /\ Len(s) = c
  BY SMT

LEMMA SameSeq ==
  ASSUME NEW S, NEW c \in Nat, NEW s \in [1..c -> S], NEW t \in Seq(S), Len(t) = c,
         \A i \in 1..c : t[i] = s[i]
  PROVE  t = s
  BY FunctionIsSeq, SeqEqual

LEMMA AppendIsPushed ==
  ASSUME NEW S, NEW c \in Nat, NEW s \in [1..c -> S], NEW x \in S
  PROVE  Append(s, x) = Pushed(c, s, x)
<1>1. s \in Seq(S) /\ Len(s) = c
    BY FunctionIsSeq
<1>2. Pushed(c, s, x) \in [1..(c + 1) -> S]
    BY DEF Pushed
<1>3. /\ Append(s, x) \in Seq(S) /\ Len(Append(s, x)) = c + 1
      /\ \A i \in 1..(c + 1) : Append(s, x)[i] = Pushed(c, s, x)[i]
    BY <1>1 DEF Pushed
<1>4. c + 1 \in Nat
    BY SMT
<1> QED
    BY <1>2, <1>3, <1>4, SameSeq

LEMMA TailIsTaken ==
  ASSUME NEW S, NEW c \in Nat, NEW s \in [1..c -> S], c >= 1
  PROVE  s # <<>> /\ Head(s) = s[1] /\ Tail(s) = Taken(c, s)
<1>1. s \in Seq(S) /\ Len(s) = c
    BY FunctionIsSeq
<1>2. s # <<>>
    BY <1>1
<1>3. Taken(c, s) \in [1..(c - 1) -> S]
    BY DEF Taken
<1>4. /\ Tail(s) \in Seq(S) /\ Len(Tail(s)) = c - 1 /\ c - 1 \in Nat
      /\ \A i \in 1..(c - 1) : Tail(s)[i] = s[i + 1]
    BY <1>1, <1>2, HeadTailProperties
<1>5. \A i \in 1..(c - 1) : Tail(s)[i] = Taken(c, s)[i]
    BY <1>4 DEF Taken
<1>6. Tail(s) = Taken(c, s)
    BY <1>3, <1>4, <1>5, SameSeq
<1> QED
    BY <1>1, <1>2, <1>6

LEMMA ConcatIsReturned ==
  ASSUME NEW S, NEW c \in Nat, NEW s \in [1..c -> S], NEW x \in S
  PROVE  <<x>> \o s = Returned(c, s, x)
<1>1. s \in Seq(S) /\ Len(s) = c /\ <<x>> \in Seq(S) /\ Len(<<x>>) = 1 /\ <<x>>[1] = x
    BY FunctionIsSeq
<1>2. Returned(c, s, x) \in [1..(c + 1) -> S]
  <2>1. ASSUME NEW j \in 1..(c + 1), j # 1 PROVE j - 1 \in 1..c /\ s[j - 1] \in S
      BY <2>1
  <2> QED
      BY <2>1 DEF Returned
<1> DEFINE t == <<x>> \o s
<1>3. /\ t \in Seq(S) /\ Len(t) = 1 + c
      /\ \A i \in 1..(1 + c) : t[i] = IF i <= 1 THEN <<x>>[i] ELSE s[i - 1]
    BY <1>1, ConcatProperties
<1> HIDE DEF t
<1>4. 1 + c = c + 1 /\ c + 1 \in Nat
    BY SMT
<1>5. \A i \in 1..(c + 1) : t[i] = Returned(c, s, x)[i]
  <2> TAKE i \in 1..(c + 1)
  <2>1. t[i] = IF i <= 1 THEN <<x>>[i] ELSE s[i - 1]
      BY <1>3, <1>4
  <2>2. i <= 1 <=> i = 1
      BY SMT
  <2> QED
      BY <1>1, <2>1, <2>2 DEF Returned
<1>6. t = Returned(c, s, x)
    BY <1>2, <1>3, <1>4, <1>5, SameSeq
<1> QED
    BY <1>6 DEF t

LEMMA RemoveIsRemoved ==
  ASSUME NEW S, NEW c \in Nat, NEW s \in [1..c -> S], NEW k \in 1..c
  PROVE  Queue!RemoveAt(s, k) = Removed(c, s, k)
<1>1. s \in Seq(S) /\ Len(s) = c
    BY FunctionIsSeq
<1> DEFINE a == SubSeq(s, 1, k - 1)
           b == SubSeq(s, k + 1, c)
           t == a \o b
<1>2. Queue!RemoveAt(s, k) = t
    BY <1>1 DEF Queue!RemoveAt
<1>3. /\ a \in Seq(S) /\ Len(a) = k - 1
      /\ \A i \in 1..(k - 1) : a[i] = s[i]
  <2>1. k - 1 \in Int /\ 1 \in Int /\ \A i \in 1..(k - 1) : s[i] \in S
      BY SMT
  <2>2. /\ a \in Seq(S) /\ Len(a) = IF 1 <= k - 1 THEN (k - 1) - 1 + 1 ELSE 0
        /\ \A i \in 1..((k - 1) - 1 + 1) : a[i] = s[1 + i - 1]
    <3> HIDE DEF a
    <3> QED
      BY <2>1, SubSeqProperties DEF a
  <2> HIDE DEF a
  <2>3. \A i \in 1..(k - 1) : i \in 1..((k - 1) - 1 + 1) /\ 1 + i - 1 = i
      BY SMT
  <2>4. Len(a) = k - 1
      BY <2>2, SMT
  <2> QED
      BY <2>2, <2>3, <2>4
<1>4. /\ b \in Seq(S) /\ Len(b) = c - k
      /\ \A i \in 1..(c - k) : b[i] = s[k + i]
  <2>1. k + 1 \in Int /\ c \in Int /\ \A i \in (k + 1)..c : s[i] \in S
      BY SMT
  <2>2. /\ b \in Seq(S) /\ Len(b) = IF k + 1 <= c THEN c - (k + 1) + 1 ELSE 0
        /\ \A i \in 1..(c - (k + 1) + 1) : b[i] = s[(k + 1) + i - 1]
    <3> HIDE DEF b
    <3> QED
      BY <2>1, SubSeqProperties DEF b
  <2> HIDE DEF b
  <2>3. \A i \in 1..(c - k) : i \in 1..(c - (k + 1) + 1) /\ (k + 1) + i - 1 = k + i
      BY SMT
  <2>4. Len(b) = c - k
      BY <2>2, SMT
  <2> QED
      BY <2>2, <2>3, <2>4
<1> HIDE DEF a, b
<1>5. /\ t \in Seq(S) /\ Len(t) = Len(a) + Len(b)
      /\ \A i \in 1..(Len(a) + Len(b)) : t[i] = IF i <= Len(a) THEN a[i] ELSE b[i - Len(a)]
    BY <1>3, <1>4, ConcatProperties
<1> HIDE DEF t
<1>6. Len(a) + Len(b) = c - 1 /\ c - 1 \in Nat
    BY <1>3, <1>4, SMT
<1>7. ASSUME NEW i \in 1..(c - 1)
      PROVE  t[i] = Removed(c, s, k)[i] /\ Removed(c, s, k)[i] \in S
  <2>1. CASE i < k
    <3>1. i \in 1..(k - 1) /\ i <= Len(a) /\ i \in 1..c
        BY <1>3, <2>1, SMT
    <3>2. t[i] = s[i]
        BY <1>3, <1>5, <1>6, <3>1
    <3> QED
        BY <2>1, <3>1, <3>2 DEF Removed
  <2>2. CASE ~(i < k)
    <3>1. /\ ~(i <= Len(a)) /\ i - Len(a) \in 1..(c - k)
          /\ k + (i - Len(a)) = i + 1 /\ i + 1 \in 1..c
        BY <1>3, <2>2, SMT
    <3>2. t[i] = b[i - Len(a)]
        BY <1>5, <1>6, <3>1
    <3>3. t[i] = s[i + 1]
        BY <1>4, <3>1, <3>2
    <3> QED
        BY <2>2, <3>1, <3>3 DEF Removed
  <2> QED
      BY <2>1, <2>2
<1>8. Removed(c, s, k) \in [1..(c - 1) -> S]
    BY <1>7 DEF Removed
<1>9. t = Removed(c, s, k)
    BY <1>5, <1>6, <1>7, <1>8, SameSeq
<1> QED
    BY <1>2, <1>9
-----------------------------------------------------------------------------
(* The empty heap is the empty queue, and its free slots come in order.    *)
LEMMA InitImplements == Init => Queue!QueueInit
<1> SUFFICES ASSUME Init PROVE Queue!QueueInit
    OBVIOUS
<1> DEFINE u == [i \in 1..0 |-> 0]
           f == [i \in 1..MaxNumEvents |-> i - 1]
<1>1. Enumerated(0, MaxNumEvents, u, f)
    BY InitLists
<1> HIDE DEF u
<1>2. Iter = Visited(0, u, event) /\ FreeList = f
  <2>1. 0 \in Nat /\ MaxNumEvents \in Nat
      BY HeapAssumption
  <2> HIDE DEF f
  <2> QED
      BY <1>1, <2>1, Traversals DEF TraversalsFollow
<1>3. Visited(0, u, event) = <<>>
  <2>1. Visited(0, u, event) \in [1..0 -> {}]
      BY DEF Visited
  <2>2. Visited(0, u, event) \in Seq({}) /\ Len(Visited(0, u, event)) = 0
      BY <2>1, FunctionIsSeq
  <2> QED
      BY <2>2, EmptySeq
<1>4. seq_num = 0
    BY DEF Init
<1> QED
    BY <1>2, <1>3, <1>4 DEF Queue!QueueInit

(* push_back is the queue's Enqueue: the event is the last one iter()      *)
(* yields, and the first free slot is taken.                               *)
LEMMA PushImplements ==
  ASSUME TypeOK, NEW c \in Nat, NEW n \in Nat, NEW u, NEW f,
         Enumerated(c, n, u, f), NEW v \in Events, PushBack(v)
  PROVE  Queue!Enqueue(v)
<1> DEFINE s == f[1]
           Pair == [slot : Slot, event : Events \cup {NoEvent}]
           p == [slot |-> s, event |-> v]
           V == Visited(c, u, event)
<1>1. /\ n >= 1 /\ free_head = s
      /\ Enumerated(c + 1, n - 1, Pushed(c, u, s), Taken(n, f))'
    BY PushLists
<1>2. /\ c + 1 \in Nat /\ n - 1 \in Nat /\ 1 \in 1..n
    BY <1>1, SMT
<1>3. Iter = V /\ FreeList = f
    BY Traversals DEF TraversalsFollow
<1>4. /\ Iter' = Visited(c + 1, Pushed(c, u, s), event')
      /\ FreeList' = Taken(n, f)
    BY <1>1, <1>2, TraversalsNext DEF TraversalsFollow
<1>5. /\ u \in [1..c -> Slot] /\ f \in [1..n -> Slot]
      /\ \A i \in 1..c : u[i] # s
    BY <1>2 DEF Enumerated, Partition
<1>6. event \in [Slot -> Events \cup {NoEvent}] /\ event' = [event EXCEPT ![s] = v]
    BY <1>1 DEF TypeOK, PushBack
<1>7. s \in Slot /\ event'[s] = v /\ \A i \in 1..c : event'[u[i]] = event[u[i]]
    BY <1>2, <1>5, <1>6
<1>8. V \in [1..c -> Pair] /\ p \in Pair
    BY <1>5, <1>6, <1>7 DEF Visited
<1>9. Visited(c + 1, Pushed(c, u, s), event') = Pushed(c, V, p)
  <2>1. ASSUME NEW i \in 1..(c + 1)
        PROVE  [slot |-> Pushed(c, u, s)[i], event |-> event'[Pushed(c, u, s)[i]]]
               = Pushed(c, V, p)[i]
    <3>1. CASE i <= c
      <4>1. i \in 1..c
          BY <3>1, SMT
      <4>2. Pushed(c, u, s)[i] = u[i] /\ Pushed(c, V, p)[i] = V[i]
          BY <3>1 DEF Pushed
      <4>3. V[i] = [slot |-> u[i], event |-> event[u[i]]]
          BY <4>1 DEF Visited
      <4> QED
          BY <1>7, <4>1, <4>2, <4>3
    <3>2. CASE ~(i <= c)
      <4>1. Pushed(c, u, s)[i] = s /\ Pushed(c, V, p)[i] = p
          BY <3>2 DEF Pushed
      <4> QED
          BY <1>7, <4>1
    <3> QED
        BY <3>1, <3>2
  <2>2. Pushed(c, V, p) = [i \in 1..(c + 1) |-> Pushed(c, V, p)[i]]
      BY DEF Pushed
  <2> HIDE DEF V, p
  <2> QED
      BY <2>1, <2>2 DEF Visited
<1>10. Append(V, p) = Pushed(c, V, p)
  <2> HIDE DEF V, p, Pair
  <2> QED
      BY <1>8, AppendIsPushed
<1>11. f # <<>> /\ Head(f) = s /\ Tail(f) = Taken(n, f)
    BY <1>1, <1>5, TailIsTaken
<1>12. seq_num < MaxSeqNum /\ seq_num' = seq_num + 1
    BY DEF PushBack
<1> HIDE DEF V
<1> QED
    BY <1>3, <1>4, <1>9, <1>10, <1>11, <1>12 DEF Queue!Enqueue

(* delete_slot is the queue's Dequeue of the event that sits in the slot:  *)
(* the others keep their order, and the slot is the next one to be used.   *)
LEMMA DeleteImplements ==
  ASSUME TypeOK, NEW c \in Nat, NEW n \in Nat, NEW u, NEW f,
         Enumerated(c, n, u, f), NEW s \in Slot, DeleteSlot(s)
  PROVE  \E k \in DOMAIN Iter : Queue!Dequeue(k)
<1> DEFINE Pair == [slot : Slot, event : Events \cup {NoEvent}]
           V == Visited(c, u, event)
<1>1. PICK k \in 1..c :
        u[k] = s /\ Enumerated(c - 1, n + 1, Removed(c, u, k), Returned(n, f, s))'
    BY DeleteLists
<1>2. c - 1 \in Nat /\ n + 1 \in Nat
    BY SMT
<1>3. Iter = V /\ FreeList = f
    BY Traversals DEF TraversalsFollow
<1>4. /\ Iter' = Visited(c - 1, Removed(c, u, k), event')
      /\ FreeList' = Returned(n, f, s)
    BY <1>1, <1>2, TraversalsNext DEF TraversalsFollow
<1>5. /\ u \in [1..c -> Slot] /\ f \in [1..n -> Slot]
      /\ \A i \in 1..c : i # k => u[i] # s
    BY <1>1 DEF Enumerated, Partition
<1>6. event \in [Slot -> Events \cup {NoEvent}] /\ event' = [event EXCEPT ![s] = NoEvent]
    BY DEF TypeOK, DeleteSlot, EventAfterDelete
<1>7. \A i \in 1..c : i # k => event'[u[i]] = event[u[i]]
    BY <1>5, <1>6
<1>8. V \in [1..c -> Pair] /\ V[k].slot = s /\ DOMAIN V = 1..c
    BY <1>1, <1>5, <1>6 DEF Visited
<1>9. Visited(c - 1, Removed(c, u, k), event') = Removed(c, V, k)
  <2>1. ASSUME NEW i \in 1..(c - 1)
        PROVE  [slot |-> Removed(c, u, k)[i], event |-> event'[Removed(c, u, k)[i]]]
               = Removed(c, V, k)[i]
    <3> DEFINE j == IF i < k THEN i ELSE i + 1
    <3>1. j \in 1..c /\ j # k
        BY SMT
    <3>2. Removed(c, u, k)[i] = u[j] /\ Removed(c, V, k)[i] = V[j]
        BY DEF Removed
    <3> HIDE DEF j
    <3>3. V[j] = [slot |-> u[j], event |-> event[u[j]]]
        BY <3>1 DEF Visited
    <3> QED
        BY <1>7, <3>1, <3>2, <3>3
  <2>2. Removed(c, V, k) = [i \in 1..(c - 1) |-> Removed(c, V, k)[i]]
      BY DEF Removed
  <2> HIDE DEF V
  <2> QED
      BY <2>1, <2>2 DEF Visited
<1>10. Queue!RemoveAt(V, k) = Removed(c, V, k)
  <2> HIDE DEF V, Pair
  <2> QED
      BY <1>8, RemoveIsRemoved
<1>11. <<s>> \o f = Returned(n, f, s)
    BY <1>5, ConcatIsReturned
<1>12. UNCHANGED seq_num
    BY DEF DeleteSlot
<1> HIDE DEF V
<1>13. Queue!Dequeue(k)
    BY <1>3, <1>4, <1>8, <1>9, <1>10, <1>11, <1>12 DEF Queue!Dequeue
<1> QED
    BY <1>3, <1>8, <1>13

(* Every step of the heap is a step of the queue or leaves it alone.       *)
LEMMA StepImplements == HeapInv /\ [Next]_vars => [Queue!QueueNext]_(Queue!queueVars)
<1> SUFFICES ASSUME HeapInv, [Next]_vars PROVE [Queue!QueueNext]_(Queue!queueVars)
    OBVIOUS
<1>0. TypeOK
    BY DEF HeapInv
<1> PICK c \in Nat, n \in Nat : \E u, f : Enumerated(c, n, u, f)
    BY ListsEnumerated
<1> PICK u, f : Enumerated(c, n, u, f)
    OBVIOUS
<1>1. ASSUME NEW v \in Events, PushBack(v) PROVE Queue!QueueNext
  <2>1. Queue!Enqueue(v)
      BY <1>0, <1>1, PushImplements
  <2> QED
      BY <2>1 DEF Queue!QueueNext
<1>2. ASSUME NEW s \in Slot, DeleteSlot(s) PROVE Queue!QueueNext
  <2>1. \E k \in DOMAIN Iter : Queue!Dequeue(k)
      BY <1>0, <1>2, DeleteImplements
  <2> QED
      BY <2>1 DEF Queue!QueueNext
<1>3. CASE PopFront
  <2>1. used_head \in Slot
      BY <1>3 DEF PopFront, DeleteSlot
  <2> QED
      BY <1>2, <1>3, <2>1 DEF PopFront
<1>4. CASE UNCHANGED vars
  <2>1. Enumerated(c, n, u, f)'
      BY <1>4 DEF vars, Enumerated, RingOf, FreeListOf, IsEmpty
  <2>2. Iter = Visited(c, u, event) /\ FreeList = f
      BY Traversals DEF TraversalsFollow
  <2>3. Iter' = Visited(c, u, event') /\ FreeList' = f
      BY <2>1, TraversalsNext DEF TraversalsFollow
  <2>4. event' = event /\ seq_num' = seq_num
      BY <1>4 DEF vars
  <2>5. Iter' = Iter /\ FreeList' = FreeList
      BY <2>2, <2>3, <2>4
  <2> QED
      BY <2>4, <2>5 DEF Queue!queueVars
<1> QED
    BY <1>1, <1>2, <1>3, <1>4 DEF Next

(* The event heap implements the event queue: whatever is pushed and       *)
(* whatever slots are deleted, in any order and for any size of the array, *)
(* iter() yields the pending events in the order they were pushed, each in *)
(* the slot it was put in, and the slot freed last is used next.           *)
THEOREM HeapImplementsQueue == Spec => ImplementsQueue
<1>1. Spec => []HeapInv
    BY HeapInvAlways
<1> QED
    BY <1>1, InitImplements, StepImplements, PTL DEF Spec, ImplementsQueue, Queue!QueueSpec

================================================================================

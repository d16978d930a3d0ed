------------------------------ MODULE EventHeap ------------------------------
(***************************************************************************)
(* state/orderbook/heap.rs: the account that holds the events of a market  *)
(* between the instruction that matched the orders and the one that        *)
(* settles the match.  One array of nodes carries two lists: the events    *)
(* pending, a circular doubly linked list that starts at used_head, and    *)
(* the free nodes, a singly linked list that starts at free_head.  A node  *)
(* whose prev is NO_NODE is free.                                          *)
(*                                                                         *)
(* delete_slot and pop_front return the node's event after it was cleared; *)
(* no caller uses the value and the model leaves it out.                   *)
(***************************************************************************)
EXTENDS Naturals, Sequences, FiniteSets

CONSTANTS MaxNumEvents, \* MAX_NUM_EVENTS (600 in the code)
          NoNode,       \* NO_NODE = u16::MAX
          Events,       \* the values push_back is called with
          NoEvent,      \* AnyEvent::default(), what a cleared node holds
          MaxSeqNum     \* bound of the model: how many events are ever pushed

ASSUME HeapAssumption ==
  /\ MaxNumEvents \in Nat \ {0}
  /\ MaxSeqNum \in Nat
  /\ NoNode \in Nat
  /\ NoNode > MaxNumEvents
  /\ NoEvent \notin Events

Slot == 0..(MaxNumEvents - 1)

VARIABLES free_head, used_head, count, seq_num, \* EventHeapHeader
          next, prev, event                     \* EventNode, by slot

vars == <<free_head, used_head, count, seq_num, next, prev, event>>

Init ==
  /\ free_head = 0
  /\ used_head = NoNode
  /\ count = 0
  /\ seq_num = 0
  /\ next = [s \in Slot |-> IF s = MaxNumEvents - 1 THEN NoNode ELSE s + 1]
  /\ prev = [s \in Slot |-> NoNode]
  /\ event = [s \in Slot |-> NoEvent]

IsEmpty == count = 0
IsFull == count = MaxNumEvents
IsFree(s) == prev[s] = NoNode

\* What push_back writes: the node leaves the free list and is linked before
\* used_head, that is, at the end of the ring.
FreeHeadIncremented(slot) == slot + 1 \* mutant: forgets that free nodes are scattered
FreeHeadAfterPush(slot) == next[slot]
UsedHeadAtNewest(slot) == slot        \* mutant: the ring is entered at the newest event
UsedHeadAfterPush(slot) == IF IsEmpty THEN slot ELSE used_head
NextAfterPush(slot) ==
  IF IsEmpty THEN [next EXCEPT ![slot] = slot]
  ELSE [next EXCEPT ![prev[used_head]] = slot, ![slot] = used_head]
PrevAfterPush(slot) ==
  IF IsEmpty THEN [prev EXCEPT ![slot] = slot]
  ELSE [prev EXCEPT ![used_head] = slot, ![slot] = prev[used_head]]

PushBack(v) ==
  LET slot == free_head
  IN  /\ ~IsFull
      /\ seq_num < MaxSeqNum
      /\ free_head' = FreeHeadAfterPush(slot)
      /\ used_head' = UsedHeadAfterPush(slot)
      /\ count' = count + 1
      /\ seq_num' = seq_num + 1
      /\ next' = NextAfterPush(slot)
      /\ prev' = PrevAfterPush(slot)
      /\ event' = [event EXCEPT ![slot] = v]

\* What delete_slot writes: the neighbours are linked to each other and the
\* node is put on the free list.
UsedHeadKept(slot) == IF count = 1 THEN NoNode ELSE used_head \* mutant: entry not moved
UsedHeadAfterDelete(slot) ==
  IF count = 1 THEN NoNode ELSE IF used_head = slot THEN next[slot] ELSE used_head
FreeListCut(slot) == [next EXCEPT ![prev[slot]] = next[slot], ![slot] = NoNode] \* mutant
NextAfterDelete(slot) ==
  [next EXCEPT ![prev[slot]] = next[slot], ![slot] = free_head]
PrevNotCleared(slot) == [prev EXCEPT ![next[slot]] = prev[slot]] \* mutant: not marked free
PrevAfterDelete(slot) ==
  [prev EXCEPT ![next[slot]] = prev[slot], ![slot] = NoNode]
OldestCleared(slot) == [event EXCEPT ![used_head] = NoEvent] \* mutant: clears another slot
EventAfterDelete(slot) == [event EXCEPT ![slot] = NoEvent]

\* delete_slot accepts a slot of the array that holds an event.
DeleteSlot(slot) ==
  /\ slot \in Slot /\ ~IsEmpty /\ ~IsFree(slot)
  /\ free_head' = slot
  /\ used_head' = UsedHeadAfterDelete(slot)
  /\ count' = count - 1
  /\ next' = NextAfterDelete(slot)
  /\ prev' = PrevAfterDelete(slot)
  /\ event' = EventAfterDelete(slot)
  /\ UNCHANGED seq_num

PopFront == DeleteSlot(used_head)

Next ==
  \/ \E v \in Events : PushBack(v)
  \/ \E slot \in Slot : DeleteSlot(slot)
  \/ PopFront

Spec == Init /\ [][Next]_vars

-----------------------------------------------------------------------------
(* The traversals.  iter() follows next from used_head, len() times.       *)

Used == {s \in Slot : ~IsFree(s)}

IterSlot[i \in 1..count] == IF i = 1 THEN used_head ELSE next[IterSlot[i - 1]]
Iter == [i \in 1..count |-> [slot |-> IterSlot[i], event |-> event[IterSlot[i]]]]

FreeList[i \in 1..(MaxNumEvents - count)] ==
  IF i = 1 THEN free_head ELSE next[FreeList[i - 1]]

-----------------------------------------------------------------------------
(* Every field of the header and of the nodes stays in the range its Rust  *)
(* type and the array give it.                                             *)
TypeOK ==
  /\ free_head \in Slot \cup {NoNode}
  /\ used_head \in Slot \cup {NoNode}
  /\ count \in 0..MaxNumEvents
  /\ seq_num \in 0..MaxSeqNum
  /\ next \in [Slot -> Slot \cup {NoNode}]
  /\ prev \in [Slot -> Slot \cup {NoNode}]
  /\ event \in [Slot -> Events \cup {NoEvent}]

(* The pending events form a doubly linked ring: from a used node, next    *)
(* and prev lead to used nodes and undo each other, and the ring is        *)
(* entered at a used node exactly while an event is pending.  push_back    *)
(* and delete_slot each rewrite up to four links to keep it so.            *)
UsedRing ==
  /\ \A s \in Used : /\ next[s] \in Used /\ prev[s] \in Used
                     /\ prev[next[s]] = s /\ next[prev[s]] = s
  /\ IF IsEmpty THEN used_head = NoNode ELSE used_head \in Used

(* No node is lost or shared by the two lists: push_back can take a node   *)
(* from the free list exactly while len() says that the heap is not full,  *)
(* and len() counts the nodes that hold an event.                          *)
NoNodeLost ==
  /\ Cardinality(Used) = count
  /\ free_head = NoNode <=> IsFull
  /\ ~IsFull => free_head \notin Used
  /\ \A s \in Slot \ Used : next[s] \notin Used

(* The inductive invariant: there is an enumeration u of the used nodes    *)
(* and one f of the free nodes such that every link follows them.          *)
RingOf(u) ==
  /\ IF IsEmpty THEN used_head = NoNode
     ELSE used_head = u[1] /\ next[u[count]] = u[1] /\ prev[u[1]] = u[count]
  /\ \A i \in 1..(count - 1) : next[u[i]] = u[i + 1] /\ prev[u[i + 1]] = u[i]

FreeListOf(f) ==
  LET n == MaxNumEvents - count
  IN  /\ IF n = 0 THEN free_head = NoNode
         ELSE free_head = f[1] /\ next[f[n]] = NoNode
      /\ \A i \in 1..(n - 1) : next[f[i]] = f[i + 1]
      /\ \A i \in 1..n : prev[f[i]] = NoNode

Partition(u, f) ==
  /\ \A i, j \in DOMAIN u : u[i] = u[j] => i = j
  /\ \A i, j \in DOMAIN f : f[i] = f[j] => i = j
  /\ \A i \in DOMAIN u, j \in DOMAIN f : u[i] # f[j]
  /\ \A s \in Slot : (\E i \in DOMAIN u : u[i] = s) \/ (\E j \in DOMAIN f : f[j] = s)

TwoLists ==
  \E u \in [1..count -> Slot], f \in [1..(MaxNumEvents - count) -> Slot] :
    RingOf(u) /\ FreeListOf(f) /\ Partition(u, f)

(* A pending event stays where it is, unchanged, until its own slot is     *)
(* deleted: a crank that names the slot later settles the event it saw.    *)
SlotStable ==
  [][\A s \in Used : \/ event'[s] = event[s] /\ prev'[s] # NoNode
                     \/ prev'[s] = NoNode /\ count' = count - 1]_vars

(* The heap implements the queue it promises: iter() yields the events in  *)
(* the order they were pushed, whatever slots were deleted in between, and *)
(* the slot freed last is reused first.                                    *)
Queue == INSTANCE EventQueue WITH pending <- Iter, free <- FreeList
ImplementsQueue == Queue!QueueSpec
=============================================================================

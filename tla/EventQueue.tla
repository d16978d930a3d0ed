----------------------------- MODULE EventQueue -----------------------------
(***************************************************************************)
(* What the event heap of a market promises its users: a queue of events   *)
(* in the order they were pushed, each parked in a slot that does not move *)
(* while the event is pending, and a stack of free slots of which the one  *)
(* freed last is taken first.  Any pending event can be deleted by its     *)
(* slot, not only the oldest one.  EventHeap implements this with two      *)
(* linked lists threaded through one array.                                *)
(***************************************************************************)
EXTENDS Naturals, Sequences, SequencesExt

CONSTANTS MaxNumEvents, \* MAX_NUM_EVENTS, the number of nodes
          Events,       \* the values a caller may push
          MaxSeqNum     \* bound of the model: how many events are ever pushed

VARIABLES pending,      \* sequence of [slot, event], oldest event first
          free,         \* stack of free slots, next one to be used first
          seq_num       \* number of events pushed so far

queueVars == <<pending, free, seq_num>>

QueueInit ==
  /\ pending = <<>>
  /\ free = [i \in 1..MaxNumEvents |-> i - 1]
  /\ seq_num = 0

Enqueue(v) ==
  /\ free # <<>>
  /\ seq_num < MaxSeqNum
  /\ pending' = Append(pending, [slot |-> Head(free), event |-> v])
  /\ free' = Tail(free)
  /\ seq_num' = seq_num + 1

Dequeue(i) ==
  /\ pending' = RemoveAt(pending, i)
  /\ free' = <<pending[i].slot>> \o free
  /\ UNCHANGED seq_num

QueueNext ==
  \/ \E v \in Events : Enqueue(v)
  \/ \E i \in DOMAIN pending : Dequeue(i)

QueueSpec == QueueInit /\ [][QueueNext]_queueVars
=============================================================================

SPECIFICATION Spec
CONSTANTS
  MaxNumEvents = 4
  NoNode = 9
  Events = {e1, e2}
  NoEvent = none
  MaxSeqNum = 6
INVARIANTS
  TypeOK
  UsedRing
  NoNodeLost
  TwoLists
PROPERTIES
  SlotStable
  ImplementsQueue
\* pushes stop at MaxSeqNum, and an empty heap then has nothing left to do
CHECK_DEADLOCK FALSE

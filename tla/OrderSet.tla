------------------------------- MODULE OrderSet -------------------------------
(***************************************************************************)
(* What the trees of one side of the book promise: two sets of orders, in  *)
(* each at most one order per key.  BookSide builds the order book on such *)
(* sets; OrderTree is shown to implement them.                             *)
(***************************************************************************)
EXTENDS TreePool, FiniteSets

CONSTANTS Orders, \* what insert_leaf is called with: [tree, key, expiry, qty]
          Times   \* the times remove_one_expired is called at

VARIABLES order_tree_type, \* "Bids" or "Asks"
          orders           \* for each tree, its orders: [key, expiry, qty]

Init ==
  /\ order_tree_type \in {"Bids", "Asks"}
  /\ orders = [tree \in Tree |-> {}]

Room(tree) ==
  TreeNodes(Cardinality(orders[tree]) + 1)
    + TreeNodes(Cardinality(orders[OtherTree(tree)])) <= MaxNodes

\* The order takes the place of one with its key, which the sequence number in
\* the key rules out.
Insert(o) ==
  LET same == {p \in orders[o.tree] : p.key = o.key}
  IN  /\ same # {} \/ Room(o.tree)
      /\ orders' = [orders EXCEPT ![o.tree] = (@ \ same) \cup
                       {[key |-> o.key, expiry |-> o.expiry, qty |-> o.qty]}]

Remove(tree, o) == orders' = [orders EXCEPT ![tree] = @ \ {o}]

\* The order that expires first, the one with the lowest key among equals.
ExpiredFirst(tree, time) ==
  {o \in orders[tree] :
     /\ o.expiry < time
     /\ \A p \in orders[tree] \ {o} :
          p.expiry > o.expiry \/ (p.expiry = o.expiry /\ p.key > o.key)}
RemoveExpired(tree, time) ==
  \/ \E o \in ExpiredFirst(tree, time) : Remove(tree, o)
  \/ /\ ExpiredFirst(tree, time) = {}
     /\ \E o \in ExpiredFirst(OtherTree(tree), time) : Remove(OtherTree(tree), o)

Worst(tree) ==
  {o \in orders[tree] : \A p \in orders[tree] \ {o} :
     IF order_tree_type = "Bids" THEN o.key < p.key ELSE o.key > p.key}

\* Orders that trade lose quantity or leave, and nothing else changes.
Match ==
  \A tree \in Tree : \A o \in orders[tree]' : \E p \in orders[tree] :
    /\ o.key = p.key /\ o.expiry = p.expiry
    /\ o.qty \in {p.qty, p.qty - 1}

Next ==
  /\ \/ Match
     \/ \E o \in Orders : Insert(o)
     \/ \E tree \in Tree : \E o \in orders[tree] : Remove(tree, o)
     \/ \E tree \in Tree, time \in Times : RemoveExpired(tree, time)
     \/ \E tree \in Tree : \E o \in Worst(tree) : Remove(tree, o)
  /\ UNCHANGED order_tree_type

Spec == Init /\ [][Next]_<<order_tree_type, orders>>
=============================================================================

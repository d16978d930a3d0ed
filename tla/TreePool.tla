------------------------------- MODULE TreePool -------------------------------
(***************************************************************************)
(* The pool of nodes of one side of the book, OrderTreeNodes, as far as    *)
(* the number of its nodes matters: two trees share it, and BookSide and   *)
(* OrderTree must agree on when it is full.                                *)
(***************************************************************************)
EXTENDS Integers

CONSTANT MaxNodes \* MAX_ORDERTREE_NODES (1024 in the code)

ASSUME TreePoolAssumption == MaxNodes \in Nat \ {0}

Tree == {"Fixed", "OraclePegged"}
OtherTree(tree) == CHOOSE t \in Tree : t # tree

\* A tree with n leaves has n - 1 inner nodes.
TreeNodes(n) == IF n = 0 THEN 0 ELSE 2 * n - 1

\* OrderTreeNodes::is_full: freed nodes are reused before the bump index moves.
PoolIsFull(used, bump) == bump - used <= 1 /\ bump >= MaxNodes - 1
=============================================================================

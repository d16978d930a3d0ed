------------------------------ MODULE MCOrderTree ------------------------------
(***************************************************************************)
(* Inputs for the run of OrderTree.                                        *)
(***************************************************************************)
EXTENDS OrderTree

Put(tree, key, expiry, qty) == [tree |-> tree, key |-> key, expiry |-> expiry, qty |-> qty]
\* Keys 0, 1, 3 and 6 of three bits make a tree three levels deep; the order that
\* expires first is at its bottom, and two others expire together.
TreeOrders ==
  {Put("Fixed", 0, 1, 1), Put("Fixed", 1, 9, 2), Put("Fixed", 3, 2, 1), Put("Fixed", 6, 2, 1),
   Put("OraclePegged", 5, 2, 1)}
================================================================================

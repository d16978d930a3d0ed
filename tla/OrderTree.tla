------------------------------- MODULE OrderTree -------------------------------
(***************************************************************************)
(* state/orderbook/ordertree.rs, ordertree_iterator.rs and nodes.rs: the   *)
(* crit-bit trees in which one side of the book keeps its orders.  The two *)
(* trees, of fixed and of pegged orders, take their nodes from one pool.   *)
(* Operators take and return the pool p, a record of the fields of         *)
(* OrderTreeNodes.  A key is an integer of KeyBits bits; a leaf keeps of   *)
(* its order the key, the time it expires and its quantity.                *)
(***************************************************************************)
EXTENDS TreePool, SequencesExt

CONSTANTS KeyBits, \* 128 in the code
          Orders,  \* what insert_leaf is called with: [tree, key, expiry, qty]
          Times    \* the times remove_one_expired is called at

ASSUME OrderTreeAssumption ==
  /\ KeyBits \in Nat \ {0}
  /\ \A o \in Orders : o.tree \in Tree /\ o.key \in 0..(2^KeyBits - 1)

VARIABLES
  pool, \* [order_tree_type, nodes, bump_index, free_list_len, free_list_head]
  roots, \* for each tree, its OrderTreeRoot: [maybe_node, leaf_count]
  inserted \* the orders that were inserted so far

vars == <<pool, roots, inserted>>

NodeHandle == 0..(MaxNodes - 1)
EmptyRoot == [maybe_node |-> 0, leaf_count |-> 0]

Init ==
  /\ pool \in [order_tree_type : {"Bids", "Asks"},
               nodes : {[h \in NodeHandle |-> [tag |-> "Uninitialized"]]},
               bump_index : {0}, free_list_len : {0}, free_list_head : {0}]
  /\ roots = [tree \in Tree |-> EmptyRoot]
  /\ inserted = {}

-----------------------------------------------------------------------------
(* Keys and nodes.                                                         *)

\* The highest bits that two keys share, and the bit after a prefix.
SharedPrefixLen(k, l) ==
  CHOOSE n \in 0..KeyBits :
    /\ k \div 2^(KeyBits - n) = l \div 2^(KeyBits - n)
    /\ n < KeyBits => k \div 2^(KeyBits - n - 1) # l \div 2^(KeyBits - n - 1)
CritBit(key, prefix_len) == (key \div 2^(KeyBits - 1 - prefix_len)) % 2

LeafNode(o) == [tag |-> "LeafNode", key |-> o.key, expiry |-> o.expiry, qty |-> o.qty]
IsInner(n) == n.tag = "InnerNode"
IsLeaf(n) == n.tag = "LeafNode"

EarliestExpiry(n) ==
  IF IsLeaf(n) THEN n.expiry
  ELSE IF n.child_earliest_expiry[0] < n.child_earliest_expiry[1]
       THEN n.child_earliest_expiry[0] ELSE n.child_earliest_expiry[1]

\* The handles from start down to a leaf, or to the first inner node that the
\* walk does not enter; Turn says which child it takes.
Walk(p, start, Enters(_), Turn(_)) ==
  LET Step(path) == LET n == p.nodes[Last(path)]
                    IN  IF IsInner(n) /\ Enters(n) THEN Append(path, n.children[Turn(n)]) ELSE path
      walk[d \in 0..KeyBits] == IF d = 0 THEN <<start>> ELSE Step(walk[d - 1])
  IN  walk[KeyBits]
Always(n) == TRUE
WalkDown(p, start, key) == Walk(p, start, Always, LAMBDA n : CritBit(key, n.prefix_len))

-----------------------------------------------------------------------------
(* The pool: insert and remove of single nodes.                            *)

RemoveNodeLast(p, h) == \* mutant: every freed node is marked as the last
  [p EXCEPT !.nodes[h] = [tag |-> "LastFreeNode", next |-> p.free_list_head],
            !.free_list_len = @ + 1, !.free_list_head = h]
RemoveNode(p, h) ==
  [p EXCEPT !.nodes[h] = [tag |-> IF p.free_list_len = 0 THEN "LastFreeNode" ELSE "FreeNode",
                          next |-> p.free_list_head],
            !.free_list_len = @ + 1, !.free_list_head = h]

InsertNodeKeepsHead(p, n) == \* mutant: the free list keeps its head
  IF p.free_list_len > 0
  THEN [ok |-> TRUE, handle |-> p.free_list_head,
        pool |-> [p EXCEPT !.nodes[p.free_list_head] = n, !.free_list_len = @ - 1]]
  ELSE [ok |-> p.bump_index < MaxNodes, handle |-> p.bump_index,
        pool |-> [p EXCEPT !.nodes[p.bump_index] = n, !.bump_index = @ + 1]]
InsertNodePastEnd(p, n) == \* mutant: always takes a new node, even past the end
  [ok |-> p.bump_index < MaxNodes, handle |-> p.bump_index,
   pool |-> [p EXCEPT !.nodes[p.bump_index] = n, !.bump_index = @ + 1]]
InsertNode(p, n) ==
  IF p.free_list_len > 0
  THEN [ok |-> TRUE, handle |-> p.free_list_head,
        pool |-> [p EXCEPT !.nodes[p.free_list_head] = n, !.free_list_len = @ - 1,
                           !.free_list_head = p.nodes[@].next]]
  ELSE IF p.bump_index < MaxNodes
  THEN [ok |-> TRUE, handle |-> p.bump_index,
        pool |-> [p EXCEPT !.nodes[p.bump_index] = n, !.bump_index = @ + 1]]
  ELSE [ok |-> FALSE, handle |-> 0, pool |-> p]

IsFullAtLast(p) == p.free_list_len = 0 /\ p.bump_index >= MaxNodes - 1 \* mutant: one node is room
IsFull(p) == p.free_list_len <= 1 /\ p.bump_index >= MaxNodes - 1

UpdateParent(p, stack, key, outdated, expiry) == \* mutant: only the nearest inner node
  IF stack = <<>> THEN p
  ELSE [p EXCEPT !.nodes[Last(stack)].child_earliest_expiry[
          CritBit(key, p.nodes[Last(stack)].prefix_len)] =
            IF @ = outdated THEN expiry ELSE @]
\* update_parent_earliest_expiry: up the stack of inner nodes that lead to key,
\* for as long as an inner node's copy is the one that is outdated.
UpdateParents(p, stack, key, outdated, expiry) ==
  LET Up(h, u) ==
        LET n == u.pool.nodes[h]
            bit == CritBit(key, n.prefix_len)
            new == [n EXCEPT !.child_earliest_expiry[bit] = u.expiry]
        IN  IF u.stopped \/ n.child_earliest_expiry[bit] # u.outdated
            THEN [u EXCEPT !.stopped = TRUE]
            ELSE [u EXCEPT !.pool.nodes[h] = new,
                           !.outdated = EarliestExpiry(n), !.expiry = EarliestExpiry(new)]
  IN  FoldRight(Up, stack, [pool |-> p, outdated |-> outdated, expiry |-> expiry,
                            stopped |-> FALSE]).pool

-----------------------------------------------------------------------------
(* insert_leaf returns whether it succeeded, the pool and the root.        *)

\* The node at parent_h moves, and an inner node over it and the leaf takes its
\* place.  If there is room for only one node, the leaf is removed again.
SplitAt(p, root, leaf, stack, parent_h) ==
  LET parent == p.nodes[parent_h]
      added == InsertNode(p, leaf)
      moved == InsertNode(added.pool, parent)
      prefix_len == SharedPrefixLen(parent.key, leaf.key)
      Pair(ofLeaf, ofParent) ==
        [bit \in 0..1 |-> IF bit = CritBit(leaf.key, prefix_len) THEN ofLeaf ELSE ofParent]
      inner == [tag |-> "InnerNode", prefix_len |-> prefix_len, key |-> leaf.key,
                children |-> Pair(added.handle, moved.handle),
                child_earliest_expiry |-> Pair(leaf.expiry, EarliestExpiry(parent))]
      placed == [moved.pool EXCEPT !.nodes[parent_h] = inner]
  IN  IF ~added.ok THEN [ok |-> FALSE, pool |-> p, root |-> root]
      ELSE IF ~moved.ok
      THEN [ok |-> FALSE, pool |-> RemoveNode(added.pool, added.handle), root |-> root]
      ELSE [ok |-> TRUE, root |-> [root EXCEPT !.leaf_count = @ + 1],
            pool |-> IF leaf.expiry < EarliestExpiry(parent)
                     THEN UpdateParents(placed, stack, leaf.key, EarliestExpiry(parent), leaf.expiry)
                     ELSE placed]

KeepsAnyParent(n, key) == TRUE \* mutant: whatever prefix the inner node stands for
KeepsLongerParent(n, key) == SharedPrefixLen(n.key, key) > n.prefix_len \* mutant: off by one
\* Whether the leaf belongs below the inner node n.
KeepsOldParent(n, key) == SharedPrefixLen(n.key, key) >= n.prefix_len
InsertLeaf(p, root, leaf) ==
  LET first == InsertNode(p, leaf)
      path == Walk(p, root.maybe_node,
                   LAMBDA n : KeepsOldParent(n, leaf.key),
                   LAMBDA n : CritBit(leaf.key, n.prefix_len))
      n == p.nodes[Last(path)]
      clobbered == [p EXCEPT !.nodes[Last(path)] = leaf]
  IN  IF root.leaf_count = 0
      THEN [ok |-> first.ok, pool |-> first.pool,
            root |-> IF first.ok THEN [maybe_node |-> first.handle, leaf_count |-> 1] ELSE root]
      ELSE IF IsLeaf(n) /\ n.key = leaf.key
      THEN [ok |-> TRUE, root |-> root,
            pool |-> UpdateParents(clobbered, Front(path), leaf.key, n.expiry, leaf.expiry)]
      ELSE SplitAt(p, root, leaf, Front(path), Last(path))

-----------------------------------------------------------------------------
(* remove_by_key returns the set of the removed leaf, empty for None, the  *)
(* pool and the root.  The leaf's sibling takes the place of their parent. *)
RemoveByKey(p, root, key) ==
  LET path == WalkDown(p, root.maybe_node, key)
      child_h == Last(path)
      leaf == p.nodes[child_h]
      parent_h == Last(Front(path))
      parent == p.nodes[parent_h]
      other_h == parent.children[1 - CritBit(key, parent.prefix_len)]
      other == p.nodes[other_h]
      replaced == [RemoveNode(p, other_h) EXCEPT !.nodes[parent_h] = other]
  IN  IF root.leaf_count = 0 \/ leaf.key # key
      THEN [removed |-> {}, pool |-> p, root |-> root]
      ELSE IF Len(path) = 1
      THEN [removed |-> {leaf}, pool |-> RemoveNode(p, child_h), root |-> EmptyRoot]
      ELSE [removed |-> {leaf}, root |-> [root EXCEPT !.leaf_count = @ - 1],
            pool |-> UpdateParents(RemoveNode(replaced, child_h), Front(Front(path)), key,
                                   leaf.expiry, EarliestExpiry(other))]
NotFound(p, root) == [removed |-> {}, pool |-> p, root |-> root]

FindLatestExpiry(p, root) == \* mutant: the comparison is the wrong way round
  p.nodes[Last(Walk(p, root.maybe_node, Always,
    LAMBDA n : IF n.child_earliest_expiry[0] < n.child_earliest_expiry[1] THEN 1 ELSE 0))]
FindEarliestExpiry(p, root) ==
  p.nodes[Last(Walk(p, root.maybe_node, Always,
    LAMBDA n : IF n.child_earliest_expiry[0] > n.child_earliest_expiry[1] THEN 1 ELSE 0))]
RemoveOneExpired(p, root, time) ==
  IF root.leaf_count = 0 \/ EarliestExpiry(FindEarliestExpiry(p, root)) >= time
  THEN NotFound(p, root)
  ELSE RemoveByKey(p, root, FindEarliestExpiry(p, root).key)

LeafMinMax(p, root, bit) == p.nodes[Last(Walk(p, root.maybe_node, Always, LAMBDA n : bit))]
FindWorst(p, root) == LeafMinMax(p, root, IF p.order_tree_type = "Bids" THEN 0 ELSE 1)
RemoveWorst(p, root) ==
  IF root.leaf_count = 0 THEN NotFound(p, root) ELSE RemoveByKey(p, root, FindWorst(p, root).key)

-----------------------------------------------------------------------------
(* OrderTreeIter: the handles of the leaves, best order first.             *)
LeftOf(p) == IF p.order_tree_type = "Bids" THEN 1 ELSE 0
Iter(p, root) ==
  LET \* find_leftmost_leaf
      Enter(it, start) ==
        LET path == Walk(p, start, Always, LAMBDA n : LeftOf(p))
        IN  [leaves |-> Append(it.leaves, Last(path)), stack |-> it.stack \o Front(path)]
      Next(it) ==
        IF it.stack = <<>> THEN it
        ELSE Enter([it EXCEPT !.stack = Front(@)], p.nodes[Last(it.stack)].children[1 - LeftOf(p)])
      walk[i \in 0..MaxNodes] ==
        IF i = 0 THEN Enter([leaves |-> <<>>, stack |-> <<>>], root.maybe_node) ELSE Next(walk[i - 1])
  IN  IF root.leaf_count = 0 THEN <<>> ELSE walk[MaxNodes].leaves

-----------------------------------------------------------------------------
(* BookSide's operations on its two trees.                                 *)

Becomes(tree, r) == pool' = r.pool /\ roots' = [roots EXCEPT ![tree] = r.root]

\* An order is inserted once: its key ends in its sequence number.
Insert(o) ==
  /\ o \notin inserted
  /\ inserted' = inserted \cup {o}
  /\ Becomes(o.tree, InsertLeaf(pool, roots[o.tree], LeafNode(o)))

RemoveKey(tree, key) ==
  LET r == RemoveByKey(pool, roots[tree], key)
  IN  r.removed # {} /\ Becomes(tree, r)

\* The tree of the order that is about to be posted first, then the other.
RemoveExpired(tree, time) ==
  LET r == RemoveOneExpired(pool, roots[tree], time)
      other == OtherTree(tree)
      s == RemoveOneExpired(pool, roots[other], time)
  IN  IF r.removed # {} THEN Becomes(tree, r) ELSE s.removed # {} /\ Becomes(other, s)

RemoveWorstOf(tree) ==
  LET r == RemoveWorst(pool, roots[tree])
  IN  r.removed # {} /\ Becomes(tree, r)

\* What new_order does to the opposing side once it has matched: the orders
\* that traded in part get their new quantities through the handles that the
\* iteration gave; then those that traded in full leave by their keys.
LeavesAt(tree) ==
  {[tree |-> tree, at |-> i, handle |-> Iter(pool, roots[tree])[i]] :
     i \in DOMAIN Iter(pool, roots[tree])}
Reduce(p, handles) ==
  [p EXCEPT !.nodes = [h \in NodeHandle |-> IF h \in handles THEN [@[h] EXCEPT !.qty = @ - 1]
                                            ELSE @[h]]]
RemoveAll(p, rs, keys) ==
  FoldLeft(LAMBDA s, k : LET r == RemoveByKey(s.pool, s.roots[k.tree], k.key)
                         IN  [pool |-> r.pool, roots |-> [s.roots EXCEPT ![k.tree] = r.root]],
           [pool |-> p, roots |-> rs], keys)
BestFirst(seq) ==
  \A i, j \in DOMAIN seq : i < j /\ seq[i].tree = seq[j].tree => seq[i].at < seq[j].at
Matches ==
  LET all == UNION {LeavesAt(tree) : tree \in Tree}
      reducible == {l \in all : pool.nodes[l.handle].qty > 1}
      orders(gone) == {seq \in SetToSeqs(gone) : BestFirst(seq)}
  IN  UNION {[changed : {changed}, gone : UNION {orders(gone) : gone \in SUBSET (all \ changed)}] :
               changed \in SUBSET reducible}

HandleOf(l) == l.handle
KeyOf(l) == [tree |-> l.tree, key |-> pool.nodes[l.handle].key]
AfterMatchDeletesFirst(m) == \* mutant: the handles are used when they are stale
  LET s == RemoveAll(pool, roots, [i \in DOMAIN m.gone |-> KeyOf(m.gone[i])])
  IN  [s EXCEPT !.pool = Reduce(@, {HandleOf(l) : l \in m.changed})]
AfterMatch(m) ==
  RemoveAll(Reduce(pool, {HandleOf(l) : l \in m.changed}), roots,
            [i \in DOMAIN m.gone |-> KeyOf(m.gone[i])])
Match(m) ==
  /\ m.changed # {} \/ m.gone # <<>>
  /\ \E s \in {AfterMatch(m)} : pool' = s.pool /\ roots' = s.roots

Shrink ==
  \/ \E tree \in Tree, o \in Orders : RemoveKey(tree, o.key)
  \/ \E tree \in Tree, time \in Times : RemoveExpired(tree, time)
  \/ \E tree \in Tree : RemoveWorstOf(tree)
  \/ \E m \in Matches : Match(m)

Next ==
  \/ \E o \in Orders : Insert(o)
  \/ Shrink /\ UNCHANGED inserted

Spec == Init /\ [][Next]_vars

-----------------------------------------------------------------------------
(* Properties.                                                             *)

Handles(p, root) ==
  LET below[d \in 0..KeyBits] ==
        IF d = 0 THEN {root.maybe_node}
        ELSE UNION {{p.nodes[h].children[b] : b \in 0..1} :
                      h \in {h \in below[d - 1] : IsInner(p.nodes[h])}}
  IN  IF root.leaf_count = 0 THEN {} ELSE UNION {below[d] : d \in 0..KeyBits}
HandlesOf(tree) == Handles(pool, roots[tree])
LeavesOf(tree) == {h \in HandlesOf(tree) : IsLeaf(pool.nodes[h])}
OrderOf(leaf) == [key |-> leaf.key, expiry |-> leaf.expiry, qty |-> leaf.qty]
OrdersIn(p, root) == {OrderOf(p.nodes[h]) : h \in {h \in Handles(p, root) : IsLeaf(p.nodes[h])}}
OrdersOf(tree) == OrdersIn(pool, roots[tree])
FreeList ==
  LET list[i \in 0..pool.free_list_len] ==
        IF i = 0 THEN <<>>
        ELSE Append(list[i - 1], IF i = 1 THEN pool.free_list_head
                                 ELSE pool.nodes[list[i - 1][i - 1]].next)
  IN  list[pool.free_list_len]

TypeOK ==
  /\ pool.bump_index \in 0..MaxNodes /\ pool.free_list_len \in 0..pool.bump_index
  /\ pool.free_list_head \in NodeHandle
  /\ \A h \in NodeHandle :
       LET n == pool.nodes[h]
       IN  CASE n.tag = "LeafNode" -> n.qty > 0
             [] n.tag = "InnerNode" -> n.prefix_len \in 0..(KeyBits - 1)
             [] n.tag \in {"FreeNode", "LastFreeNode"} -> n.next \in NodeHandle
             [] n.tag = "Uninitialized" -> h >= pool.bump_index
  /\ roots \in [Tree -> [maybe_node : NodeHandle, leaf_count : 0..MaxNodes]]

(* Every node below the bump index belongs to one tree or to the free list *)
(* and to nothing else, and only the end of the list is marked as its end. *)
NodesShared ==
  /\ HandlesOf("Fixed") \cap HandlesOf("OraclePegged") = {}
  /\ ToSet(FreeList) = (0..(pool.bump_index - 1)) \ UNION {HandlesOf(tree) : tree \in Tree}
  /\ Cardinality(ToSet(FreeList)) = pool.free_list_len
  /\ \A i \in DOMAIN FreeList :
       pool.nodes[FreeList[i]].tag = IF i = pool.free_list_len THEN "LastFreeNode" ELSE "FreeNode"

(* A key leads to its leaf, whatever insertions and removals gave the tree *)
(* its shape, and the root counts the leaves.                              *)
EveryLeafFound ==
  \A tree \in Tree :
    /\ Cardinality(LeavesOf(tree)) = roots[tree].leaf_count
    /\ \A h \in LeavesOf(tree) :
         Last(WalkDown(pool, roots[tree].maybe_node, pool.nodes[h].key)) = h

(* An inner node's copies of its children's earliest expiry are up to      *)
(* date, although an insertion or a removal stops updating them where it   *)
(* thinks nothing changes.                                                 *)
ExpiriesCached ==
  \A tree \in Tree : \A h \in HandlesOf(tree) :
    LET n == pool.nodes[h]
    IN  IsInner(n) => \A b \in 0..1 :
          n.child_earliest_expiry[b] = EarliestExpiry(pool.nodes[n.children[b]])

(* The iteration shows every order once, bids from the highest key down    *)
(* and asks from the lowest up.                                            *)
IterationSorted ==
  \A tree \in Tree :
    LET it == Iter(pool, roots[tree])
        key == [i \in DOMAIN it |-> pool.nodes[it[i]].key]
    IN  /\ ToSet(it) = LeavesOf(tree)
        /\ \A i, j \in DOMAIN it :
             i < j => IF pool.order_tree_type = "Bids" THEN key[i] > key[j] ELSE key[i] < key[j]

Sets == INSTANCE OrderSet WITH order_tree_type <- pool.order_tree_type,
                               orders <- [tree \in Tree |-> OrdersOf(tree)]

(* What the trees give up is the order that BookSide says: the one that    *)
(* expired first, the worst, or the one that has the key, if there is one. *)
GivesUpTheRightOne ==
  \A tree \in Tree :
    /\ \A time \in Times :
         {OrderOf(l) : l \in RemoveOneExpired(pool, roots[tree], time).removed}
           = Sets!ExpiredFirst(tree, time)
    /\ {OrderOf(l) : l \in RemoveWorst(pool, roots[tree]).removed} = Sets!Worst(tree)
    /\ \A o \in Orders :
         {OrderOf(l) : l \in RemoveByKey(pool, roots[tree], o.key).removed}
           = {p \in OrdersOf(tree) : p.key = o.key}

(* A side is full when BookSide says it is, by the number of its orders;   *)
(* an insertion into a side that is not full never fails, and one that     *)
(* does fail lacks a node.                                                 *)
InsertFits ==
  /\ IsFull(pool) <=> PoolIsFull(TreeNodes(roots["Fixed"].leaf_count)
                                  + TreeNodes(roots["OraclePegged"].leaf_count), pool.bump_index)
  /\ \A o \in Orders \ inserted :
       LET ok == InsertLeaf(pool, roots[o.tree], LeafNode(o)).ok
       IN  (ok <=> Sets!Room(o.tree)) /\ (IsFull(pool) \/ ok)

(* A match changes the orders that traded and no other, although removing  *)
(* one of them moves the nodes of others.                                  *)
MatchHitsItsOrders ==
  \A m \in Matches : \A s \in {AfterMatch(m)}, tree \in Tree :
    LET changed == {OrderOf(pool.nodes[l.handle]) : l \in {l \in m.changed : l.tree = tree}}
        gone == {OrderOf(pool.nodes[l.handle]) : l \in {l \in ToSet(m.gone) : l.tree = tree}}
    IN  OrdersIn(s.pool, s.roots[tree])
          = (OrdersOf(tree) \ (changed \cup gone)) \cup {[o EXCEPT !.qty = @ - 1] : o \in changed}

(* The trees implement the sets of orders that BookSide is built on.       *)
ImplementsOrderSet == Sets!Spec
=============================================================================

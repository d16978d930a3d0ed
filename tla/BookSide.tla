------------------------------- MODULE BookSide -------------------------------
(***************************************************************************)
(* state/orderbook/bookside.rs and bookside_iterator.rs: one side of the   *)
(* book is a fixed pool of tree nodes shared by two trees, one for orders  *)
(* at a fixed price and one for orders whose price is an offset from the   *)
(* oracle.  A tree is abstracted to the set of its leaves, which OrderTree *)
(* shows it implements: a leaf's key is its price data and its order       *)
(* number, data and seq, and the number of nodes the trees take follows    *)
(* from the number of leaves.                                              *)
(***************************************************************************)
EXTENDS MarketFees, TreePool, Sequences, FiniteSets

CONSTANTS NoOracle, \* no oracle account, or none that can be used now
          NoPeg     \* peg_limit = -1

ASSUME PegAssumption == NoPeg \notin Nat

OfSide(leaves, side) == {l \in leaves : l.side = side}
OfTree(leaves, side, tree) == {l \in leaves : l.side = side /\ l.tree = tree}

\* The order of the trees' keys as a taker walks them: best price first, then
\* the order placed first.
Ahead(side, price1, seq1, price2, seq2) ==
  IsPriceBetter(side, price1, price2) \/ (price1 = price2 /\ seq1 < seq2)
KeyAheadNewest(l, m) == \* mutant: the sequence number is not inverted in the keys of bids
  Ahead(l.side, l.data, IF l.side = "Bid" THEN -l.seq ELSE l.seq,
        m.data, IF l.side = "Bid" THEN -m.seq ELSE m.seq)
KeyAhead(l, m) == Ahead(l.side, l.data, l.seq, m.data, m.seq)

InKeyOrder(S) ==
  CHOOSE s \in [1..Cardinality(S) -> S] :
    \A i, j \in 1..Cardinality(S) : i < j => KeyAhead(s[i], s[j])
Sorted(leaves, side, tree) == InKeyOrder(OfTree(leaves, side, tree))

-----------------------------------------------------------------------------
(* The pool of nodes.                                                      *)

NodesUsed(leaves, side) ==
  TreeNodes(Cardinality(OfTree(leaves, side, "Fixed")))
    + TreeNodes(Cardinality(OfTree(leaves, side, "OraclePegged")))

IsFull(leaves, side, bump) == PoolIsFull(NodesUsed(leaves, side), bump)

-----------------------------------------------------------------------------
(* Expiry and the oracle decide whether a leaf may match now.              *)

Expired(l, now) == l.tif > 0 /\ now >= l.ts + l.tif

\* The price of a leaf now, and whether it is Valid, Invalid or Skipped.
PeggedPrice(oracle, l) == IF oracle + l.data > MaxI64 THEN MaxI64 ELSE oracle + l.data
IsSkipped(oracle, l) == PeggedPrice(oracle, l) \notin 1..(MaxI64 - 1)
PriceNow(oracle, l) ==
  IF l.tree = "Fixed" THEN l.data
  ELSE IF PeggedPrice(oracle, l) < 1 THEN 1 ELSE PeggedPrice(oracle, l)
BeyondPegLimit(oracle, l) ==
  l.peg_limit # NoPeg /\ IsPriceBetter(l.side, PeggedPrice(oracle, l), l.peg_limit)
IsValidNow(l, now, oracle) ==
  /\ ~Expired(l, now)
  /\ l.tree = "OraclePegged" => /\ oracle # NoOracle
                                /\ ~IsSkipped(oracle, l)
                                /\ ~BeyondPegLimit(oracle, l)

\* rank_orders: the fixed order f or the pegged order p, whichever matches first.
FixedAhead(f, p, oracle) ==
  Ahead(f.side, f.data, f.seq, PriceNow(oracle, p), p.seq)

-----------------------------------------------------------------------------
(* BookSideIter.  The walk holds a cursor into each tree's sorted leaves.  *)
(* To look past pegged orders that have no price now it calls next(),      *)
(* which also steps over the order it returns.                             *)

PeekPegged(pegged, oracle, cursor) ==
  LET shown == {k \in cursor..Len(pegged) : ~IsSkipped(oracle, pegged[k])}
      k == CHOOSE k \in shown : \A j \in shown : k <= j
  IN  IF shown = {} THEN [order |-> 0, cursor |-> Len(pegged) + 1]
      ELSE [order |-> k, cursor |-> IF k = cursor THEN k ELSE k + 1]

ItemWithoutExpiry(l, now, oracle) == \* mutant: does not ask whether the order expired
  [leaf |-> l, price |-> PriceNow(oracle, l), valid |-> TRUE]
ItemWithoutPegLimit(l, now, oracle) == \* mutant: the peg limit is not looked at
  [leaf |-> l, price |-> PriceNow(oracle, l), valid |-> ~Expired(l, now)]
Item(l, now, oracle) ==
  [leaf |-> l, price |-> PriceNow(oracle, l), valid |-> IsValidNow(l, now, oracle)]

\* w: the items so far and the two cursors.
IterNext(w, fixed, pegged, now, oracle) ==
  LET peek == PeekPegged(pegged, oracle, w.pegged)
      noFixed == w.fixed > Len(fixed)
  IN  IF noFixed /\ peek.order = 0 THEN w
      ELSE IF peek.order = 0 \/ (~noFixed /\ FixedAhead(fixed[w.fixed], pegged[peek.order], oracle))
      THEN [items |-> Append(w.items, Item(fixed[w.fixed], now, oracle)),
            fixed |-> w.fixed + 1, pegged |-> peek.cursor]
      ELSE [items |-> Append(w.items, Item(pegged[peek.order], now, oracle)),
            fixed |-> w.fixed, pegged |-> peek.cursor + 1]
Iter(leaves, side, now, oracle) ==
  LET fixed == Sorted(leaves, side, "Fixed")
      pegged == IF oracle = NoOracle THEN <<>> ELSE Sorted(leaves, side, "OraclePegged")
      walk[i \in 0..(Len(fixed) + Len(pegged))] ==
        IF i = 0 THEN [items |-> <<>>, fixed |-> 1, pegged |-> 1]
        ELSE IterNext(walk[i - 1], fixed, pegged, now, oracle)
  IN  walk[Len(fixed) + Len(pegged)].items

\* The price of the first item that is valid, in a set that is empty if none is.
BestPrice(leaves, side, now, oracle) ==
  LET items == Iter(leaves, side, now, oracle)
      valid == {i \in DOMAIN items : items[i].valid}
  IN  {items[i].price : i \in {j \in valid : \A k \in valid : j <= k}}

-----------------------------------------------------------------------------
(* Which leaf a full side gives up.                                        *)

\* The leaf of a tree that expires first, the one with the lowest key among
\* those that expire together, provided it expired before now.
ExpiresAt(l) == IF l.tif = 0 THEN MaxI64 ELSE l.ts + l.tif
LowerKey(l, m) == IF l.side = "Ask" THEN KeyAhead(l, m) ELSE KeyAhead(m, l)
EarliestExpiry(S) ==
  CHOOSE l \in S : \A m \in S \ {l} : \/ ExpiresAt(l) < ExpiresAt(m)
                                      \/ ExpiresAt(l) = ExpiresAt(m) /\ LowerKey(l, m)
ExpiredIn(S, now) ==
  IF S # {} /\ ExpiresAt(EarliestExpiry(S)) < now THEN {EarliestExpiry(S)} ELSE {}
OneExpired(leaves, side, tree, now) ==
  LET own == ExpiredIn(OfTree(leaves, side, tree), now)
  IN  IF own # {} THEN own ELSE ExpiredIn(OfTree(leaves, side, OtherTree(tree)), now)

\* remove_worst: the last order of one tree or the other; pegged orders do not
\* count while there is no oracle.
LastOf(S) == CHOOSE l \in S : \A m \in S \ {l} : KeyAhead(m, l)
WorstOrder(leaves, side, oracle) ==
  LET fixed == OfTree(leaves, side, "Fixed")
      pegged == IF oracle = NoOracle THEN {} ELSE OfTree(leaves, side, "OraclePegged")
  IN  IF fixed = {} /\ pegged = {} THEN {}
      ELSE IF pegged = {} \/ (fixed # {} /\ ~FixedAhead(LastOf(fixed), LastOf(pegged), oracle))
      THEN {LastOf(fixed)} ELSE {LastOf(pegged)}
=============================================================================

------------------------------ MODULE HeldProofs ------------------------------
(***************************************************************************)
(* What an account holds for its orders on the book: a slot for each, and  *)
(* the maker fees and the lots of its bids.                                *)
(***************************************************************************)
EXTENDS FermiProofs

-----------------------------------------------------------------------------
(* What the bids of an account need of its maker fees and of its lots: the *)
(* two are counted alike.                                                  *)

Kinds == {"fees", "lots"}
Weight(kind, qty, price) == IF kind = "fees" THEN LockedFee(qty, price) ELSE qty
Reserve(kind, a) == IF kind = "fees" THEN a.locked_maker_fees ELSE a.bids_base_lots

SlotOf(accounts, l) == accounts[l.owner].open_orders[l.owner_slot]
WeightOf(kind, accounts, l) == Weight(kind, l.qty, SlotOf(accounts, l).locked_price)
Bids(S, u) == {l \in S : l.owner = u /\ l.side = "Bid"}
Due(kind, S, accounts, u) ==
  SumFunctionOnSet([l \in Bids(S, u) |-> WeightOf(kind, accounts, l)], Bids(S, u))

LEMMA WeightNat ==
  ASSUME NEW kind \in Kinds, NEW qty \in Nat, NEW price \in Nat
  PROVE  Weight(kind, qty, price) \in Nat
BY LockedNat, MarketAssumption DEF Weight

LEMMA WeightMonotonic ==
  ASSUME NEW kind \in Kinds, NEW q \in Nat, NEW r \in Nat, q <= r, NEW price \in Nat
  PROVE  Weight(kind, q, price) <= Weight(kind, r, price)
BY LockedFeeMonotonic, MarketAssumption DEF Weight

LEMMA SlotOfIs ==
  ASSUME NEW accounts \in [Users -> AccountType], NEW l \in Leaves
  PROVE  /\ SlotOf(accounts, l).locked_price \in Nat
         /\ l.owner \in Users /\ l.owner_slot \in OrderSlot /\ l.qty \in Nat \ {0}
<1>1. l.owner \in Users /\ l.owner_slot \in OrderSlot /\ l.qty \in Nat \ {0}
  BY DEF Leaves, LeafType
<1>2. accounts[l.owner].open_orders
        \in [OrderSlot -> [is_free : BOOLEAN, id : 0..MaxOrders, side : Side,
                           tree : Tree, locked_price : Nat]]
  BY <1>1 DEF AccountType
<1> QED
  BY <1>1, <1>2 DEF SlotOf

LEMMA WeightOfNat ==
  ASSUME NEW kind \in Kinds, NEW accounts \in [Users -> AccountType], NEW l \in Leaves
  PROVE  WeightOf(kind, accounts, l) \in Nat
BY SlotOfIs, WeightNat DEF WeightOf

\* The weights that a sum over bids adds up.
Weights(kind, S, accounts) == [l \in S |-> WeightOf(kind, accounts, l)]
LEMMA DueIs ==
  ASSUME NEW kind \in Kinds, NEW S \in SUBSET Leaves, IsFiniteSet(S),
         NEW accounts \in [Users -> AccountType], NEW u
  PROVE  /\ Due(kind, S, accounts, u) = SumFunctionOnSet(Weights(kind, Leaves, accounts), Bids(S, u))
         /\ Due(kind, S, accounts, u) \in Nat
         /\ IsFiniteSet(Bids(S, u)) /\ Bids(S, u) \in SUBSET Leaves
         /\ \A l \in Leaves : Weights(kind, Leaves, accounts)[l] = WeightOf(kind, accounts, l)
         /\ \A l \in Leaves : Weights(kind, Leaves, accounts)[l] \in Nat
<1> DEFINE B == Bids(S, u)
           f == Weights(kind, B, accounts)
           g == Weights(kind, Leaves, accounts)
<1>1. B \in SUBSET Leaves /\ IsFiniteSet(B)
  BY FS_Subset DEF Bids
<1>2. \A l \in Leaves : g[l] = WeightOf(kind, accounts, l) /\ g[l] \in Nat
  BY WeightOfNat DEF Weights
<1>3. \A l \in B : f[l] = g[l] /\ f[l] \in Nat
  BY <1>1, <1>2 DEF Weights
<1>4. Due(kind, S, accounts, u) = SumFunctionOnSet(f, B)
  BY DEF Due, Weights
<1> HIDE DEF B, f, g
<1>5. SumFunctionOnSet(f, B) \in Nat
  BY <1>1, <1>3, SumNat
<1>6. \A l \in B : f[l] \in Int /\ f[l] = g[l]
  BY <1>3
<1>7. SumFunctionOnSet(f, B) = SumFunctionOnSet(g, B)
  BY <1>1, <1>6, SumAgrees
<1> QED
  BY <1>1, <1>2, <1>4, <1>5, <1>7 DEF B, g

\* Accounts that lock the same prices for the bids have the same due.
LEMMA DueAgrees ==
  ASSUME NEW kind \in Kinds, NEW S \in SUBSET Leaves, IsFiniteSet(S),
         NEW a \in [Users -> AccountType], NEW c \in [Users -> AccountType], NEW u,
         \A l \in Bids(S, u) : SlotOf(c, l) = SlotOf(a, l)
  PROVE  Due(kind, S, c, u) = Due(kind, S, a, u)
<1> DEFINE B == Bids(S, u)
           f == Weights(kind, Leaves, a)
           g == Weights(kind, Leaves, c)
<1>1. /\ Due(kind, S, a, u) = SumFunctionOnSet(f, B) /\ Due(kind, S, c, u) = SumFunctionOnSet(g, B)
      /\ IsFiniteSet(B)
      /\ \A l \in B : f[l] = WeightOf(kind, a, l) /\ g[l] = WeightOf(kind, c, l) /\ g[l] \in Nat
  BY DueIs
<1>2. \A l \in B : WeightOf(kind, a, l) = WeightOf(kind, c, l)
  BY DEF WeightOf
<1>3. \A l \in B : g[l] \in Int /\ g[l] = f[l]
  BY <1>1, <1>2
<1> HIDE DEF B, f, g
<1>4. SumFunctionOnSet(g, B) = SumFunctionOnSet(f, B)
  BY <1>1, <1>3, SumAgrees
<1> QED
  BY <1>1, <1>4

\* A leaf that comes adds its weight to what its owner's bids need.
Part(kind, accounts, l, u) ==
  IF l.owner = u /\ l.side = "Bid" THEN WeightOf(kind, accounts, l) ELSE 0
LEMMA DueWith ==
  ASSUME NEW kind \in Kinds, NEW S \in SUBSET Leaves, IsFiniteSet(S),
         NEW accounts \in [Users -> AccountType], NEW u, NEW l \in Leaves, l \notin S
  PROVE  /\ Due(kind, S \cup {l}, accounts, u) = Due(kind, S, accounts, u) + Part(kind, accounts, l, u)
         /\ Part(kind, accounts, l, u) \in Nat
<1> DEFINE B == Bids(S, u)
           f == Weights(kind, Leaves, accounts)
           T == S \cup {l}
<1>1. T \in SUBSET Leaves /\ IsFiniteSet(T)
  BY FS_AddElement
<1>2. /\ Due(kind, S, accounts, u) = SumFunctionOnSet(f, B) /\ Due(kind, S, accounts, u) \in Nat
      /\ IsFiniteSet(B) /\ B \in SUBSET Leaves
      /\ f[l] = WeightOf(kind, accounts, l) /\ \A x \in Leaves : f[x] \in Nat
  BY DueIs
<1> HIDE DEF f, T
<1>3. Due(kind, T, accounts, u) = SumFunctionOnSet(f, Bids(T, u))
  BY <1>1, DueIs DEF f
<1>4. CASE l.owner = u /\ l.side = "Bid"
  <2>1. Bids(T, u) = B \cup {l} /\ l \notin B
    BY <1>4 DEF Bids, T
  <2>2. f[l] \in Int /\ \A x \in B : f[x] \in Int
    BY <1>2
  <2> HIDE DEF B
  <2>3. SumFunctionOnSet(f, B \cup {l}) = SumFunctionOnSet(f, B) + f[l]
    BY <1>2, <2>1, <2>2, SumWith
  <2>4. Part(kind, accounts, l, u) = f[l] /\ f[l] \in Nat
    BY <1>2, <1>4 DEF Part
  <2> QED
    BY <1>2, <1>3, <2>1, <2>3, <2>4 DEF T
<1>5. CASE ~(l.owner = u /\ l.side = "Bid")
  <2>1. Bids(T, u) = B
    BY <1>5 DEF Bids, T
  <2>2. Part(kind, accounts, l, u) = 0
    BY <1>5 DEF Part
  <2> HIDE DEF B
  <2> QED
    BY <1>2, <1>3, <2>1, <2>2 DEF T
<1> QED
  BY <1>4, <1>5

\* A leaf that goes takes its weight along.
LEMMA DueWithout ==
  ASSUME NEW kind \in Kinds, NEW S \in SUBSET Leaves, IsFiniteSet(S),
         NEW accounts \in [Users -> AccountType], NEW u, NEW l \in S
  PROVE  /\ Due(kind, S, accounts, u)
              = Due(kind, S \ {l}, accounts, u) + Part(kind, accounts, l, u)
         /\ Part(kind, accounts, l, u) \in Nat
         /\ Due(kind, S \ {l}, accounts, u) \in Nat
<1> DEFINE T == S \ {l}
<1>1. T \in SUBSET Leaves /\ IsFiniteSet(T) /\ l \in Leaves /\ l \notin T /\ T \cup {l} = S
  BY FS_RemoveElement
<1> HIDE DEF T
<1>2. /\ Due(kind, T \cup {l}, accounts, u) = Due(kind, T, accounts, u) + Part(kind, accounts, l, u)
      /\ Part(kind, accounts, l, u) \in Nat
  BY <1>1, DueWith
<1>3. Due(kind, T, accounts, u) \in Nat
  BY <1>1, DueIs
<1> QED
  BY <1>1, <1>2, <1>3 DEF T

-----------------------------------------------------------------------------
(* Accounts that hold what a set of leaves needs, and some more: e says    *)
(* how much more of each kind.                                             *)

Accounts == [Users -> AccountType]
Extras == [Kinds -> [Users -> Int]]
Nothing == [kind \in Kinds |-> [u \in Users |-> 0]]

\* The price that a leaf of the bids is locked at.
LockOf(l) == IF l.tree = "Fixed" THEN l.data ELSE l.peg_limit
HeldIn(accounts, l) ==
  LET o == SlotOf(accounts, l)
  IN  /\ ~o.is_free /\ o.id = l.seq /\ o.side = l.side /\ o.tree = l.tree
      /\ l.side = "Bid" => o.locked_price >= 1 /\ o.locked_price = LockOf(l)
Covered(S, accounts, e) ==
  \A kind \in Kinds, u \in Users :
    Reserve(kind, accounts[u]) >= Due(kind, S, accounts, u) + e[kind][u]
Backed(S, accounts, e) ==
  /\ \A l \in S : HeldIn(accounts, l)
  /\ Covered(S, accounts, e)

LEMMA DueStays ==
  \A kind \in Kinds, a, c \in Accounts, T \in SUBSET Leaves :
    IsFiniteSet(T) /\ (\A k \in T : SlotOf(c, k) = SlotOf(a, k))
      => \A u : Due(kind, T, c, u) = Due(kind, T, a, u)
<1> SUFFICES ASSUME NEW kind \in Kinds, NEW a \in Accounts, NEW c \in Accounts,
                    NEW T \in SUBSET Leaves, IsFiniteSet(T),
                    \A k \in T : SlotOf(c, k) = SlotOf(a, k), NEW u
             PROVE  Due(kind, T, c, u) = Due(kind, T, a, u)
  OBVIOUS
<1> QED
  BY DueAgrees DEF Accounts, Bids

LEMMA ReserveInt ==
  ASSUME NEW kind \in Kinds, NEW a \in AccountType
  PROVE  Reserve(kind, a) \in Int
BY DEF Reserve, AccountType

\* A leaf that goes needs nothing.
LEMMA BackedWithout ==
  ASSUME NEW S \in SUBSET Leaves, IsFiniteSet(S), NEW accounts \in Accounts, NEW e \in Extras,
         Backed(S, accounts, e), NEW l \in S
  PROVE  Backed(S \ {l}, accounts, e)
<1>1. ASSUME NEW kind \in Kinds, NEW u \in Users
      PROVE  Reserve(kind, accounts[u]) >= Due(kind, S \ {l}, accounts, u) + e[kind][u]
  <2>1. /\ Due(kind, S, accounts, u)
              = Due(kind, S \ {l}, accounts, u) + Part(kind, accounts, l, u)
        /\ Part(kind, accounts, l, u) \in Nat
        /\ Due(kind, S \ {l}, accounts, u) \in Nat
    BY DueWithout DEF Accounts
  <2>2. Reserve(kind, accounts[u]) >= Due(kind, S, accounts, u) + e[kind][u]
    BY DEF Backed, Covered
  <2>3. Reserve(kind, accounts[u]) \in Int /\ e[kind][u] \in Int
    BY ReserveInt DEF Accounts, Extras
  <2> QED
    BY <2>1, <2>2, <2>3
<1> QED
  BY <1>1 DEF Backed, Covered

\* Accounts that keep the slots that are taken, and that lose no more than is
\* taken off e.
LEMMA BackedBy ==
  ASSUME NEW S \in SUBSET Leaves, IsFiniteSet(S), NEW a \in Accounts, NEW c \in Accounts,
         NEW e \in Extras, NEW f \in Extras, Backed(S, a, e),
         \A u \in Users, s \in OrderSlot :
           ~a[u].open_orders[s].is_free => c[u].open_orders[s] = a[u].open_orders[s],
         \A kind \in Kinds, u \in Users :
           Reserve(kind, c[u]) - f[kind][u] >= Reserve(kind, a[u]) - e[kind][u]
  PROVE  Backed(S, c, f)
<1>1. \A l \in S : SlotOf(c, l) = SlotOf(a, l)
  <2> TAKE l \in S
  <2>1. l.owner \in Users /\ l.owner_slot \in OrderSlot
    BY SlotOfIs DEF Accounts
  <2>2. ~SlotOf(a, l).is_free
    BY DEF Backed, HeldIn
  <2> QED
    BY <2>1, <2>2 DEF SlotOf
<1>2. \A l \in S : HeldIn(c, l)
  BY <1>1 DEF Backed, HeldIn
<1>3. ASSUME NEW kind \in Kinds, NEW u \in Users
      PROVE  Reserve(kind, c[u]) >= Due(kind, S, c, u) + f[kind][u]
  <2>1. Due(kind, S, c, u) = Due(kind, S, a, u)
    BY <1>1, DueAgrees DEF Accounts, Bids
  <2>2. Due(kind, S, a, u) \in Nat
    BY DueIs DEF Accounts
  <2>3. Reserve(kind, a[u]) >= Due(kind, S, a, u) + e[kind][u]
    BY DEF Backed, Covered
  <2>4. /\ Reserve(kind, a[u]) \in Int /\ e[kind][u] \in Int
        /\ Reserve(kind, c[u]) \in Int /\ f[kind][u] \in Int
    BY ReserveInt DEF Accounts, Extras
  <2>5. Reserve(kind, c[u]) - f[kind][u] >= Reserve(kind, a[u]) - e[kind][u]
    OBVIOUS
  <2> QED
    BY <2>1, <2>2, <2>3, <2>4, <2>5
<1> QED
  BY <1>2, <1>3 DEF Backed, Covered

\* A cancellation frees the slot of the leaf that goes, and gives back no more
\* than was held for it.
LEMMA BackedCancel ==
  ASSUME NEW S \in SUBSET Leaves, IsFiniteSet(S), SeqsUnique(S), NEW a \in Accounts,
         NEW e \in Extras, Backed(S, a, e), NEW l \in S,
         CancelSlotFits(a[l.owner], l.owner_slot, l.qty),
         NEW c, c = [a EXCEPT ![l.owner] = CancelSlot(a[l.owner], l.owner_slot, l.qty)]
  PROVE  /\ c \in Accounts /\ Backed(S \ {l}, c, e)
         /\ \A u \in Users : c[u].open = a[u].open
<1> DEFINE v == l.owner
           o == SlotOf(a, l)
           d == CancelSlot(a[v], l.owner_slot, l.qty)
           T == S \ {l}
<1>1. l \in Leaves /\ v \in Users /\ l.owner_slot \in OrderSlot /\ l.qty \in Nat
  BY SlotOfIs DEF Accounts
<1>2. /\ d \in AccountType /\ d.open = a[v].open
      /\ d.open_orders = [a[v].open_orders EXCEPT ![l.owner_slot] = FreeOrder]
      /\ d.bids_base_lots = a[v].bids_base_lots - IF o.side = "Bid" THEN l.qty ELSE 0
      /\ d.locked_maker_fees =
           a[v].locked_maker_fees - IF o.side = "Bid" THEN LockedFee(l.qty, o.locked_price) ELSE 0
  <2>1. a[v] \in AccountType /\ o = a[v].open_orders[l.owner_slot]
    BY <1>1 DEF SlotOf, Accounts
  <2> HIDE DEF o
  <2> QED
    BY <1>1, <2>1, CancelSlotKeeps
<1> HIDE DEF d
<1>3. c \in Accounts /\ c[v] = d /\ \A u \in Users : u # v => c[u] = a[u]
  BY <1>1, <1>2 DEF Accounts, d
<1>4. o.side = l.side
  BY DEF Backed, HeldIn
<1>5. \A k \in T : SlotOf(c, k) = SlotOf(a, k) /\ HeldIn(a, k)
  <2> TAKE k \in T
  <2>1. k.seq # l.seq /\ HeldIn(a, k) /\ HeldIn(a, l)
    BY DEF SeqsUnique, Backed
  <2>2. SlotOf(a, k) # SlotOf(a, l)
    BY <2>1 DEF HeldIn
  <2>3. k \in Leaves /\ k.owner \in Users /\ k.owner_slot \in OrderSlot
    BY SlotOfIs DEF Accounts
  <2>4. CASE k.owner = v
    <3>1. k.owner_slot # l.owner_slot
      BY <2>2, <2>4 DEF SlotOf
    <3>2. a[v].open_orders \in [OrderSlot -> [is_free : BOOLEAN, id : 0..MaxOrders, side : Side,
                                             tree : Tree, locked_price : Nat]]
      BY <1>1 DEF Accounts, AccountType
    <3>3. d.open_orders[k.owner_slot] = a[v].open_orders[k.owner_slot]
      BY <1>2, <2>3, <3>1, <3>2
    <3> QED
      BY <1>3, <2>1, <2>4, <3>3 DEF SlotOf
  <2>5. CASE k.owner # v
    BY <1>3, <2>1, <2>3, <2>5 DEF SlotOf
  <2> QED
    BY <2>4, <2>5
<1>6. \A k \in T : HeldIn(c, k)
  BY <1>5 DEF HeldIn
<1>7. T \in SUBSET Leaves /\ IsFiniteSet(T)
  BY FS_RemoveElement
<1>8. ASSUME NEW kind \in Kinds, NEW u \in Users
      PROVE  Reserve(kind, c[u]) >= Due(kind, T, c, u) + e[kind][u]
  <2>1. /\ Due(kind, S, a, u) = Due(kind, T, a, u) + Part(kind, a, l, u)
        /\ Part(kind, a, l, u) \in Nat /\ Due(kind, T, a, u) \in Nat
    BY DueWithout DEF Accounts
  <2>2. Due(kind, T, c, u) = Due(kind, T, a, u)
    <3>1. T \in SUBSET Leaves /\ IsFiniteSet(T) /\ \A k \in T : SlotOf(c, k) = SlotOf(a, k)
      BY <1>5, <1>7
    <3> HIDE DEF T
    <3>2. c \in Accounts /\ a \in Accounts /\ kind \in Kinds
      BY <1>3
    <3>3. \A x : Due(kind, T, c, x) = Due(kind, T, a, x)
      BY <3>1, <3>2, DueStays, Zenon
    <3> QED
      BY <3>3, Zenon
  <2>3. Reserve(kind, a[u]) >= Due(kind, S, a, u) + e[kind][u]
    BY DEF Backed, Covered
  <2>4. /\ Reserve(kind, a[u]) \in Int /\ Reserve(kind, c[u]) \in Int /\ e[kind][u] \in Int
    BY <1>3, ReserveInt DEF Accounts, Extras
  <2>5. Reserve(kind, c[u]) = Reserve(kind, a[u]) - Part(kind, a, l, u)
    <3>1. CASE u = v
      <4>1. a[v].bids_base_lots \in Int /\ a[v].locked_maker_fees \in Int
        BY <1>1 DEF Accounts, AccountType
      <4> QED
        BY <1>2, <1>3, <1>4, <3>1, <4>1 DEF Reserve, Part, WeightOf, Weight, Kinds
    <3>2. CASE u # v
      BY <1>3, <2>4, <3>2 DEF Part
    <3> QED
      BY <3>1, <3>2
  <2> HIDE DEF T
  <2> QED
    BY <2>1, <2>2, <2>3, <2>4, <2>5
<1>9. \A u \in Users : c[u].open = a[u].open
  BY <1>2, <1>3
<1> QED
  BY <1>3, <1>6, <1>8, <1>9 DEF Backed, Covered

\* A leaf that shrinks needs less.
LEMMA BackedReduce ==
  ASSUME NEW S \in SUBSET Leaves, IsFiniteSet(S), SeqsUnique(S), NEW a \in Accounts,
         NEW e \in Extras, Backed(S, a, e), NEW l \in S,
         NEW qty \in Nat \ {0}, qty < l.qty
  PROVE  Backed((S \ {l}) \cup {[l EXCEPT !.qty = l.qty - qty]}, a, e)
<1> DEFINE rest == [l EXCEPT !.qty = l.qty - qty]
           left == l.qty - qty
           T == S \ {l}
<1>1. l \in Leaves /\ l.qty \in Nat \ {0} /\ left \in Nat \ {0} /\ left <= l.qty
  BY SlotOfIs DEF Accounts
<1>2. /\ rest \in Leaves /\ rest.seq = l.seq /\ rest.owner = l.owner /\ rest.side = l.side
      /\ rest.tree = l.tree /\ rest.owner_slot = l.owner_slot /\ rest.qty = left
      /\ LockOf(rest) = LockOf(l)
  <2>1. l \in LeafType
    BY <1>1 DEF Leaves
  <2> HIDE DEF left
  <2>2. rest = [l EXCEPT !.qty = left]
    BY DEF left
  <2> HIDE DEF rest
  <2>3. /\ rest \in LeafType /\ rest.seq = l.seq /\ rest.owner = l.owner /\ rest.side = l.side
        /\ rest.tree = l.tree /\ rest.owner_slot = l.owner_slot /\ rest.qty = left
        /\ rest.data = l.data /\ rest.peg_limit = l.peg_limit
    BY <1>1, <2>1, <2>2 DEF LeafType
  <2> QED
    BY <1>1, <2>3 DEF Leaves, LockOf
<1>3. T \in SUBSET Leaves /\ IsFiniteSet(T)
  BY FS_RemoveElement
<1> HIDE DEF rest, left
<1>4. rest \notin T
  BY <1>2 DEF SeqsUnique
<1>5. SlotOf(a, rest) = SlotOf(a, l)
  BY <1>2 DEF SlotOf
<1>6. \A k \in T \cup {rest} : HeldIn(a, k)
  BY <1>2, <1>5 DEF Backed, HeldIn
<1> HIDE DEF T
<1>7. ASSUME NEW kind \in Kinds, NEW u \in Users
      PROVE  Reserve(kind, a[u]) >= Due(kind, T \cup {rest}, a, u) + e[kind][u]
  <2>1. /\ Due(kind, S, a, u) = Due(kind, T, a, u) + Part(kind, a, l, u)
        /\ Part(kind, a, l, u) \in Nat /\ Due(kind, T, a, u) \in Nat
    BY DueWithout DEF Accounts, T
  <2>2. /\ Due(kind, T \cup {rest}, a, u) = Due(kind, T, a, u) + Part(kind, a, rest, u)
        /\ Part(kind, a, rest, u) \in Nat
    BY <1>2, <1>3, <1>4, DueWith DEF Accounts
  <2>3. Reserve(kind, a[u]) >= Due(kind, S, a, u) + e[kind][u]
    BY DEF Backed, Covered
  <2>4. Reserve(kind, a[u]) \in Int /\ e[kind][u] \in Int
    BY ReserveInt DEF Accounts, Extras
  <2>5. Part(kind, a, rest, u) <= Part(kind, a, l, u)
    <3>1. SlotOf(a, l).locked_price \in Nat
      BY <1>1, SlotOfIs DEF Accounts
    <3>2. Weight(kind, left, SlotOf(a, l).locked_price) <= Weight(kind, l.qty, SlotOf(a, l).locked_price)
      BY <1>1, <3>1, WeightMonotonic
    <3> QED
      BY <1>2, <1>5, <3>2 DEF Part, WeightOf
  <2> QED
    BY <2>1, <2>2, <2>3, <2>4, <2>5
<1> QED
  BY <1>6, <1>7 DEF Backed, Covered, T, rest

\* A leaf that comes has its slot, and needs no more than is taken off e.
LEMMA BackedWith ==
  ASSUME NEW S \in SUBSET Leaves, IsFiniteSet(S), NEW a \in Accounts,
         NEW e \in Extras, NEW f \in Extras, Backed(S, a, e), NEW l \in Leaves, l \notin S,
         HeldIn(a, l),
         \A kind \in Kinds, u \in Users : Part(kind, a, l, u) + f[kind][u] <= e[kind][u]
  PROVE  Backed(S \cup {l}, a, f)
<1>1. \A k \in S \cup {l} : HeldIn(a, k)
  BY DEF Backed
<1>2. ASSUME NEW kind \in Kinds, NEW u \in Users
      PROVE  Reserve(kind, a[u]) >= Due(kind, S \cup {l}, a, u) + f[kind][u]
  <2>1. /\ Due(kind, S \cup {l}, a, u) = Due(kind, S, a, u) + Part(kind, a, l, u)
        /\ Part(kind, a, l, u) \in Nat
    BY DueWith DEF Accounts
  <2>2. Due(kind, S, a, u) \in Nat
    BY DueIs DEF Accounts
  <2>3. Reserve(kind, a[u]) >= Due(kind, S, a, u) + e[kind][u]
    BY DEF Backed, Covered
  <2>4. Reserve(kind, a[u]) \in Int /\ e[kind][u] \in Int /\ f[kind][u] \in Int
    BY ReserveInt DEF Accounts, Extras
  <2>5. Part(kind, a, l, u) + f[kind][u] <= e[kind][u]
    OBVIOUS
  <2> QED
    BY <2>1, <2>2, <2>3, <2>4, <2>5
<1> QED
  BY <1>1, <1>2 DEF Backed, Covered

-----------------------------------------------------------------------------
(* Books whose accounts hold what their leaves need.                       *)

SameOpen(a, c) == \A u \in Users : c[u].open = a[u].open
Sound(n, a, e) ==
  {b \in Fresh(n) : b.ok => Backed(b.leaves, b.oo, e) /\ SameOpen(a, b.oo)}

LEMMA SoundIs ==
  ASSUME NEW n, NEW a, NEW e, NEW b \in Sound(n, a, e)
  PROVE  /\ b \in Fresh(n) /\ b \in Books /\ SeqsUnique(b.leaves) /\ b.oo \in Accounts
         /\ b.leaves \in SUBSET Leaves /\ IsFiniteSet(b.leaves) /\ b.ok \in BOOLEAN
BY DEF Sound, Fresh, Books, BookType, Accounts

LEMMA SoundFails ==
  ASSUME NEW n, NEW a, NEW e, NEW b \in Fresh(n)
  PROVE  [b EXCEPT !.ok = FALSE] \in Sound(n, a, e)
<1>1. [b EXCEPT !.ok = FALSE] \in Fresh(n)
  BY FailedIsFresh
<1>2. [b EXCEPT !.ok = FALSE].ok = FALSE
  BY DEF Fresh, Books, BookType
<1> QED
  BY <1>1, <1>2 DEF Sound

\* Where an order leaves the book, its slot is freed or an event takes its place.
LEMMA DropFromBookIs ==
  ASSUME NEW b \in Books, NEW l \in Leaves, NEW present,
         NEW c, c = DropFromBook(b, l, present), c.ok
  PROVE  /\ b.ok
         /\ \/ c.oo = b.oo /\ Parked(b.heap, c.heap, OutEvent(l)) /\ OutEvent(l) \in EventType
            \/ /\ CancelSlotFits(b.oo[l.owner], l.owner_slot, l.qty) /\ c.heap = b.heap
               /\ c.oo = [b.oo EXCEPT ![l.owner] =
                             CancelSlot(b.oo[l.owner], l.owner_slot, l.qty)]
<1> DEFINE d == Unbook(b, l)
           v == l.owner
           slot == l.owner_slot
<1>1. d \in Books /\ d.oo = b.oo /\ d.ok = b.ok /\ d \in BookType /\ d.heap = b.heap
  BY UnbookKeeps DEF Books
<1>2. v \in Users /\ slot \in OrderSlot /\ l.qty \in Nat /\ l.side \in Side /\ l.qty \in Nat \ {0}
  BY DEF Leaves, LeafType
<1>3. CASE v \in present
  <2>1. c = CancelIn(d, v, slot, l.qty)
    BY <1>3 DEF DropFromBook, ProcessOutEvent
  <2> HIDE DEF d, v, slot
  <2>2. CASE CancelSlotFits(d.oo[v], slot, l.qty)
    <3>1. c = [d EXCEPT !.oo = [d.oo EXCEPT ![v] = CancelSlot(d.oo[v], slot, l.qty)]]
      BY <1>1, <1>2, <2>1, <2>2, Zenon DEF CancelIn
    <3>2. /\ c.ok = d.ok /\ c.oo = [d.oo EXCEPT ![v] = CancelSlot(d.oo[v], slot, l.qty)]
          /\ c.heap = d.heap
      BY <1>1, <3>1 DEF BookType
    <3> QED
      BY <1>1, <2>2, <3>2 DEF v, slot
  <2>3. CASE ~CancelSlotFits(d.oo[v], slot, l.qty)
    <3>1. c = [d EXCEPT !.ok = FALSE]
      BY <2>1, <2>3, Zenon DEF CancelIn
    <3> QED
      BY <1>1, <3>1 DEF BookType
  <2> QED
    BY <2>2, <2>3
<1>4. CASE v \notin present
  <2>1. OutEvent(l) \in EventType
    BY <1>2 DEF OutEvent, EventType
  <2>2. c = PushEvent(d, OutEvent(l))
    BY <1>4 DEF DropFromBook, ProcessOutEvent
  <2> HIDE DEF d
  <2> QED
    BY <1>1, <2>1, <2>2, PushEventKeeps
<1> QED
  BY <1>3, <1>4

LEMMA SoundDrop ==
  ASSUME NEW n, NEW a, NEW e \in Extras, NEW b \in Sound(n, a, e), NEW l \in b.leaves, NEW present
  PROVE  DropFromBook(b, l, present) \in Sound(n, a, e)
<1> DEFINE c == DropFromBook(b, l, present)
           S == b.leaves
<1>1. /\ b \in Fresh(n) /\ b \in Books /\ SeqsUnique(S) /\ b.oo \in Accounts
      /\ S \in SUBSET Leaves /\ IsFiniteSet(S)
  BY SoundIs
<1>2. c \in Fresh(n) /\ c.leaves = S \ {l} /\ l \in Leaves
  BY <1>1, DropIsFresh, DropFromBookKeeps
<1> HIDE DEF c
<1>3. ASSUME c.ok PROVE Backed(c.leaves, c.oo, e) /\ SameOpen(a, c.oo)
  <2>1. /\ b.ok
        /\ \/ c.oo = b.oo
           \/ /\ CancelSlotFits(b.oo[l.owner], l.owner_slot, l.qty)
              /\ c.oo = [b.oo EXCEPT ![l.owner] =
                            CancelSlot(b.oo[l.owner], l.owner_slot, l.qty)]
    BY <1>1, <1>2, <1>3, DropFromBookIs DEF c
  <2>2. Backed(S, b.oo, e) /\ SameOpen(a, b.oo)
    BY <2>1 DEF Sound
  <2>3. CASE c.oo = b.oo
    BY <1>1, <1>2, <2>2, <2>3, BackedWithout
  <2>4. CASE /\ CancelSlotFits(b.oo[l.owner], l.owner_slot, l.qty)
             /\ c.oo = [b.oo EXCEPT ![l.owner] =
                           CancelSlot(b.oo[l.owner], l.owner_slot, l.qty)]
    <3>1. /\ Backed(S \ {l}, c.oo, e)
          /\ \A u \in Users : c.oo[u].open = b.oo[u].open
      BY <1>1, <2>2, <2>4, BackedCancel, SMTT(30)
    <3> QED
      BY <1>2, <2>2, <3>1 DEF SameOpen
  <2> QED
    BY <2>1, <2>3, <2>4
<1>4. c \in Sound(n, a, e)
  BY <1>2, <1>3 DEF Sound
<1> QED
  BY <1>4 DEF c

LEMMA SoundDrops ==
  ASSUME NEW n, NEW a, NEW e \in Extras, NEW present
  PROVE  DropKeeps(Sound(n, a, e), present)
BY SoundIs, SoundFails, SoundDrop DEF DropKeeps

LEMMA SoundMatches ==
  ASSUME NEW n, NEW a, NEW e \in Extras, NEW order \in OrderType, NEW u \in Users, NEW own,
         NEW present, NEW time \in 1..MaxTime
  PROVE  MatchKeeps(Sound(n, a, e), order, u, own, present, time)
<1> DEFINE G == Sound(n, a, e)
<1> SUFFICES ASSUME NEW b \in G, NEW l \in Leaves, NEW price \in Nat \ {0}, NEW d,
                    b \in Books, l \in b.leaves, l.side = InvertSide(order.side),
                    MatchChange(b, d, l, order, u, own, price, present, time)
             PROVE  d \in G
  BY Zenon DEF MatchKeeps
<1>1. /\ b \in Fresh(n) /\ SeqsUnique(b.leaves) /\ b.oo \in Accounts
      /\ b.leaves \in SUBSET Leaves /\ IsFiniteSet(b.leaves)
  BY SoundIs
<1>2. CASE d = [b EXCEPT !.ok = FALSE]
  BY <1>1, <1>2, SoundFails
<1>3. CASE d = DropFromBook(b, l, present) \/ d = DropFromBook(b, l, {l.owner})
  BY <1>3, SoundDrop
<1>4. ASSUME NEW qty \in 1..l.qty,
             d = PushEvent(Reduce(b, l, qty), FillEvent(order, u, own, l, price, qty, time))
      PROVE  d \in G
  <2> DEFINE c == Reduce(b, l, qty)
             rest == [l EXCEPT !.qty = l.qty - qty]
             ev == FillEvent(order, u, own, l, price, qty, time)
  <2>1. l.qty \in Nat \ {0} /\ qty \in Nat \ {0} /\ qty <= l.qty
    BY DEF Leaves, LeafType
  <2>2. /\ c \in Books /\ c.oo = b.oo /\ c.ok = b.ok
        /\ c.leaves = (b.leaves \ {l}) \cup IF qty = l.qty THEN {} ELSE {rest}
    BY <2>1, ReduceKeeps
  <2>3. ev \in EventType
    BY <2>1, FillEventIs
  <2>4. d = PushEvent(c, ev)
    BY <1>4
  <2> HIDE DEF c, ev
  <2>5. d.leaves = c.leaves /\ d.oo = c.oo /\ (d.ok => c.ok)
    BY <2>2, <2>3, <2>4, PushEventKeeps
  <2>6. d \in Fresh(n)
    <3>1. MatchKeeps(Fresh(n), order, u, own, present, time)
      BY FreshMatches
    <3>2. b \in Fresh(n)
      BY <1>1
    <3>3. MatchChange(b, d, l, order, u, own, price, present, time)
      OBVIOUS
    <3> QED
      BY <3>1, <3>2, <3>3, Zenon DEF MatchKeeps
  <2> HIDE DEF rest
  <2>7. ASSUME d.ok PROVE Backed(d.leaves, d.oo, e) /\ SameOpen(a, d.oo)
    <3>1. Backed(b.leaves, b.oo, e) /\ SameOpen(a, b.oo)
      BY <2>2, <2>5, <2>7 DEF Sound
    <3>2. CASE qty = l.qty
      <4>1. d.leaves = b.leaves \ {l}
        BY <2>2, <2>5, <3>2
      <4> QED
        BY <1>1, <2>2, <2>5, <3>1, <4>1, BackedWithout
    <3>3. CASE qty # l.qty
      <4>1. qty < l.qty
        BY <2>1, <3>3
      <4>2. d.leaves = (b.leaves \ {l}) \cup {rest}
        BY <2>2, <2>5, <3>3
      <4>3. Backed((b.leaves \ {l}) \cup {rest}, b.oo, e)
        BY <1>1, <2>1, <3>1, <4>1, BackedReduce DEF rest
      <4> QED
        BY <2>2, <2>5, <3>1, <4>2, <4>3
    <3> QED
      BY <3>2, <3>3
  <2> QED
    BY <2>6, <2>7 DEF Sound
<1> QED
  BY <1>2, <1>3, <1>4 DEF MatchChange

-----------------------------------------------------------------------------
(* A new order: its fee is set aside before it is posted, and its lots are *)
(* entered in the account after it is.                                     *)

\* x more of maker fees and y more lots for the account of u.
Extra(u, x, y) ==
  [kind \in Kinds |-> [v \in Users |->
     IF v # u THEN 0 ELSE IF kind = "fees" THEN x ELSE y]]

LEMMA ExtraIs ==
  ASSUME NEW u \in Users, NEW x \in Nat, NEW y \in Nat
  PROVE  /\ Extra(u, x, y) \in Extras
         /\ \A kind \in Kinds, v \in Users :
              Extra(u, x, y)[kind][v] = IF v # u THEN 0 ELSE IF kind = "fees" THEN x ELSE y
BY DEF Extra, Extras

LEMMA NothingIs ==
  /\ Nothing \in Extras
  /\ \A kind \in Kinds, v \in Users : Nothing[kind][v] = 0
BY DEF Nothing, Extras

LEMMA SoundLocked ==
  ASSUME NEW n, NEW a, NEW b \in Sound(n, a, Nothing), NEW order \in OrderType, NEW price \in Nat,
         NEW u \in Users, NEW qty \in Nat
  PROVE  LET fee == IF order.side = "Bid" THEN LockedFee(qty, price) ELSE 0
         IN  LockFees(b, order, price, u, qty) \in Sound(n, a, Extra(u, fee, 0))
<1> DEFINE fee == IF order.side = "Bid" THEN LockedFee(qty, price) ELSE 0
           e == Extra(u, fee, 0)
           c == LockFees(b, order, price, u, qty)
<1>1. /\ b \in Fresh(n) /\ b \in Books /\ b.oo \in Accounts
      /\ b.leaves \in SUBSET Leaves /\ IsFiniteSet(b.leaves)
  BY SoundIs
<1>2. /\ Grown(b, c) /\ c.leaves = b.leaves
      /\ \A v \in Users : v # u => c.oo[v] = b.oo[v]
      /\ c.oo[u].open_orders = b.oo[u].open_orders /\ c.oo[u].open = b.oo[u].open
      /\ c.oo[u].bids_base_lots = b.oo[u].bids_base_lots
      /\ c.oo[u].locked_maker_fees = b.oo[u].locked_maker_fees + fee
  BY <1>1, LockFeesKeeps
<1>3. fee \in Nat
  BY LockedNat, MarketAssumption
<1> HIDE DEF fee, c
<1>4. /\ e \in Extras
      /\ \A kind \in Kinds, v \in Users :
           e[kind][v] = IF v # u THEN 0 ELSE IF kind = "fees" THEN fee ELSE 0
  BY <1>3, ExtraIs
<1> HIDE DEF e
<1>5. c \in Books /\ c \in Fresh(n) /\ c.oo \in Accounts /\ (c.ok => b.ok)
  <2>1. c \in Books /\ (c.ok => b.ok)
    BY <1>2 DEF Grown
  <2>2. c \in Fresh(n)
    BY <1>1, <1>2, <2>1, FreshShrinks
  <2> QED
    BY <2>1, <2>2 DEF Books, BookType, Accounts
<1>6. ASSUME c.ok PROVE Backed(c.leaves, c.oo, e) /\ SameOpen(a, c.oo)
  <2>1. Backed(b.leaves, b.oo, Nothing) /\ SameOpen(a, b.oo)
    BY <1>5, <1>6 DEF Sound
  <2>2. \A v \in Users, s \in OrderSlot :
          ~b.oo[v].open_orders[s].is_free => c.oo[v].open_orders[s] = b.oo[v].open_orders[s]
    BY <1>2
  <2>3. ASSUME NEW kind \in Kinds, NEW v \in Users
        PROVE  Reserve(kind, c.oo[v]) - e[kind][v] >= Reserve(kind, b.oo[v]) - Nothing[kind][v]
    <3>1. /\ b.oo[v].locked_maker_fees \in Int /\ b.oo[v].bids_base_lots \in Int
      BY <1>1 DEF Accounts, AccountType
    <3> QED
      BY <1>2, <1>3, <1>4, <3>1, NothingIs DEF Reserve
  <2>4. Backed(b.leaves, c.oo, e)
    BY <1>1, <1>4, <1>5, <2>1, <2>2, <2>3, NothingIs, BackedBy
  <2>5. SameOpen(a, c.oo)
    BY <1>2, <2>1 DEF SameOpen
  <2> QED
    BY <1>2, <2>4, <2>5
<1>7. c \in Sound(n, a, e)
  BY <1>5, <1>6 DEF Sound
<1> QED
  BY <1>7 DEF c, e, fee

LEMMA RecordBacks ==
  ASSUME NEW n, NEW b \in Fresh(n), NEW S \in SUBSET Leaves, IsFiniteSet(S),
         NEW u \in Users, NEW x \in Nat, Backed(S, b.oo, Extra(u, x, 0)),
         NEW order \in OrderType, NEW price \in Nat, NEW id \in 0..MaxOrders,
         NEW c, c = Record(b, order, price, id, u), c.ok
  PROVE  /\ Backed(S, c.oo, Extra(u, x, IF order.side = "Bid" THEN order.base ELSE 0))
         /\ SameOpen(b.oo, c.oo) /\ c.oo \in Accounts
<1> DEFINE lots == IF order.side = "Bid" THEN order.base ELSE 0
           e == Extra(u, x, 0)
           f == Extra(u, x, lots)
           slot == NextOrderSlot(b.oo[u])
<1>1. /\ c \in Fresh(n) /\ slot \in OrderSlot /\ b.oo[u].open_orders[slot].is_free
      /\ \A v \in Users : v # u => c.oo[v] = b.oo[v]
      /\ \A s \in OrderSlot \ {slot} : c.oo[u].open_orders[s] = b.oo[u].open_orders[s]
      /\ c.oo[u].locked_maker_fees = b.oo[u].locked_maker_fees
      /\ c.oo[u].open = b.oo[u].open
      /\ c.oo[u].bids_base_lots = b.oo[u].bids_base_lots + lots
  BY RecordKeeps, SMTT(30)
<1>2. lots \in Nat
  BY DEF OrderType
<1> HIDE DEF lots, slot
<1>3. /\ e \in Extras
      /\ \A kind \in Kinds, v \in Users :
           e[kind][v] = IF v # u THEN 0 ELSE IF kind = "fees" THEN x ELSE 0
  BY ExtraIs
<1>4. /\ f \in Extras
      /\ \A kind \in Kinds, v \in Users :
           f[kind][v] = IF v # u THEN 0 ELSE IF kind = "fees" THEN x ELSE lots
  BY <1>2, ExtraIs
<1>5. b.oo \in Accounts /\ c.oo \in Accounts /\ Backed(S, b.oo, e)
  BY <1>1 DEF Fresh, Books, BookType, Accounts
<1> HIDE DEF e, f
<1>6. \A v \in Users, s \in OrderSlot :
        ~b.oo[v].open_orders[s].is_free => c.oo[v].open_orders[s] = b.oo[v].open_orders[s]
  BY <1>1
<1>7. ASSUME NEW kind \in Kinds, NEW v \in Users
      PROVE  Reserve(kind, c.oo[v]) - f[kind][v] >= Reserve(kind, b.oo[v]) - e[kind][v]
  <2>1. b.oo[v].locked_maker_fees \in Int /\ b.oo[v].bids_base_lots \in Int
    BY <1>5 DEF Accounts, AccountType
  <2> QED
    BY <1>1, <1>2, <1>3, <1>4, <2>1 DEF Reserve
<1>8. Backed(S, c.oo, f)
  BY <1>3, <1>4, <1>5, <1>6, <1>7, BackedBy
<1>9. SameOpen(b.oo, c.oo)
  BY <1>1 DEF SameOpen
<1> QED
  BY <1>5, <1>8, <1>9 DEF f, lots

\* What remains when something more than nothing is held is sound as well.
LEMMA BackedLess ==
  ASSUME NEW S \in SUBSET Leaves, IsFiniteSet(S), NEW a \in Accounts,
         NEW u \in Users, NEW x \in Nat, NEW y \in Nat, Backed(S, a, Extra(u, x, y))
  PROVE  Backed(S, a, Nothing)
<1> DEFINE e == Extra(u, x, y)
<1>1. /\ e \in Extras
      /\ \A kind \in Kinds, v \in Users :
           e[kind][v] = IF v # u THEN 0 ELSE IF kind = "fees" THEN x ELSE y
  BY ExtraIs
<1> HIDE DEF e
<1>2. ASSUME NEW kind \in Kinds, NEW v \in Users
      PROVE  Reserve(kind, a[v]) - Nothing[kind][v] >= Reserve(kind, a[v]) - e[kind][v]
  <2>1. Reserve(kind, a[v]) \in Int
    BY ReserveInt DEF Accounts
  <2> QED
    BY <1>1, <2>1, NothingIs
<1>3. Backed(S, a, e)
  BY DEF e
<1> QED
  BY <1>1, <1>2, <1>3, NothingIs, BackedBy

\* What posting and recording an order do, as one fact each.
Posted(n, b, order, price, lockedPrice, feed, u, qty, present, time, c, d) ==
  LET slot == NextOrderSlot(c.oo[u])
      l == Leaf(order, price, feed, n + 1, u, slot, qty, time)
  IN  /\ c \in Fresh(n) /\ d \in Fresh(n + 1) /\ Grown(b, d)
      /\ d.ok => /\ c.ok /\ d.leaves = c.leaves \cup {l} /\ d.oo = c.oo /\ l \in Leaves
                 /\ d.heap = c.heap
                 /\ slot \in OrderSlot /\ c.oo[u].open_orders[slot].is_free
Recorded(n, b, order, price, id, u, c) ==
  LET slot == NextOrderSlot(b.oo[u])
  IN  /\ c \in Fresh(n) /\ Grown(b, c) /\ c.leaves = b.leaves /\ c.heap = b.heap
      /\ c.ok =>
           /\ \A v \in Users : v # u => c.oo[v] = b.oo[v]
           /\ c.oo[u].open = b.oo[u].open
           /\ c.oo[u].base_free_native = b.oo[u].base_free_native
           /\ c.oo[u].quote_free_native = b.oo[u].quote_free_native
           /\ c.oo[u].locked_maker_fees = b.oo[u].locked_maker_fees
           /\ c.oo[u].bids_base_lots =
                b.oo[u].bids_base_lots + IF order.side = "Bid" THEN order.base ELSE 0
           /\ c.oo[u].bids_quote_lots =
                b.oo[u].bids_quote_lots + IF order.side = "Bid" THEN order.base * price ELSE 0
           /\ c.oo[u].asks_base_lots =
                b.oo[u].asks_base_lots + IF order.side = "Bid" THEN 0 ELSE order.base
           /\ slot \in OrderSlot /\ b.oo[u].open_orders[slot].is_free
           /\ ~c.oo[u].open_orders[slot].is_free
           /\ c.oo[u].open_orders[slot].id = id
           /\ c.oo[u].open_orders[slot].side = order.side
           /\ ~IsMarket(order) => c.oo[u].open_orders[slot].tree = PostTree(order)
           /\ c.oo[u].open_orders[slot].locked_price = price

LEMMA PostDoes ==
  \A n \in 0..MaxOrders, order \in OrderType, price \in Nat \ {0}, lockedPrice \in Nat,
     u \in Users, qty \in Nat \ {0}, time \in 1..MaxTime : \A b \in Fresh(n) : \A feed, present :
    /\ n < MaxOrders /\ WellPegged(order) /\ (order.pegged => feed \in Int)
    /\ ~ExpiryPassed(order, time)
    => Posted(n, b, order, price, lockedPrice, feed, u, qty, present, time,
              MadeRoom(b, order, price, lockedPrice, u, qty, present, time, feed),
              Post(b, order, price, lockedPrice, n + 1, u, qty, present, time, feed))
<1> TAKE n \in 0..MaxOrders, order \in OrderType, price \in Nat \ {0}, lockedPrice \in Nat,
         u \in Users, qty \in Nat \ {0}, time \in 1..MaxTime
<1> TAKE b \in Fresh(n)
<1> TAKE feed, present
<1> HAVE /\ n < MaxOrders /\ WellPegged(order) /\ (order.pegged => feed \in Int)
         /\ ~ExpiryPassed(order, time)
<1> DEFINE c == MadeRoom(b, order, price, lockedPrice, u, qty, present, time, feed)
           slot == NextOrderSlot(c.oo[u])
           l == Leaf(order, price, feed, n + 1, u, slot, qty, time)
           d == Post(b, order, price, lockedPrice, n + 1, u, qty, present, time, feed)
<1>1. n + 1 \in 1..MaxOrders
  BY FermiAssumption
<1>2. /\ c \in Fresh(n) /\ d \in Fresh(n + 1) /\ Grown(b, d)
      /\ d.ok => /\ c.ok /\ d.leaves = c.leaves \cup {l} /\ d.oo = c.oo /\ l \in Leaves
                 /\ d.heap = c.heap
                 /\ slot \in OrderSlot /\ c.oo[u].open_orders[slot].is_free
  BY <1>1, PostKeeps
<1> HIDE DEF c, d
<1> QED
  BY <1>2, Zenon DEF Posted, c, d

LEMMA RecordDoes ==
  \A n : \A b \in Fresh(n), order \in OrderType, price \in Nat, id \in 0..MaxOrders, u \in Users :
    Recorded(n, b, order, price, id, u, Record(b, order, price, id, u))
<1> SUFFICES ASSUME NEW n, NEW b \in Fresh(n), NEW order \in OrderType, NEW price \in Nat,
                    NEW id \in 0..MaxOrders, NEW u \in Users
             PROVE  Recorded(n, b, order, price, id, u, Record(b, order, price, id, u))
  BY Zenon
<1> QED
  BY RecordKeeps DEF Recorded

\* A remainder is posted and recorded: the leaf that comes has the slot that the
\* account records, its fee was set aside before, and its lots are no more than
\* those of the whole order.
LEMMA SoundPosted ==
  ASSUME NEW n \in 0..MaxOrders, n < MaxOrders, NEW a,
         NEW b \in Sound(n, a, Nothing), NEW order \in OrderType, WellPegged(order),
         ~IsMarket(order), NEW price \in Nat \ {0}, NEW feed, order.pegged => feed \in Int,
         NEW u \in Users, NEW qty \in Nat \ {0}, qty <= order.base,
         NEW present, NEW time \in 1..MaxTime, ~ExpiryPassed(order, time)
  PROVE  LET locked == LockedPrice(order, price)
             d == Post(b, order, price, locked, n + 1, u, qty, present, time, feed)
             c == Record(d, order, locked, n + 1, u)
         IN  c.ok => Backed(c.leaves, c.oo, Nothing) /\ SameOpen(a, c.oo)
<1> DEFINE locked == LockedPrice(order, price)
           d == Post(b, order, price, locked, n + 1, u, qty, present, time, feed)
           c == Record(d, order, locked, n + 1, u)
           room == MadeRoom(b, order, price, locked, u, qty, present, time, feed)
           slot == NextOrderSlot(room.oo[u])
           l == Leaf(order, price, feed, n + 1, u, slot, qty, time)
           fee == IF order.side = "Bid" THEN LockedFee(qty, locked) ELSE 0
           lots == IF order.side = "Bid" THEN order.base ELSE 0
           e == Extra(u, fee, 0)
           f == Extra(u, fee, lots)
<1>1. locked \in Nat \ {0} /\ b \in Fresh(n) /\ n + 1 \in 0..MaxOrders
      /\ locked = LockedPrice(order, price)
  BY LockedPriceIs, SoundIs, FermiAssumption
<1> HIDE DEF locked
<1>2. fee \in Nat /\ lots \in Nat
  BY <1>1, LockedNat, MarketAssumption DEF OrderType
<1>3. room \in Sound(n, a, e)
  <2> DEFINE G == Sound(n, a, e)
  <2>1. LockFees(b, order, locked, u, qty) \in G
    BY <1>1, SoundLocked
  <2>2. DropKeeps(G, present)
    BY <1>2, ExtraIs, SoundDrops
  <2> HIDE DEF G, room
  <2>3. MadeRoom(b, order, price, locked, u, qty, present, time, feed) \in G
    BY <1>1, <2>1, <2>2, MadeRoomKeeps
  <2> QED
    BY <2>3 DEF G, room
<1>4. Posted(n, b, order, price, locked, feed, u, qty, present, time, room, d)
  <2>1. locked \in Nat
    BY <1>1
  <2> QED
    BY <1>1, <2>1, PostDoes, Zenon
<1> HIDE DEF d
<1>5. Recorded(n + 1, d, order, locked, n + 1, u, c)
  <2>1. locked \in Nat /\ d \in Fresh(n + 1)
    BY <1>1, <1>4, Zenon DEF Posted
  <2> QED
    BY <1>1, <2>1, RecordDoes, Zenon
<1>0. c = Record(d, order, locked, n + 1, u)
  OBVIOUS
<1> HIDE DEF c
<1> SUFFICES ASSUME c.ok PROVE Backed(c.leaves, c.oo, Nothing) /\ SameOpen(a, c.oo)
  BY DEF c, d, locked
<1> HIDE DEF fee, lots, room
<1> DEFINE last == NextOrderSlot(d.oo[u])
<1>6. /\ c.leaves = d.leaves /\ d.ok /\ d \in Fresh(n + 1)
      /\ ~c.oo[u].open_orders[last].is_free
      /\ c.oo[u].open_orders[last].id = n + 1
      /\ c.oo[u].open_orders[last].side = order.side
      /\ c.oo[u].open_orders[last].tree = PostTree(order)
      /\ c.oo[u].open_orders[last].locked_price = locked
  <2>1. d \in Fresh(n + 1)
    BY <1>4, Zenon DEF Posted
  <2> QED
    BY <1>5, <2>1, Zenon DEF Grown, Recorded
<1>7. d.leaves = room.leaves \cup {l} /\ d.oo = room.oo /\ l \in Leaves /\ slot \in OrderSlot /\ room.ok
  BY <1>4, <1>6, Zenon DEF Posted
<1> HIDE DEF slot
<1>8. /\ l.seq = n + 1 /\ l.owner = u /\ l.owner_slot = slot /\ l.qty = qty
      /\ l.side = order.side /\ l.tree = PostTree(order)
      /\ order.side = "Bid" => LockOf(l) = locked
  BY <1>1 DEF Leaf, LockOf, LockedPrice, PostTree
<1> HIDE DEF l
<1>9. Backed(room.leaves, room.oo, e) /\ SameOpen(a, room.oo)
  BY <1>3, <1>7 DEF Sound
<1>10. /\ room \in Fresh(n) /\ room.leaves \in SUBSET Leaves /\ IsFiniteSet(room.leaves)
  BY <1>3, SoundIs
<1>11. l \notin room.leaves
  <2>1. \A k \in room.leaves : k.seq <= n
    BY <1>10 DEF Fresh
  <2> QED
    BY <1>8, <2>1
<1>12. Backed(room.leaves, c.oo, f) /\ SameOpen(d.oo, c.oo) /\ c.oo \in Accounts
  <2>1. Backed(room.leaves, d.oo, Extra(u, fee, 0))
    BY <1>7, <1>9
  <2>2. /\ Backed(room.leaves, c.oo, Extra(u, fee, IF order.side = "Bid" THEN order.base ELSE 0))
        /\ SameOpen(d.oo, c.oo) /\ c.oo \in Accounts
    BY <1>0, <1>1, <1>2, <1>6, <1>10, <2>1, RecordBacks
  <2> QED
    BY <2>2 DEF lots
<1>13. SlotOf(c.oo, l) = c.oo[u].open_orders[last]
  BY <1>7, <1>8 DEF SlotOf, slot
<1>14. HeldIn(c.oo, l)
  BY <1>1, <1>6, <1>8, <1>13 DEF HeldIn
<1>15. ASSUME NEW kind \in Kinds, NEW v \in Users
       PROVE  Part(kind, c.oo, l, v) + Nothing[kind][v] <= f[kind][v]
  <2>1. f[kind][v] = IF v # u THEN 0 ELSE IF kind = "fees" THEN fee ELSE lots
    BY <1>2, ExtraIs
  <2>2. Nothing[kind][v] = 0
    BY NothingIs
  <2>3. SlotOf(c.oo, l).locked_price = locked
    BY <1>6, <1>13
  <2>4. Part(kind, c.oo, l, v) = IF v = u /\ order.side = "Bid"
                                 THEN IF kind = "fees" THEN LockedFee(qty, locked) ELSE qty
                                 ELSE 0
    BY <1>8, <2>3 DEF Part, WeightOf, Weight
  <2> HIDE DEF f
  <2>5. CASE v = u /\ order.side = "Bid"
    <3>1. fee = LockedFee(qty, locked) /\ lots = order.base /\ order.base \in Nat
      BY <2>5 DEF fee, lots, OrderType
    <3> QED
      BY <1>2, <2>1, <2>2, <2>4, <2>5, <3>1
  <2>6. CASE ~(v = u /\ order.side = "Bid")
    BY <1>2, <2>1, <2>2, <2>4, <2>6
  <2> QED
    BY <2>5, <2>6
<1>16. Backed(room.leaves \cup {l}, c.oo, Nothing)
  <2>1. f \in Extras /\ Nothing \in Extras
    BY <1>2, ExtraIs, NothingIs
  <2> HIDE DEF f
  <2> QED
    BY <1>7, <1>10, <1>11, <1>12, <1>14, <1>15, <2>1, BackedWith
<1>17. SameOpen(a, c.oo)
  BY <1>7, <1>9, <1>12 DEF SameOpen
<1> QED
  BY <1>6, <1>7, <1>16, <1>17

\* A new order leaves a sound book sound.
LEMMA SoundNewOrder ==
  ASSUME NEW n \in 0..MaxOrders, n < MaxOrders, NEW a, NEW b \in Sound(n, a, Nothing),
         NEW order \in OrderType, WellPegged(order),
         NEW u \in Users, NEW own, own = {u} \/ (own = {} /\ IsMarket(order)),
         NEW remaining, NEW time \in 1..MaxTime,
         NEW feed \in Int \cup {NoOracle}, ~ExpiryPassed(order, time) \/ IsMarket(order),
         NEW r \in NewOrder(b, n, order, u, own, remaining, time, feed)
  PROVE  r.b \in Sound(n + 1, a, Nothing)
<1> DEFINE present == own \cup remaining
<1>1. b \in Fresh(n) /\ own \in SUBSET Users
  BY SoundIs
<1>2. /\ r.b.ok /\ (order.pegged => feed \in Int)
      /\ \E price \in Nat \ {0}, qty \in 0..order.base : \E m :
           NewOrderRun(b, n, order, u, own, remaining, time, feed, r, price, m, qty)
  BY <1>1, NewOrderRuns
<1>3. PICK price \in Nat \ {0}, qty \in 0..order.base : \E m :
        NewOrderRun(b, n, order, u, own, remaining, time, feed, r, price, m, qty)
  BY <1>2
<1>4. PICK m : NewOrderRun(b, n, order, u, own, remaining, time, feed, r, price, m, qty)
  BY <1>3
<1> DEFINE locked == LockedPrice(order, price)
           id == n + 1
           d == IF qty = 0 THEN m.b
                ELSE Post(m.b, order, price, locked, id, u, qty, present, time, feed)
<1>5. /\ m = Match(b, order, MaxQuote(order), u, own, price, present, time, feed)
      /\ m.b \in Fresh(n)
      /\ r.b = IF own = {} THEN d ELSE Record(d, order, locked, id, u)
      /\ qty # 0 => m.b.ok /\ ~IsMarket(order)
  BY <1>4, Zenon DEF NewOrderRun, SettledBook
<1>6. n \in Nat /\ id \in 1..MaxOrders /\ id \in 0..MaxOrders
  BY FermiAssumption
<1>7. r.b \in Fresh(n + 1)
  <2>1. Placed(b, n, order, r)
    BY <1>1, NewOrderKeeps
  <2> QED
    BY <2>1 DEF Placed
<1>8. m.b \in Sound(n, a, Nothing)
  <2> DEFINE G == Sound(n, a, Nothing)
             maxQuote == MaxQuote(order)
  <2>1. MatchKeeps(G, order, u, own, present, time)
    BY NothingIs, SoundMatches
  <2>2. maxQuote \in Nat /\ b \in Books /\ SeqsUnique(b.leaves)
    BY MaxQuoteNat, SoundIs
  <2> HIDE DEF G, maxQuote, present
  <2>3. Match(b, order, maxQuote, u, own, price, present, time, feed).b \in G
    BY <1>1, <2>1, <2>2, MatchInvariant DEF G
  <2> QED
    BY <1>5, <2>3 DEF G, maxQuote
<1>9. locked \in Nat
  BY LockedPriceIs
<1> HIDE DEF present
<1>10. Backed(r.b.leaves, r.b.oo, Nothing) /\ SameOpen(a, r.b.oo)
  <2>1. CASE own = {}
    <3>1. r.b = m.b
      BY <1>5, <2>1
    <3> QED
      BY <1>2, <1>8, <3>1 DEF Sound
  <2>2. CASE own # {} /\ qty = 0
    <3>1. r.b = Record(m.b, order, locked, id, u)
      BY <1>5, <2>2
    <3> HIDE DEF locked, d, id
    <3>2. Grown(m.b, r.b) /\ r.b.leaves = m.b.leaves
      <4>1. m.b \in Fresh(n) /\ id \in 0..MaxOrders
        BY <1>5, <1>6
      <4>2. Recorded(n, m.b, order, locked, id, u, Record(m.b, order, locked, id, u))
        BY <1>9, <4>1, RecordDoes, Zenon
      <4> QED
        BY <3>1, <4>2, Zenon DEF Recorded
    <3>3. Backed(m.b.leaves, m.b.oo, Nothing) /\ SameOpen(a, m.b.oo)
      BY <1>2, <1>8, <3>2 DEF Sound, Grown
    <3>4. m.b.leaves \in SUBSET Leaves /\ IsFiniteSet(m.b.leaves) /\ m.b.oo \in Accounts
      BY <1>8, SoundIs
    <3> DEFINE zero == 0
               e == Extra(u, zero, 0)
               lots == IF order.side = "Bid" THEN order.base ELSE 0
    <3>5. Backed(m.b.leaves, m.b.oo, e)
      <4>1. e = Nothing
        BY DEF Extra, Nothing
      <4> QED
        BY <3>3, <4>1
    <3>6. zero \in Nat /\ lots \in Nat
      BY DEF OrderType
    <3> HIDE DEF zero
    <3>7. /\ Backed(m.b.leaves, r.b.oo, Extra(u, zero, lots)) /\ SameOpen(m.b.oo, r.b.oo)
          /\ r.b.oo \in Accounts
      BY <1>2, <1>5, <1>6, <1>9, <3>1, <3>4, <3>5, <3>6, RecordBacks
    <3> HIDE DEF lots
    <3>8. Backed(m.b.leaves, r.b.oo, Nothing)
      BY <3>4, <3>6, <3>7, BackedLess
    <3> QED
      BY <3>2, <3>3, <3>7, <3>8 DEF SameOpen
  <2>3. CASE own # {} /\ qty # 0
    <3>1. r.b = Record(Post(m.b, order, price, locked, n + 1, u, qty, present, time, feed),
                       order, locked, n + 1, u)
      BY <1>5, <2>3
    <3>3. qty \in Nat \ {0} /\ qty <= order.base /\ ~IsMarket(order) /\ ~ExpiryPassed(order, time)
      BY <1>5, <2>3 DEF OrderType
    <3> HIDE DEF d, id
    <3> QED
      BY <1>2, <1>8, <3>1, <3>3, SoundPosted
  <2> QED
    BY <2>1, <2>2, <2>3
<1> QED
  BY <1>7, <1>10 DEF Sound

-----------------------------------------------------------------------------
(* The state: what its accounts hold for its leaves, and what a step does. *)

HInv == Backed(leaves, oo, Nothing)
Carried == Backed(leaves', oo', Nothing) /\ SameOpen(oo, oo')

\* What a step does not touch in the accounts.
SameHeld(a, c) ==
  \A u \in Users :
    /\ c[u].open_orders = a[u].open_orders /\ c[u].open = a[u].open
    /\ c[u].bids_base_lots = a[u].bids_base_lots
    /\ c[u].locked_maker_fees = a[u].locked_maker_fees

LEMMA SoundNow ==
  ASSUME IInv, HInv
  PROVE  /\ Book \in Sound(market.seq_num, oo, Nothing) /\ Book.ok
         /\ Book.leaves = leaves /\ Book.oo = oo
         /\ oo \in Accounts /\ leaves \in SUBSET Leaves /\ IsFiniteSet(leaves)
         /\ market.seq_num \in 0..MaxOrders /\ now \in 1..MaxTime /\ oracle \in Int \cup {NoOracle}
<1>1. /\ Book \in Fresh(market.seq_num) /\ Book.leaves = leaves /\ Book.oo = oo /\ Book.ok
      /\ Fields(market.seq_num, leaves, bump, oo, heap)
  BY BookNow DEF IInv
<1>2. SameOpen(oo, oo)
  BY DEF SameOpen
<1>3. Book \in Sound(market.seq_num, oo, Nothing)
  BY <1>1, <1>2 DEF Sound, HInv
<1>4. /\ oo \in Accounts /\ leaves \in SUBSET Leaves /\ IsFiniteSet(leaves)
      /\ market.seq_num \in 0..MaxOrders
  BY <1>1, TypesNow DEF Fields, Accounts
<1> QED
  BY <1>1, <1>3, <1>4, FermiAssumption DEF IInv

\* An instruction that leaves a sound book behind, and then what is held alone.
LEMMA BookCarries ==
  ASSUME NEW n, NEW b \in Sound(n, oo, Nothing), b.ok, leaves' = b.leaves, oo' \in Accounts,
         SameHeld(b.oo, oo')
  PROVE  Carried
<1>1. /\ b.oo \in Accounts /\ b.leaves \in SUBSET Leaves /\ IsFiniteSet(b.leaves)
      /\ Backed(b.leaves, b.oo, Nothing) /\ SameOpen(oo, b.oo)
  BY SoundIs DEF Sound
<1>2. \A v \in Users, s \in OrderSlot :
        ~b.oo[v].open_orders[s].is_free => oo'[v].open_orders[s] = b.oo[v].open_orders[s]
  BY DEF SameHeld
<1>3. ASSUME NEW kind \in Kinds, NEW v \in Users
      PROVE  Reserve(kind, oo'[v]) - Nothing[kind][v] >= Reserve(kind, b.oo[v]) - Nothing[kind][v]
  <2>1. Reserve(kind, oo'[v]) = Reserve(kind, b.oo[v])
    BY DEF SameHeld, Reserve
  <2>2. Reserve(kind, b.oo[v]) \in Int
    BY <1>1, ReserveInt DEF Accounts
  <2> QED
    BY <2>1, <2>2, NothingIs
<1> DEFINE c == oo'
<1>4. Backed(b.leaves, c, Nothing)
  <2>1. c \in Accounts
    OBVIOUS
  <2>2. \A v \in Users, s \in OrderSlot :
          ~b.oo[v].open_orders[s].is_free => c[v].open_orders[s] = b.oo[v].open_orders[s]
    BY <1>2
  <2>3. \A kind \in Kinds, v \in Users :
          Reserve(kind, c[v]) - Nothing[kind][v] >= Reserve(kind, b.oo[v]) - Nothing[kind][v]
    BY <1>3
  <2> HIDE DEF c
  <2> QED
    BY <1>1, <2>1, <2>2, <2>3, NothingIs, BackedBy
<1>5. SameOpen(oo, oo')
  BY <1>1 DEF SameOpen, SameHeld
<1> QED
  BY <1>4, <1>5 DEF Carried

\* Instructions that touch neither the book nor what is held.
LEMMA HeldCarries ==
  ASSUME IInv, HInv, IInv', leaves' = leaves, SameHeld(oo, oo')
  PROVE  Carried
<1>1. oo' \in Accounts
  BY BookNow DEF IInv, Fields, Accounts
<1> QED
  BY <1>1, SoundNow, BookCarries

LEMMA SoundBatches ==
  ASSUME now \in 1..MaxTime, oracle \in Oracles, NEW a, NEW u \in Users, NEW remaining
  PROVE  BatchKeeps([n \in Nat |-> Sound(n, a, Nothing)], u, remaining)
<1> DEFINE G == [n \in Nat |-> Sound(n, a, Nothing)]
<1>1. ASSUME NEW n \in 0..MaxOrders
      PROVE  /\ G[n] = Sound(n, a, Nothing) /\ G[n] \subseteq Fresh(n)
             /\ DropKeeps(G[n], {u})
  <2>1. G[n] = Sound(n, a, Nothing)
    BY FermiAssumption
  <2>2. DropKeeps(Sound(n, a, Nothing), {u})
    BY NothingIs, SoundDrops
  <2> HIDE DEF G
  <2> QED
    BY <2>1, <2>2 DEF Sound
<1> HIDE DEF G
<1>2. ASSUME NEW n \in 0..MaxOrders, NEW order \in OrderType, NEW b \in G[n],
             n < MaxOrders, Allowed(order), ~ExpiryPassed(order, now),
             NEW r \in NewOrder(b, n, order, u, {u}, remaining, now, oracle)
      PROVE  r.b \in G[n + 1]
  <2>1. n + 1 \in 0..MaxOrders
    BY <1>2, FermiAssumption
  <2>2. b \in Sound(n, a, Nothing)
    BY <1>1
  <2>3. oracle \in Int \cup {NoOracle}
    BY FermiAssumption
  <2>4. r.b \in Sound(n + 1, a, Nothing)
    BY <1>2, <2>2, <2>3, SoundNewOrder DEF Allowed
  <2> QED
    BY <1>1, <2>1, <2>4
<1>3. BatchKeeps(G, u, remaining)
  BY <1>1, <1>2 DEF BatchKeeps
<1> QED
  BY <1>3 DEF G

LEMMA AccountsNext ==
  ASSUME IInv'
  PROVE  oo' \in Accounts
BY BookNow DEF IInv, Fields, Accounts

-----------------------------------------------------------------------------
(* The steps that leave the book as an operator of the book makes it.      *)

LEMMA BecomesCarries ==
  ASSUME NEW n, NEW b \in Sound(n, oo, Nothing), BookBecomes(b)
  PROVE  Carried
<1>1. b.ok /\ leaves' = b.leaves /\ oo' = b.oo /\ b.oo \in Accounts
  BY SoundIs DEF BookBecomes
<1>2. SameHeld(b.oo, oo')
  BY <1>1 DEF SameHeld
<1> QED
  BY <1>1, <1>2, BookCarries

LEMMA CancelOneCarries ==
  ASSUME IInv, HInv, NEW u \in Users, NEW slot, CancelOneOrder(u, slot)
  PROVE  Carried
<1>1. /\ DropKeeps(Sound(market.seq_num, oo, Nothing), {u})
      /\ Book \in Sound(market.seq_num, oo, Nothing)
  BY SoundNow, SoundDrops, NothingIs
<1>2. CancelOrder(Book, u, slot) \in Sound(market.seq_num, oo, Nothing)
  BY <1>1, CancelOrderStays
<1> QED
  BY <1>2, BecomesCarries DEF CancelOneOrder

LEMMA CancelAllCarries ==
  ASSUME IInv, HInv, NEW u \in Users, NEW sides, NEW limit \in CancelLimits,
         CancelAll(u, sides, limit) \/ (PruneOrders(u, limit) /\ sides = Side)
  PROVE  Carried
<1>1. /\ DropKeeps(Sound(market.seq_num, oo, Nothing), {u})
      /\ Book \in Sound(market.seq_num, oo, Nothing)
  BY SoundNow, SoundDrops, NothingIs
<1>2. limit \in Nat
  BY FermiAssumption
<1>3. CancelAllOrders(Book, u, sides, limit) \in Sound(market.seq_num, oo, Nothing)
  BY <1>1, <1>2, CancelAllStays
<1> QED
  BY <1>3, BecomesCarries DEF CancelAll, PruneOrders

\* What Place and CancelAndPlaceOrders add to the account is not held for orders.
LEMMA AccountCarries ==
  ASSUME IInv', NEW n, NEW b \in Sound(n, oo, Nothing), NEW u \in Users, NEW account,
         BookBecomes([b EXCEPT !.oo[u] = account]),
         account.open_orders = b.oo[u].open_orders, account.open = b.oo[u].open,
         account.bids_base_lots = b.oo[u].bids_base_lots,
         account.locked_maker_fees = b.oo[u].locked_maker_fees
  PROVE  Carried
<1> DEFINE d == [b EXCEPT !.oo[u] = account]
<1>1. d.ok = b.ok /\ d.leaves = b.leaves /\ d.oo = [b.oo EXCEPT ![u] = account]
  BY SoundIs DEF Books, BookType
<1>2. d.ok /\ leaves' = d.leaves /\ oo' = d.oo
  BY DEF BookBecomes
<1> HIDE DEF d
<1>3. b.oo \in Accounts /\ oo' \in Accounts
  BY SoundIs, AccountsNext
<1>4. SameHeld(b.oo, oo')
  BY <1>1, <1>2, <1>3 DEF SameHeld, Accounts
<1> QED
  BY <1>1, <1>2, <1>3, <1>4, BookCarries

LEMMA PlaceCarries ==
  ASSUME IInv, HInv, IInv', NEW u \in Users, NEW b \in Sound(market.seq_num, oo, Nothing),
         NEW order \in OrderType, WellPegged(order), ~ExpiryPassed(order, now),
         NEW remaining, Place(b, u, order, remaining)
  PROVE  Carried
<1> DEFINE n == market.seq_num
           bid == order.side = "Bid"
           Approved(r) == Committed(order, r) + IF bid THEN r.b.oo[u].total_approved_quote
                                                ELSE r.b.oo[u].total_approved_base
           Grew(r) == HeapLen(r.b.heap) > HeapLen(b.heap)
           Account(r) == [r.b.oo[u] EXCEPT
                            !.penalty_heap_count = @ + IF Grew(r) THEN 1 ELSE 0,
                            !.total_approved_quote = IF bid THEN Approved(r) ELSE @,
                            !.total_approved_base = IF bid THEN @ ELSE Approved(r)]
<1>1. PICK r \in NewOrder(b, n, order, u, {u}, remaining, now, oracle) :
        BookBecomes([r.b EXCEPT !.oo[u] = Account(r)])
  BY Zenon DEF Place
<1>2. n \in 0..MaxOrders /\ now \in 1..MaxTime /\ oracle \in Int \cup {NoOracle}
  BY SoundNow
<1>3. n < MaxOrders
  BY Zenon DEF Place
<1>4. r.b \in Sound(n + 1, oo, Nothing)
  BY <1>2, <1>3, SoundNewOrder
<1> DEFINE a == r.b.oo[u]
           x == Approved(r)
           more == IF Grew(r) THEN 1 ELSE 0
           c == [a EXCEPT !.penalty_heap_count = @ + more,
                          !.total_approved_quote = IF bid THEN x ELSE @,
                          !.total_approved_base = IF bid THEN @ ELSE x]
<1>5. BookBecomes([r.b EXCEPT !.oo[u] = c])
  BY <1>1
<1>6. a \in AccountType
  BY <1>4, SoundIs DEF Accounts
<1> HIDE DEF Approved, Grew, Account, x, more
<1>7. /\ c.open_orders = a.open_orders /\ c.open = a.open
      /\ c.bids_base_lots = a.bids_base_lots /\ c.locked_maker_fees = a.locked_maker_fees
  BY <1>6 DEF AccountType
<1> HIDE DEF c, n
<1> DEFINE k == n + 1
<1>8. r.b \in Sound(k, oo, Nothing)
  BY <1>4
<1> HIDE DEF k
<1> QED
  BY <1>5, <1>7, <1>8, AccountCarries

LEMMA PlaceOrderCarries ==
  ASSUME IInv, HInv, IInv', NEW u \in Users, NEW order \in Orders, NEW remaining,
         PlaceOrder(u, order, remaining)
  PROVE  Carried
<1>1. Book \in Sound(market.seq_num, oo, Nothing)
  BY SoundNow
<1>2. order \in OrderType /\ WellPegged(order)
  BY FermiAssumption
<1>3. ~ExpiryPassed(order, now) /\ Place(Book, u, order, remaining)
  BY Zenon DEF PlaceOrder
<1> QED
  BY <1>1, <1>2, <1>3, PlaceCarries

LEMMA EditOrderCarries ==
  ASSUME IInv, HInv, IInv', NEW u \in Users, NEW slot \in OrderSlot, NEW expected \in EditSizes,
         NEW order \in Orders, NEW remaining, EditOrder(u, slot, expected, order, remaining)
  PROVE  Carried
<1> DEFINE cancelled == CancelOrder(Book, u, slot)
           G == Sound(market.seq_num, oo, Nothing)
<1>1. DropKeeps(G, {u}) /\ Book \in G
  BY SoundNow, SoundDrops, NothingIs
<1> HIDE DEF G
<1>2. cancelled \in G
  BY <1>1, CancelOrderStays
<1>3. PICK resting \in LeafOf(Book, u, slot) :
        \/ /\ order.base > expected - resting.qty
           /\ Place(cancelled, u, [order EXCEPT !.base = @ - (expected - resting.qty)], remaining)
        \/ BookBecomes(cancelled)
  BY Zenon DEF EditOrder
<1>4. ~ExpiryPassed(order, now)
  BY Zenon DEF EditOrder
<1> HIDE DEF cancelled
<1>5. CASE BookBecomes(cancelled)
  BY <1>2, <1>5, BecomesCarries DEF G
<1>6. CASE /\ order.base > expected - resting.qty
           /\ Place(cancelled, u, [order EXCEPT !.base = @ - (expected - resting.qty)], remaining)
  <2>1. resting \in Leaves
    <3>1. resting \in leaves
      BY Zenon DEF LeafOf, Book
    <3> QED
      BY <3>1, TypesNow
  <2>2. resting.qty \in Nat /\ expected \in Nat /\ order \in OrderType /\ WellPegged(order)
    BY <2>1, FermiAssumption DEF Leaves, LeafType
  <2> DEFINE x == order.base - (expected - resting.qty)
             smaller == [order EXCEPT !.base = x]
  <2>3. x \in Nat
    BY <1>6, <2>2 DEF OrderType
  <2> HIDE DEF x
  <2>4. smaller \in OrderType /\ WellPegged(smaller) /\ ~ExpiryPassed(smaller, now)
    BY <1>4, <2>2, <2>3 DEF OrderType, WellPegged, ExpiryPassed, IsMarket
  <2>5. Place(cancelled, u, smaller, remaining)
    BY <1>6 DEF x
  <2> HIDE DEF smaller
  <2> QED
    BY <1>2, <2>4, <2>5, PlaceCarries DEF G
<1> QED
  BY <1>3, <1>5, <1>6

LEMMA CancelAndPlaceCarries ==
  ASSUME IInv, HInv, IInv', NEW u \in Users, NEW batch \in Batches, NEW remaining,
         CancelAndPlaceOrders(u, batch, remaining)
  PROVE  Carried
<1> DEFINE c == PlaceBatch(u, batch, remaining)
           grew == HeapLen(c.b.heap) > HeapLen(heap)
           account == [c.b.oo[u] EXCEPT !.base_free_native = @ - FromFree(c, u, "base"),
                                        !.quote_free_native = @ - FromFree(c, u, "quote"),
                                        !.penalty_heap_count = @ + IF grew THEN 1 ELSE 0]
           G == [n \in Nat |-> Sound(n, oo, Nothing)]
<1>1. BookBecomes([c.b EXCEPT !.oo[u] = account])
  BY Zenon DEF CancelAndPlaceOrders
<1>2. /\ now \in 1..MaxTime /\ oracle \in Oracles /\ wallet \in [Users -> Balance]
      /\ market.seq_num \in 0..MaxOrders /\ Book \in Sound(market.seq_num, oo, Nothing)
  BY SoundNow DEF IInv, TokensTyped, Balances
<1>3. \A n \in 0..MaxOrders : G[n] = Sound(n, oo, Nothing)
  BY FermiAssumption
<1>4. BatchKeeps(G, u, remaining)
  BY <1>2, SoundBatches
<1> HIDE DEF G
<1>5. c \in Batched(G, Book, u)
  BY <1>2, <1>3, <1>4, PlaceBatchStays
<1>6. c.seq_num \in 0..MaxOrders /\ c.b \in G[c.seq_num]
  BY <1>5 DEF Batched, Costed
<1> HIDE DEF c
<1>7. c.b \in Sound(c.seq_num, oo, Nothing)
  BY <1>3, <1>6
<1> DEFINE a == c.b.oo[u]
           x == a.base_free_native - FromFree(c, u, "base")
           y == a.quote_free_native - FromFree(c, u, "quote")
           z == a.penalty_heap_count + IF grew THEN 1 ELSE 0
<1>8. account = [a EXCEPT !.base_free_native = x, !.quote_free_native = y,
                          !.penalty_heap_count = z]
  OBVIOUS
<1>9. a \in AccountType
  BY <1>7, SoundIs DEF Accounts
<1> HIDE DEF x, y, z, account
<1>10. /\ account.open_orders = a.open_orders /\ account.open = a.open
       /\ account.bids_base_lots = a.bids_base_lots
       /\ account.locked_maker_fees = a.locked_maker_fees
  BY <1>8, <1>9 DEF AccountType
<1> QED
  BY <1>1, <1>7, <1>10, AccountCarries

LEMMA PlaceTakeCarries ==
  ASSUME IInv, HInv, NEW u \in Users, NEW order \in TakeOrders, NEW remaining, NEW referrer,
         PlaceTakeOrder(u, order, remaining, referrer)
  PROVE  Carried
<1> DEFINE n == market.seq_num
<1>1. PICK r \in NewOrder(Book, n, order, u, {}, remaining, now, NoOracle) : BookBecomes(r.b)
  BY Zenon DEF PlaceTakeOrder
<1>2. n < MaxOrders
  BY Zenon DEF PlaceTakeOrder
<1>3. order \in OrderType /\ IsMarket(order) /\ WellPegged(order)
  BY FermiAssumption DEF WellPegged
<1>4. /\ n \in 0..MaxOrders /\ now \in 1..MaxTime /\ NoOracle \in Int \cup {NoOracle}
      /\ Book \in Sound(n, oo, Nothing)
  BY SoundNow
<1>5. r.b \in Sound(n + 1, oo, Nothing)
  BY <1>2, <1>3, <1>4, SoundNewOrder
<1> DEFINE k == n + 1
<1>6. r.b \in Sound(k, oo, Nothing)
  BY <1>5
<1> HIDE DEF k
<1> QED
  BY <1>1, <1>6, BecomesCarries

-----------------------------------------------------------------------------
(* The steps that leave the book and what is held alone.                   *)

HeldOf(a) == <<a.open_orders, a.open, a.bids_base_lots, a.locked_maker_fees>>

LEMMA OneHeld ==
  ASSUME oo \in Accounts, NEW u \in Users, NEW x, oo' = [oo EXCEPT ![u] = x],
         HeldOf(x) = HeldOf(oo[u])
  PROVE  SameHeld(oo, oo')
BY DEF SameHeld, HeldOf, Accounts

LEMMA TwoHeld ==
  ASSUME oo \in Accounts, NEW u \in Users, NEW v \in Users, u # v, NEW x, NEW y,
         oo' = [oo EXCEPT ![u] = x, ![v] = y],
         HeldOf(x) = HeldOf(oo[u]), HeldOf(y) = HeldOf(oo[v])
  PROVE  SameHeld(oo, oo')
BY DEF SameHeld, HeldOf, Accounts

LEMMA DepositCarries ==
  ASSUME IInv, HInv, IInv', NEW u \in Users, NEW amount \in Deposits,
         Deposit(u, amount.base, amount.quote)
  PROVE  Carried
<1> DEFINE a == oo[u]
           base == a.base_free_native + amount.base
           quote == a.quote_free_native + amount.quote
           x == [a EXCEPT !.base_free_native = base, !.quote_free_native = quote]
<1>1. oo' = [oo EXCEPT ![u] = x] /\ leaves' = leaves
  BY SoundNow DEF Deposit, Accounts, AccountType
<1>2. a \in AccountType /\ oo \in Accounts
  BY SoundNow DEF Accounts
<1> HIDE DEF base, quote
<1>3. HeldOf(x) = HeldOf(a)
  BY <1>2 DEF HeldOf, AccountType
<1> HIDE DEF x
<1> QED
  BY <1>1, <1>2, <1>3, OneHeld, HeldCarries

LEMMA SettleFillCarries ==
  ASSUME IInv, HInv, IInv', NEW slot \in HeapSlot, SettleFill(slot)
  PROVE  Carried
<1> DEFINE ev == heap.event[slot]
           buyer == Buyer(ev)
           seller == Seller(ev)
           quote == QuoteAmount(ev)
           base == BaseAmount(ev)
           lots == ev.qty * ev.price
           qty == ev.qty
           a == oo[buyer]
           b == oo[seller]
           x1 == a.bids_quote_lots - lots
           x2 == FreeLeft(a.quote_free_native, AfterMargin(quote))
           x3 == a.base_free_native + base
           y1 == b.asks_base_lots - qty
           y2 == FreeLeft(b.base_free_native, AfterMargin(base))
           y3 == b.quote_free_native + quote
           x == [a EXCEPT !.bids_quote_lots = x1, !.quote_free_native = x2, !.base_free_native = x3]
           y == [b EXCEPT !.asks_base_lots = y1, !.base_free_native = y2, !.quote_free_native = y3]
<1>1. /\ buyer # seller /\ leaves' = leaves
      /\ oo' = [oo EXCEPT
           ![buyer].bids_quote_lots = @ - lots,
           ![buyer].quote_free_native = FreeLeft(@, AfterMargin(quote)),
           ![buyer].base_free_native = @ + base,
           ![seller].asks_base_lots = @ - qty,
           ![seller].base_free_native = FreeLeft(@, AfterMargin(base)),
           ![seller].quote_free_native = @ + quote]
  BY Zenon DEF SettleFill
<1>2. buyer \in Users /\ seller \in Users
  BY SettleFillKeeps
<1>3. oo \in Accounts
  BY SoundNow
<1> HIDE DEF ev, buyer, seller, quote, base, lots, qty
<1>4. a \in AccountType /\ b \in AccountType
  BY <1>2, <1>3 DEF Accounts
<1>5. oo' = [oo EXCEPT ![buyer] = x, ![seller] = y]
  BY <1>1, <1>2, <1>3 DEF Accounts, AccountType
<1> HIDE DEF x1, x2, x3, y1, y2, y3
<1>6. HeldOf(x) = HeldOf(a) /\ HeldOf(y) = HeldOf(b)
  BY <1>4 DEF HeldOf, AccountType
<1> HIDE DEF x, y
<1> QED
  BY <1>1, <1>2, <1>3, <1>5, <1>6, TwoHeld, HeldCarries

LEMMA FinalizeMarketCarries ==
  ASSUME IInv, HInv, IInv', NEW slot \in HeapSlot, NEW account \in Users,
         FinalizeMarketOn(slot, account)
  PROVE  Carried
<1> DEFINE ev == heap.event[slot]
           makerSells == ev.taker_side = "Bid"
           quote == QuoteAmount(ev)
           base == BaseAmount(ev)
           lots == IF makerSells THEN AfterMargin(base) \div BaseLotSize ELSE ev.qty * ev.price
           a == oo[account]
           x1 == IF makerSells THEN a.asks_base_lots - lots ELSE a.asks_base_lots
           x2 == IF makerSells THEN FreeLeft(a.base_free_native, AfterMargin(base))
                 ELSE a.base_free_native
           x3 == IF makerSells THEN a.bids_quote_lots ELSE a.bids_quote_lots - lots
           x4 == IF makerSells THEN a.quote_free_native
                 ELSE FreeLeft(a.quote_free_native, AfterMargin(quote))
           x == [a EXCEPT !.asks_base_lots = x1, !.base_free_native = x2,
                          !.bids_quote_lots = x3, !.quote_free_native = x4]
<1>1. /\ ev # NoEvent /\ ev.type = "FillDirect" /\ leaves' = leaves
      /\ oo' = IF makerSells
               THEN [oo EXCEPT ![account].asks_base_lots = @ - lots,
                               ![account].base_free_native = FreeLeft(@, AfterMargin(base))]
               ELSE [oo EXCEPT ![account].bids_quote_lots = @ - lots,
                               ![account].quote_free_native = FreeLeft(@, AfterMargin(quote))]
  BY Zenon DEF FinalizeMarketOn
<1>2. oo \in Accounts
  BY SoundNow
<1> HIDE DEF ev, makerSells, quote, base, lots
<1>3. a \in AccountType
  BY <1>2 DEF Accounts
<1>4. oo' = [oo EXCEPT ![account] = x]
  BY <1>1, <1>2 DEF Accounts, AccountType
<1> HIDE DEF x1, x2, x3, x4
<1>5. HeldOf(x) = HeldOf(a)
  BY <1>3 DEF HeldOf, AccountType
<1> HIDE DEF x
<1> QED
  BY <1>1, <1>2, <1>4, <1>5, OneHeld, HeldCarries

LEMMA PenaltyCarries ==
  ASSUME IInv, HInv, IInv', NEW slot \in HeapSlot, NEW side \in Side, CancelWithPenalty(slot, side)
  PROVE  Carried
<1> DEFINE ev == heap.event[slot]
           amount == ev.qty * ev.price
           owner == ev.taker
           cpty == ev.maker
           bid == side = "Bid"
           ownerFree == IF bid THEN oo[owner].quote_free_native ELSE oo[owner].base_free_native
           cptyFree == IF bid THEN oo[cpty].base_free_native ELSE oo[cpty].quote_free_native
           pays == amount - ownerFree
           penalty == (amount - cptyFree) \div MarginDivisor
           a == oo[owner]
           b == oo[cpty]
           x1 == IF bid THEN a.quote_free_native + pays ELSE a.quote_free_native + penalty
           x2 == IF bid THEN a.base_free_native + penalty ELSE a.base_free_native + pays
           y1 == IF bid THEN b.asks_base_lots - penalty ELSE b.asks_base_lots
           y2 == IF bid THEN b.bids_quote_lots ELSE b.bids_quote_lots - penalty
           x == [a EXCEPT !.quote_free_native = x1, !.base_free_native = x2]
           y == [b EXCEPT !.asks_base_lots = y1, !.bids_quote_lots = y2]
<1>1. /\ ev # NoEvent /\ ev.type # "Out" /\ owner # cpty /\ leaves' = leaves
      /\ oo' = IF bid
               THEN [oo EXCEPT ![owner].quote_free_native = @ + pays,
                               ![owner].base_free_native = @ + penalty,
                               ![cpty].asks_base_lots = @ - penalty]
               ELSE [oo EXCEPT ![owner].base_free_native = @ + pays,
                               ![owner].quote_free_native = @ + penalty,
                               ![cpty].bids_quote_lots = @ - penalty]
  BY Zenon DEF CancelWithPenalty
<1>2. owner \in Users /\ cpty \in Users
  BY <1>1, PendingIs
<1>3. oo \in Accounts
  BY SoundNow
<1> HIDE DEF ev, amount, owner, cpty, ownerFree, cptyFree, pays, penalty, bid
<1>4. a \in AccountType /\ b \in AccountType
  BY <1>2, <1>3 DEF Accounts
<1>5. oo' = [oo EXCEPT ![owner] = x, ![cpty] = y]
  BY <1>1, <1>2, <1>3 DEF Accounts, AccountType
<1> HIDE DEF x1, x2, y1, y2
<1>6. HeldOf(x) = HeldOf(a) /\ HeldOf(y) = HeldOf(b)
  BY <1>4 DEF HeldOf, AccountType
<1> HIDE DEF x, y
<1> QED
  BY <1>1, <1>2, <1>3, <1>5, <1>6, TwoHeld, HeldCarries

LEMMA FinalizeCarries ==
  ASSUME IInv, HInv, IInv', NEW slot \in HeapSlot, Finalize(slot)
  PROVE  Carried
<1>1. CASE FinalizeMatch(slot) \/ FinalizeMatchDirect(slot)
  <2>1. SettleFill(slot)
    BY <1>1, Zenon DEF FinalizeMatch, FinalizeMatchDirect
  <2> QED
    BY <2>1, SettleFillCarries
<1>2. CASE FinalizeMarket(slot)
  BY <1>2, FinalizeMarketCarries DEF FinalizeMarket
<1>3. CASE FinalizeOut(slot)
  <2>1. leaves' = leaves /\ oo' = oo
    BY <1>3 DEF FinalizeOut
  <2>2. SameHeld(oo, oo')
    BY <2>1 DEF SameHeld
  <2> QED
    BY <2>1, <2>2, HeldCarries
<1>4. CASE \E side \in Side : CancelWithPenalty(slot, side)
  BY <1>4, PenaltyCarries
<1> QED
  BY <1>1, <1>2, <1>3, <1>4, Zenon DEF Finalize

LEMMA IdleCarries ==
  ASSUME IInv, HInv, IInv', leaves' = leaves, oo' = oo
  PROVE  Carried
<1>1. SameHeld(oo, oo')
  BY DEF SameHeld
<1> QED
  BY <1>1, HeldCarries

-----------------------------------------------------------------------------
(* The steps that give an account another reserve: it has no bids then.    *)

\* Lots that are down to zero say that no bid rests.
LEMMA NoBids ==
  ASSUME NEW S \in SUBSET Leaves, IsFiniteSet(S), NEW a \in Accounts, Backed(S, a, Nothing),
         NEW u \in Users, a[u].bids_base_lots = 0
  PROVE  Bids(S, u) = {}
<1> SUFFICES ASSUME NEW l \in Bids(S, u)
             PROVE  FALSE
  OBVIOUS
<1> DEFINE lots == "lots"
<1>1. lots \in Kinds /\ lots # "fees"
  BY DEF Kinds
<1>2. Reserve(lots, a[u]) = 0
  BY DEF Reserve
<1>3. Part(lots, a, l, u) = l.qty
  BY DEF Part, WeightOf, Weight, Bids
<1> HIDE DEF lots
<1>4. l \in S /\ l.qty \in Nat \ {0}
  BY SlotOfIs DEF Bids, Accounts
<1>5. /\ Due(lots, S, a, u) = Due(lots, S \ {l}, a, u) + Part(lots, a, l, u)
      /\ Due(lots, S \ {l}, a, u) \in Nat
  BY <1>1, <1>4, DueWithout DEF Accounts
<1>6. Reserve(lots, a[u]) >= Due(lots, S, a, u) + Nothing[lots][u] /\ Nothing[lots][u] = 0
  BY <1>1, NothingIs DEF Backed, Covered
<1> QED
  BY <1>2, <1>3, <1>4, <1>5, <1>6

LEMMA NoDue ==
  ASSUME NEW kind \in Kinds, NEW S \in SUBSET Leaves, IsFiniteSet(S), NEW a \in Accounts,
         NEW u, Bids(S, u) = {}
  PROVE  Due(kind, S, a, u) = 0
<1>1. Due(kind, S, a, u) = SumFunctionOnSet(Weights(kind, Leaves, a), {})
  BY DueIs, SMTT(30) DEF Accounts
<1> QED
  BY <1>1, SumOfNothing

LEMMA AccountResets ==
  ASSUME IInv, HInv, IInv', NEW u \in Users, leaves' = leaves,
         \A v \in Users \ {u} : oo'[v] = oo[v],
         \A l \in leaves : l.owner = u => SlotOf(oo', l) = SlotOf(oo, l),
         Bids(leaves, u) = {},
         \A kind \in Kinds : Reserve(kind, oo'[u]) >= 0
  PROVE  Backed(leaves', oo', Nothing)
<1> DEFINE c == oo'
<1>1. /\ oo \in Accounts /\ c \in Accounts /\ leaves \in SUBSET Leaves /\ IsFiniteSet(leaves)
      /\ Backed(leaves, oo, Nothing)
  BY SoundNow, AccountsNext DEF HInv
<1>2. \A l \in leaves : SlotOf(c, l) = SlotOf(oo, l)
  <2> TAKE l \in leaves
  <2>1. l.owner \in Users
    BY <1>1, SlotOfIs DEF Accounts
  <2> QED
    BY <2>1 DEF SlotOf
<1>3. \A l \in leaves : HeldIn(c, l)
  BY <1>1, <1>2 DEF HeldIn, Backed
<1>4. ASSUME NEW kind \in Kinds, NEW v \in Users
      PROVE  Reserve(kind, c[v]) >= Due(kind, leaves, c, v) + Nothing[kind][v]
  <2>1. Nothing[kind][v] = 0
    BY NothingIs
  <2>2. CASE v = u
    <3>1. Due(kind, leaves, c, u) = 0
      <4> HIDE DEF c
      <4> QED
        BY <1>1, NoDue
    <3> QED
      BY <2>1, <2>2, <3>1
  <2>3. CASE v # u
    <3>1. Due(kind, leaves, c, v) = Due(kind, leaves, oo, v)
      <4> HIDE DEF c
      <4> QED
        BY <1>1, <1>2, DueAgrees DEF Accounts, Bids
    <3>2. Reserve(kind, oo[v]) >= Due(kind, leaves, oo, v) + Nothing[kind][v]
      BY <1>1 DEF Backed, Covered
    <3> QED
      BY <2>3, <3>1, <3>2
  <2> QED
    BY <2>2, <2>3
<1>5. Backed(leaves, c, Nothing)
  BY <1>3, <1>4 DEF Backed, Covered
<1> QED
  BY <1>5

LEMMA SettleCarries ==
  ASSUME IInv, HInv, IInv', NEW u \in Users, NEW referrer, SettleFunds(u, referrer)
  PROVE  Carried
<1> DEFINE a == oo[u]
           roundoff == IF MakerFee > 0 /\ a.bids_base_lots = 0 THEN a.locked_maker_fees ELSE 0
           fees == a.locked_maker_fees - roundoff
           x == [a EXCEPT !.locked_maker_fees = fees, !.base_free_native = 0,
                          !.quote_free_native = 0, !.penalty_heap_count = 0]
<1>1. /\ leaves' = leaves
      /\ oo' = [oo EXCEPT ![u].locked_maker_fees = @ - roundoff,
                          ![u].base_free_native = 0, ![u].quote_free_native = 0,
                          ![u].penalty_heap_count = 0]
  BY Zenon DEF SettleFunds
<1>2. oo \in Accounts /\ a \in AccountType /\ leaves \in SUBSET Leaves /\ IsFiniteSet(leaves)
  BY SoundNow DEF Accounts
<1>3. a.locked_maker_fees \in Nat
  BY <1>2 DEF AccountType
<1>4. oo' = [oo EXCEPT ![u] = x]
  BY <1>1, <1>2 DEF Accounts, AccountType
<1>5. a.bids_base_lots # 0 => fees = a.locked_maker_fees
  BY <1>3
<1>6. fees >= 0
  BY <1>3
<1> HIDE DEF fees, roundoff
<1>7. /\ x.open_orders = a.open_orders /\ x.open = a.open /\ x.bids_base_lots = a.bids_base_lots
      /\ x.locked_maker_fees = fees
  BY <1>2 DEF AccountType
<1> HIDE DEF x
<1>8. CASE a.bids_base_lots # 0
  <2>1. HeldOf(x) = HeldOf(a)
    BY <1>5, <1>7, <1>8 DEF HeldOf
  <2> QED
    BY <1>1, <1>2, <1>4, <2>1, OneHeld, HeldCarries
<1>9. CASE a.bids_base_lots = 0
  <2>1. Bids(leaves, u) = {}
    BY <1>2, <1>9, NoBids DEF HInv
  <2>2. oo'[u] = x /\ \A v \in Users \ {u} : oo'[v] = oo[v]
    BY <1>2, <1>4 DEF Accounts
  <2>3. \A l \in leaves : l.owner = u => SlotOf(oo', l) = SlotOf(oo, l)
    BY <1>7, <2>2 DEF SlotOf
  <2>4. \A kind \in Kinds : Reserve(kind, oo'[u]) >= 0
    BY <1>6, <1>7, <1>9, <2>2 DEF Reserve
  <2>5. Backed(leaves', oo', Nothing)
    BY <1>1, <2>1, <2>2, <2>3, <2>4, AccountResets
  <2>6. SameOpen(oo, oo')
    BY <1>7, <2>2 DEF SameOpen
  <2> QED
    BY <2>5, <2>6 DEF Carried
<1> QED
  BY <1>8, <1>9

\* No account that is not there owns an order.
LeavesOwned(accounts, S) == \A l \in S : accounts[l.owner].open

LEMMA AccountLifeCarries ==
  ASSUME IInv, HInv, IInv', LeavesOwned(oo, leaves), LeavesOwned(oo', leaves'), NEW u \in Users,
         CloseOpenOrdersAccount(u) \/ CreateOpenOrdersAccount(u)
  PROVE  Backed(leaves', oo', Nothing)
<1> DEFINE closed == [NewAccount EXCEPT !.open = FALSE]
<1>1. oo \in Accounts /\ leaves \in SUBSET Leaves /\ IsFiniteSet(leaves)
  BY SoundNow
<1>2. leaves' = leaves
  BY DEF CloseOpenOrdersAccount, CreateOpenOrdersAccount
<1>3. /\ ~closed.open /\ NewAccount.open
      /\ closed.bids_base_lots = 0 /\ NewAccount.bids_base_lots = 0
      /\ closed.locked_maker_fees = 0 /\ NewAccount.locked_maker_fees = 0
  BY DEF NewAccount
<1>4. \/ oo' = [oo EXCEPT ![u] = closed]
      \/ ~oo[u].open /\ oo' = [oo EXCEPT ![u] = NewAccount]
  BY DEF CloseOpenOrdersAccount, CreateOpenOrdersAccount
<1> HIDE DEF closed
<1>5. /\ oo'[u] = closed \/ (oo'[u] = NewAccount /\ ~oo[u].open)
      /\ \A v \in Users \ {u} : oo'[v] = oo[v]
  <2> HIDE DEF NewAccount
  <2> QED
    BY <1>1, <1>4 DEF Accounts
<1> HIDE DEF NewAccount
<1>6. \A l \in leaves : l.owner # u
  BY <1>2, <1>3, <1>5 DEF LeavesOwned
<1>7. Bids(leaves, u) = {}
  BY <1>6 DEF Bids
<1>8. \A kind \in Kinds : Reserve(kind, oo'[u]) >= 0
  BY <1>3, <1>5 DEF Reserve
<1> QED
  BY <1>2, <1>5, <1>6, <1>7, <1>8, AccountResets

-----------------------------------------------------------------------------
(* Every step.                                                             *)

LEMMA AccountHeld ==
  ASSUME IInv, HInv, IInv', NEW u \in Users, WithAccount(u)
  PROVE  Carried
<1>1. CASE \E order \in Orders, remaining \in RemainingSets : PlaceOrder(u, order, remaining)
  BY <1>1, PlaceOrderCarries
<1>2. CASE \E slot \in OrderSlot, expected \in EditSizes, order \in Orders,
              remaining \in RemainingSets : EditOrder(u, slot, expected, order, remaining)
  BY <1>2, EditOrderCarries
<1>3. CASE \E batch \in Batches, remaining \in RemainingSets :
             CancelAndPlaceOrders(u, batch, remaining)
  BY <1>3, CancelAndPlaceCarries
<1>4. CASE \E slot \in OrderSlot : CancelOneOrder(u, slot)
  BY <1>4, CancelOneCarries
<1>5. CASE \E sides \in {{"Bid"}, {"Ask"}, Side}, limit \in CancelLimits :
             CancelAll(u, sides, limit)
  BY <1>5, CancelAllCarries
<1>6. CASE \E limit \in CancelLimits : PruneOrders(u, limit)
  BY <1>6, CancelAllCarries
<1>7. CASE \E amount \in Deposits : Deposit(u, amount.base, amount.quote)
  BY <1>7, DepositCarries
<1>8. CASE \E referrer \in Referrers : SettleFunds(u, referrer)
  BY <1>8, SettleCarries
<1> QED
  BY <1>1, <1>2, <1>3, <1>4, <1>5, <1>6, <1>7, <1>8, Zenon DEF WithAccount

\* Only the two instructions that make and close accounts change which are open.
LEMMA StepCarries ==
  ASSUME IInv, HInv, IInv', [Next]_vars
  PROVE  \/ Carried
         \/ \E u \in Users : CloseOpenOrdersAccount(u) \/ CreateOpenOrdersAccount(u)
<1>1. ASSUME NEW u \in Users, Trade(u)
      PROVE  \/ Carried
             \/ CloseOpenOrdersAccount(u) \/ CreateOpenOrdersAccount(u)
  <2>1. CASE WithAccount(u)
    BY <2>1, AccountHeld
  <2>2. CASE \E order \in TakeOrders, remaining \in RemainingSets, referrer \in Referrers :
               PlaceTakeOrder(u, order, remaining, referrer)
    BY <2>2, PlaceTakeCarries
  <2> QED
    BY <1>1, <2>1, <2>2, Zenon DEF Trade
<1>2. CASE \E slot \in HeapSlot : Finalize(slot)
  BY <1>2, FinalizeCarries
<1>3. CASE Administer \/ Tick \/ OracleMoves \/ UNCHANGED vars
  <2>1. leaves' = leaves /\ oo' = oo
    BY <1>3 DEF Administer, SweepFees, SetMarketExpired, CloseMarket, Tick, OracleMoves, vars
  <2> QED
    BY <2>1, IdleCarries
<1> QED
  BY <1>1, <1>2, <1>3, Zenon DEF Next

LEMMA InitHInv == Init => HInv
<1> SUFFICES ASSUME Init
             PROVE  HInv
  OBVIOUS
<1>1. oo \in Accounts /\ leaves = {} /\ IsFiniteSet(leaves) /\ leaves \in SUBSET Leaves
  <2>1. leaves = {} /\ oo = [u \in Users |-> NewAccount]
    BY DEF Init
  <2> HIDE DEF NewAccount
  <2> QED
    BY <2>1, NewAccountIs, FS_EmptySet DEF Accounts
<1>2. ASSUME NEW kind \in Kinds, NEW u \in Users
      PROVE  Reserve(kind, oo[u]) >= Due(kind, leaves, oo, u) + Nothing[kind][u]
  <2>1. Bids(leaves, u) = {}
    BY <1>1 DEF Bids
  <2>2. Due(kind, leaves, oo, u) = 0
    BY <1>1, <2>1, NoDue
  <2>3. Reserve(kind, oo[u]) = 0
    BY DEF Init, NewAccount, Reserve
  <2> QED
    BY <2>2, <2>3, NothingIs
<1> QED
  BY <1>1, <1>2 DEF HInv, Backed, Covered

LEMMA HeldFollows == IInv /\ HInv => LeafHasSlot /\ FeesCoverBids
<1> SUFFICES ASSUME IInv, HInv
             PROVE  LeafHasSlot /\ FeesCoverBids
  OBVIOUS
<1>1. LeafHasSlot
  BY DEF HInv, Backed, HeldIn, SlotOf, LeafHasSlot
<1>2. ASSUME NEW u \in Users
      PROVE  oo[u].locked_maker_fees
               >= SumOver(RestingOf(u, "Bid"), LAMBDA l : LockedFee(l.qty, LockedAt(l)))
  <2> DEFINE fees == "fees"
  <2>1. fees \in Kinds /\ Nothing[fees][u] = 0
    BY NothingIs DEF Kinds
  <2>2. Reserve(fees, oo[u]) >= Due(fees, leaves, oo, u) + Nothing[fees][u]
    BY <2>1 DEF HInv, Backed, Covered
  <2>3. Reserve(fees, oo[u]) = oo[u].locked_maker_fees
    BY DEF Reserve
  <2>4. Due(fees, leaves, oo, u)
          = SumOver(RestingOf(u, "Bid"), LAMBDA l : LockedFee(l.qty, LockedAt(l)))
    BY DEF Due, SumOver, RestingOf, LockedAt, WeightOf, Weight, SlotOf, Bids
  <2>5. Due(fees, leaves, oo, u) \in Nat
    BY <2>1, SoundNow, DueIs DEF Accounts
  <2> QED
    BY <2>1, <2>2, <2>3, <2>4, <2>5
<1> QED
  BY <1>1, <1>2, Zenon DEF FeesCoverBids

\* An account that owns an order is there.
LEMMA OrphansOwned ==
  ASSUME IInv, NoOrphans
  PROVE  LeavesOwned(oo, leaves)
<1> SUFFICES ASSUME NEW l \in leaves
             PROVE  oo[l.owner].open
  BY DEF LeavesOwned
<1>1. l.owner \in Users
  BY TypesNow DEF Leaves, LeafType
<1> QED
  BY <1>1 DEF NoOrphans

LEMMA OrphansOwnedNext == IInv' /\ NoOrphans' => LeavesOwned(oo', leaves')
<1> SUFFICES ASSUME IInv', NoOrphans', NEW l \in leaves'
             PROVE  oo'[l.owner].open
  BY DEF LeavesOwned
<1>1. l.owner \in Users
  BY BookNow DEF IInv, Fields, Leaves, LeafType
<1> QED
  BY <1>1 DEF NoOrphans

LEMMA HeldStep ==
  IInv /\ HInv /\ IInv' /\ NoOrphans /\ NoOrphans' /\ [Next]_vars => HInv'
<1> SUFFICES ASSUME IInv, HInv, IInv', NoOrphans, NoOrphans', [Next]_vars
             PROVE  HInv'
  OBVIOUS
<1>1. LeavesOwned(oo, leaves) /\ LeavesOwned(oo', leaves')
  BY OrphansOwned, OrphansOwnedNext
<1>2. Backed(leaves', oo', Nothing)
  BY <1>1, StepCarries, AccountLifeCarries DEF Carried
<1> QED
  BY <1>2 DEF HInv

\* While no account is closed, all are open.
AllOpen == \A u \in Users : oo[u].open
LEMMA OpenStep ==
  ~MayClose /\ AllOpen /\ IInv /\ HInv /\ IInv' /\ [Next]_vars => AllOpen' /\ HInv'
<1> SUFFICES ASSUME ~MayClose, AllOpen, IInv, HInv, IInv', [Next]_vars
             PROVE  AllOpen' /\ HInv'
  OBVIOUS
<1>1. ASSUME NEW u \in Users, CloseOpenOrdersAccount(u) \/ CreateOpenOrdersAccount(u)
      PROVE  FALSE
  BY <1>1 DEF CloseOpenOrdersAccount, CreateOpenOrdersAccount, AllOpen
<1>2. Carried
  BY <1>1, StepCarries
<1> QED
  BY <1>2 DEF Carried, SameOpen, AllOpen, HInv

-----------------------------------------------------------------------------
(* The theorems.                                                           *)

(* What an account holds for its orders, in every behaviour in which no    *)
(* account is closed over an order of its own or opened again over one:    *)
(* the slot of each order, its lots, and the maker fee of each bid.        *)
THEOREM HeldInv == Spec /\ []NoOrphans => []HInv
BY InitHInv, HeldStep, FermiInv, PTL DEF Spec

(* Every resting order is held by the slot of its owner's account that it  *)
(* names, and the slot by no other order (LeafHasSlot): whoever takes the  *)
(* order off the book, by a cancellation, an expiry, an eviction, a match  *)
(* or a self trade, frees the slot of that order.                          *)
THEOREM SlotsHoldOrders == Spec /\ []NoOrphans => []LeafHasSlot
BY HeldInv, HeldFollows, FermiInv, PTL

(* An account holds back the maker fee of each of its resting bids, rounded *)
(* up (FeesCoverBids), so that no cancellation or expiry underflows the    *)
(* fees that are locked, whatever part of an order has been matched.       *)
THEOREM FeesHeldForBids == Spec /\ []NoOrphans => []FeesCoverBids
BY HeldInv, HeldFollows, FermiInv, PTL

(* Both, with no condition on the behaviour, for users who keep their      *)
(* accounts.                                                               *)
THEOREM HeldWhileOpen ==
  ASSUME ~MayClose
  PROVE  Spec => [](LeafHasSlot /\ FeesCoverBids)
<1>1. Init => AllOpen
  BY DEF Init, AllOpen, NewAccount
<1>2. AllOpen /\ IInv /\ HInv /\ IInv' /\ [Next]_vars => AllOpen' /\ HInv'
  BY OpenStep
<1>3. Spec => [](AllOpen /\ HInv)
  BY <1>1, <1>2, InitHInv, FermiInv, PTL DEF Spec
<1> QED
  BY <1>3, HeldFollows, FermiInv, PTL
=============================================================================

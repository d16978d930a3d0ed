----------------------------- MODULE TotalsProofs -----------------------------
(***************************************************************************)
(* What the market owes: the free balances and the fees of the accounts,   *)
(* what the orders on the book bring back when they are cancelled, and     *)
(* what the pending matches bring when they are finalized.                 *)
(***************************************************************************)
EXTENDS MarginProofs

-----------------------------------------------------------------------------
(* The amounts.  A maker fee that is locked is owed as quote: it goes back *)
(* to the account, to the market or to a referrer.                         *)

Coins == {"base", "quote"}
Native(coin, qty, price) == IF coin = "base" THEN qty * BaseLotSize ELSE LockedQuote(qty, price)

AccountHas(coin, a) ==
  IF coin = "base" THEN a.base_free_native ELSE a.quote_free_native + a.locked_maker_fees
AccountParts(coin, accounts) == [u \in Users |-> AccountHas(coin, accounts[u])]
AccountSum(coin, accounts) == SumFunctionOnSet(AccountParts(coin, accounts), Users)

\* A bid brings quote back, an ask base.
LeafBrings(coin, l) == IF coin = TokenOf(l.side) THEN Native(coin, l.qty, LockOf(l)) ELSE 0
LeafCoins(coin) == [l \in Leaves |-> LeafBrings(coin, l)]
LeafTotal(coin, S) == SumFunctionOnSet(LeafCoins(coin), S)

\* A match with an account brings base to its buyer and quote to its seller; the
\* taker of a market order without one took what it buys off the totals already.
EventBrings(coin, ev) ==
  IF ev = NoEvent THEN 0
  ELSE IF ev.type = "Out" THEN 0
  ELSE IF ev.type = "Fill" \/ ev.by_account THEN Native(coin, ev.qty, ev.price) ELSE 0
EventCoins(coin, event) == [s \in HeapSlot |-> EventBrings(coin, event[s])]
EventTotal(coin, event) == SumFunctionOnSet(EventCoins(coin, event), HeapSlot)

Owed(coin, accounts, S, event) ==
  AccountSum(coin, accounts) + LeafTotal(coin, S) + EventTotal(coin, event)
OwedIn(coin, b) == Owed(coin, b.oo, b.leaves, b.heap.event)

LEMMA NativeNat ==
  ASSUME NEW coin, NEW qty \in Nat, NEW price \in Nat
  PROVE  Native(coin, qty, price) \in Nat
<1>1. LockedQuote(qty, price) \in Nat
  BY LockedNat, MarketAssumption
<1>2. qty * BaseLotSize \in Nat
  BY MarketAssumption, ProductNat DEF MarketAssumption
<1> QED
  BY <1>1, <1>2 DEF Native

LEMMA NativeMonotonic ==
  ASSUME NEW coin, NEW qty \in Nat, NEW p \in Nat, NEW q \in Nat, coin = "quote" => p <= q,
         coin \in Coins
  PROVE  Native(coin, qty, p) <= Native(coin, qty, q)
<1>1. CASE coin = "base"
  <2>1. qty * BaseLotSize \in Nat
    BY MarketAssumption, ProductNat DEF MarketAssumption
  <2> QED
    BY <1>1, <2>1 DEF Native
<1>2. CASE coin = "quote"
  <2>1. qty * p \in Nat /\ qty * q \in Nat /\ qty * p <= qty * q
    BY <1>2, ProductNat, ProductMonotonic
  <2>2. QuoteLotSize \in Nat
    BY MarketAssumption DEF MarketAssumption
  <2> DEFINE x == qty * p
             y == qty * q
  <2>3. x \in Int /\ y \in Int /\ x <= y
    BY <2>1
  <2> HIDE DEF x, y
  <2>4. x * QuoteLotSize <= y * QuoteLotSize
    BY <2>2, <2>3, ProductMonotonic
  <2> QED
    BY <1>2, <2>4 DEF Native, LockedQuote, x, y
<1> QED
  BY <1>1, <1>2 DEF Coins

LEMMA NativeAdds ==
  ASSUME NEW coin, NEW x \in Nat, NEW y \in Nat, NEW price \in Nat
  PROVE  Native(coin, x + y, price) = Native(coin, x, price) + Native(coin, y, price)
<1>1. BaseLotSize \in Nat /\ QuoteLotSize \in Nat
  BY MarketAssumption DEF MarketAssumption
<1>2. (x + y) * BaseLotSize = x * BaseLotSize + y * BaseLotSize
  BY <1>1
<1>3. (x + y) * price * QuoteLotSize = x * price * QuoteLotSize + y * price * QuoteLotSize
  <2> DEFINE p == x * price
             q == y * price
  <2>1. p \in Nat /\ q \in Nat /\ (x + y) * price = p + q
    BY ProductNat
  <2> HIDE DEF p, q
  <2>2. (p + q) * QuoteLotSize = p * QuoteLotSize + q * QuoteLotSize
    BY <1>1, <2>1
  <2> QED
    BY <2>1, <2>2 DEF p, q
<1> QED
  BY <1>2, <1>3 DEF Native, LockedQuote

LEMMA AccountHasNat ==
  ASSUME NEW coin, NEW a \in AccountType
  PROVE  AccountHas(coin, a) \in Nat
BY DEF AccountHas, AccountType

LEMMA LeafBringsNat ==
  ASSUME NEW coin, NEW l \in Leaves
  PROVE  LeafBrings(coin, l) \in Nat
BY LockOfNat, NativeNat DEF LeafBrings

LEMMA EventBringsNat ==
  ASSUME NEW coin, NEW ev \in EventType \cup {NoEvent}
  PROVE  EventBrings(coin, ev) \in Nat
<1>1. CASE ev = NoEvent \/ ev.type = "Out"
  BY <1>1 DEF EventBrings
<1>2. CASE ev # NoEvent /\ ev.type # "Out"
  <2>1. ev.qty \in Nat /\ ev.price \in Nat
    BY <1>2 DEF EventType
  <2>2. Native(coin, ev.qty, ev.price) \in Nat
    BY <2>1, NativeNat
  <2> QED
    BY <1>2, <2>2 DEF EventBrings
<1> QED
  BY <1>1, <1>2

-----------------------------------------------------------------------------
(* The sums, and what a change of one account, leaf or event does to them. *)

LEMMA AccountSumIs ==
  ASSUME NEW coin, NEW accounts \in Accounts
  PROVE  /\ AccountSum(coin, accounts) \in Nat
         /\ \A u \in Users : /\ AccountParts(coin, accounts)[u] = AccountHas(coin, accounts[u])
                             /\ AccountParts(coin, accounts)[u] \in Nat
<1>1. \A u \in Users : /\ AccountParts(coin, accounts)[u] = AccountHas(coin, accounts[u])
                       /\ AccountParts(coin, accounts)[u] \in Nat
  BY AccountHasNat DEF AccountParts, Accounts
<1> DEFINE f == AccountParts(coin, accounts)
<1>2. \A u \in Users : f[u] \in Nat
  BY <1>1
<1> HIDE DEF f
<1>3. SumFunctionOnSet(f, Users) \in Nat
  BY <1>2, SumNat, FermiAssumption
<1> QED
  BY <1>1, <1>3 DEF AccountSum, f

\* All accounts but one have what they had.
LEMMA AccountSumSet ==
  ASSUME NEW coin, NEW accounts \in Accounts, NEW after \in Accounts, NEW u \in Users,
         \A v \in Users \ {u} : AccountHas(coin, after[v]) = AccountHas(coin, accounts[v])
  PROVE  AccountSum(coin, after)
           = AccountSum(coin, accounts) - AccountHas(coin, accounts[u]) + AccountHas(coin, after[u])
<1> DEFINE f == AccountParts(coin, accounts)
           g == AccountParts(coin, after)
<1>1. \A v \in Users : f[v] = AccountHas(coin, accounts[v]) /\ f[v] \in Nat
  BY AccountSumIs
<1>2. \A v \in Users : g[v] = AccountHas(coin, after[v]) /\ g[v] \in Nat
  BY AccountSumIs
<1> HIDE DEF f, g
<1>3. /\ \A v \in Users : f[v] \in Int /\ g[v] \in Int
      /\ \A v \in Users \ {u} : g[v] = f[v]
  BY <1>1, <1>2
<1>4. SumFunctionOnSet(g, Users) = SumFunctionOnSet(f, Users) - f[u] + g[u]
  <2>1. IsFiniteSet(Users)
    BY FermiAssumption
  <2>2. \A v \in Users : f[v] \in Int /\ g[v] \in Int
    BY <1>3
  <2>3. \A v \in Users \ {u} : g[v] = f[v]
    BY <1>3
  <2> QED
    BY <2>1, <2>2, <2>3, SumChange
<1> QED
  BY <1>1, <1>2, <1>4 DEF AccountSum, f, g

LEMMA AccountSumSame ==
  ASSUME NEW coin, NEW accounts \in Accounts, NEW after \in Accounts,
         \A v \in Users : AccountHas(coin, after[v]) = AccountHas(coin, accounts[v])
  PROVE  AccountSum(coin, after) = AccountSum(coin, accounts)
<1>1. AccountParts(coin, after) = AccountParts(coin, accounts)
  BY DEF AccountParts
<1> QED
  BY <1>1 DEF AccountSum

LEMMA LeafTotalIs ==
  ASSUME NEW coin, NEW S \in SUBSET Leaves, IsFiniteSet(S)
  PROVE  /\ LeafTotal(coin, S) \in Nat
         /\ \A l \in Leaves : LeafCoins(coin)[l] = LeafBrings(coin, l) /\ LeafCoins(coin)[l] \in Nat
<1>1. \A l \in Leaves : LeafCoins(coin)[l] = LeafBrings(coin, l) /\ LeafCoins(coin)[l] \in Nat
  BY LeafBringsNat DEF LeafCoins
<1> DEFINE f == LeafCoins(coin)
<1>2. \A l \in S : f[l] \in Nat
  BY <1>1
<1> HIDE DEF f
<1>3. SumFunctionOnSet(f, S) \in Nat
  BY <1>2, SumNat
<1> QED
  BY <1>1, <1>3 DEF LeafTotal, f

LEMMA LeafTotalWith ==
  ASSUME NEW coin, NEW S \in SUBSET Leaves, IsFiniteSet(S), NEW l \in Leaves, l \notin S
  PROVE  LeafTotal(coin, S \cup {l}) = LeafTotal(coin, S) + LeafBrings(coin, l)
<1> DEFINE f == LeafCoins(coin)
<1>1. \A k \in Leaves : f[k] = LeafBrings(coin, k) /\ f[k] \in Nat
  BY LeafTotalIs
<1> HIDE DEF f
<1>2. f[l] = LeafBrings(coin, l) /\ f[l] \in Int /\ \A k \in S : f[k] \in Int
  BY <1>1
<1>3. SumFunctionOnSet(f, S \cup {l}) = SumFunctionOnSet(f, S) + f[l]
  BY <1>2, SumWith
<1> QED
  BY <1>2, <1>3 DEF LeafTotal, f

LEMMA LeafTotalWithout ==
  ASSUME NEW coin, NEW S \in SUBSET Leaves, IsFiniteSet(S), NEW l \in S
  PROVE  /\ LeafTotal(coin, S) = LeafTotal(coin, S \ {l}) + LeafBrings(coin, l)
         /\ LeafTotal(coin, S \ {l}) \in Nat /\ LeafBrings(coin, l) \in Nat
<1> DEFINE T == S \ {l}
<1>1. T \in SUBSET Leaves /\ IsFiniteSet(T) /\ l \in Leaves /\ l \notin T /\ T \cup {l} = S
  BY FS_RemoveElement
<1> HIDE DEF T
<1>2. LeafTotal(coin, T \cup {l}) = LeafTotal(coin, T) + LeafBrings(coin, l)
  BY <1>1, LeafTotalWith
<1>3. LeafTotal(coin, T) \in Nat /\ LeafBrings(coin, l) \in Nat
  BY <1>1, LeafTotalIs, LeafBringsNat
<1> QED
  BY <1>1, <1>2, <1>3 DEF T

LEMMA EventTotalIs ==
  ASSUME NEW coin, NEW event \in [HeapSlot -> EventType \cup {NoEvent}]
  PROVE  /\ EventTotal(coin, event) \in Nat
         /\ \A s \in HeapSlot : /\ EventCoins(coin, event)[s] = EventBrings(coin, event[s])
                                /\ EventCoins(coin, event)[s] \in Nat
<1>1. \A s \in HeapSlot : /\ EventCoins(coin, event)[s] = EventBrings(coin, event[s])
                          /\ EventCoins(coin, event)[s] \in Nat
  BY EventBringsNat DEF EventCoins
<1> DEFINE f == EventCoins(coin, event)
<1>2. \A s \in HeapSlot : f[s] \in Nat
  BY <1>1
<1> HIDE DEF f
<1>3. SumFunctionOnSet(f, HeapSlot) \in Nat
  BY <1>2, SumNat, HeapSlotFinite
<1> QED
  BY <1>1, <1>3 DEF EventTotal, f

LEMMA EventTotalSet ==
  ASSUME NEW coin, NEW event \in [HeapSlot -> EventType \cup {NoEvent}],
         NEW s \in HeapSlot, NEW ev \in EventType \cup {NoEvent},
         NEW after, after = [event EXCEPT ![s] = ev]
  PROVE  EventTotal(coin, after)
           = EventTotal(coin, event) - EventBrings(coin, event[s]) + EventBrings(coin, ev)
<1> DEFINE f == EventCoins(coin, event)
           g == EventCoins(coin, after)
<1>1. /\ after \in [HeapSlot -> EventType \cup {NoEvent}] /\ after[s] = ev
      /\ \A t \in HeapSlot \ {s} : after[t] = event[t]
  OBVIOUS
<1>2. \A t \in HeapSlot : f[t] = EventBrings(coin, event[t]) /\ f[t] \in Nat
  BY EventTotalIs
<1>3. \A t \in HeapSlot : g[t] = EventBrings(coin, after[t]) /\ g[t] \in Nat
  <2>1. after \in [HeapSlot -> EventType \cup {NoEvent}]
    BY <1>1
  <2> QED
    BY <2>1, EventTotalIs, Zenon
<1> HIDE DEF f, g
<1>4. f[s] = EventBrings(coin, event[s]) /\ g[s] = EventBrings(coin, ev)
      /\ \A t \in HeapSlot \ {s} : g[t] = f[t]
  BY <1>1, <1>2, <1>3
<1>5. \A t \in HeapSlot : f[t] \in Int /\ g[t] \in Int
  BY <1>2, <1>3
<1>6. SumFunctionOnSet(g, HeapSlot) = SumFunctionOnSet(f, HeapSlot) - f[s] + g[s]
  <2>1. \A t \in HeapSlot \ {s} : g[t] = f[t]
    BY <1>4
  <2> QED
    BY <1>5, <2>1, SumChange, HeapSlotFinite
<1> QED
  BY <1>4, <1>6 DEF EventTotal, f, g

LEMMA OwedIs ==
  ASSUME NEW coin, NEW b \in Books
  PROVE  /\ OwedIn(coin, b) = AccountSum(coin, b.oo) + LeafTotal(coin, b.leaves)
                                + EventTotal(coin, b.heap.event)
         /\ AccountSum(coin, b.oo) \in Nat /\ LeafTotal(coin, b.leaves) \in Nat
         /\ EventTotal(coin, b.heap.event) \in Nat /\ OwedIn(coin, b) \in Nat
<1>1. /\ b.leaves \in SUBSET Leaves /\ IsFiniteSet(b.leaves) /\ b.oo \in Accounts
      /\ b.heap.event \in [HeapSlot -> EventType \cup {NoEvent}]
  BY DEF Books, BookType, Heaps, Accounts
<1>2. AccountSum(coin, b.oo) \in Nat
  BY <1>1, AccountSumIs
<1>3. LeafTotal(coin, b.leaves) \in Nat
  BY <1>1, LeafTotalIs
<1>4. EventTotal(coin, b.heap.event) \in Nat
  BY <1>1, EventTotalIs
<1> QED
  BY <1>2, <1>3, <1>4 DEF OwedIn, Owed

-----------------------------------------------------------------------------
(* An order that leaves the book brings its account what its leaf is owed, *)
(* or, where an Out event takes its place, nothing.                        *)

LEMMA CancelSlotPays ==
  ASSUME NEW a \in AccountType, NEW slot \in OrderSlot, NEW qty \in Nat,
         CancelSlotFits(a, slot, qty)
  PROVE  LET c == CancelSlot(a, slot, qty)
             o == a.open_orders[slot]
         IN  /\ c.base_free_native =
                  a.base_free_native + IF o.side = "Bid" THEN 0 ELSE qty * BaseLotSize
             /\ c.quote_free_native + c.locked_maker_fees =
                  a.quote_free_native + a.locked_maker_fees
                    + IF o.side = "Bid" THEN LockedQuote(qty, o.locked_price) ELSE 0
<1> DEFINE o == a.open_orders[slot]
           quote == LockedQuote(qty, o.locked_price)
           fee == LockedFee(qty, o.locked_price)
           base == qty * BaseLotSize
           c == CancelSlot(a, slot, qty)
<1>1. o.side \in Side /\ o.locked_price \in Nat
  BY DEF AccountType
<1>2. quote \in Nat /\ fee \in Nat /\ base \in Nat
  BY <1>1, MarketAssumption, LockedNat, ProductNat DEF MarketAssumption
<1>3. /\ a.base_free_native \in Nat /\ a.quote_free_native \in Nat /\ a.locked_maker_fees \in Nat
  BY DEF AccountType
<1>4. /\ c.base_free_native = IF o.side = "Bid" THEN a.base_free_native ELSE a.base_free_native + base
      /\ c.quote_free_native = IF o.side = "Bid" THEN a.quote_free_native + quote + fee
                               ELSE a.quote_free_native
  <2> HIDE DEF FreeOrder, quote, fee, base
  <2>1. CASE o.side = "Bid"
    BY <2>1 DEF CancelSlot, RemoveOrder, AccountType, quote, fee
  <2>2. CASE o.side # "Bid"
    BY <2>2 DEF CancelSlot, RemoveOrder, AccountType, base
  <2> QED
    BY <2>1, <2>2
<1>5. c.locked_maker_fees = a.locked_maker_fees - IF o.side = "Bid" THEN fee ELSE 0
  BY CancelSlotKeeps
<1> HIDE DEF o, quote, fee, base, c
<1>6. /\ c.base_free_native = a.base_free_native + IF o.side = "Bid" THEN 0 ELSE base
      /\ c.quote_free_native + c.locked_maker_fees =
           a.quote_free_native + a.locked_maker_fees + IF o.side = "Bid" THEN quote ELSE 0
  BY <1>2, <1>3, <1>4, <1>5
<1> QED
  BY <1>6 DEF o, quote, base, c

LEMMA CancelBrings ==
  ASSUME NEW accounts \in Accounts, NEW l \in Leaves, HeldIn(accounts, l),
         NEW c \in Accounts, LeafCancelled(accounts, l, c), NEW coin \in Coins
  PROVE  AccountSum(coin, c) = AccountSum(coin, accounts) + LeafBrings(coin, l)
<1> DEFINE u == l.owner
           o == SlotOf(accounts, l)
           a == accounts[u]
           d == CancelSlot(a, l.owner_slot, l.qty)
<1>1. /\ u \in Users /\ l.owner_slot \in OrderSlot /\ l.qty \in Nat /\ LockOf(l) \in Nat
      /\ a \in AccountType /\ l.side \in Side
  BY SlotOfIs, LockOfNat DEF Accounts, Leaves, LeafType
<1>2. /\ d.base_free_native =
           a.base_free_native + IF o.side = "Bid" THEN 0 ELSE l.qty * BaseLotSize
      /\ d.quote_free_native + d.locked_maker_fees =
           a.quote_free_native + a.locked_maker_fees
             + IF o.side = "Bid" THEN LockedQuote(l.qty, o.locked_price) ELSE 0
  <2>1. o = a.open_orders[l.owner_slot]
    BY DEF SlotOf
  <2>2. CancelSlotFits(a, l.owner_slot, l.qty)
    BY DEF LeafCancelled
  <2> HIDE DEF o, a
  <2> QED
    BY <1>1, <2>1, <2>2, CancelSlotPays
<1>3. o.side = l.side /\ (l.side = "Bid" => o.locked_price = LockOf(l))
  BY DEF HeldIn
<1>4. c[u] = d /\ \A v \in Users : v # u => c[v] = accounts[v]
  BY <1>1 DEF Accounts, LeafCancelled
<1> HIDE DEF o, d
<1>5. a.base_free_native \in Nat /\ a.quote_free_native \in Nat /\ a.locked_maker_fees \in Nat
  BY <1>1 DEF AccountType
<1>6. AccountHas(coin, d) = AccountHas(coin, a) + LeafBrings(coin, l)
  <2>1. l.side = "Bid" \/ l.side = "Ask"
    BY <1>1 DEF Side
  <2>2. CASE coin = "base"
    BY <1>2, <1>3, <1>5, <2>1, <2>2 DEF AccountHas, LeafBrings, TokenOf, Native
  <2>3. CASE coin = "quote"
    BY <1>2, <1>3, <1>5, <2>1, <2>3 DEF AccountHas, LeafBrings, TokenOf, Native
  <2> QED
    BY <2>2, <2>3 DEF Coins
<1>7. AccountSum(coin, c) = AccountSum(coin, accounts) - AccountHas(coin, a) + AccountHas(coin, c[u])
  <2>1. \A v \in Users \ {u} : AccountHas(coin, c[v]) = AccountHas(coin, accounts[v])
    BY <1>4
  <2> QED
    BY <1>1, <2>1, AccountSumSet
<1>8. AccountSum(coin, accounts) \in Nat /\ AccountHas(coin, a) \in Nat /\ LeafBrings(coin, l) \in Nat
  BY <1>1, AccountSumIs, AccountHasNat, LeafBringsNat
<1> QED
  BY <1>4, <1>6, <1>7, <1>8

LEMMA OwedDrop ==
  ASSUME NEW b \in Books, NEW l \in b.leaves, HeldIn(b.oo, l), NEW present,
         NEW c, c = DropFromBook(b, l, present), c.ok
  PROVE  b.ok /\ \A coin \in Coins : OwedIn(coin, c) <= OwedIn(coin, b)
<1>1. /\ l \in Leaves /\ b.leaves \in SUBSET Leaves /\ IsFiniteSet(b.leaves) /\ b.oo \in Accounts
      /\ b.heap.event \in [HeapSlot -> EventType \cup {NoEvent}]
  BY DEF Books, BookType, Accounts, Heaps
<1>2. c \in Books /\ c.leaves = b.leaves \ {l}
  BY <1>1, DropFromBookKeeps DEF Grown
<1>3. /\ b.ok
      /\ \/ c.oo = b.oo /\ Parked(b.heap, c.heap, OutEvent(l)) /\ OutEvent(l) \in EventType
         \/ /\ CancelSlotFits(b.oo[l.owner], l.owner_slot, l.qty) /\ c.heap = b.heap
            /\ c.oo = [b.oo EXCEPT ![l.owner] =
                          CancelSlot(b.oo[l.owner], l.owner_slot, l.qty)]
  BY <1>1, DropFromBookIs
<1>4. ASSUME NEW coin \in Coins
      PROVE  OwedIn(coin, c) <= OwedIn(coin, b)
  <2>1. /\ LeafTotal(coin, b.leaves) = LeafTotal(coin, c.leaves) + LeafBrings(coin, l)
        /\ LeafBrings(coin, l) \in Nat
    BY <1>1, <1>2, LeafTotalWithout
  <2>2. /\ OwedIn(coin, b) = AccountSum(coin, b.oo) + LeafTotal(coin, b.leaves)
                               + EventTotal(coin, b.heap.event)
        /\ AccountSum(coin, b.oo) \in Nat /\ LeafTotal(coin, b.leaves) \in Nat
        /\ EventTotal(coin, b.heap.event) \in Nat
    BY OwedIs
  <2>3. /\ OwedIn(coin, c) = AccountSum(coin, c.oo) + LeafTotal(coin, c.leaves)
                               + EventTotal(coin, c.heap.event)
        /\ LeafTotal(coin, c.leaves) \in Nat
    BY <1>2, OwedIs
  <2>4. CASE c.oo = b.oo /\ Parked(b.heap, c.heap, OutEvent(l)) /\ OutEvent(l) \in EventType
    <3>1. PICK s \in HeapSlot : /\ b.heap.event[s] = NoEvent
                                /\ c.heap.event = [b.heap.event EXCEPT ![s] = OutEvent(l)]
      BY <2>4 DEF Parked
    <3>2. EventTotal(coin, c.heap.event)
            = EventTotal(coin, b.heap.event) - EventBrings(coin, NoEvent)
                + EventBrings(coin, OutEvent(l))
      BY <1>1, <2>4, <3>1, EventTotalSet
    <3>3. EventBrings(coin, NoEvent) = 0 /\ EventBrings(coin, OutEvent(l)) = 0
      BY DEF EventBrings, OutEvent
    <3>4. AccountSum(coin, c.oo) = AccountSum(coin, b.oo)
      BY <2>4
    <3> QED
      BY <2>1, <2>2, <2>3, <3>2, <3>3, <3>4
  <2>5. CASE /\ CancelSlotFits(b.oo[l.owner], l.owner_slot, l.qty) /\ c.heap = b.heap
             /\ c.oo = [b.oo EXCEPT ![l.owner] =
                           CancelSlot(b.oo[l.owner], l.owner_slot, l.qty)]
    <3> DEFINE old == b.oo
               new == c.oo
    <3>1. /\ old \in Accounts /\ HeldIn(old, l) /\ LeafCancelled(old, l, new) /\ new \in Accounts
      BY <1>1, <1>2, <2>5 DEF LeafCancelled, Books, BookType, Accounts
    <3> HIDE DEF old, new
    <3>2. AccountSum(coin, new) = AccountSum(coin, old) + LeafBrings(coin, l)
      BY <1>1, <3>1, CancelBrings
    <3>3. EventTotal(coin, c.heap.event) = EventTotal(coin, b.heap.event)
      BY <2>5
    <3> QED
      BY <2>1, <2>2, <2>3, <3>2, <3>3 DEF old, new
  <2> QED
    BY <1>3, <2>4, <2>5
<1> QED
  BY <1>3, <1>4

\* Sound books that owe no more than y.
Funds == [Coins -> Int]
Within(b, y) == \A coin \in Coins : OwedIn(coin, b) <= y[coin]
Funded(n, a, e, y) == {b \in Sound(n, a, e) : b.ok => Within(b, y)}

LEMMA FundedIs ==
  ASSUME NEW n, NEW a, NEW e, NEW y, NEW b \in Funded(n, a, e, y)
  PROVE  /\ b \in Sound(n, a, e) /\ b \in Fresh(n) /\ b \in Books /\ SeqsUnique(b.leaves)
         /\ b.oo \in Accounts /\ b.leaves \in SUBSET Leaves /\ IsFiniteSet(b.leaves)
         /\ b.ok \in BOOLEAN /\ b.heap.event \in [HeapSlot -> EventType \cup {NoEvent}]
<1>1. b \in Sound(n, a, e)
  BY DEF Funded
<1>2. b \in Books
  BY <1>1, SoundIs
<1>3. b.heap.event \in [HeapSlot -> EventType \cup {NoEvent}]
  BY <1>2 DEF Books, BookType, Heaps
<1> QED
  BY <1>1, <1>2, <1>3, SoundIs

LEMMA FundedFails ==
  ASSUME NEW n, NEW a, NEW e, NEW y, NEW b \in Fresh(n)
  PROVE  [b EXCEPT !.ok = FALSE] \in Funded(n, a, e, y)
<1>1. [b EXCEPT !.ok = FALSE] \in Sound(n, a, e)
  BY SoundFails
<1>2. [b EXCEPT !.ok = FALSE].ok = FALSE
  BY DEF Fresh, Books, BookType
<1> QED
  BY <1>1, <1>2 DEF Funded

\* A book that owes no more than one that owes no more than y.
LEMMA WithinLess ==
  ASSUME NEW y \in Funds, NEW b \in Books, NEW c \in Books, Within(b, y),
         \A coin \in Coins : OwedIn(coin, c) <= OwedIn(coin, b)
  PROVE  Within(c, y)
<1> SUFFICES ASSUME NEW coin \in Coins PROVE OwedIn(coin, c) <= y[coin]
  BY DEF Within
<1>1. OwedIn(coin, b) <= y[coin] /\ y[coin] \in Int
  BY DEF Within, Funds
<1>2. OwedIn(coin, b) \in Nat /\ OwedIn(coin, c) \in Nat
  BY OwedIs
<1> QED
  BY <1>1, <1>2

LEMMA FundedDrop ==
  ASSUME NEW n, NEW a, NEW e \in Extras, NEW y \in Funds, NEW b \in Funded(n, a, e, y),
         NEW l \in b.leaves, NEW present
  PROVE  DropFromBook(b, l, present) \in Funded(n, a, e, y)
<1> DEFINE c == DropFromBook(b, l, present)
<1>1. b \in Sound(n, a, e) /\ b \in Books /\ l \in Leaves
  BY FundedIs
<1>2. c \in Sound(n, a, e) /\ c \in Books
  BY <1>1, SoundDrop, SoundIs
<1>0. c = DropFromBook(b, l, present)
  OBVIOUS
<1> HIDE DEF c
<1>3. ASSUME c.ok PROVE Within(c, y)
  <2>1. b.ok
    BY <1>0, <1>1, <1>3, DropFromBookIs
  <2>2. HeldIn(b.oo, l) /\ Within(b, y)
    BY <1>1, <2>1 DEF Funded, Sound, Backed
  <2>3. \A coin \in Coins : OwedIn(coin, c) <= OwedIn(coin, b)
    BY <1>0, <1>1, <1>3, <2>2, OwedDrop
  <2> QED
    BY <1>1, <1>2, <2>2, <2>3, WithinLess
<1>4. c \in Funded(n, a, e, y)
  BY <1>2, <1>3 DEF Funded
<1> QED
  BY <1>4 DEF c

LEMMA FundedDrops ==
  ASSUME NEW n, NEW a, NEW e \in Extras, NEW y \in Funds, NEW present
  PROVE  DropKeeps(Funded(n, a, e, y), present)
BY FundedIs, FundedFails, FundedDrop DEF DropKeeps

-----------------------------------------------------------------------------
(* A match: the event owes the maker no more than what left its order, and *)
(* the taker's account what the taker gives; a taker without an account    *)
(* is owed nothing, and the maker what left its order no longer.           *)

Flow(coin, order, own, amount) ==
  IF coin = TokenOf(order.side) THEN IF own = {} THEN 0 ELSE amount
  ELSE IF own = {} THEN -amount ELSE 0

LEMMA FlowAdds ==
  ASSUME NEW coin, NEW order, NEW own, NEW x \in Int, NEW y \in Int
  PROVE  /\ Flow(coin, order, own, x + y) = Flow(coin, order, own, x) + Flow(coin, order, own, y)
         /\ Flow(coin, order, own, x) \in Int
BY DEF Flow

\* What a fill takes off a leaf.
LEMMA LeafBringsLess ==
  ASSUME NEW coin, NEW l \in Leaves, NEW qty \in Nat \ {0}, qty < l.qty,
         NEW rest, rest = [l EXCEPT !.qty = l.qty - qty]
  PROVE  /\ rest \in Leaves /\ rest.seq = l.seq
         /\ LeafBrings(coin, l)
              = LeafBrings(coin, rest)
                  + IF coin = TokenOf(l.side) THEN Native(coin, qty, LockOf(l)) ELSE 0
<1> DEFINE left == l.qty - qty
<1>1. l.qty \in Nat /\ left \in Nat \ {0} /\ left + qty = l.qty /\ LockOf(l) \in Nat
  BY LockOfNat
<1>2. l \in LeafType /\ rest = [l EXCEPT !.qty = left]
  BY DEF Leaves
<1> HIDE DEF left
<1>3. /\ rest \in LeafType /\ rest.seq = l.seq /\ rest.side = l.side
      /\ rest.tree = l.tree /\ rest.qty = left /\ rest.data = l.data
      /\ rest.peg_limit = l.peg_limit
  BY <1>1, <1>2 DEF LeafType
<1>4. rest \in Leaves /\ LockOf(rest) = LockOf(l)
  BY <1>3 DEF Leaves, LockOf
<1>5. Native(coin, left + qty, LockOf(l)) = Native(coin, left, LockOf(l)) + Native(coin, qty, LockOf(l))
  BY <1>1, NativeAdds
<1>6. Native(coin, left, LockOf(l)) \in Nat /\ Native(coin, qty, LockOf(l)) \in Nat
  BY <1>1, NativeNat
<1> QED
  BY <1>1, <1>3, <1>4, <1>5, <1>6 DEF LeafBrings

LEMMA FillBrings ==
  ASSUME NEW coin \in Coins, NEW order \in OrderType, NEW u \in Users, NEW own,
         own # {} \/ IsMarket(order), NEW l \in Leaves, l.side = InvertSide(order.side),
         NEW price \in Nat \ {0}, l.side = "Bid" => price <= LockOf(l),
         NEW qty \in Nat \ {0}, NEW time \in 1..MaxTime,
         NEW ev, ev = FillEvent(order, u, own, l, price, qty, time)
  PROVE  /\ EventBrings(coin, ev) \in Nat /\ Native(coin, qty, price) \in Nat
         /\ EventBrings(coin, ev)
              <= Flow(coin, order, own, Native(coin, qty, price))
                   + IF coin = TokenOf(l.side) THEN Native(coin, qty, LockOf(l)) ELSE 0
<1>1. ev \in EventType /\ ev # NoEvent
  BY FillEventIs, EventAssumption
<1>2. EventBrings(coin, ev) \in Nat
  BY <1>1, EventBringsNat
<1>3. LockOf(l) \in Nat
  BY LockOfNat
<1>4. Native(coin, qty, price) \in Nat /\ Native(coin, qty, LockOf(l)) \in Nat
  BY <1>3, NativeNat
<1>5. /\ ev.type = IF IsMarket(order) THEN "FillDirect" ELSE "Fill"
      /\ ev.by_account = (own # {}) /\ ev.qty = qty /\ ev.price = price
  BY DEF FillEvent
<1>6. EventBrings(coin, ev) = IF own # {} THEN Native(coin, qty, price) ELSE 0
  <2>1. ev.type # "Out"
    BY <1>5
  <2>2. ev.type = "Fill" \/ ev.by_account <=> own # {}
    BY <1>5
  <2> QED
    BY <1>1, <1>5, <2>1, <2>2 DEF EventBrings
<1>7. order.side = "Bid" \/ order.side = "Ask"
  BY DEF OrderType, Side
<1>8. coin = TokenOf(order.side) <=> coin # TokenOf(l.side)
  BY <1>7 DEF TokenOf, InvertSide, Coins
<1>9. coin = TokenOf(l.side) => Native(coin, qty, price) <= Native(coin, qty, LockOf(l))
  <2> SUFFICES ASSUME coin = TokenOf(l.side)
               PROVE  Native(coin, qty, price) <= Native(coin, qty, LockOf(l))
    OBVIOUS
  <2>1. coin = "quote" => price <= LockOf(l)
    BY <1>7 DEF TokenOf, InvertSide
  <2> QED
    BY <1>3, <2>1, NativeMonotonic
<1> QED
  BY <1>2, <1>4, <1>6, <1>8, <1>9 DEF Flow

LEMMA OwedFill ==
  ASSUME NEW coin \in Coins, NEW b, NEW c, NEW l, NEW qty, NEW order, NEW u, NEW own,
         NEW price, NEW time, FillsTo(b, c, l, qty, order, u, own, price, time)
  PROVE  /\ b.ok /\ c \in Books /\ Native(coin, qty, price) \in Nat
         /\ OwedIn(coin, c) <= OwedIn(coin, b) + Flow(coin, order, own, Native(coin, qty, price))
<1> DEFINE d == Reduce(b, l, qty)
           ev == FillEvent(order, u, own, l, price, qty, time)
           rest == [l EXCEPT !.qty = l.qty - qty]
           T == b.leaves \ {l}
           lost == IF coin = TokenOf(l.side) THEN Native(coin, qty, LockOf(l)) ELSE 0
           flow == Flow(coin, order, own, Native(coin, qty, price))
<1>0. /\ b \in Books /\ SeqsUnique(b.leaves) /\ l \in b.leaves /\ l.side = InvertSide(order.side)
      /\ order \in OrderType /\ u \in Users /\ (own # {} \/ IsMarket(order))
      /\ price \in Nat \ {0} /\ (l.side = "Bid" => price <= LockOf(l))
      /\ qty \in 1..l.qty /\ time \in 1..MaxTime
      /\ c = Filled(b, l, qty, order, u, own, price, time) /\ c.ok
  BY DEF FillsTo
<1>1. l \in Leaves /\ b.leaves \in SUBSET Leaves /\ IsFiniteSet(b.leaves)
      /\ b.heap.event \in [HeapSlot -> EventType \cup {NoEvent}]
  BY <1>0 DEF Books, BookType, Heaps
<1>2. l.qty \in Nat \ {0} /\ qty \in Nat \ {0} /\ qty <= l.qty
  BY <1>0, <1>1, LockOfNat
<1>3. /\ d \in Books /\ d.oo = b.oo /\ d.heap = b.heap /\ d.ok = b.ok
      /\ d.leaves = T \cup IF qty = l.qty THEN {} ELSE {rest}
  BY <1>0, <1>1, <1>2, ReduceKeeps
<1>4. ev \in EventType
  BY <1>0, <1>1, <1>2, FillEventIs
<1>5. c = PushEvent(d, ev) /\ ev = FillEvent(order, u, own, l, price, qty, time)
      /\ rest = [l EXCEPT !.qty = l.qty - qty]
  BY <1>0 DEF Filled
<1> HIDE DEF d, ev
<1>6. c \in Books /\ c.leaves = d.leaves /\ c.oo = d.oo /\ d.ok /\ Parked(d.heap, c.heap, ev)
  BY <1>0, <1>3, <1>4, <1>5, PushEventKeeps
<1>7. PICK s \in HeapSlot : /\ b.heap.event[s] = NoEvent
                            /\ c.heap.event = [b.heap.event EXCEPT ![s] = ev]
  BY <1>0, <1>3, <1>6 DEF Parked
<1>8. EventTotal(coin, c.heap.event)
        = EventTotal(coin, b.heap.event) - EventBrings(coin, NoEvent) + EventBrings(coin, ev)
  BY <1>0, <1>1, <1>4, <1>7, EventTotalSet
<1>9. EventBrings(coin, NoEvent) = 0
  BY DEF EventBrings
<1>10. /\ EventBrings(coin, ev) \in Nat /\ Native(coin, qty, price) \in Nat
       /\ EventBrings(coin, ev) <= flow + lost
  BY <1>0, <1>1, <1>2, <1>5, FillBrings
<1>11. lost \in Nat /\ flow \in Int
  <2>1. lost \in Nat
    BY <1>0, <1>1, <1>2, LockOfNat, NativeNat
  <2>2. flow \in Int
    BY <1>10, FlowAdds
  <2> QED
    BY <2>1, <2>2
<1>12. /\ LeafTotal(coin, b.leaves) = LeafTotal(coin, T) + LeafBrings(coin, l)
       /\ LeafTotal(coin, T) \in Nat /\ LeafBrings(coin, l) \in Nat
  BY <1>0, <1>1, LeafTotalWithout
<1>13. T \in SUBSET Leaves /\ IsFiniteSet(T)
  BY <1>0, <1>1, FS_RemoveElement
<1>14. \A k \in T : k.seq # l.seq
  BY <1>0 DEF SeqsUnique
<1> HIDE DEF rest, T, lost, flow
<1>15. LeafTotal(coin, c.leaves) = LeafTotal(coin, b.leaves) - lost
  <2>1. CASE qty = l.qty
    <3>1. c.leaves = T
      BY <1>0, <1>3, <1>6, <2>1
    <3>2. LeafBrings(coin, l) = lost
      BY <2>1 DEF LeafBrings, lost
    <3> QED
      BY <1>0, <1>12, <3>1, <3>2
  <2>2. CASE qty # l.qty
    <3>1. qty < l.qty /\ c.leaves = T \cup {rest}
      BY <1>2, <1>3, <1>6, <2>2
    <3>2. /\ rest \in Leaves /\ rest.seq = l.seq
          /\ LeafBrings(coin, l) = LeafBrings(coin, rest) + lost
      BY <1>0, <1>1, <1>2, <1>5, <3>1, LeafBringsLess DEF lost
    <3>3. rest \notin T
      BY <1>0, <1>14, <3>2
    <3>4. LeafTotal(coin, T \cup {rest}) = LeafTotal(coin, T) + LeafBrings(coin, rest)
      BY <1>0, <1>13, <3>2, <3>3, LeafTotalWith
    <3>5. LeafBrings(coin, rest) \in Nat
      BY <3>2, LeafBringsNat
    <3> QED
      BY <1>0, <1>11, <1>12, <3>1, <3>2, <3>4, <3>5
  <2> QED
    BY <2>1, <2>2
<1>16. /\ OwedIn(coin, b) = AccountSum(coin, b.oo) + LeafTotal(coin, b.leaves)
                              + EventTotal(coin, b.heap.event)
       /\ AccountSum(coin, b.oo) \in Nat /\ LeafTotal(coin, b.leaves) \in Nat
       /\ EventTotal(coin, b.heap.event) \in Nat
  BY <1>0, OwedIs
<1>17. OwedIn(coin, c) = AccountSum(coin, c.oo) + LeafTotal(coin, c.leaves)
                           + EventTotal(coin, c.heap.event)
  BY <1>0, <1>6, OwedIs
<1>18. AccountSum(coin, c.oo) = AccountSum(coin, b.oo)
  BY <1>0, <1>3, <1>6
<1>19. OwedIn(coin, c) <= OwedIn(coin, b) + flow
  BY <1>8, <1>9, <1>10, <1>11, <1>15, <1>16, <1>17, <1>18
<1> QED
  BY <1>0, <1>3, <1>6, <1>10, <1>19 DEF flow

-----------------------------------------------------------------------------
(* The matching of an order: what it took so far has flowed.               *)

\* What an order took: the native amounts that new_order returns.
Taken(coin, order, maxQuote, m) ==
  IF coin = "base" THEN (order.base - m.base) * BaseLotSize
  ELSE (maxQuote - m.quote) * QuoteLotSize
Flowed(m, order, maxQuote, own, y) ==
  \A coin \in Coins :
    OwedIn(coin, m.b) <= y[coin] + Flow(coin, order, own, Taken(coin, order, maxQuote, m))
FundedMatches(b, n, a, order, maxQuote, own, y) ==
  {m \in Matches(b, order, maxQuote) :
     m.b \in Sound(n, a, Nothing) /\ (m.b.ok => Flowed(m, order, maxQuote, own, y))}

LEMMA TakenInt ==
  ASSUME NEW b, NEW order \in OrderType, NEW maxQuote \in Nat, NEW m \in Matches(b, order, maxQuote),
         NEW coin
  PROVE  Taken(coin, order, maxQuote, m) \in Nat
<1>1. m.base \in Nat /\ m.quote \in Nat /\ m.decremented \in Nat
      /\ m.base <= order.base /\ m.quote + m.decremented <= maxQuote /\ order.base \in Nat
  BY DEF Matches, MatchType, MatchOK, OrderType
<1>2. order.base - m.base \in Nat /\ maxQuote - m.quote \in Nat
  BY <1>1
<1>3. BaseLotSize \in Nat /\ QuoteLotSize \in Nat
  BY MarketAssumption DEF MarketAssumption
<1>4. (order.base - m.base) * BaseLotSize \in Nat /\ (maxQuote - m.quote) * QuoteLotSize \in Nat
  BY <1>2, <1>3, ProductNat
<1> QED
  BY <1>4 DEF Taken

LEMMA TakenAdds ==
  ASSUME NEW b, NEW order \in OrderType, NEW maxQuote \in Nat, NEW m \in Matches(b, order, maxQuote),
         NEW k, NEW coin, NEW qty \in Nat, NEW price \in Nat,
         k.base = m.base - qty, k.quote = m.quote - qty * price
  PROVE  Taken(coin, order, maxQuote, k)
           = Taken(coin, order, maxQuote, m) + Native(coin, qty, price)
<1>1. m.base \in Nat /\ m.quote \in Nat /\ order.base \in Nat
  BY DEF Matches, MatchType, OrderType
<1>2. BaseLotSize \in Nat /\ QuoteLotSize \in Nat
  BY MarketAssumption DEF MarketAssumption
<1> DEFINE x == order.base - m.base
           y == maxQuote - m.quote
           z == qty * price
<1>3. x \in Int /\ y \in Int /\ z \in Nat /\ order.base - k.base = x + qty /\ maxQuote - k.quote = y + z
  BY <1>1, ProductNat
<1> HIDE DEF x, y, z
<1>4. (x + qty) * BaseLotSize = x * BaseLotSize + qty * BaseLotSize
  BY <1>2, <1>3
<1>5. (y + z) * QuoteLotSize = y * QuoteLotSize + z * QuoteLotSize
  BY <1>2, <1>3
<1> QED
  BY <1>3, <1>4, <1>5 DEF Taken, Native, LockedQuote, x, y, z

LEMMA FundedMatchStep ==
  ASSUME NEW b \in Books, NEW n, NEW a, NEW order \in OrderType,
         NEW maxQuote \in Nat, NEW u \in Users, NEW own \in SUBSET Users,
         own # {} \/ IsMarket(order), NEW limitPrice \in Nat \ {0}, NEW present,
         NEW time \in 1..MaxTime, NEW feed \in Int \cup {NoOracle}, NEW y \in Funds,
         NEW m \in FundedMatches(b, n, a, order, maxQuote, own, y),
         NEW item \in Items(Shown(b.leaves, InvertSide(order.side), feed), time, feed),
         item.leaf \in m.b.leaves
  PROVE  MatchStep(m, item, order, u, own, limitPrice, present, time)
           \in FundedMatches(b, n, a, order, maxQuote, own, y)
<1> DEFINE k == MatchStep(m, item, order, u, own, limitPrice, present, time)
           l == item.leaf
<1>1. /\ l \in Leaves /\ l.side = InvertSide(order.side) /\ item.price \in Nat \ {0}
      /\ item.price = PriceNow(feed, l) /\ item.valid = IsValidNow(l, time, feed)
  <2> DEFINE side == InvertSide(order.side)
             S == b.leaves
  <2>1. side \in Side /\ S \in SUBSET Leaves /\ item \in Items(Shown(S, side, feed), time, feed)
    BY DEF InvertSide, Side, Books, BookType
  <2> HIDE DEF side, S
  <2>2. /\ item.leaf \in S /\ item.leaf \in Leaves /\ item.leaf.side = side
        /\ item.price \in Nat \ {0}
        /\ item.price = PriceNow(feed, item.leaf) /\ item.valid = IsValidNow(item.leaf, time, feed)
    BY <2>1, ItemIs
  <2> QED
    BY <2>2 DEF side
<1>2. /\ m \in Matches(b, order, maxQuote) /\ m.b \in Sound(n, a, Nothing)
      /\ m.b.ok => Flowed(m, order, maxQuote, own, y)
  BY DEF FundedMatches
<1>3. m.b \in Books /\ SeqsUnique(m.b.leaves) /\ l \in m.b.leaves
  BY <1>2, SoundIs
<1>4. /\ k \in Matches(b, order, maxQuote)
      /\ MatchChange(m.b, k.b, l, order, u, own, item.price, present, time)
      /\ MatchMoves(m, k, item, order, u, own, limitPrice, present, time)
  BY <1>1, <1>2, MatchStepKeeps, MatchStepMoves
<1> HIDE DEF k
<1>5. k.b \in Sound(n, a, Nothing)
  <2>1. MatchKeeps(Sound(n, a, Nothing), order, u, own, present, time)
    BY NothingIs, SoundMatches
  <2> QED
    BY <1>1, <1>2, <1>3, <1>4, <2>1, Zenon DEF MatchKeeps
<1>6. k.b \in Books
  BY <1>5, SoundIs
<1>7. ASSUME NEW coin \in Coins
      PROVE  /\ OwedIn(coin, m.b) \in Nat /\ OwedIn(coin, k.b) \in Nat /\ y[coin] \in Int
             /\ Taken(coin, order, maxQuote, m) \in Nat
             /\ Flow(coin, order, own, Taken(coin, order, maxQuote, m)) \in Int
  <2>1. OwedIn(coin, m.b) \in Nat
    BY <1>3, OwedIs
  <2>2. OwedIn(coin, k.b) \in Nat
    BY <1>6, OwedIs
  <2>3. Taken(coin, order, maxQuote, m) \in Nat
    BY <1>2, TakenInt
  <2>4. Flow(coin, order, own, Taken(coin, order, maxQuote, m)) \in Int
    BY <2>3, FlowAdds
  <2> QED
    BY <2>1, <2>2, <2>3, <2>4 DEF Funds
<1>8. ASSUME k.b.ok
      PROVE  Flowed(k, order, maxQuote, own, y)
  <2>0. ASSUME k.base = m.base, k.quote = m.quote, NEW coin
        PROVE  Taken(coin, order, maxQuote, k) = Taken(coin, order, maxQuote, m)
    BY <2>0 DEF Taken
  <2>1. CASE k.base = m.base /\ k.quote = m.quote /\ k.b = m.b
    BY <1>2, <1>8, <2>0, <2>1 DEF Flowed
  <2>2. ASSUME k.base = m.base, k.quote = m.quote, NEW w, k.b = DropFromBook(m.b, l, w)
        PROVE  Flowed(k, order, maxQuote, own, y)
    <3> DEFINE c == m.b
               d == k.b
    <3>1. d = DropFromBook(c, l, w) /\ d.ok /\ c \in Books /\ l \in c.leaves /\ l \in Leaves
      BY <1>1, <1>3, <1>8, <2>2
    <3>2. c.ok
      <4> HIDE DEF c, d, l
      <4> QED
        BY <1>1, <3>1, DropFromBookIs
    <3>3. HeldIn(c.oo, l)
      BY <1>2, <1>3, <3>2 DEF Sound, Backed
    <3> HIDE DEF c, d
    <3>4. \A coin \in Coins : OwedIn(coin, d) <= OwedIn(coin, c)
      BY <3>1, <3>3, OwedDrop
    <3>5. ASSUME NEW coin \in Coins
          PROVE  OwedIn(coin, k.b) <= y[coin] + Flow(coin, order, own, Taken(coin, order, maxQuote, k))
      <4>1. Taken(coin, order, maxQuote, k) = Taken(coin, order, maxQuote, m)
        BY <2>0, <2>2
      <4>2. OwedIn(coin, m.b) <= y[coin] + Flow(coin, order, own, Taken(coin, order, maxQuote, m))
        BY <1>2, <3>2 DEF Flowed, c
      <4>3. OwedIn(coin, k.b) <= OwedIn(coin, m.b)
        BY <3>4 DEF c, d
      <4> QED
        BY <1>7, <4>1, <4>2, <4>3
    <3> QED
      BY <3>5 DEF Flowed
  <2>3. ASSUME item.valid, NEW qty \in 1..l.qty, k.base = m.base - qty,
               k.quote = m.quote - qty * item.price,
               k.b = Filled(m.b, l, qty, order, u, own, item.price, time)
        PROVE  Flowed(k, order, maxQuote, own, y)
    <3>1. l.side = "Bid" => item.price <= LockOf(l)
      BY <1>1, <2>3, FillPrice
    <3>2. l.qty \in Nat \ {0} /\ qty \in Nat
      BY <1>1, LockOfNat
    <3> DEFINE c == m.b
               d == k.b
               price == item.price
    <3>3. FillsTo(c, d, l, qty, order, u, own, price, time) /\ price \in Nat
      BY <1>1, <1>3, <1>8, <2>3, <3>1 DEF FillsTo
    <3> HIDE DEF c, d, price, l
    <3>4. ASSUME NEW coin \in Coins
          PROVE  /\ c.ok /\ Native(coin, qty, price) \in Nat
                 /\ OwedIn(coin, d)
                      <= OwedIn(coin, c) + Flow(coin, order, own, Native(coin, qty, price))
      BY <3>3, OwedFill
    <3>5. ASSUME NEW coin \in Coins
          PROVE  OwedIn(coin, k.b) <= y[coin] + Flow(coin, order, own, Taken(coin, order, maxQuote, k))
      <4>1. Taken(coin, order, maxQuote, k)
              = Taken(coin, order, maxQuote, m) + Native(coin, qty, price)
        BY <1>2, <2>3, <3>2, <3>3, TakenAdds DEF price
      <4>2. OwedIn(coin, m.b) <= y[coin] + Flow(coin, order, own, Taken(coin, order, maxQuote, m))
        BY <1>2, <3>4 DEF Flowed, c
      <4>3. OwedIn(coin, k.b) <= OwedIn(coin, m.b) + Flow(coin, order, own, Native(coin, qty, price))
        BY <3>4 DEF c, d
      <4>4. /\ Flow(coin, order, own, Taken(coin, order, maxQuote, m) + Native(coin, qty, price))
                 = Flow(coin, order, own, Taken(coin, order, maxQuote, m))
                     + Flow(coin, order, own, Native(coin, qty, price))
            /\ Flow(coin, order, own, Native(coin, qty, price)) \in Int
        <5>1. Taken(coin, order, maxQuote, m) \in Int /\ Native(coin, qty, price) \in Int
          BY <1>7, <3>4
        <5> QED
          BY <5>1, FlowAdds
      <4> QED
        BY <1>7, <4>1, <4>2, <4>3, <4>4
    <3> QED
      BY <3>5 DEF Flowed
  <2>4. MatchMoves(m, k, item, order, u, own, limitPrice, present, time)
    BY <1>4
  <2> QED
    BY <1>8, <2>1, <2>2, <2>3, <2>4, Zenon DEF MatchMoves
<1>9. k \in FundedMatches(b, n, a, order, maxQuote, own, y)
  BY <1>4, <1>5, <1>8 DEF FundedMatches
<1> QED
  BY <1>9 DEF k

LEMMA FundedMatch ==
  ASSUME NEW n, NEW a, NEW y \in Funds, NEW b \in Funded(n, a, Nothing, y), NEW order \in OrderType,
         NEW maxQuote \in Nat, NEW u \in Users, NEW own \in SUBSET Users,
         own # {} \/ IsMarket(order), NEW limitPrice \in Nat \ {0}, NEW present,
         NEW time \in 1..MaxTime, NEW feed \in Int \cup {NoOracle}
  PROVE  Match(b, order, maxQuote, u, own, limitPrice, present, time, feed)
           \in FundedMatches(b, n, a, order, maxQuote, own, y)
<1> DEFINE H == FundedMatches(b, n, a, order, maxQuote, own, y)
           m == Matching(b, order, maxQuote)
<1>1. b \in Books /\ SeqsUnique(b.leaves) /\ b \in Sound(n, a, Nothing)
  BY FundedIs
<1>2. m \in H
  <2>1. m \in Matches(b, order, maxQuote) /\ m.b = b /\ m.base = order.base /\ m.quote = maxQuote
    BY <1>1, MatchingIs DEF Matching
  <2> HIDE DEF m
  <2>2. ASSUME b.ok PROVE Flowed(m, order, maxQuote, own, y)
    <3>1. Within(b, y)
      BY <2>2 DEF Funded
    <3>2. ASSUME NEW coin \in Coins
          PROVE  OwedIn(coin, m.b) <= y[coin] + Flow(coin, order, own, Taken(coin, order, maxQuote, m))
      <4>1. OwedIn(coin, b) <= y[coin] /\ y[coin] \in Int
        BY <3>1 DEF Within, Funds
      <4>2. order.base - m.base = 0 /\ maxQuote - m.quote = 0
        BY <2>1 DEF OrderType
      <4>3. 0 * BaseLotSize = 0 /\ 0 * QuoteLotSize = 0
        BY MarketAssumption DEF MarketAssumption
      <4>4. Taken(coin, order, maxQuote, m) = 0
        BY <4>2, <4>3 DEF Taken
      <4>5. Flow(coin, order, own, 0) = 0
        <5> DEFINE none == 0
        <5>1. none \in Int /\ none = 0 /\ none + none = none
          OBVIOUS
        <5> HIDE DEF none
        <5>2. /\ Flow(coin, order, own, none + none)
                   = Flow(coin, order, own, none) + Flow(coin, order, own, none)
              /\ Flow(coin, order, own, none) \in Int
          BY <5>1, FlowAdds
        <5>3. Flow(coin, order, own, none + none) = Flow(coin, order, own, none)
          BY <5>1, Zenon
        <5>4. \A x \in Int : x = x + x => x = 0
          OBVIOUS
        <5>5. Flow(coin, order, own, none) = 0
          BY <5>2, <5>3, <5>4, Zenon
        <5>6. Flow(coin, order, own, none) = Flow(coin, order, own, 0)
          BY <5>1, Zenon
        <5> QED
          BY <5>5, <5>6
      <4> QED
        BY <2>1, <4>1, <4>4, <4>5
    <3> QED
      BY <3>2 DEF Flowed
  <2> QED
    BY <1>1, <2>1, <2>2 DEF FundedMatches
<1>3. StepStays(H, b, order, maxQuote, u, own, limitPrice, present, time, feed)
  BY <1>1, FundedMatchStep DEF StepStays
<1> HIDE DEF H
<1>4. Match(b, order, maxQuote, u, own, limitPrice, present, time, feed) \in H
  BY <1>1, <1>2, <1>3, MatchStays
<1> QED
  BY <1>4 DEF H

-----------------------------------------------------------------------------
(* What is left of the order is posted: its fee and its quote, or its base *)
(* are owed to its account.  The record of the order owes nothing more.    *)

LEMMA LockFeesPays ==
  ASSUME NEW b \in Books, NEW order, NEW price, NEW u \in Users, NEW qty,
         NEW c, c = LockFees(b, order, price, u, qty)
  PROVE  /\ c.oo[u].base_free_native = b.oo[u].base_free_native
         /\ c.oo[u].quote_free_native = b.oo[u].quote_free_native
<1> DEFINE fee == IF order.side = "Bid" THEN LockedFee(qty, price) ELSE 0
           fees == b.oo[u].locked_maker_fees + fee
           fits == b.ok /\ qty * price <= MaxQuoteLots
<1>1. b \in BookType /\ b.oo \in [Users -> AccountType] /\ b.oo[u] \in AccountType
  BY DEF Books, BookType
<1>2. c.oo = [b.oo EXCEPT ![u] = [b.oo[u] EXCEPT !.locked_maker_fees = fees]]
  BY <1>1 DEF LockFees, BookType, AccountType
<1> HIDE DEF fee, fees
<1> QED
  BY <1>1, <1>2 DEF AccountType

LEMMA FundedLocked ==
  ASSUME NEW n, NEW a, NEW y \in Funds, NEW b \in Funded(n, a, Nothing, y),
         NEW order \in OrderType, NEW price \in Nat, NEW u \in Users, NEW qty \in Nat,
         NEW fee \in Nat, fee = IF order.side = "Bid" THEN LockedFee(qty, price) ELSE 0,
         NEW z \in Funds, z["base"] = y["base"], z["quote"] = y["quote"] + fee
  PROVE  LockFees(b, order, price, u, qty) \in Funded(n, a, Extra(u, fee, 0), z)
<1> DEFINE e == Extra(u, fee, 0)
           c == LockFees(b, order, price, u, qty)
<1>1. b \in Sound(n, a, Nothing) /\ b \in Books
  BY FundedIs
<1>2. c \in Sound(n, a, e)
  BY <1>1, SoundLocked
<1> HIDE DEF e
<1>3. /\ Grown(b, c) /\ c.leaves = b.leaves /\ c.heap = b.heap
      /\ \A v \in Users : v # u => c.oo[v] = b.oo[v]
      /\ c.oo[u].locked_maker_fees = b.oo[u].locked_maker_fees + fee
  BY <1>1, LockFeesKeeps
<1>4. /\ c.oo[u].base_free_native = b.oo[u].base_free_native
      /\ c.oo[u].quote_free_native = b.oo[u].quote_free_native
  BY <1>1, LockFeesPays
<1>5. c \in Books /\ c.oo \in Accounts /\ b.oo \in Accounts
  BY <1>1, <1>3 DEF Grown, Books, BookType, Accounts
<1> HIDE DEF c
<1>6. ASSUME c.ok PROVE Within(c, z)
  <2>1. Within(b, y)
    BY <1>3, <1>6 DEF Funded, Grown
  <2>2. ASSUME NEW coin \in Coins
        PROVE  OwedIn(coin, c) <= z[coin]
    <3>1. AccountHas(coin, c.oo[u]) = AccountHas(coin, b.oo[u]) + IF coin = "quote" THEN fee ELSE 0
      <4>1. b.oo[u] \in AccountType
        BY <1>5 DEF Accounts
      <4>2. /\ b.oo[u].base_free_native \in Nat /\ b.oo[u].quote_free_native \in Nat
            /\ b.oo[u].locked_maker_fees \in Nat
        BY <4>1 DEF AccountType
      <4> QED
        BY <1>3, <1>4, <4>2 DEF AccountHas, Coins
    <3>2. AccountSum(coin, c.oo)
            = AccountSum(coin, b.oo) - AccountHas(coin, b.oo[u]) + AccountHas(coin, c.oo[u])
      <4>1. \A v \in Users \ {u} : AccountHas(coin, c.oo[v]) = AccountHas(coin, b.oo[v])
        BY <1>3
      <4> QED
        BY <1>5, <4>1, AccountSumSet
    <3>3. /\ OwedIn(coin, b) = AccountSum(coin, b.oo) + LeafTotal(coin, b.leaves)
                                 + EventTotal(coin, b.heap.event)
          /\ AccountSum(coin, b.oo) \in Nat /\ LeafTotal(coin, b.leaves) \in Nat
          /\ EventTotal(coin, b.heap.event) \in Nat
      BY <1>1, OwedIs
    <3>4. OwedIn(coin, c) = AccountSum(coin, c.oo) + LeafTotal(coin, b.leaves)
                              + EventTotal(coin, b.heap.event)
      BY <1>3, <1>5, OwedIs
    <3>5. OwedIn(coin, b) <= y[coin] /\ y[coin] \in Int /\ z[coin] \in Int
      BY <2>1 DEF Within, Funds
    <3>6. z[coin] = y[coin] + IF coin = "quote" THEN fee ELSE 0
      BY <3>5 DEF Coins
    <3>7. AccountHas(coin, b.oo[u]) \in Nat
      BY <1>5, AccountHasNat DEF Accounts
    <3> QED
      BY <3>1, <3>2, <3>3, <3>4, <3>5, <3>6, <3>7
  <2> QED
    BY <2>2 DEF Within
<1>7. c \in Funded(n, a, e, z)
  BY <1>2, <1>6 DEF Funded
<1> QED
  BY <1>7 DEF c, e

LEMMA OwedPosted ==
  ASSUME NEW n \in 0..MaxOrders, n < MaxOrders, NEW a,
         NEW order \in OrderType, WellPegged(order),
         NEW price \in Nat \ {0}, NEW locked, locked = LockedPrice(order, price),
         NEW u \in Users, NEW qty \in Nat \ {0}, NEW y \in Funds,
         NEW b \in Funded(n, a, Nothing, y),
         NEW feed, order.pegged => feed \in Int,
         NEW present, NEW time \in 1..MaxTime, ~ExpiryPassed(order, time),
         NEW fee \in Nat, fee = IF order.side = "Bid" THEN LockedFee(qty, locked) ELSE 0,
         NEW d, d = Post(b, order, price, locked, n + 1, u, qty, present, time, feed), d.ok
  PROVE  /\ d \in Fresh(n + 1) /\ b.ok
         /\ \A coin \in Coins :
              OwedIn(coin, d)
                <= y[coin] + IF coin = TokenOf(order.side) THEN Native(coin, qty, locked) + fee ELSE 0
<1> DEFINE z == [coin \in Coins |-> IF coin = "quote" THEN y["quote"] + fee ELSE y["base"]]
           room == MadeRoom(b, order, price, locked, u, qty, present, time, feed)
           slot == NextOrderSlot(room.oo[u])
           l == Leaf(order, price, feed, n + 1, u, slot, qty, time)
           e == Extra(u, fee, 0)
<1>1. locked \in Nat \ {0} /\ b \in Fresh(n) /\ n + 1 \in 0..MaxOrders
  <2> HIDE DEF z, room, slot, l, e
  <2>1. locked \in Nat \ {0}
    BY LockedPriceIs
  <2>2. b \in Fresh(n)
    BY FundedIs
  <2>3. n + 1 \in 0..MaxOrders
    BY FermiAssumption
  <2> QED
    BY <2>1, <2>2, <2>3
<1>2. z \in Funds /\ z["base"] = y["base"] /\ z["quote"] = y["quote"] + fee
  BY DEF Funds, Coins
<1> HIDE DEF z
<1>3. room \in Funded(n, a, e, z)
  <2> DEFINE G == Funded(n, a, e, z)
  <2>0. locked \in Nat /\ qty \in Nat
    BY <1>1
  <2>1. LockFees(b, order, locked, u, qty) \in G
    BY <1>2, <2>0, FundedLocked
  <2>2. e \in Extras
    BY ExtraIs
  <2> HIDE DEF e
  <2>3. DropKeeps(G, present)
    BY <1>2, <2>2, FundedDrops
  <2> HIDE DEF G, room
  <2>4. MadeRoom(b, order, price, locked, u, qty, present, time, feed) \in G
    BY <1>1, <2>1, <2>3, MadeRoomKeeps
  <2> QED
    BY <2>4 DEF G, room
<1>4. Posted(n, b, order, price, locked, feed, u, qty, present, time, room, d)
  <2>1. locked \in Nat
    BY <1>1
  <2> QED
    BY <1>1, <2>1, PostDoes, Zenon
<1> HIDE DEF room, e
<1>5. d \in Fresh(n + 1) /\ Grown(b, d)
  BY <1>4, Zenon DEF Posted
<1>6. /\ d.leaves = room.leaves \cup {l} /\ d.oo = room.oo /\ d.heap = room.heap
      /\ l \in Leaves /\ room.ok
  BY <1>4, Zenon DEF Posted
<1>7. /\ l.seq = n + 1 /\ l.qty = qty /\ l.side = order.side
      /\ order.side = "Bid" => LockOf(l) = locked
  BY <1>1 DEF Leaf, LockOf, LockedPrice, PostTree
<1> HIDE DEF l
<1>8. /\ Within(room, z) /\ room \in Books /\ room \in Fresh(n) /\ room.leaves \in SUBSET Leaves
      /\ IsFiniteSet(room.leaves)
  BY <1>3, <1>6, FundedIs DEF Funded
<1>9. l \notin room.leaves
  <2>1. \A k \in room.leaves : k.seq <= n
    BY <1>8 DEF Fresh
  <2> QED
    BY <1>7, <2>1
<1>10. d \in Books
  BY <1>5 DEF Fresh
<1>11. ASSUME NEW coin \in Coins
       PROVE  OwedIn(coin, d)
                <= y[coin] + IF coin = TokenOf(order.side) THEN Native(coin, qty, locked) + fee ELSE 0
  <2>1. LeafBrings(coin, l) = IF coin = TokenOf(order.side) THEN Native(coin, qty, locked) ELSE 0
    <3>1. order.side = "Bid" \/ order.side = "Ask"
      BY DEF OrderType, Side
    <3> QED
      BY <1>7, <3>1 DEF LeafBrings, TokenOf, Native
  <2>2. LeafTotal(coin, d.leaves) = LeafTotal(coin, room.leaves) + LeafBrings(coin, l)
    BY <1>6, <1>8, <1>9, LeafTotalWith
  <2>3. LeafBrings(coin, l) \in Nat
    BY <1>6, LeafBringsNat
  <2>4. /\ OwedIn(coin, room) = AccountSum(coin, room.oo) + LeafTotal(coin, room.leaves)
                                  + EventTotal(coin, room.heap.event)
        /\ AccountSum(coin, room.oo) \in Nat /\ LeafTotal(coin, room.leaves) \in Nat
        /\ EventTotal(coin, room.heap.event) \in Nat
    BY <1>8, OwedIs
  <2>5. OwedIn(coin, d) = AccountSum(coin, room.oo) + LeafTotal(coin, d.leaves)
                            + EventTotal(coin, room.heap.event)
    BY <1>6, <1>10, OwedIs
  <2>6. OwedIn(coin, room) <= z[coin] /\ y[coin] \in Int
    BY <1>8 DEF Within, Funds
  <2>7. z[coin] = y[coin] + IF coin = TokenOf(order.side) THEN fee ELSE 0
    <3>1. order.side = "Bid" \/ (order.side = "Ask" /\ fee = 0)
      BY DEF OrderType, Side
    <3> QED
      BY <1>2, <2>6, <3>1 DEF TokenOf, Coins
  <2>8. Native(coin, qty, locked) \in Nat
    BY <1>1, NativeNat
  <2>9. OwedIn(coin, d) <= z[coin] + LeafBrings(coin, l)
    <3>1. z[coin] \in Int
      BY <1>2 DEF Funds
    <3> QED
      BY <2>2, <2>3, <2>4, <2>5, <2>6, <3>1
  <2> QED
    BY <2>1, <2>3, <2>4, <2>5, <2>6, <2>7, <2>8, <2>9
<1> QED
  BY <1>5, <1>11 DEF Grown

LEMMA OwedRecord ==
  ASSUME NEW n, NEW b \in Fresh(n), NEW order \in OrderType, NEW price \in Nat,
         NEW id \in 0..MaxOrders, NEW u \in Users,
         NEW c, c = Record(b, order, price, id, u), c.ok
  PROVE  b.ok /\ \A coin \in Coins : OwedIn(coin, c) = OwedIn(coin, b)
<1>1. Recorded(n, b, order, price, id, u, c)
  BY RecordDoes, Zenon
<1>2. /\ c \in Fresh(n) /\ Grown(b, c) /\ c.leaves = b.leaves /\ c.heap = b.heap
      /\ \A v \in Users : v # u => c.oo[v] = b.oo[v]
      /\ c.oo[u].base_free_native = b.oo[u].base_free_native
      /\ c.oo[u].quote_free_native = b.oo[u].quote_free_native
      /\ c.oo[u].locked_maker_fees = b.oo[u].locked_maker_fees
  BY <1>1, Zenon DEF Recorded
<1>3. b.oo \in Accounts /\ c.oo \in Accounts
  BY <1>2 DEF Fresh, Books, BookType, Accounts
<1>4. \A coin \in Coins, v \in Users : AccountHas(coin, c.oo[v]) = AccountHas(coin, b.oo[v])
  BY <1>2 DEF AccountHas
<1>5. \A coin \in Coins : AccountSum(coin, c.oo) = AccountSum(coin, b.oo)
  BY <1>3, <1>4, AccountSumSame
<1> QED
  BY <1>2, <1>5 DEF OwedIn, Owed, Grown

-----------------------------------------------------------------------------
(* An order: what is owed grows by no more than the owner is charged.      *)

TakenOf(coin, r) == IF coin = "base" THEN r.base_taken ELSE r.quote_taken
Commits(coin, order, own, r) ==
  IF coin = TokenOf(order.side) THEN IF own = {} THEN 0 ELSE Committed(order, r)
  ELSE IF own = {} THEN -TakenOf(coin, r) ELSE 0
Charged(y, order, own, r) == [coin \in Coins |-> y[coin] + Commits(coin, order, own, r)]

LEMMA CommitsCover ==
  ASSUME NEW coin \in Coins, NEW order \in OrderType, NEW own, NEW r, Amounts(r),
         NEW qty \in Nat, NEW locked \in Nat, NEW fee,
         fee = IF order.side = "Bid" THEN LockedFee(qty, locked) ELSE 0,
         r.base_posted = qty * BaseLotSize, r.quote_posted = LockedQuote(qty, locked),
         r.maker_fees = fee
  PROVE  /\ Commits(coin, order, own, r) \in Int
         /\ Flow(coin, order, own, TakenOf(coin, r)) \in Int
         /\ Flow(coin, order, own, TakenOf(coin, r)) <= Commits(coin, order, own, r)
         /\ own # {} =>
              Flow(coin, order, own, TakenOf(coin, r))
                + (IF coin = TokenOf(order.side) THEN Native(coin, qty, locked) + fee ELSE 0)
                <= Commits(coin, order, own, r)
<1>1. order.side = "Bid" \/ order.side = "Ask"
  BY DEF OrderType, Side
<1>2. Native(coin, qty, locked) = IF coin = "base" THEN r.base_posted ELSE r.quote_posted
  BY DEF Native
<1>3. order.side = "Ask" => fee = 0
  OBVIOUS
<1>4. CASE coin = TokenOf(order.side)
  <2>1. CASE order.side = "Bid"
    <3>1. coin = "quote"
      BY <1>4, <2>1 DEF TokenOf
    <3> QED
      BY <1>2, <1>4, <2>1, <3>1 DEF Commits, Flow, TakenOf, Committed, Amounts
  <2>2. CASE order.side = "Ask"
    <3>1. coin = "base"
      BY <1>4, <2>2 DEF TokenOf
    <3> QED
      BY <1>2, <1>3, <1>4, <2>2, <3>1 DEF Commits, Flow, TakenOf, Committed, Amounts
  <2> QED
    BY <1>1, <2>1, <2>2
<1>5. CASE coin # TokenOf(order.side)
  BY <1>5 DEF Commits, Flow, TakenOf, Amounts
<1> QED
  BY <1>4, <1>5

\* What an order leaves of it commits is posted, or nothing of it.
LEMMA FundedNewOrder ==
  ASSUME NEW n \in 0..MaxOrders, n < MaxOrders, NEW a, NEW y \in Funds,
         NEW b \in Funded(n, a, Nothing, y),
         NEW order \in OrderType, WellPegged(order),
         NEW u \in Users, NEW own, own = {u} \/ (own = {} /\ IsMarket(order)),
         NEW remaining, NEW time \in 1..MaxTime,
         NEW feed \in Int \cup {NoOracle}, ~ExpiryPassed(order, time) \/ IsMarket(order),
         NEW r \in NewOrder(b, n, order, u, own, remaining, time, feed)
  PROVE  /\ r.b \in Funded(n + 1, a, Nothing, Charged(y, order, own, r))
         /\ Charged(y, order, own, r) \in Funds /\ Placed(b, n, order, r)
<1> DEFINE present == own \cup remaining
           z == Charged(y, order, own, r)
<1>1. b \in Fresh(n) /\ own \in SUBSET Users /\ b \in Sound(n, a, Nothing)
  BY FundedIs
<1>2. /\ r.b.ok /\ (order.pegged => feed \in Int)
      /\ \E price \in Nat \ {0}, qty \in 0..order.base : \E m :
           NewOrderRun(b, n, order, u, own, remaining, time, feed, r, price, m, qty)
  BY <1>1, NewOrderRuns
<1>3. PICK price \in Nat \ {0}, qty \in 0..order.base : \E m :
        NewOrderRun(b, n, order, u, own, remaining, time, feed, r, price, m, qty)
  BY <1>2
<1>4. PICK m : NewOrderRun(b, n, order, u, own, remaining, time, feed, r, price, m, qty)
  BY <1>3
<1> DEFINE locked == LockedPrice(order, price)
           id == n + 1
           maxQuote == MaxQuote(order)
           d == IF qty = 0 THEN m.b
                ELSE Post(m.b, order, price, locked, id, u, qty, present, time, feed)
           fee == IF order.side = "Bid" THEN LockedFee(qty, locked) ELSE 0
<1>5. /\ m = Match(b, order, maxQuote, u, own, price, present, time, feed)
      /\ m \in Matches(b, order, maxQuote) /\ m.b \in Fresh(n)
      /\ r = Settle(m, order, maxQuote, price, id, u, own, present, time, feed)
      /\ r.b = IF own = {} THEN d ELSE Record(d, order, locked, id, u)
      /\ m.b.ok => /\ r.base_posted = qty * BaseLotSize
                   /\ r.quote_posted = LockedQuote(qty, locked)
                   /\ r.maker_fees = fee
      /\ qty # 0 => m.b.ok /\ ~IsMarket(order)
  BY <1>4, Zenon DEF NewOrderRun, SettledBook
<1>6. id \in 0..MaxOrders /\ locked \in Nat /\ r.b \in Sound(id, a, Nothing) /\ qty \in Nat
  <2>1. r.b \in Sound(n + 1, a, Nothing)
    BY <1>1, SoundNewOrder
  <2>2. id \in 0..MaxOrders /\ locked \in Nat
    BY LockedPriceIs, FermiAssumption
  <2> QED
    BY <2>1, <2>2 DEF OrderType
<1>7. Placed(b, n, order, r)
  BY <1>1, NewOrderKeeps
<1>8. maxQuote \in Nat /\ (own # {} \/ IsMarket(order)) /\ fee \in Nat
  <2>1. fee \in Nat
    <3> HIDE DEF locked
    <3> QED
      BY <1>6, LockedNat, MarketAssumption
  <2> QED
    BY <2>1, MaxQuoteNat
<1> HIDE DEF maxQuote, locked, fee
<1>9. m \in FundedMatches(b, n, a, order, maxQuote, own, y)
  <2> HIDE DEF present
  <2> QED
    BY <1>1, <1>5, <1>8, FundedMatch
<1>10. /\ m.b \in Sound(n, a, Nothing)
       /\ m.b.ok => Flowed(m, order, maxQuote, own, y)
  BY <1>9 DEF FundedMatches
<1>11. \A coin : TakenOf(coin, r) = Taken(coin, order, maxQuote, m)
  <2>1. /\ r.base_taken = (order.base - m.base) * BaseLotSize
        /\ r.quote_taken = (maxQuote - m.quote) * QuoteLotSize
    BY <1>5 DEF Settle
  <2> QED
    BY <2>1 DEF TakenOf, Taken
<1>12. Amounts(r)
  BY <1>7 DEF Placed
<1> DEFINE w == [coin \in Coins |-> y[coin] + Flow(coin, order, own, TakenOf(coin, r))]
<1>13. /\ w \in Funds
       /\ \A coin \in Coins : w[coin] = y[coin] + Flow(coin, order, own, TakenOf(coin, r))
  <2>1. \A coin \in Coins : Flow(coin, order, own, TakenOf(coin, r)) \in Int /\ y[coin] \in Int
    BY <1>12 DEF Flow, TakenOf, Amounts, Funds
  <2> QED
    BY <2>1 DEF Funds
<1> HIDE DEF w
<1>14. m.b \in Funded(n, a, Nothing, w)
  <2>1. ASSUME m.b.ok PROVE Within(m.b, w)
    BY <1>10, <1>11, <1>13, <2>1 DEF Flowed, Within
  <2> QED
    BY <1>10, <2>1 DEF Funded
<1>15. ASSUME m.b.ok, NEW coin \in Coins
       PROVE  /\ Commits(coin, order, own, r) \in Int /\ y[coin] \in Int
              /\ z[coin] = y[coin] + Commits(coin, order, own, r)
              /\ Flow(coin, order, own, TakenOf(coin, r)) \in Int
              /\ Flow(coin, order, own, TakenOf(coin, r)) <= Commits(coin, order, own, r)
              /\ own # {} =>
                   Flow(coin, order, own, TakenOf(coin, r))
                     + (IF coin = TokenOf(order.side) THEN Native(coin, qty, locked) + fee ELSE 0)
                     <= Commits(coin, order, own, r)
  <2>1. y[coin] \in Int /\ z[coin] = y[coin] + Commits(coin, order, own, r)
    BY DEF Funds, Charged
  <2>2. /\ Commits(coin, order, own, r) \in Int
        /\ Flow(coin, order, own, TakenOf(coin, r)) \in Int
        /\ Flow(coin, order, own, TakenOf(coin, r)) <= Commits(coin, order, own, r)
        /\ own # {} =>
             Flow(coin, order, own, TakenOf(coin, r))
               + (IF coin = TokenOf(order.side) THEN Native(coin, qty, locked) + fee ELSE 0)
               <= Commits(coin, order, own, r)
    <3>1. fee = IF order.side = "Bid" THEN LockedFee(qty, locked) ELSE 0
      BY DEF fee
    <3> QED
      BY <1>5, <1>6, <1>12, <1>15, <3>1, CommitsCover
  <2> QED
    BY <2>1, <2>2
<1> HIDE DEF z
<1>16. m.b.ok
  <2>1. CASE own = {}
    BY <1>2, <1>5, <1>8, <2>1
  <2>2. CASE own # {} /\ qty # 0
    BY <1>5, <2>2
  <2>3. CASE own # {} /\ qty = 0
    <3>1. Recorded(n, m.b, order, locked, id, u, r.b)
      <4>1. r.b = Record(m.b, order, locked, id, u)
        BY <1>5, <2>3
      <4> HIDE DEF id
      <4>2. Recorded(n, m.b, order, locked, id, u, Record(m.b, order, locked, id, u))
        BY <1>5, <1>6, RecordDoes, Zenon
      <4> QED
        BY <4>1, <4>2, Zenon
    <3> QED
      BY <1>2, <3>1, Zenon DEF Recorded, Grown
  <2> QED
    BY <2>1, <2>2, <2>3
<1>17. Within(m.b, w) /\ m.b \in Books /\ r.b \in Books
  BY <1>6, <1>14, <1>16, FundedIs, SoundIs DEF Funded
<1>18. Within(r.b, z)
  <2>1. ASSUME NEW coin \in Coins
        PROVE  OwedIn(coin, r.b) <= z[coin]
    <3>0. /\ OwedIn(coin, m.b) \in Nat /\ OwedIn(coin, r.b) \in Nat
          /\ OwedIn(coin, m.b) <= w[coin] /\ w[coin] \in Int
          /\ w[coin] = y[coin] + Flow(coin, order, own, TakenOf(coin, r))
      BY <1>13, <1>17, OwedIs DEF Within, Funds
    <3>1. CASE own = {}
      <4>1. r.b = m.b
        BY <1>5, <1>8, <3>1
      <4> QED
        BY <1>15, <1>16, <3>0, <4>1
    <3>2. CASE own # {} /\ qty = 0
      <4> DEFINE c == r.b
                 e == m.b
      <4>1. e \in Fresh(n) /\ c = Record(e, order, locked, id, u) /\ c.ok
        BY <1>2, <1>5, <3>2
      <4> HIDE DEF c, e, id
      <4>2. OwedIn(coin, c) = OwedIn(coin, e)
        BY <1>6, <4>1, OwedRecord
      <4> QED
        BY <1>15, <1>16, <3>0, <4>2 DEF c, e
    <3>3. CASE own # {} /\ qty # 0
      <4> DEFINE c == r.b
                 e == m.b
                 f == Post(e, order, price, locked, n + 1, u, qty, present, time, feed)
      <4>1. e \in Fresh(n) /\ c = Record(f, order, locked, id, u) /\ c.ok
        BY <1>2, <1>5, <3>3
      <4>2. qty \in Nat \ {0} /\ ~IsMarket(order) /\ ~ExpiryPassed(order, time)
        BY <1>5, <1>6, <3>3
      <4>3. /\ e \in Funded(n, a, Nothing, w) /\ locked = LockedPrice(order, price)
            /\ f = Post(e, order, price, locked, n + 1, u, qty, present, time, feed)
            /\ fee = IF order.side = "Bid" THEN LockedFee(qty, locked) ELSE 0
        BY <1>14 DEF locked, fee
      <4>4. f \in Fresh(id) /\ Grown(e, f)
        <5> HIDE DEF f, e, present
        <5>1. /\ n + 1 \in 1..MaxOrders /\ e \in Fresh(n) /\ locked \in Nat
              /\ order.pegged => feed \in Int
          BY <1>2, <1>6, <4>1, FermiAssumption
        <5>2. /\ Post(e, order, price, locked, n + 1, u, qty, present, time, feed) \in Fresh(n + 1)
              /\ Grown(e, Post(e, order, price, locked, n + 1, u, qty, present, time, feed))
          BY <4>2, <5>1, PostKeeps
        <5>3. f = Post(e, order, price, locked, n + 1, u, qty, present, time, feed)
          BY <4>3
        <5> QED
          BY <5>2, <5>3
      <4> HIDE DEF c, e, f, present
      <4>5. f.ok /\ OwedIn(coin, c) = OwedIn(coin, f)
        <5> HIDE DEF id
        <5>1. /\ locked \in Nat /\ id \in 0..MaxOrders /\ f \in Fresh(id)
              /\ c = Record(f, order, locked, id, u) /\ c.ok
          BY <1>6, <4>1, <4>4
        <5> QED
          BY <5>1, OwedRecord
      <4>6. OwedIn(coin, f)
              <= w[coin] + IF coin = TokenOf(order.side) THEN Native(coin, qty, locked) + fee ELSE 0
        <5>1. /\ fee \in Nat /\ w \in Funds /\ f.ok
              /\ order.pegged => feed \in Int
          BY <1>2, <1>8, <1>13, <4>5
        <5> QED
          BY <4>2, <4>3, <5>1, OwedPosted
      <4>7. Native(coin, qty, locked) \in Nat
        BY <1>6, NativeNat
      <4>8. /\ Commits(coin, order, own, r) \in Int /\ y[coin] \in Int
            /\ z[coin] = y[coin] + Commits(coin, order, own, r)
            /\ Flow(coin, order, own, TakenOf(coin, r)) \in Int
            /\ Flow(coin, order, own, TakenOf(coin, r))
                 + (IF coin = TokenOf(order.side) THEN Native(coin, qty, locked) + fee ELSE 0)
                 <= Commits(coin, order, own, r)
        BY <1>15, <1>16, <3>3
      <4> DEFINE x == IF coin = TokenOf(order.side) THEN Native(coin, qty, locked) + fee ELSE 0
      <4>9. x \in Int
        BY <1>8, <4>7
      <4> HIDE DEF x
      <4>10. OwedIn(coin, f) <= w[coin] + x
             /\ Flow(coin, order, own, TakenOf(coin, r)) + x <= Commits(coin, order, own, r)
        BY <4>6, <4>8 DEF x
      <4>11. OwedIn(coin, c) \in Nat
        BY <3>0 DEF c
      <4>12. OwedIn(coin, c) <= z[coin]
        BY <3>0, <4>5, <4>8, <4>9, <4>10, <4>11
      <4> QED
        BY <4>12 DEF c
    <3> QED
      BY <3>1, <3>2, <3>3
  <2> QED
    BY <2>1 DEF Within
<1>19. z \in Funds
  <2>1. \A coin \in Coins : Commits(coin, order, own, r) \in Int /\ y[coin] \in Int
    BY <1>15, <1>16
  <2> QED
    BY <2>1 DEF z, Charged, Funds
<1>20. r.b \in Funded(id, a, Nothing, z)
  BY <1>6, <1>18 DEF Funded
<1> QED
  BY <1>7, <1>19, <1>20 DEF z

-----------------------------------------------------------------------------
(* A batch: what is owed grows by no more than the batch costs.            *)

Costs(y, cost) == [coin \in Coins |-> y[coin] + cost[coin]]
FundedCosted(a, y) ==
  {c \in Costed : c.b \in Funded(c.seq_num, a, Nothing, Costs(y, c.cost))}

LEMMA CostsAre ==
  ASSUME NEW y \in Funds, NEW cost \in Balance
  PROVE  /\ Costs(y, cost) \in Funds
         /\ \A coin \in Coins : Costs(y, cost)[coin] = y[coin] + cost[coin] /\ cost[coin] \in Nat
<1>1. \A coin \in Coins : y[coin] \in Int /\ cost[coin] \in Nat
  BY DEF Funds, Coins, Balance
<1> QED
  BY <1>1 DEF Costs, Funds

LEMMA FundedPlaceNext ==
  ASSUME NEW u \in Users, NEW remaining, wallet \in [Users -> Balance],
         now \in 1..MaxTime, oracle \in Oracles, NEW a, NEW y \in Funds,
         NEW c \in FundedCosted(a, y), NEW order \in OrderType, Allowed(order)
  PROVE  PlaceNext(c, u, order, remaining) \in FundedCosted(a, y)
<1> DEFINE token == TokenOf(order.side)
           d == PlaceNext(c, u, order, remaining)
           z == Costs(y, c.cost)
<1>1. /\ c \in Costed /\ c.b \in Books /\ c.seq_num \in 0..MaxOrders /\ c.cost \in Balance
      /\ c.b \in Funded(c.seq_num, a, Nothing, z) /\ c.b \in Fresh(c.seq_num)
  BY FundedIs DEF FundedCosted, Costed
<1>2. \/ d = c \/ PlaceNextFails(c, d)
      \/ \E available \in Nat : \E r : PlaceNextRun(c, d, u, order, remaining, available, r)
  BY <1>1, PlaceNextRuns
<1>3. /\ z \in Funds
      /\ \A coin \in Coins : z[coin] = y[coin] + c.cost[coin] /\ c.cost[coin] \in Nat
  BY <1>1, CostsAre
<1> HIDE DEF d, z
<1>4. ASSUME PlaceNextFails(c, d) PROVE d \in FundedCosted(a, y)
  <2> DEFINE e == [c.b EXCEPT !.ok = FALSE]
  <2>1. e \in Funded(c.seq_num, a, Nothing, z)
    BY <1>1, FundedFails
  <2>2. e \in Books
    BY <2>1, FundedIs
  <2>3. d = [b |-> e, seq_num |-> c.seq_num, cost |-> c.cost]
    BY <1>4 DEF PlaceNextFails
  <2> HIDE DEF e
  <2> QED
    BY <1>1, <2>1, <2>2, <2>3 DEF FundedCosted, Costed, z
<1>5. ASSUME NEW available \in Nat, NEW r, PlaceNextRun(c, d, u, order, remaining, available, r)
      PROVE  d \in FundedCosted(a, y)
  <2> DEFINE cut == CutDown(order, available)
             cost == [c.cost EXCEPT ![token] = c.cost[token] + Committed(order, r)]
             own == {u}
  <2>1. /\ ~ExpiryPassed(order, now) /\ c.seq_num < MaxOrders
        /\ r \in NewOrder(c.b, c.seq_num, cut, u, own, remaining, now, oracle)
        /\ d = [b |-> r.b, seq_num |-> r.seq_num, cost |-> cost]
    BY <1>5, Zenon DEF PlaceNextRun
  <2>2. now \in 1..MaxTime /\ oracle \in Int \cup {NoOracle} /\ own # {}
    BY FermiAssumption
  <2>3. /\ cut \in OrderType /\ WellPegged(cut) /\ cut.side = order.side /\ ~ExpiryPassed(cut, now)
    BY <2>1, CutDownIs DEF Allowed
  <2>4. token \in Coins /\ (order.side = "Bid" <=> token = "quote")
    BY DEF TokenOf, Coins
  <2> HIDE DEF cut
  <2>5. /\ r.b \in Funded(c.seq_num + 1, a, Nothing, Charged(z, cut, own, r))
        /\ Charged(z, cut, own, r) \in Funds /\ Placed(c.b, c.seq_num, cut, r)
    <3>1. own = {u}
      OBVIOUS
    <3> HIDE DEF own
    <3> QED
      BY <1>1, <1>3, <2>1, <2>2, <2>3, <3>1, FundedNewOrder
  <2>6. /\ Amounts(r) /\ r.seq_num = c.seq_num + 1 /\ r.b \in Books
    BY <2>5 DEF Placed, Fresh
  <2> DEFINE more == Committed(order, r)
  <2>7. more \in Nat /\ more = Committed(cut, r)
    BY <2>3, <2>6 DEF Committed, Amounts
  <2> HIDE DEF more
  <2>8. cost \in Balance /\ cost[token] = c.cost[token] + more
        /\ \A t \in Coins : t # token => cost[t] = c.cost[t]
    <3>1. cost = [c.cost EXCEPT ![token] = c.cost[token] + more]
      BY DEF more
    <3>2. c.cost[token] + more \in Nat
      BY <1>3, <2>4, <2>7
    <3> HIDE DEF cost, token
    <3> QED
      BY <1>1, <2>4, <3>1, <3>2 DEF Balance, Coins
  <2> HIDE DEF cost
  <2>9. Charged(z, cut, own, r) = Costs(y, cost)
    <3>1. \A coin \in Coins : Commits(coin, cut, own, r) = IF coin = token THEN more ELSE 0
      BY <2>2, <2>3, <2>7 DEF Commits
    <3>2. \A coin \in Coins : z[coin] + Commits(coin, cut, own, r) = y[coin] + cost[coin]
      <4> TAKE coin \in Coins
      <4>1. z[coin] = y[coin] + c.cost[coin] /\ y[coin] \in Int /\ c.cost[coin] \in Nat
        BY <1>3 DEF Funds
      <4> QED
        BY <2>4, <2>7, <2>8, <3>1, <4>1
    <3> QED
      BY <3>2 DEF Charged, Costs
  <2>10. c.seq_num + 1 \in 0..MaxOrders
    BY <1>1, <2>1, FermiAssumption
  <2> HIDE DEF own
  <2> QED
    BY <2>1, <2>5, <2>6, <2>8, <2>9, <2>10 DEF FundedCosted, Costed
<1>6. d \in FundedCosted(a, y)
  BY <1>2, <1>4, <1>5
<1> QED
  BY <1>6 DEF d

LEMMA FundedBatch ==
  ASSUME NEW u \in Users, NEW remaining, wallet \in [Users -> Balance],
         now \in 1..MaxTime, oracle \in Oracles, NEW a, NEW y \in Funds,
         market.seq_num \in 0..MaxOrders, Book \in Funded(market.seq_num, a, Nothing, y),
         NEW batch \in Batches
  PROVE  PlaceBatch(u, batch, remaining) \in FundedCosted(a, y)
<1> DEFINE V == FundedCosted(a, y)
           zero == [base |-> 0, quote |-> 0]
           n == market.seq_num
           b == CancelSlots(Book, u, batch.cancel)
           start == [b |-> CancelSlots(Book, u, batch.cancel), seq_num |-> market.seq_num,
                     cost |-> [base |-> 0, quote |-> 0]]
<1>1. start = [b |-> b, seq_num |-> n, cost |-> zero] /\ zero \in Balance
      /\ \A coin \in Coins : zero[coin] = 0
  BY DEF Balance, Coins
<1>2. b \in Funded(n, a, Nothing, y)
  <2>1. DropKeeps(Funded(n, a, Nothing, y), {u})
    BY NothingIs, FundedDrops
  <2> QED
    BY <2>1, CancelSlotsStays
<1>3. n \in 0..MaxOrders
  OBVIOUS
<1> HIDE DEF n, b, zero
<1>4. Costs(y, zero) = y
  <2>1. \A coin \in Coins : y[coin] + zero[coin] = y[coin]
    BY <1>1 DEF Funds
  <2> QED
    BY <2>1 DEF Costs, Funds
<1>5. start \in V
  <2>1. b \in Books
    BY <1>2, FundedIs
  <2> HIDE DEF start
  <2> QED
    BY <1>1, <1>2, <1>3, <1>4, <2>1 DEF FundedCosted, Costed
<1>6. \A order \in OrderType, c \in V :
        Allowed(order) => PlaceNext(c, u, order, remaining) \in V
  BY FundedPlaceNext
<1> HIDE DEF V
<1>7. PlaceBatch(u, batch, remaining) \in V
  BY <1>5, <1>6, BatchStays
<1> QED
  BY <1>7 DEF V

-----------------------------------------------------------------------------
(* The state: the totals cover what is owed.                               *)

TotalsOf(m) ==
  [coin \in Coins |-> IF coin = "base" THEN m.base_deposit_total
                      ELSE m.quote_deposit_total - m.fees_available]
TInv == \A coin \in Coins : Owed(coin, oo, leaves, heap.event) <= TotalsOf(market)[coin]

LEMMA TotalsAre ==
  ASSUME NEW m \in MarketType
  PROVE  /\ TotalsOf(m) \in Funds
         /\ TotalsOf(m)["base"] = m.base_deposit_total
         /\ TotalsOf(m)["quote"] = m.quote_deposit_total - m.fees_available
         /\ m.base_deposit_total \in Nat /\ m.quote_deposit_total \in Nat /\ m.fees_available \in Nat
<1>1. m.base_deposit_total \in Nat /\ m.quote_deposit_total \in Nat /\ m.fees_available \in Nat
  BY DEF MarketType
<1> QED
  BY <1>1 DEF TotalsOf, Funds, Coins

LEMMA FundedNow ==
  ASSUME IInv, HInv, TInv
  PROVE  /\ Book \in Funded(market.seq_num, oo, Nothing, TotalsOf(market))
         /\ TotalsOf(market) \in Funds /\ market \in MarketType
<1>1. /\ Book \in Sound(market.seq_num, oo, Nothing)
      /\ Book.leaves = leaves /\ Book.oo = oo /\ Book.heap = heap
  BY SoundNow DEF Book
<1>2. Within(Book, TotalsOf(market))
  BY <1>1 DEF Within, OwedIn, TInv
<1>3. market \in MarketType /\ TotalsOf(market) \in Funds
  BY TotalsAre DEF IInv
<1> QED
  BY <1>1, <1>2, <1>3 DEF Funded

LEMMA BecomesFunded ==
  ASSUME IInv', NEW y \in Funds, NEW n, NEW a, NEW b \in Funded(n, a, Nothing, y), BookBecomes(b),
         \A coin \in Coins : y[coin] <= TotalsOf(market')[coin]
  PROVE  TInv'
<1>1. b.ok /\ leaves' = b.leaves /\ oo' = b.oo /\ heap' = b.heap
  BY DEF BookBecomes
<1>2. Within(b, y) /\ b \in Books
  BY <1>1, FundedIs DEF Funded
<1>3. TotalsOf(market') \in Funds
  BY TotalsAre DEF IInv
<1>4. \A coin \in Coins : Owed(coin, oo', leaves', heap'.event) <= TotalsOf(market')[coin]
  <2> TAKE coin \in Coins
  <2>1. OwedIn(coin, b) \in Nat /\ OwedIn(coin, b) = Owed(coin, oo', leaves', heap'.event)
    BY <1>1, <1>2, OwedIs DEF OwedIn
  <2>2. OwedIn(coin, b) <= y[coin] /\ y[coin] \in Int /\ TotalsOf(market')[coin] \in Int
    BY <1>2, <1>3 DEF Within, Funds
  <2> QED
    BY <2>1, <2>2
<1> QED
  BY <1>4 DEF TInv

\* What an instruction takes off the account after its order, or adds to it.
LEMMA AccountFunded ==
  ASSUME IInv', NEW y \in Funds, NEW n, NEW a, NEW b \in Funded(n, a, Nothing, y),
         NEW u \in Users, NEW account, BookBecomes([b EXCEPT !.oo[u] = account]),
         \A coin \in Coins :
           y[coin] + AccountHas(coin, account) <= TotalsOf(market')[coin] + AccountHas(coin, b.oo[u])
  PROVE  TInv'
<1> DEFINE d == [b EXCEPT !.oo[u] = account]
<1>1. /\ d.ok = b.ok /\ d.leaves = b.leaves /\ d.oo = [b.oo EXCEPT ![u] = account]
      /\ d.heap = b.heap /\ b \in Books /\ b.oo \in Accounts
  BY FundedIs DEF Books, BookType
<1>2. d.ok /\ leaves' = d.leaves /\ oo' = d.oo /\ heap' = d.heap
  BY DEF BookBecomes
<1> HIDE DEF d
<1>3. oo'[u] = account /\ \A v \in Users : v # u => oo'[v] = b.oo[v]
  BY <1>1, <1>2 DEF Accounts
<1>4. oo' \in Accounts /\ TotalsOf(market') \in Funds /\ Within(b, y)
  BY <1>1, <1>2, AccountsNext, TotalsAre DEF IInv, Funded
<1>5. \A coin \in Coins : Owed(coin, oo', leaves', heap'.event) <= TotalsOf(market')[coin]
  <2> TAKE coin \in Coins
  <2>1. AccountSum(coin, oo')
          = AccountSum(coin, b.oo) - AccountHas(coin, b.oo[u]) + AccountHas(coin, account)
    <3> DEFINE after == oo'
    <3>1. /\ after \in Accounts /\ after[u] = account
          /\ \A v \in Users \ {u} : AccountHas(coin, after[v]) = AccountHas(coin, b.oo[v])
      BY <1>3, <1>4
    <3> HIDE DEF after
    <3>2. AccountSum(coin, after)
            = AccountSum(coin, b.oo) - AccountHas(coin, b.oo[u]) + AccountHas(coin, after[u])
      BY <1>1, <3>1, AccountSumSet
    <3> QED
      BY <3>1, <3>2 DEF after
  <2>2. /\ OwedIn(coin, b) = AccountSum(coin, b.oo) + LeafTotal(coin, b.leaves)
                               + EventTotal(coin, b.heap.event)
        /\ AccountSum(coin, b.oo) \in Nat /\ LeafTotal(coin, b.leaves) \in Nat
        /\ EventTotal(coin, b.heap.event) \in Nat
    BY <1>1, OwedIs
  <2>3. Owed(coin, oo', leaves', heap'.event)
          = AccountSum(coin, oo') + LeafTotal(coin, b.leaves) + EventTotal(coin, b.heap.event)
    BY <1>1, <1>2 DEF Owed
  <2>4. AccountHas(coin, b.oo[u]) \in Nat /\ AccountHas(coin, account) \in Nat
    BY <1>1, <1>3, <1>4, AccountHasNat DEF Accounts
  <2>5. OwedIn(coin, b) <= y[coin] /\ y[coin] \in Int /\ TotalsOf(market')[coin] \in Int
    BY <1>4 DEF Within, Funds
  <2> QED
    BY <2>1, <2>2, <2>3, <2>4, <2>5
<1> QED
  BY <1>5 DEF TInv

-----------------------------------------------------------------------------
(* The steps that leave the book as an operator of the book makes it.      *)

LEMMA CancelOneFunded ==
  ASSUME IInv, HInv, TInv, IInv', NEW u \in Users, NEW slot, CancelOneOrder(u, slot)
  PROVE  TInv'
<1> DEFINE y == TotalsOf(market)
           G == Funded(market.seq_num, oo, Nothing, y)
<1>1. y \in Funds /\ Book \in G /\ DropKeeps(G, {u})
  BY FundedNow, FundedDrops, NothingIs
<1>2. BookBecomes(CancelOrder(Book, u, slot)) /\ market' = market
  BY DEF CancelOneOrder, OnBookOnly
<1>3. \A coin \in Coins : y[coin] <= TotalsOf(market')[coin]
  BY <1>1, <1>2 DEF Funds
<1> HIDE DEF G, y
<1>4. CancelOrder(Book, u, slot) \in G
  BY <1>1, CancelOrderStays
<1> QED
  BY <1>1, <1>2, <1>3, <1>4, BecomesFunded DEF G

LEMMA CancelAllFunded ==
  ASSUME IInv, HInv, TInv, IInv', NEW u \in Users, NEW sides, NEW limit \in CancelLimits,
         CancelAll(u, sides, limit) \/ (PruneOrders(u, limit) /\ sides = Side)
  PROVE  TInv'
<1> DEFINE y == TotalsOf(market)
           G == Funded(market.seq_num, oo, Nothing, y)
<1>1. y \in Funds /\ Book \in G /\ DropKeeps(G, {u}) /\ limit \in Nat
  BY FundedNow, FundedDrops, NothingIs, FermiAssumption
<1>2. BookBecomes(CancelAllOrders(Book, u, sides, limit)) /\ market' = market
  BY DEF CancelAll, PruneOrders, OnBookOnly
<1>3. \A coin \in Coins : y[coin] <= TotalsOf(market')[coin]
  BY <1>1, <1>2 DEF Funds
<1> HIDE DEF G, y
<1>4. CancelAllOrders(Book, u, sides, limit) \in G
  BY <1>1, CancelAllStays
<1> QED
  BY <1>1, <1>2, <1>3, <1>4, BecomesFunded DEF G

LEMMA PlaceFunded ==
  ASSUME IInv, IInv', NEW u \in Users,
         NEW b \in Funded(market.seq_num, oo, Nothing, TotalsOf(market)),
         NEW order \in OrderType, WellPegged(order), ~ExpiryPassed(order, now),
         NEW remaining, Place(b, u, order, remaining)
  PROVE  TInv'
<1> DEFINE n == market.seq_num
           bid == order.side = "Bid"
           y == TotalsOf(market)
           own == {u}
           Approved(r) == Committed(order, r) + IF bid THEN r.b.oo[u].total_approved_quote
                                                ELSE r.b.oo[u].total_approved_base
           Grew(r) == HeapLen(r.b.heap) > HeapLen(b.heap)
           Account(r) == [r.b.oo[u] EXCEPT
                            !.penalty_heap_count = @ + IF Grew(r) THEN 1 ELSE 0,
                            !.total_approved_quote = IF bid THEN Approved(r) ELSE @,
                            !.total_approved_base = IF bid THEN @ ELSE Approved(r)]
<1>1. PICK r \in NewOrder(b, n, order, u, {u}, remaining, now, oracle) :
        /\ BookBecomes([r.b EXCEPT !.oo[u] = Account(r)])
        /\ market' = [market EXCEPT
                        !.seq_num = r.seq_num,
                        !.quote_deposit_total = @ + IF bid THEN Committed(order, r) ELSE 0,
                        !.base_deposit_total = @ + IF bid THEN 0 ELSE Committed(order, r)]
  BY Zenon DEF Place
<1>2. /\ n \in 0..MaxOrders /\ now \in 1..MaxTime /\ oracle \in Int \cup {NoOracle}
      /\ market \in MarketType /\ y \in Funds
  BY TypesNow, TotalsAre, FermiAssumption DEF IInv
<1>3. n < MaxOrders
  BY Zenon DEF Place
<1> DEFINE z == Charged(y, order, own, r)
<1>4. r.b \in Funded(n + 1, oo, Nothing, z) /\ z \in Funds /\ Placed(b, n, order, r) /\ own # {}
  <2>1. /\ r.b \in Funded(n + 1, oo, Nothing, Charged(y, order, {u}, r))
        /\ Charged(y, order, {u}, r) \in Funds /\ Placed(b, n, order, r)
    <3> HIDE DEF y, n
    <3>1. b \in Funded(n, oo, Nothing, y)
      BY DEF y, n
    <3> QED
      BY <1>1, <1>2, <1>3, <3>1, FundedNewOrder
  <2> QED
    BY <2>1
<1> DEFINE a == r.b.oo[u]
           x == Approved(r)
           more == IF Grew(r) THEN 1 ELSE 0
           c == [a EXCEPT !.penalty_heap_count = @ + more,
                          !.total_approved_quote = IF bid THEN x ELSE @,
                          !.total_approved_base = IF bid THEN @ ELSE x]
           amount == Committed(order, r)
<1>5. BookBecomes([r.b EXCEPT !.oo[u] = c])
  BY <1>1
<1>6. a \in AccountType
  BY <1>4, FundedIs DEF Accounts
<1> HIDE DEF Approved, Grew, Account, x, more
<1>7. \A coin : AccountHas(coin, c) = AccountHas(coin, a) /\ AccountHas(coin, a) \in Nat
  <2>1. /\ c.base_free_native = a.base_free_native /\ c.quote_free_native = a.quote_free_native
        /\ c.locked_maker_fees = a.locked_maker_fees
    BY <1>6 DEF AccountType
  <2> HIDE DEF c, a
  <2> QED
    BY <1>6, <2>1, AccountHasNat DEF AccountHas
<1> HIDE DEF c, n
<1>8. amount \in Nat
  BY <1>4, CommittedIs DEF Placed
<1>9. \A coin \in Coins : z[coin] = TotalsOf(market')[coin] /\ z[coin] \in Int
  <2>1. \A coin \in Coins : z[coin] = y[coin] + IF coin = TokenOf(order.side) THEN amount ELSE 0
    BY <1>4 DEF Charged, Commits
  <2>2. /\ market'.base_deposit_total = market.base_deposit_total + IF bid THEN 0 ELSE amount
        /\ market'.quote_deposit_total = market.quote_deposit_total + IF bid THEN amount ELSE 0
        /\ market'.fees_available = market.fees_available
    <3> DEFINE p == market.quote_deposit_total + IF bid THEN amount ELSE 0
               q == market.base_deposit_total + IF bid THEN 0 ELSE amount
    <3>1. market' = [market EXCEPT !.seq_num = r.seq_num, !.quote_deposit_total = p,
                                   !.base_deposit_total = q]
      BY <1>1
    <3> HIDE DEF p, q
    <3>2. market'.base_deposit_total = q /\ market'.quote_deposit_total = p
          /\ market'.fees_available = market.fees_available
      BY <1>2, <3>1 DEF MarketType
    <3> QED
      BY <3>2 DEF p, q
  <2>3. /\ y["base"] = market.base_deposit_total
        /\ y["quote"] = market.quote_deposit_total - market.fees_available
        /\ market.base_deposit_total \in Nat /\ market.quote_deposit_total \in Nat
        /\ market.fees_available \in Nat
    BY <1>2, TotalsAre
  <2>4. /\ TotalsOf(market')["base"] = market'.base_deposit_total
        /\ TotalsOf(market')["quote"] = market'.quote_deposit_total - market'.fees_available
    BY TotalsAre DEF IInv
  <2>5. TokenOf(order.side) = IF bid THEN "quote" ELSE "base"
    BY DEF TokenOf
  <2> HIDE DEF z, y, amount, bid
  <2>6. z["base"] = TotalsOf(market')["base"] /\ z["quote"] = TotalsOf(market')["quote"]
    BY <1>8, <2>1, <2>2, <2>3, <2>4, <2>5 DEF Coins
  <2> QED
    BY <1>4, <2>6 DEF Coins, Funds
<1> HIDE DEF z, a
<1>10. \A coin \in Coins :
         z[coin] + AccountHas(coin, c) <= TotalsOf(market')[coin] + AccountHas(coin, a)
  BY <1>7, <1>9
<1> DEFINE k == n + 1
<1>11. r.b \in Funded(k, oo, Nothing, z)
  BY <1>4
<1> HIDE DEF k
<1> QED
  BY <1>4, <1>5, <1>10, <1>11, AccountFunded DEF a

LEMMA PlaceOrderFunded ==
  ASSUME IInv, HInv, TInv, IInv', NEW u \in Users, NEW order \in Orders, NEW remaining,
         PlaceOrder(u, order, remaining)
  PROVE  TInv'
<1>1. Book \in Funded(market.seq_num, oo, Nothing, TotalsOf(market))
  BY FundedNow
<1>2. order \in OrderType /\ WellPegged(order)
  BY FermiAssumption
<1>3. ~ExpiryPassed(order, now) /\ Place(Book, u, order, remaining)
  BY Zenon DEF PlaceOrder
<1> QED
  BY <1>1, <1>2, <1>3, PlaceFunded

LEMMA EditOrderFunded ==
  ASSUME IInv, HInv, TInv, IInv', NEW u \in Users, NEW slot \in OrderSlot,
         NEW expected \in EditSizes, NEW order \in Orders, NEW remaining,
         EditOrder(u, slot, expected, order, remaining)
  PROVE  TInv'
<1> DEFINE cancelled == CancelOrder(Book, u, slot)
           y == TotalsOf(market)
           G == Funded(market.seq_num, oo, Nothing, y)
<1>1. DropKeeps(G, {u}) /\ Book \in G /\ y \in Funds
  BY FundedNow, FundedDrops, NothingIs
<1> HIDE DEF G, y
<1>2. cancelled \in G
  BY <1>1, CancelOrderStays
<1>3. PICK resting \in LeafOf(Book, u, slot) :
        \/ /\ order.base > expected - resting.qty
           /\ Place(cancelled, u, [order EXCEPT !.base = @ - (expected - resting.qty)], remaining)
        \/ BookBecomes(cancelled) /\ market' = market
  BY Zenon DEF EditOrder
<1>4. ~ExpiryPassed(order, now)
  BY Zenon DEF EditOrder
<1> HIDE DEF cancelled
<1>5. CASE BookBecomes(cancelled) /\ market' = market
  <2>1. \A coin \in Coins : y[coin] <= TotalsOf(market')[coin]
    BY <1>1, <1>5 DEF Funds, y
  <2> QED
    BY <1>1, <1>2, <1>5, <2>1, BecomesFunded DEF G
<1>6. CASE /\ order.base > expected - resting.qty
           /\ Place(cancelled, u, [order EXCEPT !.base = @ - (expected - resting.qty)], remaining)
  <2>1. resting \in Leaves
    <3>1. resting \in leaves
      BY Zenon DEF LeafOf, Book
    <3> QED
      BY <3>1, TypesNow
  <2>2. resting.qty \in Nat /\ expected \in Nat /\ order \in OrderType /\ WellPegged(order)
    BY <2>1, FermiAssumption DEF Leaves, LeafType
  <2> DEFINE x == order.base - (expected - resting.qty)
             smaller == [order EXCEPT !.base = x]
  <2>3. x \in Nat
    BY <1>6, <2>2 DEF OrderType
  <2> HIDE DEF x
  <2>4. /\ smaller \in OrderType /\ smaller.side = order.side /\ smaller.pegged = order.pegged
        /\ smaller.type = order.type /\ smaller.peg_limit = order.peg_limit
        /\ smaller.expiry = order.expiry
    BY <2>2, <2>3 DEF OrderType
  <2>5. Place(cancelled, u, smaller, remaining)
    BY <1>6 DEF x
  <2> HIDE DEF smaller
  <2>6. WellPegged(smaller) /\ ~ExpiryPassed(smaller, now)
    BY <1>4, <2>2, <2>4 DEF WellPegged, ExpiryPassed, IsMarket
  <2> QED
    BY <1>2, <2>4, <2>5, <2>6, PlaceFunded DEF G, y
<1> QED
  BY <1>3, <1>5, <1>6

LEMMA CancelAndPlaceFunded ==
  ASSUME IInv, HInv, TInv, IInv', NEW u \in Users, NEW batch \in Batches, NEW remaining,
         CancelAndPlaceOrders(u, batch, remaining)
  PROVE  TInv'
<1> DEFINE c == PlaceBatch(u, batch, remaining)
           base == ToDeposit(c, u, "base")
           quote == ToDeposit(c, u, "quote")
           grew == HeapLen(c.b.heap) > HeapLen(heap)
           account == [c.b.oo[u] EXCEPT !.base_free_native = @ - FromFree(c, u, "base"),
                                        !.quote_free_native = @ - FromFree(c, u, "quote"),
                                        !.penalty_heap_count = @ + IF grew THEN 1 ELSE 0]
           y == TotalsOf(market)
           z == Costs(y, c.cost)
<1>1. /\ BookBecomes([c.b EXCEPT !.oo[u] = account])
      /\ market' = [market EXCEPT !.seq_num = c.seq_num,
                                  !.base_deposit_total = @ + base,
                                  !.quote_deposit_total = @ + quote]
  BY Zenon DEF CancelAndPlaceOrders
<1>2. /\ now \in 1..MaxTime /\ oracle \in Oracles /\ wallet \in [Users -> Balance]
      /\ market.seq_num \in 0..MaxOrders /\ Book \in Funded(market.seq_num, oo, Nothing, y)
      /\ y \in Funds /\ market \in MarketType
  BY SoundNow, FundedNow DEF IInv, TokensTyped, Balances
<1> HIDE DEF y
<1>3. c \in FundedCosted(oo, y)
  BY <1>2, FundedBatch
<1> HIDE DEF c
<1>4. /\ c.b \in Funded(c.seq_num, oo, Nothing, z) /\ c.cost \in Balance
      /\ c.seq_num \in 0..MaxOrders
  BY <1>3 DEF FundedCosted, Costed
<1>5. /\ z \in Funds
      /\ \A coin \in Coins : z[coin] = y[coin] + c.cost[coin] /\ c.cost[coin] \in Nat
  BY <1>2, <1>4, CostsAre
<1> HIDE DEF z
<1> DEFINE a == c.b.oo[u]
           x == FromFree(c, u, "base")
           w == FromFree(c, u, "quote")
           more == a.penalty_heap_count + IF grew THEN 1 ELSE 0
           restBase == a.base_free_native - x
           restQuote == a.quote_free_native - w
<1>6. a \in AccountType
  BY <1>4, FundedIs DEF Accounts
<1>7. /\ a.base_free_native \in Nat /\ a.quote_free_native \in Nat /\ a.locked_maker_fees \in Nat
  BY <1>6 DEF AccountType
<1>8. x \in Nat /\ w \in Nat /\ base = c.cost["base"] - x /\ quote = c.cost["quote"] - w
      /\ c.cost["base"] \in Nat /\ c.cost["quote"] \in Nat
  <2>1. c.cost["base"] \in Nat /\ c.cost["quote"] \in Nat
    BY <1>5 DEF Coins
  <2> QED
    BY <1>7, <2>1 DEF FromFree, ToDeposit, Smaller, FreeOf
<1>9. /\ AccountHas("base", account) = AccountHas("base", a) - x
      /\ AccountHas("quote", account) = AccountHas("quote", a) - w
      /\ AccountHas("base", a) \in Nat /\ AccountHas("quote", a) \in Nat
  <2>1. account = [a EXCEPT !.base_free_native = restBase, !.quote_free_native = restQuote,
                            !.penalty_heap_count = more]
    OBVIOUS
  <2> HIDE DEF restBase, restQuote, more, a, account
  <2>2. /\ account.base_free_native = restBase /\ account.quote_free_native = restQuote
        /\ account.locked_maker_fees = a.locked_maker_fees
    BY <1>6, <2>1 DEF AccountType
  <2> HIDE DEF x, w
  <2> QED
    BY <1>7, <1>8, <2>2 DEF AccountHas, restBase, restQuote
<1>10. /\ market'.base_deposit_total = market.base_deposit_total + base
       /\ market'.quote_deposit_total = market.quote_deposit_total + quote
       /\ market'.fees_available = market.fees_available
  <2> DEFINE p == market.base_deposit_total + base
             q == market.quote_deposit_total + quote
  <2>1. market' = [market EXCEPT !.seq_num = c.seq_num, !.base_deposit_total = p,
                                 !.quote_deposit_total = q]
    BY <1>1
  <2> HIDE DEF p, q
  <2>2. market'.base_deposit_total = p /\ market'.quote_deposit_total = q
        /\ market'.fees_available = market.fees_available
    BY <1>2, <2>1 DEF MarketType
  <2> QED
    BY <2>2 DEF p, q
<1>11. /\ y["base"] = market.base_deposit_total
       /\ y["quote"] = market.quote_deposit_total - market.fees_available
       /\ market.base_deposit_total \in Nat /\ market.quote_deposit_total \in Nat
       /\ market.fees_available \in Nat
  BY <1>2, TotalsAre DEF y
<1>12. /\ TotalsOf(market')["base"] = market'.base_deposit_total
       /\ TotalsOf(market')["quote"] = market'.quote_deposit_total - market'.fees_available
  BY TotalsAre DEF IInv
<1> HIDE DEF account, base, quote, x, w, a
<1>13. \A coin \in Coins :
         z[coin] + AccountHas(coin, account) <= TotalsOf(market')[coin] + AccountHas(coin, a)
  <2>1. z["base"] = y["base"] + c.cost["base"] /\ z["quote"] = y["quote"] + c.cost["quote"]
    BY <1>5 DEF Coins
  <2>2. z["base"] + AccountHas("base", account)
          <= TotalsOf(market')["base"] + AccountHas("base", a)
    BY <1>8, <1>9, <1>10, <1>11, <1>12, <2>1
  <2>3. z["quote"] + AccountHas("quote", account)
          <= TotalsOf(market')["quote"] + AccountHas("quote", a)
    BY <1>8, <1>9, <1>10, <1>11, <1>12, <2>1
  <2> QED
    BY <2>2, <2>3 DEF Coins
<1> QED
  BY <1>1, <1>4, <1>5, <1>13, AccountFunded DEF a

\* What the referrer is paid, or the market keeps, is part of the taker fees.
LEMMA ReferrerWithin ==
  ASSUME NEW n, NEW b \in Fresh(n), NEW order \in OrderType, WellPegged(order),
         NEW u \in Users, NEW own \in SUBSET Users, NEW remaining, NEW time \in 1..MaxTime,
         NEW feed \in Int \cup {NoOracle},
         NEW r \in NewOrder(b, n, order, u, own, remaining, time, feed), Amounts(r)
  PROVE  r.referrer_amount <= r.taker_fees
<1>1. \E price \in Nat \ {0}, qty \in 0..order.base : \E m :
        NewOrderRun(b, n, order, u, own, remaining, time, feed, r, price, m, qty)
  BY NewOrderRuns
<1>2. PICK price \in Nat \ {0}, qty \in 0..order.base : \E m :
        NewOrderRun(b, n, order, u, own, remaining, time, feed, r, price, m, qty)
  BY <1>1
<1>3. PICK m : NewOrderRun(b, n, order, u, own, remaining, time, feed, r, price, m, qty)
  BY <1>2
<1> DEFINE maxQuote == MaxQuote(order)
           id == n + 1
           present == own \cup remaining
<1>4. /\ m \in Matches(b, order, maxQuote)
      /\ r = Settle(m, order, maxQuote, price, id, u, own, present, time, feed)
  BY <1>3, Zenon DEF NewOrderRun
<1>5. m.rebates \in Nat /\ r.taker_fees \in Nat
  BY <1>4 DEF Matches, MatchType, Amounts
<1> HIDE DEF maxQuote, id, present
<1>6. r.referrer_amount = r.taker_fees - m.rebates
  BY <1>4, Zenon DEF Settle
<1> QED
  BY <1>5, <1>6

LEMMA PlaceTakeFunded ==
  ASSUME IInv, HInv, TInv, IInv', NEW u \in Users, NEW order \in TakeOrders, NEW remaining,
         NEW referrer, PlaceTakeOrder(u, order, remaining, referrer)
  PROVE  TInv'
<1> DEFINE n == market.seq_num
           bid == order.side = "Bid"
           y == TotalsOf(market)
           Pays(r) == IF bid THEN r.quote_taken + r.taker_fees ELSE r.base_taken
           Delivers(r) == IF bid THEN r.base_taken ELSE r.quote_taken - r.taker_fees
           BaseTotal(r) == market.base_deposit_total + IF bid THEN -Delivers(r) ELSE Pays(r)
           QuoteTotal(r) == market.quote_deposit_total + IF bid THEN Pays(r) ELSE -Delivers(r)
           QuoteLeft(r) == QuoteTotal(r) - IF referrer THEN r.referrer_amount ELSE 0
           Fees(r) == market.fees_available + IF referrer THEN 0 ELSE r.referrer_amount
<1>1. PICK r \in NewOrder(Book, n, order, u, {}, remaining, now, NoOracle) :
        /\ BookBecomes(r.b)
        /\ market' = [market EXCEPT
                        !.seq_num = r.seq_num,
                        !.base_deposit_total = BaseTotal(r), !.quote_deposit_total = QuoteLeft(r),
                        !.fees_available = Fees(r)]
  BY Zenon DEF PlaceTakeOrder
<1>2. n < MaxOrders
  BY Zenon DEF PlaceTakeOrder
<1>3. order \in OrderType /\ IsMarket(order) /\ WellPegged(order)
  BY FermiAssumption DEF WellPegged
<1>4. /\ n \in 0..MaxOrders /\ now \in 1..MaxTime /\ NoOracle \in Int \cup {NoOracle}
      /\ Book \in Funded(n, oo, Nothing, y) /\ y \in Funds /\ market \in MarketType
      /\ Book \in Fresh(n)
  BY SoundNow, FundedNow DEF IInv
<1> DEFINE none == {}
           z == Charged(y, order, none, r)
<1>5. r.b \in Funded(n + 1, oo, Nothing, z) /\ z \in Funds /\ Placed(Book, n, order, r)
  <2>1. none = {} /\ r \in NewOrder(Book, n, order, u, none, remaining, now, NoOracle)
    BY <1>1
  <2> DEFINE b == Book
             time == now
  <2>2. /\ b \in Funded(n, oo, Nothing, y) /\ time \in 1..MaxTime
        /\ r \in NewOrder(b, n, order, u, none, remaining, time, NoOracle)
    BY <1>4, <2>1
  <2> HIDE DEF y, n, b, time, none
  <2>3. /\ r.b \in Funded(n + 1, oo, Nothing, Charged(y, order, none, r))
        /\ Charged(y, order, none, r) \in Funds /\ Placed(b, n, order, r)
    BY <1>2, <1>3, <1>4, <2>1, <2>2, FundedNewOrder
  <2> QED
    BY <2>3 DEF b
<1>6. Amounts(r) /\ r.referrer_amount \in Nat
  BY <1>5 DEF Placed
<1>7. r.referrer_amount <= r.taker_fees
  <2>1. {} \in SUBSET Users
    OBVIOUS
  <2> HIDE DEF n
  <2> QED
    BY <1>1, <1>3, <1>4, <1>6, <2>1, ReferrerWithin
<1>8. /\ z["base"] = y["base"] - IF bid THEN r.base_taken ELSE 0
      /\ z["quote"] = y["quote"] - IF bid THEN 0 ELSE r.quote_taken
  <2>1. TokenOf(order.side) = IF bid THEN "quote" ELSE "base"
    BY DEF TokenOf
  <2>2. y["base"] \in Int /\ y["quote"] \in Int
    BY <1>4 DEF Funds, Coins
  <2> QED
    BY <1>6, <2>1, <2>2 DEF Charged, Commits, Coins, TakenOf, Amounts
<1>9. /\ market'.base_deposit_total = BaseTotal(r)
      /\ market'.quote_deposit_total = QuoteLeft(r)
      /\ market'.fees_available = Fees(r)
  <2> DEFINE p == BaseTotal(r)
             q == QuoteLeft(r)
             f == Fees(r)
  <2>1. market' = [market EXCEPT !.seq_num = r.seq_num, !.base_deposit_total = p,
                                 !.quote_deposit_total = q, !.fees_available = f]
    BY <1>1
  <2> HIDE DEF p, q, f
  <2>2. market'.base_deposit_total = p /\ market'.quote_deposit_total = q
        /\ market'.fees_available = f
    BY <1>4, <2>1 DEF MarketType
  <2> QED
    BY <2>2 DEF p, q, f
<1>10. /\ y["base"] = market.base_deposit_total
       /\ y["quote"] = market.quote_deposit_total - market.fees_available
       /\ market.base_deposit_total \in Nat /\ market.quote_deposit_total \in Nat
       /\ market.fees_available \in Nat
  BY <1>4, TotalsAre
<1>11. /\ TotalsOf(market')["base"] = market'.base_deposit_total
       /\ TotalsOf(market')["quote"] = market'.quote_deposit_total - market'.fees_available
  BY TotalsAre DEF IInv
<1> HIDE DEF z, y
<1>12. \A coin \in Coins : z[coin] <= TotalsOf(market')[coin]
  <2>1. /\ r.base_taken \in Nat /\ r.quote_taken \in Nat /\ r.taker_fees \in Nat
    BY <1>6 DEF Amounts
  <2>2. z["base"] <= TotalsOf(market')["base"]
    BY <1>8, <1>9, <1>10, <1>11, <2>1
  <2>3. z["quote"] <= TotalsOf(market')["quote"]
    BY <1>6, <1>7, <1>8, <1>9, <1>10, <1>11, <2>1
  <2> QED
    BY <2>2, <2>3 DEF Coins
<1> DEFINE k == n + 1
<1>13. r.b \in Funded(k, oo, Nothing, z) /\ BookBecomes(r.b)
  BY <1>1, <1>5
<1> HIDE DEF k
<1> QED
  BY <1>5, <1>12, <1>13, BecomesFunded

-----------------------------------------------------------------------------
(* The steps that take a match off the heap pay no more than it brings.    *)

LEMMA OwedNow ==
  ASSUME IInv, NEW coin
  PROVE  /\ Owed(coin, oo, leaves, heap.event)
              = AccountSum(coin, oo) + LeafTotal(coin, leaves) + EventTotal(coin, heap.event)
         /\ AccountSum(coin, oo) \in Nat /\ LeafTotal(coin, leaves) \in Nat
         /\ EventTotal(coin, heap.event) \in Nat
<1>1. AccountSum(coin, oo) \in Nat
  BY EventsNow, AccountSumIs
<1>2. LeafTotal(coin, leaves) \in Nat
  BY EventsNow, LeafTotalIs
<1>3. EventTotal(coin, heap.event) \in Nat
  BY EventsNow, EventTotalIs
<1> QED
  BY <1>1, <1>2, <1>3 DEF Owed

LEMMA EventPays ==
  ASSUME IInv, TInv, IInv', NEW slot \in HeapSlot, NEW ev, ev = heap.event[slot],
         heap' = DeleteSlot(heap, slot), leaves' = leaves, market' = market,
         \A coin \in Coins : AccountSum(coin, oo') <= AccountSum(coin, oo) + EventBrings(coin, ev)
  PROVE  TInv'
<1> DEFINE event == heap.event
           after == heap'.event
<1>1. /\ event \in [HeapSlot -> EventType \cup {NoEvent}] /\ ev \in EventType \cup {NoEvent}
      /\ ev = event[slot]
  BY EventsNow
<1>2. after = [event EXCEPT ![slot] = NoEvent]
  BY DEF DeleteSlot
<1>3. oo' \in Accounts /\ TotalsOf(market) \in Funds
  BY AccountsNext, TotalsAre DEF IInv
<1> HIDE DEF event, after
<1>4. ASSUME NEW coin \in Coins
      PROVE  Owed(coin, oo', leaves', heap'.event) <= TotalsOf(market')[coin]
  <2>1. EventTotal(coin, after)
          = EventTotal(coin, event) - EventBrings(coin, event[slot]) + EventBrings(coin, NoEvent)
    <3> DEFINE none == NoEvent
    <3>1. none \in EventType \cup {NoEvent} /\ after = [event EXCEPT ![slot] = none]
      BY <1>2
    <3> HIDE DEF none
    <3>2. EventTotal(coin, after)
            = EventTotal(coin, event) - EventBrings(coin, event[slot]) + EventBrings(coin, none)
      BY <1>1, <3>1, EventTotalSet
    <3> QED
      BY <3>2 DEF none
  <2>2. EventBrings(coin, NoEvent) = 0
    BY DEF EventBrings
  <2>3. EventBrings(coin, ev) \in Nat
    BY <1>1, EventBringsNat
  <2>4. /\ Owed(coin, oo, leaves, event)
             = AccountSum(coin, oo) + LeafTotal(coin, leaves) + EventTotal(coin, event)
        /\ AccountSum(coin, oo) \in Nat /\ LeafTotal(coin, leaves) \in Nat
        /\ EventTotal(coin, event) \in Nat
    BY OwedNow DEF event
  <2>5. AccountSum(coin, oo') \in Nat
    <3> DEFINE accounts == oo'
    <3>1. accounts \in Accounts
      BY <1>3
    <3> HIDE DEF accounts
    <3>2. AccountSum(coin, accounts) \in Nat
      BY <3>1, AccountSumIs
    <3> QED
      BY <3>2 DEF accounts
  <2>6. Owed(coin, oo', leaves', after)
          = AccountSum(coin, oo') + LeafTotal(coin, leaves) + EventTotal(coin, after)
    BY DEF Owed
  <2>7. AccountSum(coin, oo') <= AccountSum(coin, oo) + EventBrings(coin, ev)
    OBVIOUS
  <2>8. Owed(coin, oo, leaves, event) <= TotalsOf(market)[coin] /\ TotalsOf(market)[coin] \in Int
    BY <1>3 DEF TInv, Funds, event
  <2>9. Owed(coin, oo', leaves', after) <= TotalsOf(market)[coin]
    BY <1>1, <2>1, <2>2, <2>3, <2>4, <2>5, <2>6, <2>7, <2>8
  <2> QED
    BY <2>9 DEF after
<1> QED
  BY <1>4 DEF TInv

\* Two accounts change.
LEMMA AccountSumTwo ==
  ASSUME NEW coin, NEW accounts \in Accounts, NEW after \in Accounts, NEW u \in Users,
         NEW w \in Users, u # w, \A v \in Users : v # u /\ v # w => after[v] = accounts[v]
  PROVE  AccountSum(coin, after)
           = AccountSum(coin, accounts)
               + (AccountHas(coin, after[u]) - AccountHas(coin, accounts[u]))
               + (AccountHas(coin, after[w]) - AccountHas(coin, accounts[w]))
<1> DEFINE middle == [accounts EXCEPT ![u] = after[u]]
<1>1. /\ middle \in Accounts /\ middle[u] = after[u] /\ middle[w] = accounts[w]
      /\ \A v \in Users \ {u} : middle[v] = accounts[v]
      /\ \A v \in Users \ {w} : after[v] = middle[v]
  BY DEF Accounts
<1> HIDE DEF middle
<1>2. AccountSum(coin, middle)
        = AccountSum(coin, accounts) - AccountHas(coin, accounts[u]) + AccountHas(coin, middle[u])
  <2>1. \A v \in Users \ {u} : AccountHas(coin, middle[v]) = AccountHas(coin, accounts[v])
    BY <1>1
  <2> QED
    BY <1>1, <2>1, AccountSumSet
<1>3. AccountSum(coin, after)
        = AccountSum(coin, middle) - AccountHas(coin, middle[w]) + AccountHas(coin, after[w])
  <2>1. \A v \in Users \ {w} : AccountHas(coin, after[v]) = AccountHas(coin, middle[v])
    BY <1>1
  <2> QED
    BY <1>1, <2>1, AccountSumSet
<1>4. /\ AccountSum(coin, accounts) \in Int
      /\ AccountHas(coin, after[u]) \in Int /\ AccountHas(coin, accounts[u]) \in Int
      /\ AccountHas(coin, after[w]) \in Int /\ AccountHas(coin, accounts[w]) \in Int
  BY AccountSumIs, AccountHasNat DEF Accounts
<1> QED
  BY <1>1, <1>2, <1>3, <1>4

\* What a debit leaves is no more than there was.
LEMMA DebitTakes ==
  ASSUME NEW free \in Nat, NEW amount \in Nat
  PROVE  FreeLeft(free, AfterMargin(amount)) \in Nat /\ FreeLeft(free, AfterMargin(amount)) <= free
<1> DEFINE due == AfterMargin(amount)
<1>1. due \in Nat
  BY AfterMarginIs
<1> HIDE DEF due
<1>2. FreeLeft(free, due) \in Nat /\ FreeLeft(free, due) <= free
  BY <1>1 DEF FreeLeft
<1> QED
  BY <1>2 DEF due

\* What a match with an account brings is its two amounts.
LEMMA FillBringsAmounts ==
  ASSUME NEW ev, ev # NoEvent, ev.type # "Out", ev.type = "Fill" \/ ev.by_account
  PROVE  EventBrings("base", ev) = BaseAmount(ev) /\ EventBrings("quote", ev) = QuoteAmount(ev)
BY DEF EventBrings, Native, LockedQuote, BaseAmount, QuoteAmount


LEMMA SettleFillFunded ==
  ASSUME IInv, TInv, IInv', NEW slot \in HeapSlot, SettleFill(slot)
  PROVE  TInv'
<1> DEFINE ev == heap.event[slot]
           buyer == Buyer(ev)
           seller == Seller(ev)
           quote == QuoteAmount(ev)
           base == BaseAmount(ev)
           a == oo[buyer]
           b == oo[seller]
           x1 == a.bids_quote_lots - ev.qty * ev.price
           x2 == FreeLeft(a.quote_free_native, AfterMargin(quote))
           x3 == a.base_free_native + base
           y1 == b.asks_base_lots - ev.qty
           y2 == FreeLeft(b.base_free_native, AfterMargin(base))
           y3 == b.quote_free_native + quote
           x == [a EXCEPT !.bids_quote_lots = x1, !.quote_free_native = x2, !.base_free_native = x3]
           y == [b EXCEPT !.asks_base_lots = y1, !.base_free_native = y2, !.quote_free_native = y3]
<1>1. /\ buyer # seller /\ leaves' = leaves /\ market' = market /\ ev # NoEvent /\ ev.type = "Fill"
      /\ heap' = DeleteSlot(heap, slot) /\ ev = heap.event[slot]
      /\ oo' = [oo EXCEPT
           ![buyer].bids_quote_lots = @ - ev.qty * ev.price,
           ![buyer].quote_free_native = FreeLeft(@, AfterMargin(quote)),
           ![buyer].base_free_native = @ + base,
           ![seller].asks_base_lots = @ - ev.qty,
           ![seller].base_free_native = FreeLeft(@, AfterMargin(base)),
           ![seller].quote_free_native = @ + quote]
  BY Zenon DEF SettleFill
<1>2. buyer \in Users /\ seller \in Users
  BY SettleFillKeeps
<1>3. oo \in Accounts /\ oo' \in Accounts
  BY EventsNow, AccountsNext
<1>4. quote \in Nat /\ base \in Nat
  BY <1>1, PendingIs
<1>5. EventBrings("base", ev) = base /\ EventBrings("quote", ev) = quote
  BY <1>1, FillBringsAmounts
<1> HIDE DEF ev, buyer, seller, quote, base
<1>6. a \in AccountType /\ b \in AccountType
  BY <1>2, <1>3 DEF Accounts
<1>7. oo' = [oo EXCEPT ![buyer] = x, ![seller] = y]
  BY <1>1, <1>2, <1>3 DEF Accounts, AccountType
<1>8. x2 \in Nat /\ x2 <= a.quote_free_native /\ y2 \in Nat /\ y2 <= b.base_free_native
  BY <1>4, <1>6, DebitTakes DEF AccountType
<1> HIDE DEF x1, x2, x3, y1, y2, y3
<1>9. /\ x.base_free_native = x3 /\ x.quote_free_native = x2
      /\ x.locked_maker_fees = a.locked_maker_fees
      /\ y.base_free_native = y2 /\ y.quote_free_native = y3
      /\ y.locked_maker_fees = b.locked_maker_fees
  BY <1>6 DEF AccountType
<1> HIDE DEF x, y
<1>10. /\ oo'[buyer] = x /\ oo'[seller] = y
       /\ \A v \in Users : v # buyer /\ v # seller => oo'[v] = oo[v]
  BY <1>1, <1>2, <1>3, <1>7 DEF Accounts
<1>11. /\ AccountHas("base", x) = AccountHas("base", a) + base
       /\ AccountHas("quote", x) <= AccountHas("quote", a)
       /\ AccountHas("base", y) <= AccountHas("base", b)
       /\ AccountHas("quote", y) = AccountHas("quote", b) + quote
  BY <1>4, <1>6, <1>8, <1>9 DEF AccountHas, AccountType, x3, y3
<1>12. ASSUME NEW coin \in Coins
       PROVE  AccountSum(coin, oo') <= AccountSum(coin, oo) + EventBrings(coin, ev)
  <2> DEFINE after == oo'
  <2>1. /\ after \in Accounts /\ after[buyer] = x /\ after[seller] = y
        /\ \A v \in Users : v # buyer /\ v # seller => after[v] = oo[v]
        /\ oo \in Accounts /\ buyer \in Users /\ seller \in Users /\ buyer # seller
    BY <1>1, <1>2, <1>3, <1>10
  <2> HIDE DEF after
  <2>2. AccountSum(coin, after)
          = AccountSum(coin, oo) + (AccountHas(coin, after[buyer]) - AccountHas(coin, oo[buyer]))
                                 + (AccountHas(coin, after[seller]) - AccountHas(coin, oo[seller]))
    BY <2>1, AccountSumTwo, Zenon
  <2>3. /\ AccountHas(coin, x) \in Nat /\ AccountHas(coin, y) \in Nat
        /\ AccountHas(coin, a) \in Nat /\ AccountHas(coin, b) \in Nat
    BY <1>2, <1>6, <2>1, AccountHasNat DEF Accounts
  <2>4. AccountSum(coin, oo) \in Nat
    BY OwedNow
  <2> DEFINE d == AccountHas(coin, x) - AccountHas(coin, a)
             e == AccountHas(coin, y) - AccountHas(coin, b)
  <2>5. d + e <= EventBrings(coin, ev)
    <3>1. CASE coin = "base"
      BY <1>4, <1>5, <1>11, <2>3, <3>1
    <3>2. CASE coin = "quote"
      BY <1>4, <1>5, <1>11, <2>3, <3>2
    <3> QED
      BY <3>1, <3>2 DEF Coins
  <2>6. EventBrings(coin, ev) \in Int
    BY <1>4, <1>5 DEF Coins
  <2>7. d \in Int /\ e \in Int /\ AccountSum(coin, after) = AccountSum(coin, oo) + d + e
    BY <2>1, <2>2, <2>3
  <2> HIDE DEF d, e, a, b
  <2>8. AccountSum(coin, after) <= AccountSum(coin, oo) + EventBrings(coin, ev)
    BY <2>4, <2>5, <2>6, <2>7
  <2> QED
    BY <2>8 DEF after
<1> QED
  BY <1>1, <1>12, EventPays

LEMMA FinalizeMarketFunded ==
  ASSUME IInv, TInv, IInv', NEW slot \in HeapSlot, NEW account \in Users,
         FinalizeMarketOn(slot, account)
  PROVE  TInv'
<1> DEFINE ev == heap.event[slot]
           makerSells == ev.taker_side = "Bid"
           quote == QuoteAmount(ev)
           base == BaseAmount(ev)
           lots == IF makerSells THEN AfterMargin(base) \div BaseLotSize ELSE ev.qty * ev.price
           a == oo[account]
           x1 == IF makerSells THEN a.asks_base_lots - lots ELSE a.asks_base_lots
           x2 == IF makerSells THEN FreeLeft(a.base_free_native, AfterMargin(base))
                 ELSE a.base_free_native
           x3 == IF makerSells THEN a.bids_quote_lots ELSE a.bids_quote_lots - lots
           x4 == IF makerSells THEN a.quote_free_native
                 ELSE FreeLeft(a.quote_free_native, AfterMargin(quote))
           x == [a EXCEPT !.asks_base_lots = x1, !.base_free_native = x2,
                          !.bids_quote_lots = x3, !.quote_free_native = x4]
<1>1. /\ ev # NoEvent /\ ev.type = "FillDirect" /\ leaves' = leaves /\ market' = market
      /\ heap' = DeleteSlot(heap, slot) /\ ev = heap.event[slot]
      /\ oo' = IF makerSells
               THEN [oo EXCEPT ![account].asks_base_lots = @ - lots,
                               ![account].base_free_native = FreeLeft(@, AfterMargin(base))]
               ELSE [oo EXCEPT ![account].bids_quote_lots = @ - lots,
                               ![account].quote_free_native = FreeLeft(@, AfterMargin(quote))]
  BY Zenon DEF FinalizeMarketOn
<1>2. ev \in EventType /\ base \in Nat /\ quote \in Nat
  BY <1>1, PendingIs
<1>3. oo \in Accounts /\ oo' \in Accounts
  BY EventsNow, AccountsNext
<1> HIDE DEF ev, makerSells, quote, base, lots
<1>4. a \in AccountType
  BY <1>2, <1>3 DEF Accounts
<1>5. oo' = [oo EXCEPT ![account] = x]
  BY <1>1, <1>2, <1>3 DEF Accounts, AccountType
<1>6. x2 \in Nat /\ x2 <= a.base_free_native /\ x4 \in Nat /\ x4 <= a.quote_free_native
  <2>1. a.base_free_native \in Nat /\ a.quote_free_native \in Nat
    BY <1>4 DEF AccountType
  <2> DEFINE free == a.base_free_native
             paid == a.quote_free_native
  <2> HIDE DEF free, paid
  <2>2. /\ FreeLeft(free, AfterMargin(base)) \in Nat /\ FreeLeft(free, AfterMargin(base)) <= free
        /\ FreeLeft(paid, AfterMargin(quote)) \in Nat /\ FreeLeft(paid, AfterMargin(quote)) <= paid
    BY <1>2, <2>1, DebitTakes DEF free, paid
  <2> QED
    BY <2>1, <2>2 DEF free, paid
<1> HIDE DEF x1, x2, x3, x4
<1>7. /\ x.base_free_native = x2 /\ x.quote_free_native = x4
      /\ x.locked_maker_fees = a.locked_maker_fees
  BY <1>4 DEF AccountType
<1> HIDE DEF x
<1>8. oo'[account] = x /\ \A v \in Users : v # account => oo'[v] = oo[v]
  BY <1>2, <1>3, <1>5 DEF Accounts
<1>9. \A coin : AccountHas(coin, x) <= AccountHas(coin, a)
  BY <1>4, <1>6, <1>7 DEF AccountHas, AccountType
<1>10. ASSUME NEW coin \in Coins
       PROVE  AccountSum(coin, oo') <= AccountSum(coin, oo) + EventBrings(coin, ev)
  <2> DEFINE after == oo'
  <2>1. /\ after \in Accounts /\ after[account] = x
        /\ \A v \in Users \ {account} : AccountHas(coin, after[v]) = AccountHas(coin, oo[v])
    BY <1>3, <1>8
  <2> HIDE DEF after
  <2>2. AccountSum(coin, after)
          = AccountSum(coin, oo) - AccountHas(coin, oo[account]) + AccountHas(coin, after[account])
    BY <1>2, <1>3, <2>1, AccountSumSet
  <2>3. AccountHas(coin, x) \in Nat /\ AccountHas(coin, a) \in Nat
    BY <1>2, <1>4, <2>1, AccountHasNat DEF Accounts
  <2>4. AccountSum(coin, oo) \in Nat /\ EventBrings(coin, ev) \in Nat
    BY <1>2, OwedNow, EventBringsNat
  <2>5. AccountHas(coin, x) <= AccountHas(coin, a)
    BY <1>9
  <2>6. AccountSum(coin, after) <= AccountSum(coin, oo) + EventBrings(coin, ev)
    BY <2>1, <2>2, <2>3, <2>4, <2>5
  <2> QED
    BY <2>6 DEF after
<1> QED
  BY <1>1, <1>10, EventPays

LEMMA FinalizeOutFunded ==
  ASSUME IInv, TInv, IInv', NEW slot \in HeapSlot, FinalizeOut(slot)
  PROVE  TInv'
<1> DEFINE ev == heap.event[slot]
<1>1. /\ heap' = DeleteSlot(heap, slot) /\ leaves' = leaves /\ oo' = oo /\ market' = market
      /\ ev = heap.event[slot]
  BY DEF FinalizeOut
<1>2. ev \in EventType \cup {NoEvent}
  BY EventsNow
<1> HIDE DEF ev
<1>3. ASSUME NEW coin \in Coins
      PROVE  AccountSum(coin, oo') <= AccountSum(coin, oo) + EventBrings(coin, ev)
  <2>1. AccountSum(coin, oo) \in Nat /\ EventBrings(coin, ev) \in Nat
    BY <1>2, OwedNow, EventBringsNat
  <2> QED
    BY <1>1, <2>1
<1> QED
  BY <1>1, <1>3, EventPays

\* The match that a penalty removes brought the base that the penalty hands out: the
\* amounts are in lots of quote, whatever token they are paid in.
PenaltyPaid(slot) ==
  LET ev == heap.event[slot]
  IN  oo'[ev.taker].base_free_native <= oo[ev.taker].base_free_native + BaseAmount(ev)


LEMMA LotsWithinQuote ==
  ASSUME NEW amount \in Nat
  PROVE  amount <= amount * QuoteLotSize
<1>1. QuoteLotSize \in Nat /\ 1 <= QuoteLotSize
  BY MarketAssumption DEF MarketAssumption
<1> DEFINE x == amount
           one == 1
<1>2. x \in Nat /\ one \in Nat /\ one <= QuoteLotSize
  BY <1>1
<1> HIDE DEF x, one
<1>3. x * one <= x * QuoteLotSize
  BY <1>1, <1>2, ProductMonotonic
<1>4. x * 1 <= x * QuoteLotSize
  BY <1>3 DEF one
<1> QED
  BY <1>2, <1>4 DEF x

LEMMA PenaltyFunded ==
  ASSUME IInv, TInv, IInv', NEW slot \in HeapSlot, NEW side \in Side,
         CancelWithPenalty(slot, side), PenaltyPaid(slot)
  PROVE  TInv'
<1> DEFINE ev == heap.event[slot]
           amount == ev.qty * ev.price
           owner == ev.taker
           cpty == ev.maker
           bid == side = "Bid"
           ownerFree == IF bid THEN oo[owner].quote_free_native ELSE oo[owner].base_free_native
           cptyFree == IF bid THEN oo[cpty].base_free_native ELSE oo[cpty].quote_free_native
           pays == amount - ownerFree
           penalty == (amount - cptyFree) \div MarginDivisor
           base == BaseAmount(ev)
           quote == QuoteAmount(ev)
           a == oo[owner]
           b == oo[cpty]
           x1 == IF bid THEN a.quote_free_native + pays ELSE a.quote_free_native + penalty
           x2 == IF bid THEN a.base_free_native + penalty ELSE a.base_free_native + pays
           y1 == IF bid THEN b.asks_base_lots - penalty ELSE b.asks_base_lots
           y2 == IF bid THEN b.bids_quote_lots ELSE b.bids_quote_lots - penalty
           x == [a EXCEPT !.quote_free_native = x1, !.base_free_native = x2]
           y == [b EXCEPT !.asks_base_lots = y1, !.bids_quote_lots = y2]
<1>1. /\ ev # NoEvent /\ ev.type # "Out" /\ ev.by_account /\ owner # cpty
      /\ leaves' = leaves /\ market' = market /\ ev = heap.event[slot]
      /\ heap' = DeleteSlot(heap, slot) /\ pays >= 0 /\ cptyFree < amount
      /\ oo' = IF bid
               THEN [oo EXCEPT ![owner].quote_free_native = @ + pays,
                               ![owner].base_free_native = @ + penalty,
                               ![cpty].asks_base_lots = @ - penalty]
               ELSE [oo EXCEPT ![owner].base_free_native = @ + pays,
                               ![owner].quote_free_native = @ + penalty,
                               ![cpty].bids_quote_lots = @ - penalty]
  BY Zenon DEF CancelWithPenalty
<1>2. /\ owner \in Users /\ cpty \in Users /\ amount \in Nat /\ base \in Nat /\ quote \in Nat
  BY <1>1, PendingIs
<1>3. oo \in Accounts /\ oo' \in Accounts
  BY EventsNow, AccountsNext
<1>4. EventBrings("base", ev) = base /\ EventBrings("quote", ev) = quote
  BY <1>1, FillBringsAmounts
<1>5. oo'[owner].base_free_native <= oo[owner].base_free_native + base
  BY DEF PenaltyPaid
<1>6. amount <= quote
  BY <1>2, LotsWithinQuote DEF QuoteAmount
<1> HIDE DEF ev, amount, owner, cpty, bid, base, quote
<1>7. a \in AccountType /\ b \in AccountType
  BY <1>2, <1>3 DEF Accounts
<1>8. /\ pays \in Nat /\ pays <= amount /\ penalty \in Nat /\ penalty <= amount
  <2>1. /\ a.base_free_native \in Nat /\ a.quote_free_native \in Nat
        /\ b.base_free_native \in Nat /\ b.quote_free_native \in Nat
    BY <1>7 DEF AccountType
  <2>2. ownerFree \in Nat /\ cptyFree \in Nat
    BY <2>1
  <2> HIDE DEF ownerFree, cptyFree, a, b
  <2> DEFINE rest == amount - cptyFree
  <2>3. pays \in Nat /\ pays <= amount /\ rest \in Nat /\ rest <= amount
    BY <1>1, <1>2, <2>2
  <2> HIDE DEF rest
  <2>4. rest \div MarginDivisor \in Nat /\ rest \div MarginDivisor <= rest
    BY <2>3, FermiAssumption, DivisionNat
  <2> DEFINE part == rest \div MarginDivisor
  <2>5. part \in Nat /\ part <= rest /\ penalty = part
    BY <2>4 DEF rest
  <2> HIDE DEF part, penalty
  <2> QED
    BY <1>2, <2>3, <2>5
<1> HIDE DEF ownerFree, cptyFree, pays, penalty
<1>9. oo' = [oo EXCEPT ![owner] = x, ![cpty] = y]
  <2>1. /\ owner \in Users /\ cpty \in Users /\ owner # cpty
        /\ oo \in [Users -> AccountType]
        /\ oo' = IF bid
                 THEN [oo EXCEPT ![owner].quote_free_native = @ + pays,
                                 ![owner].base_free_native = @ + penalty,
                                 ![cpty].asks_base_lots = @ - penalty]
                 ELSE [oo EXCEPT ![owner].base_free_native = @ + pays,
                                 ![owner].quote_free_native = @ + penalty,
                                 ![cpty].bids_quote_lots = @ - penalty]
    BY <1>1, <1>2, <1>3 DEF Accounts
  <2> QED
    BY <2>1 DEF AccountType
<1>10. /\ x1 \in Nat /\ x1 <= a.quote_free_native + quote /\ x2 \in Nat
  <2>1. a.base_free_native \in Nat /\ a.quote_free_native \in Nat
    BY <1>7 DEF AccountType
  <2> HIDE DEF a
  <2> QED
    BY <1>2, <1>6, <1>8, <2>1
<1> HIDE DEF x1, x2, y1, y2
<1>11. /\ x.base_free_native = x2 /\ x.quote_free_native = x1
       /\ x.locked_maker_fees = a.locked_maker_fees
       /\ y.base_free_native = b.base_free_native /\ y.quote_free_native = b.quote_free_native
       /\ y.locked_maker_fees = b.locked_maker_fees
  BY <1>7 DEF AccountType
<1> HIDE DEF x, y
<1>12. /\ oo'[owner] = x /\ oo'[cpty] = y
       /\ \A v \in Users : v # owner /\ v # cpty => oo'[v] = oo[v]
  BY <1>1, <1>2, <1>3, <1>9 DEF Accounts
<1>13. /\ AccountHas("base", x) <= AccountHas("base", a) + base
       /\ AccountHas("quote", x) <= AccountHas("quote", a) + quote
       /\ \A coin : AccountHas(coin, y) = AccountHas(coin, b)
  <2>1. a.locked_maker_fees \in Nat /\ a.quote_free_native \in Nat
    BY <1>7 DEF AccountType
  <2>2. x.base_free_native <= a.base_free_native + base
    BY <1>5, <1>12
  <2> HIDE DEF a, b
  <2>3. AccountHas("base", x) <= AccountHas("base", a) + base
    BY <2>2 DEF AccountHas
  <2>4. AccountHas("quote", x) <= AccountHas("quote", a) + quote
    BY <1>2, <1>10, <1>11, <2>1 DEF AccountHas
  <2>5. \A coin : AccountHas(coin, y) = AccountHas(coin, b)
    BY <1>11 DEF AccountHas
  <2> QED
    BY <2>3, <2>4, <2>5
<1>14. ASSUME NEW coin \in Coins
       PROVE  AccountSum(coin, oo') <= AccountSum(coin, oo) + EventBrings(coin, ev)
  <2> DEFINE after == oo'
  <2>1. /\ after \in Accounts /\ after[owner] = x /\ after[cpty] = y
        /\ \A v \in Users : v # owner /\ v # cpty => after[v] = oo[v]
        /\ oo \in Accounts /\ owner \in Users /\ cpty \in Users /\ owner # cpty
    BY <1>1, <1>2, <1>3, <1>12
  <2> HIDE DEF after
  <2>2. AccountSum(coin, after)
          = AccountSum(coin, oo) + (AccountHas(coin, after[owner]) - AccountHas(coin, oo[owner]))
                                 + (AccountHas(coin, after[cpty]) - AccountHas(coin, oo[cpty]))
    BY <2>1, AccountSumTwo, Zenon
  <2>3. /\ AccountHas(coin, x) \in Nat /\ AccountHas(coin, y) \in Nat
        /\ AccountHas(coin, a) \in Nat /\ AccountHas(coin, b) \in Nat
    BY <1>2, <1>7, <2>1, AccountHasNat DEF Accounts
  <2>4. AccountSum(coin, oo) \in Nat
    BY OwedNow
  <2> DEFINE d == AccountHas(coin, x) - AccountHas(coin, a)
  <2>5. d <= EventBrings(coin, ev)
    <3>1. CASE coin = "base"
      BY <1>2, <1>4, <1>13, <2>3, <3>1
    <3>2. CASE coin = "quote"
      BY <1>2, <1>4, <1>13, <2>3, <3>2
    <3> QED
      BY <3>1, <3>2 DEF Coins
  <2>6. EventBrings(coin, ev) \in Int
    BY <1>2, <1>4 DEF Coins
  <2>7. d \in Int /\ AccountSum(coin, after) = AccountSum(coin, oo) + d
    BY <1>13, <2>1, <2>2, <2>3, <2>4
  <2> HIDE DEF d, a, b
  <2>8. AccountSum(coin, after) <= AccountSum(coin, oo) + EventBrings(coin, ev)
    BY <2>4, <2>5, <2>6, <2>7
  <2> QED
    BY <2>8 DEF after
<1> QED
  BY <1>1, <1>14, EventPays


-----------------------------------------------------------------------------
(* The steps that leave the book and the heap alone.                       *)

LEMMA AccountPays ==
  ASSUME IInv, TInv, IInv', NEW u \in Users, NEW x, oo' = [oo EXCEPT ![u] = x],
         leaves' = leaves, heap' = heap,
         \A coin \in Coins :
           TotalsOf(market)[coin] + AccountHas(coin, x)
             <= TotalsOf(market')[coin] + AccountHas(coin, oo[u])
  PROVE  TInv'
<1>1. /\ oo \in Accounts /\ oo' \in Accounts
      /\ TotalsOf(market) \in Funds /\ TotalsOf(market') \in Funds
  BY EventsNow, AccountsNext, TotalsAre DEF IInv
<1>2. oo'[u] = x /\ \A v \in Users \ {u} : oo'[v] = oo[v]
  BY <1>1 DEF Accounts
<1>3. ASSUME NEW coin \in Coins
      PROVE  Owed(coin, oo', leaves', heap'.event) <= TotalsOf(market')[coin]
  <2> DEFINE after == oo'
             event == heap.event
  <2>1. /\ after \in Accounts /\ after[u] = x
        /\ \A v \in Users \ {u} : AccountHas(coin, after[v]) = AccountHas(coin, oo[v])
    BY <1>1, <1>2
  <2>2. /\ Owed(coin, oo, leaves, event)
             = AccountSum(coin, oo) + LeafTotal(coin, leaves) + EventTotal(coin, event)
        /\ AccountSum(coin, oo) \in Nat /\ LeafTotal(coin, leaves) \in Nat
        /\ EventTotal(coin, event) \in Nat
    BY OwedNow
  <2>3. Owed(coin, oo, leaves, event) <= TotalsOf(market)[coin]
    BY DEF TInv
  <2>4. leaves' = leaves /\ heap'.event = event
    OBVIOUS
  <2> HIDE DEF after, event
  <2>5. AccountSum(coin, after)
          = AccountSum(coin, oo) - AccountHas(coin, oo[u]) + AccountHas(coin, after[u])
    BY <1>1, <2>1, AccountSumSet
  <2>6. AccountHas(coin, x) \in Nat /\ AccountHas(coin, oo[u]) \in Nat
    BY <1>1, <2>1, AccountHasNat DEF Accounts
  <2>7. Owed(coin, after, leaves, event)
          = AccountSum(coin, after) + LeafTotal(coin, leaves) + EventTotal(coin, event)
    BY DEF Owed
  <2>8. TotalsOf(market)[coin] \in Int /\ TotalsOf(market')[coin] \in Int
    BY <1>1 DEF Funds
  <2>9. TotalsOf(market)[coin] + AccountHas(coin, x)
          <= TotalsOf(market')[coin] + AccountHas(coin, oo[u])
    OBVIOUS
  <2>10. Owed(coin, after, leaves, event) <= TotalsOf(market')[coin]
    BY <2>1, <2>2, <2>3, <2>5, <2>6, <2>7, <2>8, <2>9
  <2> QED
    BY <2>4, <2>10 DEF after
<1> QED
  BY <1>3 DEF TInv

LEMMA DepositFunded ==
  ASSUME IInv, TInv, IInv', NEW u \in Users, NEW amount \in Deposits,
         Deposit(u, amount.base, amount.quote)
  PROVE  TInv'
<1> DEFINE a == oo[u]
           base == a.base_free_native + amount.base
           quote == a.quote_free_native + amount.quote
           x == [a EXCEPT !.base_free_native = base, !.quote_free_native = quote]
<1>1. /\ oo' = [oo EXCEPT ![u] = x] /\ leaves' = leaves /\ heap' = heap
      /\ market' = [market EXCEPT !.base_deposit_total = @ + amount.base,
                                  !.quote_deposit_total = @ + amount.quote]
  BY EventsNow DEF Deposit, Accounts, AccountType
<1>2. a \in AccountType /\ market \in MarketType /\ market' \in MarketType
  BY EventsNow DEF Accounts, IInv
<1>3. amount.base \in Nat /\ amount.quote \in Nat
  BY FermiAssumption
<1>4. /\ market'.base_deposit_total = market.base_deposit_total + amount.base
      /\ market'.quote_deposit_total = market.quote_deposit_total + amount.quote
      /\ market'.fees_available = market.fees_available
  BY <1>1, <1>2 DEF MarketType
<1> HIDE DEF base, quote
<1>5. /\ x.base_free_native = base /\ x.quote_free_native = quote
      /\ x.locked_maker_fees = a.locked_maker_fees
  BY <1>2 DEF AccountType
<1> HIDE DEF x
<1>6. /\ AccountHas("base", x) = AccountHas("base", a) + amount.base
      /\ AccountHas("quote", x) = AccountHas("quote", a) + amount.quote
      /\ AccountHas("base", a) \in Nat /\ AccountHas("quote", a) \in Nat
  BY <1>2, <1>3, <1>5 DEF AccountHas, AccountType, base, quote
<1>7. \A coin \in Coins :
        TotalsOf(market)[coin] + AccountHas(coin, x)
          <= TotalsOf(market')[coin] + AccountHas(coin, oo[u])
  <2>1. /\ TotalsOf(market)["base"] = market.base_deposit_total
        /\ TotalsOf(market)["quote"] = market.quote_deposit_total - market.fees_available
        /\ market.base_deposit_total \in Nat /\ market.quote_deposit_total \in Nat
        /\ market.fees_available \in Nat
    BY <1>2, TotalsAre
  <2>2. /\ TotalsOf(market')["base"] = market'.base_deposit_total
        /\ TotalsOf(market')["quote"] = market'.quote_deposit_total - market'.fees_available
    BY <1>2, TotalsAre
  <2>3. TotalsOf(market)["base"] + AccountHas("base", x)
          <= TotalsOf(market')["base"] + AccountHas("base", a)
    BY <1>3, <1>4, <1>6, <2>1, <2>2
  <2>4. TotalsOf(market)["quote"] + AccountHas("quote", x)
          <= TotalsOf(market')["quote"] + AccountHas("quote", a)
    BY <1>3, <1>4, <1>6, <2>1, <2>2
  <2> QED
    BY <2>3, <2>4 DEF Coins
<1> QED
  BY <1>1, <1>7, AccountPays

\* The fees that rounding left behind change hands, or go to the referrer.
LEMMA SettleFunded ==
  ASSUME IInv, TInv, IInv', NEW u \in Users, NEW referrer, SettleFunds(u, referrer)
  PROVE  TInv'
<1> DEFINE a == oo[u]
           base == a.base_free_native
           quote == a.quote_free_native
           roundoff == IF MakerFee > 0 /\ a.bids_base_lots = 0 THEN a.locked_maker_fees ELSE 0
           toReferrer == IF referrer THEN roundoff ELSE 0
           fees == a.locked_maker_fees - roundoff
           x == [a EXCEPT !.locked_maker_fees = fees, !.base_free_native = 0,
                          !.quote_free_native = 0, !.penalty_heap_count = 0]
           baseLeft == market.base_deposit_total - base
           quoteLeft == market.quote_deposit_total - quote - toReferrer
           feesLeft == market.fees_available + roundoff - toReferrer
<1>1. /\ leaves' = leaves /\ heap' = heap
      /\ oo' = [oo EXCEPT ![u].locked_maker_fees = @ - roundoff,
                          ![u].base_free_native = 0, ![u].quote_free_native = 0,
                          ![u].penalty_heap_count = 0]
      /\ market' = [market EXCEPT !.base_deposit_total = baseLeft,
                                  !.quote_deposit_total = quoteLeft, !.fees_available = feesLeft]
  BY Zenon DEF SettleFunds
<1>2. /\ oo \in Accounts /\ a \in AccountType /\ market \in MarketType /\ market' \in MarketType
  BY EventsNow DEF Accounts, IInv
<1>3. oo' = [oo EXCEPT ![u] = x]
  BY <1>1, <1>2 DEF Accounts, AccountType
<1>4. /\ base \in Nat /\ quote \in Nat /\ a.locked_maker_fees \in Nat
      /\ roundoff \in Nat /\ toReferrer \in Nat
  <2>1. base \in Nat /\ quote \in Nat /\ a.locked_maker_fees \in Nat
    BY <1>2 DEF AccountType
  <2>2. roundoff \in Nat
    BY <2>1
  <2> HIDE DEF roundoff
  <2> QED
    BY <2>1, <2>2
<1> HIDE DEF baseLeft, quoteLeft, feesLeft, fees, roundoff, toReferrer
<1>5. /\ market'.base_deposit_total = baseLeft /\ market'.quote_deposit_total = quoteLeft
      /\ market'.fees_available = feesLeft
  BY <1>1, <1>2 DEF MarketType
<1>6. x.base_free_native = 0 /\ x.quote_free_native = 0 /\ x.locked_maker_fees = fees
  BY <1>2 DEF AccountType
<1> HIDE DEF x
<1>7. /\ AccountHas("base", x) = 0 /\ AccountHas("base", a) = base
      /\ AccountHas("quote", x) = a.locked_maker_fees - roundoff
      /\ AccountHas("quote", a) = quote + a.locked_maker_fees
  <2>1. fees = a.locked_maker_fees - roundoff /\ fees \in Int
    BY <1>4 DEF fees
  <2> QED
    BY <1>4, <1>6, <2>1 DEF AccountHas
<1>8. \A coin \in Coins :
        TotalsOf(market)[coin] + AccountHas(coin, x)
          <= TotalsOf(market')[coin] + AccountHas(coin, oo[u])
  <2>1. /\ TotalsOf(market)["base"] = market.base_deposit_total
        /\ TotalsOf(market)["quote"] = market.quote_deposit_total - market.fees_available
        /\ market.base_deposit_total \in Nat /\ market.quote_deposit_total \in Nat
        /\ market.fees_available \in Nat
    BY <1>2, TotalsAre
  <2>2. /\ TotalsOf(market')["base"] = market'.base_deposit_total
        /\ TotalsOf(market')["quote"] = market'.quote_deposit_total - market'.fees_available
    BY <1>2, TotalsAre
  <2> HIDE DEF base, quote
  <2> DEFINE locked == a.locked_maker_fees
  <2>3. /\ locked \in Nat /\ AccountHas("quote", x) = locked - roundoff
        /\ AccountHas("quote", a) = quote + locked
    BY <1>4, <1>7
  <2> HIDE DEF locked, a
  <2>4. TotalsOf(market)["base"] + AccountHas("base", x)
          <= TotalsOf(market')["base"] + AccountHas("base", a)
    BY <1>4, <1>5, <1>7, <2>1, <2>2 DEF baseLeft
  <2>5. TotalsOf(market)["quote"] + AccountHas("quote", x)
          <= TotalsOf(market')["quote"] + AccountHas("quote", a)
    BY <1>4, <1>5, <2>1, <2>2, <2>3 DEF quoteLeft, feesLeft
  <2> QED
    BY <2>4, <2>5 DEF Coins, a
<1> QED
  BY <1>1, <1>3, <1>8, AccountPays

\* An account that closes has nothing, and a new one has nothing either.
LEMMA AccountLifeFunded ==
  ASSUME IInv, TInv, IInv', NEW u \in Users,
         CloseOpenOrdersAccount(u) \/ CreateOpenOrdersAccount(u)
  PROVE  TInv'
<1> DEFINE closed == [NewAccount EXCEPT !.open = FALSE]
<1>1. /\ \/ oo' = [oo EXCEPT ![u] = closed]
         \/ oo' = [oo EXCEPT ![u] = NewAccount]
      /\ leaves' = leaves /\ heap' = heap /\ market' = market
  BY DEF CloseOpenOrdersAccount, CreateOpenOrdersAccount
<1>2. \A coin : AccountHas(coin, closed) = 0 /\ AccountHas(coin, NewAccount) = 0
  BY DEF NewAccount, AccountHas
<1> HIDE DEF closed
<1>3. PICK x \in {closed, NewAccount} : oo' = [oo EXCEPT ![u] = x]
  BY <1>1
<1>4. \A coin \in Coins :
        TotalsOf(market)[coin] + AccountHas(coin, x)
          <= TotalsOf(market')[coin] + AccountHas(coin, oo[u])
  <2> TAKE coin \in Coins
  <2>1. TotalsOf(market)[coin] \in Int
    BY TotalsAre DEF IInv, Funds
  <2>2. AccountHas(coin, oo[u]) \in Nat /\ AccountHas(coin, x) = 0
    BY <1>2, <1>3, EventsNow, AccountHasNat DEF Accounts
  <2> QED
    BY <1>1, <2>1, <2>2
<1> QED
  BY <1>1, <1>3, <1>4, AccountPays

\* The fees that are swept were owed to the market.
LEMMA AdministerFunded ==
  ASSUME IInv, TInv, IInv', Administer \/ Tick \/ OracleMoves \/ UNCHANGED vars
  PROVE  TInv'
<1>1. leaves' = leaves /\ oo' = oo /\ heap' = heap
  BY DEF Administer, SweepFees, SetMarketExpired, CloseMarket, Tick, OracleMoves, vars
<1>2. market \in MarketType /\ market' \in MarketType
  BY DEF IInv
<1>3. TotalsOf(market')["base"] = TotalsOf(market)["base"]
      /\ TotalsOf(market')["quote"] = TotalsOf(market)["quote"]
  <2>1. /\ TotalsOf(market)["base"] = market.base_deposit_total
        /\ TotalsOf(market)["quote"] = market.quote_deposit_total - market.fees_available
        /\ market.base_deposit_total \in Nat /\ market.quote_deposit_total \in Nat
        /\ market.fees_available \in Nat
    BY <1>2, TotalsAre
  <2>2. /\ TotalsOf(market')["base"] = market'.base_deposit_total
        /\ TotalsOf(market')["quote"] = market'.quote_deposit_total - market'.fees_available
    BY <1>2, TotalsAre
  <2>3. CASE SweepFees
    <3>1. /\ market'.base_deposit_total = market.base_deposit_total /\ market'.fees_available = 0
          /\ market'.quote_deposit_total = market.quote_deposit_total - market.fees_available
      BY <1>2, <2>3 DEF SweepFees, MarketType
    <3> QED
      BY <2>1, <2>2, <3>1
  <2>4. CASE ~SweepFees
    <3>1. /\ market'.base_deposit_total = market.base_deposit_total
          /\ market'.fees_available = market.fees_available
          /\ market'.quote_deposit_total = market.quote_deposit_total
      BY <1>2, <2>4 DEF Administer, SetMarketExpired, CloseMarket, Tick, OracleMoves, vars,
                        MarketType
    <3> QED
      BY <2>1, <2>2, <3>1
  <2> QED
    BY <2>3, <2>4
<1>4. \A coin \in Coins : Owed(coin, oo', leaves', heap'.event) <= TotalsOf(market')[coin]
  <2>1. \A coin \in Coins : TotalsOf(market')[coin] = TotalsOf(market)[coin]
    BY <1>3 DEF Coins
  <2>2. \A coin \in Coins : Owed(coin, oo, leaves, heap.event) <= TotalsOf(market)[coin]
    BY DEF TInv
  <2>3. oo' = oo /\ leaves' = leaves /\ heap'.event = heap.event
    BY <1>1
  <2> QED
    BY <2>1, <2>2, <2>3
<1> QED
  BY <1>4 DEF TInv


-----------------------------------------------------------------------------
(* Every step.                                                             *)

\* In every step that takes a penalty.
PenaltyStepPaid == \A slot \in HeapSlot : Penalizes(slot) => PenaltyPaid(slot)

LEMMA FinalizeFunded ==
  ASSUME IInv, TInv, IInv', NEW slot \in HeapSlot, Finalize(slot), PenaltyStepPaid
  PROVE  TInv'
<1>1. CASE FinalizeMatch(slot) \/ FinalizeMatchDirect(slot)
  <2>1. SettleFill(slot)
    BY <1>1, Zenon DEF FinalizeMatch, FinalizeMatchDirect
  <2> QED
    BY <2>1, SettleFillFunded
<1>2. CASE FinalizeMarket(slot)
  BY <1>2, FinalizeMarketFunded DEF FinalizeMarket
<1>3. CASE FinalizeOut(slot)
  BY <1>3, FinalizeOutFunded
<1>4. CASE \E side \in Side : CancelWithPenalty(slot, side)
  <2>1. PenaltyPaid(slot)
    BY <1>4, Zenon DEF PenaltyStepPaid, Penalizes
  <2> QED
    BY <1>4, <2>1, PenaltyFunded
<1> QED
  BY <1>1, <1>2, <1>3, <1>4, Zenon DEF Finalize

LEMMA WithAccountFunded ==
  ASSUME IInv, HInv, TInv, IInv', NEW u \in Users, WithAccount(u)
  PROVE  TInv'
<1>1. CASE \E order \in Orders, remaining \in RemainingSets : PlaceOrder(u, order, remaining)
  BY <1>1, PlaceOrderFunded
<1>2. CASE \E slot \in OrderSlot, expected \in EditSizes, order \in Orders,
              remaining \in RemainingSets : EditOrder(u, slot, expected, order, remaining)
  BY <1>2, EditOrderFunded
<1>3. CASE \E batch \in Batches, remaining \in RemainingSets :
             CancelAndPlaceOrders(u, batch, remaining)
  BY <1>3, CancelAndPlaceFunded
<1>4. CASE \E slot \in OrderSlot : CancelOneOrder(u, slot)
  BY <1>4, CancelOneFunded
<1>5. CASE \E sides \in {{"Bid"}, {"Ask"}, Side}, limit \in CancelLimits :
             CancelAll(u, sides, limit)
  BY <1>5, CancelAllFunded
<1>6. CASE \E limit \in CancelLimits : PruneOrders(u, limit)
  BY <1>6, CancelAllFunded
<1>7. CASE \E amount \in Deposits : Deposit(u, amount.base, amount.quote)
  BY <1>7, DepositFunded
<1>8. CASE \E referrer \in Referrers : SettleFunds(u, referrer)
  BY <1>8, SettleFunded
<1> QED
  BY <1>1, <1>2, <1>3, <1>4, <1>5, <1>6, <1>7, <1>8, Zenon DEF WithAccount

LEMMA TotalsStep ==
  ASSUME IInv, HInv, TInv, IInv', [Next]_vars, PenaltyStepPaid
  PROVE  TInv'
<1>1. ASSUME NEW u \in Users, Trade(u)
      PROVE  TInv'
  <2>1. CASE WithAccount(u)
    BY <2>1, WithAccountFunded
  <2>2. CASE \E order \in TakeOrders, remaining \in RemainingSets, referrer \in Referrers :
               PlaceTakeOrder(u, order, remaining, referrer)
    BY <2>2, PlaceTakeFunded
  <2>3. CASE CloseOpenOrdersAccount(u) \/ CreateOpenOrdersAccount(u)
    BY <2>3, AccountLifeFunded
  <2> QED
    BY <1>1, <2>1, <2>2, <2>3, Zenon DEF Trade
<1>2. CASE \E slot \in HeapSlot : Finalize(slot)
  BY <1>2, FinalizeFunded
<1>3. CASE Administer \/ Tick \/ OracleMoves \/ UNCHANGED vars
  BY <1>3, AdministerFunded
<1> QED
  BY <1>1, <1>2, <1>3, Zenon DEF Next

\* A new market owes nothing.
LEMMA InitTInv == Init => TInv
<1> SUFFICES ASSUME Init, NEW coin \in Coins
             PROVE  Owed(coin, oo, leaves, heap.event) <= TotalsOf(market)[coin]
  BY DEF TInv
<1>1. leaves = {} /\ heap = NewHeap /\ oo = [u \in Users |-> NewAccount]
  BY DEF Init
<1>2. AccountHas(coin, NewAccount) = 0
  BY DEF NewAccount, AccountHas
<1>3. heap.event = [s \in HeapSlot |-> NoEvent]
  BY <1>1 DEF NewHeap
<1>4. /\ market.base_deposit_total = 0 /\ market.quote_deposit_total = 0
      /\ market.fees_available = 0
  BY DEF Init
<1> HIDE DEF NewAccount
<1>5. AccountSum(coin, oo) = 0
  <2> DEFINE f == AccountParts(coin, oo)
  <2>1. f = [u \in Users |-> 0]
    BY <1>1, <1>2 DEF AccountParts
  <2> HIDE DEF f
  <2>2. SumFunctionOnSet(f, Users) = 0
    BY <2>1, FermiAssumption, SumOfZeros
  <2> QED
    BY <2>2 DEF f, AccountSum
<1>6. LeafTotal(coin, leaves) = 0
  BY <1>1, SumOfNothing DEF LeafTotal
<1>7. EventTotal(coin, heap.event) = 0
  <2> DEFINE f == EventCoins(coin, heap.event)
  <2>1. f = [s \in HeapSlot |-> 0]
    BY <1>3 DEF EventCoins, EventBrings
  <2> HIDE DEF f
  <2>2. SumFunctionOnSet(f, HeapSlot) = 0
    BY <2>1, HeapSlotFinite, SumOfZeros
  <2> QED
    BY <2>2 DEF f, EventTotal
<1>8. TotalsOf(market)[coin] = 0
  BY <1>4 DEF TotalsOf
<1> QED
  BY <1>5, <1>6, <1>7, <1>8 DEF Owed


-----------------------------------------------------------------------------
(* What follows: the totals cover what the accounts, the matches of two     *)
(* accounts and the orders on each side are due.                           *)

LEMMA FillsCounted ==
  ASSUME IInv, NEW coin, NEW f, \A s \in EventSlots("Fill") : f[s] = EventBrings(coin, heap.event[s])
  PROVE  /\ SumFunctionOnSet(f, EventSlots("Fill")) <= EventTotal(coin, heap.event)
         /\ SumFunctionOnSet(f, EventSlots("Fill")) \in Nat
<1> DEFINE T == EventSlots("Fill")
           g == EventCoins(coin, heap.event)
<1>1. T \in SUBSET HeapSlot /\ IsFiniteSet(T)
  <2>1. T \in SUBSET HeapSlot
    BY DEF EventSlots
  <2> QED
    BY <2>1, HeapSlotFinite, FS_Subset
<1>2. \A s \in HeapSlot : g[s] = EventBrings(coin, heap.event[s]) /\ g[s] \in Nat
  BY EventsNow, EventTotalIs
<1>3. \A s \in T : f[s] = EventBrings(coin, heap.event[s])
  OBVIOUS
<1> HIDE DEF T, g
<1>4. \A s \in T : f[s] \in Nat /\ f[s] <= g[s]
  BY <1>1, <1>2, <1>3
<1>5. SumFunctionOnSet(f, T) <= SumFunctionOnSet(g, HeapSlot)
  BY <1>1, <1>2, <1>4, HeapSlotFinite, SumOfPart
<1>6. SumFunctionOnSet(f, T) \in Nat
  BY <1>1, <1>4, SumNat
<1> QED
  BY <1>5, <1>6 DEF T, g, EventTotal

LEMMA SideCounted ==
  ASSUME IInv, NEW coin, NEW side, NEW f,
         \A l \in OfSide(leaves, side) : f[l] = LeafBrings(coin, l)
  PROVE  /\ SumFunctionOnSet(f, OfSide(leaves, side)) <= LeafTotal(coin, leaves)
         /\ SumFunctionOnSet(f, OfSide(leaves, side)) \in Nat
<1> DEFINE T == OfSide(leaves, side)
           g == LeafCoins(coin)
<1>1. /\ leaves \in SUBSET Leaves /\ IsFiniteSet(leaves)
      /\ T \in SUBSET leaves /\ IsFiniteSet(T)
  <2>1. T \in SUBSET leaves
    BY DEF OfSide
  <2> QED
    BY <2>1, EventsNow, FS_Subset
<1>2. \A l \in leaves : g[l] = LeafBrings(coin, l) /\ g[l] \in Nat
  BY <1>1, LeafTotalIs
<1>3. \A l \in T : f[l] = LeafBrings(coin, l)
  OBVIOUS
<1> HIDE DEF T, g
<1>4. \A l \in T : f[l] \in Nat /\ f[l] <= g[l]
  BY <1>1, <1>2, <1>3
<1>5. SumFunctionOnSet(f, T) <= SumFunctionOnSet(g, leaves)
  BY <1>1, <1>2, <1>4, SumOfPart
<1>6. SumFunctionOnSet(f, T) \in Nat
  BY <1>1, <1>4, SumNat
<1> QED
  BY <1>5, <1>6 DEF T, g, LeafTotal

\* The two halves of TotalsCover.
BaseTotalCovers ==
  market.base_deposit_total >=
    SumOver(Users, LAMBDA u : oo[u].base_free_native)
    + SumOver(EventSlots("Fill"), LAMBDA s : BaseAmount(heap.event[s]))
    + SumOver(OfSide(leaves, "Ask"), LAMBDA l : l.qty * BaseLotSize)
QuoteTotalCovers ==
  market.quote_deposit_total >=
    SumOver(Users, LAMBDA u : oo[u].quote_free_native + oo[u].locked_maker_fees)
    + market.fees_available
    + SumOver(EventSlots("Fill"), LAMBDA s : QuoteAmount(heap.event[s]))
    + SumOver(OfSide(leaves, "Bid"), LAMBDA l : LockedQuote(l.qty, LockedAt(l)))

LEMMA BaseTotalFollows ==
  ASSUME IInv, TInv
  PROVE  BaseTotalCovers
<1> DEFINE coin == "base"
           fills == [s \in EventSlots("Fill") |-> BaseAmount(heap.event[s])]
           asks == [l \in OfSide(leaves, "Ask") |-> l.qty * BaseLotSize]
           matched == SumFunctionOnSet(fills, EventSlots("Fill"))
           resting == SumFunctionOnSet(asks, OfSide(leaves, "Ask"))
           free == SumFunctionOnSet([u \in Users |-> oo[u].base_free_native], Users)
<1>1. matched <= EventTotal(coin, heap.event) /\ matched \in Nat
  <2>1. ASSUME NEW s \in EventSlots("Fill")
        PROVE  fills[s] = EventBrings(coin, heap.event[s])
    <3>1. heap.event[s] # NoEvent /\ heap.event[s].type = "Fill"
      BY DEF EventSlots
    <3> QED
      BY <3>1, FillBringsAmounts
  <2> HIDE DEF coin, fills
  <2> QED
    BY <2>1, FillsCounted
<1>2. resting <= LeafTotal(coin, leaves) /\ resting \in Nat
  <2>1. \A l \in OfSide(leaves, "Ask") : asks[l] = LeafBrings(coin, l)
    BY DEF OfSide, LeafBrings, TokenOf, Native
  <2> HIDE DEF coin, asks
  <2> QED
    BY <2>1, SideCounted
<1>3. free = AccountSum(coin, oo)
  BY DEF AccountSum, AccountParts, AccountHas
<1>4. /\ Owed(coin, oo, leaves, heap.event)
           = AccountSum(coin, oo) + LeafTotal(coin, leaves) + EventTotal(coin, heap.event)
      /\ AccountSum(coin, oo) \in Nat /\ LeafTotal(coin, leaves) \in Nat
      /\ EventTotal(coin, heap.event) \in Nat
  BY OwedNow
<1>5. Owed(coin, oo, leaves, heap.event) <= TotalsOf(market)[coin]
  BY DEF TInv, Coins
<1>6. TotalsOf(market)[coin] = market.base_deposit_total /\ market.base_deposit_total \in Nat
  BY TotalsAre DEF IInv
<1>7. /\ SumOver(Users, LAMBDA u : oo[u].base_free_native) = free
      /\ SumOver(EventSlots("Fill"), LAMBDA s : BaseAmount(heap.event[s])) = matched
      /\ SumOver(OfSide(leaves, "Ask"), LAMBDA l : l.qty * BaseLotSize) = resting
  BY DEF SumOver
<1> HIDE DEF coin, matched, resting, free
<1>8. market.base_deposit_total >= free + matched + resting
  BY <1>1, <1>2, <1>3, <1>4, <1>5, <1>6
<1> QED
  BY <1>7, <1>8 DEF BaseTotalCovers

LEMMA QuoteTotalFollows ==
  ASSUME IInv, HInv, TInv
  PROVE  QuoteTotalCovers
<1> DEFINE coin == "quote"
           fills == [s \in EventSlots("Fill") |-> QuoteAmount(heap.event[s])]
           bids == [l \in OfSide(leaves, "Bid") |-> LockedQuote(l.qty, LockedAt(l))]
           matched == SumFunctionOnSet(fills, EventSlots("Fill"))
           resting == SumFunctionOnSet(bids, OfSide(leaves, "Bid"))
           free == SumFunctionOnSet(
                     [u \in Users |-> oo[u].quote_free_native + oo[u].locked_maker_fees], Users)
<1>1. matched <= EventTotal(coin, heap.event) /\ matched \in Nat
  <2>1. ASSUME NEW s \in EventSlots("Fill")
        PROVE  fills[s] = EventBrings(coin, heap.event[s])
    <3>1. heap.event[s] # NoEvent /\ heap.event[s].type = "Fill"
      BY DEF EventSlots
    <3> QED
      BY <3>1, FillBringsAmounts
  <2> HIDE DEF coin, fills
  <2> QED
    BY <2>1, FillsCounted
<1>2. resting <= LeafTotal(coin, leaves) /\ resting \in Nat
  <2>1. ASSUME NEW l \in OfSide(leaves, "Bid")
        PROVE  bids[l] = LeafBrings(coin, l)
    <3>1. l \in leaves /\ l.side = "Bid"
      BY DEF OfSide
    <3>2. LockedAt(l) = LockOf(l)
      BY <3>1 DEF HInv, Backed, HeldIn, SlotOf, LockedAt
    <3>3. LeafBrings(coin, l) = LockedQuote(l.qty, LockOf(l))
      BY <3>1 DEF LeafBrings, TokenOf, Native
    <3>4. bids[l] = LockedQuote(l.qty, LockedAt(l))
      OBVIOUS
    <3> QED
      BY <3>2, <3>3, <3>4
  <2> HIDE DEF coin, bids
  <2> QED
    BY <2>1, SideCounted
<1>3. free = AccountSum(coin, oo)
  BY DEF AccountSum, AccountParts, AccountHas
<1>4. /\ Owed(coin, oo, leaves, heap.event)
           = AccountSum(coin, oo) + LeafTotal(coin, leaves) + EventTotal(coin, heap.event)
      /\ AccountSum(coin, oo) \in Nat /\ LeafTotal(coin, leaves) \in Nat
      /\ EventTotal(coin, heap.event) \in Nat
  BY OwedNow
<1>5. Owed(coin, oo, leaves, heap.event) <= TotalsOf(market)[coin]
  BY DEF TInv, Coins
<1>6. /\ TotalsOf(market)[coin] = market.quote_deposit_total - market.fees_available
      /\ market.quote_deposit_total \in Nat /\ market.fees_available \in Nat
  BY TotalsAre DEF IInv
<1>7. /\ SumOver(Users, LAMBDA u : oo[u].quote_free_native + oo[u].locked_maker_fees) = free
      /\ SumOver(EventSlots("Fill"), LAMBDA s : QuoteAmount(heap.event[s])) = matched
      /\ SumOver(OfSide(leaves, "Bid"), LAMBDA l : LockedQuote(l.qty, LockedAt(l))) = resting
  BY DEF SumOver
<1> HIDE DEF coin, matched, resting, free
<1>8. market.quote_deposit_total >= free + market.fees_available + matched + resting
  BY <1>1, <1>2, <1>3, <1>4, <1>5, <1>6
<1> QED
  BY <1>7, <1>8 DEF QuoteTotalCovers

LEMMA TotalsFollow == IInv /\ HInv /\ TInv => TotalsCover
<1>1. BaseTotalCovers /\ QuoteTotalCovers => TotalsCover
  BY Zenon DEF BaseTotalCovers, QuoteTotalCovers, TotalsCover
<1> QED
  BY <1>1, BaseTotalFollows, QuoteTotalFollows


\* What settle_funds and sweep_fees take off the totals is there.
PayoutsCovered ==
  /\ \A u \in Users :
       /\ market.base_deposit_total >= oo[u].base_free_native
       /\ market.quote_deposit_total
            >= oo[u].quote_free_native + oo[u].locked_maker_fees + market.fees_available
  /\ market.quote_deposit_total >= market.fees_available

LEMMA PayoutsFollow == IInv /\ TInv => PayoutsCovered
<1> SUFFICES ASSUME IInv, TInv
             PROVE  PayoutsCovered
  OBVIOUS
<1>1. oo \in Accounts
  BY EventsNow
<1>2. ASSUME NEW coin \in Coins
      PROVE  /\ TotalsOf(market)[coin] >= 0 /\ TotalsOf(market)[coin] \in Int
             /\ \A u \in Users : AccountHas(coin, oo[u]) <= TotalsOf(market)[coin]
  <2>1. /\ Owed(coin, oo, leaves, heap.event)
             = AccountSum(coin, oo) + LeafTotal(coin, leaves) + EventTotal(coin, heap.event)
        /\ AccountSum(coin, oo) \in Nat /\ LeafTotal(coin, leaves) \in Nat
        /\ EventTotal(coin, heap.event) \in Nat
    BY OwedNow
  <2>2. Owed(coin, oo, leaves, heap.event) <= TotalsOf(market)[coin]
    BY DEF TInv
  <2>3. TotalsOf(market)[coin] \in Int
    BY TotalsAre DEF IInv, Funds
  <2>4. ASSUME NEW u \in Users
        PROVE  AccountHas(coin, oo[u]) <= AccountSum(coin, oo) /\ AccountHas(coin, oo[u]) \in Nat
    <3> DEFINE f == AccountParts(coin, oo)
    <3>1. \A v \in Users : f[v] = AccountHas(coin, oo[v]) /\ f[v] \in Nat
      BY <1>1, AccountSumIs
    <3> HIDE DEF f
    <3>2. /\ IsFiniteSet(Users \ {u}) /\ IsFiniteSet(Users) /\ \A v \in Users : f[v] \in Int
          /\ \A v \in Users \ {u} : f[v] \in Nat
      BY <3>1, FermiAssumption, FS_RemoveElement
    <3>3. SumFunctionOnSet(f, Users) = f[u] + SumFunctionOnSet(f, Users \ {u})
      BY <3>2, SumOne
    <3>4. SumFunctionOnSet(f, Users \ {u}) \in Nat
      BY <3>2, SumNat
    <3>5. f[u] <= SumFunctionOnSet(f, Users)
      BY <3>1, <3>3, <3>4
    <3> QED
      BY <3>1, <3>5 DEF AccountSum, f
  <2>5. \A u \in Users : AccountHas(coin, oo[u]) <= TotalsOf(market)[coin]
    <3> TAKE u \in Users
    <3> QED
      BY <2>1, <2>2, <2>3, <2>4
  <2> QED
    BY <2>1, <2>2, <2>3, <2>5
<1>3. /\ TotalsOf(market)["base"] = market.base_deposit_total
      /\ TotalsOf(market)["quote"] = market.quote_deposit_total - market.fees_available
      /\ market.base_deposit_total \in Nat /\ market.quote_deposit_total \in Nat
      /\ market.fees_available \in Nat
  BY TotalsAre DEF IInv
<1>4. "base" \in Coins /\ "quote" \in Coins
  BY DEF Coins
<1>5. ASSUME NEW u \in Users
      PROVE  /\ market.base_deposit_total >= oo[u].base_free_native
             /\ market.quote_deposit_total
                  >= oo[u].quote_free_native + oo[u].locked_maker_fees + market.fees_available
  <2>1. /\ AccountHas("base", oo[u]) <= TotalsOf(market)["base"]
        /\ AccountHas("quote", oo[u]) <= TotalsOf(market)["quote"]
    BY <1>2, <1>4
  <2>2. /\ AccountHas("base", oo[u]) = oo[u].base_free_native
        /\ AccountHas("quote", oo[u]) = oo[u].quote_free_native + oo[u].locked_maker_fees
    BY DEF AccountHas
  <2>3. /\ oo[u].base_free_native \in Nat /\ oo[u].quote_free_native \in Nat
        /\ oo[u].locked_maker_fees \in Nat
    BY <1>1 DEF Accounts, AccountType
  <2> QED
    BY <1>3, <2>1, <2>2, <2>3
<1>6. market.quote_deposit_total >= market.fees_available
  BY <1>2, <1>3, <1>4
<1> QED
  BY <1>5, <1>6 DEF PayoutsCovered

-----------------------------------------------------------------------------
(* The theorems.  A penalty is computed in lots of quote and paid in native *)
(* units of either token; what it adds in quote is never more than the     *)
(* match it removes was worth, what it adds in base may be.                *)

PenaltiesPaid == [][PenaltyStepPaid]_vars

LEMMA TotalsNext ==
  IInv /\ HInv /\ TInv /\ IInv' /\ [Next]_vars /\ [PenaltyStepPaid]_vars => TInv'
<1> SUFFICES ASSUME IInv, HInv, TInv, IInv', [Next]_vars, [PenaltyStepPaid]_vars
             PROVE  TInv'
  OBVIOUS
<1>1. CASE PenaltyStepPaid
  BY <1>1, TotalsStep
<1>2. CASE UNCHANGED vars
  BY <1>2, AdministerFunded
<1> QED
  BY <1>1, <1>2

(* What the market has booked as deposited covers all that it owes: the    *)
(* inductive invariant, in every behaviour in which the accounts hold what *)
(* their orders need and no penalty pays more base than its match brought. *)
THEOREM TotalsInv == Spec /\ []HInv /\ PenaltiesPaid => []TInv
BY InitTInv, TotalsNext, FermiInv, PTL DEF Spec, PenaltiesPaid

(* The totals that a market has booked as deposited (TotalsCover) cover    *)
(* the free balances and the locked fees of all accounts, the fees it has  *)
(* collected, what the orders on the book bring back when they are         *)
(* cancelled and what the pending matches bring to buyer and seller,       *)
(* whatever is placed, matched, evicted, cancelled, finalized, settled and *)
(* swept in between.                                                       *)
THEOREM TotalsKept == Spec /\ PenaltiesFit /\ MakersPassed /\ PenaltiesPaid => []TotalsCover
BY MarginInv, TotalsInv, TotalsFollow, FermiInv, PTL

(* So no settle_funds and no sweep_fees finds less in the totals than what *)
(* it takes off them, in any order of payments to all the users.           *)
THEOREM PayoutsAlwaysCovered ==
  Spec /\ PenaltiesFit /\ MakersPassed /\ PenaltiesPaid => []PayoutsCovered
BY MarginInv, TotalsInv, PayoutsFollow, FermiInv, PTL

(* Both, whatever lots are taken off a margin and of whichever account, if *)
(* no account is closed while an order or an event names it.               *)
THEOREM TotalsKeptUnlessOrphaned ==
  Spec /\ []NoOrphans /\ PenaltiesPaid => [](TotalsCover /\ PayoutsCovered)
BY HeldInv, TotalsInv, TotalsFollow, PayoutsFollow, FermiInv, PTL

(* The totals cover it whatever lots are taken off a margin, for           *)
(* users who keep their accounts.                                          *)
THEOREM TotalsKeptWhileOpen ==
  ASSUME ~MayClose
  PROVE  Spec /\ PenaltiesPaid => []TotalsCover
<1>1. Init => AllOpen
  BY DEF Init, AllOpen, NewAccount
<1>2. AllOpen /\ IInv /\ HInv /\ IInv' /\ [Next]_vars => AllOpen' /\ HInv'
  BY OpenStep
<1>3. Spec => [](AllOpen /\ HInv)
  BY <1>1, <1>2, InitHInv, FermiInv, PTL DEF Spec
<1> QED
  BY <1>3, TotalsInv, TotalsFollow, FermiInv, PTL

(* A penalty pays no more base than its match brought when the price of    *)
(* the match is at most one base lot in native units; and up to            *)
(* MarginDivisor times that when the taker names itself the buyer, for then *)
(* only the hundredth is paid in base.                                     *)
THEOREM PenaltyWithinMatch ==
  ASSUME IInv, NEW slot \in HeapSlot, NEW side \in Side, CancelWithPenalty(slot, side),
         heap.event[slot].price <= BaseLotSize * IF side = "Bid" THEN MarginDivisor ELSE 1
  PROVE  PenaltyPaid(slot)
<1> DEFINE ev == heap.event[slot]
           amount == ev.qty * ev.price
           owner == ev.taker
           cpty == ev.maker
           bid == side = "Bid"
           ownerFree == IF bid THEN oo[owner].quote_free_native ELSE oo[owner].base_free_native
           cptyFree == IF bid THEN oo[cpty].base_free_native ELSE oo[cpty].quote_free_native
           pays == amount - ownerFree
           penalty == (amount - cptyFree) \div MarginDivisor
           base == BaseAmount(ev)
           more == IF bid THEN penalty ELSE pays
           a == oo[owner]
           x == a.base_free_native + more
<1>1. /\ ev # NoEvent /\ ev.type # "Out" /\ owner # cpty /\ cptyFree < amount
      /\ oo' = IF bid
               THEN [oo EXCEPT ![owner].quote_free_native = @ + pays,
                               ![owner].base_free_native = @ + penalty,
                               ![cpty].asks_base_lots = @ - penalty]
               ELSE [oo EXCEPT ![owner].base_free_native = @ + pays,
                               ![owner].quote_free_native = @ + penalty,
                               ![cpty].bids_quote_lots = @ - penalty]
  BY Zenon DEF CancelWithPenalty
<1>2. /\ owner \in Users /\ cpty \in Users /\ ev \in EventType
      /\ ev.qty \in Nat /\ ev.price \in Nat /\ amount \in Nat /\ base \in Nat
  <2>1. owner \in Users /\ cpty \in Users /\ ev \in EventType /\ base \in Nat
    BY <1>1, PendingIs
  <2>2. ev.qty \in Nat /\ ev.price \in Nat
    BY <1>1, <2>1 DEF EventType
  <2> QED
    BY <2>1, <2>2, ProductNat
<1>3. oo \in Accounts
  BY EventsNow
<1>4. a \in AccountType /\ ownerFree \in Nat /\ cptyFree \in Nat
  BY <1>2, <1>3 DEF Accounts, AccountType
<1>5. MarginDivisor \in Nat \ {0} /\ BaseLotSize \in Nat
  BY FermiAssumption, MarketAssumption DEF MarketAssumption
<1>6. base = ev.qty * BaseLotSize
  BY DEF BaseAmount
<1>7. ~bid => amount <= base
  <2> HAVE ~bid
  <2> DEFINE qty == ev.qty
             price == ev.price
  <2>1. price <= BaseLotSize /\ qty \in Nat /\ price \in Nat
    BY <1>2, <1>5
  <2>2. amount = qty * price /\ base = qty * BaseLotSize
    BY <1>6
  <2> HIDE DEF qty, price, amount, base
  <2>3. qty * price <= qty * BaseLotSize
    BY <1>5, <2>1, ProductMonotonic
  <2> QED
    BY <2>2, <2>3
<1>8. bid => amount <= base * MarginDivisor
  <2> HAVE bid
  <2> DEFINE qty == ev.qty
             price == ev.price
             most == BaseLotSize * MarginDivisor
  <2>1. price <= most /\ qty \in Nat /\ price \in Nat /\ most \in Nat
    BY <1>2, <1>5, ProductNat
  <2>2. amount = qty * price /\ base = qty * BaseLotSize
    BY <1>6
  <2>3. qty * most = (qty * BaseLotSize) * MarginDivisor
    BY <1>5, <2>1
  <2> HIDE DEF qty, price, amount, base, most
  <2>4. qty * price <= qty * most
    BY <2>1, ProductMonotonic
  <2> QED
    BY <2>2, <2>3, <2>4
<1>9. more <= base /\ more \in Int /\ pays \in Int /\ penalty \in Int
  <2> DEFINE due == amount - cptyFree
             most == base * MarginDivisor
  <2> HIDE DEF amount, cptyFree, ownerFree, base
  <2>1. due \in Nat /\ due <= amount /\ most \in Nat
    <3>1. cptyFree < amount
      BY <1>1
    <3>2. due \in Nat /\ due <= amount
      BY <1>2, <1>4, <3>1
    <3>3. most \in Nat
      BY <1>2, <1>5, ProductNat
    <3> QED
      BY <3>2, <3>3
  <2>2. pays \in Int /\ pays <= amount
    BY <1>2, <1>4
  <2>3. penalty = due \div MarginDivisor
    OBVIOUS
  <2>4. bid => due <= most
    BY <1>2, <1>8, <2>1
  <2> HIDE DEF due, penalty, pays, bid
  <2>5. penalty \in Int
    BY <1>5, <2>1, <2>3, DivisionNat
  <2>6. bid => penalty <= base
    BY <1>2, <1>5, <2>1, <2>3, <2>4, DivisionAtMost DEF most
  <2> QED
    BY <1>2, <1>7, <2>2, <2>5, <2>6
<1>10. PenaltyPaid(slot) = (oo'[owner].base_free_native <= oo[owner].base_free_native + base)
  BY DEF PenaltyPaid
<1> HIDE DEF ev, amount, owner, cpty, ownerFree, cptyFree, pays, penalty, bid, base
<1>11. oo'[owner].base_free_native = x
  <2>1. /\ owner \in Users /\ cpty \in Users /\ owner # cpty
        /\ oo \in [Users -> AccountType]
        /\ oo' = IF bid
                 THEN [oo EXCEPT ![owner].quote_free_native = @ + pays,
                                 ![owner].base_free_native = @ + penalty,
                                 ![cpty].asks_base_lots = @ - penalty]
                 ELSE [oo EXCEPT ![owner].base_free_native = @ + pays,
                                 ![owner].quote_free_native = @ + penalty,
                                 ![cpty].bids_quote_lots = @ - penalty]
    BY <1>1, <1>2, <1>3 DEF Accounts
  <2> QED
    BY <2>1 DEF AccountType
<1>12. a.base_free_native \in Nat
  BY <1>4 DEF AccountType
<1> HIDE DEF more, a
<1>13. x <= a.base_free_native + base
  BY <1>2, <1>9, <1>12
<1> QED
  BY <1>10, <1>11, <1>13 DEF a
=============================================================================

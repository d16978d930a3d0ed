------------------------------ MODULE MarginProofs ------------------------------
(***************************************************************************)
(* The lots an account holds a margin for, and what it still has to        *)
(* deliver: what is left of its orders on the book, and the matches of     *)
(* them that are pending in the event heap.                                *)
(***************************************************************************)
EXTENDS HeldProofs

-----------------------------------------------------------------------------
(* The margins of an account, and what is counted against each: the base   *)
(* lots of its bids, those of its asks, and the quote lots of its bids.    *)
(* The last count is right only if pegged bids do not match at once: what  *)
(* such a bid takes at its price is entered at its peg limit.              *)

Margins == {"lots", "asks", "quote"}
Counted == IF PeggedBidsPost THEN Margins ELSE {"lots", "asks"}
SideOf(kind) == IF kind = "asks" THEN "Ask" ELSE "Bid"
Margin(kind, a) ==
  IF kind = "asks" THEN a.asks_base_lots
  ELSE IF kind = "quote" THEN a.bids_quote_lots ELSE a.bids_base_lots
Worth(kind, qty, price) == IF kind = "quote" THEN qty * price ELSE qty

\* What a leaf counts for the account of u.
LeafPart(kind, l, u) ==
  IF l.owner = u /\ l.side = SideOf(kind) THEN Worth(kind, l.qty, LockOf(l)) ELSE 0
LeafParts(kind, u) == [l \in Leaves |-> LeafPart(kind, l, u)]
LeafSum(kind, S, u) == SumFunctionOnSet(LeafParts(kind, u), S)

\* The party of a match that delivers on a side; the taker of a market order
\* without an account has delivered already.
Owes(ev, side, u) ==
  IF ev.taker_side = side THEN ev.taker = u /\ (ev.type = "Fill" \/ ev.by_account)
  ELSE ev.maker = u
\* What an event counts for the account of u; the quote of an order that left
\* the book without a trace in its account is not held for anything.
EventPart(kind, ev, u) ==
  IF ev = NoEvent THEN 0
  ELSE IF ev.type = "Out"
       THEN IF kind # "quote" /\ ev.owner = u /\ ev.side = SideOf(kind) THEN ev.qty ELSE 0
       ELSE IF Owes(ev, SideOf(kind), u) THEN Worth(kind, ev.qty, ev.price) ELSE 0
EventParts(kind, event, u) == [s \in HeapSlot |-> EventPart(kind, event[s], u)]
EventSum(kind, event, u) == SumFunctionOnSet(EventParts(kind, event, u), HeapSlot)

LEMMA WorthNat ==
  ASSUME NEW kind, NEW qty \in Nat, NEW price \in Nat
  PROVE  Worth(kind, qty, price) \in Nat
BY ProductNat DEF Worth

LEMMA LockOfNat ==
  ASSUME NEW l \in Leaves
  PROVE  LockOf(l) \in Nat /\ l.qty \in Nat \ {0}
BY DEF LockOf, Leaves, LeafType

LEMMA LeafPartNat ==
  ASSUME NEW kind, NEW l \in Leaves, NEW u
  PROVE  LeafPart(kind, l, u) \in Nat
BY LockOfNat, WorthNat DEF LeafPart

LEMMA EventPartNat ==
  ASSUME NEW kind, NEW ev \in EventType \cup {NoEvent}, NEW u
  PROVE  EventPart(kind, ev, u) \in Nat
<1>1. CASE ev = NoEvent
  BY <1>1 DEF EventPart
<1>2. CASE ev # NoEvent /\ ev.type = "Out"
  <2>1. ev.qty \in Nat
    BY <1>2 DEF EventType
  <2> QED
    BY <1>2, <2>1 DEF EventPart
<1>3. CASE ev # NoEvent /\ ev.type # "Out"
  <2>1. ev.qty \in Nat /\ ev.price \in Nat
    BY <1>3 DEF EventType
  <2>2. Worth(kind, ev.qty, ev.price) \in Nat
    BY <2>1, WorthNat
  <2> QED
    BY <1>3, <2>2 DEF EventPart
<1> QED
  BY <1>1, <1>2, <1>3

LEMMA LeafSumIs ==
  ASSUME NEW kind, NEW u, NEW S \in SUBSET Leaves, IsFiniteSet(S)
  PROVE  /\ LeafSum(kind, S, u) \in Nat
         /\ \A l \in Leaves : /\ LeafParts(kind, u)[l] = LeafPart(kind, l, u)
                              /\ LeafParts(kind, u)[l] \in Nat
<1>1. \A l \in Leaves : /\ LeafParts(kind, u)[l] = LeafPart(kind, l, u)
                        /\ LeafParts(kind, u)[l] \in Nat
  BY LeafPartNat DEF LeafParts
<1> DEFINE f == LeafParts(kind, u)
<1>2. \A l \in S : f[l] \in Nat
  BY <1>1
<1> HIDE DEF f
<1>3. SumFunctionOnSet(f, S) \in Nat
  BY <1>2, SumNat
<1> QED
  BY <1>1, <1>3 DEF LeafSum, f

LEMMA LeafSumWith ==
  ASSUME NEW kind, NEW u, NEW S \in SUBSET Leaves, IsFiniteSet(S), NEW l \in Leaves, l \notin S
  PROVE  LeafSum(kind, S \cup {l}, u) = LeafSum(kind, S, u) + LeafPart(kind, l, u)
<1> DEFINE f == LeafParts(kind, u)
<1>0. \A k \in Leaves : f[k] = LeafPart(kind, k, u) /\ f[k] \in Nat
  BY LeafSumIs
<1> HIDE DEF f
<1>1. f[l] = LeafPart(kind, l, u) /\ f[l] \in Int /\ \A k \in S : f[k] \in Int
  BY <1>0
<1>2. SumFunctionOnSet(f, S \cup {l}) = SumFunctionOnSet(f, S) + f[l]
  BY <1>1, SumWith
<1> QED
  BY <1>1, <1>2 DEF LeafSum, f

LEMMA LeafSumWithout ==
  ASSUME NEW kind, NEW u, NEW S \in SUBSET Leaves, IsFiniteSet(S), NEW l \in S
  PROVE  /\ LeafSum(kind, S, u) = LeafSum(kind, S \ {l}, u) + LeafPart(kind, l, u)
         /\ LeafSum(kind, S \ {l}, u) \in Nat /\ LeafPart(kind, l, u) \in Nat
<1> DEFINE T == S \ {l}
<1>1. T \in SUBSET Leaves /\ IsFiniteSet(T) /\ l \in Leaves /\ l \notin T /\ T \cup {l} = S
  BY FS_RemoveElement
<1> HIDE DEF T
<1>2. LeafSum(kind, T \cup {l}, u) = LeafSum(kind, T, u) + LeafPart(kind, l, u)
  BY <1>1, LeafSumWith
<1>3. LeafSum(kind, T, u) \in Nat /\ LeafPart(kind, l, u) \in Nat
  BY <1>1, LeafSumIs, LeafPartNat
<1> QED
  BY <1>1, <1>2, <1>3 DEF T

LEMMA HeapSlotFinite == IsFiniteSet(HeapSlot)
BY OrderBookAssumption, FS_Interval DEF HeapSlot

LEMMA EventSumIs ==
  ASSUME NEW kind, NEW u, NEW event \in [HeapSlot -> EventType \cup {NoEvent}]
  PROVE  /\ EventSum(kind, event, u) \in Nat
         /\ \A s \in HeapSlot : /\ EventParts(kind, event, u)[s] = EventPart(kind, event[s], u)
                                /\ EventParts(kind, event, u)[s] \in Nat
<1>1. \A s \in HeapSlot : /\ EventParts(kind, event, u)[s] = EventPart(kind, event[s], u)
                          /\ EventParts(kind, event, u)[s] \in Nat
  BY EventPartNat DEF EventParts
<1> DEFINE f == EventParts(kind, event, u)
<1>2. \A s \in HeapSlot : f[s] \in Nat
  BY <1>1
<1> HIDE DEF f
<1>3. SumFunctionOnSet(f, HeapSlot) \in Nat
  BY <1>2, SumNat, HeapSlotFinite
<1> QED
  BY <1>1, <1>3 DEF EventSum, f

\* Another event in a slot changes the sum by what the two count for.
LEMMA EventSumSet ==
  ASSUME NEW kind, NEW u, NEW event \in [HeapSlot -> EventType \cup {NoEvent}],
         NEW s \in HeapSlot, NEW ev \in EventType \cup {NoEvent},
         NEW after, after = [event EXCEPT ![s] = ev]
  PROVE  EventSum(kind, after, u)
           = EventSum(kind, event, u) - EventPart(kind, event[s], u) + EventPart(kind, ev, u)
<1> DEFINE f == EventParts(kind, event, u)
           g == EventParts(kind, after, u)
<1>1. /\ after \in [HeapSlot -> EventType \cup {NoEvent}] /\ after[s] = ev
      /\ \A t \in HeapSlot \ {s} : after[t] = event[t]
  OBVIOUS
<1>2. \A t \in HeapSlot : f[t] = EventPart(kind, event[t], u) /\ f[t] \in Nat
  BY EventSumIs
<1>3. \A t \in HeapSlot : g[t] = EventPart(kind, after[t], u) /\ g[t] \in Nat
  <2>1. after \in [HeapSlot -> EventType \cup {NoEvent}]
    BY <1>1
  <2> QED
    BY <2>1, EventSumIs, Zenon
<1> HIDE DEF f, g
<1>4. f[s] = EventPart(kind, event[s], u) /\ g[s] = EventPart(kind, ev, u)
      /\ \A t \in HeapSlot \ {s} : g[t] = f[t]
  BY <1>1, <1>2, <1>3
<1>5. \A t \in HeapSlot : f[t] \in Int /\ g[t] \in Int
  BY <1>2, <1>3
<1>6. SumFunctionOnSet(g, HeapSlot) = SumFunctionOnSet(f, HeapSlot) - f[s] + g[s]
  BY <1>4, <1>5, SumChange, HeapSlotFinite
<1> QED
  BY <1>4, <1>6 DEF EventSum, f, g

-----------------------------------------------------------------------------
(* Books whose accounts have a margin for all they still have to deliver.  *)

Spare(kind, accounts, S, event, v) ==
  Margin(kind, accounts[v]) - (LeafSum(kind, S, v) + EventSum(kind, event, v))
SpareIn(kind, b, v) == Spare(kind, b.oo, b.leaves, b.heap.event, v)

\* An account that is not there holds no margin.
Flat(accounts) ==
  \A kind \in Margins, v \in Users : ~accounts[v].open => Margin(kind, accounts[v]) <= 0

\* x is what is spare at least, of each kind to each user.
Amounted == [Margins -> [Users -> Int]]
Covers(b, x) == \A kind \in Counted, v \in Users : SpareIn(kind, b, v) >= x[kind][v]
Firm(n, a, e, x) == {b \in Sound(n, a, e) : b.ok => Covers(b, x) /\ Flat(b.oo)}

LEMMA CountedIs == \A kind \in Counted : kind \in Margins
BY DEF Counted, Margins

LEMMA MarginInt ==
  ASSUME NEW kind, NEW a \in AccountType
  PROVE  Margin(kind, a) \in Int
BY DEF Margin, AccountType

LEMMA SpareIs ==
  ASSUME NEW kind, NEW b \in Books, NEW v \in Users
  PROVE  /\ SpareIn(kind, b, v) = Margin(kind, b.oo[v])
                                    - (LeafSum(kind, b.leaves, v) + EventSum(kind, b.heap.event, v))
         /\ Margin(kind, b.oo[v]) \in Int /\ LeafSum(kind, b.leaves, v) \in Nat
         /\ EventSum(kind, b.heap.event, v) \in Nat /\ SpareIn(kind, b, v) \in Int
<1>1. /\ b.leaves \in SUBSET Leaves /\ IsFiniteSet(b.leaves) /\ b.oo[v] \in AccountType
      /\ b.heap.event \in [HeapSlot -> EventType \cup {NoEvent}]
  BY DEF Books, BookType, Heaps
<1>2. Margin(kind, b.oo[v]) \in Int
  BY <1>1, MarginInt
<1>3. LeafSum(kind, b.leaves, v) \in Nat
  BY <1>1, LeafSumIs
<1>4. EventSum(kind, b.heap.event, v) \in Nat
  BY <1>1, EventSumIs
<1> QED
  BY <1>2, <1>3, <1>4 DEF SpareIn, Spare

\* The cancellation of an order takes off the margins what its leaf counts for.
LeafCancelled(accounts, l, c) ==
  /\ CancelSlotFits(accounts[l.owner], l.owner_slot, l.qty)
  /\ c = [accounts EXCEPT ![l.owner] = CancelSlot(accounts[l.owner], l.owner_slot, l.qty)]
LEMMA CancelMargin ==
  ASSUME NEW accounts \in Accounts, NEW l \in Leaves, HeldIn(accounts, l),
         NEW c, LeafCancelled(accounts, l, c)
  PROVE  \A kind \in Margins, v \in Users :
           /\ Margin(kind, c[v]) = Margin(kind, accounts[v]) - LeafPart(kind, l, v)
           /\ c[v].open = accounts[v].open
<1> DEFINE u == l.owner
           o == SlotOf(accounts, l)
           a == accounts[u]
           d == CancelSlot(a, l.owner_slot, l.qty)
<1>1. /\ u \in Users /\ l.owner_slot \in OrderSlot /\ l.qty \in Nat /\ LockOf(l) \in Nat
      /\ a \in AccountType /\ l.side \in Side
  BY SlotOfIs, LockOfNat DEF Accounts, Leaves, LeafType
<1>2. /\ d.open = a.open
      /\ d.bids_base_lots = a.bids_base_lots - IF o.side = "Bid" THEN l.qty ELSE 0
      /\ d.asks_base_lots = a.asks_base_lots - IF o.side = "Bid" THEN 0 ELSE l.qty
      /\ d.bids_quote_lots =
           a.bids_quote_lots - IF o.side = "Bid" THEN l.qty * o.locked_price ELSE 0
  <2>1. o = a.open_orders[l.owner_slot]
    BY DEF SlotOf
  <2> DEFINE slot == l.owner_slot
             qty == l.qty
  <2>2. /\ a \in AccountType /\ slot \in OrderSlot /\ qty \in Nat
        /\ CancelSlotFits(a, slot, qty) /\ d = CancelSlot(a, slot, qty)
        /\ o = a.open_orders[slot]
    BY <1>1, <2>1 DEF LeafCancelled
  <2> HIDE DEF o, a, d, slot
  <2> HIDE DEF qty
  <2>3. /\ d.open = a.open
        /\ d.bids_base_lots = a.bids_base_lots - IF o.side = "Bid" THEN qty ELSE 0
        /\ d.asks_base_lots = a.asks_base_lots - IF o.side = "Bid" THEN 0 ELSE qty
        /\ d.bids_quote_lots =
             a.bids_quote_lots - IF o.side = "Bid" THEN qty * o.locked_price ELSE 0
    BY <2>2, CancelSlotKeeps
  <2> QED
    BY <2>3 DEF qty
<1>3. o.side = l.side /\ (l.side = "Bid" => o.locked_price = LockOf(l))
  BY DEF HeldIn
<1>4. c[u] = d /\ \A v \in Users : v # u => c[v] = accounts[v]
  BY <1>1 DEF Accounts, LeafCancelled
<1> HIDE DEF o, d
<1>5. ASSUME NEW kind \in Margins
      PROVE  Margin(kind, d) = Margin(kind, a) - LeafPart(kind, l, u)
  <2> DEFINE quote == l.qty * LockOf(l)
  <2>1. quote \in Nat /\ (l.side = "Bid" => l.qty * o.locked_price = quote)
    BY <1>1, <1>3, ProductNat
  <2>2. a.bids_base_lots \in Int /\ a.asks_base_lots \in Int /\ a.bids_quote_lots \in Int
    BY <1>1 DEF AccountType
  <2>3. Worth("quote", l.qty, LockOf(l)) = quote
    BY DEF Worth
  <2> HIDE DEF quote
  <2>4. l.side = "Bid" \/ l.side = "Ask"
    BY <1>1 DEF Side
  <2>5. CASE kind = "quote"
    BY <1>2, <1>3, <2>1, <2>2, <2>3, <2>4, <2>5 DEF Margin, LeafPart, SideOf
  <2>6. CASE kind # "quote"
    BY <1>1, <1>2, <1>3, <2>2, <2>4, <2>6 DEF Margin, LeafPart, SideOf, Worth, Margins
  <2> QED
    BY <2>5, <2>6
<1>6. ASSUME NEW kind \in Margins, NEW v \in Users, v # u
      PROVE  Margin(kind, accounts[v]) = Margin(kind, accounts[v]) - LeafPart(kind, l, v)
  <2>1. LeafPart(kind, l, v) = 0
    BY <1>6 DEF LeafPart
  <2>2. Margin(kind, accounts[v]) \in Int
    BY MarginInt DEF Accounts
  <2> QED
    BY <2>1, <2>2
<1> QED
  BY <1>2, <1>4, <1>5, <1>6

\* An order that leaves the book leaves no less spare, whether its slot is
\* freed or an event takes its place.
LEMMA SpareDrop ==
  ASSUME NEW b \in Books, NEW l \in b.leaves, HeldIn(b.oo, l), NEW present,
         NEW c, c = DropFromBook(b, l, present), c.ok
  PROVE  /\ b.ok
         /\ \A kind \in Margins, v \in Users : SpareIn(kind, c, v) >= SpareIn(kind, b, v)
         /\ Flat(b.oo) => Flat(c.oo)
<1>1. /\ l \in Leaves /\ b.leaves \in SUBSET Leaves /\ IsFiniteSet(b.leaves) /\ b.oo \in Accounts
      /\ b.heap.event \in [HeapSlot -> EventType \cup {NoEvent}]
  BY DEF Books, BookType, Accounts, Heaps
<1>2. c \in Books /\ c.leaves = b.leaves \ {l}
  BY <1>1, DropFromBookKeeps DEF Grown
<1>3. /\ b.ok
      /\ \/ c.oo = b.oo /\ Parked(b.heap, c.heap, OutEvent(l)) /\ OutEvent(l) \in EventType
         \/ /\ CancelSlotFits(b.oo[l.owner], l.owner_slot, l.qty) /\ c.heap = b.heap
            /\ c.oo = [b.oo EXCEPT ![l.owner] =
                          CancelSlot(b.oo[l.owner], l.owner_slot, l.qty)]
  BY <1>1, DropFromBookIs
<1>4. ASSUME NEW kind \in Margins, NEW v \in Users
      PROVE  /\ LeafSum(kind, b.leaves, v) = LeafSum(kind, c.leaves, v) + LeafPart(kind, l, v)
             /\ LeafPart(kind, l, v) \in Nat
  BY <1>1, <1>2, LeafSumWithout
<1>7. ASSUME NEW kind \in Margins, NEW v \in Users
      PROVE  /\ SpareIn(kind, b, v) = Margin(kind, b.oo[v])
                  - (LeafSum(kind, b.leaves, v) + EventSum(kind, b.heap.event, v))
             /\ SpareIn(kind, c, v) = Margin(kind, c.oo[v])
                  - (LeafSum(kind, c.leaves, v) + EventSum(kind, c.heap.event, v))
             /\ Margin(kind, b.oo[v]) \in Int /\ Margin(kind, c.oo[v]) \in Int
             /\ LeafSum(kind, b.leaves, v) \in Nat /\ EventSum(kind, b.heap.event, v) \in Nat
             /\ LeafSum(kind, c.leaves, v) \in Nat /\ EventSum(kind, c.heap.event, v) \in Nat
  <2>1. /\ SpareIn(kind, b, v) = Margin(kind, b.oo[v])
              - (LeafSum(kind, b.leaves, v) + EventSum(kind, b.heap.event, v))
        /\ Margin(kind, b.oo[v]) \in Int
        /\ LeafSum(kind, b.leaves, v) \in Nat /\ EventSum(kind, b.heap.event, v) \in Nat
    BY SpareIs
  <2>2. /\ SpareIn(kind, c, v) = Margin(kind, c.oo[v])
              - (LeafSum(kind, c.leaves, v) + EventSum(kind, c.heap.event, v))
        /\ Margin(kind, c.oo[v]) \in Int
        /\ LeafSum(kind, c.leaves, v) \in Nat /\ EventSum(kind, c.heap.event, v) \in Nat
    BY <1>2, SpareIs
  <2> QED
    BY <2>1, <2>2
<1>5. CASE c.oo = b.oo /\ Parked(b.heap, c.heap, OutEvent(l)) /\ OutEvent(l) \in EventType
  <2>1. PICK s \in HeapSlot : /\ b.heap.event[s] = NoEvent
                              /\ c.heap.event = [b.heap.event EXCEPT ![s] = OutEvent(l)]
    BY <1>5 DEF Parked
  <2>2. ASSUME NEW kind \in Margins, NEW v \in Users
        PROVE  SpareIn(kind, c, v) >= SpareIn(kind, b, v)
    <3>1. EventSum(kind, c.heap.event, v)
            = EventSum(kind, b.heap.event, v) - EventPart(kind, NoEvent, v)
                + EventPart(kind, OutEvent(l), v)
      BY <1>1, <1>5, <2>1, EventSumSet
    <3>2. EventPart(kind, NoEvent, v) = 0
      BY DEF EventPart
    <3>3. EventPart(kind, OutEvent(l), v) <= LeafPart(kind, l, v) /\ EventPart(kind, OutEvent(l), v) \in Nat
      <4>1. OutEvent(l) # NoEvent
        BY <1>5, EventAssumption
      <4>2. l.qty \in Nat
        BY <1>1, LockOfNat
      <4>3. LeafPart(kind, l, v) \in Nat
        BY <1>4
      <4> QED
        BY <4>1, <4>2, <4>3 DEF EventPart, OutEvent, LeafPart, Worth
    <3>4. Margin(kind, c.oo[v]) = Margin(kind, b.oo[v])
      BY <1>5
    <3> QED
      BY <1>4, <1>7, <3>1, <3>2, <3>3, <3>4
  <2> QED
    BY <1>3, <1>5, <2>2
<1>6. CASE /\ CancelSlotFits(b.oo[l.owner], l.owner_slot, l.qty) /\ c.heap = b.heap
           /\ c.oo = [b.oo EXCEPT ![l.owner] =
                         CancelSlot(b.oo[l.owner], l.owner_slot, l.qty)]
  <2> DEFINE old == b.oo
             new == c.oo
  <2>0. old \in Accounts /\ HeldIn(old, l) /\ LeafCancelled(old, l, new)
    BY <1>1, <1>6 DEF LeafCancelled
  <2> HIDE DEF old, new
  <2>3. \A kind \in Margins, v \in Users :
          /\ Margin(kind, new[v]) = Margin(kind, old[v]) - LeafPart(kind, l, v)
          /\ new[v].open = old[v].open
    BY <1>1, <2>0, CancelMargin
  <2>1. \A kind \in Margins, v \in Users :
          /\ Margin(kind, c.oo[v]) = Margin(kind, b.oo[v]) - LeafPart(kind, l, v)
          /\ c.oo[v].open = b.oo[v].open
    BY <2>3 DEF old, new
  <2>2. ASSUME NEW kind \in Margins, NEW v \in Users
        PROVE  /\ SpareIn(kind, c, v) >= SpareIn(kind, b, v)
               /\ Margin(kind, c.oo[v]) <= Margin(kind, b.oo[v])
               /\ Margin(kind, c.oo[v]) \in Int /\ Margin(kind, b.oo[v]) \in Int
    BY <1>4, <1>6, <1>7, <2>1
  <2>4. Flat(b.oo) => Flat(c.oo)
    BY <2>1, <2>2 DEF Flat
  <2> QED
    BY <1>3, <2>2, <2>4
<1> QED
  BY <1>3, <1>5, <1>6

LEMMA FirmIs ==
  ASSUME NEW n, NEW a, NEW e, NEW x, NEW b \in Firm(n, a, e, x)
  PROVE  /\ b \in Sound(n, a, e) /\ b \in Fresh(n) /\ b \in Books /\ SeqsUnique(b.leaves)
         /\ b.oo \in Accounts /\ b.leaves \in SUBSET Leaves /\ IsFiniteSet(b.leaves)
         /\ b.ok \in BOOLEAN /\ b.heap.event \in [HeapSlot -> EventType \cup {NoEvent}]
<1>1. b \in Sound(n, a, e)
  BY DEF Firm
<1>2. b \in Books
  BY <1>1, SoundIs
<1>3. b.heap.event \in [HeapSlot -> EventType \cup {NoEvent}]
  BY <1>2 DEF Books, BookType, Heaps
<1> QED
  BY <1>1, <1>2, <1>3, SoundIs

LEMMA FirmFails ==
  ASSUME NEW n, NEW a, NEW e, NEW x, NEW b \in Fresh(n)
  PROVE  [b EXCEPT !.ok = FALSE] \in Firm(n, a, e, x)
<1>1. [b EXCEPT !.ok = FALSE] \in Sound(n, a, e)
  BY SoundFails
<1>2. [b EXCEPT !.ok = FALSE].ok = FALSE
  BY DEF Fresh, Books, BookType
<1> QED
  BY <1>1, <1>2 DEF Firm

LEMMA FirmDrop ==
  ASSUME NEW n, NEW a, NEW e \in Extras, NEW x \in Amounted, NEW b \in Firm(n, a, e, x),
         NEW l \in b.leaves, NEW present
  PROVE  DropFromBook(b, l, present) \in Firm(n, a, e, x)
<1> DEFINE c == DropFromBook(b, l, present)
<1>1. b \in Sound(n, a, e) /\ b \in Books /\ l \in Leaves
  BY FirmIs
<1>2. c \in Sound(n, a, e) /\ c \in Books
  BY <1>1, SoundDrop, SoundIs
<1>0. c = DropFromBook(b, l, present)
  OBVIOUS
<1> HIDE DEF c
<1>3. ASSUME c.ok PROVE Covers(c, x) /\ Flat(c.oo)
  <2>1. b.ok
    BY <1>0, <1>1, <1>3, DropFromBookIs
  <2>2. HeldIn(b.oo, l) /\ Covers(b, x) /\ Flat(b.oo)
    BY <1>1, <2>1 DEF Firm, Sound, Backed
  <2>3. /\ \A kind \in Margins, v \in Users : SpareIn(kind, c, v) >= SpareIn(kind, b, v)
        /\ Flat(b.oo) => Flat(c.oo)
    BY <1>0, <1>1, <1>3, <2>2, SpareDrop
  <2>4. ASSUME NEW kind \in Counted, NEW v \in Users
        PROVE  SpareIn(kind, c, v) >= x[kind][v]
    <3>1. kind \in Margins /\ SpareIn(kind, b, v) >= x[kind][v]
      BY <2>2, CountedIs DEF Covers
    <3>2. SpareIn(kind, c, v) \in Int /\ SpareIn(kind, b, v) \in Int /\ x[kind][v] \in Int
      BY <1>1, <1>2, <3>1, SpareIs DEF Amounted
    <3> QED
      BY <2>3, <3>1, <3>2
  <2> QED
    BY <2>2, <2>3, <2>4 DEF Covers
<1>4. c \in Firm(n, a, e, x)
  BY <1>2, <1>3 DEF Firm
<1> QED
  BY <1>4 DEF c

LEMMA FirmDrops ==
  ASSUME NEW n, NEW a, NEW e \in Extras, NEW x \in Amounted, NEW present
  PROVE  DropKeeps(Firm(n, a, e, x), present)
BY FirmIs, FirmFails, FirmDrop DEF DropKeeps
-----------------------------------------------------------------------------
(* A match: what the maker's order counted for is still counted, by the    *)
(* event, and the taker has something more to deliver.                     *)

\* A bid that may match now does so at the price it is locked at, or below.
LEMMA FillPrice ==
  ASSUME NEW l \in Leaves, NEW feed \in Int \cup {NoOracle}, NEW time,
         IsValidNow(l, time, feed), l.side = "Bid", NEW price, price = PriceNow(feed, l)
  PROVE  price <= LockOf(l)
<1>1. l.data \in Int /\ MaxI64 \in Nat \ {0} /\ LockOf(l) \in Nat
  BY LockOfNat, MarketAssumption DEF Leaves, LeafType, MarketAssumption
<1>2. CASE l.tree = "Fixed"
  BY <1>1, <1>2 DEF PriceNow, LockOf
<1>3. CASE l.tree # "Fixed"
  <2>1. l.tree = "OraclePegged" /\ l.peg_limit \in Nat
    BY <1>3 DEF Leaves, LeafType, Tree
  <2>2. feed \in Int /\ ~IsSkipped(feed, l) /\ ~BeyondPegLimit(feed, l)
    BY <2>1 DEF IsValidNow
  <2>3. PeggedPrice(feed, l) \in Int
    BY <1>1, <2>2 DEF PeggedPrice
  <2>4. l.peg_limit # NoPeg
    BY <2>1, PegAssumption
  <2>5. PeggedPrice(feed, l) <= l.peg_limit
    BY <2>1, <2>2, <2>3, <2>4 DEF BeyondPegLimit, IsPriceBetter
  <2>6. PeggedPrice(feed, l) \in 1..(MaxI64 - 1)
    BY <2>2 DEF IsSkipped
  <2>7. price = PeggedPrice(feed, l)
    BY <1>1, <1>3, <2>3, <2>6 DEF PriceNow
  <2> QED
    BY <1>3, <2>5, <2>7 DEF LockOf
<1> QED
  BY <1>2, <1>3

LEMMA WorthMonotonic ==
  ASSUME NEW kind, NEW qty \in Nat, NEW p \in Nat, NEW q \in Nat, kind = "quote" => p <= q
  PROVE  Worth(kind, qty, p) <= Worth(kind, qty, q)
<1>1. CASE kind = "quote"
  <2>1. qty * p <= qty * q
    BY <1>1, ProductMonotonic
  <2> QED
    BY <1>1, <2>1 DEF Worth
<1> QED
  BY <1>1 DEF Worth

LEMMA WorthAdds ==
  ASSUME NEW kind, NEW x \in Nat, NEW y \in Nat, NEW price \in Nat
  PROVE  Worth(kind, x + y, price) = Worth(kind, x, price) + Worth(kind, y, price)
<1>1. (x + y) * price = x * price + y * price
  OBVIOUS
<1> QED
  BY <1>1 DEF Worth

\* A leaf that shrinks counts for less, by what it loses.
LEMMA LeafReduced ==
  ASSUME NEW kind, NEW v, NEW l \in Leaves, NEW qty \in Nat \ {0}, qty < l.qty,
         NEW rest, rest = [l EXCEPT !.qty = l.qty - qty]
  PROVE  /\ rest \in Leaves /\ rest.seq = l.seq
         /\ LeafPart(kind, l, v)
              = LeafPart(kind, rest, v)
                  + IF l.owner = v /\ l.side = SideOf(kind) THEN Worth(kind, qty, LockOf(l)) ELSE 0
<1> DEFINE left == l.qty - qty
<1>1. l.qty \in Nat /\ left \in Nat \ {0} /\ left + qty = l.qty /\ LockOf(l) \in Nat
  BY LockOfNat
<1>2. l \in LeafType /\ rest = [l EXCEPT !.qty = left]
  BY DEF Leaves
<1> HIDE DEF left
<1>3. /\ rest \in LeafType /\ rest.seq = l.seq /\ rest.owner = l.owner /\ rest.side = l.side
      /\ rest.tree = l.tree /\ rest.qty = left /\ rest.data = l.data
      /\ rest.peg_limit = l.peg_limit
  BY <1>1, <1>2 DEF LeafType
<1>4. rest \in Leaves /\ LockOf(rest) = LockOf(l)
  BY <1>3 DEF Leaves, LockOf
<1>5. Worth(kind, left + qty, LockOf(l)) = Worth(kind, left, LockOf(l)) + Worth(kind, qty, LockOf(l))
  BY <1>1, WorthAdds
<1>6. Worth(kind, left, LockOf(l)) \in Nat /\ Worth(kind, qty, LockOf(l)) \in Nat
  BY <1>1, WorthNat
<1> QED
  BY <1>1, <1>3, <1>4, <1>5, <1>6 DEF LeafPart

\* What a match adds to what its taker has to deliver.
TakerPart(kind, order, u, own, qty, price, v) ==
  IF v = u /\ own # {} /\ SideOf(kind) = order.side THEN Worth(kind, qty, price) ELSE 0

LEMMA FillPart ==
  ASSUME NEW kind, NEW v, NEW order \in OrderType, NEW u \in Users, NEW own,
         own # {} \/ IsMarket(order), NEW l \in Leaves, l.side = InvertSide(order.side),
         NEW price \in Nat \ {0}, l.side = "Bid" => price <= LockOf(l),
         NEW qty \in Nat \ {0}, NEW time \in 1..MaxTime,
         NEW ev, ev = FillEvent(order, u, own, l, price, qty, time)
  PROVE  /\ EventPart(kind, ev, v) \in Nat /\ TakerPart(kind, order, u, own, qty, price, v) \in Nat
         /\ EventPart(kind, ev, v)
              <= TakerPart(kind, order, u, own, qty, price, v)
                   + IF l.owner = v /\ l.side = SideOf(kind) THEN Worth(kind, qty, LockOf(l)) ELSE 0
<1>1. ev \in EventType /\ ev # NoEvent
  BY FillEventIs, EventAssumption
<1>2. EventPart(kind, ev, v) \in Nat
  BY <1>1, EventPartNat
<1>3. LockOf(l) \in Nat
  BY LockOfNat
<1>4. Worth(kind, qty, price) \in Nat /\ Worth(kind, qty, LockOf(l)) \in Nat
  BY <1>3, WorthNat
<1>5. TakerPart(kind, order, u, own, qty, price, v) \in Nat
  BY <1>4 DEF TakerPart
<1>6. /\ ev.type = IF IsMarket(order) THEN "FillDirect" ELSE "Fill"
      /\ ev.taker_side = order.side /\ ev.maker = l.owner /\ ev.taker = u
      /\ ev.by_account = (own # {}) /\ ev.qty = qty /\ ev.price = price
  BY DEF FillEvent
<1>7. ev.type # "Out"
  BY <1>6
<1>8. EventPart(kind, ev, v) = IF Owes(ev, SideOf(kind), v) THEN Worth(kind, qty, price) ELSE 0
  BY <1>1, <1>6, <1>7 DEF EventPart
<1>9. order.side = "Bid" \/ order.side = "Ask"
  BY DEF OrderType, Side
<1>10. CASE order.side = SideOf(kind)
  <2>1. Owes(ev, SideOf(kind), v) => v = u /\ own # {}
    BY <1>6, <1>10 DEF Owes
  <2> QED
    BY <1>2, <1>4, <1>5, <1>8, <1>10, <2>1 DEF TakerPart
<1>11. CASE order.side # SideOf(kind)
  <2>1. l.side = SideOf(kind)
    BY <1>9, <1>11 DEF InvertSide, SideOf
  <2>2. Owes(ev, SideOf(kind), v) <=> l.owner = v
    BY <1>6, <1>11 DEF Owes
  <2>3. kind = "quote" => price <= LockOf(l)
    BY <2>1 DEF SideOf
  <2>4. Worth(kind, qty, price) <= Worth(kind, qty, LockOf(l))
    BY <1>3, <2>3, WorthMonotonic
  <2> QED
    BY <1>2, <1>4, <1>5, <1>8, <2>1, <2>2, <2>4
<1> QED
  BY <1>2, <1>5, <1>10, <1>11

Filled(b, l, qty, order, u, own, price, time) ==
  PushEvent(Reduce(b, l, qty), FillEvent(order, u, own, l, price, qty, time))
FillsTo(b, c, l, qty, order, u, own, price, time) ==
  /\ b \in Books /\ SeqsUnique(b.leaves) /\ l \in b.leaves /\ l.side = InvertSide(order.side)
  /\ order \in OrderType /\ u \in Users /\ (own # {} \/ IsMarket(order))
  /\ price \in Nat \ {0} /\ (l.side = "Bid" => price <= LockOf(l))
  /\ qty \in 1..l.qty /\ time \in 1..MaxTime
  /\ c = Filled(b, l, qty, order, u, own, price, time) /\ c.ok
LEMMA SpareFill ==
  ASSUME NEW kind, NEW v \in Users, NEW b, NEW c, NEW l, NEW qty, NEW order, NEW u, NEW own,
         NEW price, NEW time, FillsTo(b, c, l, qty, order, u, own, price, time)
  PROVE  /\ b.ok /\ c \in Books /\ c.oo = b.oo
         /\ SpareIn(kind, c, v) >= SpareIn(kind, b, v) - TakerPart(kind, order, u, own, qty, price, v)
<1> DEFINE d == Reduce(b, l, qty)
           ev == FillEvent(order, u, own, l, price, qty, time)
           rest == [l EXCEPT !.qty = l.qty - qty]
           T == b.leaves \ {l}
           lost == IF l.owner = v /\ l.side = SideOf(kind) THEN Worth(kind, qty, LockOf(l)) ELSE 0
           taken == TakerPart(kind, order, u, own, qty, price, v)
<1>0. /\ b \in Books /\ SeqsUnique(b.leaves) /\ l \in b.leaves /\ l.side = InvertSide(order.side)
      /\ order \in OrderType /\ u \in Users /\ (own # {} \/ IsMarket(order))
      /\ price \in Nat \ {0} /\ (l.side = "Bid" => price <= LockOf(l))
      /\ qty \in 1..l.qty /\ time \in 1..MaxTime
      /\ c = Filled(b, l, qty, order, u, own, price, time) /\ c.ok
  BY DEF FillsTo
<1>1. l \in Leaves /\ b.leaves \in SUBSET Leaves /\ IsFiniteSet(b.leaves)
      /\ b.heap.event \in [HeapSlot -> EventType \cup {NoEvent}]
  BY <1>0 DEF Books, BookType, Heaps
<1>2. l.qty \in Nat \ {0} /\ qty \in Nat \ {0} /\ qty <= l.qty
  BY <1>0, <1>1, LockOfNat
<1>3. /\ d \in Books /\ d.oo = b.oo /\ d.heap = b.heap /\ d.ok = b.ok
      /\ d.leaves = T \cup IF qty = l.qty THEN {} ELSE {rest}
  BY <1>0, <1>1, <1>2, ReduceKeeps
<1>4. ev \in EventType
  BY <1>0, <1>1, <1>2, FillEventIs
<1>5. c = PushEvent(d, ev) /\ ev = FillEvent(order, u, own, l, price, qty, time)
      /\ rest = [l EXCEPT !.qty = l.qty - qty]
  BY <1>0 DEF Filled
<1> HIDE DEF d, ev
<1>6. c \in Books /\ c.leaves = d.leaves /\ c.oo = d.oo /\ d.ok /\ Parked(d.heap, c.heap, ev)
  BY <1>0, <1>3, <1>4, <1>5, PushEventKeeps
<1>7. PICK s \in HeapSlot : /\ b.heap.event[s] = NoEvent
                            /\ c.heap.event = [b.heap.event EXCEPT ![s] = ev]
  BY <1>0, <1>3, <1>6 DEF Parked
<1>8. EventSum(kind, c.heap.event, v)
        = EventSum(kind, b.heap.event, v) - EventPart(kind, NoEvent, v) + EventPart(kind, ev, v)
  BY <1>0, <1>1, <1>4, <1>7, EventSumSet
<1>9. EventPart(kind, NoEvent, v) = 0
  BY DEF EventPart
<1>10. /\ EventPart(kind, ev, v) \in Nat /\ taken \in Nat
       /\ EventPart(kind, ev, v) <= taken + lost
  BY <1>0, <1>1, <1>2, <1>5, FillPart
<1>11. lost \in Nat
  BY <1>0, <1>1, <1>2, LockOfNat, WorthNat
<1>12. /\ LeafSum(kind, b.leaves, v) = LeafSum(kind, T, v) + LeafPart(kind, l, v)
       /\ LeafSum(kind, T, v) \in Nat /\ LeafPart(kind, l, v) \in Nat
  BY <1>0, <1>1, LeafSumWithout
<1>13. T \in SUBSET Leaves /\ IsFiniteSet(T)
  BY <1>0, <1>1, FS_RemoveElement
<1>14. \A k \in T : k.seq # l.seq
  BY <1>0 DEF SeqsUnique
<1> HIDE DEF rest, T, lost, taken
<1>15. LeafSum(kind, c.leaves, v) = LeafSum(kind, b.leaves, v) - lost
  <2>1. CASE qty = l.qty
    <3>1. c.leaves = T
      BY <1>0, <1>3, <1>6, <2>1
    <3>2. LeafPart(kind, l, v) = lost
      BY <2>1 DEF LeafPart, lost
    <3> QED
      BY <1>0, <1>12, <3>1, <3>2
  <2>2. CASE qty # l.qty
    <3>1. qty < l.qty /\ c.leaves = T \cup {rest}
      BY <1>2, <1>3, <1>6, <2>2
    <3>2. /\ rest \in Leaves /\ rest.seq = l.seq
          /\ LeafPart(kind, l, v) = LeafPart(kind, rest, v) + lost
      BY <1>0, <1>1, <1>2, <1>5, <3>1, LeafReduced DEF lost
    <3>3. rest \notin T
      BY <1>0, <1>14, <3>2
    <3>4. LeafSum(kind, T \cup {rest}, v) = LeafSum(kind, T, v) + LeafPart(kind, rest, v)
      BY <1>0, <1>13, <3>2, <3>3, LeafSumWith
    <3>5. LeafPart(kind, rest, v) \in Nat
      BY <3>2, LeafPartNat
    <3> QED
      BY <1>0, <1>11, <1>12, <3>1, <3>2, <3>4, <3>5
  <2> QED
    BY <2>1, <2>2
<1>16. /\ SpareIn(kind, b, v) = Margin(kind, b.oo[v])
            - (LeafSum(kind, b.leaves, v) + EventSum(kind, b.heap.event, v))
       /\ Margin(kind, b.oo[v]) \in Int
       /\ LeafSum(kind, b.leaves, v) \in Nat /\ EventSum(kind, b.heap.event, v) \in Nat
  BY <1>0, SpareIs
<1>17. SpareIn(kind, c, v) = Margin(kind, c.oo[v])
         - (LeafSum(kind, c.leaves, v) + EventSum(kind, c.heap.event, v))
  BY <1>0, <1>6, SpareIs
<1>18. Margin(kind, c.oo[v]) = Margin(kind, b.oo[v])
  BY <1>0, <1>3, <1>6
<1>19. SpareIn(kind, c, v) >= SpareIn(kind, b, v) - taken
  BY <1>8, <1>9, <1>10, <1>11, <1>15, <1>16, <1>17, <1>18
<1> QED
  BY <1>0, <1>3, <1>6, <1>19 DEF taken

\* What a step of the matching does, with what it takes off the order.
MatchMoves(m, n, item, order, u, own, limitPrice, present, time) ==
  LET l == item.leaf
  IN  \/ /\ n.base = m.base /\ n.quote = m.quote
         /\ \/ n.b = m.b \/ ~n.b.ok
            \/ n.b = DropFromBook(m.b, l, present) \/ n.b = DropFromBook(m.b, l, {l.owner})
      \/ /\ ~IsPostOnly(order) /\ item.valid
         /\ IsPriceWithinLimit(order.side, item.price, limitPrice)
         /\ \E qty \in 1..l.qty :
              /\ qty <= m.base /\ n.base = m.base - qty
              /\ n.quote = m.quote - qty * item.price
              /\ n.b = Filled(m.b, l, qty, order, u, own, item.price, time)

LEMMA MatchStepMoves ==
  ASSUME NEW b \in Books, NEW order \in OrderType, NEW maxQuote \in Nat,
         NEW m \in Matches(b, order, maxQuote),
         NEW item, item.leaf \in Leaves, item.price \in Nat \ {0},
         NEW u \in Users, NEW own \in SUBSET Users, NEW limitPrice, NEW present,
         NEW time \in 1..MaxTime
  PROVE  MatchMoves(m, MatchStep(m, item, order, u, own, limitPrice, present, time),
                    item, order, u, own, limitPrice, present, time)
<1> DEFINE n == MatchStep(m, item, order, u, own, limitPrice, present, time)
           l == item.leaf
           Moves(k) == MatchMoves(m, k, item, order, u, own, limitPrice, present, time)
           stop == [m EXCEPT !.running = FALSE]
           self == l.owner \in own
<1>1. m \in MatchType /\ MatchOK(m, b, order, maxQuote) /\ m.b \in Books /\ m.base \in Nat
  BY DEF Matches, MatchType
<1>2. Moves(m)
  BY DEF MatchMoves
<1>3. Moves(stop) /\ Moves([stop EXCEPT !.post = FALSE])
  <2> DEFINE k == [stop EXCEPT !.post = FALSE]
  <2>1. /\ stop.base = m.base /\ stop.quote = m.quote /\ stop.b = m.b
        /\ k.base = m.base /\ k.quote = m.quote /\ k.b = m.b
    BY <1>1 DEF MatchType
  <2> HIDE DEF stop, k
  <2>2. Moves(stop) /\ Moves(k)
    BY <2>1 DEF MatchMoves
  <2> QED
    BY <2>2 DEF k
<1>4. Moves(DropInvalid(m, l, present))
  <2> DEFINE k == WithBook(m, m.dropped + 1, DropFromBook(m.b, l, present))
  <2>1. DropInvalid(m, l, present) = m \/ DropInvalid(m, l, present) = k
    BY <1>1 DEF DropInvalid, MatchType, WithBook
  <2>2. k.base = m.base /\ k.quote = m.quote /\ k.b = DropFromBook(m.b, l, present)
    BY <1>1 DEF MatchType, WithBook
  <2> HIDE DEF k
  <2>3. Moves(k)
    BY <2>2 DEF MatchMoves
  <2> HIDE DEF Moves
  <2> QED
    BY <1>2, <2>1, <2>3
<1>5. Moves(CancelProvide(m, l))
  <2> DEFINE k == WithBook(m, m.dropped, DropFromBook(m.b, l, {l.owner}))
  <2>1. CancelProvide(m, l) = k
    BY <1>1, CancelProvideIs DEF MatchType, WithBook
  <2>2. k.base = m.base /\ k.quote = m.quote /\ k.b = DropFromBook(m.b, l, {l.owner})
    BY <1>1 DEF MatchType, WithBook
  <2> HIDE DEF k
  <2>3. Moves(k)
    BY <2>2 DEF MatchMoves
  <2> HIDE DEF Moves
  <2> QED
    BY <2>1, <2>3
<1>6. Moves([m EXCEPT !.b.ok = FALSE])
  <2> DEFINE c == [m.b EXCEPT !.ok = FALSE]
             k == WithBook(m, m.dropped, c)
  <2>1. [m EXCEPT !.b.ok = FALSE] = k
    BY <1>1 DEF MatchType, WithBook
  <2>2. ~c.ok
    BY <1>1, FailedKeeps
  <2> HIDE DEF c
  <2>3. k.base = m.base /\ k.quote = m.quote /\ k.b = c
    BY <1>1 DEF MatchType, WithBook
  <2> HIDE DEF k
  <2>4. Moves(k)
    BY <2>2, <2>3 DEF MatchMoves
  <2> HIDE DEF Moves
  <2> QED
    BY <2>1, <2>4
<1>7. ASSUME ~IsPostOnly(order), item.valid, IsPriceWithinLimit(order.side, item.price, limitPrice),
             m.base # 0, m.quote # 0, m.limit # 0, ~(m.quote < item.price)
      PROVE  Moves(Fill(m, item, order, u, own, time))
  <2> DEFINE k == Fill(m, item, order, u, own, time)
             qty == MatchQty(m, item)
  <2>0. m.quote \in Nat /\ m.quote >= item.price /\ l.qty \in Nat \ {0} /\ m.base \in Nat \ {0}
    BY <1>1, <1>7, LockOfNat DEF MatchType
  <2>1. qty \in 1..l.qty /\ qty <= m.base
    BY <2>0, MatchQtyIs
  <2>2. k.b = Filled(m.b, l, qty, order, u, own, item.price, time)
    BY <1>7, <2>0, FillKeeps DEF Filled
  <2>3. k.base = m.base - qty
    BY <1>1 DEF Fill, MatchType
  <2>5. k.quote = m.quote - qty * item.price
    BY <1>1 DEF Fill, MatchType
  <2> HIDE DEF k, qty
  <2>4. Moves(k)
    BY <1>7, <2>1, <2>2, <2>3, <2>5, Zenon DEF MatchMoves
  <2> QED
    BY <2>4 DEF k
<1> HIDE DEF Moves, stop
<1>8. Moves(n)
  BY <1>2, <1>3, <1>4, <1>5, <1>6, <1>7, Zenon DEF MatchStep, stop
<1> QED
  BY <1>8 DEF Moves

-----------------------------------------------------------------------------
(* The matching of an order: its taker owes what was matched so far, at    *)
(* the price that the whole order will be locked at.                       *)

None == [kind \in Margins |-> [v \in Users |-> 0]]
LEMMA NoneIs ==
  /\ None \in Amounted
  /\ \A kind \in Margins, v \in Users : None[kind][v] = 0
  /\ \A kind \in Counted, v \in Users : None[kind][v] = 0
BY CountedIs DEF None, Amounted

TakenBy(kind, m, order, u, own, price, v) ==
  TakerPart(kind, order, u, own, order.base - m.base, LockedPrice(order, price), v)
CoversTaken(m, order, u, own, price) ==
  \A kind \in Counted, v \in Users : SpareIn(kind, m.b, v) >= -TakenBy(kind, m, order, u, own, price, v)
FirmMatches(b, n, a, order, maxQuote, u, own, price) ==
  {m \in Matches(b, order, maxQuote) :
     /\ m.b \in Sound(n, a, Nothing)
     /\ m.b.ok => CoversTaken(m, order, u, own, price) /\ Flat(m.b.oo)}

\* A pegged bid takes only where the lots of the quote are not counted.
Matchable(order) ==
  /\ WellPegged(order)
  /\ "quote" \in Counted => (order.side = "Bid" /\ order.pegged => IsPostOnly(order))

LEMMA AllowedMatchable ==
  ASSUME NEW order, Allowed(order)
  PROVE  Matchable(order)
BY DEF Allowed, Matchable, Counted

LEMMA TakerPartNat ==
  ASSUME NEW kind, NEW order, NEW u, NEW own, NEW qty \in Nat, NEW price \in Nat, NEW v
  PROVE  TakerPart(kind, order, u, own, qty, price, v) \in Nat
BY WorthNat DEF TakerPart

\* What a step adds is within the price that is locked.
LEMMA TakerPartAdds ==
  ASSUME NEW kind \in Counted, NEW order \in OrderType, Matchable(order), ~IsPostOnly(order),
         NEW u, NEW own, NEW x \in Nat, NEW y \in Nat,
         NEW limitPrice \in Nat \ {0}, NEW price \in Nat \ {0},
         IsPriceWithinLimit(order.side, price, limitPrice), NEW v
  PROVE  TakerPart(kind, order, u, own, x, LockedPrice(order, limitPrice), v)
           + TakerPart(kind, order, u, own, y, price, v)
             <= TakerPart(kind, order, u, own, x + y, LockedPrice(order, limitPrice), v)
<1> DEFINE locked == LockedPrice(order, limitPrice)
<1>1. locked \in Nat
  BY LockedPriceIs DEF Matchable
<1>2. kind = "quote" /\ order.side = SideOf(kind) => price <= locked
  <2> SUFFICES ASSUME kind = "quote", order.side = SideOf(kind)
               PROVE  price <= locked
    OBVIOUS
  <2>1. order.side = "Bid" /\ ~order.pegged
    BY DEF SideOf, Matchable
  <2> QED
    BY <2>1 DEF LockedPrice, IsPriceWithinLimit
<1> HIDE DEF locked
<1>3. Worth(kind, x + y, locked) = Worth(kind, x, locked) + Worth(kind, y, locked)
  BY <1>1, WorthAdds
<1>4. /\ Worth(kind, x, locked) \in Nat /\ Worth(kind, y, locked) \in Nat
      /\ Worth(kind, y, price) \in Nat
  BY <1>1, WorthNat
<1>5. order.side = SideOf(kind) => Worth(kind, y, price) <= Worth(kind, y, locked)
  BY <1>1, <1>2, WorthMonotonic
<1>6. TakerPart(kind, order, u, own, x, locked, v) + TakerPart(kind, order, u, own, y, price, v)
        <= TakerPart(kind, order, u, own, x + y, locked, v)
  BY <1>3, <1>4, <1>5 DEF TakerPart
<1> QED
  BY <1>6 DEF locked

LEMMA FirmMatchStep ==
  ASSUME NEW b \in Books, NEW n, NEW a, NEW order \in OrderType, Matchable(order),
         NEW maxQuote \in Nat, NEW u \in Users, NEW own \in SUBSET Users,
         own # {} \/ IsMarket(order), NEW limitPrice \in Nat \ {0}, NEW present,
         NEW time \in 1..MaxTime, NEW feed \in Int \cup {NoOracle},
         NEW m \in FirmMatches(b, n, a, order, maxQuote, u, own, limitPrice),
         NEW item \in Items(Shown(b.leaves, InvertSide(order.side), feed), time, feed),
         item.leaf \in m.b.leaves
  PROVE  MatchStep(m, item, order, u, own, limitPrice, present, time)
           \in FirmMatches(b, n, a, order, maxQuote, u, own, limitPrice)
<1> DEFINE k == MatchStep(m, item, order, u, own, limitPrice, present, time)
           l == item.leaf
           locked == LockedPrice(order, limitPrice)
<1>1. /\ l \in Leaves /\ l.side = InvertSide(order.side) /\ item.price \in Nat \ {0}
      /\ item.price = PriceNow(feed, l) /\ item.valid = IsValidNow(l, time, feed)
  <2> DEFINE side == InvertSide(order.side)
             S == b.leaves
  <2>1. side \in Side /\ S \in SUBSET Leaves /\ item \in Items(Shown(S, side, feed), time, feed)
    BY DEF InvertSide, Side, Books, BookType
  <2> HIDE DEF side, S
  <2>2. /\ item.leaf \in S /\ item.leaf \in Leaves /\ item.leaf.side = side
        /\ item.price \in Nat \ {0}
        /\ item.price = PriceNow(feed, item.leaf) /\ item.valid = IsValidNow(item.leaf, time, feed)
    BY <2>1, ItemIs
  <2> QED
    BY <2>2 DEF side
<1>2. /\ m \in Matches(b, order, maxQuote) /\ m.b \in Sound(n, a, Nothing)
      /\ m.b.ok => CoversTaken(m, order, u, own, limitPrice) /\ Flat(m.b.oo)
  BY DEF FirmMatches
<1>3. m.b \in Books /\ SeqsUnique(m.b.leaves) /\ m.base \in Nat /\ m.base <= order.base
      /\ order.base \in Nat /\ l \in m.b.leaves
  BY <1>2, SoundIs DEF Matches, MatchType, MatchOK, OrderType
<1>4. /\ k \in Matches(b, order, maxQuote)
      /\ MatchChange(m.b, k.b, l, order, u, own, item.price, present, time)
      /\ MatchMoves(m, k, item, order, u, own, limitPrice, present, time)
  BY <1>1, <1>2, MatchStepKeeps, MatchStepMoves
<1> HIDE DEF k
<1>5. k.b \in Sound(n, a, Nothing)
  <2>1. MatchKeeps(Sound(n, a, Nothing), order, u, own, present, time)
    BY NothingIs, SoundMatches
  <2> QED
    BY <1>1, <1>2, <1>3, <1>4, <2>1, Zenon DEF MatchKeeps
<1>6. k.b \in Books
  BY <1>5, SoundIs
<1>7. ASSUME m.b.ok, k.b.ok, NEW kind \in Counted, NEW v \in Users
      PROVE  /\ SpareIn(kind, m.b, v) \in Int /\ SpareIn(kind, k.b, v) \in Int
             /\ SpareIn(kind, m.b, v) >= -TakenBy(kind, m, order, u, own, limitPrice, v)
             /\ TakenBy(kind, m, order, u, own, limitPrice, v) \in Nat
             /\ kind \in Margins
  <2>1. SpareIn(kind, m.b, v) \in Int
    BY <1>3, SpareIs
  <2>2. SpareIn(kind, k.b, v) \in Int
    BY <1>6, SpareIs
  <2>3. order.base - m.base \in Nat /\ locked \in Nat
    BY <1>3, LockedPriceIs DEF Matchable
  <2>4. TakenBy(kind, m, order, u, own, limitPrice, v) \in Nat
    BY <2>3, TakerPartNat DEF TakenBy
  <2> QED
    BY <1>2, <1>7, <2>1, <2>2, <2>4, CountedIs DEF CoversTaken
<1>8. ASSUME k.b.ok
      PROVE  CoversTaken(k, order, u, own, limitPrice) /\ Flat(k.b.oo)
  <2>1. CASE k.base = m.base /\ k.b = m.b
    <3>1. \A kind, v : TakenBy(kind, k, order, u, own, limitPrice, v)
                         = TakenBy(kind, m, order, u, own, limitPrice, v)
      BY <2>1 DEF TakenBy
    <3> QED
      BY <1>2, <1>8, <2>1, <3>1 DEF CoversTaken
  <2>2. ASSUME k.base = m.base, NEW w, k.b = DropFromBook(m.b, l, w)
        PROVE  CoversTaken(k, order, u, own, limitPrice) /\ Flat(k.b.oo)
    <3>1. \A kind, v : TakenBy(kind, k, order, u, own, limitPrice, v)
                         = TakenBy(kind, m, order, u, own, limitPrice, v)
      BY <2>2 DEF TakenBy
    <3> DEFINE c == m.b
               d == k.b
    <3>2. d = DropFromBook(c, l, w) /\ d.ok /\ c \in Books /\ l \in c.leaves /\ l \in Leaves
      BY <1>1, <1>3, <1>8, <2>2
    <3>3. c.ok
      <4> HIDE DEF c, d, l
      <4> QED
        BY <1>1, <3>2, DropFromBookIs
    <3>4. HeldIn(c.oo, l) /\ Flat(c.oo)
      BY <1>2, <1>3, <3>3 DEF Sound, Backed
    <3> HIDE DEF c, d
    <3>5. /\ \A kind \in Margins, v \in Users : SpareIn(kind, d, v) >= SpareIn(kind, c, v)
          /\ Flat(d.oo)
      BY <3>2, <3>4, SpareDrop
    <3>6. ASSUME NEW kind \in Counted, NEW v \in Users
          PROVE  SpareIn(kind, k.b, v) >= -TakenBy(kind, k, order, u, own, limitPrice, v)
      BY <1>7, <1>8, <3>1, <3>3, <3>5 DEF c, d
    <3> QED
      BY <3>5, <3>6 DEF CoversTaken, d
  <2>3. ASSUME ~IsPostOnly(order), item.valid,
               IsPriceWithinLimit(order.side, item.price, limitPrice),
               NEW qty \in 1..l.qty, qty <= m.base, k.base = m.base - qty,
               k.b = Filled(m.b, l, qty, order, u, own, item.price, time)
        PROVE  CoversTaken(k, order, u, own, limitPrice) /\ Flat(k.b.oo)
    <3>1. l.side = "Bid" => item.price <= LockOf(l)
      BY <1>1, <2>3, FillPrice
    <3>2. l.qty \in Nat \ {0} /\ qty \in Nat \ {0}
      BY <1>1, LockOfNat
    <3> DEFINE c == m.b
               d == k.b
               price == item.price
    <3>3. FillsTo(c, d, l, qty, order, u, own, price, time) /\ price \in Nat \ {0} /\ d.ok
      BY <1>1, <1>3, <1>8, <2>3, <3>1 DEF FillsTo
    <3> HIDE DEF c, d, price, l
    <3>4. ASSUME NEW kind, NEW v \in Users
          PROVE  /\ c.ok /\ d.oo = c.oo
                 /\ SpareIn(kind, d, v)
                      >= SpareIn(kind, c, v) - TakerPart(kind, order, u, own, qty, price, v)
      BY <3>3, SpareFill
    <3>6. c.ok /\ d.oo = c.oo
      BY <3>4
    <3>7. ASSUME NEW kind \in Counted, NEW v \in Users
          PROVE  SpareIn(kind, k.b, v) >= -TakenBy(kind, k, order, u, own, limitPrice, v)
      <4> DEFINE x == order.base - m.base
      <4>1. x \in Nat /\ x + qty = order.base - k.base
        BY <1>3, <2>3, <3>2
      <4> HIDE DEF x
      <4>2. TakerPart(kind, order, u, own, x, locked, v) + TakerPart(kind, order, u, own, qty, price, v)
              <= TakerPart(kind, order, u, own, x + qty, locked, v)
        BY <2>3, <3>2, <3>3, <4>1, TakerPartAdds DEF price
      <4>3. /\ TakenBy(kind, m, order, u, own, limitPrice, v) = TakerPart(kind, order, u, own, x, locked, v)
            /\ TakenBy(kind, k, order, u, own, limitPrice, v)
                 = TakerPart(kind, order, u, own, x + qty, locked, v)
        BY <4>1 DEF TakenBy, x
      <4>4. /\ TakerPart(kind, order, u, own, qty, price, v) \in Nat
            /\ TakerPart(kind, order, u, own, x + qty, locked, v) \in Nat
        <5>1. locked \in Nat /\ x + qty \in Nat
          BY <3>2, <4>1, LockedPriceIs DEF Matchable
        <5> QED
          BY <3>2, <3>3, <5>1, TakerPartNat
      <4>5. SpareIn(kind, d, v) >= SpareIn(kind, c, v) - TakerPart(kind, order, u, own, qty, price, v)
        BY <3>4
      <4>6. /\ SpareIn(kind, c, v) \in Int /\ SpareIn(kind, d, v) \in Int
            /\ SpareIn(kind, c, v) >= -TakenBy(kind, m, order, u, own, limitPrice, v)
            /\ TakenBy(kind, m, order, u, own, limitPrice, v) \in Nat
        BY <1>7, <1>8, <3>6 DEF c, d
      <4> HIDE DEF locked
      <4>7. SpareIn(kind, d, v) >= -TakenBy(kind, k, order, u, own, limitPrice, v)
        BY <4>2, <4>3, <4>4, <4>5, <4>6
      <4> QED
        BY <4>7 DEF d
    <3>8. Flat(k.b.oo)
      BY <1>2, <3>6 DEF c, d
    <3> QED
      BY <3>7, <3>8 DEF CoversTaken
  <2>4. MatchMoves(m, k, item, order, u, own, limitPrice, present, time)
    BY <1>4
  <2> QED
    BY <1>8, <2>1, <2>2, <2>3, <2>4, Zenon DEF MatchMoves
<1>9. k \in FirmMatches(b, n, a, order, maxQuote, u, own, limitPrice)
  BY <1>4, <1>5, <1>8 DEF FirmMatches
<1> QED
  BY <1>9 DEF k

\* What the matching leaves behind.
LEMMA FirmMatch ==
  ASSUME NEW n, NEW a, NEW b \in Firm(n, a, Nothing, None), NEW order \in OrderType,
         Matchable(order), NEW maxQuote \in Nat, NEW u \in Users, NEW own \in SUBSET Users,
         own # {} \/ IsMarket(order), NEW limitPrice \in Nat \ {0}, NEW present,
         NEW time \in 1..MaxTime, NEW feed \in Int \cup {NoOracle}
  PROVE  Match(b, order, maxQuote, u, own, limitPrice, present, time, feed)
           \in FirmMatches(b, n, a, order, maxQuote, u, own, limitPrice)
<1> DEFINE H == FirmMatches(b, n, a, order, maxQuote, u, own, limitPrice)
           m == Matching(b, order, maxQuote)
<1>1. b \in Books /\ SeqsUnique(b.leaves) /\ b \in Sound(n, a, Nothing)
  BY FirmIs
<1>2. m \in H
  <2>1. m \in Matches(b, order, maxQuote) /\ m.b = b /\ m.base = order.base
    BY <1>1, MatchingIs DEF Matching
  <2> HIDE DEF m
  <2>2. ASSUME b.ok PROVE CoversTaken(m, order, u, own, limitPrice) /\ Flat(b.oo)
    <3>1. Covers(b, None) /\ Flat(b.oo)
      BY <2>2 DEF Firm
    <3>2. ASSUME NEW kind \in Counted, NEW v \in Users
          PROVE  SpareIn(kind, m.b, v) >= -TakenBy(kind, m, order, u, own, limitPrice, v)
      <4>1. SpareIn(kind, b, v) >= 0
        BY <3>1, NoneIs DEF Covers
      <4>2. order.base - m.base = 0 /\ LockedPrice(order, limitPrice) \in Nat
        BY <2>1, LockedPriceIs DEF OrderType, Matchable
      <4>3. TakenBy(kind, m, order, u, own, limitPrice, v) \in Nat
        BY <4>2, TakerPartNat DEF TakenBy
      <4>4. SpareIn(kind, b, v) \in Int
        BY <1>1, SpareIs
      <4> QED
        BY <2>1, <4>1, <4>3, <4>4
    <3> QED
      BY <3>1, <3>2 DEF CoversTaken
  <2> QED
    BY <1>1, <2>1, <2>2 DEF FirmMatches
<1>3. StepStays(H, b, order, maxQuote, u, own, limitPrice, present, time, feed)
  BY <1>1, FirmMatchStep DEF StepStays
<1> HIDE DEF H
<1>4. Match(b, order, maxQuote, u, own, limitPrice, present, time, feed) \in H
  BY <1>1, <1>2, <1>3, MatchStays
<1> QED
  BY <1>4 DEF H

-----------------------------------------------------------------------------
(* What is left of the order is posted, and the whole order is entered in   *)
(* the account: what was matched and what is posted come to no more.       *)

\* What the taker is short of, until the order is entered.
Owing(order, u, own, qty, price) ==
  [kind \in Margins |-> [v \in Users |-> -TakerPart(kind, order, u, own, qty, price, v)]]
IsOwing(x, order, u, own, qty, price) ==
  /\ x \in Amounted
  /\ \A kind \in Margins, v \in Users :
       /\ x[kind][v] = -TakerPart(kind, order, u, own, qty, price, v)
       /\ TakerPart(kind, order, u, own, qty, price, v) \in Nat
LEMMA OwingIs ==
  ASSUME NEW order, NEW u, NEW own, NEW qty \in Nat, NEW price \in Nat
  PROVE  IsOwing(Owing(order, u, own, qty, price), order, u, own, qty, price)
<1>1. \A kind \in Margins, v \in Users : TakerPart(kind, order, u, own, qty, price, v) \in Nat
  BY TakerPartNat
<1>2. \A kind \in Margins, v \in Users : -TakerPart(kind, order, u, own, qty, price, v) \in Int
  BY <1>1
<1> QED
  BY <1>1, <1>2, Zenon DEF Owing, Amounted, IsOwing

LEMMA FirmLocked ==
  ASSUME NEW n, NEW a, NEW x \in Amounted, NEW b \in Firm(n, a, Nothing, x),
         NEW order \in OrderType, NEW price \in Nat, NEW u \in Users, NEW qty \in Nat
  PROVE  LET fee == IF order.side = "Bid" THEN LockedFee(qty, price) ELSE 0
         IN  LockFees(b, order, price, u, qty) \in Firm(n, a, Extra(u, fee, 0), x)
<1> DEFINE fee == IF order.side = "Bid" THEN LockedFee(qty, price) ELSE 0
           e == Extra(u, fee, 0)
           c == LockFees(b, order, price, u, qty)
<1>1. b \in Sound(n, a, Nothing) /\ b \in Books
  BY FirmIs
<1>2. c \in Sound(n, a, e)
  BY <1>1, SoundLocked
<1> HIDE DEF e
<1>3. /\ Grown(b, c) /\ c.leaves = b.leaves /\ c.bump = b.bump /\ c.heap = b.heap
      /\ \A v \in Users : v # u => c.oo[v] = b.oo[v]
      /\ c.oo[u].open_orders = b.oo[u].open_orders /\ c.oo[u].open = b.oo[u].open
      /\ c.oo[u].bids_base_lots = b.oo[u].bids_base_lots
      /\ c.oo[u].bids_quote_lots = b.oo[u].bids_quote_lots
      /\ c.oo[u].asks_base_lots = b.oo[u].asks_base_lots
      /\ c.oo[u].locked_maker_fees = b.oo[u].locked_maker_fees + fee
  <2>1. c = LockFees(b, order, price, u, qty)
    OBVIOUS
  <2>2. fee = IF order.side = "Bid" THEN LockedFee(qty, price) ELSE 0
    OBVIOUS
  <2> HIDE DEF fee, c
  <2> QED
    BY <1>1, <2>1, <2>2, LockFeesKeeps
<1> HIDE DEF fee, c
<1>4. \A kind \in Margins, v \in Users :
        Margin(kind, c.oo[v]) = Margin(kind, b.oo[v]) /\ c.oo[v].open = b.oo[v].open
  BY <1>3 DEF Margin
<1>5. ASSUME c.ok PROVE Covers(c, x) /\ Flat(c.oo)
  <2>1. Covers(b, x) /\ Flat(b.oo)
    BY <1>3, <1>5 DEF Firm, Grown
  <2>2. \A kind \in Counted, v \in Users : SpareIn(kind, c, v) = SpareIn(kind, b, v)
    BY <1>3, <1>4, CountedIs DEF SpareIn, Spare
  <2> QED
    BY <1>4, <2>1, <2>2 DEF Covers, Flat
<1>6. c \in Firm(n, a, e, x)
  BY <1>2, <1>5 DEF Firm
<1> QED
  BY <1>6 DEF c, e, fee

\* The whole order is entered: its taker is short of nothing any more.
LEMMA FirmRecord ==
  ASSUME NEW n, NEW b \in Fresh(n), NEW order \in OrderType, NEW price \in Nat,
         NEW id \in 0..MaxOrders, NEW u \in Users, NEW own, own # {},
         Covers(b, Owing(order, u, own, order.base, price)),
         Flat(b.oo), b.oo[u].open,
         NEW c, c = Record(b, order, price, id, u), c.ok
  PROVE  Covers(c, None) /\ Flat(c.oo)
<1> DEFINE x == Owing(order, u, own, order.base, price)
<1>0. Recorded(n, b, order, price, id, u, c)
  BY RecordDoes, Zenon
<1>1. /\ c \in Fresh(n) /\ c.leaves = b.leaves /\ c.heap = b.heap
      /\ \A v \in Users : v # u => c.oo[v] = b.oo[v]
      /\ c.oo[u].open = b.oo[u].open
      /\ c.oo[u].bids_base_lots =
           b.oo[u].bids_base_lots + IF order.side = "Bid" THEN order.base ELSE 0
      /\ c.oo[u].bids_quote_lots =
           b.oo[u].bids_quote_lots + IF order.side = "Bid" THEN order.base * price ELSE 0
      /\ c.oo[u].asks_base_lots =
           b.oo[u].asks_base_lots + IF order.side = "Bid" THEN 0 ELSE order.base
  BY <1>0, Zenon DEF Recorded
<1>2. order.base \in Nat /\ (order.side = "Bid" \/ order.side = "Ask")
  BY DEF OrderType, Side
<1>3. /\ \A kind \in Margins, v \in Users :
           /\ x[kind][v] = -TakerPart(kind, order, u, own, order.base, price, v)
           /\ TakerPart(kind, order, u, own, order.base, price, v) \in Nat
  BY <1>2, OwingIs DEF IsOwing
<1>4. b \in Books /\ c \in Books
  BY <1>1 DEF Fresh
<1>5. Covers(b, x)
  OBVIOUS
<1> HIDE DEF x
<1>6. ASSUME NEW kind \in Margins, NEW v \in Users
      PROVE  Margin(kind, c.oo[v])
               = Margin(kind, b.oo[v]) + TakerPart(kind, order, u, own, order.base, price, v)
  <2>1. CASE v = u
    <3>1. /\ b.oo[u].bids_base_lots \in Int /\ b.oo[u].bids_quote_lots \in Int
          /\ b.oo[u].asks_base_lots \in Int
      BY <1>4 DEF Books, BookType, AccountType
    <3> DEFINE quote == order.base * price
    <3>2. quote \in Nat
      BY <1>2, ProductNat
    <3>3. c.oo[u].bids_quote_lots = b.oo[u].bids_quote_lots + IF order.side = "Bid" THEN quote ELSE 0
      BY <1>1
    <3>4. Worth(kind, order.base, price) = IF kind = "quote" THEN quote ELSE order.base
      BY DEF Worth
    <3> HIDE DEF quote
    <3> QED
      BY <1>1, <1>2, <2>1, <3>1, <3>2, <3>3, <3>4 DEF Margin, Margins, TakerPart, SideOf
  <2>2. CASE v # u
    <3>1. Margin(kind, b.oo[v]) \in Int
      BY <1>4, SpareIs
    <3>2. TakerPart(kind, order, u, own, order.base, price, v) = 0
      BY <2>2 DEF TakerPart
    <3> QED
      BY <1>1, <2>2, <3>1, <3>2
  <2> QED
    BY <2>1, <2>2
<1>7. ASSUME NEW kind \in Counted, NEW v \in Users
      PROVE  SpareIn(kind, c, v) >= None[kind][v]
  <2>1. kind \in Margins /\ None[kind][v] = 0
    BY CountedIs, NoneIs
  <2>2. SpareIn(kind, b, v) >= -TakerPart(kind, order, u, own, order.base, price, v)
    BY <1>3, <1>5, <2>1 DEF Covers
  <2>3. /\ SpareIn(kind, b, v) = Margin(kind, b.oo[v])
              - (LeafSum(kind, b.leaves, v) + EventSum(kind, b.heap.event, v))
        /\ Margin(kind, b.oo[v]) \in Int
        /\ LeafSum(kind, b.leaves, v) \in Nat /\ EventSum(kind, b.heap.event, v) \in Nat
    BY <1>4, SpareIs
  <2>4. SpareIn(kind, c, v) = Margin(kind, c.oo[v])
              - (LeafSum(kind, b.leaves, v) + EventSum(kind, b.heap.event, v))
    BY <1>1, <1>4, SpareIs
  <2> QED
    BY <1>3, <1>6, <2>1, <2>2, <2>3, <2>4
<1>8. Flat(c.oo)
  BY <1>1 DEF Flat
<1> QED
  BY <1>7, <1>8 DEF Covers

\* The leaf of what is posted counts for what the taker still owes.
LEMMA PostedPart ==
  ASSUME NEW kind, NEW order \in OrderType, NEW price, NEW u, NEW own, own # {},
         NEW qty \in Nat, NEW v, NEW l,
         l.owner = u, l.qty = qty, l.side = order.side,
         order.side = "Bid" => LockOf(l) = price
  PROVE  LeafPart(kind, l, v) = TakerPart(kind, order, u, own, qty, price, v)
<1>1. order.side = "Bid" \/ order.side = "Ask"
  BY DEF OrderType, Side
<1> QED
  BY <1>1 DEF LeafPart, TakerPart, Worth, SideOf

LEMMA TakerPartSum ==
  ASSUME NEW kind, NEW order, NEW u, NEW own, NEW v, NEW price \in Nat,
         NEW x \in Nat, NEW y \in Nat, NEW z \in Nat, x + y <= z
  PROVE  TakerPart(kind, order, u, own, x, price, v) + TakerPart(kind, order, u, own, y, price, v)
           <= TakerPart(kind, order, u, own, z, price, v)
<1> DEFINE rest == z - (x + y)
           both == x + y
<1>1. rest \in Nat /\ both \in Nat /\ both + rest = z
  OBVIOUS
<1>2. Worth(kind, both, price) = Worth(kind, x, price) + Worth(kind, y, price)
  BY WorthAdds
<1> HIDE DEF rest, both
<1>3. Worth(kind, both + rest, price) = Worth(kind, both, price) + Worth(kind, rest, price)
  BY <1>1, WorthAdds
<1>4. /\ Worth(kind, x, price) \in Nat /\ Worth(kind, y, price) \in Nat
      /\ Worth(kind, rest, price) \in Nat
  BY <1>1, WorthNat
<1> QED
  BY <1>1, <1>2, <1>3, <1>4 DEF TakerPart

LEMMA FirmPosted ==
  ASSUME NEW n \in 0..MaxOrders, n < MaxOrders, NEW a,
         NEW order \in OrderType, WellPegged(order), ~IsMarket(order),
         NEW price \in Nat \ {0}, NEW locked, locked = LockedPrice(order, price),
         NEW u \in Users, a[u].open, NEW own, own # {},
         NEW taken \in Nat, NEW qty \in Nat \ {0}, taken + qty <= order.base,
         NEW b \in Firm(n, a, Nothing, Owing(order, u, own, taken, locked)),
         NEW feed, order.pegged => feed \in Int,
         NEW present, NEW time \in 1..MaxTime, ~ExpiryPassed(order, time),
         NEW d, d = Post(b, order, price, locked, n + 1, u, qty, present, time, feed),
         NEW c, c = Record(d, order, locked, n + 1, u), c.ok
  PROVE  Covers(c, None) /\ Flat(c.oo)
<1> DEFINE x == Owing(order, u, own, taken, locked)
           y == Owing(order, u, own, order.base, locked)
           room == MadeRoom(b, order, price, locked, u, qty, present, time, feed)
           slot == NextOrderSlot(room.oo[u])
           l == Leaf(order, price, feed, n + 1, u, slot, qty, time)
           fee == IF order.side = "Bid" THEN LockedFee(qty, locked) ELSE 0
           e == Extra(u, fee, 0)
<1>1. locked \in Nat \ {0} /\ b \in Fresh(n) /\ n + 1 \in 0..MaxOrders /\ order.base \in Nat
  BY LockedPriceIs, FirmIs, FermiAssumption DEF OrderType
<1>2. fee \in Nat /\ locked \in Nat
  BY <1>1, LockedNat, MarketAssumption
<1>5. b \in Firm(n, a, Nothing, x) /\ x = Owing(order, u, own, taken, locked)
  OBVIOUS
<1>14. y = Owing(order, u, own, order.base, locked)
  OBVIOUS
<1> HIDE DEF x, y
<1>3. /\ x \in Amounted
      /\ \A kind \in Margins, v \in Users :
           /\ x[kind][v] = -TakerPart(kind, order, u, own, taken, locked, v)
           /\ TakerPart(kind, order, u, own, taken, locked, v) \in Nat
  <2>1. taken \in Nat /\ locked \in Nat
    BY <1>2
  <2>2. IsOwing(x, order, u, own, taken, locked)
    BY <1>5, <2>1, OwingIs, Zenon
  <2> QED
    BY <2>2, Zenon DEF IsOwing
<1>4. /\ y \in Amounted
      /\ \A kind \in Margins, v \in Users :
           /\ y[kind][v] = -TakerPart(kind, order, u, own, order.base, locked, v)
           /\ TakerPart(kind, order, u, own, order.base, locked, v) \in Nat
  <2>1. order.base \in Nat /\ locked \in Nat
    BY <1>1, <1>2
  <2>2. IsOwing(y, order, u, own, order.base, locked)
    BY <1>14, <2>1, OwingIs, Zenon
  <2> QED
    BY <2>2, Zenon DEF IsOwing
<1>6. room \in Firm(n, a, e, x)
  <2> DEFINE G == Firm(n, a, e, x)
  <2>1. LockFees(b, order, locked, u, qty) \in G
    BY <1>1, <1>3, <1>5, FirmLocked
  <2>3. e \in Extras
    BY <1>2, ExtraIs
  <2> HIDE DEF e
  <2>2. DropKeeps(G, present)
    BY <1>3, <2>3, FirmDrops
  <2> HIDE DEF G, room
  <2>4. MadeRoom(b, order, price, locked, u, qty, present, time, feed) \in G
    BY <1>1, <2>1, <2>2, MadeRoomKeeps
  <2> QED
    BY <2>4 DEF G, room
<1>7. Posted(n, b, order, price, locked, feed, u, qty, present, time, room, d)
  <2>1. locked \in Nat
    BY <1>1
  <2> QED
    BY <1>1, <2>1, PostDoes, Zenon
<1> HIDE DEF room, fee, e
<1>8. d \in Fresh(n + 1)
  BY <1>7, Zenon DEF Posted
<1>9. d.ok
  <2>1. Recorded(n + 1, d, order, locked, n + 1, u, c)
    <3>1. locked \in Nat
      BY <1>1
    <3> QED
      BY <1>1, <1>8, <3>1, RecordDoes, Zenon
  <2> QED
    BY <2>1, Zenon DEF Recorded, Grown
<1>10. /\ d.leaves = room.leaves \cup {l} /\ d.oo = room.oo /\ d.heap = room.heap
       /\ l \in Leaves /\ room.ok
  BY <1>7, <1>9, Zenon DEF Posted
<1>11. /\ l.seq = n + 1 /\ l.owner = u /\ l.qty = qty /\ l.side = order.side
       /\ order.side = "Bid" => LockOf(l) = locked
  BY <1>1 DEF Leaf, LockOf, LockedPrice, PostTree
<1> HIDE DEF l
<1>12. /\ Covers(room, x) /\ Flat(room.oo) /\ SameOpen(a, room.oo)
       /\ room \in Books /\ room \in Fresh(n) /\ room.leaves \in SUBSET Leaves
       /\ IsFiniteSet(room.leaves)
  <2>1. room \in Sound(n, a, e)
    BY <1>6, FirmIs
  <2> QED
    BY <1>6, <1>10, <2>1, FirmIs DEF Firm, Sound
<1>13. l \notin room.leaves
  <2>1. \A k \in room.leaves : k.seq <= n
    BY <1>12 DEF Fresh
  <2> QED
    BY <1>11, <2>1
<1>15. ASSUME NEW kind \in Counted, NEW v \in Users
       PROVE  SpareIn(kind, d, v) >= y[kind][v]
  <2>1. kind \in Margins
    BY CountedIs
  <2>2. LeafPart(kind, l, v) = TakerPart(kind, order, u, own, qty, locked, v)
    BY <1>11, PostedPart
  <2>3. LeafSum(kind, room.leaves \cup {l}, v) = LeafSum(kind, room.leaves, v) + LeafPart(kind, l, v)
    BY <1>10, <1>12, <1>13, LeafSumWith
  <2>4. TakerPart(kind, order, u, own, taken, locked, v)
          + TakerPart(kind, order, u, own, qty, locked, v)
            <= TakerPart(kind, order, u, own, order.base, locked, v)
    BY <1>1, TakerPartSum
  <2>5. LeafPart(kind, l, v) \in Nat
    BY <1>10, LeafPartNat
  <2>6. /\ SpareIn(kind, room, v) = Margin(kind, room.oo[v])
              - (LeafSum(kind, room.leaves, v) + EventSum(kind, room.heap.event, v))
        /\ Margin(kind, room.oo[v]) \in Int
        /\ LeafSum(kind, room.leaves, v) \in Nat /\ EventSum(kind, room.heap.event, v) \in Nat
    BY <1>12, SpareIs
  <2>7. SpareIn(kind, d, v) = Margin(kind, room.oo[v])
              - (LeafSum(kind, room.leaves \cup {l}, v) + EventSum(kind, room.heap.event, v))
    BY <1>10 DEF SpareIn, Spare
  <2>8. SpareIn(kind, room, v) >= x[kind][v]
    BY <1>12 DEF Covers
  <2> QED
    BY <1>3, <1>4, <2>1, <2>2, <2>3, <2>4, <2>5, <2>6, <2>7, <2>8
<1>16. Covers(d, y) /\ Flat(d.oo) /\ d.oo[u].open
  BY <1>10, <1>12, <1>15 DEF Covers, SameOpen
<1> DEFINE id == n + 1
<1>17. d \in Fresh(id) /\ id \in 0..MaxOrders /\ c = Record(d, order, locked, id, u) /\ locked \in Nat
  BY <1>1, <1>8
<1> HIDE DEF id
<1> QED
  BY <1>14, <1>16, <1>17, FirmRecord

LEMMA FirmNewOrder ==
  ASSUME NEW n \in 0..MaxOrders, n < MaxOrders, NEW a, NEW b \in Firm(n, a, Nothing, None),
         NEW order \in OrderType, Matchable(order),
         NEW u \in Users, NEW own, own = {u} \/ (own = {} /\ IsMarket(order)),
         own # {} => a[u].open,
         NEW remaining, NEW time \in 1..MaxTime,
         NEW feed \in Int \cup {NoOracle}, ~ExpiryPassed(order, time) \/ IsMarket(order),
         NEW r \in NewOrder(b, n, order, u, own, remaining, time, feed)
  PROVE  r.b \in Firm(n + 1, a, Nothing, None)
<1> DEFINE present == own \cup remaining
<1>1. b \in Fresh(n) /\ own \in SUBSET Users /\ b \in Sound(n, a, Nothing) /\ WellPegged(order)
  BY FirmIs DEF Matchable
<1>2. /\ r.b.ok /\ (order.pegged => feed \in Int)
      /\ \E price \in Nat \ {0}, qty \in 0..order.base : \E m :
           NewOrderRun(b, n, order, u, own, remaining, time, feed, r, price, m, qty)
  BY <1>1, NewOrderRuns
<1>3. PICK price \in Nat \ {0}, qty \in 0..order.base : \E m :
        NewOrderRun(b, n, order, u, own, remaining, time, feed, r, price, m, qty)
  BY <1>2
<1>4. PICK m : NewOrderRun(b, n, order, u, own, remaining, time, feed, r, price, m, qty)
  BY <1>3
<1> DEFINE locked == LockedPrice(order, price)
           id == n + 1
           d == IF qty = 0 THEN m.b
                ELSE Post(m.b, order, price, locked, id, u, qty, present, time, feed)
<1>5. /\ m = Match(b, order, MaxQuote(order), u, own, price, present, time, feed)
      /\ m \in Matches(b, order, MaxQuote(order)) /\ m.b \in Fresh(n)
      /\ r.b = IF own = {} THEN d ELSE Record(d, order, locked, id, u)
      /\ qty <= m.base
      /\ qty # 0 => m.b.ok /\ ~IsMarket(order)
  BY <1>4, Zenon DEF NewOrderRun, SettledBook
<1>6. id \in 0..MaxOrders /\ locked \in Nat /\ r.b \in Sound(id, a, Nothing)
  <2>1. r.b \in Sound(n + 1, a, Nothing)
    BY <1>1, SoundNewOrder
  <2>2. id \in 0..MaxOrders /\ locked \in Nat
    BY <1>1, LockedPriceIs, FermiAssumption
  <2> QED
    BY <2>1, <2>2
<1>7. m \in FirmMatches(b, n, a, order, MaxQuote(order), u, own, price)
  <2> DEFINE maxQuote == MaxQuote(order)
  <2>1. maxQuote \in Nat /\ (own # {} \/ IsMarket(order))
    BY MaxQuoteNat
  <2>2. m = Match(b, order, maxQuote, u, own, price, present, time, feed)
    BY <1>5
  <2> HIDE DEF maxQuote, present
  <2>3. m \in FirmMatches(b, n, a, order, maxQuote, u, own, price)
    BY <1>1, <2>1, <2>2, FirmMatch
  <2> QED
    BY <2>3 DEF maxQuote
<1> DEFINE taken == order.base - m.base
           x == Owing(order, u, own, taken, locked)
<1>8. taken \in Nat /\ taken + qty <= order.base /\ order.base \in Nat
  BY <1>5 DEF Matches, MatchType, MatchOK, OrderType
<1>9. /\ x \in Amounted
      /\ \A kind \in Margins, v \in Users :
           x[kind][v] = -TakerPart(kind, order, u, own, taken, locked, v)
  BY <1>6, <1>8, OwingIs DEF IsOwing
<1>10. m.b.ok => Covers(m.b, x) /\ Flat(m.b.oo)
  <2>1. ASSUME m.b.ok PROVE CoversTaken(m, order, u, own, price) /\ Flat(m.b.oo)
    BY <1>7, <2>1 DEF FirmMatches
  <2>2. \A kind, v : TakenBy(kind, m, order, u, own, price, v)
                       = TakerPart(kind, order, u, own, taken, locked, v)
    BY DEF TakenBy
  <2> HIDE DEF x, taken, locked
  <2> QED
    BY <1>9, <2>1, <2>2, CountedIs DEF CoversTaken, Covers
<1>11. m.b \in Firm(n, a, Nothing, x)
  BY <1>7, <1>10 DEF Firm, FirmMatches
<1>12. Covers(r.b, None) /\ Flat(r.b.oo)
  <2>1. CASE own = {}
    <3>1. r.b = m.b
      BY <1>5, <2>1
    <3>2. \A kind \in Margins, v \in Users : x[kind][v] = None[kind][v]
      <4>1. \A kind \in Margins, v \in Users : TakerPart(kind, order, u, own, taken, locked, v) = 0
        BY <2>1 DEF TakerPart
      <4> QED
        BY <1>9, <4>1, NoneIs
    <3> HIDE DEF x
    <3> QED
      BY <1>2, <1>10, <3>1, <3>2, CountedIs DEF Covers
  <2>2. CASE own # {} /\ qty = 0
    <3> DEFINE y == Owing(order, u, own, order.base, locked)
               c == r.b
    <3>1. c = Record(m.b, order, locked, id, u) /\ c.ok
      BY <1>2, <1>5, <2>2
    <3>2. /\ \A kind \in Margins, v \in Users :
               /\ y[kind][v] = -TakerPart(kind, order, u, own, order.base, locked, v)
               /\ TakerPart(kind, order, u, own, order.base, locked, v) \in Nat
      BY <1>6, <1>8, OwingIs DEF IsOwing
    <3> HIDE DEF locked, d, id
    <3>3. m.b.ok
      <4>1. Recorded(n, m.b, order, locked, id, u, Record(m.b, order, locked, id, u))
        BY <1>5, <1>6, RecordDoes, Zenon
      <4> QED
        BY <3>1, <4>1, Zenon DEF Recorded, Grown
    <3>4. Covers(m.b, y)
      <4> HIDE DEF x, y, taken
      <4>1. ASSUME NEW kind \in Counted, NEW v \in Users
            PROVE  SpareIn(kind, m.b, v) >= y[kind][v]
        <5>1. kind \in Margins /\ SpareIn(kind, m.b, v) >= x[kind][v]
          BY <1>10, <3>3, CountedIs DEF Covers
        <5>2. TakerPart(kind, order, u, own, taken, locked, v)
                <= TakerPart(kind, order, u, own, order.base, locked, v)
          <6>1. /\ TakerPart(kind, order, u, own, taken, locked, v) \in Nat
                /\ TakerPart(kind, order, u, own, 0, locked, v) \in Nat
                /\ TakerPart(kind, order, u, own, order.base, locked, v) \in Nat
            BY <1>6, <1>8, TakerPartNat
          <6>2. TakerPart(kind, order, u, own, taken, locked, v)
                  + TakerPart(kind, order, u, own, 0, locked, v)
                    <= TakerPart(kind, order, u, own, order.base, locked, v)
            BY <1>6, <1>8, <2>2, TakerPartSum
          <6> QED
            BY <6>1, <6>2
        <5>3. SpareIn(kind, m.b, v) \in Int /\ TakerPart(kind, order, u, own, taken, locked, v) \in Nat
          <6>1. m.b \in Books
            BY <1>5 DEF Fresh
          <6> QED
            BY <1>6, <1>8, <6>1, SpareIs, TakerPartNat
        <5> QED
          BY <1>9, <3>2, <5>1, <5>2, <5>3
      <4> QED
        BY <4>1 DEF Covers
    <3>5. Flat(m.b.oo) /\ m.b.oo[u].open
      BY <1>7, <1>10, <2>2, <3>3 DEF FirmMatches, Sound, SameOpen
    <3> HIDE DEF c
    <3>6. Covers(c, None) /\ Flat(c.oo)
      <4> DEFINE e == m.b
      <4>1. /\ e \in Fresh(n) /\ Covers(e, Owing(order, u, own, order.base, locked))
            /\ Flat(e.oo) /\ e.oo[u].open /\ c = Record(e, order, locked, id, u)
        BY <1>5, <3>1, <3>4, <3>5
      <4> HIDE DEF e
      <4> QED
        BY <1>6, <2>2, <3>1, <4>1, FirmRecord
    <3> QED
      BY <3>6 DEF c
  <2>3. CASE own # {} /\ qty # 0
    <3> DEFINE e == m.b
               f == Post(e, order, price, locked, n + 1, u, qty, present, time, feed)
               c == r.b
    <3>1. c = Record(f, order, locked, n + 1, u) /\ c.ok
      BY <1>2, <1>5, <2>3
    <3>2. qty \in Nat \ {0} /\ ~IsMarket(order) /\ ~ExpiryPassed(order, time)
      BY <1>5, <2>3 DEF OrderType
    <3>3. e \in Firm(n, a, Nothing, Owing(order, u, own, taken, locked))
          /\ locked = LockedPrice(order, price)
          /\ f = Post(e, order, price, locked, n + 1, u, qty, present, time, feed)
      BY <1>11
    <3> HIDE DEF d, id, e, f, c, x, taken, locked, present
    <3>4. Covers(c, None) /\ Flat(c.oo)
      BY <1>1, <1>2, <1>8, <2>3, <3>1, <3>2, <3>3, FirmPosted
    <3> QED
      BY <3>4 DEF c
  <2> QED
    BY <2>1, <2>2, <2>3
<1> QED
  BY <1>6, <1>12 DEF Firm

-----------------------------------------------------------------------------
(* The state: no account is short of what it still has to deliver.         *)

MInv ==
  /\ \A kind \in Counted, v \in Users : Spare(kind, oo, leaves, heap.event, v) >= 0
  /\ Flat(oo)

LEMMA FirmNow ==
  ASSUME IInv, HInv, MInv
  PROVE  Book \in Firm(market.seq_num, oo, Nothing, None)
<1>1. /\ Book \in Sound(market.seq_num, oo, Nothing)
      /\ Book.leaves = leaves /\ Book.oo = oo /\ Book.heap = heap
  BY SoundNow DEF Book
<1>2. \A kind \in Counted, v \in Users : SpareIn(kind, Book, v) >= None[kind][v]
  <2>1. \A kind \in Counted, v \in Users : SpareIn(kind, Book, v) = Spare(kind, oo, leaves, heap.event, v)
    BY <1>1 DEF SpareIn
  <2> QED
    BY <2>1, NoneIs DEF MInv
<1> QED
  BY <1>1, <1>2 DEF Firm, Covers, MInv

LEMMA BecomesFirm ==
  ASSUME NEW n, NEW b \in Firm(n, oo, Nothing, None), BookBecomes(b)
  PROVE  MInv'
<1>1. b.ok /\ leaves' = b.leaves /\ oo' = b.oo /\ heap' = b.heap
  BY DEF BookBecomes
<1>2. Covers(b, None) /\ Flat(b.oo)
  BY <1>1 DEF Firm
<1>3. \A kind \in Counted, v \in Users : Spare(kind, oo', leaves', heap'.event, v) >= 0
  BY <1>1, <1>2, NoneIs DEF Covers, SpareIn
<1> QED
  BY <1>1, <1>2, <1>3 DEF MInv, Flat

MarginsOf(a) == <<a.bids_base_lots, a.asks_base_lots, a.bids_quote_lots, a.open>>
LEMMA MarginsSame ==
  ASSUME NEW a, NEW c, MarginsOf(c) = MarginsOf(a)
  PROVE  c.open = a.open /\ \A kind : Margin(kind, c) = Margin(kind, a)
<1>1. /\ c.bids_base_lots = a.bids_base_lots /\ c.asks_base_lots = a.asks_base_lots
      /\ c.bids_quote_lots = a.bids_quote_lots /\ c.open = a.open
  BY DEF MarginsOf
<1> QED
  BY <1>1 DEF Margin

\* What Place and CancelAndPlaceOrders add to the account are no margins.
LEMMA AccountFirm ==
  ASSUME NEW n, NEW b \in Firm(n, oo, Nothing, None), NEW u \in Users, NEW account,
         BookBecomes([b EXCEPT !.oo[u] = account]), MarginsOf(account) = MarginsOf(b.oo[u])
  PROVE  MInv'
<1> DEFINE d == [b EXCEPT !.oo[u] = account]
<1>1. d.ok = b.ok /\ d.leaves = b.leaves /\ d.oo = [b.oo EXCEPT ![u] = account] /\ d.heap = b.heap
  BY FirmIs DEF Books, BookType
<1>2. d.ok /\ leaves' = d.leaves /\ oo' = d.oo /\ heap' = d.heap
  BY DEF BookBecomes
<1> HIDE DEF d
<1>3. b.oo \in Accounts
  BY FirmIs
<1>4. Covers(b, None) /\ Flat(b.oo)
  BY <1>1, <1>2 DEF Firm
<1>5. oo'[u] = account /\ \A v \in Users : v # u => oo'[v] = b.oo[v]
  BY <1>1, <1>2, <1>3 DEF Accounts
<1>6. \A kind, v : v \in Users =>
        Margin(kind, oo'[v]) = Margin(kind, b.oo[v]) /\ oo'[v].open = b.oo[v].open
  <2>1. account.open = b.oo[u].open /\ \A kind : Margin(kind, account) = Margin(kind, b.oo[u])
    BY MarginsSame
  <2> QED
    BY <1>5, <2>1
<1>7. \A kind \in Counted, v \in Users : Spare(kind, oo', leaves', heap'.event, v) >= 0
  <2>1. \A kind \in Counted, v \in Users :
          Spare(kind, oo', leaves', heap'.event, v) = SpareIn(kind, b, v)
    BY <1>1, <1>2, <1>6 DEF SpareIn, Spare
  <2> QED
    BY <1>4, <2>1, NoneIs DEF Covers
<1>8. Flat(oo')
  BY <1>4, <1>6 DEF Flat
<1> QED
  BY <1>7, <1>8 DEF MInv, Flat

LEMMA FirmBatches ==
  ASSUME now \in 1..MaxTime, oracle \in Oracles, NEW a, NEW u \in Users, a[u].open, NEW remaining
  PROVE  BatchKeeps([n \in Nat |-> Firm(n, a, Nothing, None)], u, remaining)
<1> DEFINE G == [n \in Nat |-> Firm(n, a, Nothing, None)]
<1>1. ASSUME NEW n \in 0..MaxOrders
      PROVE  /\ G[n] = Firm(n, a, Nothing, None) /\ G[n] \subseteq Fresh(n)
             /\ DropKeeps(G[n], {u})
  <2>1. G[n] = Firm(n, a, Nothing, None)
    BY FermiAssumption
  <2>2. DropKeeps(Firm(n, a, Nothing, None), {u})
    BY NothingIs, NoneIs, FirmDrops
  <2> HIDE DEF G
  <2> QED
    BY <2>1, <2>2, FirmIs
<1> HIDE DEF G
<1>2. ASSUME NEW n \in 0..MaxOrders, NEW order \in OrderType, NEW b \in G[n],
             n < MaxOrders, Allowed(order), ~ExpiryPassed(order, now),
             NEW r \in NewOrder(b, n, order, u, {u}, remaining, now, oracle)
      PROVE  r.b \in G[n + 1]
  <2>1. n + 1 \in 0..MaxOrders
    BY <1>2, FermiAssumption
  <2>2. b \in Firm(n, a, Nothing, None)
    BY <1>1
  <2>3. oracle \in Int \cup {NoOracle} /\ Matchable(order)
    BY <1>2, AllowedMatchable, FermiAssumption
  <2>4. r.b \in Firm(n + 1, a, Nothing, None)
    BY <1>2, <2>2, <2>3, FirmNewOrder
  <2> QED
    BY <1>1, <2>1, <2>4
<1>3. BatchKeeps(G, u, remaining)
  BY <1>1, <1>2 DEF BatchKeeps
<1> QED
  BY <1>3 DEF G

-----------------------------------------------------------------------------
(* The steps that leave the book as an operator of the book makes it.      *)

LEMMA CancelOneFirm ==
  ASSUME IInv, HInv, MInv, NEW u \in Users, NEW slot, CancelOneOrder(u, slot)
  PROVE  MInv'
<1>1. /\ DropKeeps(Firm(market.seq_num, oo, Nothing, None), {u})
      /\ Book \in Firm(market.seq_num, oo, Nothing, None)
  BY FirmNow, FirmDrops, NothingIs, NoneIs
<1>2. CancelOrder(Book, u, slot) \in Firm(market.seq_num, oo, Nothing, None)
  BY <1>1, CancelOrderStays
<1> QED
  BY <1>2, BecomesFirm DEF CancelOneOrder

LEMMA CancelAllFirm ==
  ASSUME IInv, HInv, MInv, NEW u \in Users, NEW sides, NEW limit \in CancelLimits,
         CancelAll(u, sides, limit) \/ (PruneOrders(u, limit) /\ sides = Side)
  PROVE  MInv'
<1>1. /\ DropKeeps(Firm(market.seq_num, oo, Nothing, None), {u})
      /\ Book \in Firm(market.seq_num, oo, Nothing, None)
  BY FirmNow, FirmDrops, NothingIs, NoneIs
<1>2. limit \in Nat
  BY FermiAssumption
<1>3. CancelAllOrders(Book, u, sides, limit) \in Firm(market.seq_num, oo, Nothing, None)
  BY <1>1, <1>2, CancelAllStays
<1> QED
  BY <1>3, BecomesFirm DEF CancelAll, PruneOrders

LEMMA PlaceFirm ==
  ASSUME IInv, NEW u \in Users, oo[u].open,
         NEW b \in Firm(market.seq_num, oo, Nothing, None),
         NEW order \in OrderType, Matchable(order), ~ExpiryPassed(order, now),
         NEW remaining, Place(b, u, order, remaining)
  PROVE  MInv'
<1> DEFINE n == market.seq_num
           bid == order.side = "Bid"
           Approved(r) == Committed(order, r) + IF bid THEN r.b.oo[u].total_approved_quote
                                                ELSE r.b.oo[u].total_approved_base
           Grew(r) == HeapLen(r.b.heap) > HeapLen(b.heap)
           Account(r) == [r.b.oo[u] EXCEPT
                            !.penalty_heap_count = @ + IF Grew(r) THEN 1 ELSE 0,
                            !.total_approved_quote = IF bid THEN Approved(r) ELSE @,
                            !.total_approved_base = IF bid THEN @ ELSE Approved(r)]
<1>1. PICK r \in NewOrder(b, n, order, u, {u}, remaining, now, oracle) :
        BookBecomes([r.b EXCEPT !.oo[u] = Account(r)])
  BY Zenon DEF Place
<1>2. n \in 0..MaxOrders /\ now \in 1..MaxTime /\ oracle \in Int \cup {NoOracle}
  BY TypesNow, FermiAssumption DEF IInv
<1>3. n < MaxOrders
  BY Zenon DEF Place
<1>4. r.b \in Firm(n + 1, oo, Nothing, None)
  BY <1>2, <1>3, FirmNewOrder
<1> DEFINE a == r.b.oo[u]
           x == Approved(r)
           more == IF Grew(r) THEN 1 ELSE 0
           c == [a EXCEPT !.penalty_heap_count = @ + more,
                          !.total_approved_quote = IF bid THEN x ELSE @,
                          !.total_approved_base = IF bid THEN @ ELSE x]
<1>5. BookBecomes([r.b EXCEPT !.oo[u] = c])
  BY <1>1
<1>6. a \in AccountType
  BY <1>4, FirmIs DEF Accounts
<1> HIDE DEF Approved, Grew, Account, x, more
<1>7. MarginsOf(c) = MarginsOf(a)
  BY <1>6 DEF AccountType, MarginsOf
<1> HIDE DEF c, n
<1> DEFINE k == n + 1
<1>8. r.b \in Firm(k, oo, Nothing, None)
  BY <1>4
<1> HIDE DEF k
<1> QED
  BY <1>5, <1>7, <1>8, AccountFirm

LEMMA OrdersMatchable == \A order \in Orders : order \in OrderType /\ Matchable(order)
<1> SUFFICES ASSUME NEW order \in Orders
             PROVE  order \in OrderType /\ Matchable(order)
  OBVIOUS
<1>1. order \in OrderType /\ WellPegged(order)
  BY FermiAssumption
<1>2. Allowed(order)
  BY <1>1 DEF Allowed, PeggedBidsPost
<1> QED
  BY <1>1, <1>2, AllowedMatchable

LEMMA PlaceOrderFirm ==
  ASSUME IInv, HInv, MInv, NEW u \in Users, oo[u].open, NEW order \in Orders, NEW remaining,
         PlaceOrder(u, order, remaining)
  PROVE  MInv'
<1>1. Book \in Firm(market.seq_num, oo, Nothing, None)
  BY FirmNow
<1>2. order \in OrderType /\ Matchable(order)
  BY OrdersMatchable
<1>3. ~ExpiryPassed(order, now) /\ Place(Book, u, order, remaining)
  BY Zenon DEF PlaceOrder
<1> QED
  BY <1>1, <1>2, <1>3, PlaceFirm

LEMMA EditOrderFirm ==
  ASSUME IInv, HInv, MInv, NEW u \in Users, oo[u].open, NEW slot \in OrderSlot,
         NEW expected \in EditSizes, NEW order \in Orders, NEW remaining,
         EditOrder(u, slot, expected, order, remaining)
  PROVE  MInv'
<1> DEFINE cancelled == CancelOrder(Book, u, slot)
           G == Firm(market.seq_num, oo, Nothing, None)
<1>1. DropKeeps(G, {u}) /\ Book \in G
  BY FirmNow, FirmDrops, NothingIs, NoneIs
<1> HIDE DEF G
<1>2. cancelled \in G
  BY <1>1, CancelOrderStays
<1>3. PICK resting \in LeafOf(Book, u, slot) :
        \/ /\ order.base > expected - resting.qty
           /\ Place(cancelled, u, [order EXCEPT !.base = @ - (expected - resting.qty)], remaining)
        \/ BookBecomes(cancelled)
  BY Zenon DEF EditOrder
<1>4. ~ExpiryPassed(order, now)
  BY Zenon DEF EditOrder
<1> HIDE DEF cancelled
<1>5. CASE BookBecomes(cancelled)
  BY <1>2, <1>5, BecomesFirm DEF G
<1>6. CASE /\ order.base > expected - resting.qty
           /\ Place(cancelled, u, [order EXCEPT !.base = @ - (expected - resting.qty)], remaining)
  <2>1. resting \in Leaves
    <3>1. resting \in leaves
      BY Zenon DEF LeafOf, Book
    <3> QED
      BY <3>1, TypesNow
  <2>2. resting.qty \in Nat /\ expected \in Nat /\ order \in OrderType /\ Matchable(order)
    BY <2>1, OrdersMatchable, FermiAssumption DEF Leaves, LeafType
  <2> DEFINE x == order.base - (expected - resting.qty)
             smaller == [order EXCEPT !.base = x]
  <2>3. x \in Nat
    BY <1>6, <2>2 DEF OrderType
  <2> HIDE DEF x
  <2>4. /\ smaller \in OrderType /\ smaller.side = order.side /\ smaller.pegged = order.pegged
        /\ smaller.type = order.type /\ smaller.peg_limit = order.peg_limit
        /\ smaller.expiry = order.expiry
    BY <2>2, <2>3 DEF OrderType
  <2>5. Place(cancelled, u, smaller, remaining)
    BY <1>6 DEF x
  <2> HIDE DEF smaller
  <2>6. Matchable(smaller) /\ ~ExpiryPassed(smaller, now)
    BY <1>4, <2>2, <2>4 DEF Matchable, WellPegged, ExpiryPassed, IsMarket, IsPostOnly
  <2> QED
    BY <1>2, <2>4, <2>5, <2>6, PlaceFirm DEF G
<1> QED
  BY <1>3, <1>5, <1>6

LEMMA CancelAndPlaceFirm ==
  ASSUME IInv, HInv, MInv, NEW u \in Users, oo[u].open, NEW batch \in Batches, NEW remaining,
         CancelAndPlaceOrders(u, batch, remaining)
  PROVE  MInv'
<1> DEFINE c == PlaceBatch(u, batch, remaining)
           grew == HeapLen(c.b.heap) > HeapLen(heap)
           account == [c.b.oo[u] EXCEPT !.base_free_native = @ - FromFree(c, u, "base"),
                                        !.quote_free_native = @ - FromFree(c, u, "quote"),
                                        !.penalty_heap_count = @ + IF grew THEN 1 ELSE 0]
           G == [n \in Nat |-> Firm(n, oo, Nothing, None)]
<1>1. BookBecomes([c.b EXCEPT !.oo[u] = account])
  BY Zenon DEF CancelAndPlaceOrders
<1>2. /\ now \in 1..MaxTime /\ oracle \in Oracles /\ wallet \in [Users -> Balance]
      /\ market.seq_num \in 0..MaxOrders /\ Book \in Firm(market.seq_num, oo, Nothing, None)
  BY SoundNow, FirmNow DEF IInv, TokensTyped, Balances
<1>3. \A n \in 0..MaxOrders : G[n] = Firm(n, oo, Nothing, None)
  BY FermiAssumption
<1>4. BatchKeeps(G, u, remaining)
  BY <1>2, FirmBatches
<1> HIDE DEF G
<1>5. c \in Batched(G, Book, u)
  BY <1>2, <1>3, <1>4, PlaceBatchStays
<1>6. c.seq_num \in 0..MaxOrders /\ c.b \in G[c.seq_num]
  BY <1>5 DEF Batched, Costed
<1> HIDE DEF c
<1>7. c.b \in Firm(c.seq_num, oo, Nothing, None)
  BY <1>3, <1>6
<1> DEFINE a == c.b.oo[u]
           x == a.base_free_native - FromFree(c, u, "base")
           y == a.quote_free_native - FromFree(c, u, "quote")
           z == a.penalty_heap_count + IF grew THEN 1 ELSE 0
<1>8. account = [a EXCEPT !.base_free_native = x, !.quote_free_native = y,
                          !.penalty_heap_count = z]
  OBVIOUS
<1>9. a \in AccountType
  BY <1>7, FirmIs DEF Accounts
<1> HIDE DEF x, y, z, account
<1>10. MarginsOf(account) = MarginsOf(a)
  BY <1>8, <1>9 DEF AccountType, MarginsOf
<1> QED
  BY <1>1, <1>7, <1>10, AccountFirm

LEMMA PlaceTakeFirm ==
  ASSUME IInv, HInv, MInv, NEW u \in Users, NEW order \in TakeOrders, NEW remaining, NEW referrer,
         PlaceTakeOrder(u, order, remaining, referrer)
  PROVE  MInv'
<1> DEFINE n == market.seq_num
<1>1. PICK r \in NewOrder(Book, n, order, u, {}, remaining, now, NoOracle) : BookBecomes(r.b)
  BY Zenon DEF PlaceTakeOrder
<1>2. n < MaxOrders
  BY Zenon DEF PlaceTakeOrder
<1>3. order \in OrderType /\ IsMarket(order) /\ Matchable(order)
  BY FermiAssumption DEF WellPegged, Matchable
<1>4. /\ n \in 0..MaxOrders /\ now \in 1..MaxTime /\ NoOracle \in Int \cup {NoOracle}
      /\ Book \in Firm(n, oo, Nothing, None)
  BY SoundNow, FirmNow
<1>5. r.b \in Firm(n + 1, oo, Nothing, None)
  BY <1>2, <1>3, <1>4, FirmNewOrder
<1> DEFINE k == n + 1
<1>6. r.b \in Firm(k, oo, Nothing, None)
  BY <1>5
<1> HIDE DEF k
<1> QED
  BY <1>1, <1>6, BecomesFirm

-----------------------------------------------------------------------------
(* The steps that take a match off the heap: what they take off a margin    *)
(* is what the match counted for, or less.                                  *)

LEMMA EventsNow ==
  ASSUME IInv
  PROVE  /\ heap.event \in [HeapSlot -> EventType \cup {NoEvent}]
         /\ leaves \in SUBSET Leaves /\ IsFiniteSet(leaves) /\ oo \in Accounts
BY BookNow DEF IInv, Fields, Heaps, Accounts

LEMMA SpareNow ==
  ASSUME IInv, NEW kind, NEW v \in Users
  PROVE  /\ Spare(kind, oo, leaves, heap.event, v)
              = Margin(kind, oo[v]) - (LeafSum(kind, leaves, v) + EventSum(kind, heap.event, v))
         /\ Margin(kind, oo[v]) \in Int /\ LeafSum(kind, leaves, v) \in Nat
         /\ EventSum(kind, heap.event, v) \in Nat
<1>1. Margin(kind, oo[v]) \in Int
  BY EventsNow, MarginInt DEF Accounts
<1>2. LeafSum(kind, leaves, v) \in Nat
  BY EventsNow, LeafSumIs
<1>3. EventSum(kind, heap.event, v) \in Nat
  BY EventsNow, EventSumIs
<1> QED
  BY <1>1, <1>2, <1>3 DEF Spare

LEMMA HeapSettles ==
  ASSUME IInv, MInv, IInv', NEW slot \in HeapSlot, NEW ev, ev = heap.event[slot],
         heap' = DeleteSlot(heap, slot), leaves' = leaves,
         \A v \in Users : oo'[v].open = oo[v].open /\ (~oo[v].open => oo'[v] = oo[v]),
         \A kind \in Margins, v \in Users :
           Margin(kind, oo'[v]) >= Margin(kind, oo[v]) - EventPart(kind, ev, v)
  PROVE  MInv'
<1> DEFINE event == heap.event
           after == heap'.event
<1>1. /\ event \in [HeapSlot -> EventType \cup {NoEvent}] /\ ev \in EventType \cup {NoEvent}
      /\ ev = event[slot]
  BY EventsNow
<1>2. after = [event EXCEPT ![slot] = NoEvent]
  BY DEF DeleteSlot
<1>3. oo' \in Accounts
  BY AccountsNext
<1> HIDE DEF event, after
<1>4. ASSUME NEW kind \in Counted, NEW v \in Users
      PROVE  Spare(kind, oo', leaves', heap'.event, v) >= 0
  <2>1. kind \in Margins /\ Spare(kind, oo, leaves, event, v) >= 0
    BY CountedIs DEF MInv, event
  <2>2. EventSum(kind, after, v)
          = EventSum(kind, event, v) - EventPart(kind, event[slot], v) + EventPart(kind, NoEvent, v)
    <3> DEFINE none == NoEvent
    <3>1. none \in EventType \cup {NoEvent} /\ after = [event EXCEPT ![slot] = none]
      BY <1>2
    <3> HIDE DEF none
    <3>2. EventSum(kind, after, v)
            = EventSum(kind, event, v) - EventPart(kind, event[slot], v) + EventPart(kind, none, v)
      BY <1>1, <3>1, EventSumSet, ZenonT(30)
    <3> QED
      BY <3>2 DEF none
  <2>3. EventPart(kind, NoEvent, v) = 0
    BY DEF EventPart
  <2>4. EventPart(kind, ev, v) \in Nat
    BY <1>1, EventPartNat
  <2>5. /\ Spare(kind, oo, leaves, event, v)
             = Margin(kind, oo[v]) - (LeafSum(kind, leaves, v) + EventSum(kind, event, v))
        /\ Margin(kind, oo[v]) \in Int /\ LeafSum(kind, leaves, v) \in Nat
        /\ EventSum(kind, event, v) \in Nat
    BY SpareNow DEF event
  <2>6. Margin(kind, oo'[v]) \in Int
    BY <1>3, MarginInt DEF Accounts
  <2>7. Spare(kind, oo', leaves', after, v)
          = Margin(kind, oo'[v]) - (LeafSum(kind, leaves, v) + EventSum(kind, after, v))
    BY DEF Spare
  <2>8. Margin(kind, oo'[v]) >= Margin(kind, oo[v]) - EventPart(kind, ev, v)
    BY <2>1
  <2>9. Spare(kind, oo', leaves', after, v) >= 0
    BY <1>1, <2>1, <2>2, <2>3, <2>4, <2>5, <2>6, <2>7, <2>8
  <2> QED
    BY <2>9 DEF after
<1>5. Flat(oo')
  BY DEF MInv, Flat
<1> QED
  BY <1>4, <1>5 DEF MInv, Flat

\* The margin that the part of a match is taken off.
LEMMA PartIs ==
  ASSUME NEW ev \in EventType, ev # NoEvent, ev.type # "Out", NEW v
  PROVE  /\ \A kind \in Margins : EventPart(kind, ev, v) \in Nat
         /\ Owes(ev, "Bid", v) => EventPart("quote", ev, v) = ev.qty * ev.price
         /\ Owes(ev, "Ask", v) => EventPart("asks", ev, v) = ev.qty
<1>1. \A kind \in Margins : EventPart(kind, ev, v) \in Nat
  BY EventPartNat
<1>2. Owes(ev, "Bid", v) => EventPart("quote", ev, v) = ev.qty * ev.price
  BY DEF EventPart, SideOf, Worth
<1>3. Owes(ev, "Ask", v) => EventPart("asks", ev, v) = ev.qty
  BY DEF EventPart, SideOf, Worth
<1> QED
  BY <1>1, <1>2, <1>3

\* Two accounts that hand over no more than their parts of a match.
LEMMA MarginsTaken ==
  ASSUME NEW a \in AccountType, NEW x, NEW lots \in Nat, NEW quote \in Nat,
         x.bids_base_lots = a.bids_base_lots,
         x.asks_base_lots = a.asks_base_lots - lots,
         x.bids_quote_lots = a.bids_quote_lots - quote,
         NEW asksPart, NEW quotePart, NEW lotsPart,
         asksPart \in Nat, quotePart \in Nat, lotsPart \in Nat,
         lots <= asksPart, quote <= quotePart
  PROVE  /\ Margin("asks", x) >= Margin("asks", a) - asksPart
         /\ Margin("quote", x) >= Margin("quote", a) - quotePart
         /\ Margin("lots", x) >= Margin("lots", a) - lotsPart
<1>1. a.bids_base_lots \in Int /\ a.asks_base_lots \in Int /\ a.bids_quote_lots \in Int
  BY DEF AccountType
<1> QED
  BY <1>1 DEF Margin

LEMMA PartTaken ==
  ASSUME NEW ev \in EventType, ev # NoEvent, ev.type # "Out", NEW v \in Users,
         NEW a \in AccountType, NEW x, NEW lots \in Nat, NEW quote \in Nat,
         x.bids_base_lots = a.bids_base_lots,
         x.asks_base_lots = a.asks_base_lots - lots,
         x.bids_quote_lots = a.bids_quote_lots - quote,
         lots = 0 \/ (Owes(ev, "Ask", v) /\ lots <= ev.qty),
         quote = 0 \/ (Owes(ev, "Bid", v) /\ quote <= ev.qty * ev.price)
  PROVE  \A kind \in Margins : Margin(kind, x) >= Margin(kind, a) - EventPart(kind, ev, v)
<1> DEFINE asksPart == EventPart("asks", ev, v)
           quotePart == EventPart("quote", ev, v)
           lotsPart == EventPart("lots", ev, v)
           worth == ev.qty * ev.price
<1>1. /\ asksPart \in Nat /\ quotePart \in Nat /\ lotsPart \in Nat
      /\ Owes(ev, "Bid", v) => quotePart = worth
      /\ Owes(ev, "Ask", v) => asksPart = ev.qty
  BY PartIs DEF Margins
<1>2. quote = 0 \/ (Owes(ev, "Bid", v) /\ quote <= worth)
  OBVIOUS
<1> HIDE DEF asksPart, quotePart, lotsPart, worth
<1>3. lots <= asksPart /\ quote <= quotePart
  BY <1>1, <1>2
<1>4. /\ Margin("asks", x) >= Margin("asks", a) - asksPart
      /\ Margin("quote", x) >= Margin("quote", a) - quotePart
      /\ Margin("lots", x) >= Margin("lots", a) - lotsPart
  BY <1>1, <1>3, MarginsTaken
<1> QED
  BY <1>4 DEF Margins, asksPart, quotePart, lotsPart

LEMMA FillOwed ==
  ASSUME NEW ev \in EventType, ev.type = "Fill"
  PROVE  Owes(ev, "Bid", Buyer(ev)) /\ Owes(ev, "Ask", Seller(ev))
<1>1. ev.taker_side \in Side
  BY DEF EventType
<1> QED
  BY <1>1 DEF Owes, Buyer, Seller, Side

LEMMA SettleFillMargins ==
  ASSUME IInv, MInv, IInv', NEW slot \in HeapSlot, SettleFill(slot)
  PROVE  MInv'
<1> DEFINE ev == heap.event[slot]
           buyer == Buyer(ev)
           seller == Seller(ev)
           quote == QuoteAmount(ev)
           base == BaseAmount(ev)
           lots == ev.qty * ev.price
           qty == ev.qty
           a == oo[buyer]
           b == oo[seller]
           x1 == a.bids_quote_lots - lots
           x2 == FreeLeft(a.quote_free_native, AfterMargin(quote))
           x3 == a.base_free_native + base
           y1 == b.asks_base_lots - qty
           y2 == FreeLeft(b.base_free_native, AfterMargin(base))
           y3 == b.quote_free_native + quote
           x == [a EXCEPT !.bids_quote_lots = x1, !.quote_free_native = x2, !.base_free_native = x3]
           y == [b EXCEPT !.asks_base_lots = y1, !.base_free_native = y2, !.quote_free_native = y3]
<1>1. /\ buyer # seller /\ leaves' = leaves /\ ev # NoEvent /\ ev.type = "Fill"
      /\ heap' = DeleteSlot(heap, slot)
      /\ oo[buyer].open /\ oo[seller].open
      /\ oo' = [oo EXCEPT
           ![buyer].bids_quote_lots = @ - lots,
           ![buyer].quote_free_native = FreeLeft(@, AfterMargin(quote)),
           ![buyer].base_free_native = @ + base,
           ![seller].asks_base_lots = @ - qty,
           ![seller].base_free_native = FreeLeft(@, AfterMargin(base)),
           ![seller].quote_free_native = @ + quote]
  BY Zenon DEF SettleFill
<1>2. buyer \in Users /\ seller \in Users
  BY SettleFillKeeps
<1>3. oo \in Accounts
  BY EventsNow
<1>4. /\ ev \in EventType /\ lots \in Nat /\ qty \in Nat
      /\ Owes(ev, "Bid", buyer) /\ Owes(ev, "Ask", seller)
  BY <1>1, PendingIs, FillOwed
<1>5. ev = heap.event[slot] /\ lots = ev.qty * ev.price /\ qty = ev.qty
  OBVIOUS
<1> HIDE DEF ev, buyer, seller, quote, base, lots, qty
<1>6. a \in AccountType /\ b \in AccountType
  BY <1>2, <1>3 DEF Accounts
<1>7. oo' = [oo EXCEPT ![buyer] = x, ![seller] = y]
  BY <1>1, <1>2, <1>3 DEF Accounts, AccountType
<1> HIDE DEF x2, x3, y2, y3
<1>8. /\ x.open = a.open /\ x.bids_base_lots = a.bids_base_lots
      /\ x.asks_base_lots = a.asks_base_lots - 0 /\ x.bids_quote_lots = a.bids_quote_lots - lots
      /\ y.open = b.open /\ y.bids_base_lots = b.bids_base_lots
      /\ y.asks_base_lots = b.asks_base_lots - qty /\ y.bids_quote_lots = b.bids_quote_lots - 0
  BY <1>4, <1>6 DEF AccountType
<1> HIDE DEF x, y, x1, y1
<1>9. /\ oo'[buyer] = x /\ oo'[seller] = y
      /\ \A v \in Users : v # buyer /\ v # seller => oo'[v] = oo[v]
  BY <1>1, <1>2, <1>3, <1>7 DEF Accounts
<1>10. \A kind \in Margins : Margin(kind, x) >= Margin(kind, a) - EventPart(kind, ev, buyer)
  <2> DEFINE none == 0
  <2>1. none \in Nat /\ x.asks_base_lots = a.asks_base_lots - none /\ none = 0 /\ lots <= ev.qty * ev.price
    BY <1>4, <1>5, <1>8
  <2> HIDE DEF none, a
  <2> QED
    BY <1>1, <1>2, <1>4, <1>6, <1>8, <2>1, PartTaken
<1>11. \A kind \in Margins : Margin(kind, y) >= Margin(kind, b) - EventPart(kind, ev, seller)
  <2> DEFINE none == 0
  <2>1. none \in Nat /\ y.bids_quote_lots = b.bids_quote_lots - none /\ none = 0 /\ qty <= ev.qty
    BY <1>4, <1>5, <1>8
  <2> HIDE DEF none, b
  <2> QED
    BY <1>1, <1>2, <1>4, <1>6, <1>8, <2>1, PartTaken
<1>12. ASSUME NEW kind \in Margins, NEW v \in Users, v # buyer, v # seller
       PROVE  Margin(kind, oo'[v]) >= Margin(kind, oo[v]) - EventPart(kind, ev, v)
  <2>1. Margin(kind, oo[v]) \in Int
    BY <1>3, MarginInt DEF Accounts
  <2>2. EventPart(kind, ev, v) \in Nat
    BY <1>4, EventPartNat
  <2> QED
    BY <1>9, <1>12, <2>1, <2>2
<1>13. \A kind \in Margins, v \in Users :
         Margin(kind, oo'[v]) >= Margin(kind, oo[v]) - EventPart(kind, ev, v)
  BY <1>9, <1>10, <1>11, <1>12
<1>14. \A v \in Users : oo'[v].open = oo[v].open /\ (~oo[v].open => oo'[v] = oo[v])
  BY <1>1, <1>8, <1>9
<1> QED
  BY <1>1, <1>5, <1>13, <1>14, HeapSettles

LEMMA DivisionAtMost ==
  ASSUME NEW n \in Nat, NEW d \in Nat \ {0}, NEW k \in Nat, n <= k * d
  PROVE  n \div d \in Nat /\ n \div d <= k
<1> DEFINE q == n \div d
<1>1. q \in Nat
  BY DivisionNat
<1>2. q * d <= n
  BY Division
<1> HIDE DEF q
<1>3. ASSUME k + 1 <= q PROVE FALSE
  <2>1. d * (k + 1) <= d * q
    BY <1>1, <1>3, ProductMonotonic
  <2>2. d * (k + 1) = k * d + d /\ d * q = q * d
    BY <1>1
  <2> DEFINE x == k * d
             y == q * d
  <2>3. x \in Nat /\ y \in Nat
    BY <1>1, ProductNat
  <2>4. x + d <= y /\ y <= n /\ n <= x
    BY <1>2, <2>1, <2>2
  <2> HIDE DEF x, y
  <2> QED
    BY <2>3, <2>4
<1>4. q <= k
  BY <1>1, <1>3
<1> QED
  BY <1>1, <1>4 DEF q

LEMMA FinalizeMarketMargins ==
  ASSUME IInv, MInv, IInv', NEW slot \in HeapSlot,
         FinalizeMarketOn(slot, heap.event[slot].maker)
  PROVE  MInv'
<1> DEFINE ev == heap.event[slot]
           maker == ev.maker
           makerSells == ev.taker_side = "Bid"
           quote == QuoteAmount(ev)
           base == BaseAmount(ev)
           lots == IF makerSells THEN AfterMargin(base) \div BaseLotSize ELSE ev.qty * ev.price
           a == oo[maker]
           taken == IF makerSells THEN lots ELSE 0
           spent == IF makerSells THEN 0 ELSE lots
           x1 == IF makerSells THEN a.asks_base_lots - lots ELSE a.asks_base_lots
           x2 == IF makerSells THEN FreeLeft(a.base_free_native, AfterMargin(base))
                 ELSE a.base_free_native
           x3 == IF makerSells THEN a.bids_quote_lots ELSE a.bids_quote_lots - lots
           x4 == IF makerSells THEN a.quote_free_native
                 ELSE FreeLeft(a.quote_free_native, AfterMargin(quote))
           x == [a EXCEPT !.asks_base_lots = x1, !.base_free_native = x2,
                          !.bids_quote_lots = x3, !.quote_free_native = x4]
<1>1. /\ ev # NoEvent /\ ev.type = "FillDirect" /\ leaves' = leaves
      /\ heap' = DeleteSlot(heap, slot) /\ oo[maker].open
      /\ oo' = IF makerSells
               THEN [oo EXCEPT ![maker].asks_base_lots = @ - lots,
                               ![maker].base_free_native = FreeLeft(@, AfterMargin(base))]
               ELSE [oo EXCEPT ![maker].bids_quote_lots = @ - lots,
                               ![maker].quote_free_native = FreeLeft(@, AfterMargin(quote))]
  BY Zenon DEF FinalizeMarketOn
<1>2. /\ maker \in Users /\ ev \in EventType /\ ev.qty \in Nat \ {0} /\ ev.qty * ev.price \in Nat
      /\ base \in Nat
  BY <1>1, PendingIs
<1>3. oo \in Accounts
  BY EventsNow
<1>4. makerSells => lots \in Nat /\ lots <= ev.qty
  <2>1. base = ev.qty * BaseLotSize /\ BaseLotSize \in Nat \ {0}
    BY MarketAssumption DEF BaseAmount, MarketAssumption
  <2> DEFINE due == AfterMargin(base)
             most == ev.qty
  <2>2. due \in Nat /\ due <= most * BaseLotSize /\ most \in Nat
    BY <1>2, <2>1, AfterMarginIs
  <2> HIDE DEF due, most
  <2>3. due \div BaseLotSize \in Nat /\ due \div BaseLotSize <= most
    BY <2>1, <2>2, DivisionAtMost
  <2> QED
    BY <2>3 DEF due, most
<1>5. /\ ev = heap.event[slot] /\ (~makerSells => lots = ev.qty * ev.price)
      /\ lots \in Nat /\ taken \in Nat /\ spent \in Nat
  BY <1>2, <1>4
<1>6. /\ Owes(ev, "Ask", maker) \/ ~makerSells
      /\ Owes(ev, "Bid", maker) \/ makerSells
  <2>1. ev.taker_side \in Side
    BY <1>1, <1>2 DEF EventType
  <2> QED
    BY <2>1 DEF Owes, Side
<1> HIDE DEF ev, maker, makerSells, quote, base, lots
<1>7. a \in AccountType
  BY <1>2, <1>3 DEF Accounts
<1>8. oo' = [oo EXCEPT ![maker] = x]
  BY <1>1, <1>2, <1>3 DEF Accounts, AccountType
<1> HIDE DEF x2, x4
<1>9. /\ x.open = a.open /\ x.bids_base_lots = a.bids_base_lots
      /\ x.asks_base_lots = a.asks_base_lots - taken
      /\ x.bids_quote_lots = a.bids_quote_lots - spent
  BY <1>5, <1>7 DEF AccountType
<1> HIDE DEF x, x1, x3
<1>10. oo'[maker] = x /\ \A v \in Users : v # maker => oo'[v] = oo[v]
  BY <1>2, <1>3, <1>8 DEF Accounts
<1>11. /\ taken = 0 \/ (Owes(ev, "Ask", maker) /\ taken <= ev.qty)
       /\ spent = 0 \/ (Owes(ev, "Bid", maker) /\ spent <= ev.qty * ev.price)
  BY <1>4, <1>5, <1>6
<1> HIDE DEF taken, spent
<1>12. \A kind \in Margins : Margin(kind, x) >= Margin(kind, a) - EventPart(kind, ev, maker)
  <2>1. ev.type # "Out" /\ oo[maker] = a
    BY <1>1
  <2> HIDE DEF a
  <2> QED
    BY <1>1, <1>2, <1>5, <1>7, <1>9, <1>11, <2>1, PartTaken
<1>13. ASSUME NEW kind \in Margins, NEW v \in Users, v # maker
       PROVE  Margin(kind, oo'[v]) >= Margin(kind, oo[v]) - EventPart(kind, ev, v)
  <2>1. Margin(kind, oo[v]) \in Int
    BY <1>3, MarginInt DEF Accounts
  <2>2. EventPart(kind, ev, v) \in Nat
    BY <1>2, EventPartNat
  <2> QED
    BY <1>10, <1>13, <2>1, <2>2
<1>14. \A kind \in Margins, v \in Users :
         Margin(kind, oo'[v]) >= Margin(kind, oo[v]) - EventPart(kind, ev, v)
  BY <1>10, <1>12, <1>13
<1>15. \A v \in Users : oo'[v].open = oo[v].open /\ (~oo[v].open => oo'[v] = oo[v])
  BY <1>1, <1>9, <1>10
<1> QED
  BY <1>1, <1>5, <1>14, <1>15, HeapSettles

LEMMA FinalizeOutMargins ==
  ASSUME IInv, MInv, IInv', NEW slot \in HeapSlot, FinalizeOut(slot)
  PROVE  MInv'
<1> DEFINE ev == heap.event[slot]
<1>1. /\ heap' = DeleteSlot(heap, slot) /\ leaves' = leaves /\ oo' = oo
      /\ ev = heap.event[slot]
  BY DEF FinalizeOut
<1>2. ev \in EventType \cup {NoEvent} /\ oo \in Accounts
  BY EventsNow
<1> HIDE DEF ev
<1>3. ASSUME NEW kind \in Margins, NEW v \in Users
      PROVE  Margin(kind, oo'[v]) >= Margin(kind, oo[v]) - EventPart(kind, ev, v)
  <2>1. Margin(kind, oo[v]) \in Int
    BY <1>2, MarginInt DEF Accounts
  <2>2. EventPart(kind, ev, v) \in Nat
    BY <1>2, EventPartNat
  <2> QED
    BY <1>1, <2>1, <2>2
<1> QED
  BY <1>1, <1>3, HeapSettles

\* What a penalty takes from an account is no more than the match it removes
\* counted for.
PenaltyFits(slot) ==
  \A kind \in Margins, v \in Users :
    Margin(kind, oo'[v]) >= Margin(kind, oo[v]) - EventPart(kind, heap.event[slot], v)

LEMMA PenaltyMargins ==
  ASSUME IInv, MInv, IInv', NEW slot \in HeapSlot, NEW side \in Side,
         CancelWithPenalty(slot, side), PenaltyFits(slot)
  PROVE  MInv'
<1> DEFINE ev == heap.event[slot]
           amount == ev.qty * ev.price
           owner == ev.taker
           cpty == ev.maker
           bid == side = "Bid"
           ownerFree == IF bid THEN oo[owner].quote_free_native ELSE oo[owner].base_free_native
           cptyFree == IF bid THEN oo[cpty].base_free_native ELSE oo[cpty].quote_free_native
           pays == amount - ownerFree
           penalty == (amount - cptyFree) \div MarginDivisor
           a == oo[owner]
           b == oo[cpty]
           x1 == IF bid THEN a.quote_free_native + pays ELSE a.quote_free_native + penalty
           x2 == IF bid THEN a.base_free_native + penalty ELSE a.base_free_native + pays
           y1 == IF bid THEN b.asks_base_lots - penalty ELSE b.asks_base_lots
           y2 == IF bid THEN b.bids_quote_lots ELSE b.bids_quote_lots - penalty
           x == [a EXCEPT !.quote_free_native = x1, !.base_free_native = x2]
           y == [b EXCEPT !.asks_base_lots = y1, !.bids_quote_lots = y2]
<1>1. /\ ev # NoEvent /\ ev.type # "Out" /\ owner # cpty /\ leaves' = leaves
      /\ oo[owner].open /\ oo[cpty].open /\ heap' = DeleteSlot(heap, slot)
      /\ oo' = IF bid
               THEN [oo EXCEPT ![owner].quote_free_native = @ + pays,
                               ![owner].base_free_native = @ + penalty,
                               ![cpty].asks_base_lots = @ - penalty]
               ELSE [oo EXCEPT ![owner].base_free_native = @ + pays,
                               ![owner].quote_free_native = @ + penalty,
                               ![cpty].bids_quote_lots = @ - penalty]
  BY Zenon DEF CancelWithPenalty
<1>2. owner \in Users /\ cpty \in Users
  BY <1>1, PendingIs
<1>3. oo \in Accounts
  BY EventsNow
<1>4. /\ ev = heap.event[slot]
      /\ \A kind \in Margins, v \in Users :
           Margin(kind, oo'[v]) >= Margin(kind, oo[v]) - EventPart(kind, ev, v)
  BY DEF PenaltyFits
<1> HIDE DEF ev, amount, owner, cpty, ownerFree, cptyFree, pays, penalty, bid
<1>5. a \in AccountType /\ b \in AccountType
  BY <1>2, <1>3 DEF Accounts
<1>6. oo' = [oo EXCEPT ![owner] = x, ![cpty] = y]
  BY <1>1, <1>2, <1>3 DEF Accounts, AccountType
<1> HIDE DEF x1, x2, y1, y2
<1>7. x.open = a.open /\ y.open = b.open
  BY <1>5 DEF AccountType
<1> HIDE DEF x, y
<1>8. /\ oo'[owner] = x /\ oo'[cpty] = y
      /\ \A v \in Users : v # owner /\ v # cpty => oo'[v] = oo[v]
  BY <1>1, <1>2, <1>3, <1>6 DEF Accounts
<1>9. \A v \in Users : oo'[v].open = oo[v].open /\ (~oo[v].open => oo'[v] = oo[v])
  BY <1>1, <1>7, <1>8
<1> QED
  BY <1>1, <1>4, <1>9, HeapSettles

\* In every step that takes a penalty.
Penalizes(slot) == \E side \in Side : CancelWithPenalty(slot, side)
PenaltyStepFits == \A slot \in HeapSlot : Penalizes(slot) => PenaltyFits(slot)
\* atomic_finalize_market is passed the open orders account of the match's maker.
MakerPassed ==
  \A slot \in HeapSlot : FinalizeMarket(slot) => FinalizeMarketOn(slot, heap.event[slot].maker)

LEMMA FinalizeMargins ==
  ASSUME IInv, MInv, IInv', NEW slot \in HeapSlot, Finalize(slot), PenaltyStepFits, MakerPassed
  PROVE  MInv'
<1>1. CASE FinalizeMatch(slot) \/ FinalizeMatchDirect(slot)
  <2>1. SettleFill(slot)
    BY <1>1, Zenon DEF FinalizeMatch, FinalizeMatchDirect
  <2> QED
    BY <2>1, SettleFillMargins
<1>2. CASE FinalizeMarket(slot)
  <2>1. FinalizeMarketOn(slot, heap.event[slot].maker)
    BY <1>2, Zenon DEF MakerPassed
  <2> QED
    BY <2>1, FinalizeMarketMargins
<1>3. CASE FinalizeOut(slot)
  BY <1>3, FinalizeOutMargins
<1>4. CASE \E side \in Side : CancelWithPenalty(slot, side)
  <2>1. PenaltyFits(slot)
    BY <1>4, Zenon DEF PenaltyStepFits, Penalizes
  <2> QED
    BY <1>4, <2>1, PenaltyMargins
<1> QED
  BY <1>1, <1>2, <1>3, <1>4, Zenon DEF Finalize

-----------------------------------------------------------------------------
(* The steps that leave the book, the heap and the margins alone.          *)

LEMMA MarginsKept ==
  ASSUME MInv, leaves' = leaves, heap' = heap,
         \A v \in Users : MarginsOf(oo'[v]) = MarginsOf(oo[v])
  PROVE  MInv'
<1>1. \A v \in Users : /\ oo'[v].open = oo[v].open
                       /\ \A kind : Margin(kind, oo'[v]) = Margin(kind, oo[v])
  BY MarginsSame
<1>2. \A kind \in Counted, v \in Users : Spare(kind, oo', leaves', heap'.event, v) >= 0
  <2>1. \A kind \in Counted, v \in Users :
          Spare(kind, oo', leaves', heap'.event, v) = Spare(kind, oo, leaves, heap.event, v)
    BY <1>1 DEF Spare
  <2> QED
    BY <2>1 DEF MInv
<1>3. Flat(oo')
  BY <1>1 DEF MInv, Flat
<1> QED
  BY <1>2, <1>3 DEF MInv, Flat

LEMMA OneKept ==
  ASSUME oo \in Accounts, NEW u \in Users, NEW x, oo' = [oo EXCEPT ![u] = x],
         MarginsOf(x) = MarginsOf(oo[u])
  PROVE  \A v \in Users : MarginsOf(oo'[v]) = MarginsOf(oo[v])
BY DEF MarginsOf, Accounts

LEMMA DepositMargins ==
  ASSUME IInv, MInv, NEW u \in Users, NEW amount \in Deposits,
         Deposit(u, amount.base, amount.quote)
  PROVE  MInv'
<1> DEFINE a == oo[u]
           base == a.base_free_native + amount.base
           quote == a.quote_free_native + amount.quote
           x == [a EXCEPT !.base_free_native = base, !.quote_free_native = quote]
<1>1. oo' = [oo EXCEPT ![u] = x] /\ leaves' = leaves /\ heap' = heap
  BY EventsNow DEF Deposit, Accounts, AccountType
<1>2. a \in AccountType /\ oo \in Accounts
  BY EventsNow DEF Accounts
<1> HIDE DEF base, quote
<1>3. MarginsOf(x) = MarginsOf(a)
  BY <1>2 DEF MarginsOf, AccountType
<1> HIDE DEF x
<1> QED
  BY <1>1, <1>2, <1>3, OneKept, MarginsKept

LEMMA SettleMargins ==
  ASSUME IInv, MInv, NEW u \in Users, NEW referrer, SettleFunds(u, referrer)
  PROVE  MInv'
<1> DEFINE a == oo[u]
           roundoff == IF MakerFee > 0 /\ a.bids_base_lots = 0 THEN a.locked_maker_fees ELSE 0
           fees == a.locked_maker_fees - roundoff
           x == [a EXCEPT !.locked_maker_fees = fees, !.base_free_native = 0,
                          !.quote_free_native = 0, !.penalty_heap_count = 0]
<1>1. /\ leaves' = leaves /\ heap' = heap
      /\ oo' = [oo EXCEPT ![u].locked_maker_fees = @ - roundoff,
                          ![u].base_free_native = 0, ![u].quote_free_native = 0,
                          ![u].penalty_heap_count = 0]
  BY Zenon DEF SettleFunds
<1>2. oo \in Accounts /\ a \in AccountType
  BY EventsNow DEF Accounts
<1>3. oo' = [oo EXCEPT ![u] = x]
  BY <1>1, <1>2 DEF Accounts, AccountType
<1> HIDE DEF fees, roundoff
<1>4. MarginsOf(x) = MarginsOf(a)
  BY <1>2 DEF MarginsOf, AccountType
<1> HIDE DEF x
<1> QED
  BY <1>1, <1>2, <1>3, <1>4, OneKept, MarginsKept

\* An account is closed with no margin left, and a new one starts with none.
LEMMA AccountLifeMargins ==
  ASSUME IInv, MInv, IInv', NEW u \in Users,
         CloseOpenOrdersAccount(u) \/ CreateOpenOrdersAccount(u)
  PROVE  MInv'
<1> DEFINE closed == [NewAccount EXCEPT !.open = FALSE]
<1>1. oo \in Accounts /\ oo' \in Accounts
  BY EventsNow, AccountsNext
<1>2. leaves' = leaves /\ heap' = heap
  BY DEF CloseOpenOrdersAccount, CreateOpenOrdersAccount
<1>3. \A kind : Margin(kind, closed) = 0 /\ Margin(kind, NewAccount) = 0
  BY DEF NewAccount, Margin
<1>4. \/ oo' = [oo EXCEPT ![u] = closed] /\ PositionIsEmpty(oo[u])
      \/ ~oo[u].open /\ oo' = [oo EXCEPT ![u] = NewAccount]
  BY DEF CloseOpenOrdersAccount, CreateOpenOrdersAccount
<1> HIDE DEF closed
<1>5. /\ oo'[u] \in {closed, NewAccount}
      /\ \A v \in Users : v # u => oo'[v] = oo[v]
  <2> HIDE DEF NewAccount
  <2> QED
    BY <1>1, <1>4 DEF Accounts
<1> HIDE DEF NewAccount
<1>6. \A kind : Margin(kind, oo'[u]) = 0
  BY <1>3, <1>5
<1>7. \A kind \in Margins : Margin(kind, oo[u]) <= 0
  BY <1>4 DEF MInv, Flat, PositionIsEmpty, Margin
<1>8. ASSUME NEW kind \in Counted, NEW v \in Users
      PROVE  Spare(kind, oo', leaves', heap'.event, v) >= 0
  <2>1. Spare(kind, oo, leaves, heap.event, v) >= 0 /\ kind \in Margins
    BY CountedIs DEF MInv
  <2>2. Margin(kind, oo'[v]) >= Margin(kind, oo[v]) /\ Margin(kind, oo'[v]) \in Int
    <3>1. Margin(kind, oo[v]) \in Int /\ Margin(kind, oo'[v]) \in Int
      BY <1>1, MarginInt DEF Accounts
    <3> QED
      BY <1>5, <1>6, <1>7, <2>1, <3>1
  <2>3. /\ Spare(kind, oo, leaves, heap.event, v)
             = Margin(kind, oo[v]) - (LeafSum(kind, leaves, v) + EventSum(kind, heap.event, v))
        /\ Margin(kind, oo[v]) \in Int /\ LeafSum(kind, leaves, v) \in Nat
        /\ EventSum(kind, heap.event, v) \in Nat
    BY SpareNow
  <2>4. Spare(kind, oo', leaves', heap'.event, v)
          = Margin(kind, oo'[v]) - (LeafSum(kind, leaves, v) + EventSum(kind, heap.event, v))
    BY <1>2 DEF Spare
  <2> QED
    BY <2>1, <2>2, <2>3, <2>4
<1>9. Flat(oo')
  <2> SUFFICES ASSUME NEW kind \in Margins, NEW v \in Users, ~oo'[v].open
               PROVE  Margin(kind, oo'[v]) <= 0
    BY DEF Flat
  <2>1. CASE v = u
    BY <1>6, <2>1
  <2>2. CASE v # u
    BY <1>5, <2>2 DEF MInv, Flat
  <2> QED
    BY <2>1, <2>2
<1> QED
  BY <1>8, <1>9 DEF MInv, Flat

LEMMA IdleMargins ==
  ASSUME MInv, leaves' = leaves, oo' = oo, heap' = heap
  PROVE  MInv'
BY MarginsKept

-----------------------------------------------------------------------------
(* Every step.                                                             *)

LEMMA AccountMargins ==
  ASSUME IInv, HInv, MInv, NEW u \in Users, oo[u].open, WithAccount(u)
  PROVE  MInv'
<1>1. CASE \E order \in Orders, remaining \in RemainingSets : PlaceOrder(u, order, remaining)
  BY <1>1, PlaceOrderFirm
<1>2. CASE \E slot \in OrderSlot, expected \in EditSizes, order \in Orders,
              remaining \in RemainingSets : EditOrder(u, slot, expected, order, remaining)
  BY <1>2, EditOrderFirm
<1>3. CASE \E batch \in Batches, remaining \in RemainingSets :
             CancelAndPlaceOrders(u, batch, remaining)
  BY <1>3, CancelAndPlaceFirm
<1>4. CASE \E slot \in OrderSlot : CancelOneOrder(u, slot)
  BY <1>4, CancelOneFirm
<1>5. CASE \E sides \in {{"Bid"}, {"Ask"}, Side}, limit \in CancelLimits :
             CancelAll(u, sides, limit)
  BY <1>5, CancelAllFirm
<1>6. CASE \E limit \in CancelLimits : PruneOrders(u, limit)
  BY <1>6, CancelAllFirm
<1>7. CASE \E amount \in Deposits : Deposit(u, amount.base, amount.quote)
  BY <1>7, DepositMargins
<1>8. CASE \E referrer \in Referrers : SettleFunds(u, referrer)
  BY <1>8, SettleMargins
<1> QED
  BY <1>1, <1>2, <1>3, <1>4, <1>5, <1>6, <1>7, <1>8, Zenon DEF WithAccount

LEMMA MarginStep ==
  ASSUME IInv, HInv, MInv, IInv', [Next]_vars, PenaltyStepFits, MakerPassed
  PROVE  MInv'
<1>1. ASSUME NEW u \in Users, Trade(u)
      PROVE  MInv'
  <2>1. CASE oo[u].open /\ WithAccount(u)
    BY <2>1, AccountMargins
  <2>2. CASE \E order \in TakeOrders, remaining \in RemainingSets, referrer \in Referrers :
               PlaceTakeOrder(u, order, remaining, referrer)
    BY <2>2, PlaceTakeFirm
  <2>3. CASE CloseOpenOrdersAccount(u) \/ CreateOpenOrdersAccount(u)
    BY <2>3, AccountLifeMargins
  <2> QED
    BY <1>1, <2>1, <2>2, <2>3, Zenon DEF Trade
<1>2. CASE \E slot \in HeapSlot : Finalize(slot)
  BY <1>2, FinalizeMargins
<1>3. CASE Administer \/ Tick \/ OracleMoves \/ UNCHANGED vars
  <2>1. leaves' = leaves /\ oo' = oo /\ heap' = heap
    BY <1>3 DEF Administer, SweepFees, SetMarketExpired, CloseMarket, Tick, OracleMoves, vars
  <2> QED
    BY <2>1, IdleMargins
<1> QED
  BY <1>1, <1>2, <1>3, Zenon DEF Next

LEMMA InitMInv == Init => MInv
<1> SUFFICES ASSUME Init
             PROVE  MInv
  OBVIOUS
<1>1. leaves = {} /\ heap = NewHeap /\ oo = [u \in Users |-> NewAccount]
  BY DEF Init
<1>2. NewAccount.open /\ \A kind : Margin(kind, NewAccount) = 0
  BY DEF NewAccount, Margin
<1>3. heap.event = [s \in HeapSlot |-> NoEvent]
  BY <1>1 DEF NewHeap
<1> HIDE DEF NewAccount
<1>4. ASSUME NEW kind, NEW v \in Users
      PROVE  LeafSum(kind, leaves, v) = 0
  BY <1>1, SumOfNothing DEF LeafSum
<1>5. ASSUME NEW kind, NEW v \in Users
      PROVE  EventSum(kind, heap.event, v) = 0
  <2> DEFINE f == EventParts(kind, heap.event, v)
  <2>1. f = [s \in HeapSlot |-> 0]
    BY <1>3 DEF EventParts, EventPart
  <2> HIDE DEF f
  <2>2. SumFunctionOnSet(f, HeapSlot) = 0
    BY <2>1, HeapSlotFinite, SumOfZeros
  <2> QED
    BY <2>2 DEF f, EventSum
<1>6. \A v \in Users : oo[v].open /\ \A kind : Margin(kind, oo[v]) = 0
  BY <1>1, <1>2
<1>7. \A kind \in Counted, v \in Users : Spare(kind, oo, leaves, heap.event, v) >= 0
  BY <1>4, <1>5, <1>6 DEF Spare
<1> QED
  BY <1>6, <1>7 DEF MInv, Flat

-----------------------------------------------------------------------------
(* What follows: an account with nothing left is named by nothing.         *)

LEMMA EventPartInSum ==
  ASSUME NEW kind, NEW u, NEW event \in [HeapSlot -> EventType \cup {NoEvent}], NEW s \in HeapSlot
  PROVE  EventPart(kind, event[s], u) <= EventSum(kind, event, u)
<1> DEFINE f == EventParts(kind, event, u)
<1>1. \A t \in HeapSlot : f[t] \in Nat /\ f[t] = EventPart(kind, event[t], u)
  BY EventPartNat DEF EventParts
<1> HIDE DEF f
<1>2. /\ IsFiniteSet(HeapSlot \ {s}) /\ IsFiniteSet(HeapSlot) /\ \A t \in HeapSlot : f[t] \in Int
      /\ \A t \in HeapSlot \ {s} : f[t] \in Nat
  BY <1>1, HeapSlotFinite, FS_RemoveElement
<1>3. SumFunctionOnSet(f, HeapSlot) = f[s] + SumFunctionOnSet(f, HeapSlot \ {s})
  BY <1>2, SumOne
<1>4. SumFunctionOnSet(f, HeapSlot \ {s}) \in Nat
  BY <1>2, SumNat
<1>5. f[s] <= SumFunctionOnSet(f, HeapSlot)
  BY <1>1, <1>3, <1>4
<1> QED
  BY <1>1, <1>5 DEF EventSum, f

LEMMA ClosedHasNoParts ==
  ASSUME IInv, MInv, NEW u \in Users, ~oo[u].open, NEW kind \in {"lots", "asks"}
  PROVE  /\ \A l \in leaves : LeafPart(kind, l, u) = 0
         /\ \A s \in HeapSlot : EventPart(kind, heap.event[s], u) = 0
<1>1. kind \in Counted /\ kind \in Margins
  BY DEF Counted, Margins
<1>2. Margin(kind, oo[u]) <= 0 /\ Spare(kind, oo, leaves, heap.event, u) >= 0
  BY <1>1 DEF MInv, Flat
<1>3. /\ Spare(kind, oo, leaves, heap.event, u)
           = Margin(kind, oo[u]) - (LeafSum(kind, leaves, u) + EventSum(kind, heap.event, u))
      /\ Margin(kind, oo[u]) \in Int /\ LeafSum(kind, leaves, u) \in Nat
      /\ EventSum(kind, heap.event, u) \in Nat
  BY SpareNow
<1>4. LeafSum(kind, leaves, u) = 0 /\ EventSum(kind, heap.event, u) = 0
  BY <1>2, <1>3
<1>5. /\ heap.event \in [HeapSlot -> EventType \cup {NoEvent}]
      /\ leaves \in SUBSET Leaves /\ IsFiniteSet(leaves)
  BY EventsNow
<1>6. ASSUME NEW l \in leaves
      PROVE  LeafPart(kind, l, u) = 0
  <2>1. /\ LeafSum(kind, leaves, u) = LeafSum(kind, leaves \ {l}, u) + LeafPart(kind, l, u)
        /\ LeafSum(kind, leaves \ {l}, u) \in Nat /\ LeafPart(kind, l, u) \in Nat
    BY <1>5, LeafSumWithout
  <2> QED
    BY <1>4, <2>1
<1>7. ASSUME NEW s \in HeapSlot
      PROVE  EventPart(kind, heap.event[s], u) = 0
  <2>1. EventPart(kind, heap.event[s], u) <= EventSum(kind, heap.event, u)
    BY <1>5, EventPartInSum
  <2>2. EventPart(kind, heap.event[s], u) \in Nat
    BY <1>5, EventPartNat
  <2> QED
    BY <1>4, <2>1, <2>2
<1> QED
  BY <1>6, <1>7

\* Every party that an event names has a part in it, of one kind or the other.
LEMMA NamedHasPart ==
  ASSUME NEW ev \in EventType, ev # NoEvent, NEW u \in Named(ev)
  PROVE  \E kind \in {"lots", "asks"} : EventPart(kind, ev, u) = ev.qty
<1>1. CASE ev.type = "Out"
  <2>1. ev.owner = u /\ ev.side \in {"Bid", "Ask"}
    BY <1>1 DEF Named, EventType, Side
  <2> QED
    BY <1>1, <2>1 DEF EventPart, SideOf
<1>2. CASE ev.type # "Out" /\ ev.maker = u
  <2>1. ev.taker_side \in {"Bid", "Ask"}
    BY <1>2 DEF EventType, Side
  <2>2. CASE ev.taker_side = "Bid"
    <3>1. Owes(ev, "Ask", u)
      BY <1>2, <2>2 DEF Owes
    <3> QED
      BY <1>2, <3>1 DEF EventPart, SideOf, Worth
  <2>3. CASE ev.taker_side = "Ask"
    <3>1. Owes(ev, "Bid", u)
      BY <1>2, <2>3 DEF Owes
    <3> QED
      BY <1>2, <3>1 DEF EventPart, SideOf, Worth
  <2> QED
    BY <2>1, <2>2, <2>3
<1>3. CASE ev.type # "Out" /\ ev.maker # u
  <2>1. ev.taker_side \in {"Bid", "Ask"} /\ ev.taker = u /\ ev.by_account
    BY <1>3 DEF EventType, Side, Named
  <2>2. CASE ev.taker_side = "Ask"
    <3>1. Owes(ev, "Ask", u)
      BY <2>1, <2>2 DEF Owes
    <3> QED
      BY <1>3, <3>1 DEF EventPart, SideOf, Worth
  <2>3. CASE ev.taker_side = "Bid"
    <3>1. Owes(ev, "Bid", u)
      BY <2>1, <2>3 DEF Owes
    <3> QED
      BY <1>3, <3>1 DEF EventPart, SideOf, Worth
  <2> QED
    BY <2>1, <2>2, <2>3
<1> QED
  BY <1>1, <1>2, <1>3

LEMMA NoOrphansFollows == IInv /\ MInv => NoOrphans
<1> SUFFICES ASSUME IInv, MInv, NEW u \in Users, ~oo[u].open
             PROVE  /\ \A l \in leaves : l.owner # u
                    /\ \A s \in HeapSlot : heap.event[s] # NoEvent => u \notin Named(heap.event[s])
  BY DEF NoOrphans
<1>1. ASSUME NEW l \in leaves
      PROVE  l.owner # u
  <2> SUFFICES ASSUME l.owner = u
               PROVE  FALSE
    OBVIOUS
  <2>1. l \in Leaves /\ l.qty \in Nat \ {0}
    BY TypesNow, LockOfNat
  <2>2. l.side \in {"Bid", "Ask"}
    BY <2>1 DEF Leaves, LeafType, Side
  <2>3. CASE l.side = "Bid"
    <3>1. LeafPart("lots", l, u) = l.qty
      BY <2>3 DEF LeafPart, SideOf, Worth
    <3> QED
      BY <2>1, <3>1, ClosedHasNoParts
  <2>4. CASE l.side = "Ask"
    <3>1. LeafPart("asks", l, u) = l.qty
      BY <2>4 DEF LeafPart, SideOf, Worth
    <3> QED
      BY <2>1, <3>1, ClosedHasNoParts
  <2> QED
    BY <2>2, <2>3, <2>4
<1>2. ASSUME NEW s \in HeapSlot, heap.event[s] # NoEvent, u \in Named(heap.event[s])
      PROVE  FALSE
  <2> DEFINE ev == heap.event[s]
  <2>1. ev \in EventType /\ ev # NoEvent /\ u \in Named(ev) /\ ev = heap.event[s]
    BY <1>2, EventsNow
  <2> HIDE DEF ev
  <2>2. ev.qty \in Nat \ {0}
    BY <2>1 DEF EventType
  <2>3. PICK kind \in {"lots", "asks"} : EventPart(kind, ev, u) = ev.qty
    BY <2>1, NamedHasPart
  <2>4. EventPart(kind, ev, u) = 0
    BY <2>1, ClosedHasNoParts
  <2> QED
    BY <2>2, <2>3, <2>4
<1> QED
  BY <1>1, <1>2

LEMMA NoOrphansNext == IInv' /\ MInv' => NoOrphans'
BY NoOrphansFollows, PTL

-----------------------------------------------------------------------------
(* What follows: the margins cover the orders and the matches.             *)

LEMMA SalesCounted ==
  ASSUME IInv, NEW u \in Users
  PROVE  SoldLots(u) <= EventSum("asks", heap.event, u) /\ SoldLots(u) \in Nat
<1> DEFINE T == SalesOf(u)
           f == [s \in T |-> heap.event[s].qty]
           g == EventParts("asks", heap.event, u)
<1>1. T \in SUBSET HeapSlot /\ heap.event \in [HeapSlot -> EventType \cup {NoEvent}]
  BY EventsNow DEF SalesOf, EventSlots
<1>2. \A s \in HeapSlot : g[s] \in Nat /\ g[s] = EventPart("asks", heap.event[s], u)
  BY <1>1, EventPartNat DEF EventParts
<1>3. ASSUME NEW s \in T
      PROVE  f[s] \in Nat /\ f[s] = g[s]
  <2> DEFINE ev == heap.event[s]
  <2>1. /\ s \in HeapSlot /\ ev # NoEvent /\ ev \in EventType
        /\ \/ ev.type = "Fill" /\ Seller(ev) = u
           \/ ev.type = "FillDirect" /\ ev.maker = u /\ ev.taker_side = "Bid"
    BY <1>1 DEF SalesOf, EventSlots
  <2>2. f[s] = ev.qty /\ g[s] = EventPart("asks", ev, u)
    BY <1>2, <2>1
  <2> HIDE DEF ev, f, g, T
  <2>3. Owes(ev, "Ask", u)
    <3>1. CASE ev.type = "Fill" /\ Seller(ev) = u
      BY <2>1, <3>1, FillOwed
    <3>2. CASE ev.type = "FillDirect" /\ ev.maker = u /\ ev.taker_side = "Bid"
      BY <3>2 DEF Owes
    <3> QED
      BY <2>1, <3>1, <3>2
  <2>4. ev.type # "Out" /\ ev.qty \in Nat
    BY <2>1 DEF EventType
  <2> QED
    BY <2>1, <2>2, <2>3, <2>4, PartIs
<1>4. SoldLots(u) = SumFunctionOnSet(f, T)
  BY DEF SoldLots, SumOver
<1>5. EventSum("asks", heap.event, u) = SumFunctionOnSet(g, HeapSlot)
  BY DEF EventSum
<1> HIDE DEF T, f, g
<1>6. SumFunctionOnSet(f, T) <= SumFunctionOnSet(g, HeapSlot)
  BY <1>1, <1>2, <1>3, HeapSlotFinite, SumOfPart
<1>7. SumFunctionOnSet(f, T) \in Nat
  <2>1. IsFiniteSet(T)
    BY <1>1, HeapSlotFinite, FS_Subset
  <2> QED
    BY <1>3, <2>1, SumNat
<1> QED
  BY <1>4, <1>5, <1>6, <1>7

LEMMA PurchasesCounted ==
  ASSUME IInv, NEW u \in Users
  PROVE  BoughtLots(u) <= EventSum("quote", heap.event, u) /\ BoughtLots(u) \in Nat
<1> DEFINE T == PurchasesOf(u)
           f == [s \in T |-> heap.event[s].qty * heap.event[s].price]
           g == EventParts("quote", heap.event, u)
<1>1. T \in SUBSET HeapSlot /\ heap.event \in [HeapSlot -> EventType \cup {NoEvent}]
  BY EventsNow DEF PurchasesOf, EventSlots
<1>2. \A s \in HeapSlot : g[s] \in Nat /\ g[s] = EventPart("quote", heap.event[s], u)
  BY <1>1, EventPartNat DEF EventParts
<1>3. ASSUME NEW s \in T
      PROVE  f[s] \in Nat /\ f[s] = g[s]
  <2> DEFINE ev == heap.event[s]
  <2>1. /\ s \in HeapSlot /\ ev # NoEvent /\ ev \in EventType
        /\ \/ ev.type = "Fill" /\ Buyer(ev) = u
           \/ ev.type = "FillDirect" /\ ev.maker = u /\ ev.taker_side = "Ask"
    BY <1>1 DEF PurchasesOf, EventSlots
  <2>2. f[s] = ev.qty * ev.price /\ g[s] = EventPart("quote", ev, u)
    BY <1>2, <2>1
  <2> HIDE DEF ev, f, g, T
  <2>3. Owes(ev, "Bid", u)
    <3>1. CASE ev.type = "Fill" /\ Buyer(ev) = u
      BY <2>1, <3>1, FillOwed
    <3>2. CASE ev.type = "FillDirect" /\ ev.maker = u /\ ev.taker_side = "Ask"
      BY <3>2 DEF Owes
    <3> QED
      BY <2>1, <3>1, <3>2
  <2>4. ev.type # "Out"
    BY <2>1 DEF EventType
  <2>5. EventPart("quote", ev, u) = ev.qty * ev.price /\ EventPart("quote", ev, u) \in Nat
    BY <2>1, <2>3, <2>4, PartIs DEF Margins
  <2> QED
    BY <2>2, <2>5
<1>4. BoughtLots(u) = SumFunctionOnSet(f, T)
  BY DEF BoughtLots, SumOver
<1>5. EventSum("quote", heap.event, u) = SumFunctionOnSet(g, HeapSlot)
  BY DEF EventSum
<1> HIDE DEF T, f, g
<1>6. SumFunctionOnSet(f, T) <= SumFunctionOnSet(g, HeapSlot)
  BY <1>1, <1>2, <1>3, HeapSlotFinite, SumOfPart
<1>7. SumFunctionOnSet(f, T) \in Nat
  <2>1. IsFiniteSet(T)
    BY <1>1, HeapSlotFinite, FS_Subset
  <2> QED
    BY <1>3, <2>1, SumNat
<1> QED
  BY <1>4, <1>5, <1>6, <1>7

\* The quantities of a user's orders on a side, whatever they are worth.
LEMMA RestingCounted ==
  ASSUME IInv, NEW u \in Users, NEW kind, NEW f,
         \A l \in RestingOf(u, SideOf(kind)) : f[l] = LeafPart(kind, l, u)
  PROVE  /\ SumFunctionOnSet(f, RestingOf(u, SideOf(kind))) <= LeafSum(kind, leaves, u)
         /\ SumFunctionOnSet(f, RestingOf(u, SideOf(kind))) \in Nat
<1> DEFINE T == RestingOf(u, SideOf(kind))
           g == LeafParts(kind, u)
<1>1. leaves \in SUBSET Leaves /\ IsFiniteSet(leaves) /\ T \in SUBSET leaves
  BY EventsNow DEF RestingOf
<1>2. \A l \in leaves : g[l] \in Nat /\ g[l] = LeafPart(kind, l, u)
  BY <1>1, LeafPartNat DEF LeafParts
<1> HIDE DEF T, g
<1>3. \A l \in T : f[l] \in Nat /\ f[l] <= g[l]
  BY <1>1, <1>2 DEF T
<1>4. SumFunctionOnSet(f, T) <= SumFunctionOnSet(g, leaves)
  BY <1>1, <1>2, <1>3, SumOfPart
<1>5. SumFunctionOnSet(f, T) \in Nat
  <2>1. IsFiniteSet(T)
    BY <1>1, FS_Subset
  <2> QED
    BY <1>3, <2>1, SumNat
<1> QED
  BY <1>4, <1>5 DEF T, g, LeafSum

\* The two halves of MarginCovers.
BaseMarginCovers ==
  \A u \in Users :
    oo[u].asks_base_lots >= SoldLots(u) + SumOver(RestingOf(u, "Ask"), LAMBDA l : l.qty)
QuoteMarginCovers ==
  \A u \in Users :
    oo[u].bids_quote_lots >=
      BoughtLots(u) + SumOver(RestingOf(u, "Bid"), LAMBDA l : l.qty * LockedAt(l))

LEMMA BaseFollows == IInv /\ MInv => BaseMarginCovers
<1> SUFFICES ASSUME IInv, MInv, NEW u \in Users
             PROVE  oo[u].asks_base_lots
                      >= SoldLots(u) + SumOver(RestingOf(u, "Ask"), LAMBDA l : l.qty)
  BY Zenon DEF BaseMarginCovers
<1> DEFINE asks == "asks"
           f == [l \in RestingOf(u, "Ask") |-> l.qty]
           resting == SumFunctionOnSet(f, RestingOf(u, "Ask"))
           sold == SoldLots(u)
<1>1. SideOf(asks) = "Ask" /\ asks \in Counted /\ Margin(asks, oo[u]) = oo[u].asks_base_lots
  BY DEF SideOf, Counted, Margins, Margin
<1>2. \A l \in RestingOf(u, SideOf(asks)) : f[l] = LeafPart(asks, l, u)
  BY <1>1 DEF LeafPart, Worth, RestingOf
<1>3. sold <= EventSum(asks, heap.event, u) /\ sold \in Nat
  BY SalesCounted
<1> HIDE DEF asks, f, sold
<1>4. resting <= LeafSum(asks, leaves, u) /\ resting \in Nat
  <2>1. /\ SumFunctionOnSet(f, RestingOf(u, SideOf(asks))) <= LeafSum(asks, leaves, u)
        /\ SumFunctionOnSet(f, RestingOf(u, SideOf(asks))) \in Nat
    BY <1>2, RestingCounted
  <2> QED
    BY <1>1, <2>1
<1>5. Spare(asks, oo, leaves, heap.event, u) >= 0
  BY <1>1 DEF MInv
<1>6. /\ Spare(asks, oo, leaves, heap.event, u)
           = Margin(asks, oo[u]) - (LeafSum(asks, leaves, u) + EventSum(asks, heap.event, u))
      /\ Margin(asks, oo[u]) \in Int /\ LeafSum(asks, leaves, u) \in Nat
      /\ EventSum(asks, heap.event, u) \in Nat
  BY SpareNow
<1>7. SumOver(RestingOf(u, "Ask"), LAMBDA l : l.qty) = resting
  BY DEF SumOver, f
<1> HIDE DEF resting
<1>8. oo[u].asks_base_lots >= sold + resting
  BY <1>1, <1>3, <1>4, <1>5, <1>6
<1> QED
  BY <1>7, <1>8 DEF sold

LEMMA QuoteFollows ==
  ASSUME PeggedBidsPost
  PROVE  IInv /\ HInv /\ MInv => QuoteMarginCovers
<1> SUFFICES ASSUME IInv, HInv, MInv, NEW u \in Users
             PROVE  oo[u].bids_quote_lots
                      >= BoughtLots(u)
                           + SumOver(RestingOf(u, "Bid"), LAMBDA l : l.qty * LockedAt(l))
  BY Zenon DEF QuoteMarginCovers
<1> DEFINE quote == "quote"
           f == [l \in RestingOf(u, "Bid") |-> l.qty * LockedAt(l)]
           resting == SumFunctionOnSet(f, RestingOf(u, "Bid"))
           bought == BoughtLots(u)
<1>1. SideOf(quote) = "Bid" /\ quote \in Counted /\ Margin(quote, oo[u]) = oo[u].bids_quote_lots
  BY DEF SideOf, Counted, Margins, Margin
<1>2. ASSUME NEW l \in RestingOf(u, SideOf(quote))
      PROVE  f[l] = LeafPart(quote, l, u)
  <2>1. l \in leaves /\ l.owner = u /\ l.side = "Bid" /\ l \in RestingOf(u, "Bid")
    BY <1>1 DEF RestingOf
  <2>2. LockedAt(l) = LockOf(l)
    BY <2>1 DEF HInv, Backed, HeldIn, SlotOf, LockedAt
  <2>3. LeafPart(quote, l, u) = l.qty * LockOf(l)
    BY <1>1, <2>1 DEF LeafPart, Worth
  <2>4. f[l] = l.qty * LockedAt(l)
    BY <2>1
  <2> QED
    BY <2>2, <2>3, <2>4
<1>3. bought <= EventSum(quote, heap.event, u) /\ bought \in Nat
  BY PurchasesCounted
<1> HIDE DEF quote, f, bought
<1>4. resting <= LeafSum(quote, leaves, u) /\ resting \in Nat
  <2>1. /\ SumFunctionOnSet(f, RestingOf(u, SideOf(quote))) <= LeafSum(quote, leaves, u)
        /\ SumFunctionOnSet(f, RestingOf(u, SideOf(quote))) \in Nat
    BY <1>2, RestingCounted
  <2> QED
    BY <1>1, <2>1
<1>5. Spare(quote, oo, leaves, heap.event, u) >= 0
  BY <1>1 DEF MInv
<1>6. /\ Spare(quote, oo, leaves, heap.event, u)
           = Margin(quote, oo[u]) - (LeafSum(quote, leaves, u) + EventSum(quote, heap.event, u))
      /\ Margin(quote, oo[u]) \in Int /\ LeafSum(quote, leaves, u) \in Nat
      /\ EventSum(quote, heap.event, u) \in Nat
  BY SpareNow
<1>7. SumOver(RestingOf(u, "Bid"), LAMBDA l : l.qty * LockedAt(l)) = resting
  BY DEF SumOver, f
<1> HIDE DEF resting
<1>8. oo[u].bids_quote_lots >= bought + resting
  BY <1>1, <1>3, <1>4, <1>5, <1>6
<1> QED
  BY <1>7, <1>8 DEF bought

LEMMA MarginFollows ==
  ASSUME PeggedBidsPost
  PROVE  IInv /\ HInv /\ MInv => MarginCovers
<1>1. BaseMarginCovers /\ QuoteMarginCovers => MarginCovers
  BY Zenon DEF BaseMarginCovers, QuoteMarginCovers, MarginCovers
<1> QED
  BY <1>1, BaseFollows, QuoteFollows

-----------------------------------------------------------------------------
(* The theorems.  cancel_with_penalty takes a hundredth of an amount, of   *)
(* the size times the price, off lots that were entered for the size, on a *)
(* side its caller names; and atomic_finalize_market takes lots off the    *)
(* account its caller passes as the maker's, which nothing ties to the     *)
(* match.  So the theorems are about the behaviours in which no penalty    *)
(* takes more than its match counted for, and the maker's own account is   *)
(* passed.                                                                 *)

PenaltiesFit == [][PenaltyStepFits]_vars
MakersPassed == [][MakerPassed]_vars

LEMMA HeldAndMarginStep ==
  IInv /\ HInv /\ MInv /\ IInv' /\ [Next]_vars /\ [PenaltyStepFits]_vars /\ [MakerPassed]_vars
    => HInv' /\ MInv'
<1> SUFFICES ASSUME IInv, HInv, MInv, IInv', [Next]_vars, [PenaltyStepFits]_vars, [MakerPassed]_vars
             PROVE  HInv' /\ MInv'
  OBVIOUS
<1>1. MInv'
  <2>1. CASE PenaltyStepFits /\ MakerPassed
    BY <2>1, MarginStep
  <2>2. CASE UNCHANGED vars
    <3>1. leaves' = leaves /\ oo' = oo /\ heap' = heap
      BY <2>2 DEF vars
    <3> QED
      BY <3>1, IdleMargins
  <2> QED
    BY <2>1, <2>2
<1>2. NoOrphans /\ NoOrphans'
  BY <1>1, NoOrphansFollows, NoOrphansNext
<1> QED
  BY <1>1, <1>2, HeldStep

(* No account ever owes more lots than it holds a margin for, of the base  *)
(* it sells and the base it buys, and holds what its orders need: the      *)
(* inductive invariant, in every behaviour whose penalties fit and whose   *)
(* makers' accounts are passed.                                            *)
THEOREM MarginInv == Spec /\ PenaltiesFit /\ MakersPassed => [](HInv /\ MInv)
BY InitHInv, InitMInv, HeldAndMarginStep, FermiInv, PTL DEF Spec, PenaltiesFit, MakersPassed

(* An account is closed only when no order on the book and no pending      *)
(* event names it (NoOrphans), although the check that closes it looks at  *)
(* the counters of the account and never at the book or the heap.          *)
THEOREM NothingOrphaned == Spec /\ PenaltiesFit /\ MakersPassed => []NoOrphans
BY MarginInv, NoOrphansFollows, FermiInv, PTL

(* So the slot of every order is held (LeafHasSlot), and the fee of every  *)
(* bid held back (FeesCoverBids), with accounts that are closed and opened *)
(* again, and no condition on when.                                        *)
THEOREM HeldThroughout == Spec /\ PenaltiesFit /\ MakersPassed => [](LeafHasSlot /\ FeesCoverBids)
BY MarginInv, HeldFollows, FermiInv, PTL

(* The base lots of the asks of an account cover all the base it still has *)
(* to deliver, on the book and in the heap: the first half of MarginCovers, *)
(* whatever the orders.                                                    *)
THEOREM BaseMarginsCover == Spec /\ PenaltiesFit /\ MakersPassed => []BaseMarginCovers
BY MarginInv, BaseFollows, FermiInv, PTL

(* Both halves (MarginCovers), if a pegged bid is never placed to take: it *)
(* enters what it takes at its price, and the fill may cost more than      *)
(* that.  So no finalization fails for want of a margin.                   *)
THEOREM MarginsCover ==
  ASSUME PeggedBidsPost
  PROVE  Spec /\ PenaltiesFit /\ MakersPassed => []MarginCovers
BY MarginInv, MarginFollows, FermiInv, PTL

(* Whoever may pass no accounts but the parties' own passes the maker's:   *)
(* MakersPassed holds of such a market.                                    *)
THEOREM OwnAccountsPassed ==
  ASSUME \A u \in Users : PassedFor[u] = {u}
  PROVE  Spec => MakersPassed
<1>1. ASSUME IInv
      PROVE  MakerPassed
  <2> SUFFICES ASSUME NEW slot \in HeapSlot, NEW account \in Users, FinalizeMarketOn(slot, account)
               PROVE  FinalizeMarketOn(slot, heap.event[slot].maker)
    BY <1>1, Zenon DEF MakerPassed, FinalizeMarket
  <2>1. /\ heap.event[slot] # NoEvent /\ heap.event[slot].type = "FillDirect"
        /\ account \in PassedFor[heap.event[slot].maker]
    BY Zenon DEF FinalizeMarketOn
  <2>2. heap.event[slot].maker \in Users
    BY <1>1, <2>1, PendingIs
  <2>3. account = heap.event[slot].maker
    BY <2>1, <2>2
  <2> QED
    BY <2>3
<1>2. IInv => MakerPassed
  BY <1>1
<1> QED
  BY <1>2, FermiInv, PTL DEF MakersPassed

(* A penalty fits when the taker names the side it took on and, against a  *)
(* maker that sells, the price is at most MarginDivisor quote lots, so that *)
(* a hundredth of the amount is no more than the size.                     *)
THEOREM PenaltyOnItsSide ==
  ASSUME IInv, NEW slot \in HeapSlot, NEW side \in Side, CancelWithPenalty(slot, side),
         side = heap.event[slot].taker_side,
         side = "Ask" \/ heap.event[slot].price <= MarginDivisor
  PROVE  PenaltyFits(slot)
<1> DEFINE ev == heap.event[slot]
           amount == ev.qty * ev.price
           owner == ev.taker
           cpty == ev.maker
           bid == side = "Bid"
           ownerFree == IF bid THEN oo[owner].quote_free_native ELSE oo[owner].base_free_native
           cptyFree == IF bid THEN oo[cpty].base_free_native ELSE oo[cpty].quote_free_native
           pays == amount - ownerFree
           penalty == (amount - cptyFree) \div MarginDivisor
           lots == IF bid THEN penalty ELSE 0
           quote == IF bid THEN 0 ELSE penalty
           a == oo[owner]
           b == oo[cpty]
           x1 == IF bid THEN a.quote_free_native + pays ELSE a.quote_free_native + penalty
           x2 == IF bid THEN a.base_free_native + penalty ELSE a.base_free_native + pays
           y1 == IF bid THEN b.asks_base_lots - penalty ELSE b.asks_base_lots
           y2 == IF bid THEN b.bids_quote_lots ELSE b.bids_quote_lots - penalty
           x == [a EXCEPT !.quote_free_native = x1, !.base_free_native = x2]
           y == [b EXCEPT !.asks_base_lots = y1, !.bids_quote_lots = y2]
<1>1. /\ ev # NoEvent /\ ev.type # "Out" /\ owner # cpty /\ cptyFree < amount
      /\ oo' = IF bid
               THEN [oo EXCEPT ![owner].quote_free_native = @ + pays,
                               ![owner].base_free_native = @ + penalty,
                               ![cpty].asks_base_lots = @ - penalty]
               ELSE [oo EXCEPT ![owner].base_free_native = @ + pays,
                               ![owner].quote_free_native = @ + penalty,
                               ![cpty].bids_quote_lots = @ - penalty]
  BY Zenon DEF CancelWithPenalty
<1>2. /\ owner \in Users /\ cpty \in Users /\ ev \in EventType
      /\ ev.qty \in Nat /\ ev.price \in Nat /\ amount \in Nat
  <2>1. owner \in Users /\ cpty \in Users /\ ev \in EventType
    BY <1>1, PendingIs
  <2>2. ev.qty \in Nat /\ ev.price \in Nat
    BY <1>1, <2>1 DEF EventType
  <2> QED
    BY <2>1, <2>2, ProductNat
<1>3. oo \in Accounts
  BY EventsNow
<1>4. a \in AccountType /\ b \in AccountType /\ cptyFree \in Nat
  BY <1>2, <1>3 DEF Accounts, AccountType
<1>5. penalty \in Nat /\ penalty <= amount /\ (bid => penalty <= ev.qty)
  <2> DEFINE due == amount - cptyFree
             most == ev.qty
  <2>1. due \in Nat /\ due <= amount
    <3>1. cptyFree < amount
      BY <1>1, Zenon
    <3> HIDE DEF amount, cptyFree
    <3> QED
      BY <1>2, <1>4, <3>1
  <2>2. MarginDivisor \in Nat \ {0} /\ most \in Nat
    BY <1>2, FermiAssumption
  <2>3. due <= amount * MarginDivisor
    <3>1. amount * 1 <= amount * MarginDivisor
      <4>1. 1 \in Nat /\ 1 <= MarginDivisor /\ MarginDivisor \in Nat
        BY <2>2
      <4> HIDE DEF amount
      <4> QED
        BY <1>2, <4>1, ProductMonotonic
    <3>2. amount * MarginDivisor \in Nat
      BY <1>2, <2>2, ProductNat
    <3>3. amount * 1 = amount
      BY <1>2
    <3> DEFINE z == amount * MarginDivisor
    <3> HIDE DEF amount, due, z
    <3> QED
      BY <1>2, <2>1, <3>1, <3>2, <3>3 DEF z
  <2>4. bid => due <= most * MarginDivisor
    <3> HAVE bid
    <3>1. ev.price <= MarginDivisor
      OBVIOUS
    <3>2. most * ev.price <= most * MarginDivisor
      BY <1>2, <2>2, <3>1, ProductMonotonic
    <3>3. most * MarginDivisor \in Nat /\ most * ev.price = amount
      BY <2>2, ProductNat
    <3> DEFINE z == most * MarginDivisor
    <3> HIDE DEF amount, due, most, z
    <3> QED
      BY <1>2, <2>1, <3>2, <3>3 DEF z
  <2>5. penalty = due \div MarginDivisor
    OBVIOUS
  <2> HIDE DEF penalty, due, amount, most
  <2>6. due \div MarginDivisor \in Nat /\ due \div MarginDivisor <= amount
    BY <1>2, <2>1, <2>2, <2>3, DivisionAtMost
  <2>7. bid => due \div MarginDivisor <= most
    <3> HAVE bid
    <3> QED
      BY <2>1, <2>2, <2>4, DivisionAtMost
  <2> QED
    BY <2>5, <2>6, <2>7 DEF most
<1>6. /\ Owes(ev, "Ask", cpty) \/ ~bid
      /\ Owes(ev, "Bid", cpty) \/ bid
  <2>1. ev.taker_side = side /\ side \in {"Bid", "Ask"}
    BY DEF Side
  <2> QED
    BY <2>1 DEF Owes
<1>7. /\ lots \in Nat /\ quote \in Nat
      /\ lots = 0 \/ (Owes(ev, "Ask", cpty) /\ lots <= ev.qty)
      /\ quote = 0 \/ (Owes(ev, "Bid", cpty) /\ quote <= ev.qty * ev.price)
  BY <1>5, <1>6
<1>8. PenaltyFits(slot) = \A kind \in Margins, v \in Users :
        Margin(kind, oo'[v]) >= Margin(kind, oo[v]) - EventPart(kind, ev, v)
  BY DEF PenaltyFits
<1> HIDE DEF ev, amount, owner, cpty, ownerFree, cptyFree, pays, penalty, bid
<1>9. oo' = [oo EXCEPT ![owner] = x, ![cpty] = y]
  BY <1>1, <1>2, <1>3 DEF Accounts, AccountType
<1> HIDE DEF x1, x2
<1>10. /\ MarginsOf(x) = MarginsOf(a)
       /\ y.bids_base_lots = b.bids_base_lots /\ y.asks_base_lots = b.asks_base_lots - lots
       /\ y.bids_quote_lots = b.bids_quote_lots - quote
  BY <1>4, <1>5 DEF AccountType, MarginsOf
<1> HIDE DEF x, y, y1, y2, lots, quote
<1>11. /\ oo'[owner] = x /\ oo'[cpty] = y
       /\ \A v \in Users : v # owner /\ v # cpty => oo'[v] = oo[v]
  BY <1>1, <1>2, <1>3, <1>9 DEF Accounts
<1>12. \A kind \in Margins : Margin(kind, y) >= Margin(kind, b) - EventPart(kind, ev, cpty)
  <2> HIDE DEF b
  <2> QED
    BY <1>1, <1>2, <1>4, <1>7, <1>10, PartTaken
<1>13. ASSUME NEW kind \in Margins, NEW v \in Users, v # cpty
       PROVE  Margin(kind, oo'[v]) >= Margin(kind, oo[v]) - EventPart(kind, ev, v)
  <2>1. Margin(kind, oo'[v]) = Margin(kind, oo[v])
    BY <1>10, <1>11, <1>13, MarginsSame
  <2>2. Margin(kind, oo[v]) \in Int
    BY <1>3, MarginInt DEF Accounts
  <2>3. EventPart(kind, ev, v) \in Nat
    BY <1>2, EventPartNat
  <2> QED
    BY <2>1, <2>2, <2>3
<1> QED
  BY <1>8, <1>11, <1>12, <1>13
=============================================================================

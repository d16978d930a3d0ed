------------------------------ MODULE FermiProofs ------------------------------
(***************************************************************************)
(* The invariants of one market that hold whatever the values of the       *)
(* constants are, and what no instruction does to the tokens.              *)
(***************************************************************************)
EXTENDS BookProofs

MarketType ==
  [seq_num : 0..MaxOrders, base_deposit_total : Nat, quote_deposit_total : Nat,
   fees_available : Nat, time_expiry : {-1, 0}, closed : BOOLEAN]
Balances == [Users -> Balance]

(* The inductive invariant: the book is well-formed, its orders are those  *)
(* that have been numbered, and no balance is below zero.                  *)
TokensTyped == wallet \in Balances /\ delegated \in Balances /\ vault \in Balance
IInv ==
  /\ Book \in Fresh(market.seq_num)
  /\ market \in MarketType
  /\ TokensTyped
  /\ now \in 1..MaxTime /\ oracle \in Oracles

\* No instruction makes or loses tokens, as one step.
Kept ==
  /\ Tokens("base")' = Tokens("base")
  /\ \/ Tokens("quote")' = Tokens("quote")
     \/ /\ market'.fees_available = 0
        /\ Tokens("quote")' = Tokens("quote") - market.fees_available
\* What each step is shown to do.
Good == IInv' /\ Kept

-----------------------------------------------------------------------------
(* The book in the state.                                                  *)

Fields(n, leafSet, bumps, accounts, h) ==
  /\ leafSet \subseteq Leaves /\ IsFiniteSet(leafSet) /\ SeqsUnique(leafSet)
  /\ \A l \in leafSet : l.seq <= n
  /\ bumps \in [Side -> Nat] /\ \A side \in Side : bumps[side] <= MaxNodes
  /\ accounts \in [Users -> AccountType]
  /\ h \in Heaps /\ HeapOK(h)

LEMMA BookFields ==
  ASSUME NEW n, NEW leafSet, NEW bumps, NEW accounts, NEW h
  PROVE  [ok |-> TRUE, leaves |-> leafSet, bump |-> bumps, oo |-> accounts, heap |-> h] \in Fresh(n)
           <=> Fields(n, leafSet, bumps, accounts, h)
BY DEF Fields, Fresh, Books, BookType

LEMMA BookNow ==
  ASSUME NEW n
  PROVE  /\ Book \in Fresh(n) <=> Fields(n, leaves, bump, oo, heap)
         /\ Book' \in Fresh(n) <=> Fields(n, leaves', bump', oo', heap')
         /\ Book.leaves = leaves /\ Book.bump = bump /\ Book.oo = oo /\ Book.heap = heap /\ Book.ok
<1>1. Book \in Fresh(n) <=> Fields(n, leaves, bump, oo, heap)
  BY BookFields DEF Book
<1>2. Book' \in Fresh(n) <=> Fields(n, leaves', bump', oo', heap')
  BY BookFields DEF Book
<1> QED
  BY <1>1, <1>2 DEF Book

LEMMA BookBecomesIs ==
  ASSUME NEW n, NEW b \in Fresh(n), BookBecomes(b)
  PROVE  Book' \in Fresh(n)
<1>1. Fields(n, b.leaves, b.bump, b.oo, b.heap)
  BY DEF Fresh, Books, BookType, BookBecomes, Fields
<1> QED
  BY <1>1, BookNow DEF BookBecomes

LEMMA AccountChanges ==
  ASSUME NEW n, NEW b \in Fresh(n), NEW u \in Users, NEW a \in AccountType
  PROVE  [b EXCEPT !.oo[u] = a] \in Fresh(n)
<1> DEFINE accounts == [b.oo EXCEPT ![u] = a]
<1>1. accounts \in [Users -> AccountType]
  BY DEF Fresh, Books, BookType
<1>2. [b EXCEPT !.oo[u] = a] = [b EXCEPT !.oo = accounts]
  BY DEF Fresh, Books, BookType
<1> HIDE DEF accounts
<1>3. [b EXCEPT !.oo = accounts] \in BookType
      /\ [b EXCEPT !.oo = accounts].leaves = b.leaves
      /\ [b EXCEPT !.oo = accounts].bump = b.bump
      /\ [b EXCEPT !.oo = accounts].heap = b.heap
      /\ [b EXCEPT !.oo = accounts].ok = b.ok
  BY <1>1 DEF Fresh, Books, BookType
<1> QED
  BY <1>2, <1>3 DEF Fresh, Books

\* The free slots are as many as the slots that hold no event.
LEMMA FreeCounted ==
  ASSUME NEW h \in Heaps, HeapOK(h)
  PROVE  Cardinality({s \in HeapSlot : h.event[s] = NoEvent}) = Len(h.free)
<1> DEFINE S == {s \in HeapSlot : h.event[s] = NoEvent}
           n == Len(h.free)
           f == [i \in 1..n |-> h.free[i]]
<1>1. n \in Nat /\ \A i \in 1..n : h.free[i] \in HeapSlot
  BY DEF Heaps
<1>2. f \in [1..n -> S]
  BY <1>1 DEF HeapOK
<1>3. \A i, j \in 1..n : f[i] = f[j] => i = j
  BY DEF HeapOK
<1>4. \A s \in S : \E i \in 1..n : f[i] = s
  BY DEF HeapOK
<1> HIDE DEF f, S, n
<1>5. f \in Bijection(1..n, S)
  BY <1>2, <1>3, <1>4 DEF Bijection, Injection, Surjection, IsInjective
<1>6. ExistsBijection(1..n, S)
  BY <1>5 DEF ExistsBijection
<1> QED
  BY <1>1, <1>6, FS_CountingElements DEF n, S

LEMMA TypesFollow == IInv => TypeOK
<1> SUFFICES ASSUME IInv
             PROVE  TypeOK
  OBVIOUS
<1>1. Fields(market.seq_num, leaves, bump, oo, heap)
  BY BookNow DEF IInv
<1>2. heap.event \in [HeapSlot -> EventType \cup {NoEvent}] /\ heap.free \in Seq(HeapSlot)
      /\ Cardinality({s \in HeapSlot : heap.event[s] = NoEvent}) = Len(heap.free)
  BY <1>1, FreeCounted DEF Fields, Heaps
<1>3. bump \in [Side -> 0..MaxNodes]
  BY <1>1, TreePoolAssumption DEF Fields
<1>4. leaves \subseteq LeafType /\ oo \in [Users -> AccountType]
  BY <1>1 DEF Fields, Leaves
<1> QED
  BY <1>2, <1>3, <1>4 DEF TypeOK, IInv, MarketType, Balances, TokensTyped

LEMMA NewAccountIs ==
  NewAccount \in AccountType /\ [NewAccount EXCEPT !.open = FALSE] \in AccountType
<1> DEFINE orders == [s \in OrderSlot |-> FreeOrder]
<1>1. orders \in [OrderSlot -> [is_free : BOOLEAN, id : 0..MaxOrders, side : Side,
                                tree : Tree, locked_price : Nat]]
  BY FermiAssumption DEF FreeOrder, Side, Tree
<1> HIDE DEF orders
<1>2. NewAccount = [open |-> TRUE, open_orders |-> orders,
         bids_base_lots |-> 0, bids_quote_lots |-> 0, asks_base_lots |-> 0,
         base_free_native |-> 0, quote_free_native |-> 0, locked_maker_fees |-> 0,
         penalty_heap_count |-> 0, total_approved_base |-> 0, total_approved_quote |-> 0]
  BY DEF NewAccount, orders
<1>3. NewAccount \in AccountType
  BY <1>1, <1>2 DEF AccountType
<1> HIDE DEF NewAccount
<1> QED
  BY <1>3 DEF AccountType

LEMMA InitIInv == Init => IInv
<1> SUFFICES ASSUME Init
             PROVE  IInv
  OBVIOUS
<1>1. NewAccount \in AccountType
  BY NewAccountIs
<1>2. NewHeap \in Heaps /\ HeapOK(NewHeap)
  <2> DEFINE events == [s \in HeapSlot |-> NoEvent]
             free == [i \in 1..MaxNumEvents |-> i - 1]
  <2>1. MaxNumEvents \in Nat \ {0}
    BY OrderBookAssumption
  <2>2. events \in [HeapSlot -> EventType \cup {NoEvent}] /\ \A s \in HeapSlot : events[s] = NoEvent
    OBVIOUS
  <2>3. free \in Seq(HeapSlot) /\ Len(free) = MaxNumEvents
        /\ \A i \in 1..MaxNumEvents : free[i] = i - 1 /\ free[i] \in HeapSlot
    BY <2>1 DEF HeapSlot
  <2>4. \A s \in HeapSlot : s + 1 \in 1..MaxNumEvents /\ free[s + 1] = s
    BY <2>1 DEF HeapSlot
  <2> HIDE DEF events, free
  <2>5. NewHeap = [event |-> events, free |-> free]
    BY DEF NewHeap, events, free
  <2>6. NewHeap \in Heaps
    BY <2>2, <2>3, <2>5 DEF Heaps
  <2>7. \A i, j \in 1..MaxNumEvents : free[i] = free[j] => i = j
    BY <2>1, <2>3
  <2>8. \A s \in HeapSlot : \E i \in 1..MaxNumEvents : free[i] = s
    BY <2>4
  <2>9. NewHeap.event = events /\ NewHeap.free = free
    BY <2>5
  <2> HIDE DEF NewHeap
  <2> QED
    BY <2>2, <2>3, <2>6, <2>7, <2>8, <2>9 DEF HeapOK
<1>3. Fields(0, leaves, bump, oo, heap)
  <2>1. IsFiniteSet({})
    BY FS_EmptySet
  <2>2. leaves = {} /\ bump = [side \in Side |-> 0] /\ oo = [u \in Users |-> NewAccount] /\ heap = NewHeap
    BY DEF Init
  <2>3. SeqsUnique({})
    BY DEF SeqsUnique
  <2> HIDE DEF NewAccount, NewHeap
  <2> QED
    BY <1>1, <1>2, <2>1, <2>2, <2>3, TreePoolAssumption DEF Fields
<1>4. market \in MarketType /\ market.seq_num = 0
  BY FermiAssumption DEF Init, MarketType
<1>5. wallet \in Balances /\ delegated \in Balances /\ vault \in Balance
  BY FermiAssumption DEF Init, Balances, Balance
<1>6. now \in 1..MaxTime /\ oracle \in Oracles
  BY FermiAssumption DEF Init
<1>7. Book \in Fresh(market.seq_num)
  BY <1>3, <1>4, BookNow
<1> QED
  BY <1>4, <1>5, <1>6, <1>7 DEF IInv, TokensTyped

-----------------------------------------------------------------------------
(* What follows of a batch, and of a taker's fee.                          *)

Numbered == [n \in Nat |-> Fresh(n)]

LEMMA NumberedBatches ==
  ASSUME now \in 1..MaxTime, oracle \in Oracles, NEW u \in Users, NEW remaining
  PROVE  BatchKeeps(Numbered, u, remaining)
<1>1. ASSUME NEW n \in 0..MaxOrders
      PROVE  Numbered[n] = Fresh(n) /\ DropKeeps(Numbered[n], {u})
  <2>1. Numbered[n] = Fresh(n)
    BY FermiAssumption DEF Numbered
  <2>2. ASSUME NEW b \in Fresh(n)
        PROVE  DropKeeps(Fresh(n), {u})
    <3>1. b \in Books
      BY DEF Fresh
    <3> QED
      BY <3>1, FreshDrops
  <2>3. CASE Fresh(n) = {}
    BY <2>1, <2>3 DEF DropKeeps
  <2> QED
    BY <2>1, <2>2, <2>3
<1>2. ASSUME NEW n \in 0..MaxOrders, NEW order \in OrderType, NEW b \in Numbered[n],
             n < MaxOrders, Allowed(order), ~ExpiryPassed(order, now),
             NEW r \in NewOrder(b, n, order, u, {u}, remaining, now, oracle)
      PROVE  r.b \in Numbered[n + 1]
  <2>1. b \in Fresh(n) /\ n + 1 \in 0..MaxOrders
    BY <1>1, <1>2, FermiAssumption
  <2>2. oracle \in Int \cup {NoOracle}
    BY FermiAssumption
  <2>3. Placed(b, n, order, r)
    BY <1>2, <2>1, <2>2, NewOrderKeeps DEF Allowed
  <2> QED
    BY <1>1, <2>1, <2>3 DEF Placed
<1> QED
  BY <1>1, <1>2 DEF BatchKeeps

\* A batch that an account sends: what it costs, and the book after it.
LEMMA BatchFits ==
  ASSUME IInv, NEW u \in Users, NEW batch \in Batches, NEW remaining,
         NEW c, c = PlaceBatch(u, batch, remaining)
  PROVE  /\ c.b \in Fresh(c.seq_num) /\ c.seq_num \in 0..MaxOrders
         /\ \A token \in {"base", "quote"} :
              /\ ToDeposit(c, u, token) \in Nat /\ ToDeposit(c, u, token) <= wallet[u][token]
              /\ FromFree(c, u, token) \in Nat
              /\ FreeOf(c.b.oo[u], token) - FromFree(c, u, token) \in Nat
<1>1. /\ now \in 1..MaxTime /\ oracle \in Oracles /\ wallet \in [Users -> Balance]
      /\ market.seq_num \in 0..MaxOrders /\ Book \in Fresh(market.seq_num)
  BY DEF IInv, TokensTyped, Balances, MarketType
<1>2. \A n \in 0..MaxOrders : Numbered[n] = Fresh(n)
  BY FermiAssumption DEF Numbered
<1>3. BatchKeeps(Numbered, u, remaining)
  BY <1>1, NumberedBatches
<1>4. c \in Batched(Numbered, Book, u)
  BY <1>1, <1>2, <1>3, PlaceBatchStays
<1>5. /\ c.b \in Books /\ c.seq_num \in 0..MaxOrders /\ c.cost \in Balance
      /\ c.b \in Numbered[c.seq_num]
      /\ \A t \in {"base", "quote"} : c.cost[t] <= wallet[u][t] + FreeOf(c.b.oo[u], t)
  BY <1>4 DEF Batched, Costed
<1>6. ASSUME NEW token \in {"base", "quote"}
      PROVE  /\ ToDeposit(c, u, token) \in Nat /\ ToDeposit(c, u, token) <= wallet[u][token]
             /\ FromFree(c, u, token) \in Nat
             /\ FreeOf(c.b.oo[u], token) - FromFree(c, u, token) \in Nat
  <2> DEFINE cost == c.cost[token]
             free == FreeOf(c.b.oo[u], token)
             purse == wallet[u][token]
  <2>1. cost \in Nat /\ purse \in Nat
    BY <1>1, <1>5 DEF Balance
  <2>2. free \in Nat
    BY <1>5, FreeOfIs DEF Books, BookType
  <2>3. cost <= purse + free
    BY <1>5
  <2>4. FromFree(c, u, token) = Smaller(cost, free)
        /\ ToDeposit(c, u, token) = cost - Smaller(cost, free)
    BY Zenon DEF FromFree, ToDeposit
  <2> HIDE DEF cost, free, purse
  <2>5. /\ Smaller(cost, free) \in Nat /\ free - Smaller(cost, free) \in Nat
        /\ cost - Smaller(cost, free) \in Nat /\ cost - Smaller(cost, free) <= purse
    BY <2>1, <2>2, <2>3 DEF Smaller
  <2> QED
    BY <2>4, <2>5 DEF free, purse
<1> QED
  BY <1>2, <1>5, <1>6

LEMMA BatchesPaid == IInv => BatchIsPaid
<1> SUFFICES ASSUME IInv
             PROVE  BatchIsPaid
  OBVIOUS
<1>1. ASSUME NEW u \in Users, NEW batch \in Batches
      PROVE  /\ wallet[u].base >= ToDeposit(PlaceBatch(u, batch, {}), u, "base")
             /\ wallet[u].quote >= ToDeposit(PlaceBatch(u, batch, {}), u, "quote")
  <2> DEFINE c == PlaceBatch(u, batch, {})
  <2>1. \A token \in {"base", "quote"} :
          ToDeposit(c, u, token) \in Nat /\ ToDeposit(c, u, token) <= wallet[u][token]
    BY BatchFits
  <2>2. wallet[u].base \in Nat /\ wallet[u].quote \in Nat
    BY DEF IInv, TokensTyped, Balances, Balance
  <2> HIDE DEF c
  <2>3. wallet[u].base >= ToDeposit(c, u, "base") /\ wallet[u].quote >= ToDeposit(c, u, "quote")
    BY <2>1, <2>2
  <2> QED
    BY <2>3 DEF c
<1> QED
  BY <1>1, Zenon DEF BatchIsPaid

LEMMA RebatesPaid == IInv => RebatesCovered
<1> SUFFICES ASSUME IInv, NEW u \in Users, NEW order \in Orders
             PROVE  LET m == Match(Book, order, MaxQuote(order), u, {u},
                                   OrderPrice(leaves, order, now, oracle), {u}, now, oracle)
                    IN  TakerFeesCeil((MaxQuote(order) - m.quote - m.decremented) * QuoteLotSize)
                          >= m.rebates
  BY Zenon DEF RebatesCovered
<1> DEFINE price == OrderPrice(leaves, order, now, oracle)
           maxQuote == MaxQuote(order)
           m == Match(Book, order, maxQuote, u, {u}, price, {u}, now, oracle)
<1>1. order \in OrderType /\ maxQuote \in Nat
  BY FermiAssumption, MaxQuoteNat
<1>2. Book \in Books /\ SeqsUnique(Book.leaves) /\ now \in 1..MaxTime /\ oracle \in Int \cup {NoOracle}
  BY FermiAssumption DEF IInv, Fresh
<1> HIDE DEF price, maxQuote
<1>3. m \in Matches(Book, order, maxQuote)
  <2> DEFINE items == Iter(Book.leaves, InvertSide(order.side), now, oracle)
  <2>1. PICK w : /\ MatchRun(w, items, Book, order, maxQuote, u, {u}, price, {u}, now)
                 /\ m = w[Len(items)]
    BY <1>1, <1>2, MatchRuns
  <2> QED
    BY <2>1 DEF MatchRun
<1>4. /\ m.rebates \in Nat /\ m.quote \in Nat /\ m.decremented \in Nat
      /\ m.quote + m.decremented <= maxQuote
      /\ RebatesWithin(m.rebates, (maxQuote - m.quote - m.decremented) * QuoteLotSize)
  BY <1>3 DEF Matches, MatchType, MatchOK
<1> HIDE DEF m
<1> DEFINE took == maxQuote - m.quote - m.decremented
<1>5. took \in Nat
  BY <1>1, <1>4
<1> HIDE DEF took
<1>6. took * QuoteLotSize \in Nat
  BY <1>5, MarketAssumption, ProductNat
<1>7. m.rebates <= TakerFeesCeil(took * QuoteLotSize)
  BY <1>4, <1>6, MarketAssumption, FeePaysRebates DEF took
<1>8. TakerFeesCeil(took * QuoteLotSize) \in Nat
  BY <1>6, MarketAssumption, TakerFeesNat
<1>9. TakerFeesCeil(took * QuoteLotSize) >= m.rebates
  BY <1>4, <1>7, <1>8
<1> QED
  BY <1>9 DEF took, m, maxQuote, price

-----------------------------------------------------------------------------
(* Where the tokens are.                                                   *)

Wealth(w, v, token) == SumFunctionOnSet([u \in Users |-> w[u][token]], Users) + v[token]

LEMMA TokensAre ==
  /\ Tokens("base") = Wealth(wallet, vault, "base")
  /\ Tokens("quote") = Wealth(wallet, vault, "quote")
  /\ Tokens("base")' = Wealth(wallet', vault', "base")
  /\ Tokens("quote")' = Wealth(wallet', vault', "quote")
BY DEF Tokens, SumOver, Wealth

LEMMA WealthInt ==
  ASSUME NEW w \in Balances, NEW v \in Balance, NEW token \in {"base", "quote"}
  PROVE  Wealth(w, v, token) \in Int /\ v[token] \in Nat
         /\ SumFunctionOnSet([u \in Users |-> w[u][token]], Users) \in Int
<1> DEFINE f == [u \in Users |-> w[u][token]]
<1>1. \A u \in Users : f[u] \in Int
  BY DEF Balances, Balance
<1> HIDE DEF f
<1>2. SumFunctionOnSet(f, Users) \in Int
  BY <1>1, FermiAssumption, SumType
<1>3. v[token] \in Nat
  BY DEF Balance
<1> QED
  BY <1>2, <1>3 DEF Wealth, f

\* One wallet pays or is paid.
LEMMA OneMoves ==
  ASSUME NEW w \in Balances, NEW x \in Balances, NEW v \in Balance, NEW y \in Balance,
         NEW token \in {"base", "quote"}, NEW u \in Users,
         \A k \in Users \ {u} : x[k][token] = w[k][token]
  PROVE  Wealth(x, y, token)
           = Wealth(w, v, token) + (x[u][token] - w[u][token]) + (y[token] - v[token])
<1> DEFINE f == [k \in Users |-> w[k][token]]
           g == [k \in Users |-> x[k][token]]
<1>1. \A k \in Users : f[k] \in Int /\ g[k] \in Int
  BY DEF Balances, Balance
<1>2. f[u] = w[u][token] /\ g[u] = x[u][token] /\ \A k \in Users \ {u} : g[k] = f[k]
  OBVIOUS
<1>3. Wealth(x, y, token) = SumFunctionOnSet(g, Users) + y[token]
      /\ Wealth(w, v, token) = SumFunctionOnSet(f, Users) + v[token]
  BY DEF Wealth
<1>4. SumFunctionOnSet(f, Users) \in Int /\ v[token] \in Nat /\ y[token] \in Nat
  BY WealthInt
<1> HIDE DEF f, g
<1>5. SumFunctionOnSet(g, Users) = SumFunctionOnSet(f, Users) - f[u] + g[u]
  <2>1. IsFiniteSet(Users)
    BY FermiAssumption
  <2>2. \A k \in Users : f[k] \in Int /\ g[k] \in Int
    BY <1>1
  <2>3. \A k \in Users \ {u} : g[k] = f[k]
    BY <1>2
  <2> QED
    BY <2>1, <2>2, <2>3, SumChange
<1> QED
  BY <1>1, <1>2, <1>3, <1>4, <1>5

\* A token is the same in all wallets but those of S.
SameBut(S, x, w, token) == \A k \in Users \ S : x[k][token] = w[k][token]

LEMMA KeptIfEqual ==
  ASSUME Wealth(wallet', vault', "base") = Wealth(wallet, vault, "base"),
         Wealth(wallet', vault', "quote") = Wealth(wallet, vault, "quote")
  PROVE  Kept
BY TokensAre DEF Kept

LEMMA KeptIfUnmoved ==
  ASSUME wallet' = wallet, vault' = vault
  PROVE  Kept
BY KeptIfEqual

\* A balance changes in one token.
WithBalance(w, u, token, x) == [w EXCEPT ![u][token] = x]
BalanceIs(z, w, u, token, x) ==
  /\ z \in Balances /\ z[u][token] = x
  /\ \A t \in {"base", "quote"} : t # token => z[u][t] = w[u][t]
  /\ \A k \in Users \ {u} : z[k] = w[k]
LEMMA BalanceSet ==
  ASSUME NEW w \in Balances, NEW u \in Users, NEW token \in {"base", "quote"}, NEW x \in Nat
  PROVE  /\ BalanceIs(WithBalance(w, u, token, x), w, u, token, x)
         /\ WithBalance(w, u, token, x) \in Balances
BY DEF BalanceIs, WithBalance, Balances, Balance

-----------------------------------------------------------------------------
(* The steps.                                                              *)

LEMMA BookStays ==
  ASSUME IInv, leaves' = leaves, bump' = bump, oo' \in [Users -> AccountType],
         heap' \in Heaps, HeapOK(heap')
  PROVE  Book' \in Fresh(market.seq_num)
BY BookNow DEF IInv, Fields

LEMMA TypesNow ==
  ASSUME IInv
  PROVE  /\ leaves \subseteq Leaves /\ oo \in [Users -> AccountType]
         /\ heap \in Heaps /\ HeapOK(heap)
         /\ market \in MarketType /\ market.seq_num \in 0..MaxOrders
         /\ wallet \in Balances /\ delegated \in Balances /\ vault \in Balance
BY BookNow DEF IInv, Fields, TokensTyped, MarketType

LEMMA CancelSteps ==
  ASSUME IInv, NEW b \in Fresh(market.seq_num), BookBecomes(b), OnBookOnly
  PROVE  Good
<1>1. Book' \in Fresh(market.seq_num)
  BY BookBecomesIs
<1> QED
  BY <1>1, KeptIfUnmoved DEF Good, IInv, OnBookOnly, TokensTyped

LEMMA CancelOneStep ==
  ASSUME IInv, NEW u \in Users, NEW slot, CancelOneOrder(u, slot)
  PROVE  Good
<1>1. DropKeeps(Fresh(market.seq_num), {u}) /\ Book \in Fresh(market.seq_num)
  BY FreshDrops DEF IInv, Fresh
<1>2. CancelOrder(Book, u, slot) \in Fresh(market.seq_num)
  BY <1>1, CancelOrderStays
<1> QED
  BY <1>2, CancelSteps DEF CancelOneOrder

LEMMA CancelAllStep ==
  ASSUME IInv, NEW u \in Users, NEW sides, NEW limit \in CancelLimits, CancelAll(u, sides, limit)
  PROVE  Good
<1>1. DropKeeps(Fresh(market.seq_num), {u}) /\ Book \in Fresh(market.seq_num)
  BY FreshDrops DEF IInv, Fresh
<1>2. limit \in Nat
  BY FermiAssumption
<1>3. CancelAllOrders(Book, u, sides, limit) \in Fresh(market.seq_num)
  BY <1>1, <1>2, CancelAllStays
<1> QED
  BY <1>3, CancelSteps DEF CancelAll

LEMMA PruneStep ==
  ASSUME IInv, NEW u \in Users, NEW limit \in CancelLimits, PruneOrders(u, limit)
  PROVE  Good
<1>1. DropKeeps(Fresh(market.seq_num), {u}) /\ Book \in Fresh(market.seq_num)
  BY FreshDrops DEF IInv, Fresh
<1>2. limit \in Nat
  BY FermiAssumption
<1>3. CancelAllOrders(Book, u, Side, limit) \in Fresh(market.seq_num)
  BY <1>1, <1>2, CancelAllStays
<1> QED
  BY <1>3, CancelSteps DEF PruneOrders

LEMMA DepositStep ==
  ASSUME IInv, NEW u \in Users, NEW amount \in Deposits, Deposit(u, amount.base, amount.quote)
  PROVE  Good
<1> DEFINE base == amount.base
           quote == amount.quote
           a == oo[u]
           w == wallet[u]
<1>1. base \in Nat /\ quote \in Nat
  BY FermiAssumption
<1>2. /\ w.base >= base /\ w.quote >= quote
      /\ oo' = [oo EXCEPT ![u].base_free_native = @ + base, ![u].quote_free_native = @ + quote]
      /\ wallet' = [wallet EXCEPT ![u].base = @ - base, ![u].quote = @ - quote]
      /\ vault' = [base |-> vault.base + base, quote |-> vault.quote + quote]
      /\ market' = [market EXCEPT !.base_deposit_total = @ + base,
                                  !.quote_deposit_total = @ + quote]
      /\ UNCHANGED <<leaves, bump, heap, delegated, now, oracle>>
  BY DEF Deposit
<1>3. /\ oo \in [Users -> AccountType] /\ wallet \in Balances /\ vault \in Balance
      /\ market \in MarketType /\ heap \in Heaps /\ HeapOK(heap)
      /\ delegated \in Balances
  BY TypesNow
<1>4. w \in Balance /\ w.base \in Nat /\ w.quote \in Nat /\ a \in AccountType
      /\ a.base_free_native \in Nat /\ a.quote_free_native \in Nat
      /\ vault.base \in Nat /\ vault.quote \in Nat
  BY <1>3 DEF Balances, Balance, AccountType
<1> HIDE DEF base, quote
<1>5. oo' \in [Users -> AccountType]
  <2> DEFINE x == a.base_free_native + base
             y == a.quote_free_native + quote
             c == [a EXCEPT !.base_free_native = x, !.quote_free_native = y]
  <2>1. x \in Nat /\ y \in Nat
    BY <1>1, <1>4
  <2>2. oo' = [oo EXCEPT ![u] = c]
    BY <1>2, <1>3 DEF AccountType
  <2> HIDE DEF x, y
  <2>3. c \in AccountType
    BY <1>4, <2>1 DEF AccountType
  <2> HIDE DEF c
  <2> QED
    BY <1>3, <2>2, <2>3
<1>6. Book' \in Fresh(market.seq_num)
  BY <1>2, <1>3, <1>5, BookStays
<1>7. wallet' \in Balances /\ (\A k \in Users \ {u} : wallet'[k] = wallet[k])
      /\ wallet'[u].base = w.base - base /\ wallet'[u].quote = w.quote - quote
  <2>1. w.base - base \in Nat /\ w.quote - quote \in Nat
    BY <1>1, <1>2, <1>4
  <2> QED
    BY <1>2, <1>3, <2>1 DEF Balances, Balance
<1>8. vault' \in Balance /\ vault'.base = vault.base + base /\ vault'.quote = vault.quote + quote
  <2>1. vault.base + base \in Nat /\ vault.quote + quote \in Nat
    BY <1>1, <1>4
  <2> QED
    BY <1>2, <2>1 DEF Balance
<1>9. market' \in MarketType /\ market'.seq_num = market.seq_num
  <2> DEFINE x == market.base_deposit_total + base
             y == market.quote_deposit_total + quote
  <2>1. x \in Nat /\ y \in Nat
    BY <1>1, <1>3 DEF MarketType
  <2>2. market' = [market EXCEPT !.base_deposit_total = x, !.quote_deposit_total = y]
    BY <1>2
  <2> HIDE DEF x, y
  <2> QED
    BY <1>3, <2>1, <2>2 DEF MarketType
<1>10. IInv'
  BY <1>2, <1>3, <1>6, <1>7, <1>8, <1>9 DEF IInv, TokensTyped
<1>11. ASSUME NEW token \in {"base", "quote"}
       PROVE  Wealth(wallet', vault', token) = Wealth(wallet, vault, token)
  <2>1. Wealth(wallet', vault', token) = Wealth(wallet, vault, token)
          + (wallet'[u][token] - wallet[u][token]) + (vault'[token] - vault[token])
    BY <1>3, <1>7, <1>8, OneMoves
  <2>2. Wealth(wallet, vault, token) \in Int
    BY <1>3, WealthInt
  <2>3. /\ wallet[u][token] \in Int /\ vault[token] \in Int
        /\ \E x \in Nat : wallet'[u][token] = wallet[u][token] - x
                          /\ vault'[token] = vault[token] + x
    BY <1>1, <1>4, <1>7, <1>8
  <2> QED
    BY <2>1, <2>2, <2>3
<1> QED
  BY <1>10, <1>11, KeptIfEqual DEF Good

LEMMA OnePays ==
  ASSUME NEW w \in Balances, NEW x \in Balances, NEW v \in Balance, NEW y \in Balance,
         NEW token \in {"base", "quote"}, NEW u \in Users,
         \A k \in Users \ {u} : x[k][token] = w[k][token],
         NEW d \in Int, x[u][token] = w[u][token] - d, y[token] = v[token] + d
  PROVE  Wealth(x, y, token) = Wealth(w, v, token)
<1>1. Wealth(x, y, token)
        = Wealth(w, v, token) + (x[u][token] - w[u][token]) + (y[token] - v[token])
  BY OneMoves
<1>2. Wealth(w, v, token) \in Int /\ v[token] \in Nat
  BY WealthInt
<1>3. w[u][token] \in Nat
  BY DEF Balances, Balance
<1> QED
  BY <1>1, <1>2, <1>3

LEMMA SettleStep ==
  ASSUME IInv, NEW u \in Users, NEW referrer \in Referrers, SettleFunds(u, referrer)
  PROVE  Good
<1> DEFINE a == oo[u]
           w == wallet[u]
           base == a.base_free_native
           quote == a.quote_free_native
           roundoff == IF MakerFee > 0 /\ a.bids_base_lots = 0 THEN a.locked_maker_fees ELSE 0
           toReferrer == IF referrer THEN roundoff ELSE 0
<1>1. /\ oo \in [Users -> AccountType] /\ wallet \in Balances /\ vault \in Balance
      /\ market \in MarketType /\ heap \in Heaps /\ HeapOK(heap)
      /\ delegated \in Balances
  BY TypesNow
<1>2. w \in Balance /\ w.base \in Nat /\ w.quote \in Nat /\ a \in AccountType
      /\ base \in Nat /\ quote \in Nat /\ a.locked_maker_fees \in Nat
      /\ vault.base \in Nat /\ vault.quote \in Nat
  BY <1>1 DEF Balances, Balance, AccountType
<1>3. roundoff \in Nat /\ roundoff <= a.locked_maker_fees /\ toReferrer \in {0, roundoff}
  BY <1>2
<1>4. /\ market.base_deposit_total >= base /\ market.quote_deposit_total >= quote + toReferrer
      /\ vault.base >= base /\ vault.quote >= quote
      /\ oo' = [oo EXCEPT ![u].locked_maker_fees = @ - roundoff,
                          ![u].base_free_native = 0, ![u].quote_free_native = 0,
                          ![u].penalty_heap_count = 0]
      /\ market' = [market EXCEPT
                      !.base_deposit_total = @ - base,
                      !.quote_deposit_total = @ - quote - toReferrer,
                      !.fees_available = @ + roundoff - toReferrer]
      /\ wallet' = [wallet EXCEPT ![u].base = @ + base, ![u].quote = @ + quote]
      /\ vault' = [base |-> vault.base - base, quote |-> vault.quote - quote]
      /\ UNCHANGED <<leaves, bump, heap, delegated, now, oracle>>
  BY Zenon DEF SettleFunds
<1> HIDE DEF roundoff, toReferrer
<1>5. oo' \in [Users -> AccountType]
  <2> DEFINE x == a.locked_maker_fees - roundoff
             c == [a EXCEPT !.locked_maker_fees = x, !.base_free_native = 0,
                            !.quote_free_native = 0, !.penalty_heap_count = 0]
  <2>1. x \in Nat
    BY <1>2, <1>3
  <2>2. oo' = [oo EXCEPT ![u] = c]
    BY <1>1, <1>4 DEF AccountType
  <2> HIDE DEF x
  <2>3. c \in AccountType
    BY <1>2, <2>1 DEF AccountType
  <2> HIDE DEF c
  <2> QED
    BY <1>1, <2>2, <2>3
<1>6. Book' \in Fresh(market.seq_num)
  BY <1>1, <1>4, <1>5, BookStays
<1> HIDE DEF base, quote
<1>7. wallet' \in Balances /\ (\A k \in Users \ {u} : wallet'[k] = wallet[k])
      /\ wallet'[u].base = w.base + base /\ wallet'[u].quote = w.quote + quote
  <2>1. w.base + base \in Nat /\ w.quote + quote \in Nat
    BY <1>2
  <2> QED
    BY <1>1, <1>4, <2>1 DEF Balances, Balance
<1>8. vault' \in Balance /\ vault'.base = vault.base - base /\ vault'.quote = vault.quote - quote
  <2>1. vault.base - base \in Nat /\ vault.quote - quote \in Nat
    BY <1>2, <1>4
  <2> QED
    BY <1>4, <2>1 DEF Balance
<1>9. market' \in MarketType /\ market'.seq_num = market.seq_num
  <2> DEFINE x == market.base_deposit_total - base
             y == market.quote_deposit_total - quote - toReferrer
             z == market.fees_available + roundoff - toReferrer
  <2>1. x \in Nat /\ y \in Nat /\ z \in Nat
    BY <1>1, <1>2, <1>3, <1>4 DEF MarketType
  <2>2. market' = [market EXCEPT !.base_deposit_total = x, !.quote_deposit_total = y,
                                 !.fees_available = z]
    BY <1>4
  <2> HIDE DEF x, y, z
  <2> QED
    BY <1>1, <2>1, <2>2 DEF MarketType
<1>10. IInv'
  BY <1>1, <1>4, <1>6, <1>7, <1>8, <1>9 DEF IInv, TokensTyped
<1>11. Wealth(wallet', vault', "base") = Wealth(wallet, vault, "base")
  <2>1. -base \in Int /\ wallet'[u]["base"] = wallet[u]["base"] - (-base)
        /\ vault'["base"] = vault["base"] + (-base)
        /\ \A k \in Users \ {u} : wallet'[k]["base"] = wallet[k]["base"]
    BY <1>2, <1>7, <1>8
  <2> QED
    BY <1>1, <1>7, <1>8, <2>1, OnePays
<1>12. Wealth(wallet', vault', "quote") = Wealth(wallet, vault, "quote")
  <2>1. -quote \in Int /\ wallet'[u]["quote"] = wallet[u]["quote"] - (-quote)
        /\ vault'["quote"] = vault["quote"] + (-quote)
        /\ \A k \in Users \ {u} : wallet'[k]["quote"] = wallet[k]["quote"]
    BY <1>2, <1>7, <1>8
  <2> QED
    BY <1>1, <1>7, <1>8, <2>1, OnePays
<1> QED
  BY <1>10, <1>11, <1>12, KeptIfEqual DEF Good

LEMMA AccountSteps ==
  ASSUME IInv, NEW u \in Users, CloseOpenOrdersAccount(u) \/ CreateOpenOrdersAccount(u)
  PROVE  Good
<1>1. /\ oo \in [Users -> AccountType] /\ heap \in Heaps /\ HeapOK(heap)
      /\ NewAccount \in AccountType /\ [NewAccount EXCEPT !.open = FALSE] \in AccountType
  BY TypesNow, NewAccountIs
<1>2. /\ oo' = [oo EXCEPT ![u] = NewAccount] \/ oo' = [oo EXCEPT ![u] = [NewAccount EXCEPT !.open = FALSE]]
      /\ UNCHANGED <<leaves, bump, heap, market, wallet, delegated, vault, now, oracle>>
  BY DEF CloseOpenOrdersAccount, CreateOpenOrdersAccount
<1>3. oo' \in [Users -> AccountType]
  <2> HIDE DEF NewAccount
  <2> QED
    BY <1>1, <1>2
<1>4. Book' \in Fresh(market.seq_num)
  BY <1>1, <1>2, <1>3, BookStays
<1> QED
  BY <1>2, <1>4, KeptIfUnmoved DEF Good, IInv, TokensTyped

LEMMA SweepStep ==
  ASSUME IInv, SweepFees
  PROVE  Good
<1> DEFINE fees == market.fees_available
<1>1. /\ oo \in [Users -> AccountType] /\ wallet \in Balances /\ vault \in Balance
      /\ market \in MarketType /\ heap \in Heaps /\ HeapOK(heap)
  BY TypesNow
<1>2. fees \in Nat /\ vault.base \in Nat /\ vault.quote \in Nat /\ market.quote_deposit_total \in Nat
  BY <1>1 DEF MarketType, Balance
<1>3. /\ market.quote_deposit_total >= fees /\ vault.quote >= fees
      /\ market' = [market EXCEPT !.fees_available = 0, !.quote_deposit_total = @ - fees]
      /\ vault' = [vault EXCEPT !.quote = @ - fees]
      /\ UNCHANGED <<leaves, bump, oo, heap, wallet, delegated, now, oracle>>
  BY DEF SweepFees
<1>4. Book' \in Fresh(market.seq_num)
  BY <1>1, <1>3, BookStays
<1>5. market' \in MarketType /\ market'.seq_num = market.seq_num /\ market'.fees_available = 0
  <2> DEFINE x == market.quote_deposit_total - fees
  <2>1. x \in Nat /\ market' = [market EXCEPT !.fees_available = 0, !.quote_deposit_total = x]
    BY <1>2, <1>3
  <2> HIDE DEF x
  <2> QED
    BY <1>1, <2>1 DEF MarketType
<1>6. vault' \in Balance /\ vault'.base = vault.base /\ vault'.quote = vault.quote - fees
  <2> DEFINE x == vault.quote - fees
  <2>1. x \in Nat /\ vault' = [vault EXCEPT !.quote = x]
    BY <1>2, <1>3
  <2> HIDE DEF x
  <2>2. vault' \in Balance /\ vault'.base = vault.base /\ vault'.quote = x
    BY <1>1, <2>1 DEF Balance
  <2> QED
    BY <2>2 DEF x
<1>7. IInv'
  BY <1>3, <1>4, <1>5, <1>6 DEF IInv, TokensTyped
<1>8. Wealth(wallet', vault', "base") = Wealth(wallet, vault, "base")
  BY <1>3, <1>6 DEF Wealth
<1>9. Wealth(wallet', vault', "quote") = Wealth(wallet, vault, "quote") - fees
  <2>1. /\ Wealth(wallet, vault, "quote")
             = SumFunctionOnSet([u \in Users |-> wallet[u]["quote"]], Users) + vault["quote"]
        /\ Wealth(wallet', vault', "quote")
             = SumFunctionOnSet([u \in Users |-> wallet[u]["quote"]], Users) + vault'["quote"]
    BY <1>3 DEF Wealth
  <2>2. SumFunctionOnSet([u \in Users |-> wallet[u]["quote"]], Users) \in Int
    BY <1>1, WealthInt
  <2> QED
    BY <1>2, <1>6, <2>1, <2>2
<1>10. Kept
  BY <1>5, <1>8, <1>9, TokensAre DEF Kept
<1> QED
  BY <1>7, <1>10 DEF Good

LEMMA IdleSteps ==
  ASSUME IInv, SetMarketExpired \/ CloseMarket \/ Tick \/ OracleMoves
  PROVE  Good
<1>1. /\ UNCHANGED <<leaves, bump, oo, heap, wallet, delegated, vault>>
      /\ now' \in 1..MaxTime /\ oracle' \in Oracles
      /\ \/ market' = market
         \/ market' = [market EXCEPT !.time_expiry = -1] \/ market' = [market EXCEPT !.closed = TRUE]
  BY FermiAssumption DEF SetMarketExpired, CloseMarket, Tick, OracleMoves, IInv
<1>2. market' \in MarketType /\ market'.seq_num = market.seq_num
  BY <1>1, TypesNow DEF MarketType
<1>3. Book' = Book
  BY <1>1 DEF Book
<1> QED
  BY <1>1, <1>2, <1>3, KeptIfUnmoved DEF Good, IInv, TokensTyped

-----------------------------------------------------------------------------
(* Finalizing a match.                                                     *)

\* A match that is pending: who has to deliver, and how much.
LEMMA PendingIs ==
  ASSUME IInv, NEW slot \in HeapSlot, heap.event[slot] # NoEvent
  PROVE  LET ev == heap.event[slot]
         IN  /\ ev \in EventType
             /\ ev.type # "Out" =>
                  /\ ev.maker \in Users /\ ev.taker \in Users /\ ev.ts \in 1..MaxTime
                  /\ ev.price \in Nat \ {0} /\ ev.qty \in Nat \ {0} /\ ev.qty * ev.price \in Nat
                  /\ Buyer(ev) \in Users /\ Seller(ev) \in Users
                  /\ QuoteAmount(ev) \in Nat /\ BaseAmount(ev) \in Nat
<1> DEFINE ev == heap.event[slot]
<1>1. ev \in EventType
  BY TypesNow DEF Heaps
<1>2. CASE ev.type # "Out"
  <2>1. /\ ev.maker \in Users /\ ev.taker \in Users /\ ev.ts \in 1..MaxTime
        /\ ev.price \in Nat \ {0} /\ ev.qty \in Nat \ {0}
    BY <1>1, <1>2 DEF EventType
  <2> HIDE DEF ev
  <2>2. ev.qty * ev.price \in Nat /\ BaseAmount(ev) \in Nat
    BY <2>1, ProductNat, MarketAssumption DEF BaseAmount
  <2> DEFINE x == ev.qty * ev.price
  <2>3. QuoteAmount(ev) = x * QuoteLotSize
    BY DEF QuoteAmount
  <2>4. x \in Nat
    BY <2>2
  <2> HIDE DEF x
  <2>5. QuoteAmount(ev) \in Nat
    BY <2>3, <2>4, ProductNat, MarketAssumption
  <2> QED
    BY <1>1, <2>1, <2>2, <2>5 DEF ev, Buyer, Seller
<1> QED
  BY <1>1, <1>2

LEMMA AfterMarginIs ==
  ASSUME NEW amount \in Nat
  PROVE  AfterMargin(amount) \in Nat /\ AfterMargin(amount) <= amount
<1>1. amount \div MarginDivisor \in Nat /\ amount \div MarginDivisor <= amount
  BY FermiAssumption, DivisionNat
<1> DEFINE margin == amount \div MarginDivisor
<1> HIDE DEF margin
<1>2. AfterMargin(amount) = amount - margin
  BY DEF AfterMargin, margin
<1>3. margin \in Nat /\ margin <= amount
  BY <1>1 DEF margin
<1> QED
  BY <1>2, <1>3

LEMMA DebitIs ==
  ASSUME NEW free \in Nat, NEW due \in Nat
  PROVE  Missing(free, due) \in Nat /\ FreeLeft(free, due) \in Nat
BY DEF Missing, FreeLeft

LEMMA PullIs ==
  ASSUME wallet \in Balances, delegated \in Balances, NEW u \in Users,
         NEW token \in {"base", "quote"}, NEW amount \in Nat, CanPull(u, token, amount)
  PROVE  wallet[u][token] - amount \in Nat /\ delegated[u][token] - amount \in Nat
<1>1. wallet[u][token] \in Nat /\ delegated[u][token] \in Nat
  BY DEF Balances, Balance
<1> QED
  BY <1>1 DEF CanPull

LEMMA MissingOf ==
  ASSUME IInv, NEW slot \in HeapSlot, heap.event[slot] # NoEvent, heap.event[slot].type # "Out",
         NEW u \in Users
  PROVE  LET ev == heap.event[slot]
         IN  /\ QuoteMissingOf(u, ev) \in Nat /\ BaseMissingOf(u, ev) \in Nat
             /\ FreeLeft(oo[u].quote_free_native, AfterMargin(QuoteAmount(ev))) \in Nat
             /\ FreeLeft(oo[u].base_free_native, AfterMargin(BaseAmount(ev))) \in Nat
<1> DEFINE ev == heap.event[slot]
<1>1. QuoteAmount(ev) \in Nat /\ BaseAmount(ev) \in Nat
  BY PendingIs
<1> HIDE DEF ev
<1>2. AfterMargin(QuoteAmount(ev)) \in Nat /\ AfterMargin(BaseAmount(ev)) \in Nat
  BY <1>1, AfterMarginIs
<1>3. oo[u].quote_free_native \in Nat /\ oo[u].base_free_native \in Nat
  BY TypesNow DEF AccountType
<1>4. QuoteMissingOf(u, ev) \in Nat /\ BaseMissingOf(u, ev) \in Nat
  BY <1>2, <1>3, DebitIs DEF QuoteMissingOf, BaseMissingOf
<1>5. /\ FreeLeft(oo[u].quote_free_native, AfterMargin(QuoteAmount(ev))) \in Nat
      /\ FreeLeft(oo[u].base_free_native, AfterMargin(BaseAmount(ev))) \in Nat
  BY <1>2, <1>3, DebitIs
<1> QED
  BY <1>4, <1>5 DEF ev

LEMMA MissingIs ==
  ASSUME IInv, NEW slot \in HeapSlot, heap.event[slot] # NoEvent, heap.event[slot].type # "Out"
  PROVE  LET ev == heap.event[slot]
         IN  /\ QuoteMissing(ev) \in Nat /\ BaseMissing(ev) \in Nat
             /\ FreeLeft(oo[Buyer(ev)].quote_free_native, AfterMargin(QuoteAmount(ev))) \in Nat
             /\ FreeLeft(oo[Seller(ev)].base_free_native, AfterMargin(BaseAmount(ev))) \in Nat
<1>1. Buyer(heap.event[slot]) \in Users /\ Seller(heap.event[slot]) \in Users
  BY PendingIs
<1> QED
  BY <1>1, MissingOf DEF QuoteMissing, BaseMissing

\* The accounts passed for a party of a match are users' accounts.
LEMMA PassedAreUsers ==
  ASSUME NEW u \in Users
  PROVE  PassedFor[u] \subseteq Users /\ u \in PassedFor[u]
BY FermiAssumption

\* An amount is added to one balance, or taken off it.
LEMMA CreditIs ==
  ASSUME NEW w \in Balances, NEW u \in Users, NEW token \in {"base", "quote"}, NEW amount \in Int,
         w[u][token] + amount \in Nat
  PROVE  /\ Credit(w, u, token, amount) \in Balances
         /\ BalanceIs(Credit(w, u, token, amount), w, u, token, w[u][token] + amount)
         /\ \A v \in Balance, t \in {"base", "quote"} :
              Wealth(Credit(w, u, token, amount), v, t)
                = Wealth(w, v, t) + (IF t = token THEN amount ELSE 0)
<1> DEFINE x == w[u][token] + amount
           z == Credit(w, u, token, amount)
<1>1. z = WithBalance(w, u, token, x)
  BY DEF Credit, WithBalance
<1>2. x \in Nat
  OBVIOUS
<1> HIDE DEF x, z
<1>3. BalanceIs(z, w, u, token, x) /\ z \in Balances
  BY <1>1, <1>2, BalanceSet
<1>4. ASSUME NEW v \in Balance, NEW t \in {"base", "quote"}
      PROVE  Wealth(z, v, t) = Wealth(w, v, t) + (IF t = token THEN amount ELSE 0)
  <2>1. \A k \in Users \ {u} : z[k][t] = w[k][t]
    BY <1>3 DEF BalanceIs
  <2>2. Wealth(z, v, t) = Wealth(w, v, t) + (z[u][t] - w[u][t]) + (v[t] - v[t])
    BY <1>3, <2>1, OneMoves
  <2>3. Wealth(w, v, t) \in Int /\ v[t] \in Nat
    BY WealthInt
  <2>4. w[u][t] \in Nat
    BY DEF Balances, Balance
  <2>5. z[u][t] = w[u][t] + (IF t = token THEN amount ELSE 0)
    BY <1>3, <2>4 DEF BalanceIs, x
  <2> QED
    BY <2>2, <2>3, <2>4, <2>5
<1> QED
  BY <1>3, <1>4 DEF x, z

\* A wallet pays another one, which may be itself: no token is made, and the
\* other token stays where it is.
LEMMA TransferIs ==
  ASSUME NEW w \in Balances, NEW from \in Users, NEW to \in Users, NEW token \in {"base", "quote"},
         NEW amount \in Nat, w[from][token] - amount \in Nat
  PROVE  /\ Transfer(w, from, to, token, amount) \in Balances
         /\ \A k \in Users, t \in {"base", "quote"} :
              t # token => Transfer(w, from, to, token, amount)[k][t] = w[k][t]
         /\ \A v \in Balance, t \in {"base", "quote"} :
              Wealth(Transfer(w, from, to, token, amount), v, t) = Wealth(w, v, t)
<1> DEFINE less == -amount
           w1 == Credit(w, from, token, less)
           w2 == Credit(w1, to, token, amount)
<1>1. less \in Int /\ w[from][token] \in Nat /\ Transfer(w, from, to, token, amount) = w2
  BY DEF Balances, Balance, Transfer
<1>2. w[from][token] + less \in Nat
  BY <1>1
<1> HIDE DEF less
<1>3. /\ w1 \in Balances /\ BalanceIs(w1, w, from, token, w[from][token] + less)
      /\ \A v \in Balance, t \in {"base", "quote"} :
           Wealth(w1, v, t) = Wealth(w, v, t) + (IF t = token THEN less ELSE 0)
  BY <1>1, <1>2, CreditIs
<1> HIDE DEF w1
<1>4. w1[to][token] + amount \in Nat
  <2>1. w1[to][token] \in Nat
    BY <1>3 DEF Balances, Balance
  <2> QED
    BY <2>1
<1>5. /\ w2 \in Balances /\ BalanceIs(w2, w1, to, token, w1[to][token] + amount)
      /\ \A v \in Balance, t \in {"base", "quote"} :
           Wealth(w2, v, t) = Wealth(w1, v, t) + (IF t = token THEN amount ELSE 0)
  BY <1>3, <1>4, CreditIs
<1> HIDE DEF w2
<1>6. \A k \in Users, t \in {"base", "quote"} : t # token => w2[k][t] = w[k][t]
  BY <1>3, <1>5 DEF BalanceIs
<1>7. ASSUME NEW v \in Balance, NEW t \in {"base", "quote"}
      PROVE  Wealth(w2, v, t) = Wealth(w, v, t)
  <2>1. Wealth(w, v, t) \in Int
    BY WealthInt
  <2> QED
    BY <1>3, <1>5, <2>1 DEF less
<1> QED
  BY <1>1, <1>5, <1>6, <1>7

\* What the market authority may still take stays an amount.
LEMMA SpendIs ==
  ASSUME NEW d \in Balances, NEW from \in Users, NEW to \in Users, NEW token \in {"base", "quote"},
         NEW amount \in Nat, d[from][token] - amount \in Nat
  PROVE  /\ Spend(d, from, to, token, amount) \in Balances
         /\ \A k \in Users, t \in {"base", "quote"} :
              t # token => Spend(d, from, to, token, amount)[k][t] = d[k][t]
<1> DEFINE less == -amount
           e == Credit(d, from, token, less)
<1>1. less \in Int /\ d[from][token] \in Nat
  BY DEF Balances, Balance
<1>2. d[from][token] + less \in Nat
  BY <1>1
<1>3. Spend(d, from, to, token, amount) = IF from = to THEN d ELSE e
  BY DEF Spend
<1> HIDE DEF less
<1>4. e \in Balances /\ BalanceIs(e, d, from, token, d[from][token] + less)
  BY <1>1, <1>2, CreditIs
<1> HIDE DEF e
<1>5. \A k \in Users, t \in {"base", "quote"} : t # token => e[k][t] = d[k][t]
  BY <1>4 DEF BalanceIs
<1> QED
  BY <1>3, <1>4, <1>5

\* The vault's balance of a token changes.
LEMMA VaultMoves ==
  ASSUME NEW w \in Balances, NEW v \in Balance, NEW y \in Balance, NEW t \in {"base", "quote"}
  PROVE  Wealth(w, y, t) = Wealth(w, v, t) + (y[t] - v[t])
<1>1. /\ Wealth(w, v, t) = SumFunctionOnSet([u \in Users |-> w[u][t]], Users) + v[t]
      /\ Wealth(w, y, t) = SumFunctionOnSet([u \in Users |-> w[u][t]], Users) + y[t]
  BY DEF Wealth
<1>2. SumFunctionOnSet([u \in Users |-> w[u][t]], Users) \in Int /\ v[t] \in Nat /\ y[t] \in Nat
  BY WealthInt
<1> QED
  BY <1>1, <1>2

LEMMA SettleFillKeeps ==
  ASSUME IInv, NEW slot \in HeapSlot, SettleFill(slot)
  PROVE  LET ev == heap.event[slot]
         IN  /\ Buyer(ev) \in Users /\ Seller(ev) \in Users /\ Buyer(ev) # Seller(ev)
             /\ QuoteMissing(ev) \in Nat /\ BaseMissing(ev) \in Nat
             /\ Book' \in Fresh(market.seq_num)
             /\ UNCHANGED <<market, now, oracle>>
<1> DEFINE ev == heap.event[slot]
           buyer == Buyer(ev)
           seller == Seller(ev)
           quote == QuoteAmount(ev)
           base == BaseAmount(ev)
           free1 == FreeLeft(oo[buyer].quote_free_native, AfterMargin(quote))
           free2 == FreeLeft(oo[seller].base_free_native, AfterMargin(base))
           quoteMissing == QuoteMissing(ev)
           baseMissing == BaseMissing(ev)
           lots == ev.qty * ev.price
           qty == ev.qty
<1>1. /\ ev # NoEvent /\ ev.type = "Fill" /\ buyer # seller
      /\ heap' = DeleteSlot(heap, slot)
      /\ UNCHANGED <<leaves, bump, market, now, oracle>>
      /\ oo' = [oo EXCEPT
           ![buyer].bids_quote_lots = @ - lots,
           ![buyer].quote_free_native = FreeLeft(@, AfterMargin(quote)),
           ![buyer].base_free_native = @ + base,
           ![seller].asks_base_lots = @ - qty,
           ![seller].base_free_native = FreeLeft(@, AfterMargin(base)),
           ![seller].quote_free_native = @ + quote]
  BY Zenon DEF SettleFill
<1>2. /\ buyer \in Users /\ seller \in Users /\ quote \in Nat /\ base \in Nat
      /\ lots \in Nat /\ qty \in Nat
  BY <1>1, PendingIs
<1>3. quoteMissing \in Nat /\ baseMissing \in Nat /\ free1 \in Nat /\ free2 \in Nat
  BY <1>1, MissingIs
<1>4. /\ oo \in [Users -> AccountType]
      /\ heap \in Heaps /\ HeapOK(heap)
  BY TypesNow
<1>5. heap' \in Heaps /\ HeapOK(heap')
  BY <1>1, <1>4, DeleteSlotKeeps
<1> HIDE DEF ev, buyer, seller, quote, base, lots, qty, quoteMissing, baseMissing
<1>6. oo' \in [Users -> AccountType]
  <2> DEFINE x1 == oo[buyer].bids_quote_lots - lots
             y1 == oo[buyer].base_free_native + base
             x2 == oo[seller].asks_base_lots - qty
             y2 == oo[seller].quote_free_native + quote
             a == [oo[buyer] EXCEPT !.bids_quote_lots = x1, !.quote_free_native = free1,
                                    !.base_free_native = y1]
             b == [oo[seller] EXCEPT !.asks_base_lots = x2, !.base_free_native = free2,
                                     !.quote_free_native = y2]
  <2>1. oo[buyer] \in AccountType /\ oo[seller] \in AccountType
    BY <1>2, <1>4
  <2>2. x1 \in Int /\ x2 \in Int /\ y1 \in Nat /\ y2 \in Nat
    BY <1>2, <2>1 DEF AccountType
  <2>3. oo' = [oo EXCEPT ![buyer] = a, ![seller] = b]
    BY <1>1, <1>2, <1>4 DEF AccountType
  <2> HIDE DEF x1, x2, y1, y2, free1, free2
  <2>4. a \in AccountType
    BY <1>3, <2>1, <2>2 DEF AccountType
  <2>5. b \in AccountType
    BY <1>3, <2>1, <2>2 DEF AccountType
  <2> HIDE DEF a, b
  <2> QED
    BY <1>2, <1>4, <2>3, <2>4, <2>5
<1>7. Book' \in Fresh(market.seq_num)
  BY <1>1, <1>5, <1>6, BookStays
<1> QED
  BY <1>1, <1>2, <1>3, <1>7 DEF ev, buyer, seller, quoteMissing, baseMissing

LEMMA FinalizeMatchStep ==
  ASSUME IInv, NEW slot \in HeapSlot, FinalizeMatch(slot)
  PROVE  Good
<1> DEFINE ev == heap.event[slot]
           buyer == Buyer(ev)
           seller == Seller(ev)
           quote == QuoteMissing(ev)
           base == BaseMissing(ev)
<1>1. SettleFill(slot)
  BY DEF FinalizeMatch
<1>2. /\ buyer \in Users /\ seller \in Users /\ quote \in Nat /\ base \in Nat
      /\ Book' \in Fresh(market.seq_num) /\ UNCHANGED <<market, now, oracle>>
  BY <1>1, SettleFillKeeps
<1>3. /\ wallet \in Balances /\ delegated \in Balances /\ vault \in Balance /\ market \in MarketType
      /\ vault.base \in Nat /\ vault.quote \in Nat
  BY TypesNow DEF Balance
<1>4. PICK a \in PassedFor[buyer], b \in PassedFor[seller] :
        /\ CanPull(a, "quote", quote) /\ CanPull(b, "base", base)
        /\ wallet' = Credit(Credit(wallet, a, "quote", -quote), b, "base", -base)
        /\ delegated' = Credit(Credit(delegated, a, "quote", -quote), b, "base", -base)
  BY DEF FinalizeMatch
<1>5. vault' = [vault EXCEPT !.quote = @ + quote, !.base = @ + base]
  BY DEF FinalizeMatch, VaultsAfterPull
<1> HIDE DEF ev, buyer, seller, quote, base
<1>6. a \in Users /\ b \in Users
  BY <1>2, PassedAreUsers
<1>7. /\ wallet[a]["quote"] - quote \in Nat /\ wallet[b]["base"] - base \in Nat
      /\ delegated[a]["quote"] - quote \in Nat /\ delegated[b]["base"] - base \in Nat
  BY <1>2, <1>3, <1>4, <1>6, PullIs
<1>8. ASSUME NEW w \in Balances, w[a]["quote"] - quote \in Nat, w[b]["base"] - base \in Nat
      PROVE  /\ Credit(Credit(w, a, "quote", -quote), b, "base", -base) \in Balances
             /\ \A v \in Balance :
                  /\ Wealth(Credit(Credit(w, a, "quote", -quote), b, "base", -base), v, "base")
                       = Wealth(w, v, "base") - base
                  /\ Wealth(Credit(Credit(w, a, "quote", -quote), b, "base", -base), v, "quote")
                       = Wealth(w, v, "quote") - quote
  <2> DEFINE lessQuote == -quote
             lessBase == -base
             x == Credit(w, a, "quote", lessQuote)
             y == Credit(x, b, "base", lessBase)
  <2>1. lessQuote \in Int /\ lessBase \in Int /\ w[a]["quote"] \in Nat /\ w[b]["base"] \in Nat
    BY <1>2, <1>6 DEF Balances, Balance
  <2>2. w[a]["quote"] + lessQuote \in Nat /\ w[b]["base"] + lessBase \in Nat
    BY <1>2, <1>8, <2>1
  <2> HIDE DEF lessQuote, lessBase
  <2>3. /\ x \in Balances /\ BalanceIs(x, w, a, "quote", w[a]["quote"] + lessQuote)
        /\ \A v \in Balance, t \in {"base", "quote"} :
             Wealth(x, v, t) = Wealth(w, v, t) + (IF t = "quote" THEN lessQuote ELSE 0)
    BY <1>6, <1>8, <2>1, <2>2, CreditIs
  <2> HIDE DEF x
  <2>4. x[b]["base"] + lessBase \in Nat
    BY <1>6, <2>2, <2>3 DEF BalanceIs
  <2>5. /\ y \in Balances
        /\ \A v \in Balance, t \in {"base", "quote"} :
             Wealth(y, v, t) = Wealth(x, v, t) + (IF t = "base" THEN lessBase ELSE 0)
    BY <1>6, <2>1, <2>3, <2>4, CreditIs
  <2> HIDE DEF y
  <2>6. ASSUME NEW v \in Balance
        PROVE  Wealth(y, v, "base") = Wealth(w, v, "base") - base
               /\ Wealth(y, v, "quote") = Wealth(w, v, "quote") - quote
    <3>1. Wealth(w, v, "base") \in Int /\ Wealth(w, v, "quote") \in Int
      BY <1>8, WealthInt
    <3> QED
      BY <1>2, <2>3, <2>5, <3>1 DEF lessQuote, lessBase
  <2> QED
    BY <2>5, <2>6 DEF x, y, lessQuote, lessBase
<1>9. delegated' \in Balances
  BY <1>3, <1>4, <1>7, <1>8
<1>10. /\ wallet' \in Balances
       /\ Wealth(wallet', vault, "base") = Wealth(wallet, vault, "base") - base
       /\ Wealth(wallet', vault, "quote") = Wealth(wallet, vault, "quote") - quote
  BY <1>3, <1>4, <1>7, <1>8
<1>11. vault' \in Balance /\ vault'["base"] = vault["base"] + base
       /\ vault'["quote"] = vault["quote"] + quote
  <2> DEFINE x == vault.quote + quote
             y == vault.base + base
  <2>1. x \in Nat /\ y \in Nat /\ vault' = [vault EXCEPT !.quote = x, !.base = y]
    BY <1>2, <1>3, <1>5
  <2> HIDE DEF x, y
  <2>2. vault' \in Balance /\ vault'["quote"] = x /\ vault'["base"] = y
    BY <1>3, <2>1 DEF Balance
  <2> QED
    BY <2>2 DEF x, y
<1>12. /\ Wealth(wallet', vault', "base") = Wealth(wallet, vault, "base")
       /\ Wealth(wallet', vault', "quote") = Wealth(wallet, vault, "quote")
  <2>1. /\ Wealth(wallet', vault', "base")
             = Wealth(wallet', vault, "base") + (vault'["base"] - vault["base"])
        /\ Wealth(wallet', vault', "quote")
             = Wealth(wallet', vault, "quote") + (vault'["quote"] - vault["quote"])
    BY <1>3, <1>10, <1>11, VaultMoves
  <2>2. Wealth(wallet, vault, "base") \in Int /\ Wealth(wallet, vault, "quote") \in Int
    BY <1>3, WealthInt
  <2> QED
    BY <1>2, <1>3, <1>10, <1>11, <2>1, <2>2
<1>13. IInv'
  BY <1>2, <1>3, <1>9, <1>10, <1>11 DEF IInv, TokensTyped
<1> QED
  BY <1>12, <1>13, KeptIfEqual DEF Good

LEMMA FinalizeMatchDirectStep ==
  ASSUME IInv, NEW slot \in HeapSlot, FinalizeMatchDirect(slot)
  PROVE  Good
<1> DEFINE ev == heap.event[slot]
           buyer == Buyer(ev)
           seller == Seller(ev)
           quote == QuoteMissing(ev)
           base == BaseMissing(ev)
<1>1. SettleFill(slot) /\ vault' = vault
  BY DEF FinalizeMatchDirect
<1>2. /\ buyer \in Users /\ seller \in Users /\ quote \in Nat /\ base \in Nat
      /\ Book' \in Fresh(market.seq_num) /\ UNCHANGED <<market, now, oracle>>
  BY <1>1, SettleFillKeeps
<1>3. wallet \in Balances /\ delegated \in Balances /\ vault \in Balance /\ market \in MarketType
  BY TypesNow
<1>4. PICK a \in PassedFor[buyer], c \in PassedFor[buyer],
           b \in PassedFor[seller], d \in PassedFor[seller] :
        /\ CanPull(a, "quote", quote) /\ CanPull(b, "base", base)
        /\ wallet' = Transfer(Transfer(wallet, a, d, "quote", quote), b, c, "base", base)
        /\ delegated' = Spend(Spend(delegated, a, d, "quote", quote), b, c, "base", base)
  BY DEF FinalizeMatchDirect
<1> HIDE DEF ev, buyer, seller, quote, base
<1>5. a \in Users /\ b \in Users /\ c \in Users /\ d \in Users
  BY <1>2, PassedAreUsers
<1>6. /\ wallet[a]["quote"] - quote \in Nat /\ wallet[b]["base"] - base \in Nat
      /\ delegated[a]["quote"] - quote \in Nat /\ delegated[b]["base"] - base \in Nat
  BY <1>2, <1>3, <1>4, <1>5, PullIs
<1>7. delegated' \in Balances
  <2> DEFINE x == Spend(delegated, a, d, "quote", quote)
  <2>1. x \in Balances /\ x[b]["base"] = delegated[b]["base"]
    BY <1>2, <1>3, <1>5, <1>6, SpendIs
  <2> HIDE DEF x
  <2>2. Spend(x, b, c, "base", base) \in Balances
    BY <1>2, <1>5, <1>6, <2>1, SpendIs
  <2> QED
    BY <1>4, <2>2 DEF x
<1>8. /\ wallet' \in Balances
      /\ \A t \in {"base", "quote"} : Wealth(wallet', vault, t) = Wealth(wallet, vault, t)
  <2> DEFINE x == Transfer(wallet, a, d, "quote", quote)
  <2>1. /\ x \in Balances /\ x[b]["base"] = wallet[b]["base"]
        /\ \A t \in {"base", "quote"} : Wealth(x, vault, t) = Wealth(wallet, vault, t)
    BY <1>2, <1>3, <1>5, <1>6, TransferIs
  <2> HIDE DEF x
  <2>2. /\ Transfer(x, b, c, "base", base) \in Balances
        /\ \A t \in {"base", "quote"} :
             Wealth(Transfer(x, b, c, "base", base), vault, t) = Wealth(x, vault, t)
    BY <1>2, <1>3, <1>5, <1>6, <2>1, TransferIs
  <2> QED
    BY <1>4, <2>1, <2>2 DEF x
<1>9. IInv'
  BY <1>1, <1>2, <1>3, <1>7, <1>8 DEF IInv, TokensTyped
<1>10. /\ Wealth(wallet', vault', "base") = Wealth(wallet, vault, "base")
       /\ Wealth(wallet', vault', "quote") = Wealth(wallet, vault, "quote")
  BY <1>1, <1>8
<1> QED
  BY <1>9, <1>10, KeptIfEqual DEF Good

LEMMA FinalizeOutStep ==
  ASSUME IInv, NEW slot \in HeapSlot, FinalizeOut(slot)
  PROVE  Good
<1>1. /\ heap.event[slot] # NoEvent /\ heap' = DeleteSlot(heap, slot)
      /\ UNCHANGED <<leaves, bump, oo, market, wallet, delegated, vault, now, oracle>>
  BY DEF FinalizeOut
<1>2. heap' \in Heaps /\ HeapOK(heap') /\ oo' \in [Users -> AccountType]
  BY <1>1, TypesNow, DeleteSlotKeeps
<1>3. Book' \in Fresh(market.seq_num)
  BY <1>1, <1>2, BookStays
<1> QED
  BY <1>1, <1>3, KeptIfUnmoved DEF Good, IInv, TokensTyped

LEMMA PenaltyStep ==
  ASSUME IInv, NEW slot \in HeapSlot, NEW side \in Side, CancelWithPenalty(slot, side)
  PROVE  Good
<1> DEFINE ev == heap.event[slot]
           amount == ev.qty * ev.price
           owner == ev.taker
           cpty == ev.maker
           bid == side = "Bid"
           ownerFree == IF bid THEN oo[owner].quote_free_native ELSE oo[owner].base_free_native
           cptyFree == IF bid THEN oo[cpty].base_free_native ELSE oo[cpty].quote_free_native
           pays == amount - ownerFree
           penalty == (amount - cptyFree) \div MarginDivisor
<1>1. /\ ev # NoEvent /\ ev.type # "Out" /\ owner # cpty /\ pays >= 0 /\ cptyFree < amount
      /\ oo' = IF bid
               THEN [oo EXCEPT ![owner].quote_free_native = @ + pays,
                               ![owner].base_free_native = @ + penalty,
                               ![cpty].asks_base_lots = @ - penalty]
               ELSE [oo EXCEPT ![owner].base_free_native = @ + pays,
                               ![owner].quote_free_native = @ + penalty,
                               ![cpty].bids_quote_lots = @ - penalty]
      /\ vault' = [vault EXCEPT !["base"] = @ + pays]
      /\ heap' = DeleteSlot(heap, slot)
      /\ UNCHANGED <<leaves, bump, market, now, oracle>>
  BY Zenon DEF CancelWithPenalty
<1>0. PICK from \in PassedFor[owner] :
        /\ CanPull(from, "base", pays)
        /\ wallet' = Credit(wallet, from, "base", -pays)
        /\ delegated' = Credit(delegated, from, "base", -pays)
  BY Zenon DEF CancelWithPenalty
<1>2. owner \in Users /\ cpty \in Users /\ amount \in Nat
  BY <1>1, PendingIs
<1>3. /\ oo \in [Users -> AccountType] /\ wallet \in Balances /\ delegated \in Balances
      /\ heap \in Heaps /\ HeapOK(heap) /\ vault \in Balance /\ market \in MarketType
  BY TypesNow
<1>4. heap' \in Heaps /\ HeapOK(heap')
  BY <1>1, <1>3, DeleteSlotKeeps
<1> HIDE DEF ev, amount, owner, cpty
<1>5. oo[owner] \in AccountType /\ oo[cpty] \in AccountType
  BY <1>2, <1>3
<1>6. ownerFree \in Nat /\ cptyFree \in Nat
  BY <1>5 DEF AccountType
<1> HIDE DEF ownerFree, cptyFree
<1>7. pays \in Nat /\ penalty \in Nat
  <2> DEFINE due == amount - cptyFree
  <2>1. due \in Nat
    BY <1>1, <1>2, <1>6
  <2> HIDE DEF due
  <2>2. due \div MarginDivisor \in Nat
    BY <2>1, FermiAssumption, DivisionNat
  <2> QED
    BY <1>1, <1>2, <1>6, <2>2 DEF due
<1> HIDE DEF pays, penalty
<1>8. oo' \in [Users -> AccountType]
  <2> DEFINE a == oo[owner]
             c == oo[cpty]
             x1 == a.quote_free_native + pays
             y1 == a.base_free_native + penalty
             z1 == c.asks_base_lots - penalty
             x2 == a.base_free_native + pays
             y2 == a.quote_free_native + penalty
             z2 == c.bids_quote_lots - penalty
             a1 == [a EXCEPT !.quote_free_native = x1, !.base_free_native = y1]
             c1 == [c EXCEPT !.asks_base_lots = z1]
             a2 == [a EXCEPT !.base_free_native = x2, !.quote_free_native = y2]
             c2 == [c EXCEPT !.bids_quote_lots = z2]
  <2>1. oo' = IF bid THEN [oo EXCEPT ![owner] = a1, ![cpty] = c1]
              ELSE [oo EXCEPT ![owner] = a2, ![cpty] = c2]
    BY <1>1, <1>2, <1>3 DEF AccountType
  <2>2. x1 \in Nat /\ x2 \in Nat /\ y1 \in Nat /\ y2 \in Nat /\ z1 \in Int /\ z2 \in Int
    BY <1>5, <1>7 DEF AccountType
  <2> HIDE DEF x1, x2, y1, y2, z1, z2
  <2>3. a1 \in AccountType /\ a2 \in AccountType
    BY <1>5, <2>2 DEF AccountType
  <2>4. c1 \in AccountType /\ c2 \in AccountType
    BY <1>5, <2>2 DEF AccountType
  <2> HIDE DEF a1, a2, c1, c2
  <2> QED
    BY <1>2, <1>3, <2>1, <2>3, <2>4
<1>9. Book' \in Fresh(market.seq_num)
  BY <1>1, <1>4, <1>8, BookStays
<1>10. from \in Users
  BY <1>0, <1>2, PassedAreUsers
<1>11. wallet[from]["base"] - pays \in Nat /\ delegated[from]["base"] - pays \in Nat
  BY <1>0, <1>3, <1>7, <1>10, PullIs
<1>12. /\ wallet' \in Balances /\ delegated' \in Balances
       /\ Wealth(wallet', vault, "base") = Wealth(wallet, vault, "base") - pays
       /\ Wealth(wallet', vault, "quote") = Wealth(wallet, vault, "quote")
  <2> DEFINE less == -pays
  <2>1. /\ less \in Int /\ wallet[from]["base"] + less \in Nat
        /\ delegated[from]["base"] + less \in Nat
    <3>1. wallet[from]["base"] \in Nat /\ delegated[from]["base"] \in Nat
      BY <1>3, <1>10 DEF Balances, Balance
    <3> QED
      BY <1>7, <1>11, <3>1
  <2>2. /\ wallet' = Credit(wallet, from, "base", less)
        /\ delegated' = Credit(delegated, from, "base", less)
    BY <1>0
  <2> HIDE DEF less
  <2>3. /\ wallet' \in Balances
        /\ \A v \in Balance, t \in {"base", "quote"} :
             Wealth(wallet', v, t) = Wealth(wallet, v, t) + (IF t = "base" THEN less ELSE 0)
    BY <1>3, <1>10, <2>1, <2>2, CreditIs
  <2>4. delegated' \in Balances
    BY <1>3, <1>10, <2>1, <2>2, CreditIs
  <2>5. Wealth(wallet, vault, "base") \in Int /\ Wealth(wallet, vault, "quote") \in Int
    BY <1>3, WealthInt
  <2> QED
    BY <1>3, <1>7, <2>3, <2>4, <2>5 DEF less
<1>13. /\ vault' \in Balance /\ vault'["base"] = vault["base"] + pays
       /\ vault'["quote"] = vault["quote"] /\ vault["base"] \in Nat /\ vault["quote"] \in Nat
  BY <1>1, <1>3, <1>7 DEF Balance
<1>14. IInv'
  BY <1>1, <1>3, <1>9, <1>12, <1>13 DEF IInv, TokensTyped
<1>15. /\ Wealth(wallet', vault', "base") = Wealth(wallet, vault, "base")
       /\ Wealth(wallet', vault', "quote") = Wealth(wallet, vault, "quote")
  <2>1. /\ Wealth(wallet', vault', "base")
             = Wealth(wallet', vault, "base") + (vault'["base"] - vault["base"])
        /\ Wealth(wallet', vault', "quote")
             = Wealth(wallet', vault, "quote") + (vault'["quote"] - vault["quote"])
    BY <1>3, <1>12, <1>13, VaultMoves
  <2>2. Wealth(wallet, vault, "base") \in Int /\ Wealth(wallet, vault, "quote") \in Int
    BY <1>3, WealthInt
  <2> QED
    BY <1>7, <1>12, <1>13, <2>1, <2>2
<1> QED
  BY <1>14, <1>15, KeptIfEqual DEF Good

\* Wallet u pays d, and the vault is paid it.
OnePaid(w, x, v, y, token, u, d) ==
  /\ SameBut({u}, x, w, token)
  /\ x[u][token] = w[u][token] - d
  /\ y[token] = v[token] + d
LEMMA OneIsPaid ==
  ASSUME NEW w \in Balances, NEW x \in Balances, NEW v \in Balance, NEW y \in Balance,
         NEW token \in {"base", "quote"}, NEW u \in Users,
         NEW d \in Int, OnePaid(w, x, v, y, token, u, d)
  PROVE  Wealth(x, y, token) = Wealth(w, v, token)
<1>1. /\ \A k \in Users \ {u} : x[k][token] = w[k][token]
      /\ x[u][token] = w[u][token] - d /\ y[token] = v[token] + d
  BY DEF OnePaid, SameBut
<1> QED
  BY <1>1, OnePays

\* What the wallets and the vault pay when a match of a market order is finalized:
\* wallet a pays b, and the vault pays c.
MarketPaid(w, x, v, y, a, b, c, t, o, missing, paid) ==
  /\ x = Credit(Transfer(w, a, b, t, missing), c, o, paid)
  /\ y = [v EXCEPT ![o] = @ - paid]
NothingMade(w, x, v, y) ==
  /\ x \in Balances /\ y \in Balance
  /\ Wealth(x, y, "base") = Wealth(w, v, "base")
  /\ Wealth(x, y, "quote") = Wealth(w, v, "quote")
LEMMA MarketPays ==
  ASSUME NEW w \in Balances, NEW x, NEW v \in Balance, NEW y,
         NEW a \in Users, NEW b \in Users, NEW c \in Users, NEW t \in {"base", "quote"},
         NEW o \in {"base", "quote"}, o # t, NEW missing \in Nat, NEW paid \in Nat,
         w[a][t] - missing \in Nat, v[o] - paid \in Nat,
         MarketPaid(w, x, v, y, a, b, c, t, o, missing, paid)
  PROVE  NothingMade(w, x, v, y)
<1> DEFINE z == Transfer(w, a, b, t, missing)
           y1 == v[o] - paid
<1>1. z \in Balances /\ \A s \in {"base", "quote"} : Wealth(z, v, s) = Wealth(w, v, s)
  BY TransferIs
<1>2. x = Credit(z, c, o, paid) /\ y = [v EXCEPT ![o] = y1]
  BY DEF MarketPaid
<1> HIDE DEF z
<1>3. z[c][o] + paid \in Nat /\ paid \in Int
  <2>1. z[c][o] \in Nat
    BY <1>1 DEF Balances, Balance
  <2> QED
    BY <2>1
<1>4. /\ x \in Balances
      /\ \A s \in {"base", "quote"} :
           Wealth(x, v, s) = Wealth(z, v, s) + (IF s = o THEN paid ELSE 0)
  BY <1>1, <1>2, <1>3, CreditIs
<1>5. y1 \in Nat
  OBVIOUS
<1>6. y \in Balance /\ y[o] = y1 /\ \A s \in {"base", "quote"} : s # o => y[s] = v[s]
  <2> HIDE DEF y1
  <2> QED
    BY <1>2, <1>5 DEF Balance
<1>7. ASSUME NEW s \in {"base", "quote"}
      PROVE  Wealth(x, y, s) = Wealth(w, v, s)
  <2>1. Wealth(x, y, s) = Wealth(x, v, s) + (y[s] - v[s])
    BY <1>4, <1>6, VaultMoves
  <2>2. Wealth(w, v, s) \in Int /\ v[s] \in Nat
    BY WealthInt
  <2>3. Wealth(x, v, s) = Wealth(w, v, s) + (IF s = o THEN paid ELSE 0)
    BY <1>1, <1>4
  <2>4. CASE s = o
    BY <1>6, <2>1, <2>2, <2>3, <2>4
  <2>5. CASE s # o
    <3>1. y[s] = v[s]
      BY <1>6, <2>5
    <3> QED
      BY <2>1, <2>2, <2>3, <2>5, <3>1
  <2> QED
    BY <2>4, <2>5
<1> QED
  BY <1>4, <1>6, <1>7 DEF NothingMade

LEMMA FinalizeMarketStep ==
  ASSUME IInv, NEW slot \in HeapSlot, NEW account \in Users, FinalizeMarketOn(slot, account)
  PROVE  Good
<1> DEFINE ev == heap.event[slot]
           makerSells == ev.taker_side = "Bid"
           token == IF makerSells THEN "base" ELSE "quote"
           other == IF makerSells THEN "quote" ELSE "base"
           quote == QuoteAmount(ev)
           base == BaseAmount(ev)
           paid == IF makerSells THEN quote ELSE base
           missing == IF makerSells THEN BaseMissingOf(account, ev) ELSE QuoteMissingOf(account, ev)
           lots == IF makerSells THEN AfterMargin(base) \div BaseLotSize ELSE ev.qty * ev.price
           free == IF makerSells THEN FreeLeft(oo[account].base_free_native, AfterMargin(base))
                   ELSE FreeLeft(oo[account].quote_free_native, AfterMargin(quote))
<1>1. /\ ev # NoEvent /\ ev.type = "FillDirect" /\ vault[other] >= paid
      /\ oo' = IF makerSells
               THEN [oo EXCEPT ![account].asks_base_lots = @ - lots,
                               ![account].base_free_native = FreeLeft(@, AfterMargin(base))]
               ELSE [oo EXCEPT ![account].bids_quote_lots = @ - lots,
                               ![account].quote_free_native = FreeLeft(@, AfterMargin(quote))]
      /\ vault' = [vault EXCEPT ![other] = @ - paid]
      /\ heap' = DeleteSlot(heap, slot)
      /\ UNCHANGED <<leaves, bump, market, now, oracle>>
  BY Zenon DEF FinalizeMarketOn
<1>0. PICK a \in PassedFor[ev.maker], c \in PassedFor[ev.maker], b \in PassedFor[ev.taker] :
        /\ CanPull(a, token, missing)
        /\ wallet' = Credit(Transfer(wallet, a, b, token, missing), c, other, paid)
        /\ delegated' = Spend(delegated, a, b, token, missing)
  BY Zenon DEF FinalizeMarketOn
<1>2. /\ ev.maker \in Users /\ ev.taker \in Users /\ quote \in Nat /\ base \in Nat
      /\ ev.qty * ev.price \in Nat
  BY <1>1, PendingIs
<1>3. missing \in Nat /\ free \in Nat
  <2>1. /\ QuoteMissingOf(account, ev) \in Nat /\ BaseMissingOf(account, ev) \in Nat
        /\ FreeLeft(oo[account].quote_free_native, AfterMargin(quote)) \in Nat
        /\ FreeLeft(oo[account].base_free_native, AfterMargin(base)) \in Nat
    <3>1. ev.type # "Out"
      BY <1>1
    <3> QED
      BY <1>1, <3>1, MissingOf
  <2> HIDE DEF makerSells, quote, base, ev
  <2> QED
    BY <2>1
<1>4. /\ oo \in [Users -> AccountType] /\ wallet \in Balances /\ delegated \in Balances
      /\ heap \in Heaps /\ HeapOK(heap) /\ vault \in Balance /\ market \in MarketType
  BY TypesNow
<1>5. heap' \in Heaps /\ HeapOK(heap')
  BY <1>1, <1>4, DeleteSlotKeeps
<1>6. lots \in Nat /\ paid \in Nat
  <2> DEFINE due == AfterMargin(base)
  <2>1. due \in Nat
    BY <1>2, AfterMarginIs
  <2> HIDE DEF due
  <2>2. due \div BaseLotSize \in Nat
    BY <2>1, MarketAssumption, DivisionNat
  <2>3. lots = IF makerSells THEN due \div BaseLotSize ELSE ev.qty * ev.price
    BY DEF due
  <2> DEFINE byBase == due \div BaseLotSize
             byQuote == ev.qty * ev.price
  <2>4. lots \in Nat
    <3>1. lots = IF makerSells THEN byBase ELSE byQuote
      BY <2>3
    <3>2. byBase \in Nat
      BY <2>2
    <3>3. byQuote \in Nat
      BY Zenon, <1>2
    <3> HIDE DEF byBase, byQuote, lots, makerSells
    <3> QED
      BY <3>1, <3>2, <3>3
  <2>5. paid \in Nat
    BY <1>2
  <2> QED
    BY <2>4, <2>5
<1>7. token \in {"base", "quote"} /\ other \in {"base", "quote"} /\ other # token
  OBVIOUS
<1> HIDE DEF ev, quote, base, lots, missing, paid
<1>8. oo' \in [Users -> AccountType]
  <2> DEFINE acct == oo[account]
             x == acct.asks_base_lots - lots
             y == acct.bids_quote_lots - lots
             asSeller == [acct EXCEPT !.asks_base_lots = x, !.base_free_native = free]
             asBuyer == [acct EXCEPT !.bids_quote_lots = y, !.quote_free_native = free]
  <2>1. oo' = IF makerSells THEN [oo EXCEPT ![account] = asSeller] ELSE [oo EXCEPT ![account] = asBuyer]
    BY <1>1, <1>2, <1>4 DEF AccountType
  <2>2. x \in Int /\ y \in Int /\ acct \in AccountType
    BY <1>2, <1>4, <1>6 DEF AccountType
  <2> HIDE DEF x, y, free
  <2>3. asSeller \in AccountType
    BY <1>3, <2>2 DEF AccountType
  <2>4. asBuyer \in AccountType
    BY <1>3, <2>2 DEF AccountType
  <2> HIDE DEF asSeller, asBuyer
  <2> QED
    BY <1>2, <1>4, <2>1, <2>3, <2>4
<1>9. Book' \in Fresh(market.seq_num)
  BY <1>1, <1>5, <1>8, BookStays
<1> HIDE DEF token, other
<1>10. a \in Users /\ b \in Users /\ c \in Users
  BY <1>0, <1>2, PassedAreUsers
<1>11. /\ wallet[a][token] - missing \in Nat /\ delegated[a][token] - missing \in Nat
       /\ vault[other] - paid \in Nat
  <2>1. vault[other] \in Nat
    BY <1>4, <1>7 DEF Balance
  <2> QED
    BY <1>0, <1>1, <1>3, <1>4, <1>6, <1>7, <1>10, <2>1, PullIs
<1>12. delegated' \in Balances
  BY <1>0, <1>3, <1>4, <1>7, <1>10, <1>11, SpendIs
<1>13. NothingMade(wallet, wallet', vault, vault')
  <2>1. MarketPaid(wallet, wallet', vault, vault', a, b, c, token, other, missing, paid)
    BY <1>0, <1>1 DEF MarketPaid
  <2>2. /\ wallet \in Balances /\ vault \in Balance /\ missing \in Nat /\ paid \in Nat
        /\ a \in Users /\ b \in Users /\ c \in Users
        /\ token \in {"base", "quote"} /\ other \in {"base", "quote"} /\ other # token
        /\ wallet[a][token] - missing \in Nat /\ vault[other] - paid \in Nat
    BY <1>3, <1>4, <1>6, <1>7, <1>10, <1>11
  <2> QED
    BY ONLY <2>1, <2>2, MarketPays, ZenonT(60)
<1>14. IInv'
  BY <1>1, <1>4, <1>9, <1>12, <1>13 DEF IInv, TokensTyped, NothingMade
<1> QED
  BY <1>13, <1>14, KeptIfEqual DEF Good, NothingMade

-----------------------------------------------------------------------------
(* Placing orders.                                                         *)

\* A user pays an amount of one token to the vault.
TokenPaid(u, token, amount) ==
  /\ wallet' = [wallet EXCEPT ![u][token] = @ - amount]
  /\ vault' = [vault EXCEPT ![token] = @ + amount]
LEMMA TokenPays ==
  ASSUME wallet \in Balances, vault \in Balance, NEW u \in Users,
         NEW token \in {"base", "quote"}, NEW amount \in Nat, wallet[u][token] >= amount,
         TokenPaid(u, token, amount)
  PROVE  wallet' \in Balances /\ vault' \in Balance /\ Kept
<1> DEFINE x == wallet[u][token] - amount
           y == vault[token] + amount
<1>1. wallet[u][token] \in Nat /\ vault[token] \in Nat
  BY DEF Balances, Balance
<1>2. x \in Nat /\ y \in Nat
  BY <1>1
<1>3. wallet' = WithBalance(wallet, u, token, x) /\ vault' = [vault EXCEPT ![token] = y]
  BY DEF TokenPaid, WithBalance
<1> HIDE DEF x, y
<1>4. BalanceIs(wallet', wallet, u, token, x) /\ wallet' \in Balances
  BY <1>2, <1>3, BalanceSet
<1>5. vault' \in Balance /\ vault'[token] = y
      /\ \A t \in {"base", "quote"} : t # token => vault'[t] = vault[t]
  BY <1>2, <1>3 DEF Balance
<1>6. ASSUME NEW t \in {"base", "quote"}
      PROVE  Wealth(wallet', vault', t) = Wealth(wallet, vault, t)
  <2> DEFINE d == IF t = token THEN amount ELSE 0
  <2>1. d \in Int
    OBVIOUS
  <2>2. wallet[u][t] \in Nat /\ vault[t] \in Nat
    BY DEF Balances, Balance
  <2>3. wallet'[u][t] = wallet[u][t] - d
    <3>1. CASE t = token
      BY <1>4, <3>1 DEF BalanceIs, x
    <3>2. CASE t # token
      BY <1>4, <2>2, <3>2 DEF BalanceIs
    <3> QED
      BY <3>1, <3>2
  <2>4. vault'[t] = vault[t] + d
    <3>1. CASE t = token
      BY <1>5, <3>1 DEF y
    <3>2. CASE t # token
      BY <1>5, <2>2, <3>2
    <3> QED
      BY <3>1, <3>2
  <2> HIDE DEF d
  <2>5. SameBut({u}, wallet', wallet, t)
    BY <1>4 DEF BalanceIs, SameBut
  <2>6. OnePaid(wallet, wallet', vault, vault', t, u, d)
    BY <2>3, <2>4, <2>5 DEF OnePaid
  <2> QED
    BY <1>4, <1>5, <2>1, <2>6, OneIsPaid
<1> QED
  BY <1>4, <1>5, <1>6, KeptIfEqual

\* What the accounts of Place and CancelAndPlaceOrders become.
LEMMA AccountPlaced ==
  ASSUME NEW a \in AccountType, NEW base \in Nat, NEW quote \in Nat,
         NEW approvedBase \in Nat, NEW approvedQuote \in Nat, NEW more \in Nat
  PROVE  [a EXCEPT !.penalty_heap_count = @ + more,
                   !.total_approved_quote = approvedQuote,
                   !.total_approved_base = approvedBase] \in AccountType
         /\ [a EXCEPT !.base_free_native = base, !.quote_free_native = quote,
                      !.penalty_heap_count = @ + more] \in AccountType
<1> DEFINE x == a.penalty_heap_count + more
<1>1. x \in Nat
  BY DEF AccountType
<1> HIDE DEF x
<1>2. [a EXCEPT !.penalty_heap_count = x, !.total_approved_quote = approvedQuote,
                !.total_approved_base = approvedBase] \in AccountType
      /\ [a EXCEPT !.base_free_native = base, !.quote_free_native = quote,
                   !.penalty_heap_count = x] \in AccountType
  BY <1>1 DEF AccountType
<1> QED
  BY <1>2 DEF x

LEMMA CommittedIs ==
  ASSUME NEW order \in OrderType, NEW r, Amounts(r)
  PROVE  Committed(order, r) \in Nat
BY DEF Committed, Amounts

LEMMA PlaceStep ==
  ASSUME IInv, NEW u \in Users, NEW b \in Fresh(market.seq_num),
         NEW order \in OrderType, WellPegged(order), ~ExpiryPassed(order, now),
         NEW remaining, Place(b, u, order, remaining)
  PROVE  Good
<1> DEFINE n == market.seq_num
           bid == order.side = "Bid"
           token == TokenOf(order.side)
<1>1. /\ now \in 1..MaxTime /\ oracle \in Int \cup {NoOracle} /\ oracle \in Oracles
      /\ n \in 0..MaxOrders /\ market \in MarketType
      /\ wallet \in Balances /\ delegated \in Balances /\ vault \in Balance
  BY TypesNow, FermiAssumption DEF IInv
<1>2. n < MaxOrders /\ UNCHANGED <<now, oracle>>
  BY Zenon DEF Place
<1> DEFINE Approved(r) == Committed(order, r) + IF bid THEN r.b.oo[u].total_approved_quote
                                                ELSE r.b.oo[u].total_approved_base
           Grew(r) == HeapLen(r.b.heap) > HeapLen(b.heap)
           Account(r) == [r.b.oo[u] EXCEPT
                            !.penalty_heap_count = @ + IF Grew(r) THEN 1 ELSE 0,
                            !.total_approved_quote = IF bid THEN Approved(r) ELSE @,
                            !.total_approved_base = IF bid THEN @ ELSE Approved(r)]
<1>3. PICK r \in NewOrder(b, n, order, u, {u}, remaining, now, oracle) :
        /\ wallet[u][token] >= Approved(r) \div MarginDivisor
        /\ BookBecomes([r.b EXCEPT !.oo[u] = Account(r)])
        /\ market' = [market EXCEPT
                        !.seq_num = r.seq_num,
                        !.quote_deposit_total = @ + IF bid THEN Committed(order, r) ELSE 0,
                        !.base_deposit_total = @ + IF bid THEN 0 ELSE Committed(order, r)]
        /\ wallet' = [wallet EXCEPT ![u][token] = @ - Approved(r) \div MarginDivisor]
        /\ vault' = [vault EXCEPT ![token] = @ + Approved(r) \div MarginDivisor]
        /\ delegated' = IF Approved(r) = 0 THEN delegated
                        ELSE [delegated EXCEPT ![u][token] = Approved(r)]
  BY Zenon DEF Place
<1>4. Placed(b, n, order, r)
  BY <1>1, <1>2, NewOrderKeeps
<1> DEFINE amount == Committed(order, r)
           approved == Approved(r)
           margin == approved \div MarginDivisor
           a == r.b.oo[u]
           c == Account(r)
<1>5. /\ r.b \in Fresh(n + 1) /\ r.seq_num = n + 1 /\ a \in AccountType /\ amount \in Nat
  <2>1. r.b \in Books
    BY <1>4 DEF Placed, Grown
  <2> QED
    BY <1>4, <2>1, CommittedIs DEF Placed, Books, BookType
<1>6. approved \in Nat
  <2>1. a.total_approved_quote \in Nat /\ a.total_approved_base \in Nat
    BY <1>5 DEF AccountType
  <2> QED
    BY <1>5, <2>1
<1>7. c \in AccountType
  <2> DEFINE more == IF Grew(r) THEN 1 ELSE 0
             approvedQuote == IF bid THEN approved ELSE a.total_approved_quote
             approvedBase == IF bid THEN a.total_approved_base ELSE approved
  <2>1. more \in Nat /\ approvedQuote \in Nat /\ approvedBase \in Nat
    BY <1>5, <1>6 DEF AccountType
  <2>2. c = [a EXCEPT !.penalty_heap_count = @ + more, !.total_approved_quote = approvedQuote,
                      !.total_approved_base = approvedBase]
    OBVIOUS
  <2> HIDE DEF more, approvedQuote, approvedBase, c, a
  <2>3. 0 \in Nat /\ a \in AccountType
    BY <1>5
  <2> QED
    BY <2>1, <2>2, <2>3, AccountPlaced
<1>8. margin \in Nat
  BY <1>6, FermiAssumption, DivisionNat
<1>9. token \in {"base", "quote"}
  BY DEF TokenOf
<1>10. wallet[u][token] >= margin /\ TokenPaid(u, token, margin)
  BY <1>3 DEF TokenPaid
<1> HIDE DEF Approved, Account, approved, margin, token, c, amount, a
<1>11. wallet' \in Balances /\ vault' \in Balance /\ Kept
  BY <1>1, <1>8, <1>9, <1>10, TokenPays
<1>12. delegated' \in Balances
  <2>1. delegated' = delegated \/ delegated' = WithBalance(delegated, u, token, approved)
    BY <1>3 DEF WithBalance, approved
  <2>2. WithBalance(delegated, u, token, approved) \in Balances
    BY <1>1, <1>6, <1>9, BalanceSet
  <2> QED
    BY <1>1, <2>1, <2>2
<1>13. market' \in MarketType /\ market'.seq_num = n + 1
  <2> DEFINE x == market.quote_deposit_total + IF bid THEN amount ELSE 0
             y == market.base_deposit_total + IF bid THEN 0 ELSE amount
             k == n + 1
  <2>1. x \in Nat /\ y \in Nat /\ k \in 0..MaxOrders
    BY <1>1, <1>2, <1>5, FermiAssumption, SMTT(30) DEF MarketType
  <2>2. market' = [market EXCEPT !.seq_num = k, !.quote_deposit_total = x,
                                 !.base_deposit_total = y]
    BY <1>3, <1>5 DEF amount
  <2> HIDE DEF x, y, k
  <2>3. market' \in MarketType /\ market'.seq_num = k
    BY <1>1, <2>1, <2>2 DEF MarketType
  <2> QED
    BY <2>3 DEF k
<1>14. Book' \in Fresh(n + 1)
  <2>1. [r.b EXCEPT !.oo[u] = c] \in Fresh(n + 1)
    BY <1>5, <1>7, AccountChanges
  <2>2. BookBecomes([r.b EXCEPT !.oo[u] = c])
    BY <1>3 DEF c
  <2> HIDE DEF n
  <2> QED
    BY <2>1, <2>2, BookBecomesIs
<1>15. IInv'
  BY <1>1, <1>2, <1>11, <1>12, <1>13, <1>14 DEF IInv, TokensTyped
<1> QED
  BY <1>11, <1>15 DEF Good

LEMMA PlaceOrderStep ==
  ASSUME IInv, NEW u \in Users, NEW order \in Orders, NEW remaining,
         PlaceOrder(u, order, remaining)
  PROVE  Good
<1>1. Book \in Fresh(market.seq_num)
  BY DEF IInv
<1>2. order \in OrderType /\ WellPegged(order)
  BY FermiAssumption
<1>3. ~ExpiryPassed(order, now) /\ Place(Book, u, order, remaining)
  BY Zenon DEF PlaceOrder
<1> QED
  BY <1>1, <1>2, <1>3, PlaceStep

LEMMA EditOrderStep ==
  ASSUME IInv, NEW u \in Users, NEW slot \in OrderSlot, NEW expected \in EditSizes,
         NEW order \in Orders, NEW remaining, EditOrder(u, slot, expected, order, remaining)
  PROVE  Good
<1> DEFINE cancelled == CancelOrder(Book, u, slot)
<1>1. DropKeeps(Fresh(market.seq_num), {u}) /\ Book \in Fresh(market.seq_num)
  BY FreshDrops DEF IInv, Fresh
<1>2. cancelled \in Fresh(market.seq_num)
  BY <1>1, CancelOrderStays
<1>3. PICK resting \in LeafOf(Book, u, slot) :
        \/ /\ order.base > expected - resting.qty
           /\ Place(cancelled, u, [order EXCEPT !.base = @ - (expected - resting.qty)], remaining)
        \/ BookBecomes(cancelled) /\ UNCHANGED <<market, wallet, delegated, vault, now, oracle>>
  BY Zenon DEF EditOrder
<1>4. ~ExpiryPassed(order, now)
  BY Zenon DEF EditOrder
<1> HIDE DEF cancelled
<1>5. CASE BookBecomes(cancelled) /\ UNCHANGED <<market, wallet, delegated, vault, now, oracle>>
  BY <1>2, <1>5, CancelSteps DEF OnBookOnly
<1>6. CASE /\ order.base > expected - resting.qty
           /\ Place(cancelled, u, [order EXCEPT !.base = @ - (expected - resting.qty)], remaining)
  <2>1. resting \in Leaves
    <3>1. resting \in leaves
      BY Zenon DEF LeafOf, Book
    <3> QED
      BY <3>1, TypesNow
  <2>2. resting.qty \in Nat /\ expected \in Nat /\ order \in OrderType /\ WellPegged(order)
    BY <2>1, FermiAssumption DEF Leaves, LeafType
  <2> DEFINE x == order.base - (expected - resting.qty)
             smaller == [order EXCEPT !.base = x]
  <2>3. x \in Nat
    BY <1>6, <2>2 DEF OrderType
  <2> HIDE DEF x
  <2>4. smaller \in OrderType /\ WellPegged(smaller) /\ ~ExpiryPassed(smaller, now)
    BY <1>4, <2>2, <2>3 DEF OrderType, WellPegged, ExpiryPassed, IsMarket
  <2>5. Place(cancelled, u, smaller, remaining)
    BY <1>6 DEF x
  <2> HIDE DEF smaller
  <2> QED
    BY <1>2, <2>4, <2>5, PlaceStep
<1> QED
  BY <1>3, <1>5, <1>6

\* A user pays an amount of each token to the vault.
BothPaid(u, base, quote) ==
  /\ wallet' = [wallet EXCEPT ![u].base = @ - base, ![u].quote = @ - quote]
  /\ vault' = [base |-> vault.base + base, quote |-> vault.quote + quote]
LEMMA BothPay ==
  ASSUME wallet \in Balances, vault \in Balance, NEW u \in Users, NEW base \in Nat, NEW quote \in Nat,
         wallet[u].base >= base, wallet[u].quote >= quote, BothPaid(u, base, quote)
  PROVE  wallet' \in Balances /\ vault' \in Balance /\ Kept
<1> DEFINE w == wallet[u]
<1>1. w \in Balance /\ w.base \in Nat /\ w.quote \in Nat /\ vault.base \in Nat /\ vault.quote \in Nat
  BY DEF Balances, Balance
<1>2. wallet' \in Balances /\ (\A k \in Users \ {u} : wallet'[k] = wallet[k])
      /\ wallet'[u].base = w.base - base /\ wallet'[u].quote = w.quote - quote
  <2>1. w.base - base \in Nat /\ w.quote - quote \in Nat
    BY <1>1
  <2> QED
    BY <2>1 DEF Balances, Balance, BothPaid
<1>3. vault' \in Balance /\ vault'.base = vault.base + base /\ vault'.quote = vault.quote + quote
  <2>1. vault.base + base \in Nat /\ vault.quote + quote \in Nat
    BY <1>1
  <2> QED
    BY <2>1 DEF Balance, BothPaid
<1>4. /\ OnePaid(wallet, wallet', vault, vault', "base", u, base)
      /\ OnePaid(wallet, wallet', vault, vault', "quote", u, quote)
  BY <1>2, <1>3 DEF OnePaid, SameBut
<1>5. /\ Wealth(wallet', vault', "base") = Wealth(wallet, vault, "base")
      /\ Wealth(wallet', vault', "quote") = Wealth(wallet, vault, "quote")
  <2>1. base \in Int /\ quote \in Int
    OBVIOUS
  <2> QED
    BY <1>2, <1>3, <1>4, <2>1, OneIsPaid
<1> QED
  BY <1>2, <1>3, <1>5, KeptIfEqual

LEMMA CancelAndPlaceStep ==
  ASSUME IInv, NEW u \in Users, NEW batch \in Batches, NEW remaining,
         CancelAndPlaceOrders(u, batch, remaining)
  PROVE  Good
<1> DEFINE c == PlaceBatch(u, batch, remaining)
           base == ToDeposit(c, u, "base")
           quote == ToDeposit(c, u, "quote")
           grew == HeapLen(c.b.heap) > HeapLen(heap)
           account == [c.b.oo[u] EXCEPT !.base_free_native = @ - FromFree(c, u, "base"),
                                        !.quote_free_native = @ - FromFree(c, u, "quote"),
                                        !.penalty_heap_count = @ + IF grew THEN 1 ELSE 0]
<1>1. /\ wallet[u].base >= base /\ wallet[u].quote >= quote
      /\ BookBecomes([c.b EXCEPT !.oo[u] = account])
      /\ market' = [market EXCEPT !.seq_num = c.seq_num,
                                  !.base_deposit_total = @ + base,
                                  !.quote_deposit_total = @ + quote]
      /\ wallet' = [wallet EXCEPT ![u].base = @ - base, ![u].quote = @ - quote]
      /\ vault' = [base |-> vault.base + base, quote |-> vault.quote + quote]
      /\ UNCHANGED <<delegated, now, oracle>>
  BY Zenon DEF CancelAndPlaceOrders
<1>2. /\ market \in MarketType /\ wallet \in Balances /\ delegated \in Balances
      /\ vault \in Balance /\ now \in 1..MaxTime /\ oracle \in Oracles
  BY TypesNow DEF IInv
<1>3. /\ c.b \in Fresh(c.seq_num) /\ c.seq_num \in 0..MaxOrders
      /\ \A token \in {"base", "quote"} :
           /\ ToDeposit(c, u, token) \in Nat
           /\ FreeOf(c.b.oo[u], token) - FromFree(c, u, token) \in Nat
  BY BatchFits
<1> HIDE DEF c
<1>4. base \in Nat /\ quote \in Nat
  BY <1>3
<1>5. account \in AccountType
  <2> DEFINE a == c.b.oo[u]
             x == a.base_free_native - FromFree(c, u, "base")
             y == a.quote_free_native - FromFree(c, u, "quote")
             more == IF grew THEN 1 ELSE 0
  <2>1. a \in AccountType
    BY <1>3 DEF Fresh, Books, BookType
  <2>2. x \in Nat /\ y \in Nat /\ more \in Nat
    BY <1>3 DEF FreeOf
  <2>3. account = [a EXCEPT !.base_free_native = x, !.quote_free_native = y,
                            !.penalty_heap_count = @ + more]
    OBVIOUS
  <2> HIDE DEF x, y, more, account, a
  <2>4. 0 \in Nat
    OBVIOUS
  <2> QED
    BY <2>1, <2>2, <2>3, <2>4, AccountPlaced
<1> HIDE DEF account, base, quote
<1>6. Book' \in Fresh(c.seq_num)
  <2>1. [c.b EXCEPT !.oo[u] = account] \in Fresh(c.seq_num)
    BY <1>3, <1>5, AccountChanges
  <2> QED
    BY <1>1, <2>1, BookBecomesIs
<1>7. market' \in MarketType /\ market'.seq_num = c.seq_num
  <2> DEFINE x == market.base_deposit_total + base
             y == market.quote_deposit_total + quote
             k == c.seq_num
  <2>1. x \in Nat /\ y \in Nat /\ k \in 0..MaxOrders
    BY <1>2, <1>3, <1>4 DEF MarketType
  <2>2. market' = [market EXCEPT !.seq_num = k, !.base_deposit_total = x,
                                 !.quote_deposit_total = y]
    BY <1>1
  <2> HIDE DEF x, y, k
  <2>3. market' \in MarketType /\ market'.seq_num = k
    BY <1>2, <2>1, <2>2 DEF MarketType
  <2> QED
    BY <2>3 DEF k
<1>8. wallet' \in Balances /\ vault' \in Balance /\ Kept
  <2>1. BothPaid(u, base, quote)
    BY <1>1 DEF BothPaid
  <2> QED
    BY <1>1, <1>2, <1>4, <2>1, BothPay
<1>9. IInv'
  BY <1>1, <1>2, <1>6, <1>7, <1>8 DEF IInv, TokensTyped
<1> QED
  BY <1>8, <1>9 DEF Good

LEMMA PlaceTakeStep ==
  ASSUME IInv, NEW u \in Users, NEW order \in TakeOrders, NEW remaining, NEW referrer,
         PlaceTakeOrder(u, order, remaining, referrer)
  PROVE  Good
<1> DEFINE n == market.seq_num
           bid == order.side = "Bid"
           token == TokenOf(order.side)
<1>1. /\ now \in 1..MaxTime /\ oracle \in Oracles /\ NoOracle \in Int \cup {NoOracle}
      /\ n \in 0..MaxOrders /\ market \in MarketType /\ Book \in Fresh(n)
      /\ wallet \in Balances /\ delegated \in Balances /\ vault \in Balance
  BY TypesNow DEF IInv
<1>2. n < MaxOrders /\ UNCHANGED <<delegated, now, oracle>>
  BY Zenon DEF PlaceTakeOrder
<1>3. order \in OrderType /\ IsMarket(order) /\ WellPegged(order)
  BY FermiAssumption DEF WellPegged
<1> DEFINE Pays(r) == IF bid THEN r.quote_taken + r.taker_fees ELSE r.base_taken
           Owed(r) == IF bid THEN r.base_taken ELSE r.quote_taken - r.taker_fees
           BaseTotal(r) == market.base_deposit_total + IF bid THEN -Owed(r) ELSE Pays(r)
           QuoteTotal(r) == market.quote_deposit_total + IF bid THEN Pays(r) ELSE -Owed(r)
           QuoteLeft(r) == QuoteTotal(r) - IF referrer THEN r.referrer_amount ELSE 0
<1>4. PICK r \in NewOrder(Book, n, order, u, {}, remaining, now, NoOracle) :
        /\ BaseTotal(r) >= 0 /\ QuoteTotal(r) >= 0 /\ QuoteLeft(r) >= 0
        /\ wallet[u][token] >= Pays(r)
        /\ BookBecomes(r.b)
        /\ market' = [market EXCEPT
                        !.seq_num = r.seq_num,
                        !.base_deposit_total = BaseTotal(r), !.quote_deposit_total = QuoteLeft(r),
                        !.fees_available = @ + IF referrer THEN 0 ELSE r.referrer_amount]
        /\ wallet' = [wallet EXCEPT ![u][token] = @ - Pays(r)]
        /\ vault' = [vault EXCEPT ![token] = @ + Pays(r)]
  BY Zenon DEF PlaceTakeOrder
<1>5. Placed(Book, n, order, r)
  <2>1. {} \in SUBSET Users
    OBVIOUS
  <2> QED
    BY <1>1, <1>2, <1>3, <2>1, NewOrderKeeps
<1> DEFINE pays == Pays(r)
           owed == Owed(r)
<1>6. /\ r.b \in Fresh(n + 1) /\ r.seq_num = n + 1 /\ r.referrer_amount \in Nat
      /\ pays \in Nat /\ owed \in Int
  BY <1>5 DEF Placed, Amounts
<1>7. token \in {"base", "quote"}
  BY DEF TokenOf
<1> HIDE DEF token
<1>8. market' \in MarketType /\ market'.seq_num = n + 1
  <2> DEFINE baseTotal == BaseTotal(r)
             quoteTotal == QuoteTotal(r)
             x == baseTotal
             y == QuoteLeft(r)
             fees == market.fees_available + IF referrer THEN 0 ELSE r.referrer_amount
             k == n + 1
  <2>1. market.base_deposit_total \in Nat /\ market.quote_deposit_total \in Nat
        /\ market.fees_available \in Nat
    BY <1>1 DEF MarketType
  <2> HIDE DEF owed, pays
  <2>2. baseTotal \in Int /\ quoteTotal \in Int
    BY <1>6, <2>1 DEF owed, pays
  <2>3. x \in Nat
    BY <1>4, <2>2
  <2> HIDE DEF quoteTotal
  <2>4. y \in Int
    BY <1>6, <2>2 DEF quoteTotal
  <2>5. y \in Nat
    BY <1>4, <2>4
  <2>6. fees \in Nat /\ k \in 0..MaxOrders
    BY <1>1, <1>2, <1>6, <2>1, FermiAssumption, SMTT(30)
  <2>7. market' = [market EXCEPT !.seq_num = k, !.base_deposit_total = x,
                                 !.quote_deposit_total = y, !.fees_available = fees]
    BY <1>4, <1>6
  <2> HIDE DEF x, y, k, fees
  <2>8. market' \in MarketType /\ market'.seq_num = k
    BY <1>1, <2>3, <2>5, <2>6, <2>7 DEF MarketType
  <2> QED
    BY <2>8 DEF k
<1>9. wallet' \in Balances /\ vault' \in Balance /\ Kept
  <2>1. TokenPaid(u, token, pays) /\ wallet[u][token] >= pays
    BY <1>4 DEF TokenPaid
  <2> HIDE DEF pays
  <2> QED
    BY <1>1, <1>6, <1>7, <2>1, TokenPays
<1>10. Book' \in Fresh(n + 1)
  <2>1. BookBecomes(r.b)
    BY <1>4
  <2> HIDE DEF n
  <2> QED
    BY <1>6, <2>1, BookBecomesIs
<1>11. IInv'
  BY <1>1, <1>2, <1>8, <1>9, <1>10 DEF IInv, TokensTyped
<1> QED
  BY <1>9, <1>11 DEF Good

-----------------------------------------------------------------------------
(* Every step.                                                             *)

LEMMA TradeStep ==
  ASSUME IInv, NEW u \in Users, Trade(u)
  PROVE  Good
<1>1. CASE WithAccount(u)
  <2>1. CASE \E order \in Orders, remaining \in RemainingSets : PlaceOrder(u, order, remaining)
    BY <2>1, PlaceOrderStep
  <2>2. CASE \E slot \in OrderSlot, expected \in EditSizes, order \in Orders,
                remaining \in RemainingSets : EditOrder(u, slot, expected, order, remaining)
    BY <2>2, EditOrderStep
  <2>3. CASE \E batch \in Batches, remaining \in RemainingSets :
               CancelAndPlaceOrders(u, batch, remaining)
    BY <2>3, CancelAndPlaceStep
  <2>4. CASE \E slot \in OrderSlot : CancelOneOrder(u, slot)
    BY <2>4, CancelOneStep
  <2>5. CASE \E sides \in {{"Bid"}, {"Ask"}, Side}, limit \in CancelLimits :
               CancelAll(u, sides, limit)
    BY <2>5, CancelAllStep
  <2>6. CASE \E limit \in CancelLimits : PruneOrders(u, limit)
    BY <2>6, PruneStep
  <2>7. CASE \E amount \in Deposits : Deposit(u, amount.base, amount.quote)
    BY <2>7, DepositStep
  <2>8. CASE \E referrer \in Referrers : SettleFunds(u, referrer)
    BY <2>8, SettleStep
  <2> QED
    BY <1>1, <2>1, <2>2, <2>3, <2>4, <2>5, <2>6, <2>7, <2>8, Zenon DEF WithAccount
<1>2. CASE \E order \in TakeOrders, remaining \in RemainingSets, referrer \in Referrers :
             PlaceTakeOrder(u, order, remaining, referrer)
  BY <1>2, PlaceTakeStep
<1>3. CASE CloseOpenOrdersAccount(u) \/ CreateOpenOrdersAccount(u)
  BY <1>3, AccountSteps
<1> QED
  BY <1>1, <1>2, <1>3, Zenon DEF Trade

LEMMA FinalizeStep ==
  ASSUME IInv, NEW slot \in HeapSlot, Finalize(slot)
  PROVE  Good
<1>1. CASE FinalizeMatch(slot)
  BY <1>1, FinalizeMatchStep
<1>2. CASE FinalizeMatchDirect(slot)
  BY <1>2, FinalizeMatchDirectStep
<1>3. CASE FinalizeMarket(slot)
  BY <1>3, FinalizeMarketStep DEF FinalizeMarket
<1>4. CASE FinalizeOut(slot)
  BY <1>4, FinalizeOutStep
<1>5. CASE \E side \in Side : CancelWithPenalty(slot, side)
  BY <1>5, PenaltyStep
<1> QED
  BY <1>1, <1>2, <1>3, <1>4, <1>5, Zenon DEF Finalize

LEMMA EveryStep ==
  ASSUME IInv, [Next]_vars
  PROVE  Good
<1>1. CASE \E u \in Users : Trade(u)
  BY <1>1, TradeStep
<1>2. CASE \E slot \in HeapSlot : Finalize(slot)
  BY <1>2, FinalizeStep
<1>3. CASE Administer \/ Tick \/ OracleMoves
  BY <1>3, SweepStep, IdleSteps DEF Administer
<1>4. CASE UNCHANGED vars
  <2>1. IInv'
    BY <1>4 DEF IInv, vars, Book, TokensTyped, Fresh
  <2> QED
    BY <1>4, <2>1, KeptIfUnmoved DEF vars, Good
<1> QED
  BY <1>1, <1>2, <1>3, <1>4, Zenon DEF Next

-----------------------------------------------------------------------------
(* The theorems.                                                           *)

(* In every state that the program reaches, whatever the orders it is      *)
(* called with: the book's orders are those that were numbered, each with  *)
(* a number of its own, the event heap's free slots are its stack of them, *)
(* and no balance is below zero.                                           *)
THEOREM FermiInv == Spec => []IInv
<1>1. IInv /\ [Next]_vars => IInv'
  BY EveryStep DEF Good
<1> QED
  BY <1>1, InitIInv, PTL DEF Spec

(* The values of the state of a market (TypeOK): no unsigned field of an   *)
(* account or of the market, and no token account, is ever below zero, no  *)
(* order or event of size zero exists, and the heap has as many free slots *)
(* as its stack says.                                                      *)
THEOREM FermiTypes == Spec => []TypeOK
BY FermiInv, TypesFollow, PTL

(* A taker's fee pays for the rebates of all the makers it is matched with *)
(* (the subtraction in new_order never goes below zero), in every state    *)
(* and for every order.                                                    *)
THEOREM TakerPaysRebates == Spec => []RebatesCovered
BY FermiInv, RebatesPaid, PTL

(* The wallet pays for every batch of cancel_and_place_orders: the cut of  *)
(* each order to what is left makes the sum fit.                           *)
THEOREM BatchFitsWallet == Spec => []BatchIsPaid
BY FermiInv, BatchesPaid, PTL

(* No instruction makes or loses tokens (TokensConserved): placing,        *)
(* finalizing, penalties, deposits and settlement move them between        *)
(* wallets and vaults, and only swept fees leave.                          *)
THEOREM NoTokenIsLost == Spec => TokensConserved
<1>1. IInv /\ [Next]_vars => Kept
  BY EveryStep DEF Good
<1>2. Spec => [][Kept]_vars
  BY <1>1, FermiInv, PTL DEF Spec
<1> QED
  BY <1>2, PTL DEF TokensConserved, Kept
=============================================================================

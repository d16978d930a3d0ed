------------------------------ MODULE BookProofs ------------------------------
(***************************************************************************)
(* What the conversions of MarketFees and OpenOrders return, and what each *)
(* operation of the book does to a well-formed book.                       *)
(***************************************************************************)
EXTENDS Fermi, DataProofs, TLAPS

-----------------------------------------------------------------------------
(* The arithmetic of fees, of rebates and of what an order costs.          *)

LEMMA ProductNat ==
  ASSUME NEW x \in Nat, NEW y \in Nat
  PROVE  x * y \in Nat
OBVIOUS

LEMMA ProductMonotonic ==
  ASSUME NEW x \in Int, NEW y \in Int, NEW z \in Nat, x <= y
  PROVE  x * z <= y * z /\ z * x <= z * y
OBVIOUS

\* A factor that is not zero can be taken away.
LEMMA ProductCancels ==
  ASSUME NEW x \in Int, NEW y \in Int, NEW z \in Nat \ {0}, x * z <= y * z + z - 1
  PROVE  x <= y
<1> SUFFICES ASSUME y + 1 <= x PROVE FALSE
  OBVIOUS
<1>1. (y + 1) * z <= x * z
  BY ProductMonotonic
<1>2. (y + 1) * z = y * z + z
  OBVIOUS
<1> QED
  BY <1>1, <1>2

LEMMA Division ==
  ASSUME NEW n \in Int, NEW d \in Nat \ {0}
  PROVE  /\ n \div d \in Int
         /\ (n \div d) * d <= n
         /\ n <= (n \div d) * d + d - 1
OBVIOUS

LEMMA DivisionNat ==
  ASSUME NEW n \in Nat, NEW d \in Nat \ {0}
  PROVE  n \div d \in Nat /\ n \div d <= n
<1>1. n \div d \in Int /\ (n \div d) * d <= n /\ n <= (n \div d) * d + d - 1
  BY Division
<1> DEFINE q == n \div d
<1> HIDE DEF q
<1>2. q \in Int /\ q * d <= n /\ n <= q * d + d - 1
  BY <1>1 DEF q
<1>3. 0 <= q
  <2>1. 0 * d <= q * d + d - 1
    BY <1>2
  <2> QED
    BY <1>2, <2>1, ProductCancels
<1>4. q <= q * d
  BY <1>2, <1>3
<1> QED
  BY <1>2, <1>3, <1>4 DEF q

\* The quotient is the largest number of times the divisor fits.
LEMMA DivisionFits ==
  ASSUME NEW n \in Int, NEW d \in Nat \ {0}, NEW k \in Int, k * d <= n
  PROVE  k <= n \div d
<1> DEFINE q == n \div d
<1>1. q \in Int /\ n <= q * d + d - 1
  BY Division
<1> HIDE DEF q
<1>2. k * d \in Int /\ q * d \in Int
  BY <1>1
<1>3. k <= q
  BY <1>1, <1>2, ProductCancels
<1> QED
  BY <1>3 DEF q

-----------------------------------------------------------------------------
(* Rounding up.                                                            *)

LEMMA CeilingBounds ==
  ASSUME MarketAssumption, NEW n \in Int
  PROVE  /\ CeilFeeDivision(n) \in Int
         /\ n <= CeilFeeDivision(n) * FeesScaleFactor
         /\ CeilFeeDivision(n) * FeesScaleFactor <= n + FeesScaleFactor - 1
<1>1. FeesScaleFactor \in Nat \ {0}
  BY DEF MarketAssumption
<1>2. n + FeesScaleFactor - 1 \in Int
  BY <1>1
<1> QED
  BY <1>1, <1>2, Division DEF CeilFeeDivision

LEMMA CeilingNat ==
  ASSUME MarketAssumption, NEW n \in Nat
  PROVE  CeilFeeDivision(n) \in Nat
<1>1. FeesScaleFactor \in Nat \ {0}
  BY DEF MarketAssumption
<1>2. n + FeesScaleFactor - 1 \in Nat
  BY <1>1
<1> QED
  BY <1>1, <1>2, DivisionNat DEF CeilFeeDivision

\* The least number that, scaled, is not below n.
LEMMA CeilingLeast ==
  ASSUME MarketAssumption, NEW n \in Int, NEW k \in Int, n <= k * FeesScaleFactor
  PROVE  CeilFeeDivision(n) <= k
<1> DEFINE c == CeilFeeDivision(n)
           F == FeesScaleFactor
<1>1. F \in Nat \ {0}
  BY DEF MarketAssumption
<1>2. c \in Int /\ c * F <= n + F - 1
  BY CeilingBounds
<1> HIDE DEF c, F
<1>3. n <= k * F
  BY DEF F
<1>4. c * F \in Int /\ k * F \in Int
  BY <1>1, <1>2
<1>5. c * F <= k * F + F - 1
  BY <1>1, <1>2, <1>3, <1>4
<1> QED
  BY <1>1, <1>2, <1>5, ProductCancels DEF c

LEMMA CeilingMonotonic ==
  ASSUME MarketAssumption, NEW m \in Int, NEW n \in Int, m <= n
  PROVE  CeilFeeDivision(m) <= CeilFeeDivision(n)
<1>1. CeilFeeDivision(n) \in Int /\ n <= CeilFeeDivision(n) * FeesScaleFactor
  BY CeilingBounds
<1>2. m <= CeilFeeDivision(n) * FeesScaleFactor
  <2>1. CeilFeeDivision(n) * FeesScaleFactor \in Int
    BY <1>1 DEF MarketAssumption
  <2> QED
    BY <1>1, <2>1
<1> QED
  BY <1>1, <1>2, CeilingLeast

-----------------------------------------------------------------------------
(* Fees.                                                                   *)

LEMMA TakerFeesNat ==
  ASSUME MarketAssumption, NEW n \in Nat
  PROVE  TakerFeesCeil(n) \in Nat
<1>1. n * TakerFee \in Nat
  BY ProductNat DEF MarketAssumption
<1> QED
  BY <1>1, CeilingNat DEF TakerFeesCeil

LEMMA MakerFeesType ==
  ASSUME MarketAssumption, NEW n \in Int
  PROVE  MakerFeesCeil(n) \in Int
<1>1. n * MakerFee \in Int
  BY DEF MarketAssumption
<1> QED
  BY <1>1, CeilingBounds DEF MakerFeesCeil

LEMMA MakerFeesNat ==
  ASSUME MarketAssumption, NEW n \in Nat
  PROVE  MakerFeesCeil(n) \in Nat
<1>1. CASE MakerFee > 0
  <2>1. n * MakerFee \in Nat
    BY <1>1, ProductNat DEF MarketAssumption
  <2> QED
    BY <1>1, <2>1, CeilingNat DEF MakerFeesCeil
<1>2. CASE ~(MakerFee > 0)
  BY <1>2 DEF MakerFeesCeil
<1> QED
  BY <1>1, <1>2

LEMMA MakerFeesMonotonic ==
  ASSUME MarketAssumption, NEW m \in Nat, NEW n \in Nat, m <= n
  PROVE  MakerFeesCeil(m) <= MakerFeesCeil(n)
<1>1. CASE MakerFee > 0
  <2>1. MakerFee \in Nat
    BY <1>1 DEF MarketAssumption
  <2>2. m * MakerFee \in Int /\ n * MakerFee \in Int /\ m * MakerFee <= n * MakerFee
    BY <2>1, ProductMonotonic
  <2>3. CeilFeeDivision(m * MakerFee) <= CeilFeeDivision(n * MakerFee)
    BY <2>2, CeilingMonotonic
  <2> QED
    BY <1>1, <2>3 DEF MakerFeesCeil
<1>2. CASE ~(MakerFee > 0)
  BY <1>2 DEF MakerFeesCeil
<1> QED
  BY <1>1, <1>2

LEMMA RebateNat ==
  ASSUME MarketAssumption, NEW n \in Nat
  PROVE  MakerRebateFloor(n) \in Nat
<1>1. CASE MakerFee > 0
  BY <1>1 DEF MakerRebateFloor
<1>2. CASE ~(MakerFee > 0)
  <2>1. -MakerFee \in Nat /\ FeesScaleFactor \in Nat \ {0}
    BY <1>2 DEF MarketAssumption
  <2>2. n * (-MakerFee) \in Nat
    BY <2>1, ProductNat
  <2> QED
    BY <1>2, <2>1, <2>2, DivisionNat DEF MakerRebateFloor
<1> QED
  BY <1>1, <1>2

\* What an order of this size locks in its account.
LEMMA LockedNat ==
  ASSUME MarketAssumption, NEW qty \in Nat, NEW price \in Nat
  PROVE  LockedQuote(qty, price) \in Nat /\ LockedFee(qty, price) \in Nat
<1>1. qty * price \in Nat
  BY ProductNat
<1>2. qty * price * QuoteLotSize \in Nat
  BY <1>1, ProductNat DEF MarketAssumption
<1> QED
  BY <1>2, MakerFeesNat DEF LockedQuote, LockedFee

LEMMA LockedFeeMonotonic ==
  ASSUME MarketAssumption, NEW q \in Nat, NEW r \in Nat, q <= r, NEW price \in Nat
  PROVE  LockedFee(q, price) <= LockedFee(r, price)
<1>1. q * price \in Nat /\ r * price \in Nat /\ q * price <= r * price
  BY ProductNat, ProductMonotonic
<1>2. q * price * QuoteLotSize <= r * price * QuoteLotSize
  BY <1>1, ProductMonotonic DEF MarketAssumption
<1>3. LockedQuote(q, price) \in Nat /\ LockedQuote(r, price) \in Nat
  BY LockedNat
<1> QED
  BY <1>2, <1>3, MakerFeesMonotonic DEF LockedFee, LockedQuote

-----------------------------------------------------------------------------
(* The rebates of the matches of one order, each rounded down, stay within *)
(* what the matched amount earns in rebates, rounded once.                 *)

RebatesWithin(rebates, amount) ==
  IF MakerFee > 0 THEN rebates = 0 ELSE rebates * FeesScaleFactor <= amount * (-MakerFee)

LEMMA OneMoreRebate ==
  ASSUME MarketAssumption, NEW rebates \in Nat, NEW amount \in Nat, NEW more \in Nat,
         RebatesWithin(rebates, amount)
  PROVE  RebatesWithin(rebates + MakerRebateFloor(more), amount + more)
<1>1. CASE MakerFee > 0
  BY <1>1 DEF RebatesWithin, MakerRebateFloor
<1>2. CASE ~(MakerFee > 0)
  <2> DEFINE k == -MakerFee
             F == FeesScaleFactor
             r == MakerRebateFloor(more)
  <2>1. k \in Nat /\ F \in Nat \ {0}
    BY <1>2 DEF MarketAssumption
  <2>2. more * k \in Int
    BY <2>1
  <2>3. r \in Int /\ r * F <= more * k
    BY <1>2, <2>1, <2>2, Division DEF MakerRebateFloor
  <2>4. rebates * F <= amount * k
    BY <1>2 DEF RebatesWithin
  <2> HIDE DEF k, F, r
  <2>5. (rebates + r) * F = rebates * F + r * F /\ (amount + more) * k = amount * k + more * k
    BY <2>1, <2>3
  <2>6. rebates * F \in Int /\ r * F \in Int /\ amount * k \in Int
    BY <2>1, <2>3
  <2>7. (rebates + r) * F <= (amount + more) * k
    BY <2>2, <2>3, <2>4, <2>5, <2>6
  <2> QED
    BY <1>2, <2>7 DEF RebatesWithin, k, F, r
<1> QED
  BY <1>1, <1>2

\* The taker's fee on an amount pays for the rebates within it.
LEMMA FeePaysRebates ==
  ASSUME MarketAssumption, NEW rebates \in Nat, NEW amount \in Nat,
         RebatesWithin(rebates, amount)
  PROVE  rebates <= TakerFeesCeil(amount)
<1>1. CASE MakerFee > 0
  <2>1. rebates = 0
    BY <1>1 DEF RebatesWithin
  <2> QED
    BY <2>1, TakerFeesNat
<1>2. CASE ~(MakerFee > 0)
  <2> DEFINE k == -MakerFee
             F == FeesScaleFactor
             fee == TakerFeesCeil(amount)
  <2>1. k \in Nat /\ F \in Nat \ {0} /\ TakerFee \in Nat /\ k <= TakerFee
    BY <1>2 DEF MarketAssumption
  <2>2. rebates * F <= amount * k
    BY <1>2 DEF RebatesWithin
  <2>3. amount * k <= amount * TakerFee
    BY <2>1, ProductMonotonic
  <2>4. amount * TakerFee \in Int /\ fee \in Nat
    BY <2>1, TakerFeesNat
  <2>5. amount * TakerFee <= fee * F
    BY <2>4, CeilingBounds DEF TakerFeesCeil
  <2> HIDE DEF k, F, fee
  <2>6. rebates * F \in Int /\ fee * F \in Int /\ amount * k \in Int
    BY <2>1, <2>4
  <2>7. rebates * F <= fee * F + F - 1
    BY <2>1, <2>2, <2>3, <2>4, <2>5, <2>6
  <2> QED
    BY <2>1, <2>4, <2>7, ProductCancels DEF fee
<1> QED
  BY <1>1, <1>2

-----------------------------------------------------------------------------
(* What an order costs: the quote taken and its fee, and the quote posted  *)
(* and its fee, never exceed the order's limit.                            *)

LEMMA SubtractNat ==
  ASSUME MarketAssumption, NEW quote \in Nat
  PROVE  /\ SubtractTakerFees(quote) \in Nat /\ SubtractTakerFees(quote) <= quote
         /\ SubtractTakerFees(quote) * (FeesScaleFactor + TakerFee) <= quote * FeesScaleFactor
<1> DEFINE F == FeesScaleFactor
           d == FeesScaleFactor + TakerFee
           q == SubtractTakerFees(quote)
<1>1. F \in Nat \ {0} /\ TakerFee \in Nat /\ d \in Nat \ {0} /\ F <= d
  BY DEF MarketAssumption
<1>2. quote * F \in Nat
  BY <1>1, ProductNat
<1>3. q \in Nat /\ q * d <= quote * F
  <2> DEFINE n == quote * F
  <2>1. n \in Nat /\ q = n \div d
    BY <1>2 DEF SubtractTakerFees
  <2> HIDE DEF n, d, q
  <2>2. q \in Nat /\ q * d <= n
    BY <1>1, <2>1, Division, DivisionNat
  <2> QED
    BY <2>2 DEF n
<1>4. quote * F <= quote * d
  BY <1>1, ProductMonotonic
<1> HIDE DEF F, d, q
<1>5. q * d \in Int /\ quote * d \in Int /\ q * d <= quote * d + d - 1
  BY <1>1, <1>2, <1>3, <1>4
<1>6. q <= quote
  BY <1>1, <1>3, <1>5, ProductCancels
<1> QED
  BY <1>3, <1>6 DEF q, d, F

LEMMA TakenCost ==
  ASSUME MarketAssumption, NEW quote \in Nat, NEW taken \in Nat, NEW fees \in Nat, fees <= taken,
         taken <= SubtractTakerFees(quote)
  PROVE  taken * QuoteLotSize + TakerFeesCeil(fees * QuoteLotSize) <= quote * QuoteLotSize
<1> DEFINE F == FeesScaleFactor
           T == TakerFee
           L == QuoteLotSize
           rest == quote - taken
<1>1. F \in Nat \ {0} /\ T \in Nat /\ L \in Nat \ {0} /\ F + T \in Nat \ {0}
  BY DEF MarketAssumption
<1>2. taken * (F + T) <= quote * F
  <2>1. quote * F \in Nat
    BY <1>1, ProductNat
  <2>2. SubtractTakerFees(quote) \in Nat /\ SubtractTakerFees(quote) * (F + T) <= quote * F
    BY SubtractNat
  <2>3. taken * (F + T) <= SubtractTakerFees(quote) * (F + T)
    BY <1>1, <2>2, ProductMonotonic
  <2>4. taken * (F + T) \in Int /\ SubtractTakerFees(quote) * (F + T) \in Int
    BY <1>1, <2>2
  <2> QED
    BY <2>1, <2>2, <2>3, <2>4
<1> HIDE DEF F, T, L
<1>3. taken <= quote
  <2>1. SubtractTakerFees(quote) \in Nat /\ SubtractTakerFees(quote) <= quote
    BY SubtractNat
  <2> QED
    BY <2>1
<1>4. rest \in Nat
  BY <1>3
<1>5. taken * T <= rest * F
  <2>1. taken * (F + T) = taken * F + taken * T /\ rest * F = quote * F - taken * F
    BY <1>1
  <2> QED
    BY <1>1, <1>2, <2>1
<1>6. fees * T <= taken * T
  BY <1>1, ProductMonotonic
<1>7. fees * T * L <= rest * F * L
  <2>1. fees * T \in Int /\ rest * F \in Int /\ taken * T \in Int
    BY <1>1, <1>4
  <2>2. fees * T <= rest * F
    BY <1>5, <1>6, <2>1
  <2> QED
    BY <1>1, <2>1, <2>2, ProductMonotonic
<1>8. fees * T * L = (fees * L) * T /\ rest * F * L = (rest * L) * F
  BY <1>1, <1>4
<1>9. TakerFeesCeil(fees * L) <= rest * L
  <2>1. (fees * L) * T \in Int /\ rest * L \in Int
    BY <1>1, <1>4
  <2>2. (fees * L) * T <= (rest * L) * F
    BY <1>7, <1>8
  <2> QED
    BY <2>1, <2>2, CeilingLeast DEF TakerFeesCeil, F, T
<1>10. quote * L = taken * L + rest * L
  BY <1>1, <1>3
<1>11. taken * L \in Int /\ rest * L \in Int /\ TakerFeesCeil(fees * L) \in Int
  <2>1. fees * L \in Nat
    BY <1>1, ProductNat
  <2> QED
    BY <1>1, <1>4, <2>1, TakerFeesNat
<1> QED
  BY <1>9, <1>10, <1>11 DEF L

LEMMA PostedCost ==
  ASSUME MarketAssumption, NEW left \in Int, NEW price \in Nat \ {0}, NEW qty \in Nat \ {0},
         qty <= (left - MakerFeesCeil(left)) \div price
  PROVE  LockedQuote(qty, price) + LockedFee(qty, price) <= left * QuoteLotSize
<1> DEFINE F == FeesScaleFactor
           M == MakerFee
           L == QuoteLotSize
           fee == MakerFeesCeil(left)
           q == qty * price
<1>1. F \in Nat \ {0} /\ M \in Int /\ M <= F /\ L \in Nat \ {0}
  BY DEF MarketAssumption
<1>2. fee \in Int
  BY MakerFeesType
<1> HIDE DEF fee
<1>3. q \in Nat \ {0} /\ q <= left - fee
  <2>1. left - fee \in Int
    BY <1>2
  <2>2. (left - fee) \div price \in Int /\ ((left - fee) \div price) * price <= left - fee
    BY <2>1, Division
  <2>3. q <= ((left - fee) \div price) * price
    BY <2>2, ProductMonotonic DEF fee
  <2>4. q \in Nat \ {0}
    OBVIOUS
  <2>5. ((left - fee) \div price) * price \in Int
    BY <2>2
  <2> QED
    BY <2>1, <2>2, <2>3, <2>4, <2>5
<1> HIDE DEF q
<1>4. q * L \in Nat /\ LockedQuote(qty, price) = q * L
  BY <1>1, <1>3, ProductNat DEF LockedQuote, q, L
<1>5. CASE M > 0
  <2>1. left * M \in Int
    BY <1>1
  <2>2. fee = CeilFeeDivision(left * M)
    BY <1>5 DEF MakerFeesCeil, fee, M
  <2>3. left * M <= fee * F
    BY <2>1, <2>2, CeilingBounds DEF F
  <2> HIDE DEF F, M, L
  \* the fee of a negative amount would be at least that amount
  <2>4. left > 0
    <3> SUFFICES ASSUME left <= 0 PROVE FALSE
      OBVIOUS
    <3>1. left * F <= left * M
      BY <1>1
    <3>2. left * F <= fee * F + F - 1
      BY <1>1, <1>2, <2>1, <2>3, <3>1
    <3>3. left <= fee
      BY <1>1, <1>2, <3>2, ProductCancels
    <3> QED
      BY <1>2, <1>3, <3>3
  <2>5. fee \in Nat
    BY <2>4, <1>2, MakerFeesNat DEF fee
  <2>6. q * M <= left * M
    BY <1>1, <1>2, <1>3, <1>5, <2>5, ProductMonotonic
  <2>7. q * M * L <= fee * F * L
    <3>1. q * M \in Int /\ fee * F \in Int /\ q * M <= fee * F
      BY <1>1, <1>3, <2>1, <2>3, <2>5, <2>6
    <3> QED
      BY <1>1, <3>1, ProductMonotonic
  <2>8. q * M * L = (q * L) * M /\ fee * F * L = (fee * L) * F
    BY <1>1, <1>3, <2>5
  <2>9. (q * L) * M \in Int /\ fee * L \in Int /\ (q * L) * M <= (fee * L) * F
    BY <1>1, <1>2, <1>4, <2>7, <2>8
  <2>10. LockedFee(qty, price) <= fee * L
    BY <1>4, <1>5, <2>9, CeilingLeast DEF LockedFee, MakerFeesCeil, F, M
  <2>11. q * L <= (left - fee) * L /\ (left - fee) * L = left * L - fee * L
    BY <1>1, <1>2, <1>3, ProductMonotonic
  <2>12. LockedFee(qty, price) \in Int /\ left * L \in Int
    BY <1>1, <1>4, MakerFeesType DEF LockedFee
  <2>13. LockedQuote(qty, price) + LockedFee(qty, price) <= left * L
    BY <1>4, <2>9, <2>10, <2>11, <2>12
  <2> QED
    BY <2>13 DEF L
<1>6. CASE ~(M > 0)
  <2>1. fee = 0 /\ LockedFee(qty, price) = 0
    BY <1>6 DEF MakerFeesCeil, LockedFee, fee
  <2>2. q * L <= left * L
    BY <1>1, <1>3, <2>1, ProductMonotonic
  <2> QED
    BY <1>4, <2>1, <2>2
<1> QED
  BY <1>5, <1>6

-----------------------------------------------------------------------------
(* The assumptions on the constants.                                       *)

Assumptions ==
  /\ MarketAssumption /\ TreePoolAssumption /\ OpenOrdersAssumption /\ OrderBookAssumption
  /\ FermiAssumption /\ EventAssumption

LEMMA AllAssumptions == Assumptions
BY MarketAssumption, TreePoolAssumption, OpenOrdersAssumption, OrderBookAssumption,
   FermiAssumption, EventAssumption DEF Assumptions

-----------------------------------------------------------------------------
(* A well-formed book.                                                     *)

\* A leaf of the tree for fixed prices has a price as its data, and one of the
\* other tree has a peg limit.
Leaves == {l \in LeafType : IF l.tree = "Fixed" THEN l.data >= 1 ELSE l.peg_limit \in Nat}
Heaps == [event : [HeapSlot -> EventType \cup {NoEvent}], free : Seq(HeapSlot)]
\* The free slots of the heap, each once, are those that hold no event.
HeapOK(h) ==
  /\ \A i \in 1..Len(h.free) : h.event[h.free[i]] = NoEvent
  /\ \A i, j \in 1..Len(h.free) : h.free[i] = h.free[j] => i = j
  /\ \A s \in HeapSlot : h.event[s] = NoEvent => \E i \in 1..Len(h.free) : h.free[i] = s
BookType ==
  [ok : BOOLEAN, leaves : SUBSET Leaves, bump : [Side -> Nat], oo : [Users -> AccountType],
   heap : Heaps]
Books ==
  {b \in BookType : /\ IsFiniteSet(b.leaves)
                    /\ b.ok => \A side \in Side : b.bump[side] <= MaxNodes
                    /\ HeapOK(b.heap)}

\* The free balances of the accounts never shrink.
FreeGrows(a, c) ==
  \A u \in Users : /\ c[u].base_free_native >= a[u].base_free_native
                   /\ c[u].quote_free_native >= a[u].quote_free_native

LEMMA FreeGrowsTwice ==
  ASSUME NEW a \in [Users -> AccountType], NEW c \in [Users -> AccountType],
         NEW d \in [Users -> AccountType], FreeGrows(a, c), FreeGrows(c, d)
  PROVE  FreeGrows(a, d)
<1>1. \A e \in [Users -> AccountType] : \A u \in Users :
        e[u].base_free_native \in Nat /\ e[u].quote_free_native \in Nat
  BY DEF AccountType
<1> QED
  BY <1>1 DEF FreeGrows

\* An event that takes a free slot of the heap.
Parked(h, g, ev) ==
  \E s \in HeapSlot : h.event[s] = NoEvent /\ g.event = [h.event EXCEPT ![s] = ev]

LEMMA PushEventKeeps ==
  ASSUME NEW b \in Books, NEW ev \in EventType
  PROVE  /\ PushEvent(b, ev) \in Books
         /\ PushEvent(b, ev).leaves = b.leaves /\ PushEvent(b, ev).oo = b.oo
         /\ PushEvent(b, ev).bump = b.bump
         /\ PushEvent(b, ev).ok => b.ok /\ Parked(b.heap, PushEvent(b, ev).heap, ev)
<1> DEFINE c == PushEvent(b, ev)
           h == b.heap
<1>1. b \in BookType /\ h \in Heaps /\ HeapOK(h)
  BY DEF Books, BookType
<1>2. CASE h.free = <<>>
  <2>1. c = [b EXCEPT !.ok = FALSE]
    BY <1>2 DEF PushEvent
  <2> QED
    BY <1>1, <2>1 DEF Books, BookType
<1>3. CASE h.free # <<>>
  <2> DEFINE s == Head(h.free)
             g == [event |-> [h.event EXCEPT ![s] = ev], free |-> Tail(h.free)]
  <2>1. c = [b EXCEPT !.heap = g]
    BY <1>3 DEF PushEvent, TakeSlot
  <2>2. /\ h.event \in [HeapSlot -> EventType \cup {NoEvent}] /\ h.free \in Seq(HeapSlot)
        /\ Len(h.free) \in Nat \ {0} /\ s = h.free[1] /\ s \in HeapSlot
        /\ Tail(h.free) \in Seq(HeapSlot) /\ Len(Tail(h.free)) = Len(h.free) - 1
        /\ \A i \in 1..Len(Tail(h.free)) : Tail(h.free)[i] = h.free[i + 1]
    BY <1>1, <1>3 DEF Heaps
  <2>3. g \in Heaps
    BY <2>2 DEF Heaps
  <2>4. HeapOK(g)
    <3>1. ev # NoEvent
      BY EventAssumption
    <3>2. \A i \in 1..Len(g.free) :
            i + 1 \in 1..Len(h.free) /\ g.free[i] = h.free[i + 1] /\ g.free[i] # s
      BY <1>1, <2>2 DEF HeapOK
    <3>3. \A i \in 1..Len(g.free) : g.event[g.free[i]] = NoEvent
      BY <1>1, <2>2, <3>2 DEF HeapOK
    <3>4. \A i, j \in 1..Len(g.free) : g.free[i] = g.free[j] => i = j
      BY <1>1, <2>2, <3>2 DEF HeapOK
    <3>5. ASSUME NEW t \in HeapSlot, g.event[t] = NoEvent
          PROVE  \E i \in 1..Len(g.free) : g.free[i] = t
      <4>1. t # s /\ h.event[t] = NoEvent
        BY <2>2, <3>1, <3>5
      <4>2. PICK i \in 1..Len(h.free) : h.free[i] = t
        BY <1>1, <4>1 DEF HeapOK
      <4>3. i # 1 /\ i - 1 \in 1..Len(g.free) /\ (i - 1) + 1 = i
        BY <2>2, <4>1, <4>2
      <4>4. g.free[i - 1] = t
        BY <2>2, <4>2, <4>3
      <4> QED
        BY <4>3, <4>4
    <3> HIDE DEF g
    <3> QED
      BY <3>3, <3>4, <3>5 DEF HeapOK
  <2>6. Parked(h, g, ev)
    <3>1. h.event[s] = NoEvent
      BY <1>1, <2>2 DEF HeapOK
    <3> QED
      BY <2>2, <3>1 DEF Parked
  <2> HIDE DEF g
  <2>5. /\ c \in BookType /\ c.leaves = b.leaves /\ c.oo = b.oo /\ c.ok = b.ok
        /\ c.bump = b.bump /\ c.heap = g
    BY <1>1, <2>1, <2>3 DEF BookType
  <2> QED
    BY <2>4, <2>5, <2>6 DEF Books
<1> QED
  BY <1>2, <1>3

\* The slot of an event that is deleted is the next to be used.
LEMMA DeleteSlotKeeps ==
  ASSUME NEW h \in Heaps, HeapOK(h), NEW s \in HeapSlot, h.event[s] # NoEvent
  PROVE  DeleteSlot(h, s) \in Heaps /\ HeapOK(DeleteSlot(h, s))
<1> DEFINE g == DeleteSlot(h, s)
           n == Len(h.free)
<1>1. /\ h.event \in [HeapSlot -> EventType \cup {NoEvent}] /\ h.free \in Seq(HeapSlot)
      /\ n \in Nat
  BY DEF Heaps
<1>2. g.event = [h.event EXCEPT ![s] = NoEvent] /\ g.free = <<s>> \o h.free
  BY DEF DeleteSlot
<1>3. /\ g.free \in Seq(HeapSlot) /\ Len(g.free) = n + 1 /\ g.free[1] = s
      /\ \A i \in 2..(n + 1) : g.free[i] = h.free[i - 1]
  BY <1>1, <1>2
<1>4. g \in Heaps
  BY <1>1, <1>3 DEF Heaps, DeleteSlot
<1>5. \A i \in 1..(n + 1) : i # 1 => i - 1 \in 1..n /\ g.free[i] = h.free[i - 1] /\ g.free[i] # s
  <2> TAKE i \in 1..(n + 1)
  <2> HAVE i # 1
  <2>1. i - 1 \in 1..n /\ i \in 2..(n + 1)
    BY <1>1
  <2>2. h.event[h.free[i - 1]] = NoEvent
    BY <2>1 DEF HeapOK
  <2> QED
    BY <1>3, <2>1, <2>2
<1>6. \A i \in 1..Len(g.free) : g.event[g.free[i]] = NoEvent
  <2> TAKE i \in 1..Len(g.free)
  <2>1. CASE i = 1
    BY <1>1, <1>2, <1>3, <2>1
  <2>2. CASE i # 1
    <3>1. i - 1 \in 1..n /\ g.free[i] = h.free[i - 1] /\ g.free[i] # s /\ g.free[i] \in HeapSlot
      BY <1>1, <1>3, <1>5, <2>2
    <3>2. h.event[h.free[i - 1]] = NoEvent
      BY <3>1 DEF HeapOK
    <3> QED
      BY <1>1, <1>2, <3>1, <3>2
  <2> QED
    BY <2>1, <2>2
<1>7. \A i, j \in 1..Len(g.free) : g.free[i] = g.free[j] => i = j
  <2> TAKE i, j \in 1..Len(g.free)
  <2> HAVE g.free[i] = g.free[j]
  <2>1. CASE i = 1 \/ j = 1
    BY <1>1, <1>3, <1>5, <2>1
  <2>2. CASE i # 1 /\ j # 1
    <3>1. i - 1 \in 1..n /\ j - 1 \in 1..n /\ h.free[i - 1] = h.free[j - 1]
      BY <1>1, <1>3, <1>5, <2>2
    <3>2. i - 1 = j - 1
      BY <3>1 DEF HeapOK
    <3> QED
      BY <1>1, <1>3, <3>2
  <2> QED
    BY <2>1, <2>2
<1>8. ASSUME NEW t \in HeapSlot, g.event[t] = NoEvent
      PROVE  \E i \in 1..Len(g.free) : g.free[i] = t
  <2>1. CASE t = s
    BY <1>1, <1>3, <2>1
  <2>2. CASE t # s
    <3>1. h.event[t] = NoEvent
      BY <1>1, <1>2, <1>8, <2>2
    <3>2. PICK i \in 1..n : h.free[i] = t
      BY <3>1 DEF HeapOK
    <3>3. i + 1 \in 2..(n + 1) /\ i + 1 \in 1..Len(g.free) /\ (i + 1) - 1 = i
      BY <1>1, <1>3
    <3>4. g.free[i + 1] = t
      BY <1>3, <3>2, <3>3
    <3> QED
      BY <3>3, <3>4
  <2> QED
    BY <2>1, <2>2
<1> HIDE DEF g
<1> QED
  BY <1>4, <1>6, <1>7, <1>8 DEF HeapOK, g

-----------------------------------------------------------------------------
(* Orders that leave the book.                                             *)

\* What a cancellation does to an account, field by field.
LEMMA CancelSlotKeeps ==
  ASSUME NEW a \in AccountType, NEW slot \in OrderSlot, NEW qty \in Nat,
         CancelSlotFits(a, slot, qty)
  PROVE  LET c == CancelSlot(a, slot, qty)
             o == a.open_orders[slot]
         IN  /\ c \in AccountType /\ c.open = a.open
             /\ c.open_orders = [a.open_orders EXCEPT ![slot] = FreeOrder]
             /\ c.base_free_native >= a.base_free_native
             /\ c.quote_free_native >= a.quote_free_native
             /\ c.bids_base_lots = a.bids_base_lots - IF o.side = "Bid" THEN qty ELSE 0
             /\ c.asks_base_lots = a.asks_base_lots - IF o.side = "Bid" THEN 0 ELSE qty
             /\ c.bids_quote_lots =
                  a.bids_quote_lots - IF o.side = "Bid" THEN qty * o.locked_price ELSE 0
             /\ c.locked_maker_fees =
                  a.locked_maker_fees - IF o.side = "Bid" THEN LockedFee(qty, o.locked_price) ELSE 0
<1> DEFINE o == a.open_orders[slot]
           quote == LockedQuote(qty, o.locked_price)
           fee == LockedFee(qty, o.locked_price)
           c == CancelSlot(a, slot, qty)
           orders == [a.open_orders EXCEPT ![slot] = FreeOrder]
<1>1. o.side \in Side /\ o.locked_price \in Nat
  BY DEF AccountType
<1>2. quote \in Nat /\ fee \in Nat /\ MarketAssumption
  BY <1>1, MarketAssumption, LockedNat
<1>3. orders
        \in [OrderSlot -> [is_free : BOOLEAN, id : 0..MaxOrders, side : Side,
                           tree : Tree, locked_price : Nat]]
  <2>1. FreeOrder \in [is_free : BOOLEAN, id : 0..MaxOrders, side : Side, tree : Tree, locked_price : Nat]
    BY FermiAssumption DEF FreeOrder, Side, Tree
  <2> HIDE DEF FreeOrder
  <2> QED
    BY <2>1 DEF AccountType
<1> HIDE DEF o, quote, fee
<1>4. /\ a.bids_base_lots \in Int /\ a.bids_quote_lots \in Int /\ a.asks_base_lots \in Int
      /\ a.base_free_native \in Nat /\ a.quote_free_native \in Nat /\ a.locked_maker_fees \in Nat
  BY DEF AccountType
<1>5. CASE o.side = "Bid"
  <2>1. fee <= a.locked_maker_fees
    BY <1>5 DEF CancelSlotFits, o, fee
  <2>2. a.locked_maker_fees - fee \in Nat
    BY <1>2, <1>4, <2>1
  <2>3. c = [a EXCEPT !.quote_free_native = a.quote_free_native + quote + fee,
                      !.locked_maker_fees = a.locked_maker_fees - fee,
                      !.open_orders = orders,
                      !.bids_base_lots = a.bids_base_lots - qty,
                      !.bids_quote_lots = a.bids_quote_lots - qty * o.locked_price]
    <3> HIDE DEF FreeOrder
    <3> QED
      BY <1>5 DEF CancelSlot, RemoveOrder, o, quote, fee, AccountType
  <2>4. /\ a.bids_quote_lots - qty * o.locked_price \in Int
        /\ a.quote_free_native + quote + fee \in Nat
    BY <1>1, <1>2, <1>4
  <2> HIDE DEF c, orders
  <2>5. /\ c \in AccountType /\ c.open = a.open
        /\ c.open_orders = orders
        /\ c.base_free_native = a.base_free_native
        /\ c.quote_free_native = a.quote_free_native + quote + fee
        /\ c.locked_maker_fees = a.locked_maker_fees - fee
        /\ c.bids_base_lots = a.bids_base_lots - qty
        /\ c.asks_base_lots = a.asks_base_lots
        /\ c.bids_quote_lots = a.bids_quote_lots - qty * o.locked_price
    <3> DEFINE free == a.quote_free_native + quote + fee
               fees == a.locked_maker_fees - fee
               base == a.bids_base_lots - qty
               lots == a.bids_quote_lots - qty * o.locked_price
    <3>1. free \in Nat /\ fees \in Nat /\ base \in Int /\ lots \in Int
      BY <1>4, <2>2, <2>4
    <3>2. c = [a EXCEPT !.quote_free_native = free, !.locked_maker_fees = fees,
                        !.open_orders = orders, !.bids_base_lots = base, !.bids_quote_lots = lots]
      BY <2>3
    <3> HIDE DEF free, fees, base, lots
    <3>3. c \in AccountType
      BY <1>3, <3>1, <3>2 DEF AccountType
    <3>4. /\ c.open = a.open /\ c.open_orders = orders
          /\ c.base_free_native = a.base_free_native /\ c.quote_free_native = free
          /\ c.locked_maker_fees = fees /\ c.bids_base_lots = base
          /\ c.asks_base_lots = a.asks_base_lots /\ c.bids_quote_lots = lots
      BY <3>2 DEF AccountType
    <3> QED
      BY <3>3, <3>4 DEF free, fees, base, lots
  <2>6. c.asks_base_lots = a.asks_base_lots - 0
    BY <1>4, <2>5
  <2> QED
    BY <1>2, <1>4, <1>5, <2>5, <2>6 DEF c, o, fee, orders
<1>6. CASE o.side # "Bid"
  <2>1. qty * BaseLotSize \in Nat /\ a.base_free_native + qty * BaseLotSize \in Nat
    BY <1>2, <1>4, ProductNat DEF MarketAssumption
  <2>2. c = [a EXCEPT !.base_free_native = a.base_free_native + qty * BaseLotSize,
                      !.open_orders = orders,
                      !.asks_base_lots = a.asks_base_lots - qty]
    <3> HIDE DEF FreeOrder
    <3> QED
      BY <1>6 DEF CancelSlot, RemoveOrder, o, AccountType
  <2> HIDE DEF c, orders
  <2>3. /\ c \in AccountType /\ c.open = a.open
        /\ c.open_orders = orders
        /\ c.base_free_native = a.base_free_native + qty * BaseLotSize
        /\ c.quote_free_native = a.quote_free_native
        /\ c.locked_maker_fees = a.locked_maker_fees
        /\ c.bids_base_lots = a.bids_base_lots
        /\ c.bids_quote_lots = a.bids_quote_lots
        /\ c.asks_base_lots = a.asks_base_lots - qty
    <3> DEFINE free == a.base_free_native + qty * BaseLotSize
               lots == a.asks_base_lots - qty
    <3>1. free \in Nat /\ lots \in Int
      BY <1>4, <2>1
    <3>2. c = [a EXCEPT !.base_free_native = free, !.open_orders = orders, !.asks_base_lots = lots]
      BY <2>2
    <3> HIDE DEF free, lots
    <3>3. c \in AccountType
      BY <1>3, <3>1, <3>2 DEF AccountType
    <3>4. /\ c.open = a.open /\ c.open_orders = orders
          /\ c.base_free_native = free /\ c.quote_free_native = a.quote_free_native
          /\ c.locked_maker_fees = a.locked_maker_fees /\ c.bids_base_lots = a.bids_base_lots
          /\ c.bids_quote_lots = a.bids_quote_lots /\ c.asks_base_lots = lots
      BY <3>2 DEF AccountType
    <3> QED
      BY <3>3, <3>4 DEF free, lots
  <2> QED
    BY <1>4, <1>6, <2>1, <2>3 DEF c, o, fee, orders
<1> QED
  BY <1>5, <1>6

LEMMA CancelInKeeps ==
  ASSUME NEW b \in Books, NEW u \in Users, NEW slot \in OrderSlot, NEW qty \in Nat
  PROVE  /\ CancelIn(b, u, slot, qty) \in Books
         /\ CancelIn(b, u, slot, qty).leaves = b.leaves
         /\ CancelIn(b, u, slot, qty).bump = b.bump /\ CancelIn(b, u, slot, qty).heap = b.heap
         /\ FreeGrows(b.oo, CancelIn(b, u, slot, qty).oo)
         /\ CancelIn(b, u, slot, qty).ok => b.ok
<1> DEFINE c == CancelIn(b, u, slot, qty)
<1>1. b \in BookType /\ b.oo \in [Users -> AccountType] /\ b.oo[u] \in AccountType
  BY DEF Books, BookType
<1>2. \A v \in Users : b.oo[v].base_free_native \in Nat /\ b.oo[v].quote_free_native \in Nat
  BY <1>1 DEF AccountType
<1>3. CASE CancelSlotFits(b.oo[u], slot, qty)
  <2> DEFINE a == CancelSlot(b.oo[u], slot, qty)
             oo2 == [b.oo EXCEPT ![u] = a]
  <2>1. /\ a \in AccountType /\ a.base_free_native >= b.oo[u].base_free_native
        /\ a.quote_free_native >= b.oo[u].quote_free_native
    BY <1>1, <1>3, CancelSlotKeeps
  <2>2. c = [b EXCEPT !.oo = oo2]
    BY <1>1, <1>3 DEF CancelIn
  <2> HIDE DEF a, c
  <2>3. oo2 \in [Users -> AccountType] /\ FreeGrows(b.oo, oo2)
    BY <1>1, <1>2, <2>1 DEF FreeGrows
  <2> HIDE DEF oo2
  <2>4. /\ c \in BookType /\ c.leaves = b.leaves /\ c.bump = b.bump /\ c.oo = oo2
        /\ c.heap = b.heap /\ c.ok = b.ok
    BY <1>1, <2>2, <2>3 DEF BookType
  <2>5. c \in Books
    BY <2>4 DEF Books
  <2> QED
    BY <2>3, <2>4, <2>5 DEF c
<1>4. CASE ~CancelSlotFits(b.oo[u], slot, qty)
  <2>1. c = [b EXCEPT !.ok = FALSE]
    BY <1>4 DEF CancelIn
  <2> HIDE DEF c
  <2>2. /\ c \in BookType /\ c.leaves = b.leaves /\ c.bump = b.bump /\ c.oo = b.oo
        /\ c.heap = b.heap /\ c.ok = FALSE
    BY <1>1, <2>1 DEF BookType
  <2>3. c \in Books
    BY <2>2 DEF Books
  <2>4. FreeGrows(b.oo, c.oo)
    BY <1>2, <2>2 DEF FreeGrows
  <2> QED
    BY <2>2, <2>3, <2>4 DEF c
<1> QED
  BY <1>3, <1>4

LEMMA UnbookKeeps ==
  ASSUME NEW b \in Books, NEW l
  PROVE  /\ Unbook(b, l) \in Books
         /\ Unbook(b, l).leaves = b.leaves \ {l}
         /\ Unbook(b, l).bump = b.bump /\ Unbook(b, l).oo = b.oo
         /\ Unbook(b, l).heap = b.heap /\ Unbook(b, l).ok = b.ok
<1> DEFINE c == Unbook(b, l)
<1>1. c = [b EXCEPT !.leaves = b.leaves \ {l}]
  BY DEF Unbook
<1>2. b \in BookType /\ IsFiniteSet(b.leaves \ {l})
  BY FS_RemoveElement DEF Books
<1> HIDE DEF c
<1>3. /\ c \in BookType /\ c.leaves = b.leaves \ {l} /\ c.bump = b.bump /\ c.oo = b.oo
      /\ c.heap = b.heap /\ c.ok = b.ok
  BY <1>1, <1>2 DEF BookType
<1>4. c \in Books
  BY <1>2, <1>3 DEF Books
<1> QED
  BY <1>3, <1>4 DEF c

\* What an operation on a book may do to the accounts and to ok.
Grown(b, c) == c \in Books /\ FreeGrows(b.oo, c.oo) /\ (c.ok => b.ok)

LEMMA GrownTwice ==
  ASSUME NEW b \in Books, NEW c, NEW d, Grown(b, c), Grown(c, d)
  PROVE  Grown(b, d)
<1>1. b.oo \in [Users -> AccountType] /\ c.oo \in [Users -> AccountType] /\ d.oo \in [Users -> AccountType]
  BY DEF Grown, Books, BookType
<1> QED
  BY <1>1, FreeGrowsTwice DEF Grown

LEMMA GrownNot ==
  ASSUME NEW b \in Books, NEW c \in Books, c.oo = b.oo, c.ok => b.ok
  PROVE  Grown(b, c)
<1>1. \A v \in Users : b.oo[v].base_free_native \in Nat /\ b.oo[v].quote_free_native \in Nat
  BY DEF Books, BookType, AccountType
<1> QED
  BY <1>1 DEF Grown, FreeGrows

LEMMA DropFromBookKeeps ==
  ASSUME NEW b \in Books, NEW l \in Leaves, NEW present
  PROVE  /\ Grown(b, DropFromBook(b, l, present))
         /\ DropFromBook(b, l, present).leaves = b.leaves \ {l}
         /\ DropFromBook(b, l, present).bump = b.bump
<1> DEFINE c == Unbook(b, l)
<1>1. c \in Books /\ c.leaves = b.leaves \ {l} /\ c.bump = b.bump /\ Grown(b, c)
  BY UnbookKeeps, GrownNot
<1>2. l.owner \in Users /\ l.owner_slot \in OrderSlot /\ l.qty \in Nat \ {0} /\ l.side \in Side
  BY DEF Leaves, LeafType
<1>3. CASE l.owner \in present
  <2>1. DropFromBook(b, l, present) = CancelIn(c, l.owner, l.owner_slot, l.qty)
    BY <1>3 DEF DropFromBook, ProcessOutEvent
  <2> HIDE DEF c
  <2>2. /\ Grown(c, CancelIn(c, l.owner, l.owner_slot, l.qty))
        /\ CancelIn(c, l.owner, l.owner_slot, l.qty).leaves = c.leaves
        /\ CancelIn(c, l.owner, l.owner_slot, l.qty).bump = c.bump
    BY <1>1, <1>2, CancelInKeeps DEF Grown
  <2> QED
    BY <1>1, <2>1, <2>2, GrownTwice
<1>4. CASE l.owner \notin present
  <2>1. OutEvent(l) \in EventType
    BY <1>2 DEF OutEvent, EventType
  <2>2. DropFromBook(b, l, present) = PushEvent(c, OutEvent(l))
    BY <1>4 DEF DropFromBook, ProcessOutEvent
  <2> HIDE DEF c
  <2>3. /\ Grown(c, PushEvent(c, OutEvent(l)))
        /\ PushEvent(c, OutEvent(l)).leaves = c.leaves
        /\ PushEvent(c, OutEvent(l)).bump = c.bump
    BY <1>1, <2>1, PushEventKeeps, GrownNot
  <2> QED
    BY <1>1, <2>2, <2>3, GrownTwice
<1> QED
  BY <1>3, <1>4

-----------------------------------------------------------------------------
(* The items a taker walks over: each leaf of a side at most once.         *)

SeqsUnique(S) == \A l, m \in S : l.seq = m.seq => l = m

\* The leaves of one side are strictly ordered by their keys.
KeyPairs(S) == {p \in S \X S : KeyAhead(p[1], p[2])}
LEMMA KeysOrdered ==
  ASSUME NEW S \in SUBSET Leaves, SeqsUnique(S), NEW side \in Side, \A l \in S : l.side = side
  PROVE  IsOrdered(KeyPairs(S), S) /\ \A l \in S : ~KeyAhead(l, l)
<1>1. \A l \in S : l.data \in Int /\ l.seq \in Int
  BY DEF Leaves, LeafType
<1>2. \A l, m \in S : <<l, m>> \in KeyPairs(S) <=> KeyAhead(l, m)
  BY DEF KeyPairs
<1>3. \A l, m \in S : l # m => KeyAhead(l, m) \/ KeyAhead(m, l)
  BY <1>1 DEF KeyAhead, Ahead, IsPriceBetter, SeqsUnique
<1>4. \A l, m, k \in S : KeyAhead(l, m) /\ KeyAhead(m, k) => KeyAhead(l, k)
  BY <1>1 DEF KeyAhead, Ahead, IsPriceBetter
<1>5. \A l \in S : ~KeyAhead(l, l)
  BY <1>1 DEF KeyAhead, Ahead, IsPriceBetter
<1> QED
  BY <1>2, <1>3, <1>4, <1>5 DEF IsOrdered

LEMMA InKeyOrderIs ==
  ASSUME NEW S \in SUBSET Leaves, IsFiniteSet(S), SeqsUnique(S),
         NEW side \in Side, \A l \in S : l.side = side
  PROVE  /\ InKeyOrder(S) \in Seq(S)
         /\ \A i, j \in 1..Len(InKeyOrder(S)) : InKeyOrder(S)[i] = InKeyOrder(S)[j] => i = j
<1> DEFINE n == Cardinality(S)
           s == InKeyOrder(S)
<1>1. n \in Nat
  BY FS_CardinalityType
<1>2. PICK t : t \in InOrder(KeyPairs(S), S)
  BY KeysOrdered, OrderExists
<1>3. t \in [1..n -> S] /\ \A i, j \in 1..n : i < j => KeyAhead(t[i], t[j])
  <2>1. t \in [1..n -> S] /\ \A i, j \in 1..n : i < j => <<t[i], t[j]>> \in KeyPairs(S)
    BY <1>2 DEF InOrder
  <2> QED
    BY <2>1 DEF KeyPairs
<1>4. s \in [1..n -> S] /\ \A i, j \in 1..n : i < j => KeyAhead(s[i], s[j])
  BY <1>3, Zenon DEF InKeyOrder
<1> HIDE DEF n, s
<1>5. s \in Seq(S) /\ Len(s) = n
  BY <1>1, <1>4
<1>6. \A l \in S : ~KeyAhead(l, l)
  BY KeysOrdered
<1>7. ASSUME NEW i \in 1..n, NEW j \in 1..n, s[i] = s[j] PROVE i = j
  <2>1. s[i] \in S
    BY <1>4
  <2>2. ~(i < j) /\ ~(j < i)
    BY <1>4, <1>6, <1>7, <2>1
  <2> QED
    BY <1>1, <2>2
<1> QED
  BY <1>5, <1>7 DEF s

\* What the walk has shown so far, with a cursor into each tree.
Items(S, time, feed) == {Item(l, time, feed) : l \in S}
Walked(S, f, p, time, feed) ==
  {w \in [items : Seq(Items(S, time, feed)), fixed : Nat \ {0}, pegged : Nat \ {0}] :
     /\ \A i \in 1..Len(w.items) :
          \/ \E k \in 1..Len(f) : k < w.fixed /\ w.items[i].leaf = f[k]
          \/ \E k \in 1..Len(p) : k < w.pegged /\ w.items[i].leaf = p[k]
     /\ \A i, j \in 1..Len(w.items) : w.items[i].leaf = w.items[j].leaf => i = j}

LEMMA PeekPeggedIs ==
  ASSUME NEW p, Len(p) \in Nat, NEW feed, NEW cursor \in Nat \ {0}
  PROVE  LET peek == PeekPegged(p, feed, cursor)
         IN  /\ peek.order = 0 \/ (peek.order \in 1..Len(p) /\ peek.order >= cursor)
             /\ peek.cursor \in Nat \ {0}
             /\ peek.order # 0 => peek.cursor >= peek.order
             /\ \A k \in 1..Len(p) : k < cursor => k < peek.cursor
<1> DEFINE shown == {k \in cursor..Len(p) : ~IsSkipped(feed, p[k])}
           k == CHOOSE k \in shown : \A j \in shown : k <= j
<1>1. shown \subseteq Nat
  OBVIOUS
<1>2. CASE shown = {}
  <2>1. PeekPegged(p, feed, cursor) = [order |-> 0, cursor |-> Len(p) + 1]
    BY <1>2 DEF PeekPegged
  <2>2. /\ PeekPegged(p, feed, cursor).order = 0
        /\ PeekPegged(p, feed, cursor).cursor = Len(p) + 1
    BY <2>1
  <2> DEFINE peek == PeekPegged(p, feed, cursor)
  <2>3. peek.order = 0 /\ peek.cursor = Len(p) + 1
    BY <2>2
  <2> HIDE DEF peek
  <2>4. /\ peek.order = 0 \/ (peek.order \in 1..Len(p) /\ peek.order >= cursor)
        /\ peek.cursor \in Nat \ {0}
        /\ peek.order # 0 => peek.cursor >= peek.order
        /\ \A j \in 1..Len(p) : j < cursor => j < peek.cursor
    BY <2>3
  <2> QED
    BY <2>4, Zenon DEF peek
<1>3. CASE shown # {}
  <2>1. k \in shown
    <3> HIDE DEF shown
    <3>1. \E n \in shown : \A j \in shown : n <= j
      BY <1>1, <1>3, LeastNat
    <3> QED
      BY <3>1
  <2>2. k \in cursor..Len(p)
    BY <2>1
  <2>3. PeekPegged(p, feed, cursor) = [order |-> k, cursor |-> IF k = cursor THEN k ELSE k + 1]
    BY <1>3 DEF PeekPegged
  <2> HIDE DEF k
  <2> QED
    BY <2>2, <2>3
<1> QED
  BY <1>2, <1>3

LEMMA AppendKeeps ==
  ASSUME NEW f \in Seq(Leaves), NEW p \in Seq(Leaves), NEW time, NEW feed,
         NEW S, NEW w \in Walked(S, f, p, time, feed), NEW l \in S,
         NEW i \in Nat \ {0}, NEW j \in Nat \ {0}, w.fixed <= i,
         \A k \in 1..Len(p) : k < w.pegged => k < j,
         \/ \E k \in 1..Len(f) : k < i /\ l = f[k]
         \/ \E k \in 1..Len(p) : k < j /\ l = p[k],
         \A k \in 1..Len(w.items) : w.items[k].leaf # l
  PROVE  [items |-> Append(w.items, Item(l, time, feed)), fixed |-> i, pegged |-> j]
           \in Walked(S, f, p, time, feed)
<1> DEFINE v == [items |-> Append(w.items, Item(l, time, feed)), fixed |-> i, pegged |-> j]
           n == Len(w.items)
<1>1. /\ w.items \in Seq(Items(S, time, feed)) /\ w.fixed \in Nat \ {0} /\ w.pegged \in Nat \ {0}
      /\ Item(l, time, feed) \in Items(S, time, feed) /\ Len(f) \in Nat /\ Len(p) \in Nat
  BY DEF Walked, Items
<1>2. Item(l, time, feed).leaf = l
  BY DEF Item
<1>3. /\ n \in Nat /\ v.items \in Seq(Items(S, time, feed)) /\ Len(v.items) = n + 1
      /\ \A k \in 1..n : v.items[k] = w.items[k]
      /\ v.items[n + 1] = Item(l, time, feed)
  BY <1>1
<1>4. v.fixed = i /\ v.pegged = j
  OBVIOUS
<1>5. \A k \in 1..n : k \in 1..(n + 1) /\ k # n + 1
  BY <1>3
<1>6. \A k \in 1..(n + 1) : k = n + 1 \/ k \in 1..n
  BY <1>3
<1>7. v \in [items : Seq(Items(S, time, feed)), fixed : Nat \ {0}, pegged : Nat \ {0}]
  BY <1>3
<1> HIDE DEF v
<1>8. ASSUME NEW a \in 1..(n + 1)
      PROVE  \/ \E k \in 1..Len(f) : k < v.fixed /\ v.items[a].leaf = f[k]
             \/ \E k \in 1..Len(p) : k < v.pegged /\ v.items[a].leaf = p[k]
  <2>1. CASE a = n + 1
    BY <1>2, <1>3, <1>4, <2>1
  <2>2. CASE a \in 1..n
    <3>1. \/ \E k \in 1..Len(f) : k < w.fixed /\ w.items[a].leaf = f[k]
          \/ \E k \in 1..Len(p) : k < w.pegged /\ w.items[a].leaf = p[k]
      BY <2>2 DEF Walked
    <3>2. \A k \in 1..Len(f) : k < w.fixed => k < i
      BY <1>1
    <3> QED
      BY <1>3, <1>4, <2>2, <3>1, <3>2
  <2> QED
    BY <1>6, <2>1, <2>2
<1>9. \A a, c \in 1..(n + 1) : v.items[a].leaf = v.items[c].leaf => a = c
  <2> TAKE a, c \in 1..(n + 1)
  <2> HAVE v.items[a].leaf = v.items[c].leaf
  <2>1. CASE a \in 1..n /\ c \in 1..n
    <3>1. w.items[a].leaf = w.items[c].leaf
      BY <1>3, <2>1
    <3> QED
      BY <2>1, <3>1 DEF Walked
  <2>2. CASE a = n + 1 /\ c \in 1..n
    BY <1>2, <1>3, <2>2
  <2>3. CASE c = n + 1 /\ a \in 1..n
    BY <1>2, <1>3, <2>3
  <2> QED
    BY <1>6, <2>1, <2>2, <2>3
<1> QED
  BY <1>3, <1>7, <1>8, <1>9 DEF Walked, v

LEMMA IterNextKeeps ==
  ASSUME NEW S \in SUBSET Leaves, NEW f \in Seq(S), NEW p \in Seq(S), NEW time, NEW feed,
         \A i, j \in 1..Len(f) : f[i] = f[j] => i = j,
         \A i, j \in 1..Len(p) : p[i] = p[j] => i = j,
         \A i \in 1..Len(f), j \in 1..Len(p) : f[i] # p[j],
         NEW w \in Walked(S, f, p, time, feed)
  PROVE  IterNext(w, f, p, time, feed) \in Walked(S, f, p, time, feed)
<1> DEFINE peek == PeekPegged(p, feed, w.pegged)
           n == peek.order
           c == peek.cursor
<1>1. /\ w.fixed \in Nat \ {0} /\ w.pegged \in Nat \ {0} /\ Len(f) \in Nat /\ Len(p) \in Nat
      /\ f \in Seq(Leaves) /\ p \in Seq(Leaves)
  BY DEF Walked
<1>2. /\ n = 0 \/ (n \in 1..Len(p) /\ n >= w.pegged)
      /\ c \in Nat \ {0} /\ (n # 0 => c >= n)
      /\ \A k \in 1..Len(p) : k < w.pegged => k < c
  BY <1>1, PeekPeggedIs
<1>3. \A i \in 1..Len(w.items) :
        \/ \E k \in 1..Len(f) : k < w.fixed /\ w.items[i].leaf = f[k]
        \/ \E k \in 1..Len(p) : k < w.pegged /\ w.items[i].leaf = p[k]
  BY DEF Walked
<1> DEFINE v == [items |-> Append(w.items, Item(f[w.fixed], time, feed)),
                 fixed |-> w.fixed + 1, pegged |-> c]
           u == [items |-> Append(w.items, Item(p[n], time, feed)),
                 fixed |-> w.fixed, pegged |-> c + 1]
<1>4. ASSUME w.fixed <= Len(f) PROVE v \in Walked(S, f, p, time, feed)
  <2> DEFINE l == f[w.fixed]
  <2>1. w.fixed \in 1..Len(f) /\ l \in S /\ w.fixed < w.fixed + 1 /\ w.fixed + 1 \in Nat \ {0}
    BY <1>1, <1>4
  <2>2. \A i \in 1..Len(w.items) : w.items[i].leaf # l
    <3> SUFFICES ASSUME NEW i \in 1..Len(w.items), w.items[i].leaf = l PROVE FALSE
      OBVIOUS
    <3>1. CASE \E k \in 1..Len(f) : k < w.fixed /\ w.items[i].leaf = f[k]
      <4>1. PICK k \in 1..Len(f) : k < w.fixed /\ w.items[i].leaf = f[k]
        BY <3>1
      <4>2. k = w.fixed
        BY <2>1, <4>1
      <4> QED
        BY <1>1, <4>1, <4>2
    <3>2. CASE \E k \in 1..Len(p) : k < w.pegged /\ w.items[i].leaf = p[k]
      BY <2>1, <3>2
    <3> QED
      BY <1>3, <3>1, <3>2
  <2>3. \E k \in 1..Len(f) : k < w.fixed + 1 /\ l = f[k]
    BY <2>1
  <2>4. w.fixed <= w.fixed + 1
    BY <1>1
  <2> HIDE DEF n, c, l
  <2> QED
    BY <1>1, <1>2, <2>1, <2>2, <2>3, <2>4, AppendKeeps DEF l
<1>5. ASSUME n # 0 PROVE u \in Walked(S, f, p, time, feed)
  <2> DEFINE l == p[n]
  <2>1. n \in 1..Len(p) /\ n < c + 1 /\ c + 1 \in Nat \ {0} /\ l \in S
    BY <1>1, <1>2, <1>5
  <2>2. \A i \in 1..Len(w.items) : w.items[i].leaf # l
    <3> SUFFICES ASSUME NEW i \in 1..Len(w.items), w.items[i].leaf = l PROVE FALSE
      OBVIOUS
    <3>1. CASE \E k \in 1..Len(f) : k < w.fixed /\ w.items[i].leaf = f[k]
      BY <2>1, <3>1
    <3>2. CASE \E k \in 1..Len(p) : k < w.pegged /\ w.items[i].leaf = p[k]
      <4>1. PICK k \in 1..Len(p) : k < w.pegged /\ w.items[i].leaf = p[k]
        BY <3>2
      <4>2. k = n
        BY <2>1, <4>1
      <4> QED
        BY <1>1, <1>2, <1>5, <4>1, <4>2
    <3> QED
      BY <1>3, <3>1, <3>2
  <2>3. \E k \in 1..Len(p) : k < c + 1 /\ l = p[k]
    BY <2>1
  <2>4. \A k \in 1..Len(p) : k < w.pegged => k < c + 1
    BY <1>1, <1>2
  <2>5. w.fixed <= w.fixed
    BY <1>1
  <2> HIDE DEF n, c, l
  <2> QED
    BY <1>1, <2>1, <2>2, <2>3, <2>4, <2>5, AppendKeeps DEF l
<1>6. \/ IterNext(w, f, p, time, feed) = w
      \/ w.fixed <= Len(f) /\ IterNext(w, f, p, time, feed) = v
      \/ n # 0 /\ IterNext(w, f, p, time, feed) = u
  BY <1>1 DEF IterNext
<1> QED
  BY <1>4, <1>5, <1>6

\* Pegged leaves are shown only while there is an oracle.
Shown(S, side, feed) == {l \in OfSide(S, side) : l.tree = "Fixed" \/ feed # NoOracle}

\* No leaf is shown twice, and each is shown as it is at that moment.
LEMMA IterIs ==
  ASSUME NEW S \in SUBSET Leaves, IsFiniteSet(S), SeqsUnique(S), NEW side \in Side,
         NEW time, NEW feed
  PROVE  LET items == Iter(S, side, time, feed)
         IN  /\ items \in Seq(Items(Shown(S, side, feed), time, feed))
             /\ \A i, j \in 1..Len(items) : items[i].leaf = items[j].leaf => i = j
<1> DEFINE f == Sorted(S, side, "Fixed")
           p == IF feed = NoOracle THEN <<>> ELSE Sorted(S, side, "OraclePegged")
           T == Shown(S, side, feed)
           V == Walked(T, f, p, time, feed)
           n == Len(f) + Len(p)
           start == [items |-> <<>>, fixed |-> 1, pegged |-> 1]
           step == [x \in (1..n) \X V |-> IterNext(x[2], f, p, time, feed)]
<1>1. ASSUME NEW tree \in Tree
      PROVE  LET s == Sorted(S, side, tree)
             IN  /\ s \in Seq(OfTree(S, side, tree))
                 /\ \A i, j \in 1..Len(s) : s[i] = s[j] => i = j
  <2> DEFINE A == OfTree(S, side, tree)
  <2>1. A \in SUBSET Leaves /\ SeqsUnique(A) /\ A \in SUBSET S /\ \A l \in A : l.side = side
    BY DEF OfTree, SeqsUnique
  <2>2. IsFiniteSet(A)
    BY <2>1, FS_Subset
  <2> HIDE DEF A
  <2>3. /\ InKeyOrder(A) \in Seq(A)
        /\ \A i, j \in 1..Len(InKeyOrder(A)) : InKeyOrder(A)[i] = InKeyOrder(A)[j] => i = j
    BY <2>1, <2>2, InKeyOrderIs
  <2> QED
    BY <2>3 DEF Sorted, A
<1>2. f \in Seq(OfTree(S, side, "Fixed")) /\ \A i, j \in 1..Len(f) : f[i] = f[j] => i = j
  BY <1>1 DEF Tree
<1>3. p \in Seq(OfTree(S, side, "OraclePegged")) /\ \A i, j \in 1..Len(p) : p[i] = p[j] => i = j
  <2>1. CASE feed = NoOracle
    BY <2>1
  <2>2. CASE feed # NoOracle
    BY <1>1, <2>2 DEF Tree
  <2> QED
    BY <2>1, <2>2
<1> HIDE DEF f, p
<1>4. /\ f \in Seq(T) /\ p \in Seq(T) /\ Len(f) \in Nat /\ Len(p) \in Nat /\ n \in Nat
      /\ T \in SUBSET Leaves
  <2>1. f \in Seq(T)
    BY <1>2 DEF OfTree, OfSide, Shown
  <2>2. p \in Seq(T)
    BY <1>3 DEF OfTree, OfSide, Shown, p
  <2> QED
    BY <2>1, <2>2 DEF OfSide, Shown
<1>5. \A i \in 1..Len(f), j \in 1..Len(p) : f[i] # p[j]
  <2>1. \A i \in 1..Len(f) : f[i].tree = "Fixed"
    BY <1>2 DEF OfTree
  <2>2. \A j \in 1..Len(p) : p[j].tree = "OraclePegged"
    BY <1>3 DEF OfTree
  <2> QED
    BY <2>1, <2>2
<1> HIDE DEF T, n
<1>6. \A w \in V : IterNext(w, f, p, time, feed) \in V
  BY <1>2, <1>3, <1>4, <1>5, IterNextKeeps
<1>7. start \in V
  BY <1>4 DEF Walked
<1> HIDE DEF V, start
<1>8. step \in [(1..n) \X V -> V] /\ \A i \in 1..n : \A w \in V : step[<<i, w>>] = IterNext(w, f, p, time, feed)
  BY <1>6
<1> HIDE DEF step
<1>9. PICK w \in [0..n -> V] : w[0] = start /\ \A i \in 1..n : w[i] = step[<<i, w[i - 1]>>]
  <2>1. step \in Rounds(n, V)
    BY <1>8 DEF Rounds
  <2>2. LoopRuns(n, V, start, step) # {}
    BY <1>4, <1>7, <2>1, LoopExists
  <2> QED
    BY <2>2 DEF LoopRuns
<1> DEFINE walk == CHOOSE g : g = [i \in 0..n |->
                     IF i = 0 THEN start ELSE IterNext(g[i - 1], f, p, time, feed)]
<1>10. w = [i \in 0..n |-> IF i = 0 THEN start ELSE IterNext(w[i - 1], f, p, time, feed)]
  <2>1. \A i \in 0..n : w[i] = IF i = 0 THEN start ELSE IterNext(w[i - 1], f, p, time, feed)
    <3> TAKE i \in 0..n
    <3>1. CASE i # 0
      <4>1. i \in 1..n /\ i - 1 \in 0..n
        BY <1>4, <3>1
      <4> QED
        BY <1>8, <1>9, <3>1, <4>1
    <3> QED
      BY <1>9, <3>1
  <2> QED
    BY <1>9, <2>1
<1>11. walk = [i \in 0..n |-> IF i = 0 THEN start ELSE IterNext(walk[i - 1], f, p, time, feed)]
  BY <1>10, Zenon
<1>12. walk[0] \in V /\ \A i \in 1..n : walk[i - 1] \in V => walk[i] \in V
  <2> HIDE DEF walk
  <2>1. 0 \in 0..n /\ \A i \in 1..n : i \in 0..n /\ i # 0
    BY <1>4
  <2>2. walk[0] = start
    BY <1>11, <2>1
  <2>3. \A i \in 1..n : walk[i] = IterNext(walk[i - 1], f, p, time, feed)
    BY <1>11, <2>1
  <2> QED
    BY <1>6, <1>7, <2>2, <2>3
<1>13. walk[n] \in V
  <2> HIDE DEF walk
  <2>1. \A i \in 0..n : walk[i] \in V
    BY <1>4, <1>12, LoopInvariant
  <2> QED
    BY <1>4, <2>1
<1>14. Iter(S, side, time, feed) = walk[n].items
  BY Zenon DEF Iter, f, p, n, start
<1> HIDE DEF walk
<1> QED
  BY <1>13, <1>14 DEF V, T, Walked

-----------------------------------------------------------------------------
(* The matching loop.                                                      *)

MatchType ==
  [b : Books, running : BOOLEAN, post : BOOLEAN, base : Nat, quote : Nat, decremented : Nat,
   rebates : Nat, dropped : Nat, limit : Nat]
\* What is matched stays within the order; rebates stay within what the quote
\* matched with other accounts earns; a post-only order matches nothing.
MatchOK(m, b, order, maxQuote) ==
  /\ m.base <= order.base
  /\ m.quote + m.decremented <= maxQuote
  /\ RebatesWithin(m.rebates, (maxQuote - m.quote - m.decremented) * QuoteLotSize)
  /\ IsPostOnly(order) => m.quote = maxQuote
  /\ m.post => ~IsMarket(order)
  /\ Grown(b, m.b)
Matches(b, order, maxQuote) == {m \in MatchType : MatchOK(m, b, order, maxQuote)}

LEMMA PriceNowIs ==
  ASSUME NEW l \in Leaves, NEW feed \in Int \cup {NoOracle},
         l.tree = "Fixed" \/ feed # NoOracle
  PROVE  PriceNow(feed, l) \in Nat \ {0}
<1>1. l.data \in Int /\ MaxI64 \in Nat \ {0}
  BY MarketAssumption DEF Leaves, LeafType, MarketAssumption
<1>2. CASE l.tree = "Fixed"
  BY <1>1, <1>2 DEF PriceNow, Leaves
<1>3. CASE l.tree # "Fixed"
  <2>1. PeggedPrice(feed, l) \in Int
    BY <1>1, <1>3 DEF PeggedPrice
  <2> QED
    BY <1>3, <2>1 DEF PriceNow
<1> QED
  BY <1>2, <1>3

LEMMA ItemIs ==
  ASSUME NEW S \in SUBSET Leaves, NEW side \in Side, NEW time, NEW feed \in Int \cup {NoOracle},
         NEW item \in Items(Shown(S, side, feed), time, feed)
  PROVE  /\ item.leaf \in S /\ item.leaf \in Leaves /\ item.leaf.side = side
         /\ item.price \in Nat \ {0} /\ item.price = PriceNow(feed, item.leaf)
         /\ item.valid = IsValidNow(item.leaf, time, feed)
<1>1. PICK l \in Shown(S, side, feed) : item = Item(l, time, feed)
  BY DEF Items
<1>2. l \in S /\ l \in Leaves /\ l.side = side /\ PriceNow(feed, l) \in Nat \ {0}
  BY PriceNowIs DEF Shown, OfSide
<1> QED
  BY <1>1, <1>2 DEF Item

\* At least one lot is matched, and no more than all three amounts allow.
LEMMA MatchQtyIs ==
  ASSUME NEW m, NEW item, m.base \in Nat \ {0}, m.quote \in Nat, item.price \in Nat \ {0},
         item.leaf.qty \in Nat \ {0}, m.quote >= item.price
  PROVE  LET qty == MatchQty(m, item)
         IN  /\ qty \in Nat \ {0} /\ qty <= m.base /\ qty <= item.leaf.qty
             /\ qty * item.price \in Nat \ {0} /\ qty * item.price <= m.quote
<1> DEFINE k == m.quote \div item.price
           qty == MatchQty(m, item)
<1>1. k \in Nat /\ k * item.price <= m.quote /\ 1 <= k
  <2> DEFINE d == item.price
             n == m.quote
  <2>1. d \in Nat \ {0} /\ n \in Nat /\ 1 * d <= n
    OBVIOUS
  <2> HIDE DEF d, n
  <2>2. n \div d \in Nat
    BY <2>1, DivisionNat
  <2>3. (n \div d) * d <= n
    BY <2>1, Division
  <2>4. 1 <= n \div d
    BY <2>1, DivisionFits
  <2> QED
    BY <2>2, <2>3, <2>4 DEF d, n
<1>2. 1 <= k
  BY <1>1
<1>3. qty = IF (IF m.base < item.leaf.qty THEN m.base ELSE item.leaf.qty) < k
            THEN (IF m.base < item.leaf.qty THEN m.base ELSE item.leaf.qty) ELSE k
  BY DEF MatchQty
<1> HIDE DEF k, qty
<1>4. qty \in Nat \ {0} /\ qty <= m.base /\ qty <= item.leaf.qty /\ qty <= k
  BY <1>1, <1>2, <1>3
<1>5. qty * item.price <= k * item.price
  BY <1>1, <1>4, ProductMonotonic
<1>6. qty * item.price \in Nat \ {0}
  BY <1>4
<1>7. k * item.price \in Int
  BY <1>1
<1> QED
  BY <1>1, <1>4, <1>5, <1>6, <1>7 DEF qty

LEMMA ReduceKeeps ==
  ASSUME NEW b \in Books, NEW l \in Leaves, NEW qty \in Nat \ {0}, qty <= l.qty
  PROVE  /\ Reduce(b, l, qty) \in Books
         /\ Reduce(b, l, qty).leaves = (b.leaves \ {l})
              \cup IF qty = l.qty THEN {} ELSE {[l EXCEPT !.qty = l.qty - qty]}
         /\ Reduce(b, l, qty).bump = b.bump /\ Reduce(b, l, qty).oo = b.oo
         /\ Reduce(b, l, qty).heap = b.heap /\ Reduce(b, l, qty).ok = b.ok
<1> DEFINE rest == IF qty = l.qty THEN {} ELSE {[l EXCEPT !.qty = l.qty - qty]}
           S == (b.leaves \ {l}) \cup rest
           c == Reduce(b, l, qty)
<1>1. l.qty \in Nat \ {0}
  BY DEF Leaves, LeafType
<1>2. qty # l.qty => [l EXCEPT !.qty = l.qty - qty] \in Leaves
  BY <1>1 DEF Leaves, LeafType
<1>3. rest \subseteq Leaves /\ IsFiniteSet(rest)
  BY <1>2, FS_EmptySet, FS_Singleton
<1>4. c = [b EXCEPT !.leaves = S]
  BY DEF Reduce
<1> HIDE DEF rest
<1>5. b \in BookType /\ S \in SUBSET Leaves /\ IsFiniteSet(S)
  BY <1>3, FS_RemoveElement, FS_Union DEF Books, BookType
<1> HIDE DEF S, c
<1>6. /\ c \in BookType /\ c.leaves = S /\ c.bump = b.bump /\ c.oo = b.oo
      /\ c.heap = b.heap /\ c.ok = b.ok
  BY <1>4, <1>5 DEF BookType
<1>7. c \in Books
  BY <1>5, <1>6 DEF Books
<1> QED
  BY <1>6, <1>7 DEF c, S, rest

LEMMA FailedKeeps ==
  ASSUME NEW b \in Books
  PROVE  /\ Grown(b, [b EXCEPT !.ok = FALSE])
         /\ [b EXCEPT !.ok = FALSE].leaves = b.leaves /\ [b EXCEPT !.ok = FALSE].oo = b.oo
         /\ [b EXCEPT !.ok = FALSE].heap = b.heap /\ [b EXCEPT !.ok = FALSE].bump = b.bump
         /\ ~[b EXCEPT !.ok = FALSE].ok
<1> DEFINE c == [b EXCEPT !.ok = FALSE]
<1>1. b \in BookType
  BY DEF Books
<1>2. /\ c \in BookType /\ c.leaves = b.leaves /\ c.bump = b.bump /\ c.oo = b.oo
      /\ c.heap = b.heap /\ c.ok = FALSE
  BY <1>1 DEF BookType
<1> HIDE DEF c
<1>3. c \in Books
  BY <1>2 DEF Books
<1>4. Grown(b, c)
  BY <1>2, <1>3, GrownNot
<1> QED
  BY <1>2, <1>4 DEF c

\* The owner's account is at hand when the taker cancels its own order.
LEMMA CancelProvideIs ==
  ASSUME NEW m, NEW l
  PROVE  CancelProvide(m, l) = [m EXCEPT !.b = DropFromBook(m.b, l, {l.owner})]
BY DEF CancelProvide, DropFromBook, ProcessOutEvent

LEMMA FillEventIs ==
  ASSUME NEW order \in OrderType, NEW u \in Users, NEW own, NEW l \in Leaves,
         NEW price \in Nat \ {0}, NEW qty \in Nat \ {0}, NEW time \in 1..MaxTime
  PROVE  FillEvent(order, u, own, l, price, qty, time) \in EventType
<1>1. l.owner \in Users /\ order.side \in Side
  BY DEF Leaves, LeafType, OrderType
<1> QED
  BY <1>1 DEF FillEvent, EventType

\* A match takes from the book what it adds to the heap.
LEMMA FillKeeps ==
  ASSUME NEW b \in Books, NEW order \in OrderType, NEW maxQuote \in Nat,
         NEW m \in Matches(b, order, maxQuote),
         NEW item, item.leaf \in Leaves, item.price \in Nat \ {0},
         NEW u \in Users, NEW own \in SUBSET Users, NEW time \in 1..MaxTime,
         ~IsPostOnly(order), m.base # 0, m.quote # 0, m.limit # 0, m.quote >= item.price
  PROVE  /\ Fill(m, item, order, u, own, time) \in Matches(b, order, maxQuote)
         /\ MatchQty(m, item) \in 1..item.leaf.qty
         /\ Fill(m, item, order, u, own, time).b =
              PushEvent(Reduce(m.b, item.leaf, MatchQty(m, item)),
                        FillEvent(order, u, own, item.leaf, item.price, MatchQty(m, item), time))
<1> DEFINE l == item.leaf
           qty == MatchQty(m, item)
           quote == qty * item.price
           earned == (maxQuote - m.quote - m.decremented) * QuoteLotSize
           more == quote * QuoteLotSize
           self == l.owner \in own
           book == PushEvent(Reduce(m.b, l, qty), FillEvent(order, u, own, l, item.price, qty, time))
           n == Fill(m, item, order, u, own, time)
           base2 == m.base - qty
           quote2 == m.quote - quote
           limit2 == m.limit - 1
           decremented2 == IF self THEN m.decremented + quote ELSE m.decremented
           rebates2 == IF self THEN m.rebates ELSE m.rebates + MakerRebateFloor(more)
<1>1. /\ m \in MatchType /\ MatchOK(m, b, order, maxQuote)
      /\ m.b \in Books /\ m.base \in Nat \ {0} /\ m.quote \in Nat \ {0} /\ m.limit \in Nat \ {0}
      /\ m.decremented \in Nat /\ m.rebates \in Nat
  BY DEF Matches, MatchType
<1>2. l \in Leaves /\ l.qty \in Nat \ {0} /\ l.owner \in Users
  BY DEF Leaves, LeafType
<1>3. /\ qty \in Nat \ {0} /\ qty <= m.base /\ qty <= l.qty
      /\ quote \in Nat \ {0} /\ quote <= m.quote
  BY <1>1, <1>2, MatchQtyIs
<1>4. FillEvent(order, u, own, l, item.price, qty, time) \in EventType
  BY <1>2, <1>3, FillEventIs
<1>5. Grown(m.b, book)
  <2> DEFINE c == Reduce(m.b, l, qty)
             ev == FillEvent(order, u, own, l, item.price, qty, time)
  <2>1. c \in Books /\ c.oo = m.b.oo /\ c.ok = m.b.ok
    BY <1>1, <1>2, <1>3, ReduceKeeps
  <2>2. ev \in EventType
    BY <1>4
  <2> HIDE DEF c, ev
  <2>3. PushEvent(c, ev) \in Books /\ PushEvent(c, ev).oo = c.oo /\ (PushEvent(c, ev).ok => c.ok)
    BY <2>1, <2>2, PushEventKeeps
  <2>4. Grown(m.b, PushEvent(c, ev))
    BY <1>1, <2>1, <2>3, GrownNot
  <2> QED
    BY <2>4 DEF c, ev
<1>6. n = [m EXCEPT !.base = base2, !.quote = quote2, !.limit = limit2,
                    !.decremented = decremented2, !.rebates = rebates2, !.b = book]
  BY <1>1 DEF Fill, MatchType
<1> HIDE DEF qty, quote, book, n
<1>7. base2 \in Nat /\ base2 <= m.base
  BY <1>1, <1>3
<1>8. quote2 \in Nat /\ limit2 \in Nat
  BY <1>1, <1>3
<1>9. decremented2 \in Nat /\ quote2 + decremented2 <= maxQuote
  BY <1>1, <1>3 DEF MatchOK
<1>10. earned \in Nat /\ more \in Nat
  <2>1. maxQuote - m.quote - m.decremented \in Nat
    BY <1>1 DEF MatchOK
  <2> QED
    BY <1>3, <2>1, ProductNat, MarketAssumption DEF MarketAssumption
<1>11. rebates2 \in Nat /\ RebatesWithin(rebates2, (maxQuote - quote2 - decremented2) * QuoteLotSize)
  <2>1. CASE self
    <3>1. maxQuote - quote2 - decremented2 = maxQuote - m.quote - m.decremented
      BY <1>1, <1>3, <2>1
    <3> QED
      BY <1>1, <2>1, <3>1 DEF MatchOK
  <2>2. CASE ~self
    <3>1. (maxQuote - quote2 - decremented2) * QuoteLotSize = earned + more
      <4>1. maxQuote - quote2 - decremented2 = (maxQuote - m.quote - m.decremented) + quote
        BY <1>1, <1>3, <2>2
      <4>2. maxQuote - m.quote - m.decremented \in Int /\ QuoteLotSize \in Int
        BY <1>1, MarketAssumption DEF MarketAssumption
      <4> QED
        BY <1>3, <4>1, <4>2
    <3>2. RebatesWithin(m.rebates, earned)
      BY <1>1 DEF MatchOK
    <3> HIDE DEF earned, more
    <3>3. /\ RebatesWithin(m.rebates + MakerRebateFloor(more), earned + more)
          /\ MakerRebateFloor(more) \in Nat
      BY <1>1, <1>10, <3>2, OneMoreRebate, RebateNat, MarketAssumption
    <3> QED
      BY <1>1, <2>2, <3>1, <3>3
  <2> QED
    BY <2>1, <2>2
<1> HIDE DEF base2, quote2, limit2, decremented2, rebates2, earned, more
<1>12. book \in Books
  BY <1>5 DEF Grown
<1>13. n \in MatchType
  BY <1>1, <1>6, <1>7, <1>8, <1>9, <1>11, <1>12 DEF MatchType
<1>14. /\ n.base = base2 /\ n.quote = quote2 /\ n.decremented = decremented2
       /\ n.rebates = rebates2 /\ n.b = book /\ n.post = m.post
  BY <1>1, <1>6 DEF MatchType
<1>15. Grown(b, book)
  BY <1>1, <1>5, GrownTwice DEF MatchOK
<1>16. base2 <= order.base
  <2>1. order.base \in Nat
    BY DEF OrderType
  <2> QED
    BY <1>1, <1>7, <2>1 DEF MatchOK
<1>17. MatchOK(n, b, order, maxQuote)
  BY <1>1, <1>9, <1>11, <1>14, <1>15, <1>16 DEF MatchOK
<1> QED
  BY <1>1, <1>2, <1>3, <1>13, <1>14, <1>17 DEF Matches, n, book, qty

\* The matching goes on with another book that grew out of the one before it.
WithBook(m, dropped, c) == [m EXCEPT !.dropped = dropped, !.b = c]
LEMMA MatchWithBook ==
  ASSUME NEW b \in Books, NEW order \in OrderType, NEW maxQuote,
         NEW m \in Matches(b, order, maxQuote), NEW c, Grown(m.b, c), NEW dropped \in Nat
  PROVE  /\ WithBook(m, dropped, c) \in Matches(b, order, maxQuote)
         /\ WithBook(m, dropped, c).b = c
<1>1. m \in MatchType /\ MatchOK(m, b, order, maxQuote) /\ c \in Books /\ Grown(b, c)
  BY GrownTwice DEF Matches, MatchOK, Grown
<1> DEFINE n == WithBook(m, dropped, c)
<1>2. n \in MatchType /\ n.b = c
  BY <1>1 DEF MatchType, WithBook
<1>3. /\ n.base = m.base /\ n.quote = m.quote /\ n.decremented = m.decremented
      /\ n.rebates = m.rebates /\ n.post = m.post
  BY <1>1 DEF MatchType, WithBook
<1> HIDE DEF n
<1>4. MatchOK(n, b, order, maxQuote)
  BY <1>1, <1>2, <1>3 DEF MatchOK
<1> QED
  BY <1>2, <1>4 DEF Matches, n

\* What a step of the matching does to the book.
MatchChange(c, d, l, order, u, own, price, present, time) ==
  \/ d = c
  \/ d = [c EXCEPT !.ok = FALSE]
  \/ d = DropFromBook(c, l, present)
  \/ d = DropFromBook(c, l, {l.owner})
  \/ \E qty \in 1..l.qty :
       d = PushEvent(Reduce(c, l, qty), FillEvent(order, u, own, l, price, qty, time))

LEMMA MatchStepKeeps ==
  ASSUME NEW b \in Books, NEW order \in OrderType, NEW maxQuote \in Nat,
         NEW m \in Matches(b, order, maxQuote),
         NEW item, item.leaf \in Leaves, item.price \in Nat \ {0},
         NEW u \in Users, NEW own \in SUBSET Users, NEW limitPrice, NEW present,
         NEW time \in 1..MaxTime
  PROVE  LET n == MatchStep(m, item, order, u, own, limitPrice, present, time)
         IN  /\ n \in Matches(b, order, maxQuote)
             /\ MatchChange(m.b, n.b, item.leaf, order, u, own, item.price, present, time)
<1> DEFINE n == MatchStep(m, item, order, u, own, limitPrice, present, time)
           l == item.leaf
           Good(k) == /\ k \in Matches(b, order, maxQuote)
                      /\ MatchChange(m.b, k.b, l, order, u, own, item.price, present, time)
           stop == [m EXCEPT !.running = FALSE]
           self == l.owner \in own
<1>1. m \in MatchType /\ MatchOK(m, b, order, maxQuote) /\ m.b \in Books /\ m.dropped \in Nat
  BY DEF Matches, MatchType
<1>2. Good(m)
  BY DEF MatchChange
<1>3. Good(stop) /\ Good([stop EXCEPT !.post = FALSE])
  <2> DEFINE k == [stop EXCEPT !.post = FALSE]
  <2>1. stop \in MatchType /\ k \in MatchType
    BY <1>1 DEF MatchType
  <2>2. /\ stop.base = m.base /\ stop.quote = m.quote /\ stop.decremented = m.decremented
        /\ stop.rebates = m.rebates /\ stop.post = m.post /\ stop.b = m.b
        /\ k.base = m.base /\ k.quote = m.quote /\ k.decremented = m.decremented
        /\ k.rebates = m.rebates /\ k.post = FALSE /\ k.b = m.b
    BY <1>1 DEF MatchType
  <2> HIDE DEF stop, k
  <2>3. MatchOK(stop, b, order, maxQuote) /\ MatchOK(k, b, order, maxQuote)
    BY <1>1, <2>2 DEF MatchOK
  <2>4. Good(stop) /\ Good(k)
    BY <2>1, <2>2, <2>3 DEF Matches, MatchChange
  <2> QED
    BY <2>4 DEF k
<1>4. Good(DropInvalid(m, l, present))
  <2> DEFINE c == DropFromBook(m.b, l, present)
             k == WithBook(m, m.dropped + 1, c)
  <2>1. Grown(m.b, c) /\ m.dropped + 1 \in Nat
    BY <1>1, DropFromBookKeeps
  <2>2. k \in Matches(b, order, maxQuote) /\ k.b = c
    <3> HIDE DEF c
    <3> QED
      BY <2>1, MatchWithBook
  <2>3. DropInvalid(m, l, present) = m \/ DropInvalid(m, l, present) = k
    BY <1>1 DEF DropInvalid, MatchType, WithBook
  <2>4. Good(k)
    <3> HIDE DEF k
    <3> QED
      BY <2>2 DEF MatchChange
  <2> HIDE DEF Good, k
  <2> QED
    BY <1>2, <2>3, <2>4
<1>5. Good(CancelProvide(m, l))
  <2> DEFINE c == DropFromBook(m.b, l, {l.owner})
             k == WithBook(m, m.dropped, c)
  <2>1. Grown(m.b, c)
    BY <1>1, DropFromBookKeeps
  <2>2. k \in Matches(b, order, maxQuote) /\ k.b = c
    <3> HIDE DEF c
    <3> QED
      BY <1>1, <2>1, MatchWithBook
  <2>3. CancelProvide(m, l) = k
    BY <1>1, CancelProvideIs DEF MatchType, WithBook
  <2>4. Good(k)
    <3> HIDE DEF k
    <3> QED
      BY <2>2 DEF MatchChange
  <2> HIDE DEF Good, k
  <2> QED
    BY <2>3, <2>4
<1>6. Good([m EXCEPT !.b.ok = FALSE])
  <2> DEFINE c == [m.b EXCEPT !.ok = FALSE]
             k == WithBook(m, m.dropped, c)
  <2>1. Grown(m.b, c)
    BY <1>1, FailedKeeps
  <2>2. k \in Matches(b, order, maxQuote) /\ k.b = c
    <3> HIDE DEF c
    <3> QED
      BY <1>1, <2>1, MatchWithBook
  <2>3. [m EXCEPT !.b.ok = FALSE] = k
    BY <1>1 DEF MatchType, WithBook
  <2>4. Good(k)
    <3> HIDE DEF k
    <3> QED
      BY <2>2 DEF MatchChange
  <2> HIDE DEF Good, k
  <2> QED
    BY <2>3, <2>4
<1>7. ASSUME ~IsPostOnly(order), m.base # 0, m.quote # 0, m.limit # 0, ~(m.quote < item.price)
      PROVE  Good(Fill(m, item, order, u, own, time))
  <2>1. m.quote >= item.price
    BY <1>1, <1>7 DEF MatchType
  <2> DEFINE k == Fill(m, item, order, u, own, time)
             qty == MatchQty(m, item)
  <2>2. /\ k \in Matches(b, order, maxQuote) /\ qty \in 1..l.qty
        /\ k.b = PushEvent(Reduce(m.b, l, qty), FillEvent(order, u, own, l, item.price, qty, time))
    BY <1>7, <2>1, FillKeeps
  <2> HIDE DEF k, qty
  <2>3. MatchChange(m.b, k.b, l, order, u, own, item.price, present, time)
    BY <2>2 DEF MatchChange
  <2> QED
    BY <2>2, <2>3 DEF k
<1> HIDE DEF Good, stop
<1>8. Good(n)
  BY <1>2, <1>3, <1>4, <1>5, <1>6, <1>7, Zenon DEF MatchStep, stop
<1> QED
  BY <1>8 DEF Good

LEMMA MatchingIs ==
  ASSUME NEW b \in Books, NEW order \in OrderType, NEW maxQuote \in Nat
  PROVE  Matching(b, order, maxQuote) \in Matches(b, order, maxQuote)
         /\ Matching(b, order, maxQuote).b = b
<1> DEFINE m == Matching(b, order, maxQuote)
<1>1. order.base \in Nat /\ order.limit \in Nat
  BY DEF OrderType
<1>2. m \in MatchType
  BY <1>1 DEF MatchType, Matching
<1>3. /\ m.b = b /\ m.base = order.base /\ m.quote = maxQuote /\ m.decremented = 0
      /\ m.rebates = 0 /\ m.post = ~IsMarket(order)
  BY DEF Matching
<1> HIDE DEF m
<1>4. RebatesWithin(m.rebates, (maxQuote - m.quote - m.decremented) * QuoteLotSize)
  <2>1. maxQuote - m.quote - m.decremented = 0
    BY <1>3
  <2>2. 0 * QuoteLotSize = 0 /\ 0 * FeesScaleFactor = 0 /\ 0 * (-MakerFee) = 0
    BY MarketAssumption DEF MarketAssumption
  <2> QED
    BY <1>3, <2>1, <2>2 DEF RebatesWithin
<1>5. Grown(b, b)
  BY GrownNot
<1>6. m.base <= order.base /\ m.quote + m.decremented <= maxQuote
  BY <1>1, <1>3
<1>7. MatchOK(m, b, order, maxQuote)
  BY <1>3, <1>4, <1>5, <1>6, Zenon DEF MatchOK
<1> QED
  BY <1>2, <1>3, <1>7 DEF Matches, m

\* What the matching walks over.
ItemsFit(items, S, side, feed) ==
  /\ Len(items) \in Nat
  /\ \A i \in 1..Len(items) :
       /\ items[i].leaf \in S /\ items[i].leaf \in Leaves /\ items[i].leaf.side = side
       /\ items[i].price \in Nat \ {0}
  /\ \A i, j \in 1..Len(items) : items[i].leaf = items[j].leaf => i = j

LEMMA ItemsAre ==
  ASSUME NEW S \in SUBSET Leaves, IsFiniteSet(S), SeqsUnique(S), NEW side \in Side,
         NEW time, NEW feed \in Int \cup {NoOracle}
  PROVE  ItemsFit(Iter(S, side, time, feed), S, side, feed)
<1> DEFINE items == Iter(S, side, time, feed)
<1>1. /\ items \in Seq(Items(Shown(S, side, feed), time, feed))
      /\ \A i, j \in 1..Len(items) : items[i].leaf = items[j].leaf => i = j
  BY IterIs
<1> HIDE DEF items
<1>2. Len(items) \in Nat /\ \A i \in 1..Len(items) : items[i] \in Items(Shown(S, side, feed), time, feed)
  BY <1>1
<1>3. ASSUME NEW i \in 1..Len(items)
      PROVE  /\ items[i].leaf \in S /\ items[i].leaf \in Leaves /\ items[i].leaf.side = side
             /\ items[i].price \in Nat \ {0}
  BY <1>2, ItemIs
<1> QED
  BY <1>1, <1>2, <1>3 DEF ItemsFit, items

\* The states that the matching goes through.
MatchRun(w, items, b, order, maxQuote, u, own, limitPrice, present, time) ==
  /\ w[0] = Matching(b, order, maxQuote)
  /\ \A i \in 1..Len(items) :
       /\ w[i - 1] \in Matches(b, order, maxQuote)
       /\ w[i] = MatchStep(w[i - 1], items[i], order, u, own, limitPrice, present, time)
  /\ w[Len(items)] \in Matches(b, order, maxQuote)

LEMMA MatchRuns ==
  ASSUME NEW b \in Books, SeqsUnique(b.leaves), NEW order \in OrderType, NEW maxQuote \in Nat,
         NEW u \in Users, NEW own \in SUBSET Users, NEW limitPrice, NEW present,
         NEW time \in 1..MaxTime, NEW feed \in Int \cup {NoOracle}
  PROVE  LET items == Iter(b.leaves, InvertSide(order.side), time, feed)
         IN  /\ ItemsFit(items, b.leaves, InvertSide(order.side), feed)
             /\ \E w : /\ MatchRun(w, items, b, order, maxQuote, u, own, limitPrice, present, time)
                       /\ Match(b, order, maxQuote, u, own, limitPrice, present, time, feed)
                            = w[Len(items)]
<1> DEFINE items == Iter(b.leaves, InvertSide(order.side), time, feed)
           n == Len(items)
           V == Matches(b, order, maxQuote)
           start == Matching(b, order, maxQuote)
           step == [x \in (1..n) \X V |->
                      MatchStep(x[2], items[x[1]], order, u, own, limitPrice, present, time)]
<1>1. InvertSide(order.side) \in Side /\ b.leaves \in SUBSET Leaves /\ IsFiniteSet(b.leaves)
  BY DEF InvertSide, Side, Books, BookType
<1>2. ItemsFit(items, b.leaves, InvertSide(order.side), feed)
  BY <1>1, ItemsAre
<1> HIDE DEF items
<1>3. n \in Nat /\ \A i \in 1..n : items[i].leaf \in Leaves /\ items[i].price \in Nat \ {0}
  BY <1>2 DEF ItemsFit
<1> HIDE DEF n
<1>4. \A i \in 1..n, m \in V :
        MatchStep(m, items[i], order, u, own, limitPrice, present, time) \in V
  BY <1>3, MatchStepKeeps
<1>5. start \in V
  BY MatchingIs
<1> HIDE DEF V, start
<1>6. /\ step \in [(1..n) \X V -> V]
      /\ \A i \in 1..n : \A m \in V :
           step[<<i, m>>] = MatchStep(m, items[i], order, u, own, limitPrice, present, time)
  BY <1>4
<1> HIDE DEF step
<1>7. PICK w \in [0..n -> V] : w[0] = start /\ \A i \in 1..n : w[i] = step[<<i, w[i - 1]>>]
  <2>1. step \in Rounds(n, V)
    BY <1>6 DEF Rounds
  <2>2. LoopRuns(n, V, start, step) # {}
    BY <1>3, <1>5, <2>1, LoopExists
  <2> QED
    BY <2>2 DEF LoopRuns
<1> DEFINE walk == CHOOSE g : g = [i \in 0..n |->
                     IF i = 0 THEN start
                     ELSE MatchStep(g[i - 1], items[i], order, u, own, limitPrice, present, time)]
<1>8. w = [i \in 0..n |->
             IF i = 0 THEN start
             ELSE MatchStep(w[i - 1], items[i], order, u, own, limitPrice, present, time)]
  <2>1. \A i \in 0..n : w[i] =
          IF i = 0 THEN start
          ELSE MatchStep(w[i - 1], items[i], order, u, own, limitPrice, present, time)
    <3> TAKE i \in 0..n
    <3>1. CASE i # 0
      <4>1. i \in 1..n /\ i - 1 \in 0..n
        BY <1>3, <3>1
      <4> QED
        BY <1>6, <1>7, <3>1, <4>1
    <3> QED
      BY <1>7, <3>1
  <2> QED
    BY <1>7, <2>1
<1>9. walk = [i \in 0..n |->
                IF i = 0 THEN start
                ELSE MatchStep(walk[i - 1], items[i], order, u, own, limitPrice, present, time)]
  BY <1>8, Zenon
<1>10. Match(b, order, maxQuote, u, own, limitPrice, present, time, feed) = walk[n]
  BY Zenon DEF Match, items, n, start
<1> HIDE DEF walk
<1>11. /\ walk[0] = start
       /\ \A i \in 1..n :
            walk[i] = MatchStep(walk[i - 1], items[i], order, u, own, limitPrice, present, time)
  <2>1. 0 \in 0..n /\ \A i \in 1..n : i \in 0..n /\ i # 0
    BY <1>3
  <2> QED
    BY <1>9, <2>1
<1>12. \A i \in 0..n : walk[i] \in V
  <2>1. walk[0] \in V /\ \A i \in 1..n : walk[i - 1] \in V => walk[i] \in V
    BY <1>4, <1>5, <1>11
  <2> QED
    BY <1>3, <2>1, LoopInvariant
<1>13. n \in 0..n /\ \A i \in 1..n : i - 1 \in 0..n
  BY <1>3
<1>14. MatchRun(walk, items, b, order, maxQuote, u, own, limitPrice, present, time)
  BY <1>11, <1>12, <1>13 DEF MatchRun, n, V, start
<1> QED
  BY <1>2, <1>10, <1>14 DEF items, n

\* What is still to be walked over is still on the book.
\* What is left of the leaf has its number, if anything is left.
LeafShrinks(S, l, T) ==
  T \subseteq S \/ \E rest \in Leaves : rest.seq = l.seq /\ T = (S \ {l}) \cup {rest}

LEMMA MatchChangeIs ==
  ASSUME NEW c \in Books, NEW l \in Leaves, NEW order \in OrderType, NEW u \in Users, NEW own,
         NEW price \in Nat \ {0}, NEW present, NEW time \in 1..MaxTime,
         NEW d, MatchChange(c, d, l, order, u, own, price, present, time)
  PROVE  /\ d \in Books /\ d.bump = c.bump
         /\ c.leaves \ {l} \subseteq d.leaves
         /\ LeafShrinks(c.leaves, l, d.leaves)
<1>1. l.qty \in Nat \ {0} /\ l.seq \in Int /\ c \in BookType
  BY DEF Leaves, LeafType, Books
<1>2. CASE d = c
  BY <1>2 DEF LeafShrinks
<1>3. CASE d = [c EXCEPT !.ok = FALSE]
  <2>1. d \in Books /\ d.bump = c.bump /\ d.leaves = c.leaves
    BY <1>3, FailedKeeps DEF Grown
  <2> QED
    BY <2>1 DEF LeafShrinks
<1>4. CASE d = DropFromBook(c, l, present)
  BY <1>4, DropFromBookKeeps DEF Grown, LeafShrinks
<1>5. CASE d = DropFromBook(c, l, {l.owner})
  BY <1>5, DropFromBookKeeps DEF Grown, LeafShrinks
<1>6. ASSUME NEW qty \in 1..l.qty,
             d = PushEvent(Reduce(c, l, qty), FillEvent(order, u, own, l, price, qty, time))
      PROVE  /\ d \in Books /\ d.bump = c.bump /\ c.leaves \ {l} \subseteq d.leaves
             /\ LeafShrinks(c.leaves, l, d.leaves)
  <2> DEFINE e == Reduce(c, l, qty)
             rest == IF qty = l.qty THEN {} ELSE {[l EXCEPT !.qty = l.qty - qty]}
             ev == FillEvent(order, u, own, l, price, qty, time)
  <2>1. qty \in Nat \ {0} /\ qty <= l.qty
    BY <1>1
  <2>2. e \in Books /\ e.leaves = (c.leaves \ {l}) \cup rest /\ e.bump = c.bump
    BY <2>1, ReduceKeeps
  <2>3. ev \in EventType
    BY <2>1, FillEventIs
  <2>4. d = PushEvent(e, ev)
    BY <1>6
  <2>5. rest = {} \/ \E k \in Leaves : k.seq = l.seq /\ rest = {k}
    <3>1. CASE qty # l.qty
      <4> DEFINE k == [l EXCEPT !.qty = l.qty - qty]
      <4>1. l.qty - qty \in Nat \ {0}
        BY <1>1, <2>1, <3>1
      <4>2. k \in Leaves /\ k.seq = l.seq
        BY <4>1 DEF Leaves, LeafType
      <4> QED
        BY <3>1, <4>2
    <3> QED
      BY <3>1
  <2> HIDE DEF e, ev, rest
  <2>6. d \in Books /\ d.leaves = e.leaves /\ d.bump = e.bump
    BY <2>2, <2>3, <2>4, PushEventKeeps
  <2> QED
    BY <2>2, <2>5, <2>6 DEF LeafShrinks
<1> QED
  BY <1>2, <1>3, <1>4, <1>5, <1>6 DEF MatchChange

\* H is a set of states that no step of the matching of an order leaves.
StepStays(H, b, order, maxQuote, u, own, limitPrice, present, time, feed) ==
  \A m \in H, item \in Items(Shown(b.leaves, InvertSide(order.side), feed), time, feed) :
    m \in Matches(b, order, maxQuote) /\ item.leaf \in m.b.leaves
      => MatchStep(m, item, order, u, own, limitPrice, present, time) \in H

LEMMA MatchStays ==
  ASSUME NEW b \in Books, SeqsUnique(b.leaves), NEW order \in OrderType, NEW maxQuote \in Nat,
         NEW u \in Users, NEW own \in SUBSET Users, NEW limitPrice, NEW present,
         NEW time \in 1..MaxTime, NEW feed \in Int \cup {NoOracle},
         NEW H
  PROVE  /\ Matching(b, order, maxQuote) \in H
         /\ StepStays(H, b, order, maxQuote, u, own, limitPrice, present, time, feed)
         => /\ Match(b, order, maxQuote, u, own, limitPrice, present, time, feed)
                 \in Matches(b, order, maxQuote)
            /\ Match(b, order, maxQuote, u, own, limitPrice, present, time, feed) \in H
<1> DEFINE items == Iter(b.leaves, InvertSide(order.side), time, feed)
           n == Len(items)
           V == Matches(b, order, maxQuote)
<1>1. PICK w : /\ ItemsFit(items, b.leaves, InvertSide(order.side), feed)
               /\ MatchRun(w, items, b, order, maxQuote, u, own, limitPrice, present, time)
               /\ Match(b, order, maxQuote, u, own, limitPrice, present, time, feed) = w[n]
  BY MatchRuns
<1> HAVE /\ Matching(b, order, maxQuote) \in H
         /\ StepStays(H, b, order, maxQuote, u, own, limitPrice, present, time, feed)
<1>0. items \in Seq(Items(Shown(b.leaves, InvertSide(order.side), feed), time, feed))
  <2>1. InvertSide(order.side) \in Side /\ b.leaves \in SUBSET Leaves /\ IsFiniteSet(b.leaves)
    BY DEF InvertSide, Side, Books, BookType
  <2> QED
    BY <2>1, IterIs
<1> HIDE DEF items
<1> DEFINE S == {p \in (0..n) \X V : /\ p[2] \in H
                                     /\ \A j \in 1..n : j > p[1] => items[j].leaf \in p[2].b.leaves}
           g == [i \in 0..n |-> <<i, w[i]>>]
<1>2. /\ n \in Nat
      /\ \A i \in 1..n : /\ items[i].leaf \in b.leaves /\ items[i].leaf \in Leaves
                         /\ items[i].price \in Nat \ {0}
                         /\ items[i] \in Items(Shown(b.leaves, InvertSide(order.side), feed), time, feed)
      /\ \A i, j \in 1..n : items[i].leaf = items[j].leaf => i = j
  BY <1>0, <1>1 DEF ItemsFit
<1>3. /\ w[0] = Matching(b, order, maxQuote)
      /\ \A i \in 1..n :
           /\ w[i - 1] \in V
           /\ w[i] = MatchStep(w[i - 1], items[i], order, u, own, limitPrice, present, time)
      /\ w[n] \in V
  BY <1>1 DEF MatchRun
<1> HIDE DEF n, V
<1>4. g[0] \in S
  <2>1. w[0] \in V /\ w[0].b = b /\ w[0] \in H /\ 0 \in 0..n
    BY <1>2, <1>3, MatchingIs DEF V
  <2>2. g[0] = <<0, w[0]>>
    BY <2>1
  <2> QED
    BY <1>2, <2>1, <2>2
<1>5. ASSUME NEW i \in 1..n, g[i - 1] \in S PROVE g[i] \in S
  <2> DEFINE l == items[i].leaf
             m == w[i - 1]
             c == m.b
             d == w[i].b
  <2>1. i \in 0..n /\ i - 1 \in 0..n
    BY <1>2
  <2>2. g[i - 1] = <<i - 1, m>> /\ g[i] = <<i, w[i]>>
    BY <2>1
  <2>3. m \in H /\ \A j \in 1..n : j > i - 1 => items[j].leaf \in c.leaves
    BY <1>5, <2>2
  <2>4. i > i - 1 /\ \A j \in 1..n : j > i => j > i - 1
    BY <1>2
  <2>5. l \in c.leaves /\ l \in Leaves /\ items[i].price \in Nat \ {0}
    BY <1>2, <2>3, <2>4
  <2>6. /\ w[i] \in V
        /\ MatchChange(c, d, l, order, u, own, items[i].price, present, time)
    BY <1>3, <2>5, MatchStepKeeps DEF V
  <2>7. c \in Books /\ m \in V
    BY <1>3 DEF V, Matches, MatchType
  <2>8. w[i] \in H
    BY <1>2, <1>3, <2>3, <2>5, <2>7 DEF StepStays, V
  <2> HIDE DEF l, m, c, d
  <2>9. c.leaves \ {l} \subseteq d.leaves
    BY <2>5, <2>6, <2>7, MatchChangeIs
  <2>10. \A j \in 1..n : j > i => items[j].leaf \in d.leaves
    <3> TAKE j \in 1..n
    <3> HAVE j > i
    <3>1. items[j].leaf # l
      BY <1>2 DEF l
    <3> QED
      BY <2>3, <2>4, <2>9, <3>1
  <2> QED
    BY <2>1, <2>2, <2>6, <2>8, <2>10 DEF d
<1> HIDE DEF S, g
<1>6. \A i \in 0..n : g[i] \in S
  BY <1>2, <1>4, <1>5, LoopInvariant
<1>7. n \in 0..n
  BY <1>2
<1>8. w[n] \in H
  BY <1>6, <1>7 DEF S, g
<1> QED
  BY <1>1, <1>3, <1>8 DEF V, n

\* G is a set of books that no step of the matching leaves.
MatchKeeps(G, order, u, own, present, time) ==
  \A c \in G, l \in Leaves, price \in Nat \ {0} : \A d :
    /\ c \in Books /\ l \in c.leaves /\ l.side = InvertSide(order.side)
    /\ MatchChange(c, d, l, order, u, own, price, present, time)
    => d \in G

LEMMA MatchInvariant ==
  ASSUME NEW b \in Books, SeqsUnique(b.leaves), NEW order \in OrderType, NEW maxQuote \in Nat,
         NEW u \in Users, NEW own \in SUBSET Users, NEW limitPrice, NEW present,
         NEW time \in 1..MaxTime, NEW feed \in Int \cup {NoOracle},
         NEW G, b \in G, MatchKeeps(G, order, u, own, present, time)
  PROVE  /\ Match(b, order, maxQuote, u, own, limitPrice, present, time, feed)
              \in Matches(b, order, maxQuote)
         /\ Match(b, order, maxQuote, u, own, limitPrice, present, time, feed).b \in G
<1> DEFINE side == InvertSide(order.side)
           H == {m \in Matches(b, order, maxQuote) : m.b \in G}
<1>1. side \in Side /\ b.leaves \in SUBSET Leaves
  BY DEF InvertSide, Side, Books, BookType
<1>2. Matching(b, order, maxQuote) \in H
  BY MatchingIs
<1>3. ASSUME NEW m \in H, NEW item \in Items(Shown(b.leaves, side, feed), time, feed),
             item.leaf \in m.b.leaves
      PROVE  MatchStep(m, item, order, u, own, limitPrice, present, time) \in H
  <2> DEFINE k == MatchStep(m, item, order, u, own, limitPrice, present, time)
  <2>1. item.leaf \in Leaves /\ item.leaf.side = side /\ item.price \in Nat \ {0}
    BY <1>1, ItemIs
  <2>2. m \in Matches(b, order, maxQuote) /\ m.b \in G /\ m.b \in Books
    BY DEF Matches, MatchType
  <2>3. /\ k \in Matches(b, order, maxQuote)
        /\ MatchChange(m.b, k.b, item.leaf, order, u, own, item.price, present, time)
    BY <2>1, <2>2, MatchStepKeeps
  <2> HIDE DEF k
  <2>4. k.b \in G
    BY <1>3, <2>1, <2>2, <2>3, Zenon DEF MatchKeeps
  <2> QED
    BY <2>3, <2>4 DEF k
<1>4. StepStays(H, b, order, maxQuote, u, own, limitPrice, present, time, feed)
  BY <1>3 DEF StepStays
<1> HIDE DEF H
<1>5. /\ Match(b, order, maxQuote, u, own, limitPrice, present, time, feed)
           \in Matches(b, order, maxQuote)
      /\ Match(b, order, maxQuote, u, own, limitPrice, present, time, feed) \in H
  BY <1>2, <1>4, MatchStays
<1> QED
  BY <1>5 DEF H

-----------------------------------------------------------------------------
(* Posting an order.                                                       *)

\* The books on which n orders have been numbered.
Fresh(n) == {b \in Books : SeqsUnique(b.leaves) /\ \A l \in b.leaves : l.seq <= n}

LEMMA FreshShrinks ==
  ASSUME NEW n, NEW b \in Fresh(n), NEW c \in Books, c.leaves \subseteq b.leaves
  PROVE  c \in Fresh(n)
BY DEF Fresh, SeqsUnique

LEMMA DropIsFresh ==
  ASSUME NEW n, NEW b \in Fresh(n), NEW l \in b.leaves, NEW present
  PROVE  DropFromBook(b, l, present) \in Fresh(n)
<1> DEFINE c == DropFromBook(b, l, present)
<1>1. b \in Books /\ l \in Leaves
  BY DEF Fresh, Books, BookType
<1>2. c \in Books /\ c.leaves = b.leaves \ {l}
  BY <1>1, DropFromBookKeeps DEF Grown
<1> HIDE DEF c
<1>3. c \in Fresh(n)
  BY <1>2, FreshShrinks
<1> QED
  BY <1>3 DEF c

LEMMA FailedIsFresh ==
  ASSUME NEW n, NEW b \in Fresh(n)
  PROVE  [b EXCEPT !.ok = FALSE] \in Fresh(n)
<1> DEFINE c == [b EXCEPT !.ok = FALSE]
<1>1. b \in Books
  BY DEF Fresh
<1>2. c \in Books /\ c.leaves = b.leaves
  BY <1>1, FailedKeeps DEF Grown
<1> HIDE DEF c
<1>3. c \in Fresh(n)
  BY <1>2, FreshShrinks
<1> QED
  BY <1>3 DEF c

\* The leaf that expires first, and the last one, exist.
ExpiryPairs(S) ==
  {p \in S \X S : \/ ExpiresAt(p[1]) < ExpiresAt(p[2])
                  \/ ExpiresAt(p[1]) = ExpiresAt(p[2]) /\ LowerKey(p[1], p[2])}
LEMMA EarliestExpiryIs ==
  ASSUME NEW S \in SUBSET Leaves, IsFiniteSet(S), S # {}, SeqsUnique(S),
         NEW side \in Side, \A l \in S : l.side = side
  PROVE  EarliestExpiry(S) \in S
<1>1. \A l \in S : l.data \in Int /\ l.seq \in Int /\ ExpiresAt(l) \in Int
  <2>1. \A l \in S : l.data \in Int /\ l.seq \in Int /\ l.ts \in Int /\ l.tif \in Int
    BY DEF Leaves, LeafType
  <2> QED
    BY <2>1, MarketAssumption DEF ExpiresAt, MarketAssumption
<1>2. \A l, m \in S : <<l, m>> \in ExpiryPairs(S) <=>
                        \/ ExpiresAt(l) < ExpiresAt(m)
                        \/ ExpiresAt(l) = ExpiresAt(m) /\ LowerKey(l, m)
  BY DEF ExpiryPairs
<1>3. \A l, m \in S : l # m => LowerKey(l, m) \/ LowerKey(m, l)
  BY <1>1 DEF LowerKey, KeyAhead, Ahead, IsPriceBetter, SeqsUnique
<1>4. \A l, m, k \in S : LowerKey(l, m) /\ LowerKey(m, k) => LowerKey(l, k)
  BY <1>1 DEF LowerKey, KeyAhead, Ahead, IsPriceBetter
<1>5. \A l, m \in S : l # m => <<l, m>> \in ExpiryPairs(S) \/ <<m, l>> \in ExpiryPairs(S)
  BY <1>1, <1>2, <1>3
<1>6. \A l, m, k \in S : <<l, m>> \in ExpiryPairs(S) /\ <<m, k>> \in ExpiryPairs(S)
                           => <<l, k>> \in ExpiryPairs(S)
  BY <1>1, <1>2, <1>4
<1>7. IsOrdered(ExpiryPairs(S), S)
  BY <1>5, <1>6 DEF IsOrdered
<1>8. \E l \in S : \A m \in S \ {l} : <<l, m>> \in ExpiryPairs(S)
  BY <1>7, FirstExists
<1>9. \E l \in S : \A m \in S \ {l} : \/ ExpiresAt(l) < ExpiresAt(m)
                                      \/ ExpiresAt(l) = ExpiresAt(m) /\ LowerKey(l, m)
  BY <1>2, <1>8
<1> QED
  BY <1>9, Zenon DEF EarliestExpiry

LastPairs(S) == {p \in S \X S : KeyAhead(p[2], p[1])}
LEMMA LastOfIs ==
  ASSUME NEW S \in SUBSET Leaves, IsFiniteSet(S), S # {}, SeqsUnique(S),
         NEW side \in Side, \A l \in S : l.side = side
  PROVE  LastOf(S) \in S
<1>1. \A l \in S : l.data \in Int /\ l.seq \in Int
  BY DEF Leaves, LeafType
<1>2. \A l, m \in S : <<l, m>> \in LastPairs(S) <=> KeyAhead(m, l)
  BY DEF LastPairs
<1>3. \A l, m \in S : l # m => KeyAhead(l, m) \/ KeyAhead(m, l)
  BY <1>1 DEF KeyAhead, Ahead, IsPriceBetter, SeqsUnique
<1>4. \A l, m, k \in S : KeyAhead(l, m) /\ KeyAhead(m, k) => KeyAhead(l, k)
  BY <1>1 DEF KeyAhead, Ahead, IsPriceBetter
<1>5. IsOrdered(LastPairs(S), S)
  BY <1>2, <1>3, <1>4 DEF IsOrdered
<1>6. \E l \in S : \A m \in S \ {l} : <<l, m>> \in LastPairs(S)
  BY <1>5, FirstExists
<1>7. \E l \in S : \A m \in S \ {l} : KeyAhead(m, l)
  BY <1>2, <1>6
<1> QED
  BY <1>7, Zenon DEF LastOf

\* What is dropped to make room is a leaf of the side.
LEMMA TreeOfBook ==
  ASSUME NEW n, NEW b \in Fresh(n), NEW side \in Side, NEW tree
  PROVE  /\ OfTree(b.leaves, side, tree) \in SUBSET Leaves
         /\ OfTree(b.leaves, side, tree) \subseteq b.leaves
         /\ IsFiniteSet(OfTree(b.leaves, side, tree))
         /\ SeqsUnique(OfTree(b.leaves, side, tree))
         /\ \A l \in OfTree(b.leaves, side, tree) : l.side = side
<1>1. b.leaves \in SUBSET Leaves /\ IsFiniteSet(b.leaves) /\ SeqsUnique(b.leaves)
  BY DEF Fresh, Books, BookType
<1>2. OfTree(b.leaves, side, tree) \subseteq b.leaves
  BY DEF OfTree
<1>3. IsFiniteSet(OfTree(b.leaves, side, tree))
  BY <1>1, <1>2, FS_Subset
<1> QED
  BY <1>1, <1>2, <1>3 DEF OfTree, SeqsUnique

LEMMA OneExpiredIs ==
  ASSUME NEW n, NEW b \in Fresh(n), NEW side \in Side, NEW tree, NEW time
  PROVE  OneExpired(b.leaves, side, tree, time) \subseteq OfSide(b.leaves, side)
<1>1. ASSUME NEW t
      PROVE  ExpiredIn(OfTree(b.leaves, side, t), time) \subseteq OfSide(b.leaves, side)
  <2> DEFINE S == OfTree(b.leaves, side, t)
  <2>1. /\ S \in SUBSET Leaves /\ S \subseteq b.leaves /\ IsFiniteSet(S) /\ SeqsUnique(S)
        /\ \A l \in S : l.side = side
    BY TreeOfBook
  <2> HIDE DEF S
  <2>2. S # {} => EarliestExpiry(S) \in S
    BY <2>1, EarliestExpiryIs
  <2>3. ExpiredIn(S, time) \subseteq OfSide(b.leaves, side)
    BY <2>1, <2>2 DEF ExpiredIn, OfSide
  <2> QED
    BY <2>3 DEF S
<1> QED
  BY <1>1 DEF OneExpired

LEMMA WorstOrderIs ==
  ASSUME NEW n, NEW b \in Fresh(n), NEW side \in Side, NEW feed
  PROVE  WorstOrder(b.leaves, side, feed) \subseteq OfSide(b.leaves, side)
<1> DEFINE f == OfTree(b.leaves, side, "Fixed")
           p == IF feed = NoOracle THEN {} ELSE OfTree(b.leaves, side, "OraclePegged")
<1>1. /\ f \in SUBSET Leaves /\ f \subseteq b.leaves /\ IsFiniteSet(f) /\ SeqsUnique(f)
      /\ \A l \in f : l.side = side
  BY TreeOfBook
<1>2. /\ p \in SUBSET Leaves /\ p \subseteq b.leaves /\ IsFiniteSet(p) /\ SeqsUnique(p)
      /\ \A l \in p : l.side = side
  <2>1. CASE feed = NoOracle
    BY <2>1, FS_EmptySet DEF SeqsUnique
  <2>2. CASE feed # NoOracle
    BY <2>2, TreeOfBook
  <2> QED
    BY <2>1, <2>2
<1>3. WorstOrder(b.leaves, side, feed)
        = IF f = {} /\ p = {} THEN {}
          ELSE IF p = {} \/ (f # {} /\ ~FixedAhead(LastOf(f), LastOf(p), feed))
          THEN {LastOf(f)} ELSE {LastOf(p)}
  BY Zenon DEF WorstOrder
<1> HIDE DEF f, p
<1>4. (f # {} => LastOf(f) \in f) /\ (p # {} => LastOf(p) \in p)
  BY <1>1, <1>2, LastOfIs
<1>5. (f # {} => LastOf(f) \in OfSide(b.leaves, side)) /\ (p # {} => LastOf(p) \in OfSide(b.leaves, side))
  BY <1>1, <1>2, <1>4 DEF OfSide
<1> QED
  BY <1>3, <1>5

\* G is a set of books that no order dropped to make room leaves.
DropKeeps(G, present) ==
  \A c \in G : /\ [c EXCEPT !.ok = FALSE] \in G
               /\ \A l \in c.leaves : DropFromBook(c, l, present) \in G

LEMMA DropOneExpiredKeeps ==
  ASSUME NEW n, NEW b \in Fresh(n), NEW order \in OrderType, NEW present, NEW time,
         NEW G, b \in G, DropKeeps(G, present)
  PROVE  DropOneExpired(b, order, present, time) \in G
<1> DEFINE S == OneExpired(b.leaves, order.side, PostTree(order), time)
<1>1. S \subseteq b.leaves
  <2>1. order.side \in Side
    BY DEF OrderType
  <2> QED
    BY <2>1, OneExpiredIs DEF OfSide
<1>2. CASE S = {}
  BY <1>2 DEF DropOneExpired
<1>3. CASE S # {}
  <2> DEFINE l == CHOOSE l \in S : TRUE
  <2>1. l \in b.leaves
    BY <1>1, <1>3
  <2>2. DropOneExpired(b, order, present, time) = DropFromBook(b, l, present)
    BY <1>3 DEF DropOneExpired
  <2> HIDE DEF l
  <2> QED
    BY <2>1, <2>2 DEF DropKeeps
<1> QED
  BY <1>2, <1>3

LEMMA EvictWorstKeeps ==
  ASSUME NEW n, NEW b \in Fresh(n), NEW order \in OrderType, NEW price, NEW present, NEW feed,
         NEW G, b \in G, DropKeeps(G, present)
  PROVE  EvictWorst(b, order, price, present, feed) \in G
<1> DEFINE S == WorstOrder(b.leaves, order.side, feed)
           l == CHOOSE l \in S : TRUE
<1>1. S \subseteq b.leaves
  <2>1. order.side \in Side
    BY DEF OrderType
  <2> QED
    BY <2>1, WorstOrderIs DEF OfSide
<1>2. CASE ~IsFull(b.leaves, order.side, b.bump[order.side])
  BY <1>2 DEF EvictWorst
<1>3. CASE /\ IsFull(b.leaves, order.side, b.bump[order.side])
           /\ S = {} \/ ~IsPriceBetter(order.side, price, PriceNow(feed, l))
  <2>1. EvictWorst(b, order, price, present, feed) = [b EXCEPT !.ok = FALSE]
    BY <1>3 DEF EvictWorst
  <2> QED
    BY <2>1 DEF DropKeeps
<1>4. CASE /\ IsFull(b.leaves, order.side, b.bump[order.side])
           /\ ~(S = {} \/ ~IsPriceBetter(order.side, price, PriceNow(feed, l)))
  <2>1. l \in b.leaves
    BY <1>1, <1>4
  <2>2. EvictWorst(b, order, price, present, feed) = DropFromBook(b, l, present)
    BY <1>4 DEF EvictWorst
  <2> HIDE DEF l
  <2> QED
    BY <2>1, <2>2 DEF DropKeeps
<1> QED
  BY <1>2, <1>3, <1>4

LEMMA FreshDrops ==
  ASSUME NEW n, NEW b \in Books, NEW present
  PROVE  /\ DropKeeps(Fresh(n), present)
         /\ DropKeeps({c \in Fresh(n) : Grown(b, c)}, present)
<1> DEFINE G == {c \in Fresh(n) : Grown(b, c)}
<1>1. DropKeeps(Fresh(n), present)
  BY DropIsFresh, FailedIsFresh DEF DropKeeps
<1>2. ASSUME NEW c \in G PROVE [c EXCEPT !.ok = FALSE] \in G
  <2> DEFINE d == [c EXCEPT !.ok = FALSE]
  <2>1. c \in Books /\ c \in Fresh(n) /\ Grown(b, c)
    BY DEF Fresh
  <2>2. Grown(c, d) /\ d \in Fresh(n)
    BY <2>1, FailedKeeps, FailedIsFresh
  <2> HIDE DEF d
  <2>3. d \in G
    BY <2>1, <2>2, GrownTwice
  <2> QED
    BY <2>3 DEF d
<1>3. ASSUME NEW c \in G, NEW l \in c.leaves PROVE DropFromBook(c, l, present) \in G
  <2> DEFINE d == DropFromBook(c, l, present)
  <2>1. c \in Books /\ c \in Fresh(n) /\ Grown(b, c) /\ l \in Leaves
    BY DEF Fresh, Books, BookType
  <2>2. Grown(c, d) /\ d \in Fresh(n)
    BY <2>1, DropFromBookKeeps, DropIsFresh
  <2> HIDE DEF d
  <2>3. d \in G
    BY <2>1, <2>2, GrownTwice
  <2> QED
    BY <2>3 DEF d
<1> HIDE DEF G
<1>4. DropKeeps(G, present)
  BY <1>2, <1>3 DEF DropKeeps
<1> QED
  BY <1>1, <1>4 DEF G

LEMMA NextOrderSlotIs ==
  ASSUME NEW a \in AccountType, NextOrderSlot(a) # 0
  PROVE  NextOrderSlot(a) \in OrderSlot /\ a.open_orders[NextOrderSlot(a)].is_free
<1> DEFINE S == FreeSlots(a)
<1>1. S # {} /\ NextOrderSlot(a) = CHOOSE s \in S : \A t \in S : s <= t
  BY DEF NextOrderSlot
<1>2. S \subseteq Nat
  BY OpenOrdersAssumption DEF FreeSlots, OrderSlot, OpenOrdersAssumption
<1> HIDE DEF S
<1>3. \E s \in S : \A t \in S : s <= t
  BY <1>1, <1>2, LeastNat
<1>4. NextOrderSlot(a) \in S
  BY <1>1, <1>3
<1> QED
  BY <1>4 DEF S, FreeSlots

\* The fee of a bid is set aside before the order is posted.
LEMMA LockFeesKeeps ==
  ASSUME NEW b \in Books, NEW order \in OrderType, NEW price \in Nat, NEW u \in Users, NEW qty \in Nat
  PROVE  LET c == LockFees(b, order, price, u, qty)
         IN  /\ Grown(b, c) /\ c.leaves = b.leaves /\ c.bump = b.bump /\ c.heap = b.heap
             /\ \A v \in Users : v # u => c.oo[v] = b.oo[v]
             /\ c.oo[u].open_orders = b.oo[u].open_orders /\ c.oo[u].open = b.oo[u].open
             /\ c.oo[u].bids_base_lots = b.oo[u].bids_base_lots
             /\ c.oo[u].bids_quote_lots = b.oo[u].bids_quote_lots
             /\ c.oo[u].asks_base_lots = b.oo[u].asks_base_lots
             /\ c.oo[u].locked_maker_fees = b.oo[u].locked_maker_fees
                  + IF order.side = "Bid" THEN LockedFee(qty, price) ELSE 0
<1> DEFINE fee == IF order.side = "Bid" THEN LockedFee(qty, price) ELSE 0
           fees == b.oo[u].locked_maker_fees + fee
           a == [b.oo[u] EXCEPT !.locked_maker_fees = fees]
           accounts == [b.oo EXCEPT ![u] = a]
           fits == b.ok /\ qty * price <= MaxQuoteLots
           c == LockFees(b, order, price, u, qty)
<1>1. b \in BookType /\ b.oo \in [Users -> AccountType] /\ b.oo[u] \in AccountType /\ b.ok \in BOOLEAN
  BY DEF Books, BookType
<1>2. c = [b EXCEPT !.oo = accounts, !.ok = fits]
  BY <1>1 DEF LockFees, BookType, AccountType
<1>3. fee \in Nat
  BY LockedNat, MarketAssumption
<1> HIDE DEF fee, c, fits
<1>4. fees \in Nat
  BY <1>1, <1>3 DEF AccountType
<1> HIDE DEF fees
<1>5. /\ a \in AccountType /\ a.open_orders = b.oo[u].open_orders /\ a.open = b.oo[u].open
      /\ a.bids_base_lots = b.oo[u].bids_base_lots /\ a.locked_maker_fees = fees
      /\ a.bids_quote_lots = b.oo[u].bids_quote_lots /\ a.asks_base_lots = b.oo[u].asks_base_lots
      /\ a.base_free_native = b.oo[u].base_free_native
      /\ a.quote_free_native = b.oo[u].quote_free_native
  BY <1>1, <1>4 DEF AccountType
<1> HIDE DEF a
<1>6. /\ accounts \in [Users -> AccountType] /\ accounts[u] = a
      /\ \A v \in Users : v # u => accounts[v] = b.oo[v]
  BY <1>1, <1>5
<1>7. fits \in BOOLEAN /\ (fits => b.ok)
  BY <1>1 DEF fits
<1> HIDE DEF accounts
<1>8. /\ c \in BookType /\ c.leaves = b.leaves /\ c.bump = b.bump /\ c.heap = b.heap
      /\ c.oo = accounts /\ c.ok = fits
  BY <1>1, <1>2, <1>6, <1>7 DEF BookType
<1>9. FreeGrows(b.oo, accounts)
  <2>1. \A v \in Users : b.oo[v].base_free_native \in Nat /\ b.oo[v].quote_free_native \in Nat
    BY <1>1 DEF AccountType
  <2> QED
    BY <1>5, <1>6, <2>1 DEF FreeGrows
<1>10. c \in Books
  BY <1>7, <1>8 DEF Books
<1> QED
  BY <1>5, <1>6, <1>7, <1>8, <1>9, <1>10 DEF Grown, c, fee, fees

LEMMA NodesUsedNat ==
  ASSUME NEW S, IsFiniteSet(S), NEW side
  PROVE  NodesUsed(S, side) \in Nat
<1>1. ASSUME NEW tree PROVE TreeNodes(Cardinality(OfTree(S, side, tree))) \in Nat
  <2> DEFINE n == Cardinality(OfTree(S, side, tree))
  <2>1. OfTree(S, side, tree) \subseteq S
    BY DEF OfTree
  <2>2. n \in Nat
    BY <2>1, FS_Subset, FS_CardinalityType
  <2> HIDE DEF n
  <2>3. TreeNodes(n) \in Nat
    BY <2>2 DEF TreeNodes
  <2> QED
    BY <2>3 DEF n
<1> QED
  BY <1>1 DEF NodesUsed

LEMMA InsertLeafKeeps ==
  ASSUME NEW b \in Books, NEW l \in Leaves
  PROVE  LET c == InsertLeaf(b, l)
         IN  /\ c \in Books /\ c.leaves = b.leaves \cup {l} /\ c.oo = b.oo /\ c.heap = b.heap
             /\ c.ok => b.ok
<1> DEFINE S == b.leaves \cup {l}
           used == NodesUsed(S, l.side)
           most == IF used > b.bump[l.side] THEN used ELSE b.bump[l.side]
           bumps == [b.bump EXCEPT ![l.side] = most]
           fits == b.ok /\ used <= MaxNodes
           c == InsertLeaf(b, l)
<1>1. /\ b \in BookType /\ b.bump \in [Side -> Nat] /\ b.ok \in BOOLEAN
      /\ IsFiniteSet(b.leaves) /\ l.side \in Side
      /\ b.ok => \A side \in Side : b.bump[side] <= MaxNodes
  BY DEF Books, BookType, Leaves, LeafType
<1>2. S \in SUBSET Leaves /\ IsFiniteSet(S)
  BY <1>1, FS_AddElement DEF BookType
<1>3. used \in Nat
  BY <1>2, NodesUsedNat
<1>4. c = [b EXCEPT !.ok = fits, !.leaves = S, !.bump = bumps]
  BY <1>1 DEF InsertLeaf, BookType
<1> HIDE DEF used, c, S
<1>5. bumps \in [Side -> Nat] /\ (fits => \A side \in Side : bumps[side] <= MaxNodes)
  BY <1>1, <1>3
<1>6. fits \in BOOLEAN /\ (fits => b.ok)
  BY <1>1
<1> HIDE DEF bumps, fits
<1>7. /\ c \in BookType /\ c.leaves = S /\ c.bump = bumps /\ c.heap = b.heap
      /\ c.oo = b.oo /\ c.ok = fits
  BY <1>1, <1>2, <1>4, <1>5, <1>6 DEF BookType
<1>8. c \in Books
  BY <1>2, <1>5, <1>7 DEF Books
<1> QED
  BY <1>6, <1>7, <1>8 DEF S, c

\* The book with room for the order, and with the fee set aside.
MadeRoom(b, order, price, lockedPrice, u, qty, present, time, feed) ==
  EvictWorst(DropOneExpired(LockFees(b, order, lockedPrice, u, qty), order, present, time),
             order, price, present, feed)

LEMMA MadeRoomKeeps ==
  ASSUME NEW n, NEW b \in Fresh(n), NEW order \in OrderType, NEW price, NEW lockedPrice \in Nat,
         NEW u \in Users, NEW qty \in Nat, NEW present, NEW time, NEW feed,
         NEW G, LockFees(b, order, lockedPrice, u, qty) \in G, DropKeeps(G, present)
  PROVE  MadeRoom(b, order, price, lockedPrice, u, qty, present, time, feed) \in G
<1> DEFINE c == LockFees(b, order, lockedPrice, u, qty)
           d == DropOneExpired(c, order, present, time)
<1>1. c \in Books /\ c.leaves = b.leaves
  BY LockFeesKeeps DEF Fresh, Grown
<1>2. c \in G
  OBVIOUS
<1> HIDE DEF c
<1>3. c \in Fresh(n)
  BY <1>1, FreshShrinks
<1>4. d \in Fresh(n)
  <2>1. DropKeeps(Fresh(n), present)
    BY <1>1, FreshDrops
  <2> QED
    BY <1>3, <2>1, DropOneExpiredKeeps
<1>5. d \in G
  BY <1>2, <1>3, DropOneExpiredKeeps
<1> HIDE DEF d
<1>6. EvictWorst(d, order, price, present, feed) \in G
  BY <1>4, <1>5, EvictWorstKeeps
<1> QED
  BY <1>6 DEF MadeRoom, c, d

LEMMA LeafIs ==
  ASSUME NEW order \in OrderType, WellPegged(order), NEW price \in Nat \ {0},
         NEW feed, order.pegged => feed \in Int, NEW id \in 1..MaxOrders,
         NEW u \in Users, NEW slot \in OrderSlot, NEW qty \in Nat \ {0}, NEW time \in 1..MaxTime,
         ~ExpiryPassed(order, time)
  PROVE  LET l == Leaf(order, price, feed, id, u, slot, qty, time)
         IN  /\ l \in Leaves /\ l.seq = id /\ l.owner = u /\ l.owner_slot = slot
             /\ l.qty = qty /\ l.side = order.side /\ l.tree = PostTree(order)
<1> DEFINE l == Leaf(order, price, feed, id, u, slot, qty, time)
           data == IF order.pegged THEN price - feed ELSE price
           limit == IF order.pegged THEN order.peg_limit ELSE NoPeg
<1>1. /\ order.side \in Side /\ order.pegged \in BOOLEAN /\ order.expiry \in Nat
      /\ order.peg_limit \in Nat \cup {NoPeg}
  BY DEF OrderType
<1>2. /\ data \in Int /\ (~order.pegged => data >= 1) /\ limit \in Nat \cup {NoPeg}
      /\ order.pegged => limit \in Nat
  BY <1>1 DEF WellPegged
<1>3. Tif(order, time) \in Nat
  BY <1>1 DEF ExpiryPassed, Tif
<1>4. PostTree(order) \in Tree /\ (PostTree(order) = "Fixed" <=> ~order.pegged)
  BY <1>1 DEF PostTree, Tree
<1>5. l = [side |-> order.side, tree |-> PostTree(order), seq |-> id, data |-> data, owner |-> u,
           owner_slot |-> slot, qty |-> qty, ts |-> time, tif |-> Tif(order, time),
           peg_limit |-> limit]
  BY DEF Leaf
<1> HIDE DEF l, data, limit
<1>6. l \in LeafType
  BY <1>1, <1>2, <1>3, <1>4, <1>5 DEF LeafType
<1>7. IF l.tree = "Fixed" THEN l.data >= 1 ELSE l.peg_limit \in Nat
  BY <1>2, <1>4, <1>5
<1> QED
  BY <1>5, <1>6, <1>7 DEF Leaves, l

\* What posting an order does to a book.
LEMMA PostKeeps ==
  ASSUME NEW n \in 0..MaxOrders, n + 1 \in 1..MaxOrders, NEW b \in Fresh(n),
         NEW order \in OrderType, WellPegged(order), NEW price \in Nat \ {0},
         NEW lockedPrice \in Nat, NEW feed, order.pegged => feed \in Int, NEW u \in Users,
         NEW qty \in Nat \ {0}, NEW present, NEW time \in 1..MaxTime, ~ExpiryPassed(order, time)
  PROVE  LET c == MadeRoom(b, order, price, lockedPrice, u, qty, present, time, feed)
             slot == NextOrderSlot(c.oo[u])
             l == Leaf(order, price, feed, n + 1, u, slot, qty, time)
             d == Post(b, order, price, lockedPrice, n + 1, u, qty, present, time, feed)
         IN  /\ c \in Fresh(n) /\ d \in Fresh(n + 1) /\ Grown(b, d)
             /\ d.ok => /\ c.ok /\ d.leaves = c.leaves \cup {l} /\ d.oo = c.oo /\ l \in Leaves
                        /\ d.heap = c.heap
                        /\ slot \in OrderSlot /\ c.oo[u].open_orders[slot].is_free
<1> DEFINE c == MadeRoom(b, order, price, lockedPrice, u, qty, present, time, feed)
           slot == NextOrderSlot(c.oo[u])
           l == Leaf(order, price, feed, n + 1, u, slot, qty, time)
           d == Post(b, order, price, lockedPrice, n + 1, u, qty, present, time, feed)
           G == {e \in Fresh(n) : Grown(b, e)}
<1>1. c \in G
  <2> DEFINE e == LockFees(b, order, lockedPrice, u, qty)
  <2>0. b \in Books
    BY DEF Fresh
  <2>1. b \in Books /\ Grown(b, e) /\ e.leaves = b.leaves
    BY <2>0, LockFeesKeeps
  <2> HIDE DEF e
  <2>2. e \in G
    BY <2>1, FreshShrinks DEF Grown
  <2> HIDE DEF G
  <2>3. DropKeeps(G, present)
    BY <2>1, FreshDrops DEF G
  <2> QED
    BY <2>2, <2>3, MadeRoomKeeps DEF e
<1>2. d = IF ~c.ok \/ slot = 0 THEN [c EXCEPT !.ok = FALSE] ELSE InsertLeaf(c, l)
  BY DEF Post, Insert, MadeRoom
<1>3. c \in Fresh(n) /\ Grown(b, c) /\ c \in Books /\ c.oo[u] \in AccountType /\ b \in Books
  BY <1>1 DEF Fresh, Books, BookType
<1> HIDE DEF c, d, slot, l
<1>4. CASE ~c.ok \/ slot = 0
  <2>1. d \in Fresh(n) /\ Grown(c, d) /\ ~d.ok
    BY <1>2, <1>3, <1>4, FailedIsFresh, FailedKeeps
  <2>2. d \in Fresh(n + 1)
    <3>1. \A k \in d.leaves : k.seq \in Int
      BY <2>1 DEF Fresh, Books, BookType, Leaves, LeafType
    <3> QED
      BY <2>1, <3>1 DEF Fresh
  <2> QED
    BY <1>3, <2>1, <2>2, GrownTwice DEF c, slot, l, d
<1>5. CASE c.ok /\ slot # 0
  <2>1. slot \in OrderSlot /\ c.oo[u].open_orders[slot].is_free
    BY <1>3, <1>5, NextOrderSlotIs DEF slot
  <2>2. l \in Leaves /\ l.seq = n + 1
    <3> DEFINE id == n + 1
    <3>1. id \in 1..MaxOrders
      OBVIOUS
    <3> HIDE DEF id
    <3>2. /\ Leaf(order, price, feed, id, u, slot, qty, time) \in Leaves
          /\ Leaf(order, price, feed, id, u, slot, qty, time).seq = id
      <4>1. price \in Nat \ {0} /\ qty \in Nat \ {0} /\ time \in 1..MaxTime /\ u \in Users
        OBVIOUS
      <4>2. order \in OrderType /\ WellPegged(order) /\ ~ExpiryPassed(order, time)
        OBVIOUS
      <4>3. order.pegged => feed \in Int
        OBVIOUS
      <4>4. Leaf(order, price, feed, id, u, slot, qty, time) \in Leaves
        BY <2>1, <3>1, <4>1, <4>2, <4>3, LeafIs
      <4>5. Leaf(order, price, feed, id, u, slot, qty, time).seq = id
        BY DEF Leaf
      <4> QED
        BY <4>4, <4>5
    <3> QED
      BY <3>2 DEF l, id
  <2>3. /\ d \in Books /\ d.leaves = c.leaves \cup {l} /\ d.oo = c.oo /\ d.heap = c.heap
        /\ d.ok => c.ok
    BY <1>2, <1>3, <1>5, <2>2, InsertLeafKeeps
  <2>4. Grown(c, d)
    BY <1>3, <2>3, GrownNot
  <2>5. d \in Fresh(n + 1)
    <3>1. \A k \in c.leaves : k.seq \in Int /\ k.seq <= n
      BY <1>3 DEF Fresh, Books, BookType, Leaves, LeafType
    <3>2. SeqsUnique(c.leaves)
      BY <1>3 DEF Fresh
    <3>3. \A k \in d.leaves : k.seq <= n + 1
      BY <2>2, <2>3, <3>1
    <3>4. SeqsUnique(d.leaves)
      BY <2>2, <2>3, <3>1, <3>2 DEF SeqsUnique
    <3> QED
      BY <2>3, <3>3, <3>4 DEF Fresh
  <2> QED
    BY <1>3, <2>1, <2>2, <2>3, <2>4, <2>5, GrownTwice DEF c, slot, l, d
<1> QED
  BY <1>4, <1>5

\* The order is entered in the account that trades, in a slot that was free.
LEMMA RecordKeeps ==
  ASSUME NEW n, NEW b \in Fresh(n), NEW order \in OrderType, NEW price \in Nat,
         NEW id \in 0..MaxOrders, NEW u \in Users
  PROVE  LET c == Record(b, order, price, id, u)
             slot == NextOrderSlot(b.oo[u])
         IN  /\ c \in Fresh(n) /\ Grown(b, c) /\ c.leaves = b.leaves /\ c.heap = b.heap
             /\ c.ok =>
                  /\ slot \in OrderSlot /\ b.oo[u].open_orders[slot].is_free
                  /\ \A v \in Users : v # u => c.oo[v] = b.oo[v]
                  /\ \A s \in OrderSlot \ {slot} : c.oo[u].open_orders[s] = b.oo[u].open_orders[s]
                  /\ ~c.oo[u].open_orders[slot].is_free
                  /\ c.oo[u].open_orders[slot].id = id
                  /\ c.oo[u].open_orders[slot].side = order.side
                  /\ ~IsMarket(order) => c.oo[u].open_orders[slot].tree = PostTree(order)
                  /\ c.oo[u].open_orders[slot].locked_price = price
                  /\ c.oo[u].locked_maker_fees = b.oo[u].locked_maker_fees
                  /\ c.oo[u].base_free_native = b.oo[u].base_free_native
                  /\ c.oo[u].quote_free_native = b.oo[u].quote_free_native
                  /\ c.oo[u].open = b.oo[u].open
                  /\ c.oo[u].bids_base_lots =
                       b.oo[u].bids_base_lots + IF order.side = "Bid" THEN order.base ELSE 0
                  /\ c.oo[u].bids_quote_lots =
                       b.oo[u].bids_quote_lots + IF order.side = "Bid" THEN order.base * price ELSE 0
                  /\ c.oo[u].asks_base_lots =
                       b.oo[u].asks_base_lots + IF order.side = "Bid" THEN 0 ELSE order.base
<1> DEFINE slot == NextOrderSlot(b.oo[u])
           tree == IF IsMarket(order) /\ order.side = "Ask" THEN "OraclePegged" ELSE PostTree(order)
           fits == AddOrderFits(b.oo[u], order.side, order.base, price)
           a == AddOrder(b.oo[u], slot, order.side, tree, id, order.base, price)
           accounts == [b.oo EXCEPT ![u] = a]
           new == [is_free |-> FALSE, id |-> id, side |-> order.side, tree |-> tree,
                   locked_price |-> price]
           orders == [b.oo[u].open_orders EXCEPT ![slot] = new]
           c == Record(b, order, price, id, u)
<1>1. /\ b \in Books /\ b \in BookType /\ b.oo \in [Users -> AccountType] /\ b.oo[u] \in AccountType
      /\ order.side \in Side /\ order.base \in Nat
  BY DEF Fresh, Books, BookType, OrderType
<1>2. tree \in Tree /\ (~IsMarket(order) => tree = PostTree(order))
  BY DEF Tree, PostTree
<1>3. c = IF ~b.ok \/ slot = 0 \/ ~fits THEN [b EXCEPT !.ok = FALSE] ELSE [b EXCEPT !.oo = accounts]
  BY <1>1 DEF Record, BookType
<1> HIDE DEF slot, tree, fits, a, c
<1>4. CASE ~b.ok \/ slot = 0 \/ ~fits
  <2>1. c \in Fresh(n) /\ Grown(b, c) /\ c.leaves = b.leaves /\ c.heap = b.heap /\ ~c.ok
    BY <1>1, <1>3, <1>4, FailedIsFresh, FailedKeeps
  <2> QED
    BY <2>1 DEF c, slot
<1>5. CASE b.ok /\ slot # 0 /\ fits
  <2>1. slot \in OrderSlot /\ b.oo[u].open_orders[slot].is_free
    BY <1>1, <1>5, NextOrderSlotIs DEF slot
  <2>2. /\ new \in [is_free : BOOLEAN, id : 0..MaxOrders, side : Side, tree : Tree, locked_price : Nat]
        /\ new.is_free = FALSE /\ new.id = id /\ new.side = order.side /\ new.tree = tree
        /\ new.locked_price = price
    BY <1>1, <1>2
  <2>3. /\ b.oo[u].bids_base_lots \in Int /\ b.oo[u].bids_quote_lots \in Int
        /\ b.oo[u].asks_base_lots \in Int
        /\ b.oo[u].open_orders \in [OrderSlot -> [is_free : BOOLEAN, id : 0..MaxOrders, side : Side,
                                                  tree : Tree, locked_price : Nat]]
    BY <1>1 DEF AccountType
  <2> DEFINE base == b.oo[u].bids_base_lots + order.base
             quote == b.oo[u].bids_quote_lots + order.base * price
             asks == b.oo[u].asks_base_lots + order.base
  <2>4. a = IF order.side = "Bid"
            THEN [b.oo[u] EXCEPT !.open_orders = orders, !.bids_base_lots = base,
                                 !.bids_quote_lots = quote]
            ELSE [b.oo[u] EXCEPT !.open_orders = orders, !.asks_base_lots = asks]
    BY <1>1 DEF AddOrder, AccountType, a
  <2> HIDE DEF new
  <2>5. /\ orders \in [OrderSlot -> [is_free : BOOLEAN, id : 0..MaxOrders, side : Side,
                                     tree : Tree, locked_price : Nat]]
        /\ orders[slot] = new
        /\ \A s \in OrderSlot \ {slot} : orders[s] = b.oo[u].open_orders[s]
    BY <2>1, <2>2, <2>3
  <2>6. base \in Int /\ quote \in Int /\ asks \in Int
    BY <1>1, <2>3
  <2> HIDE DEF orders, base, quote, asks
  <2>7. /\ a \in AccountType /\ a.open_orders = orders /\ a.open = b.oo[u].open
        /\ a.locked_maker_fees = b.oo[u].locked_maker_fees
        /\ a.base_free_native = b.oo[u].base_free_native
        /\ a.quote_free_native = b.oo[u].quote_free_native
    BY <1>1, <2>4, <2>5, <2>6 DEF AccountType
  <2>8. /\ a.bids_base_lots = IF order.side = "Bid" THEN base ELSE b.oo[u].bids_base_lots
        /\ a.bids_quote_lots = IF order.side = "Bid" THEN quote ELSE b.oo[u].bids_quote_lots
        /\ a.asks_base_lots = IF order.side = "Bid" THEN b.oo[u].asks_base_lots ELSE asks
    BY <1>1, <2>4 DEF AccountType
  <2>9. /\ accounts \in [Users -> AccountType] /\ accounts[u] = a
        /\ \A v \in Users : v # u => accounts[v] = b.oo[v]
    BY <1>1, <2>7
  <2> HIDE DEF accounts
  <2>10. /\ c \in BookType /\ c.leaves = b.leaves /\ c.bump = b.bump /\ c.heap = b.heap
         /\ c.oo = accounts /\ c.ok = b.ok
    BY <1>1, <1>3, <1>5, <2>9 DEF BookType
  <2>11. c \in Books
    BY <1>1, <2>10 DEF Books
  <2>12. c \in Fresh(n)
    BY <2>10, <2>11, FreshShrinks
  <2>13. FreeGrows(b.oo, c.oo)
    <3>1. \A v \in Users : b.oo[v].base_free_native \in Nat /\ b.oo[v].quote_free_native \in Nat
      BY <1>1 DEF AccountType
    <3> QED
      BY <2>7, <2>9, <2>10, <3>1 DEF FreeGrows
  <2>14. Grown(b, c)
    BY <2>10, <2>11, <2>13 DEF Grown
  <2>15. /\ ~c.oo[u].open_orders[slot].is_free
         /\ c.oo[u].open_orders[slot].id = id
         /\ c.oo[u].open_orders[slot].side = order.side
         /\ ~IsMarket(order) => c.oo[u].open_orders[slot].tree = PostTree(order)
         /\ c.oo[u].open_orders[slot].locked_price = price
    BY <1>2, <2>2, <2>5, <2>7, <2>9, <2>10
  <2>16. /\ c.oo[u].bids_base_lots =
              b.oo[u].bids_base_lots + IF order.side = "Bid" THEN order.base ELSE 0
         /\ c.oo[u].bids_quote_lots =
              b.oo[u].bids_quote_lots + IF order.side = "Bid" THEN order.base * price ELSE 0
         /\ c.oo[u].asks_base_lots =
              b.oo[u].asks_base_lots + IF order.side = "Bid" THEN 0 ELSE order.base
    <3>1. CASE order.side = "Bid"
      BY <2>3, <2>8, <2>9, <2>10, <3>1 DEF base, quote
    <3>2. CASE order.side # "Bid"
      BY <2>3, <2>8, <2>9, <2>10, <3>2 DEF asks
    <3> QED
      BY <3>1, <3>2
  <2> QED
    BY <2>1, <2>5, <2>7, <2>9, <2>10, <2>12, <2>14, <2>15, <2>16 DEF c, slot
<1> QED
  BY <1>4, <1>5

-----------------------------------------------------------------------------
(* A new order.                                                            *)

\* The price an order has, and the one its account locks for it.
LEMMA BestPriceIs ==
  ASSUME NEW S \in SUBSET Leaves, IsFiniteSet(S), SeqsUnique(S), NEW side \in Side,
         NEW time, NEW feed \in Int \cup {NoOracle}
  PROVE  BestPrice(S, side, time, feed) \subseteq Nat \ {0}
<1> DEFINE items == Iter(S, side, time, feed)
<1>1. ItemsFit(items, S, side, feed) /\ items \in Seq(Items(Shown(S, side, feed), time, feed))
  BY ItemsAre, IterIs
<1>2. BestPrice(S, side, time, feed) \subseteq {items[i].price : i \in DOMAIN items}
  BY DEF BestPrice
<1> HIDE DEF items
<1>3. DOMAIN items = 1..Len(items)
  BY <1>1
<1> QED
  BY <1>1, <1>2, <1>3 DEF ItemsFit

LEMMA OrderPriceIs ==
  ASSUME NEW S \in SUBSET Leaves, IsFiniteSet(S), SeqsUnique(S), NEW order \in OrderType,
         NEW time, NEW feed \in Int \cup {NoOracle}
  PROVE  /\ OrderPrice(S, order, time, feed) \in Int
         /\ OrderPrice(S, order, time, feed) >= 1 /\ order.pegged => feed \in Int
<1> DEFINE given == IF order.type = "Market" THEN (IF order.side = "Bid" THEN MaxI64 ELSE 1)
                    ELSE IF order.pegged THEN feed + order.price ELSE order.price
           best == BestPrice(S, InvertSide(order.side), time, feed)
<1>1. order.price \in Int /\ order.pegged \in BOOLEAN /\ MaxI64 \in Int
  BY MarketAssumption DEF OrderType, MarketAssumption
<1>2. best \subseteq Nat \ {0}
  <2>1. InvertSide(order.side) \in Side
    BY DEF InvertSide, Side
  <2> QED
    BY <2>1, BestPriceIs
<1> HIDE DEF best
<1>3. CASE order.pegged /\ feed = NoOracle
  <2>1. OrderPrice(S, order, time, feed) = 0
    BY <1>3 DEF OrderPrice
  <2> QED
    BY <2>1
<1>4. CASE ~(order.pegged /\ feed = NoOracle)
  <2>1. given \in Int /\ (order.pegged => feed \in Int)
    BY <1>1, <1>4
  <2>2. OrderPrice(S, order, time, feed)
          = IF order.type # "PostOnlySlide" THEN given ELSE SlidePrice(best, order.side, given)
    BY <1>4, Zenon DEF OrderPrice, best
  <2> HIDE DEF given
  <2>3. SlidePrice(best, order.side, given) \in Int
    <3>1. best # {} => (CHOOSE p \in best : TRUE) \in Nat
      BY <1>2
    <3>2. best = {} => SlidePrice(best, order.side, given) = given
      BY DEF SlidePrice
    <3>3. \/ SlidePrice(best, order.side, given) = given
          \/ SlidePrice(best, order.side, given) = (CHOOSE p \in best : TRUE) + -1
          \/ SlidePrice(best, order.side, given) = (CHOOSE p \in best : TRUE) + 1
      BY DEF SlidePrice
    <3> QED
      BY <2>1, <3>1, <3>2, <3>3
  <2> QED
    BY <2>1, <2>2, <2>3
<1> QED
  BY <1>3, <1>4

LEMMA LockedPriceIs ==
  ASSUME NEW order \in OrderType, WellPegged(order), NEW price \in Nat \ {0}
  PROVE  LockedPrice(order, price) \in Nat \ {0}
BY DEF LockedPrice, WellPegged

LEMMA MaxQuoteNat ==
  ASSUME NEW order \in OrderType
  PROVE  /\ MaxQuote(order) \in Nat
         /\ order.side = "Bid" /\ ~IsPostOnly(order) => MaxQuote(order) = SubtractTakerFees(order.quote)
<1>1. order.quote \in Nat
  BY DEF OrderType
<1>2. SubtractTakerFees(order.quote) \in Nat
  BY <1>1, SubtractNat, MarketAssumption
<1> QED
  BY <1>1, <1>2 DEF MaxQuote

LEMMA NoFeeOnNothing ==
  ASSUME NEW price \in Nat
  PROVE  LockedQuote(0, price) = 0 /\ LockedFee(0, price) = 0
<1>1. LockedQuote(0, price) = 0
  BY MarketAssumption DEF LockedQuote, MarketAssumption
<1>2. CeilFeeDivision(0) = 0
  <2>1. 0 <= 0 * FeesScaleFactor
    BY MarketAssumption DEF MarketAssumption
  <2>2. CeilFeeDivision(0) <= 0
    BY <2>1, CeilingLeast, MarketAssumption
  <2>3. CeilFeeDivision(0) \in Nat
    BY CeilingNat, MarketAssumption
  <2> QED
    BY <2>2, <2>3
<1>3. 0 * MakerFee = 0
  BY MarketAssumption DEF MarketAssumption
<1> QED
  BY <1>1, <1>2, <1>3 DEF LockedFee, MakerFeesCeil

\* What is left in lots when fees are taken off in native units is too little
\* to make the whole cost more than the quote.
LEMMA QuoteCost ==
  ASSUME NEW quote \in Nat, NEW taken \in Nat, NEW fees \in Nat, NEW posted \in Nat,
         taken * QuoteLotSize + fees <= quote * QuoteLotSize,
         posted = 0 \/ posted <= (quote - taken - fees) * QuoteLotSize
  PROVE  taken * QuoteLotSize + fees + posted <= quote * QuoteLotSize
<1> DEFINE L == QuoteLotSize
           x == taken * L
           y == fees * L
           z == quote * L
<1>1. L \in Nat \ {0}
  BY MarketAssumption DEF MarketAssumption
<1>2. x \in Nat /\ y \in Nat /\ z \in Nat
  BY <1>1, ProductNat
<1>3. fees <= y
  BY <1>1
<1>4. (quote - taken - fees) * L = z - x - y
  BY <1>1
<1>5. x + fees <= z /\ (posted = 0 \/ posted <= z - x - y)
  BY <1>4
<1> HIDE DEF L, x, y, z
<1>6. x + fees + posted <= z
  BY <1>2, <1>3, <1>5
<1> QED
  BY <1>6 DEF x, z, L

\* What an order takes and posts, in native units.
Amounts(r) ==
  /\ r.base_taken \in Nat /\ r.quote_taken \in Nat
  /\ r.base_posted \in Nat /\ r.quote_posted \in Nat
  /\ r.taker_fees \in Nat /\ r.maker_fees \in Nat
  /\ r.fits => r.referrer_amount \in Nat
\* It costs no more than the order allows.
Affordable(r, order) ==
  IF order.side = "Bid"
  THEN r.quote_taken + r.quote_posted + r.taker_fees + r.maker_fees <= order.quote * QuoteLotSize
  ELSE r.base_taken + r.base_posted <= order.base * BaseLotSize

LEMMA SettleAmounts ==
  ASSUME NEW b \in Books, NEW order \in OrderType, WellPegged(order),
         NEW m \in Matches(b, order, MaxQuote(order)), NEW price \in Nat \ {0}, NEW id,
         NEW u, NEW own, NEW present, NEW time, NEW feed
  PROVE  LET r == Settle(m, order, MaxQuote(order), price, id, u, own, present, time, feed)
         IN  /\ Amounts(r) /\ Affordable(r, order) /\ r.seq_num = id
             /\ m.rebates <= r.taker_fees
<1> DEFINE maxQuote == MaxQuote(order)
           taken == maxQuote - m.quote
           took == taken - m.decremented
           takerFees == TakerFeesCeil(took * QuoteLotSize)
           lockedPrice == LockedPrice(order, price)
           qty == PostQty(m, order, taken, takerFees, lockedPrice)
           posts == /\ m.post /\ qty > 0
                    /\ order.pegged => ~IsPriceBetter(order.side, price, order.peg_limit)
           postedQty == IF posts THEN qty ELSE 0
           makerFees == IF order.side = "Bid" THEN LockedFee(postedQty, lockedPrice) ELSE 0
           r == Settle(m, order, maxQuote, price, id, u, own, present, time, feed)
           left == order.quote - taken - takerFees
           byQuote == (left - MakerFeesCeil(left)) \div lockedPrice
<1>1. /\ m.base \in Nat /\ m.quote \in Nat /\ m.decremented \in Nat /\ m.rebates \in Nat
      /\ order.base \in Nat /\ order.quote \in Nat /\ maxQuote \in Nat
      /\ MatchOK(m, b, order, maxQuote)
  BY MaxQuoteNat DEF Matches, MatchType, OrderType
<1>2. /\ taken \in Nat /\ took \in Nat /\ took <= taken
      /\ m.base <= order.base /\ (IsPostOnly(order) => taken = 0)
      /\ RebatesWithin(m.rebates, took * QuoteLotSize)
  BY <1>1 DEF MatchOK
<1>3. lockedPrice \in Nat \ {0}
  BY LockedPriceIs
<1>4. BaseLotSize \in Nat \ {0} /\ QuoteLotSize \in Nat \ {0} /\ MarketAssumption
  BY MarketAssumption DEF MarketAssumption
<1> HIDE DEF maxQuote
<1>5. order.side = "Bid" => taken <= SubtractTakerFees(order.quote)
  <2>1. CASE IsPostOnly(order)
    <3>1. SubtractTakerFees(order.quote) \in Nat
      BY <1>1, <1>4, SubtractNat
    <3>2. taken = 0
      BY <1>2, <2>1
    <3> QED
      BY <3>1, <3>2
  <2>2. CASE ~IsPostOnly(order)
    <3>1. order.side = "Bid" => maxQuote = SubtractTakerFees(order.quote)
      BY <2>2, MaxQuoteNat DEF maxQuote
    <3> QED
      BY <1>1, <3>1
  <2> QED
    BY <2>1, <2>2
<1> HIDE DEF taken, took, lockedPrice
<1>6. took * QuoteLotSize \in Nat
  BY <1>2, <1>4, ProductNat
<1>7. takerFees \in Nat /\ m.rebates <= takerFees
  BY <1>1, <1>2, <1>4, <1>6, TakerFeesNat, FeePaysRebates
<1> HIDE DEF takerFees
<1>8. left \in Int
  BY <1>1, <1>2, <1>7
<1> HIDE DEF left
<1>9. byQuote \in Int
  <2> DEFINE rest == left - MakerFeesCeil(left)
  <2>1. rest \in Int
    BY <1>4, <1>8, MakerFeesType
  <2> HIDE DEF rest
  <2>2. rest \div lockedPrice \in Int
    BY <1>3, <2>1, Division
  <2> QED
    BY <2>2 DEF rest
<1>10. qty = IF m.base < byQuote THEN m.base ELSE byQuote
  BY DEF PostQty, left
<1> HIDE DEF qty
<1>11. posts => qty \in Nat \ {0} /\ qty <= m.base /\ qty <= byQuote
  <2> HIDE DEF byQuote
  <2> QED
    BY <1>1, <1>9, <1>10
<1>12. postedQty \in Nat /\ postedQty <= m.base
  BY <1>1, <1>11
<1>13. /\ r.seq_num = id
       /\ r.base_taken = (order.base - m.base) * BaseLotSize
       /\ r.quote_taken = taken * QuoteLotSize
       /\ r.base_posted = postedQty * BaseLotSize
       /\ r.quote_posted = LockedQuote(postedQty, lockedPrice)
       /\ r.taker_fees = takerFees
       /\ r.maker_fees = makerFees
       /\ r.referrer_amount = takerFees - m.rebates
       /\ r.fits = (takerFees >= m.rebates)
  BY DEF Settle, qty, takerFees, took, lockedPrice, taken, maxQuote
<1>14. posts => LockedQuote(qty, lockedPrice) + LockedFee(qty, lockedPrice) <= left * QuoteLotSize
  <2> SUFFICES ASSUME posts
               PROVE  LockedQuote(qty, lockedPrice) + LockedFee(qty, lockedPrice) <= left * QuoteLotSize
    OBVIOUS
  <2> QED
    BY <1>3, <1>4, <1>8, <1>11, PostedCost
<1> HIDE DEF r, posts
<1>15. LockedQuote(postedQty, lockedPrice) \in Nat /\ LockedFee(postedQty, lockedPrice) \in Nat
  BY <1>3, <1>4, <1>12, LockedNat
<1>16. taken * QuoteLotSize \in Nat /\ postedQty * BaseLotSize \in Nat
       /\ (order.base - m.base) * BaseLotSize \in Nat
  <2>1. order.base - m.base \in Nat
    BY <1>1, <1>2
  <2> QED
    BY <1>2, <1>4, <1>12, <2>1, ProductNat
<1>17. Amounts(r)
  BY <1>1, <1>7, <1>13, <1>15, <1>16 DEF Amounts
<1>18. CASE order.side = "Bid"
  <2> DEFINE cost == LockedQuote(postedQty, lockedPrice) + LockedFee(postedQty, lockedPrice)
  <2>1. cost \in Nat /\ (cost = 0 \/ cost <= left * QuoteLotSize)
    <3>1. CASE posts
      BY <1>14, <1>15, <3>1
    <3>2. CASE ~posts
      BY <1>3, <3>2, NoFeeOnNothing
    <3> QED
      BY <3>1, <3>2
  <2>2. taken * QuoteLotSize + takerFees <= order.quote * QuoteLotSize
    BY <1>1, <1>2, <1>4, <1>5, <1>18, TakenCost DEF takerFees
  <2> HIDE DEF cost
  <2>3. taken * QuoteLotSize + takerFees + cost <= order.quote * QuoteLotSize
    BY <1>1, <1>2, <1>7, <2>1, <2>2, QuoteCost DEF left
  <2> DEFINE x == taken * QuoteLotSize
             y == LockedQuote(postedQty, lockedPrice)
             z == LockedFee(postedQty, lockedPrice)
             most == order.quote * QuoteLotSize
  <2>4. /\ r.quote_taken = x /\ r.quote_posted = y /\ r.maker_fees = z /\ r.taker_fees = takerFees
        /\ x \in Nat /\ y \in Nat /\ z \in Nat /\ x + takerFees + (y + z) <= most
        /\ most \in Nat
    BY <1>1, <1>4, <1>13, <1>15, <1>16, <1>18, <2>3, ProductNat DEF cost
  <2> HIDE DEF x, y, z, most
  <2>5. r.quote_taken + r.quote_posted + r.taker_fees + r.maker_fees <= most
    BY <1>7, <2>4
  <2>6. Affordable(r, order)
    BY <1>18, <2>5 DEF Affordable, most
  <2> QED
    BY <1>7, <1>13, <1>17, <2>6 DEF r, maxQuote
<1>19. CASE order.side # "Bid"
  <2>1. (order.base - m.base) * BaseLotSize + postedQty * BaseLotSize
          = (order.base - m.base + postedQty) * BaseLotSize
    BY <1>1, <1>4, <1>12
  <2>2. (order.base - m.base + postedQty) * BaseLotSize <= order.base * BaseLotSize
    <3> DEFINE k == order.base - m.base + postedQty
    <3>1. k \in Int /\ k <= order.base
      BY <1>1, <1>12
    <3> HIDE DEF k
    <3>2. k * BaseLotSize <= order.base * BaseLotSize
      BY <1>1, <1>4, <3>1, ProductMonotonic
    <3> QED
      BY <3>2 DEF k
  <2>3. Affordable(r, order)
    BY <1>13, <1>19, <2>1, <2>2 DEF Affordable
  <2> QED
    BY <1>7, <1>13, <1>17, <2>3 DEF r, maxQuote
<1> QED
  BY <1>18, <1>19

LEMMA FreshMatches ==
  ASSUME NEW n, NEW order \in OrderType, NEW u \in Users, NEW own, NEW present,
         NEW time \in 1..MaxTime
  PROVE  MatchKeeps(Fresh(n), order, u, own, present, time)
<1> SUFFICES ASSUME NEW c \in Fresh(n), NEW l \in Leaves, NEW price \in Nat \ {0}, NEW d,
                    c \in Books, l \in c.leaves,
                    MatchChange(c, d, l, order, u, own, price, present, time)
             PROVE  d \in Fresh(n)
  BY Zenon DEF MatchKeeps
<1>1. d \in Books /\ LeafShrinks(c.leaves, l, d.leaves)
  BY MatchChangeIs
<1>2. CASE d.leaves \subseteq c.leaves
  BY <1>1, <1>2, FreshShrinks
<1>3. ASSUME NEW rest \in Leaves, rest.seq = l.seq, d.leaves = (c.leaves \ {l}) \cup {rest}
      PROVE  d \in Fresh(n)
  <2>1. SeqsUnique(c.leaves) /\ \A k \in c.leaves : k.seq <= n
    BY DEF Fresh
  <2>2. SeqsUnique(d.leaves) /\ \A k \in d.leaves : k.seq <= n
    BY <1>3, <2>1 DEF SeqsUnique
  <2> QED
    BY <1>1, <2>2 DEF Fresh
<1> QED
  BY <1>1, <1>2, <1>3 DEF LeafShrinks

\* The book that is settled when the matching has ended.
SettledBook(c, r, order, price, id, u, own, present, time, feed, qty) ==
  LET locked == LockedPrice(order, price)
      d == IF qty = 0 THEN c ELSE Post(c, order, price, locked, id, u, qty, present, time, feed)
  IN  /\ r.b = IF own = {} THEN d ELSE Record(d, order, locked, id, u)
      /\ c.ok => /\ r.base_posted = qty * BaseLotSize
                 /\ r.quote_posted = LockedQuote(qty, locked)
                 /\ r.maker_fees = IF order.side = "Bid" THEN LockedFee(qty, locked) ELSE 0

LEMMA SettleBook ==
  ASSUME NEW b \in Books, NEW order \in OrderType, WellPegged(order), NEW maxQuote \in Nat,
         NEW m \in Matches(b, order, maxQuote), NEW price \in Nat \ {0}, NEW id,
         NEW u, NEW own, NEW present, NEW time, NEW feed,
         NEW r, r = Settle(m, order, maxQuote, price, id, u, own, present, time, feed)
  PROVE  \E qty \in 0..order.base :
           /\ SettledBook(m.b, r, order, price, id, u, own, present, time, feed, qty)
           /\ qty <= m.base
           /\ qty # 0 => m.b.ok /\ ~IsMarket(order)
<1> DEFINE taken == maxQuote - m.quote
           took == taken - m.decremented
           takerFees == TakerFeesCeil(took * QuoteLotSize)
           lockedPrice == LockedPrice(order, price)
           size == PostQty(m, order, taken, takerFees, lockedPrice)
           posts == /\ m.post /\ size > 0
                    /\ order.pegged => ~IsPriceBetter(order.side, price, order.peg_limit)
           posted == IF posts /\ m.b.ok
                     THEN Post(m.b, order, price, lockedPrice, id, u, size, present, time, feed)
                     ELSE m.b
           left == order.quote - taken - takerFees
           byQuote == (left - MakerFeesCeil(left)) \div lockedPrice
           qty == IF posts /\ m.b.ok THEN size ELSE 0
           postedQty == IF posts THEN size ELSE 0
<1>1. /\ m.base \in Nat /\ m.quote \in Nat /\ m.decremented \in Nat /\ m.b.ok \in BOOLEAN
      /\ order.base \in Nat /\ order.quote \in Nat /\ m.base <= order.base
      /\ m.quote + m.decremented <= maxQuote /\ (m.post => ~IsMarket(order))
  BY DEF Matches, MatchType, MatchOK, OrderType, Books, BookType
<1>2. taken \in Nat /\ took \in Nat /\ MarketAssumption /\ QuoteLotSize \in Nat
  BY <1>1, MarketAssumption DEF MarketAssumption
<1>3. lockedPrice \in Nat \ {0}
  BY LockedPriceIs
<1>4. r.b = IF own = {} THEN posted ELSE Record(posted, order, lockedPrice, id, u)
  BY Zenon DEF Settle
<1>13. /\ r.base_posted = postedQty * BaseLotSize
       /\ r.quote_posted = LockedQuote(postedQty, lockedPrice)
       /\ r.maker_fees = IF order.side = "Bid" THEN LockedFee(postedQty, lockedPrice) ELSE 0
  BY Zenon DEF Settle
<1>14. m.b.ok => qty = postedQty
  OBVIOUS
<1> HIDE DEF taken, took, lockedPrice, postedQty
<1>5. takerFees \in Nat
  <2>1. took * QuoteLotSize \in Nat
    BY <1>2, ProductNat
  <2> HIDE DEF takerFees
  <2> QED
    BY <1>2, <2>1, TakerFeesNat DEF takerFees
<1> HIDE DEF takerFees
<1>6. left \in Int
  BY <1>1, <1>2, <1>5
<1> HIDE DEF left
<1>7. byQuote \in Int
  <2> DEFINE rest == left - MakerFeesCeil(left)
  <2>1. rest \in Int
    BY <1>2, <1>6, MakerFeesType
  <2> HIDE DEF rest
  <2>2. rest \div lockedPrice \in Int
    BY <1>3, <2>1, Division
  <2> QED
    BY <2>2 DEF rest
<1>8. size = IF m.base < byQuote THEN m.base ELSE byQuote
  BY DEF PostQty, left
<1> HIDE DEF size, byQuote
<1>9. size \in Int /\ size <= m.base
  BY <1>1, <1>7, <1>8
<1>10. qty \in 0..order.base /\ qty <= m.base /\ (qty # 0 => m.b.ok /\ ~IsMarket(order))
  BY <1>1, <1>9
<1>11. posted = IF qty = 0 THEN m.b
                ELSE Post(m.b, order, price, lockedPrice, id, u, qty, present, time, feed)
  BY <1>9
<1> HIDE DEF qty, posted
<1>12. SettledBook(m.b, r, order, price, id, u, own, present, time, feed, qty)
  BY <1>4, <1>11, <1>13, <1>14, Zenon DEF SettledBook, lockedPrice
<1> QED
  BY <1>10, <1>12

\* How an order comes about: a price, a run of the matching, and the settling.
NewOrderRun(b, n, order, u, own, remaining, time, feed, r, price, m, qty) ==
  LET present == own \cup remaining
  IN  /\ m = Match(b, order, MaxQuote(order), u, own, price, present, time, feed)
      /\ m \in Matches(b, order, MaxQuote(order)) /\ m.b \in Fresh(n)
      /\ r = Settle(m, order, MaxQuote(order), price, n + 1, u, own, present, time, feed)
      /\ SettledBook(m.b, r, order, price, n + 1, u, own, present, time, feed, qty)
      /\ qty <= m.base
      /\ qty # 0 => m.b.ok /\ ~IsMarket(order)

LEMMA NewOrderRuns ==
  ASSUME NEW n, NEW b \in Fresh(n), NEW order \in OrderType, WellPegged(order),
         NEW u \in Users, NEW own \in SUBSET Users, NEW remaining, NEW time \in 1..MaxTime,
         NEW feed \in Int \cup {NoOracle},
         NEW r \in NewOrder(b, n, order, u, own, remaining, time, feed)
  PROVE  /\ r.b.ok /\ r.fits /\ (order.pegged => feed \in Int)
         /\ \E price \in Nat \ {0}, qty \in 0..order.base : \E m :
              NewOrderRun(b, n, order, u, own, remaining, time, feed, r, price, m, qty)
<1> DEFINE present == own \cup remaining
           price == OrderPrice(b.leaves, order, time, feed)
           maxQuote == MaxQuote(order)
           m == Match(b, order, maxQuote, u, own, price, present, time, feed)
           s == Settle(m, order, maxQuote, price, n + 1, u, own, present, time, feed)
<1>1. /\ b \in Books /\ b.leaves \in SUBSET Leaves /\ IsFiniteSet(b.leaves) /\ SeqsUnique(b.leaves)
  BY DEF Fresh, Books, BookType
<1>2. price \in Int /\ (price >= 1 /\ order.pegged => feed \in Int)
  BY <1>1, OrderPriceIs
<1>3. maxQuote \in Nat
  BY MaxQuoteNat
<1>4. r \in AtPrice(price, b, order, n + 1, u, own, present, time, feed)
  BY DEF NewOrder
<1> HIDE DEF price, present
<1>5. ~(price < 1) /\ r = s /\ r.b.ok /\ r.fits
  BY <1>4, Zenon DEF AtPrice
<1>6. price \in Nat \ {0}
  BY <1>2, <1>5
<1> HIDE DEF maxQuote
<1>7. m \in Matches(b, order, maxQuote) /\ m.b \in Fresh(n)
  BY <1>1, <1>3, FreshMatches, MatchInvariant
<1> HIDE DEF m
<1>8. PICK qty \in 0..order.base :
        /\ SettledBook(m.b, r, order, price, n + 1, u, own, present, time, feed, qty)
        /\ qty <= m.base
        /\ qty # 0 => m.b.ok /\ ~IsMarket(order)
  <2> DEFINE id == n + 1
  <2>1. r = Settle(m, order, maxQuote, price, id, u, own, present, time, feed)
    BY <1>5
  <2> HIDE DEF id
  <2>2. \E qty \in 0..order.base :
          /\ SettledBook(m.b, r, order, price, id, u, own, present, time, feed, qty)
          /\ qty <= m.base
          /\ qty # 0 => m.b.ok /\ ~IsMarket(order)
    BY <1>1, <1>3, <1>6, <1>7, <2>1, SettleBook
  <2> QED
    BY <2>2 DEF id
<1>9. NewOrderRun(b, n, order, u, own, remaining, time, feed, r, price, m, qty)
  BY <1>5, <1>7, <1>8, Zenon DEF NewOrderRun, m, maxQuote, present
<1> QED
  BY <1>2, <1>5, <1>6, <1>9

\* What an order that succeeds leaves behind: the book n was the last number of,
\* and the amounts the caller moves tokens by.
Placed(b, n, order, r) ==
  /\ r.b \in Fresh(n + 1) /\ Grown(b, r.b) /\ r.b.ok
  /\ Amounts(r) /\ r.referrer_amount \in Nat /\ Affordable(r, order) /\ r.seq_num = n + 1

LEMMA FreshLater ==
  ASSUME NEW n \in Nat
  PROVE  Fresh(n) \subseteq Fresh(n + 1)
<1>1. ASSUME NEW b \in Fresh(n)
      PROVE  b \in Fresh(n + 1)
  <2>1. b.leaves \subseteq Leaves
    BY DEF Fresh, Books, BookType
  <2>2. \A l \in b.leaves : l.seq \in Nat
    BY <2>1 DEF Leaves, LeafType
  <2>3. \A l \in b.leaves : l.seq <= n
    BY DEF Fresh
  <2> QED
    BY <2>2, <2>3 DEF Fresh
<1> QED
  BY <1>1

LEMMA NewOrderKeeps ==
  ASSUME NEW n \in 0..MaxOrders, n < MaxOrders, NEW b \in Fresh(n),
         NEW order \in OrderType, WellPegged(order),
         NEW u \in Users, NEW own \in SUBSET Users, NEW remaining, NEW time \in 1..MaxTime,
         NEW feed \in Int \cup {NoOracle}, ~ExpiryPassed(order, time) \/ IsMarket(order),
         NEW r \in NewOrder(b, n, order, u, own, remaining, time, feed)
  PROVE  Placed(b, n, order, r)
<1> DEFINE present == own \cup remaining
<1>1. /\ r.b.ok /\ r.fits /\ (order.pegged => feed \in Int)
      /\ \E price \in Nat \ {0}, qty \in 0..order.base : \E m :
           NewOrderRun(b, n, order, u, own, remaining, time, feed, r, price, m, qty)
  BY NewOrderRuns
<1>2. PICK price \in Nat \ {0}, qty \in 0..order.base : \E m :
        NewOrderRun(b, n, order, u, own, remaining, time, feed, r, price, m, qty)
  BY <1>1
<1>3. PICK m : NewOrderRun(b, n, order, u, own, remaining, time, feed, r, price, m, qty)
  BY <1>2
<1> DEFINE locked == LockedPrice(order, price)
           id == n + 1
           d == IF qty = 0 THEN m.b
                ELSE Post(m.b, order, price, locked, id, u, qty, present, time, feed)
<1>4. /\ m \in Matches(b, order, MaxQuote(order)) /\ m.b \in Fresh(n)
      /\ r = Settle(m, order, MaxQuote(order), price, id, u, own, present, time, feed)
      /\ r.b = IF own = {} THEN d ELSE Record(d, order, locked, id, u)
      /\ qty # 0 => m.b.ok /\ ~IsMarket(order)
  BY <1>3, Zenon DEF NewOrderRun, SettledBook
<1>5. n \in Nat /\ id \in 1..MaxOrders /\ id \in 0..MaxOrders /\ b \in Books
  BY FermiAssumption DEF Fresh
<1>6. locked \in Nat
  BY LockedPriceIs
<1>7. m.b \in Fresh(id) /\ Grown(b, m.b)
  BY <1>4, <1>5, FreshLater DEF Matches, MatchOK
<1> HIDE DEF present, locked
<1>8. d \in Fresh(id) /\ Grown(b, d)
  <2>1. CASE qty = 0
    BY <1>7, <2>1
  <2>2. CASE qty # 0
    <3> DEFINE e == Post(m.b, order, price, locked, n + 1, u, qty, present, time, feed)
    <3>1. qty \in Nat \ {0}
      BY <2>2 DEF OrderType
    <3>2. ~ExpiryPassed(order, time)
      BY <1>4, <2>2
    <3>3. e \in Fresh(n + 1) /\ Grown(m.b, e)
      BY <1>1, <1>4, <1>5, <1>6, <3>1, <3>2, PostKeeps
    <3>4. d = e
      BY <2>2
    <3> HIDE DEF e, d
    <3> QED
      BY <1>5, <1>7, <3>3, <3>4, GrownTwice
  <2> QED
    BY <2>1, <2>2
<1> HIDE DEF d
<1>9. r.b \in Fresh(id) /\ Grown(b, r.b)
  <2>1. CASE own = {}
    BY <1>4, <1>8, <2>1
  <2>2. CASE own # {}
    <3> HIDE DEF id
    <3>1. r.b = Record(d, order, locked, id, u)
      BY <1>4, <2>2
    <3>2. Record(d, order, locked, id, u) \in Fresh(id) /\ Grown(d, Record(d, order, locked, id, u))
      BY <1>5, <1>6, <1>8, RecordKeeps
    <3> QED
      BY <1>5, <1>8, <3>1, <3>2, GrownTwice
  <2> QED
    BY <2>1, <2>2
<1>10. Amounts(r) /\ Affordable(r, order) /\ r.seq_num = id
  <2> HIDE DEF id
  <2> QED
    BY <1>4, <1>5, SettleAmounts
<1> QED
  BY <1>1, <1>9, <1>10 DEF Placed, Amounts

-----------------------------------------------------------------------------
(* Cancelling orders.  A set of books that a dropped order does not leave  *)
(* is not left by a cancellation either.                                   *)

LEMMA CancelOrderStays ==
  ASSUME NEW u \in Users, NEW G, DropKeeps(G, {u}), NEW b \in G, NEW slot
  PROVE  CancelOrder(b, u, slot) \in G
<1> DEFINE l == CHOOSE l \in LeafOf(b, u, slot) : TRUE
<1>1. [b EXCEPT !.ok = FALSE] \in G
  BY DEF DropKeeps
<1>2. CASE LeafOf(b, u, slot) = {} \/ l.owner # u
  <2>1. CancelOrder(b, u, slot) = [b EXCEPT !.ok = FALSE]
    BY <1>2 DEF CancelOrder
  <2> QED
    BY <1>1, <2>1
<1>3. CASE ~(LeafOf(b, u, slot) = {} \/ l.owner # u)
  <2>1. l \in LeafOf(b, u, slot) /\ l.owner = u
    BY <1>3
  <2>2. CancelOrder(b, u, slot) = CancelIn(Unbook(b, l), u, l.owner_slot, l.qty)
    BY <1>3 DEF CancelOrder
  <2> HIDE DEF l
  <2>3. l \in b.leaves
    BY <2>1, Zenon DEF LeafOf
  <2>4. CancelOrder(b, u, slot) = DropFromBook(b, l, {u})
    BY <2>1, <2>2 DEF DropFromBook, ProcessOutEvent
  <2> QED
    BY <2>3, <2>4 DEF DropKeeps
<1> QED
  BY <1>2, <1>3

Cancelling(G) == [b : G, left : Nat]

LEMMA CancelNextStays ==
  ASSUME NEW u \in Users, NEW G, DropKeeps(G, {u}), NEW c \in Cancelling(G), NEW sides, NEW slot
  PROVE  CancelNext(c, u, sides, slot) \in Cancelling(G)
<1> DEFINE d == IF LeafOf(c.b, u, slot) = {} THEN c.b ELSE CancelOrder(c.b, u, slot)
<1>1. c.b \in G /\ c.left \in Nat
  BY DEF Cancelling
<1>2. d \in G
  BY <1>1, CancelOrderStays
<1>3. CASE c.left = 0
  BY <1>3 DEF CancelNext
<1>4. CASE c.left # 0
  <2>1. CancelNext(c, u, sides, slot) = c
        \/ CancelNext(c, u, sides, slot) = [b |-> d, left |-> c.left - 1]
    BY Zenon DEF CancelNext
  <2> HIDE DEF d
  <2>2. c.left - 1 \in Nat
    BY <1>1, <1>4
  <2> QED
    BY <1>2, <2>1, <2>2 DEF Cancelling
<1> QED
  BY <1>3, <1>4

LEMMA CancelAllStays ==
  ASSUME NEW u \in Users, NEW G, DropKeeps(G, {u}), NEW b \in G, NEW sides, NEW limit \in Nat
  PROVE  CancelAllOrders(b, u, sides, limit) \in G
<1> DEFINE n == MaxOpenOrders
           V == Cancelling(G)
           start == [b |-> b, left |-> limit]
           step == [x \in (1..n) \X V |-> CancelNext(x[2], u, sides, x[1])]
<1>1. n \in Nat
  BY OpenOrdersAssumption
<1>2. start \in V
  BY DEF Cancelling
<1>3. \A i \in 1..n, c \in V : CancelNext(c, u, sides, i) \in V
  BY CancelNextStays
<1> HIDE DEF V, start, n
<1>4. /\ step \in [(1..n) \X V -> V]
      /\ \A i \in 1..n : \A c \in V : step[<<i, c>>] = CancelNext(c, u, sides, i)
  BY <1>3
<1> HIDE DEF step
<1>5. PICK w \in [0..n -> V] : w[0] = start /\ \A i \in 1..n : w[i] = step[<<i, w[i - 1]>>]
  <2>1. step \in Rounds(n, V)
    BY <1>4 DEF Rounds
  <2>2. LoopRuns(n, V, start, step) # {}
    BY <1>1, <1>2, <2>1, LoopExists
  <2> QED
    BY <2>2 DEF LoopRuns
<1> DEFINE walk == CHOOSE g : g = [s \in 0..n |->
                     IF s = 0 THEN start ELSE CancelNext(g[s - 1], u, sides, s)]
<1>6. w = [s \in 0..n |-> IF s = 0 THEN start ELSE CancelNext(w[s - 1], u, sides, s)]
  <2>1. \A i \in 0..n : w[i] = IF i = 0 THEN start ELSE CancelNext(w[i - 1], u, sides, i)
    <3> TAKE i \in 0..n
    <3>1. CASE i # 0
      <4>1. i \in 1..n /\ i - 1 \in 0..n
        BY <1>1, <3>1
      <4> QED
        BY <1>4, <1>5, <3>1, <4>1
    <3> QED
      BY <1>5, <3>1
  <2> QED
    BY <1>5, <2>1
<1>7. walk = [s \in 0..n |-> IF s = 0 THEN start ELSE CancelNext(walk[s - 1], u, sides, s)]
  BY <1>6, Zenon
<1>8. CancelAllOrders(b, u, sides, limit) = walk[n].b
  BY Zenon DEF CancelAllOrders, n, start
<1> HIDE DEF walk
<1>9. walk[0] = start /\ \A i \in 1..n : walk[i] = CancelNext(walk[i - 1], u, sides, i)
  <2>1. 0 \in 0..n /\ \A i \in 1..n : i \in 0..n /\ i # 0
    BY <1>1
  <2> QED
    BY <1>7, <2>1
<1>10. \A i \in 0..n : walk[i] \in V
  <2>1. walk[0] \in V /\ \A i \in 1..n : walk[i - 1] \in V => walk[i] \in V
    BY <1>2, <1>3, <1>9
  <2> QED
    BY <1>1, <2>1, LoopInvariant
<1>11. n \in 0..n
  BY <1>1
<1> QED
  BY <1>8, <1>10, <1>11 DEF V, Cancelling

LEMMA CancelSlotsStays ==
  ASSUME NEW u \in Users, NEW G, DropKeeps(G, {u}), NEW b \in G, NEW slots
  PROVE  CancelSlots(b, u, slots) \in G
<1> DEFINE n == MaxOpenOrders
           step == [x \in (1..n) \X G |-> CancelIfOnBook(x[2], u, slots, x[1])]
<1>1. n \in Nat
  BY OpenOrdersAssumption
<1>2. \A i \in 1..n, c \in G : CancelIfOnBook(c, u, slots, i) \in G
  BY CancelOrderStays DEF CancelIfOnBook
<1> HIDE DEF n
<1>3. /\ step \in [(1..n) \X G -> G]
      /\ \A i \in 1..n : \A c \in G : step[<<i, c>>] = CancelIfOnBook(c, u, slots, i)
  BY <1>2
<1> HIDE DEF step
<1>4. PICK w \in [0..n -> G] : w[0] = b /\ \A i \in 1..n : w[i] = step[<<i, w[i - 1]>>]
  <2>1. step \in Rounds(n, G)
    BY <1>3 DEF Rounds
  <2>2. LoopRuns(n, G, b, step) # {}
    BY <1>1, <2>1, LoopExists
  <2> QED
    BY <2>2 DEF LoopRuns
<1> DEFINE walk == CHOOSE g : g = [s \in 0..n |->
                     IF s = 0 THEN b ELSE CancelIfOnBook(g[s - 1], u, slots, s)]
<1>5. w = [s \in 0..n |-> IF s = 0 THEN b ELSE CancelIfOnBook(w[s - 1], u, slots, s)]
  <2>1. \A i \in 0..n : w[i] = IF i = 0 THEN b ELSE CancelIfOnBook(w[i - 1], u, slots, i)
    <3> TAKE i \in 0..n
    <3>1. CASE i # 0
      <4>1. i \in 1..n /\ i - 1 \in 0..n
        BY <1>1, <3>1
      <4> QED
        BY <1>3, <1>4, <3>1, <4>1
    <3> QED
      BY <1>4, <3>1
  <2> QED
    BY <1>4, <2>1
<1>6. walk = [s \in 0..n |-> IF s = 0 THEN b ELSE CancelIfOnBook(walk[s - 1], u, slots, s)]
  BY <1>5, Zenon
<1>7. CancelSlots(b, u, slots) = walk[n]
  BY Zenon DEF CancelSlots, n
<1> HIDE DEF walk
<1>8. walk[0] = b /\ \A i \in 1..n : walk[i] = CancelIfOnBook(walk[i - 1], u, slots, i)
  <2>1. 0 \in 0..n /\ \A i \in 1..n : i \in 0..n /\ i # 0
    BY <1>1
  <2> QED
    BY <1>6, <2>1
<1>9. \A i \in 0..n : walk[i] \in G
  <2>1. walk[0] \in G /\ \A i \in 1..n : walk[i - 1] \in G => walk[i] \in G
    BY <1>2, <1>8
  <2> QED
    BY <1>1, <2>1, LoopInvariant
<1>10. n \in 0..n
  BY <1>1
<1> QED
  BY <1>7, <1>9, <1>10

-----------------------------------------------------------------------------
(* A batch of orders.  For each n, G[n] is a set of books on which n       *)
(* orders have been numbered, which neither a cancellation of u leaves nor *)
(* an order of u, but for the next set.                                    *)

\* A pegged bid that takes may pay more than its account locks for it, which is
\* the peg limit.
PeggedBidsPost ==
  /\ \A order \in Orders : order.side = "Bid" /\ order.pegged => IsPostOnly(order)
  /\ \A batch \in Batches : \A i \in DOMAIN batch.orders :
       batch.orders[i].side = "Bid" /\ batch.orders[i].pegged => IsPostOnly(batch.orders[i])
Allowed(order) ==
  /\ WellPegged(order)
  /\ PeggedBidsPost => (order.side = "Bid" /\ order.pegged => IsPostOnly(order))

BatchKeeps(G, u, remaining) ==
  /\ \A n \in 0..MaxOrders : G[n] \subseteq Fresh(n) /\ DropKeeps(G[n], {u})
  /\ \A n \in 0..MaxOrders, order \in OrderType : \A b \in G[n] :
       n < MaxOrders /\ Allowed(order) /\ ~ExpiryPassed(order, now) =>
         \A r \in NewOrder(b, n, order, u, {u}, remaining, now, oracle) : r.b \in G[n + 1]

LEMMA GrownDrops ==
  ASSUME NEW G \in SUBSET Books, NEW present, DropKeeps(G, present), NEW b \in Books
  PROVE  DropKeeps({c \in G : Grown(b, c)}, present)
<1>1. ASSUME NEW c \in G, Grown(b, c)
      PROVE  [c EXCEPT !.ok = FALSE] \in G /\ Grown(b, [c EXCEPT !.ok = FALSE])
  <2>1. Grown(c, [c EXCEPT !.ok = FALSE])
    BY FailedKeeps
  <2> QED
    BY <1>1, <2>1, GrownTwice DEF DropKeeps
<1>2. ASSUME NEW c \in G, Grown(b, c), NEW l \in c.leaves
      PROVE  DropFromBook(c, l, present) \in G /\ Grown(b, DropFromBook(c, l, present))
  <2>1. l \in Leaves
    BY DEF Books, BookType
  <2>2. Grown(c, DropFromBook(c, l, present))
    BY <2>1, DropFromBookKeeps
  <2> QED
    BY <1>2, <2>2, GrownTwice DEF DropKeeps
<1> QED
  BY <1>1, <1>2 DEF DropKeeps

LEMMA SmallerIs ==
  ASSUME NEW x \in Nat, NEW y \in Nat
  PROVE  Smaller(x, y) \in Nat /\ Smaller(x, y) <= x /\ Smaller(x, y) <= y
BY DEF Smaller

LEMMA CutDownIs ==
  ASSUME NEW order \in OrderType, Allowed(order), NEW available \in Nat
  PROVE  LET cut == CutDown(order, available)
         IN  /\ cut \in OrderType /\ Allowed(cut) /\ cut.side = order.side
             /\ \A time : ExpiryPassed(cut, time) <=> ExpiryPassed(order, time)
             /\ IF order.side = "Bid" THEN cut.quote * QuoteLotSize <= available
                ELSE cut.base * BaseLotSize <= available
<1> DEFINE base == Smaller(order.base, Smaller(MaxBaseLots, available \div BaseLotSize))
           quote == Smaller(order.quote, Smaller(MaxQuoteLots, available \div QuoteLotSize))
           cut == CutDown(order, available)
<1>1. MaxI64 \in Nat /\ BaseLotSize \in Nat \ {0} /\ QuoteLotSize \in Nat \ {0}
      /\ order.base \in Nat /\ order.quote \in Nat
  BY MarketAssumption DEF OrderType
<1>2. MaxBaseLots \in Nat /\ MaxQuoteLots \in Nat
  BY <1>1, DivisionNat DEF MaxBaseLots, MaxQuoteLots
<1>3. available \div BaseLotSize \in Nat /\ available \div QuoteLotSize \in Nat
  BY <1>1, DivisionNat
<1>4. /\ (available \div BaseLotSize) * BaseLotSize <= available
      /\ (available \div QuoteLotSize) * QuoteLotSize <= available
  BY <1>1, Division
<1>5. base \in Nat /\ base <= available \div BaseLotSize
  <2> DEFINE x == available \div BaseLotSize
             y == Smaller(MaxBaseLots, x)
  <2> HIDE DEF x
  <2>1. x \in Nat
    BY <1>3 DEF x
  <2>2. y \in Nat /\ y <= x
    BY <1>2, <2>1, SmallerIs
  <2> HIDE DEF y
  <2>3. Smaller(order.base, y) \in Nat /\ Smaller(order.base, y) <= y
    BY <1>1, <2>2, SmallerIs
  <2>4. base = Smaller(order.base, y)
    BY DEF x, y
  <2> HIDE DEF base
  <2>5. base <= x
    BY <2>1, <2>2, <2>3, <2>4
  <2> QED
    BY <2>3, <2>4, <2>5 DEF x
<1>6. quote \in Nat /\ quote <= available \div QuoteLotSize
  <2> DEFINE x == available \div QuoteLotSize
             y == Smaller(MaxQuoteLots, x)
  <2> HIDE DEF x
  <2>1. x \in Nat
    BY <1>3 DEF x
  <2>2. y \in Nat /\ y <= x
    BY <1>2, <2>1, SmallerIs
  <2> HIDE DEF y
  <2>3. Smaller(order.quote, y) \in Nat /\ Smaller(order.quote, y) <= y
    BY <1>1, <2>2, SmallerIs
  <2>4. quote = Smaller(order.quote, y)
    BY DEF x, y
  <2> HIDE DEF quote
  <2>5. quote <= x
    BY <2>1, <2>2, <2>3, <2>4
  <2> QED
    BY <2>3, <2>4, <2>5 DEF x
<1>7. cut = IF order.side = "Ask" THEN [order EXCEPT !.base = base] ELSE [order EXCEPT !.quote = quote]
  BY Zenon DEF CutDown
<1> DEFINE byBase == available \div BaseLotSize
           byQuote == available \div QuoteLotSize
<1>8. base * BaseLotSize <= available /\ quote * QuoteLotSize <= available
  <2>1. byBase \in Nat /\ byQuote \in Nat /\ base <= byBase /\ quote <= byQuote
        /\ byBase * BaseLotSize <= available /\ byQuote * QuoteLotSize <= available
    BY <1>3, <1>4, <1>5, <1>6
  <2> HIDE DEF byBase, byQuote, base, quote
  <2>2. base * BaseLotSize <= byBase * BaseLotSize /\ quote * QuoteLotSize <= byQuote * QuoteLotSize
    BY <1>1, <1>5, <1>6, <2>1, ProductMonotonic
  <2>3. base * BaseLotSize \in Nat /\ byBase * BaseLotSize \in Nat
        /\ quote * QuoteLotSize \in Nat /\ byQuote * QuoteLotSize \in Nat
    BY <1>1, <1>5, <1>6, <2>1, ProductNat
  <2> QED
    BY <2>1, <2>2, <2>3
<1> HIDE DEF base, quote, cut
<1>9. /\ cut \in OrderType /\ cut.side = order.side /\ cut.type = order.type
      /\ cut.pegged = order.pegged /\ cut.peg_limit = order.peg_limit /\ cut.expiry = order.expiry
      /\ order.side = "Ask" => cut.base = base
      /\ order.side # "Ask" => cut.quote = quote
  BY <1>5, <1>6, <1>7 DEF OrderType
<1>10. order.side = "Bid" \/ order.side = "Ask"
  BY DEF OrderType, Side
<1> QED
  BY <1>8, <1>9, <1>10 DEF cut, Allowed, WellPegged, IsMarket, IsPostOnly, ExpiryPassed

\* A batch that has begun: the book so far, the last number and the cost.
Costed == [b : Books, seq_num : 0..MaxOrders, cost : Balance]
\* A batch that has begun costs no more than the wallet and the free balance hold.
Batched(G, b, u) ==
  {c \in Costed :
     /\ c.b \in G[c.seq_num] /\ Grown(b, c.b)
     /\ \A token \in {"base", "quote"} :
          c.cost[token] <= wallet[u][token] + FreeOf(c.b.oo[u], token)}

LEMMA FreeOfIs ==
  ASSUME NEW a \in AccountType, NEW token
  PROVE  FreeOf(a, token) \in Nat
BY DEF FreeOf, AccountType

LEMMA FreeOfGrows ==
  ASSUME NEW b \in Books, NEW c, Grown(b, c), NEW u \in Users, NEW token
  PROVE  FreeOf(c.oo[u], token) >= FreeOf(b.oo[u], token)
BY DEF FreeOf, Grown, FreeGrows

\* What the next order of a batch does: it is passed over, it fails, or it is cut
\* down to what is available and placed.
PlaceNextRun(c, d, u, order, remaining, available, r) ==
  LET cut == CutDown(order, available)
      token == TokenOf(order.side)
  IN  /\ ~ExpiryPassed(order, now) /\ c.seq_num < MaxOrders
      /\ available = Available(c, u, token)
      /\ r \in NewOrder(c.b, c.seq_num, cut, u, {u}, remaining, now, oracle)
      /\ d = [b |-> r.b, seq_num |-> r.seq_num,
              cost |-> [c.cost EXCEPT ![token] = c.cost[token] + Committed(order, r)]]
PlaceNextFails(c, d) ==
  d = [b |-> [c.b EXCEPT !.ok = FALSE], seq_num |-> c.seq_num, cost |-> c.cost]

LEMMA PlaceNextRuns ==
  ASSUME NEW u \in Users, NEW remaining, wallet \in [Users -> Balance],
         NEW c \in Costed, NEW order \in OrderType,
         NEW d, d = PlaceNext(c, u, order, remaining)
  PROVE  \/ d = c \/ PlaceNextFails(c, d)
         \/ \E available \in Nat : \E r :
              PlaceNextRun(c, d, u, order, remaining, available, r)
<1> DEFINE token == TokenOf(order.side)
           available == Available(c, u, token)
           results == NewOrder(c.b, c.seq_num, CutDown(order, available),
                               u, {u}, remaining, now, oracle)
           r == CHOOSE r \in results : TRUE
<1>1. /\ c.b \in Books /\ c.seq_num \in 0..MaxOrders /\ c.cost \in Balance
      /\ c = [b |-> c.b, seq_num |-> c.seq_num, cost |-> c.cost]
  BY DEF Costed
<1>2. CASE ExpiryPassed(order, now)
  BY <1>2 DEF PlaceNext
<1>3. CASE ~ExpiryPassed(order, now)
           /\ (~c.b.ok \/ available < 0 \/ results = {} \/ c.seq_num = MaxOrders)
  <2> DEFINE e == [c.b EXCEPT !.ok = FALSE]
  <2>1. d = [c EXCEPT !.b.ok = FALSE]
    <3>1. CASE ~c.b.ok \/ available < 0 \/ c.seq_num = MaxOrders
      <4>1. d = AfterOrder(c, order, {})
        BY <1>3, <3>1, Zenon DEF PlaceNext
      <4> QED
        BY <4>1, Zenon DEF AfterOrder
    <3>2. CASE ~(~c.b.ok \/ available < 0 \/ c.seq_num = MaxOrders)
      <4>1. d = AfterOrder(c, order, results)
        BY <1>3, <3>2, Zenon DEF PlaceNext
      <4>2. results = {}
        BY <1>3, <3>2
      <4> HIDE DEF results
      <4> QED
        BY <4>1, <4>2, Zenon DEF AfterOrder
    <3> QED
      BY <3>1, <3>2
  <2>2. d = [c EXCEPT !.b = e]
    BY <2>1
  <2> HIDE DEF e
  <2>3. d = [b |-> e, seq_num |-> c.seq_num, cost |-> c.cost]
    BY <1>1, <2>2
  <2> QED
    BY <2>3 DEF PlaceNextFails, e
<1>4. CASE ~ExpiryPassed(order, now)
           /\ ~(~c.b.ok \/ available < 0 \/ results = {} \/ c.seq_num = MaxOrders)
  <2>1. d = [b |-> r.b, seq_num |-> r.seq_num,
             cost |-> [c.cost EXCEPT ![token] = c.cost[token] + Committed(order, r)]]
    <3>1. d = AfterOrder(c, order, results)
      BY <1>4, Zenon DEF PlaceNext
    <3>2. results # {}
      BY <1>4
    <3> QED
      BY <3>1, <3>2, Zenon DEF AfterOrder
  <2>2. r \in results
    BY <1>4
  <2>3. available \in Nat
    <3>1. token \in {"base", "quote"}
      BY DEF TokenOf
    <3>2. c.cost[token] \in Nat /\ wallet[u][token] \in Nat
      BY <1>1, <3>1 DEF Balance
    <3>3. FreeOf(c.b.oo[u], token) \in Nat
      BY <1>1, FreeOfIs DEF Books, BookType
    <3> QED
      BY <1>4, <3>2, <3>3 DEF Available
  <2>4. c.seq_num < MaxOrders
    BY <1>1, <1>4, FermiAssumption
  <2> HIDE DEF r
  <2>5. PlaceNextRun(c, d, u, order, remaining, available, r)
    BY <1>4, <2>1, <2>2, <2>4, Zenon DEF PlaceNextRun
  <2> HIDE DEF available
  <2> QED
    BY <2>3, <2>5
<1> QED
  BY <1>2, <1>3, <1>4

LEMMA PlaceNextStays ==
  ASSUME NEW u \in Users, NEW remaining, NEW G, BatchKeeps(G, u, remaining),
         wallet \in [Users -> Balance], now \in 1..MaxTime, oracle \in Oracles,
         NEW b \in Books, NEW c \in Batched(G, b, u), NEW order \in OrderType, Allowed(order)
  PROVE  PlaceNext(c, u, order, remaining) \in Batched(G, b, u)
<1> DEFINE token == TokenOf(order.side)
           d == PlaceNext(c, u, order, remaining)
<1>1. /\ c.b \in Books /\ c.seq_num \in 0..MaxOrders /\ c.cost \in Balance
      /\ c.b \in G[c.seq_num] /\ Grown(b, c.b) /\ c \in Costed
      /\ \A t \in {"base", "quote"} : c.cost[t] <= wallet[u][t] + FreeOf(c.b.oo[u], t)
  BY DEF Batched, Costed
<1>2. \/ d = c \/ PlaceNextFails(c, d)
      \/ \E available \in Nat : \E r : PlaceNextRun(c, d, u, order, remaining, available, r)
  BY <1>1, PlaceNextRuns
<1> HIDE DEF d
<1>3. ASSUME PlaceNextFails(c, d) PROVE d \in Batched(G, b, u)
  <2> DEFINE e == [c.b EXCEPT !.ok = FALSE]
  <2>1. Grown(c.b, e) /\ e.oo = c.b.oo
    BY <1>1, FailedKeeps
  <2>2. e \in G[c.seq_num]
    BY <1>1 DEF BatchKeeps, DropKeeps
  <2>3. e \in Books /\ Grown(b, e)
    BY <1>1, <2>1, GrownTwice DEF Grown
  <2>4. d = [b |-> e, seq_num |-> c.seq_num, cost |-> c.cost]
    BY <1>3 DEF PlaceNextFails
  <2> HIDE DEF e
  <2> QED
    BY <1>1, <2>1, <2>2, <2>3, <2>4 DEF Batched, Costed
<1>4. ASSUME NEW available \in Nat, NEW r, PlaceNextRun(c, d, u, order, remaining, available, r)
      PROVE  d \in Batched(G, b, u)
  <2> DEFINE cut == CutDown(order, available)
             cost == [c.cost EXCEPT ![token] = c.cost[token] + Committed(order, r)]
  <2>1. /\ ~ExpiryPassed(order, now) /\ c.seq_num < MaxOrders
        /\ available = Available(c, u, token)
        /\ r \in NewOrder(c.b, c.seq_num, cut, u, {u}, remaining, now, oracle)
        /\ d = [b |-> r.b, seq_num |-> r.seq_num, cost |-> cost]
    BY <1>4, Zenon DEF PlaceNextRun
  <2>3. token \in {"base", "quote"} /\ (order.side = "Bid" <=> token = "quote")
    BY DEF TokenOf
  <2>4. c.cost[token] \in Nat /\ wallet[u][token] \in Nat
    BY <1>1, <2>3 DEF Balance
  <2>5. FreeOf(c.b.oo[u], token) \in Nat
    BY <1>1, FreeOfIs DEF Books, BookType
  <2>6. available = wallet[u][token] + FreeOf(c.b.oo[u], token) - c.cost[token]
    BY <2>1 DEF Available
  <2>7. c.b \in Fresh(c.seq_num)
    BY <1>1 DEF BatchKeeps
  <2>8. now \in 1..MaxTime /\ oracle \in Int \cup {NoOracle}
    BY FermiAssumption
  <2> HIDE DEF token
  <2>9. /\ cut \in OrderType /\ Allowed(cut) /\ cut.side = order.side /\ ~ExpiryPassed(cut, now)
        /\ IF order.side = "Bid" THEN cut.quote * QuoteLotSize <= available
           ELSE cut.base * BaseLotSize <= available
    BY <2>1, CutDownIs
  <2> HIDE DEF cut
  <2>11. Placed(c.b, c.seq_num, cut, r)
    BY <1>1, <2>1, <2>7, <2>8, <2>9, NewOrderKeeps DEF Allowed
  <2>12. r.b \in G[c.seq_num + 1] /\ r.b \in Books
    <3>2. r.b \in G[c.seq_num + 1]
      BY <1>1, <2>1, <2>9 DEF BatchKeeps
    <3> QED
      BY <2>11, <3>2 DEF Placed, Grown
  <2>13. Grown(c.b, r.b) /\ r.seq_num = c.seq_num + 1 /\ Amounts(r) /\ Affordable(r, cut)
    BY <2>11 DEF Placed
  <2>14. c.seq_num + 1 \in 0..MaxOrders
    BY <1>1, <2>1, FermiAssumption
  <2>15. Committed(order, r) \in Nat /\ Committed(order, r) <= available
    <3>1. CASE order.side = "Bid"
      <4> DEFINE x == cut.quote * QuoteLotSize
      <4>1. x \in Nat /\ x <= available /\ Committed(order, r) <= x
        BY <2>9, <2>13, <3>1, ProductNat, MarketAssumption DEF Affordable, Committed, OrderType
      <4> HIDE DEF x
      <4> QED
        BY <2>6, <2>13, <3>1, <4>1 DEF Amounts, Committed
    <3>2. CASE order.side # "Bid"
      <4> DEFINE x == cut.base * BaseLotSize
      <4>1. x \in Nat /\ x <= available /\ Committed(order, r) <= x
        BY <2>9, <2>13, <3>2, ProductNat, MarketAssumption DEF Affordable, Committed, OrderType
      <4> HIDE DEF x
      <4> QED
        BY <2>6, <2>13, <3>2, <4>1 DEF Amounts, Committed
    <3> QED
      BY <3>1, <3>2
  <2>16. Grown(b, r.b)
    BY <1>1, <2>13, GrownTwice
  <2>17. \A t \in {"base", "quote"} :
           /\ FreeOf(c.b.oo[u], t) \in Nat /\ FreeOf(r.b.oo[u], t) \in Nat
           /\ FreeOf(r.b.oo[u], t) >= FreeOf(c.b.oo[u], t)
           /\ wallet[u][t] \in Nat /\ c.cost[t] \in Nat
    <3>1. c.b.oo[u] \in AccountType /\ r.b.oo[u] \in AccountType
      BY <1>1, <2>12 DEF Books, BookType
    <3>2. \A t \in {"base", "quote"} : wallet[u][t] \in Nat /\ c.cost[t] \in Nat
      BY <1>1 DEF Balance
    <3> QED
      BY <1>1, <2>13, <3>1, <3>2, FreeOfIs, FreeOfGrows
  <2> DEFINE more == c.cost[token] + Committed(order, r)
  <2>18. more \in Nat /\ more <= wallet[u][token] + FreeOf(c.b.oo[u], token)
    BY <2>4, <2>5, <2>6, <2>15
  <2> HIDE DEF more
  <2>19. cost = [c.cost EXCEPT ![token] = more]
    BY DEF more
  <2> HIDE DEF cost
  <2>20. cost \in Balance /\ cost[token] = more
         /\ \A t \in {"base", "quote"} : t # token => cost[t] = c.cost[t]
    BY <1>1, <2>3, <2>18, <2>19 DEF Balance
  <2>21. \A t \in {"base", "quote"} : cost[t] <= wallet[u][t] + FreeOf(r.b.oo[u], t)
    <3> TAKE t \in {"base", "quote"}
    <3>1. CASE t = token
      BY <2>17, <2>18, <2>20, <3>1
    <3>2. CASE t # token
      BY <1>1, <2>17, <2>20, <3>2
    <3> QED
      BY <3>1, <3>2
  <2>22. d \in Batched(G, b, u)
    BY <2>1, <2>12, <2>13, <2>14, <2>16, <2>20, <2>21 DEF Batched, Costed
  <2> QED
    BY <2>22
<1>5. d \in Batched(G, b, u)
  BY <1>2, <1>3, <1>4
<1> QED
  BY <1>5 DEF d

\* What the first cancellations leave and each order keeps, the batch keeps.
LEMMA BatchStays ==
  ASSUME NEW u, NEW batch \in Batches, NEW remaining, NEW V,
         [b |-> CancelSlots(Book, u, batch.cancel), seq_num |-> market.seq_num,
          cost |-> [base |-> 0, quote |-> 0]] \in V,
         \A order \in OrderType, c \in V :
           Allowed(order) => PlaceNext(c, u, order, remaining) \in V
  PROVE  PlaceBatch(u, batch, remaining) \in V
<1> DEFINE n == Len(batch.orders)
           start == [b |-> CancelSlots(Book, u, batch.cancel), seq_num |-> market.seq_num,
                     cost |-> [base |-> 0, quote |-> 0]]
           step == [x \in (1..n) \X V |-> PlaceNext(x[2], u, batch.orders[x[1]], remaining)]
<1>1. /\ n \in Nat
      /\ \A i \in 1..n : batch.orders[i] \in OrderType /\ Allowed(batch.orders[i])
  BY FermiAssumption DEF Allowed, PeggedBidsPost
<1>2. start \in V
  OBVIOUS
<1> HIDE DEF n
<1>4. \A i \in 1..n, c \in V : PlaceNext(c, u, batch.orders[i], remaining) \in V
  <2> TAKE i \in 1..n, c \in V
  <2> DEFINE order == batch.orders[i]
  <2>1. order \in OrderType /\ Allowed(order)
    BY <1>1
  <2> HIDE DEF order
  <2>2. PlaceNext(c, u, order, remaining) \in V
    BY <2>1
  <2> QED
    BY <2>2 DEF order
<1> HIDE DEF start
<1>5. /\ step \in [(1..n) \X V -> V]
      /\ \A i \in 1..n : \A c \in V : step[<<i, c>>] = PlaceNext(c, u, batch.orders[i], remaining)
  BY <1>4
<1> HIDE DEF step
<1>6. PICK w \in [0..n -> V] : w[0] = start /\ \A i \in 1..n : w[i] = step[<<i, w[i - 1]>>]
  <2>1. step \in Rounds(n, V)
    BY <1>5 DEF Rounds
  <2>2. LoopRuns(n, V, start, step) # {}
    BY <1>1, <1>2, <2>1, LoopExists
  <2> QED
    BY <2>2 DEF LoopRuns
<1> DEFINE walk == CHOOSE g : g = [i \in 0..n |->
                     IF i = 0 THEN start ELSE PlaceNext(g[i - 1], u, batch.orders[i], remaining)]
<1>7. w = [i \in 0..n |->
             IF i = 0 THEN start ELSE PlaceNext(w[i - 1], u, batch.orders[i], remaining)]
  <2>1. \A i \in 0..n :
          w[i] = IF i = 0 THEN start ELSE PlaceNext(w[i - 1], u, batch.orders[i], remaining)
    <3> TAKE i \in 0..n
    <3>1. CASE i # 0
      <4>1. i \in 1..n /\ i - 1 \in 0..n
        BY <1>1, <3>1
      <4> QED
        BY <1>5, <1>6, <3>1, <4>1
    <3> QED
      BY <1>6, <3>1
  <2> QED
    BY <1>6, <2>1
<1>8. walk = [i \in 0..n |->
                IF i = 0 THEN start ELSE PlaceNext(walk[i - 1], u, batch.orders[i], remaining)]
  BY <1>7, Zenon
<1>9. PlaceBatch(u, batch, remaining) = walk[n]
  BY Zenon DEF PlaceBatch, n, start
<1> HIDE DEF walk
<1>10. /\ walk[0] = start
       /\ \A i \in 1..n : walk[i] = PlaceNext(walk[i - 1], u, batch.orders[i], remaining)
  <2>1. 0 \in 0..n /\ \A i \in 1..n : i \in 0..n /\ i # 0
    BY <1>1
  <2> QED
    BY <1>8, <2>1
<1>11. \A i \in 0..n : walk[i] \in V
  <2>1. walk[0] \in V /\ \A i \in 1..n : walk[i - 1] \in V => walk[i] \in V
    BY <1>2, <1>4, <1>10
  <2> QED
    BY <1>1, <2>1, LoopInvariant
<1>12. n \in 0..n
  BY <1>1
<1> QED
  BY <1>9, <1>11, <1>12

LEMMA PlaceBatchStays ==
  ASSUME NEW u \in Users, NEW remaining, NEW G, BatchKeeps(G, u, remaining),
         wallet \in [Users -> Balance], now \in 1..MaxTime, oracle \in Oracles,
         market.seq_num \in 0..MaxOrders, Book \in G[market.seq_num], NEW batch \in Batches
  PROVE  PlaceBatch(u, batch, remaining) \in Batched(G, Book, u)
<1> DEFINE V == Batched(G, Book, u)
           start == [b |-> CancelSlots(Book, u, batch.cancel), seq_num |-> market.seq_num,
                     cost |-> [base |-> 0, quote |-> 0]]
<1>2. start \in V
  <2> DEFINE H == {c \in G[market.seq_num] : Grown(Book, c)}
             b == CancelSlots(Book, u, batch.cancel)
  <2>1. G[market.seq_num] \in SUBSET Books /\ DropKeeps(G[market.seq_num], {u})
    BY DEF BatchKeeps, Fresh
  <2>2. Book \in Books /\ Grown(Book, Book)
    BY <2>1, GrownNot
  <2>3. DropKeeps(H, {u}) /\ Book \in H
    BY <2>1, <2>2, GrownDrops
  <2> HIDE DEF H
  <2>4. b \in H
    BY <2>3, CancelSlotsStays
  <2>5. b \in G[market.seq_num] /\ Grown(Book, b) /\ b \in Books
    BY <2>1, <2>4 DEF H
  <2>6. b.oo[u] \in AccountType
    BY <2>5 DEF Books, BookType
  <2>7. \A t \in {"base", "quote"} : 0 <= wallet[u][t] + FreeOf(b.oo[u], t)
    BY <2>6, FreeOfIs DEF Balance
  <2>8. [base |-> 0, quote |-> 0] \in Balance
    BY DEF Balance
  <2> HIDE DEF b
  <2>9. start = [b |-> b, seq_num |-> market.seq_num, cost |-> [base |-> 0, quote |-> 0]]
    BY DEF b
  <2> QED
    BY <2>5, <2>7, <2>8, <2>9 DEF Batched, Costed
<1>3. Book \in Books
  BY DEF BatchKeeps, Fresh
<1>4. \A order \in OrderType, c \in V :
        Allowed(order) => PlaceNext(c, u, order, remaining) \in V
  BY <1>3, PlaceNextStays
<1> HIDE DEF V
<1>5. PlaceBatch(u, batch, remaining) \in V
  BY <1>2, <1>4, BatchStays
<1> QED
  BY <1>5 DEF V
=============================================================================

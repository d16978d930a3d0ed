------------------------------ MODULE OpenOrders ------------------------------
(***************************************************************************)
(* state/open_orders_account.rs: the account in which a user's orders and  *)
(* balances of one market are kept.  Operators on one account, a record;   *)
(* the volumes, the client ids and the delegate are left out.              *)
(***************************************************************************)
EXTENDS MarketFees, FiniteSets

CONSTANT MaxOpenOrders \* MAX_OPEN_ORDERS (24 in the code)

ASSUME OpenOrdersAssumption == MaxOpenOrders \in Nat \ {0}

OrderSlot == 1..MaxOpenOrders

\* OpenOrder::default(): a free slot reads as a fixed bid at price zero.
FreeOrder == [is_free |-> TRUE, id |-> 0, side |-> "Bid", tree |-> "Fixed", locked_price |-> 0]

\* open is FALSE while the account does not exist.
NewAccount ==
  [open |-> TRUE, open_orders |-> [s \in OrderSlot |-> FreeOrder],
   bids_base_lots |-> 0, bids_quote_lots |-> 0, asks_base_lots |-> 0,
   base_free_native |-> 0, quote_free_native |-> 0, locked_maker_fees |-> 0,
   penalty_heap_count |-> 0, total_approved_base |-> 0, total_approved_quote |-> 0]

FreeSlots(a) == {s \in OrderSlot : a.open_orders[s].is_free}

\* The first free slot, or 0 where next_order_slot fails with OpenOrdersFull.
NextOrderSlot(a) ==
  IF FreeSlots(a) = {} THEN 0
  ELSE CHOOSE s \in FreeSlots(a) : \A t \in FreeSlots(a) : s <= t

\* i64 arithmetic traps on overflow: the lots of a bid are locked at its price.
AddOrderFits(a, side, qty, price) ==
  side = "Bid" => a.bids_quote_lots + qty * price <= MaxI64

AddOrderInBase(a, slot, side, tree, id, qty, price) == \* mutant: bids counted in base lots
  LET b == [a EXCEPT !.open_orders[slot] =
              [is_free |-> FALSE, id |-> id, side |-> side, tree |-> tree,
               locked_price |-> price]]
  IN  IF side = "Bid"
      THEN [b EXCEPT !.bids_base_lots = @ + qty, !.bids_quote_lots = @ + qty]
      ELSE [b EXCEPT !.asks_base_lots = @ + qty]
AddOrder(a, slot, side, tree, id, qty, price) ==
  LET b == [a EXCEPT !.open_orders[slot] =
              [is_free |-> FALSE, id |-> id, side |-> side, tree |-> tree,
               locked_price |-> price]]
  IN  IF side = "Bid"
      THEN [b EXCEPT !.bids_base_lots = @ + qty, !.bids_quote_lots = @ + qty * price]
      ELSE [b EXCEPT !.asks_base_lots = @ + qty]

RemoveOrder(a, slot, qty, price) ==
  LET b == [a EXCEPT !.open_orders[slot] = FreeOrder]
  IN  IF a.open_orders[slot].side = "Bid"
      THEN [b EXCEPT !.bids_base_lots = @ - qty, !.bids_quote_lots = @ - qty * price]
      ELSE [b EXCEPT !.asks_base_lots = @ - qty]

\* The quote an order of this size had locked, in native units, and its fee.
LockedQuote(qty, price) == qty * price * QuoteLotSize
LockedFee(qty, price) == MakerFeesCeil(LockedQuote(qty, price))

\* remove_order asserts that the slot is taken, and the u64 fees trap on underflow.
CancelSlotFits(a, slot, qty) ==
  LET o == a.open_orders[slot]
  IN  /\ ~o.is_free
      /\ o.side = "Bid" => LockedFee(qty, o.locked_price) <= a.locked_maker_fees

CancelSlot(a, slot, qty) ==
  LET o == a.open_orders[slot]
      fee == LockedFee(qty, o.locked_price)
      b == IF o.side = "Bid"
           THEN [a EXCEPT !.quote_free_native = @ + LockedQuote(qty, o.locked_price) + fee,
                          !.locked_maker_fees = @ - fee]
           ELSE [a EXCEPT !.base_free_native = @ + qty * BaseLotSize]
  IN  RemoveOrder(b, slot, qty, o.locked_price)

PositionSoldOut(a) == \* mutant: sales that are still to be delivered do not count
  /\ a.bids_base_lots = 0 /\ a.bids_quote_lots = 0
  /\ a.base_free_native = 0 /\ a.quote_free_native = 0
  /\ a.locked_maker_fees = 0 /\ a.penalty_heap_count = 0
PositionIsEmpty(a) ==
  /\ a.bids_base_lots = 0 /\ a.asks_base_lots = 0 /\ a.bids_quote_lots = 0
  /\ a.base_free_native = 0 /\ a.quote_free_native = 0
  /\ a.locked_maker_fees = 0 /\ a.penalty_heap_count = 0
=============================================================================

------------------------------- MODULE OrderBook -------------------------------
(***************************************************************************)
(* state/orderbook/book.rs: what one instruction does to the book, to the  *)
(* open orders accounts and to the event heap.  An operator takes a record *)
(*   ok      no step of the instruction has failed so far                  *)
(*   leaves  the resting orders of both sides                              *)
(*   bump    for each side, how many tree nodes were ever in use at once   *)
(*   oo      the open orders accounts                                      *)
(*   heap    the event heap: the event in each slot, the stack of free     *)
(*           slots (what EventHeap is shown to implement)                  *)
(* and returns the record after it.  A failed instruction is undone, so    *)
(* once ok is FALSE the rest of the record does not matter.                *)
(***************************************************************************)
EXTENDS OpenOrders, BookSide

CONSTANTS Users,                 \* each has one open orders account and one wallet
          MaxNumEvents,          \* MAX_NUM_EVENTS, the slots of the event heap
          NoEvent,               \* what a free slot of the heap holds
          DropExpiredOrderLimit  \* DROP_EXPIRED_ORDER_LIMIT (5 in the code)

ASSUME OrderBookAssumption ==
  MaxNumEvents \in Nat \ {0} /\ DropExpiredOrderLimit \in Nat

HeapSlot == 0..(MaxNumEvents - 1)
NewHeap == [event |-> [s \in HeapSlot |-> NoEvent],
            free |-> [i \in 1..MaxNumEvents |-> i - 1]]
HeapLen(heap) == MaxNumEvents - Len(heap.free)

TakeSlot(heap, ev) ==
  [event |-> [heap.event EXCEPT ![Head(heap.free)] = ev], free |-> Tail(heap.free)]
\* EventHeap::push_back asserts that the heap is not full.
PushEvent(b, ev) ==
  IF b.heap.free = <<>> THEN [b EXCEPT !.ok = FALSE] ELSE [b EXCEPT !.heap = TakeSlot(@, ev)]
DeleteNothing(heap, slot) == heap \* mutant: the event is not deleted when it is settled
DeleteSlot(heap, slot) ==
  [event |-> [heap.event EXCEPT ![slot] = NoEvent], free |-> <<slot>> \o heap.free]

CancelIn(b, u, slot, qty) ==
  IF CancelSlotFits(b.oo[u], slot, qty)
  THEN [b EXCEPT !.oo[u] = CancelSlot(@, slot, qty)]
  ELSE [b EXCEPT !.ok = FALSE]

-----------------------------------------------------------------------------
(* Orders that leave the book without the owner asking for it.             *)

\* process_out_event: the owner is credited at once if the account is at hand
\* (the taker's own, or one passed as a remaining account), or else later.
OutEvent(l) ==
  [type |-> "Out", side |-> l.side, owner |-> l.owner, slot |-> l.owner_slot, qty |-> l.qty]
OutEventDropped(b, l, present) == \* mutant: no event for an owner who is not at hand
  IF l.owner \in present THEN CancelIn(b, l.owner, l.owner_slot, l.qty) ELSE b
ProcessOutEvent(b, l, present) ==
  IF l.owner \in present THEN CancelIn(b, l.owner, l.owner_slot, l.qty)
  ELSE PushEvent(b, OutEvent(l))

Unbook(b, l) == [b EXCEPT !.leaves = @ \ {l}]
DropFromBook(b, l, present) == ProcessOutEvent(Unbook(b, l), l, present)

InsertLeaf(b, l) ==
  LET used == NodesUsed(b.leaves \cup {l}, l.side)
      bump == b.bump[l.side]
  IN  [b EXCEPT !.ok = @ /\ used <= MaxNodes,
                !.leaves = @ \cup {l},
                !.bump[l.side] = IF used > bump THEN used ELSE bump]

-----------------------------------------------------------------------------
(* The order, as place_order and place_take_order build it from their      *)
(* arguments: [side, type, pegged, price, peg_limit, base, quote, expiry,  *)
(* self_trade, limit]; price is the offset of a pegged order.              *)

OrderType ==
  [side : Side, type : {"Limit", "PostOnly", "PostOnlySlide", "Market", "ImmediateOrCancel"},
   pegged : BOOLEAN, price : Int, peg_limit : Nat \cup {NoPeg}, base : Nat, quote : Nat,
   expiry : Nat, self_trade : {"DecrementTake", "CancelProvide", "AbortTransaction"},
   limit : Nat]

IsMarket(order) == order.type \in {"Market", "ImmediateOrCancel"}
IsPostOnly(order) == order.type \in {"PostOnly", "PostOnlySlide"}
\* A pegged order has a limit above zero, and is not a market order.
WellPegged(order) ==
  order.pegged => order.peg_limit \in Nat \ {0} /\ ~IsMarket(order)
PostTree(order) == IF order.pegged THEN "OraclePegged" ELSE "Fixed"

\* tif_from_expiry: 0 never expires; an expiry that has passed makes no order.
ExpiryPassed(order, now) == order.expiry # 0 /\ order.expiry <= now
Tif(order, now) == IF order.expiry = 0 THEN 0 ELSE order.expiry - now

\* post_only_slide_limit: just short of the best opposing order that is valid.
SlidePrice(best, side, price) ==
  IF \A p \in best : IsPriceBetter(InvertSide(side), price, p)
  THEN price
  ELSE (CHOOSE p \in best : TRUE) + IF side = "Bid" THEN -1 ELSE 1

\* Order::price, or 0 where the order has none.
OrderPrice(leaves, order, now, oracle) ==
  LET given == IF order.type = "Market" THEN (IF order.side = "Bid" THEN MaxI64 ELSE 1)
               ELSE IF order.pegged THEN oracle + order.price ELSE order.price
  IN  IF order.pegged /\ oracle = NoOracle THEN 0
      ELSE IF order.type # "PostOnlySlide" THEN given
      ELSE SlidePrice(BestPrice(leaves, InvertSide(order.side), now, oracle), order.side, given)

-----------------------------------------------------------------------------
(* The matching loop of new_order.  It runs over the items of the opposing *)
(* side as they were when the order arrived; m is its state.               *)

Matching(b, order, maxQuote) ==
  [b |-> b, running |-> TRUE, post |-> ~IsMarket(order), base |-> order.base,
   quote |-> maxQuote, decremented |-> 0, rebates |-> 0, dropped |-> 0, limit |-> order.limit]

FillEventOfOrder(order, taker, own, l, price, qty, now) == \* mutant: the size of the order
  [type |-> IF IsMarket(order) THEN "FillDirect" ELSE "Fill", taker_side |-> order.side,
   maker |-> l.owner, taker |-> taker, by_account |-> own # {},
   price |-> price, qty |-> order.base, ts |-> now]
\* The taker is named by its account, or by its wallet if it trades without one.
FillEvent(order, taker, own, l, price, qty, now) ==
  [type |-> IF IsMarket(order) THEN "FillDirect" ELSE "Fill", taker_side |-> order.side,
   maker |-> l.owner, taker |-> taker, by_account |-> own # {},
   price |-> price, qty |-> qty, ts |-> now]

DropInvalid(m, l, present) ==
  IF m.dropped = DropExpiredOrderLimit THEN m
  ELSE [m EXCEPT !.dropped = @ + 1, !.b = DropFromBook(@, l, present)]

MatchQty(m, item) ==
  LET byQuote == m.quote \div item.price
      byBase == IF m.base < item.leaf.qty THEN m.base ELSE item.leaf.qty
  IN  IF byBase < byQuote THEN byBase ELSE byQuote

\* The leaf keeps its place with what is left of it, if anything is.
Reduce(b, l, qty) ==
  LET rest == IF qty = l.qty THEN {} ELSE {[l EXCEPT !.qty = @ - qty]}
  IN  [b EXCEPT !.leaves = (@ \ {l}) \cup rest]
Fill(m, item, order, taker, own, now) ==
  LET l == item.leaf
      self == l.owner \in own
      qty == MatchQty(m, item)
      quote == qty * item.price
  IN  [m EXCEPT !.base = @ - qty, !.quote = @ - quote, !.limit = @ - 1,
                !.decremented = IF self THEN @ + quote ELSE @,
                !.rebates = IF self THEN @ ELSE @ + MakerRebateFloor(quote * QuoteLotSize),
                !.b = PushEvent(Reduce(@, l, qty),
                                FillEvent(order, taker, own, l, item.price, qty, now))]

CancelProvide(m, l) ==
  [m EXCEPT !.b = CancelIn(Unbook(@, l), l.owner, l.owner_slot, l.qty)]

\* own is the account that trades, or empty for an order without an account.
MatchStep(m, item, order, taker, own, limitPrice, present, now) ==
  LET self == item.leaf.owner \in own
      stop == [m EXCEPT !.running = FALSE]
  IN  IF ~m.running \/ ~m.b.ok THEN m
      ELSE IF m.base = 0 \/ m.quote = 0 THEN stop
      ELSE IF ~item.valid THEN DropInvalid(m, item.leaf, present)
      ELSE IF ~IsPriceWithinLimit(order.side, item.price, limitPrice) THEN stop
      ELSE IF IsPostOnly(order) \/ m.limit = 0 THEN [stop EXCEPT !.post = FALSE]
      ELSE IF m.quote < item.price THEN stop
      ELSE IF ~self \/ order.self_trade = "DecrementTake"
      THEN Fill(m, item, order, taker, own, now)
      ELSE IF order.self_trade = "CancelProvide" THEN CancelProvide(m, item.leaf)
      ELSE [m EXCEPT !.b.ok = FALSE] \* AbortTransaction

Match(b, order, maxQuote, taker, own, limitPrice, present, now, oracle) ==
  LET items == Iter(b.leaves, InvertSide(order.side), now, oracle)
      walk[i \in 0..Len(items)] ==
        IF i = 0 THEN Matching(b, order, maxQuote)
        ELSE MatchStep(walk[i - 1], items[i], order, taker, own, limitPrice, present, now)
  IN  walk[Len(items)]

-----------------------------------------------------------------------------
(* Posting what is left, and the record of the order in its account.       *)

\* The price the remainder is locked at: a pegged bid may rise to its peg limit.
LockedPrice(order, price) ==
  IF order.pegged /\ order.side = "Bid" THEN order.peg_limit ELSE price

\* Base lots that the remaining base and quote allow.
PostQty(m, order, taken, takerFees, lockedPrice) ==
  LET left == order.quote - taken - takerFees
      byQuote == (left - MakerFeesCeil(left)) \div lockedPrice
  IN  IF m.base < byQuote THEN m.base ELSE byQuote

DropOneExpired(b, order, present, now) ==
  LET expired == OneExpired(b.leaves, order.side, PostTree(order), now)
  IN  IF expired = {} THEN b ELSE DropFromBook(b, CHOOSE l \in expired : TRUE, present)

EvictAnyWorst(b, order, price, present, oracle) == \* mutant: whatever the prices are
  LET worst == WorstOrder(b.leaves, order.side, oracle)
  IN  IF ~IsFull(b.leaves, order.side, b.bump[order.side]) THEN b
      ELSE IF worst = {} THEN [b EXCEPT !.ok = FALSE]
      ELSE DropFromBook(b, CHOOSE l \in worst : TRUE, present)
\* The worst order makes room only for an order at a better price.
EvictWorst(b, order, price, present, oracle) ==
  LET worst == WorstOrder(b.leaves, order.side, oracle)
      l == CHOOSE l \in worst : TRUE
  IN  IF ~IsFull(b.leaves, order.side, b.bump[order.side]) THEN b
      ELSE IF worst = {} \/ ~IsPriceBetter(order.side, price, PriceNow(oracle, l))
      THEN [b EXCEPT !.ok = FALSE]
      ELSE DropFromBook(b, l, present)

Leaf(order, price, oracle, id, u, slot, qty, now) ==
  [side |-> order.side, tree |-> PostTree(order), seq |-> id,
   data |-> IF order.pegged THEN price - oracle ELSE price,
   owner |-> u, owner_slot |-> slot, qty |-> qty, ts |-> now, tif |-> Tif(order, now),
   peg_limit |-> IF order.pegged THEN order.peg_limit ELSE NoPeg]

LockFeesFloor(b, order, lockedPrice, u, qty) == \* mutant: rounds the fee down
  [b EXCEPT !.oo[u].locked_maker_fees =
      @ + IF order.side = "Bid" THEN (LockedQuote(qty, lockedPrice) * MakerFee) \div FeesScaleFactor ELSE 0,
            !.ok = @ /\ qty * lockedPrice <= MaxQuoteLots]
LockFees(b, order, lockedPrice, u, qty) ==
  [b EXCEPT !.oo[u].locked_maker_fees = @ + IF order.side = "Bid" THEN LockedFee(qty, lockedPrice) ELSE 0,
            !.ok = @ /\ qty * lockedPrice <= MaxQuoteLots]

Insert(b, order, price, oracle, id, u, qty, now) ==
  LET slot == NextOrderSlot(b.oo[u])
  IN  IF ~b.ok \/ slot = 0 THEN [b EXCEPT !.ok = FALSE]
      ELSE InsertLeaf(b, Leaf(order, price, oracle, id, u, slot, qty, now))

\* mutant: the slot is chosen before an expired or evicted order frees one
PostSlotFirst(b, order, price, lockedPrice, id, u, qty, present, now, oracle) ==
  InsertLeaf(EvictWorst(DropOneExpired(LockFees(b, order, lockedPrice, u, qty), order, present, now),
                        order, price, present, oracle),
             Leaf(order, price, oracle, id, u, NextOrderSlot(b.oo[u]), qty, now))
Post(b, order, price, lockedPrice, id, u, qty, present, now, oracle) ==
  Insert(EvictWorst(DropOneExpired(LockFees(b, order, lockedPrice, u, qty), order, present, now),
                    order, price, present, oracle),
         order, price, oracle, id, u, qty, now)

RecordPosted(b, order, lockedPrice, id, u) == \* mutant: only what was posted is locked
  LET slot == NextOrderSlot(b.oo[u])
      posted == {l \in b.leaves : l.seq = id}
  IN  IF ~b.ok \/ slot = 0 THEN [b EXCEPT !.ok = FALSE]
      ELSE [b EXCEPT !.oo[u] =
              AddOrder(@, slot, order.side, PostTree(order), id,
                       IF posted = {} THEN 0 ELSE (CHOOSE l \in posted : TRUE).qty, lockedPrice)]
\* The whole order is entered in the account, whether or not it was posted,
\* in full or at all: it stays there until the trade is settled.
Record(b, order, lockedPrice, id, u) ==
  LET slot == NextOrderSlot(b.oo[u])
      tree == IF IsMarket(order) /\ order.side = "Ask" THEN "OraclePegged" ELSE PostTree(order)
  IN  IF ~b.ok \/ slot = 0 \/ ~AddOrderFits(b.oo[u], order.side, order.base, lockedPrice)
      THEN [b EXCEPT !.ok = FALSE]
      ELSE [b EXCEPT !.oo[u] =
              AddOrder(@, slot, order.side, tree, id, order.base, lockedPrice)]

-----------------------------------------------------------------------------
(* new_order: the book after the order, and the native amounts taken and   *)
(* posted, from which the caller moves tokens.  An order of the account of *)
(* u has own = {u}; an order without an account has own = {}.              *)

\* What is left when the matching ends: m is its last state.
Settle(m, order, maxQuote, price, id, u, own, present, now, oracle) ==
  LET taken == maxQuote - m.quote
      takerFees == TakerFeesCeil((taken - m.decremented) * QuoteLotSize)
      lockedPrice == LockedPrice(order, price)
      qty == PostQty(m, order, taken, takerFees, lockedPrice)
      posts == /\ m.post /\ qty > 0
               /\ order.pegged => ~IsPriceBetter(order.side, price, order.peg_limit)
      postedQty == IF posts THEN qty ELSE 0
      posted == IF posts /\ m.b.ok
                THEN Post(m.b, order, price, lockedPrice, id, u, qty, present, now, oracle)
                ELSE m.b
  IN  [b |-> IF own = {} THEN posted ELSE Record(posted, order, lockedPrice, id, u),
       fits |-> takerFees >= m.rebates,
       seq_num |-> id,
       base_taken |-> (order.base - m.base) * BaseLotSize,
       quote_taken |-> taken * QuoteLotSize,
       base_posted |-> postedQty * BaseLotSize,
       quote_posted |-> LockedQuote(postedQty, lockedPrice),
       taker_fees |-> takerFees,
       maker_fees |-> IF order.side = "Bid" THEN LockedFee(postedQty, lockedPrice) ELSE 0,
       referrer_amount |-> takerFees - m.rebates]

\* The quote that may be taken and that is left for taker fees.
MaxQuote(order) ==
  IF order.side = "Bid" /\ ~IsPostOnly(order) THEN SubtractTakerFees(order.quote) ELSE order.quote

\* The result of an order, in a set that is empty if the order fails.
AtPrice(price, b, order, id, u, own, present, now, oracle) ==
  IF price < 1 \/ order.base > MaxBaseLots \/ MaxQuote(order) > MaxQuoteLots THEN {}
  ELSE {r \in {Settle(Match(b, order, MaxQuote(order), u, own, price, present, now, oracle),
                      order, MaxQuote(order), price, id, u, own, present, now, oracle)} :
          r.b.ok /\ r.fits}
NewOrder(b, seqNum, order, u, own, remaining, now, oracle) ==
  AtPrice(OrderPrice(b.leaves, order, now, oracle),
          b, order, seqNum + 1, u, own, own \cup remaining, now, oracle)

-----------------------------------------------------------------------------
(* Orders that leave the book because the owner asks for it.               *)

\* Orderbook::cancel_order finds the order in the tree its account recorded.
LeafOf(b, u, slot) ==
  LET o == b.oo[u].open_orders[slot]
  IN  {l \in b.leaves : ~o.is_free /\ l.side = o.side /\ l.tree = o.tree /\ l.seq = o.id}
CancelOrder(b, u, slot) ==
  LET found == LeafOf(b, u, slot)
      l == CHOOSE l \in found : TRUE
  IN  IF found = {} \/ l.owner # u THEN [b EXCEPT !.ok = FALSE]
      ELSE CancelIn(Unbook(b, l), u, l.owner_slot, l.qty)

\* cancel_all_orders: the slots in order; an order that is not on the book is
\* passed over but counts against the limit.
CancelNext(c, u, sides, slot) ==
  LET o == c.b.oo[u].open_orders[slot]
  IN  IF o.is_free \/ o.side \notin sides \/ c.left = 0 THEN c
      ELSE [b |-> IF LeafOf(c.b, u, slot) = {} THEN c.b ELSE CancelOrder(c.b, u, slot),
            left |-> c.left - 1]
CancelAllOrders(b, u, sides, limit) ==
  LET walk[s \in 0..MaxOpenOrders] ==
        IF s = 0 THEN [b |-> b, left |-> limit] ELSE CancelNext(walk[s - 1], u, sides, s)
  IN  walk[MaxOpenOrders].b
=============================================================================

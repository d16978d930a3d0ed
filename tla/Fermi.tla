--------------------------------- MODULE Fermi ---------------------------------
(***************************************************************************)
(* One market of the program.  An action is one instruction (state changes *)
(* of a failed instruction are undone by the runtime, so an instruction    *)
(* that fails is no step), the clock, or the oracle.  Tokens are moved by  *)
(* the SPL token program, modelled from its use: a transfer needs the      *)
(* balance, a transfer by the market authority also the delegated amount,  *)
(* and an approval replaces the delegated amount.                          *)
(*                                                                         *)
(* place_order matches the order against the book and parks each match in  *)
(* the event heap; tokens stay in the wallets, except a margin of one      *)
(* hundredth, until some later instruction finalizes the match.            *)
(***************************************************************************)
EXTENDS OrderBook, Functions

CONSTANTS
  Orders,        \* the orders place_order is called with
  TakeOrders,    \* the orders place_take_order is called with
  RemainingSets, \* which other accounts come along with an instruction
  Referrers,     \* whether a referrer account comes along
  Deposits,      \* the amounts deposit is called with
  Batches,       \* what cancel_and_place_orders is called with: [cancel, orders]
  CancelLimits,  \* the limits cancel_all_orders and prune_orders are called with
  EditSizes,     \* the expected sizes edit_order is called with
  Oracles,       \* the values the oracle takes
  Wallets,       \* what the users' wallets hold at first
  PassedFor,     \* of a user: whose accounts whoever finalizes a match may pass as his
  MaxOrders,     \* bound of the model: how many order ids are given out
  MaxTime,       \* bound of the model: when the clock stops
  MarginDivisor, \* the 100 of "deposit_amount / 100": a margin of one hundredth
  PenaltyDelay,  \* the 60 seconds of cancel_with_penalty
  MayExpire,     \* whether the market's admin ever lets the market expire
  MayClose       \* whether users close their open orders accounts

ASSUME FermiAssumption ==
  /\ IsFiniteSet(Users)
  /\ \A order \in Orders : order \in OrderType /\ WellPegged(order)
  /\ \A order \in TakeOrders : order \in OrderType /\ IsMarket(order) /\ ~order.pegged
  /\ \A batch \in Batches :
       /\ batch.cancel \subseteq OrderSlot
       /\ batch.orders \in Seq(OrderType)
       /\ \A i \in DOMAIN batch.orders : WellPegged(batch.orders[i])
  /\ Deposits \subseteq [base : Nat, quote : Nat]
  /\ CancelLimits \subseteq Nat /\ EditSizes \subseteq Nat
  /\ Oracles \subseteq Int \cup {NoOracle}
  /\ MaxOrders \in Nat /\ MaxTime \in Nat \ {0} /\ PenaltyDelay \in Nat
  /\ MarginDivisor \in Nat \ {0}
  /\ Wallets \in [Users -> [base : Nat, quote : Nat]]
  /\ PassedFor \in [Users -> SUBSET Users] /\ \A u \in Users : u \in PassedFor[u]
  /\ RemainingSets \subseteq SUBSET Users
  /\ Referrers \subseteq BOOLEAN /\ MayExpire \in BOOLEAN /\ MayClose \in BOOLEAN

VARIABLES
  leaves, bump, oo, heap,    \* see OrderBook
  market,                    \* the fields of Market that change
  wallet, delegated, vault,  \* token accounts: users' balances, what the market
                             \* authority may still take of them, the market's vaults
  now, oracle

bookVars == <<leaves, bump, oo, heap>>
tokenVars == <<wallet, delegated, vault>>
vars == <<leaves, bump, oo, heap, market, wallet, delegated, vault, now, oracle>>

Book == [ok |-> TRUE, leaves |-> leaves, bump |-> bump, oo |-> oo, heap |-> heap]

Init ==
  /\ leaves = {}
  /\ bump = [side \in Side |-> 0]
  /\ oo = [u \in Users |-> NewAccount]
  /\ heap = NewHeap
  /\ market = [seq_num |-> 0, base_deposit_total |-> 0, quote_deposit_total |-> 0,
               fees_available |-> 0, time_expiry |-> 0, closed |-> FALSE]
  /\ wallet = Wallets
  /\ delegated = [u \in Users |-> [base |-> 0, quote |-> 0]]
  /\ vault = [base |-> 0, quote |-> 0]
  /\ now = 1
  /\ oracle \in Oracles

MarketExpired == market.time_expiry # 0 /\ market.time_expiry < now

\* Instructions on the book alone.
BookBecomes(b) ==
  /\ b.ok
  /\ leaves' = b.leaves /\ bump' = b.bump /\ oo' = b.oo /\ heap' = b.heap

TokenOf(side) == IF side = "Bid" THEN "quote" ELSE "base"

-----------------------------------------------------------------------------
(* place_order, edit_order.                                                *)

CommittedTaken(order, r) == \* mutant: what was posted is not approved
  IF order.side = "Bid" THEN r.quote_taken + r.taker_fees ELSE r.base_taken
\* What the order commits its owner to: the cost of what it took and of what it
\* posted, with fees.
Committed(order, r) ==
  IF order.side = "Bid"
  THEN r.quote_taken + r.quote_posted + r.taker_fees + r.maker_fees
  ELSE r.base_taken + r.base_posted

\* The margin and the approval are computed from the total the account has ever
\* committed, total_approved.
Place(b, u, order, remaining) ==
  /\ market.seq_num < MaxOrders
  /\ \E r \in NewOrder(b, market.seq_num, order, u, {u}, remaining, now, oracle) :
       LET bid == order.side = "Bid"
           token == TokenOf(order.side)
           amount == Committed(order, r)
           approved == amount + IF bid THEN r.b.oo[u].total_approved_quote
                                ELSE r.b.oo[u].total_approved_base
           margin == approved \div MarginDivisor
           grew == HeapLen(r.b.heap) > HeapLen(b.heap)
           account == [r.b.oo[u] EXCEPT !.penalty_heap_count = @ + IF grew THEN 1 ELSE 0,
                                        !.total_approved_quote = IF bid THEN approved ELSE @,
                                        !.total_approved_base = IF bid THEN @ ELSE approved]
       IN  /\ wallet[u][token] >= margin
           /\ BookBecomes([r.b EXCEPT !.oo[u] = account])
           /\ market' = [market EXCEPT
                           !.seq_num = r.seq_num,
                           !.quote_deposit_total = @ + IF bid THEN amount ELSE 0,
                           !.base_deposit_total = @ + IF bid THEN 0 ELSE amount]
           /\ wallet' = [wallet EXCEPT ![u][token] = @ - margin]
           /\ vault' = [vault EXCEPT ![token] = @ + margin]
           /\ delegated' = IF approved = 0 THEN delegated
                           ELSE [delegated EXCEPT ![u][token] = approved]
  /\ UNCHANGED <<now, oracle>>

PlaceOrder(u, order, remaining) ==
  /\ ~market.closed /\ ~MarketExpired
  /\ ~ExpiryPassed(order, now)
  /\ Place(Book, u, order, remaining)

\* edit_order cancels one order and places another, smaller by what the first
\* one already traded, or nothing if that is all of it.
EditOrder(u, slot, expected, order, remaining) ==
  /\ ~market.closed
  /\ ~ExpiryPassed(order, now)
  /\ \E resting \in LeafOf(Book, u, slot), cancelled \in {CancelOrder(Book, u, slot)} :
       LET filled == expected - resting.qty
       IN  /\ cancelled.ok
           /\ \/ /\ order.base > filled
                 /\ ~MarketExpired
                 /\ Place(cancelled, u, [order EXCEPT !.base = @ - filled], remaining)
              \/ /\ order.base <= filled
                 /\ BookBecomes(cancelled)
                 /\ UNCHANGED <<market, wallet, delegated, vault, now, oracle>>

-----------------------------------------------------------------------------
(* cancel_and_place_orders.  An order is cut down to what the wallet and    *)
(* the free balance can pay for; the cost is deposited in full, the free   *)
(* balance first.                                                          *)

\* Slots whose orders are not on the book any more are passed over.
CancelIfOnBook(c, u, slots, slot) ==
  IF slot \notin slots \/ LeafOf(c, u, slot) = {} THEN c ELSE CancelOrder(c, u, slot)
CancelSlots(b, u, slots) ==
  LET walk[s \in 0..MaxOpenOrders] ==
        IF s = 0 THEN b ELSE CancelIfOnBook(walk[s - 1], u, slots, s)
  IN  walk[MaxOpenOrders]

FreeOf(a, token) == IF token = "base" THEN a.base_free_native ELSE a.quote_free_native

Smaller(x, y) == IF x < y THEN x ELSE y
CutDown(order, available) ==
  IF order.side = "Ask"
  THEN [order EXCEPT !.base = Smaller(@, Smaller(MaxBaseLots, available \div BaseLotSize))]
  ELSE [order EXCEPT !.quote = Smaller(@, Smaller(MaxQuoteLots, available \div QuoteLotSize))]

AvailableToEach(c, u, token) == \* mutant: the cost of the orders before it is not taken off
  wallet[u][token] + FreeOf(c.b.oo[u], token)
Available(c, u, token) == wallet[u][token] + FreeOf(c.b.oo[u], token) - c.cost[token]

\* c: the book so far, the last order id, and the cost in each token.
AfterOrder(c, order, results) ==
  IF results = {} THEN [c EXCEPT !.b.ok = FALSE]
  ELSE LET r == CHOOSE r \in results : TRUE
       IN  [b |-> r.b, seq_num |-> r.seq_num,
            cost |-> [c.cost EXCEPT ![TokenOf(order.side)] = @ + Committed(order, r)]]
\* An order that has expired already is passed over.
PlaceNext(c, u, order, remaining) ==
  LET available == Available(c, u, TokenOf(order.side))
  IN  IF ExpiryPassed(order, now) THEN c
      ELSE AfterOrder(c, order,
             IF ~c.b.ok \/ available < 0 \/ c.seq_num = MaxOrders THEN {}
             ELSE NewOrder(c.b, c.seq_num, CutDown(order, available),
                           u, {u}, remaining, now, oracle))
PlaceBatch(u, batch, remaining) ==
  LET none == [b |-> CancelSlots(Book, u, batch.cancel), seq_num |-> market.seq_num,
               cost |-> [base |-> 0, quote |-> 0]]
      walk[i \in 0..Len(batch.orders)] ==
        IF i = 0 THEN none ELSE PlaceNext(walk[i - 1], u, batch.orders[i], remaining)
  IN  walk[Len(batch.orders)]

FromFree(c, u, token) == Smaller(c.cost[token], FreeOf(c.b.oo[u], token))
ToDeposit(c, u, token) == c.cost[token] - FromFree(c, u, token)

CancelAndPlaceOrders(u, batch, remaining) ==
  /\ ~market.closed /\ ~MarketExpired
  /\ \E c \in {PlaceBatch(u, batch, remaining)} :
       LET base == ToDeposit(c, u, "base")
           quote == ToDeposit(c, u, "quote")
           grew == HeapLen(c.b.heap) > HeapLen(heap)
           account == [c.b.oo[u] EXCEPT !.base_free_native = @ - FromFree(c, u, "base"),
                                        !.quote_free_native = @ - FromFree(c, u, "quote"),
                                        !.penalty_heap_count = @ + IF grew THEN 1 ELSE 0]
       IN  /\ wallet[u].base >= base /\ wallet[u].quote >= quote
           /\ BookBecomes([c.b EXCEPT !.oo[u] = account])
           /\ market' = [market EXCEPT !.seq_num = c.seq_num,
                                       !.base_deposit_total = @ + base,
                                       !.quote_deposit_total = @ + quote]
           /\ wallet' = [wallet EXCEPT ![u].base = @ - base, ![u].quote = @ - quote]
           /\ vault' = [base |-> vault.base + base, quote |-> vault.quote + quote]
  /\ UNCHANGED <<delegated, now, oracle>>

-----------------------------------------------------------------------------
(* place_take_order: a market or an immediate-or-cancel order of a wallet  *)
(* without an account.  It pays in full and receives nothing yet.          *)
PlaceTakeOrder(u, order, remaining, referrer) ==
  /\ ~market.closed /\ ~MarketExpired
  /\ market.seq_num < MaxOrders
  /\ \E r \in NewOrder(Book, market.seq_num, order, u, {}, remaining, now, NoOracle) :
       LET bid == order.side = "Bid"
           token == TokenOf(order.side)
           pays == IF bid THEN r.quote_taken + r.taker_fees ELSE r.base_taken
           owed == IF bid THEN r.base_taken ELSE r.quote_taken - r.taker_fees
           baseTotal == market.base_deposit_total + IF bid THEN -owed ELSE pays
           quoteTotal == market.quote_deposit_total + IF bid THEN pays ELSE -owed
           quoteLeft == quoteTotal - IF referrer THEN r.referrer_amount ELSE 0
       IN  /\ owed >= 0 /\ baseTotal >= 0 /\ quoteTotal >= 0 /\ quoteLeft >= 0
           /\ wallet[u][token] >= pays
           /\ BookBecomes(r.b)
           /\ market' = [market EXCEPT
                           !.seq_num = r.seq_num,
                           !.base_deposit_total = baseTotal, !.quote_deposit_total = quoteLeft,
                           !.fees_available = @ + IF referrer THEN 0 ELSE r.referrer_amount]
           /\ wallet' = [wallet EXCEPT ![u][token] = @ - pays]
           /\ vault' = [vault EXCEPT ![token] = @ + pays]
  /\ UNCHANGED <<delegated, now, oracle>>

-----------------------------------------------------------------------------
(* Orders leave the book at their owner's request.                         *)

OnBookOnly == UNCHANGED <<market, wallet, delegated, vault, now, oracle>>

\* cancel_order and cancel_order_by_client_order_id.
CancelOneOrder(u, slot) ==
  /\ ~market.closed
  /\ ~oo[u].open_orders[slot].is_free
  /\ BookBecomes(CancelOrder(Book, u, slot))
  /\ OnBookOnly

CancelAll(u, sides, limit) ==
  /\ ~market.closed
  /\ BookBecomes(CancelAllOrders(Book, u, sides, limit))
  /\ OnBookOnly

\* prune_orders: anyone may do it once the market has expired.
PruneOrders(u, limit) ==
  /\ ~market.closed /\ MarketExpired
  /\ BookBecomes(CancelAllOrders(Book, u, Side, limit))
  /\ OnBookOnly

-----------------------------------------------------------------------------
(* The finalization of a match, by whoever names its slot of the heap and   *)
(* passes the accounts.  The program does not compare token accounts with   *)
(* the match's parties, nor the maker's account in atomic_finalize_market.  *)

QuoteAmount(ev) == ev.qty * ev.price * QuoteLotSize
BaseAmount(ev) == ev.qty * BaseLotSize
AfterMargin(amount) == amount - amount \div MarginDivisor

\* A debit takes the free balance first and the wallet for the rest.
Missing(free, due) == IF due > free THEN due - free ELSE 0
FreeOverdrawn(free, due) == free - due \* mutant: the wallet's part is taken twice
FreeLeft(free, due) == IF due > free THEN 0 ELSE free - due

Buyer(ev) == IF ev.taker_side = "Bid" THEN ev.taker ELSE ev.maker
Seller(ev) == IF ev.taker_side = "Bid" THEN ev.maker ELSE ev.taker

\* What the free balances leave to the wallets.
QuoteMissingOf(u, ev) == Missing(oo[u].quote_free_native, AfterMargin(QuoteAmount(ev)))
BaseMissingOf(u, ev) == Missing(oo[u].base_free_native, AfterMargin(BaseAmount(ev)))
QuoteMissing(ev) == QuoteMissingOf(Buyer(ev), ev)
BaseMissing(ev) == BaseMissingOf(Seller(ev), ev)

\* The market authority may take the amount from the wallet.
CanPull(u, token, amount) ==
  amount > 0 => delegated[u][token] >= amount /\ wallet[u][token] >= amount
Credit(w, u, token, amount) == [w EXCEPT ![u][token] = @ + amount]
\* A transfer of a wallet to itself takes nothing off the delegated amount.
Transfer(w, from, to, token, amount) == Credit(Credit(w, from, token, -amount), to, token, amount)
Spend(d, from, to, token, amount) == IF from = to THEN d ELSE Credit(d, from, token, -amount)

\* Both parties are debited all but the margin, from lots that carry one, and
\* credited in full.  One account cannot be loaded as both maker and taker.
SettleFill(slot) ==
  LET ev == heap.event[slot]
      buyer == Buyer(ev)
      seller == Seller(ev)
  IN  /\ ev # NoEvent /\ ev.type = "Fill" /\ buyer # seller
      /\ oo[buyer].open /\ oo[seller].open
      /\ oo[buyer].bids_quote_lots >= ev.qty * ev.price
      /\ oo[seller].asks_base_lots >= ev.qty
      /\ oo' = [oo EXCEPT
           ![buyer].bids_quote_lots = @ - ev.qty * ev.price,
           ![buyer].quote_free_native = FreeLeft(@, AfterMargin(QuoteAmount(ev))),
           ![buyer].base_free_native = @ + BaseAmount(ev),
           ![seller].asks_base_lots = @ - ev.qty,
           ![seller].base_free_native = FreeLeft(@, AfterMargin(BaseAmount(ev))),
           ![seller].quote_free_native = @ + QuoteAmount(ev)]
      /\ heap' = DeleteSlot(heap, slot)
      /\ UNCHANGED <<leaves, bump, market, now, oracle>>

VaultsCrossed(quote, base) == \* mutant: each amount is booked in the other vault
  [vault EXCEPT !.quote = @ + base, !.base = @ + quote]
VaultsAfterPull(quote, base) == [vault EXCEPT !.quote = @ + quote, !.base = @ + base]

\* atomic_finalize_events: what is missing goes from two wallets to the vaults.
FinalizeMatch(slot) ==
  LET ev == heap.event[slot]
      quote == QuoteMissing(ev)
      base == BaseMissing(ev)
  IN  /\ ~market.closed
      /\ SettleFill(slot)
      /\ \E quoteFrom \in PassedFor[Buyer(ev)], baseFrom \in PassedFor[Seller(ev)] :
           /\ CanPull(quoteFrom, "quote", quote) /\ CanPull(baseFrom, "base", base)
           /\ wallet' = Credit(Credit(wallet, quoteFrom, "quote", -quote), baseFrom, "base", -base)
           /\ delegated' =
                Credit(Credit(delegated, quoteFrom, "quote", -quote), baseFrom, "base", -base)
      /\ vault' = VaultsAfterPull(quote, base)

\* atomic_finalize_events_direct: from wallet to wallet.
FinalizeMatchDirect(slot) ==
  LET ev == heap.event[slot]
      quote == QuoteMissing(ev)
      base == BaseMissing(ev)
  IN  /\ ~market.closed
      /\ SettleFill(slot)
      /\ \E quoteFrom, baseTo \in PassedFor[Buyer(ev)], baseFrom, quoteTo \in PassedFor[Seller(ev)] :
           /\ CanPull(quoteFrom, "quote", quote) /\ CanPull(baseFrom, "base", base)
           /\ wallet' = Transfer(Transfer(wallet, quoteFrom, quoteTo, "quote", quote),
                                 baseFrom, baseTo, "base", base)
           /\ delegated' = Spend(Spend(delegated, quoteFrom, quoteTo, "quote", quote),
                                 baseFrom, baseTo, "base", base)
      /\ UNCHANGED vault

\* atomic_finalize_market: a match of a market order, whose taker has paid the
\* vault; the maker pays the taker, who may be the maker's own wallet, and is
\* paid by the vault.  The lots and the free balance are those of the open orders
\* account passed as the maker's.
FinalizeMarketOn(slot, account) ==
  LET ev == heap.event[slot]
      makerSells == ev.taker_side = "Bid"
      token == IF makerSells THEN "base" ELSE "quote"  \* what the maker pays
      other == IF makerSells THEN "quote" ELSE "base"
      paid == IF makerSells THEN QuoteAmount(ev) ELSE BaseAmount(ev)
      missing == IF makerSells THEN BaseMissingOf(account, ev) ELSE QuoteMissingOf(account, ev)
      lots == IF makerSells THEN AfterMargin(BaseAmount(ev)) \div BaseLotSize
              ELSE ev.qty * ev.price
  IN  /\ ~market.closed
      /\ ev # NoEvent /\ ev.type = "FillDirect" /\ account \in PassedFor[ev.maker]
      /\ oo[account].open
      /\ lots <= IF makerSells THEN oo[account].asks_base_lots ELSE oo[account].bids_quote_lots
      /\ vault[other] >= paid
      /\ oo' = IF makerSells
               THEN [oo EXCEPT ![account].asks_base_lots = @ - lots,
                               ![account].base_free_native =
                                  FreeLeft(@, AfterMargin(BaseAmount(ev)))]
               ELSE [oo EXCEPT ![account].bids_quote_lots = @ - lots,
                               ![account].quote_free_native =
                                  FreeLeft(@, AfterMargin(QuoteAmount(ev)))]
      /\ \E from, paidTo \in PassedFor[ev.maker], to \in PassedFor[ev.taker] :
           /\ CanPull(from, token, missing)
           /\ wallet' = Credit(Transfer(wallet, from, to, token, missing), paidTo, other, paid)
           /\ delegated' = Spend(delegated, from, to, token, missing)
      /\ vault' = [vault EXCEPT ![other] = @ - paid]
      /\ heap' = DeleteSlot(heap, slot)
      /\ UNCHANGED <<leaves, bump, market, now, oracle>>
FinalizeMarket(slot) == \E account \in Users : FinalizeMarketOn(slot, account)

\* An Out event is deleted by atomic_finalize_events or atomic_finalize_market,
\* and nothing else is done.
FinalizeOut(slot) ==
  /\ ~market.closed
  /\ heap.event[slot] # NoEvent /\ heap.event[slot].type = "Out"
  /\ heap' = DeleteSlot(heap, slot)
  /\ UNCHANGED <<leaves, bump, oo, market, wallet, delegated, vault, now, oracle>>

\* cancel_with_penalty: the taker of a match that was not finalized in time
\* deletes it and takes a penalty from the maker.  The event's type is not looked
\* at, but the taker's account must load; an Out event has none.  The amounts are
\* in lots, and what is missing is always taken in base tokens.
CancelWithPenalty(slot, side) ==
  LET ev == heap.event[slot]
      amount == ev.qty * ev.price
      owner == ev.taker
      cpty == ev.maker
      bid == side = "Bid"
      ownerFree == IF bid THEN oo[owner].quote_free_native ELSE oo[owner].base_free_native
      cptyFree == IF bid THEN oo[cpty].base_free_native ELSE oo[cpty].quote_free_native
      pays == amount - ownerFree
      penalty == (amount - cptyFree) \div MarginDivisor
  IN  /\ ~market.closed
      /\ ev # NoEvent /\ ev.type # "Out" /\ ev.by_account /\ owner # cpty
      /\ oo[owner].open /\ oo[cpty].open
      /\ now > ev.ts + PenaltyDelay
      /\ pays >= 0 /\ cptyFree < amount
      /\ oo' = IF bid
               THEN [oo EXCEPT ![owner].quote_free_native = @ + pays,
                               ![owner].base_free_native = @ + penalty,
                               ![cpty].asks_base_lots = @ - penalty]
               ELSE [oo EXCEPT ![owner].base_free_native = @ + pays,
                               ![owner].quote_free_native = @ + penalty,
                               ![cpty].bids_quote_lots = @ - penalty]
      /\ \E from \in PassedFor[owner] :
           /\ CanPull(from, "base", pays)
           /\ wallet' = Credit(wallet, from, "base", -pays)
           /\ delegated' = Credit(delegated, from, "base", -pays)
      /\ vault' = [vault EXCEPT !.base = @ + pays]
      /\ heap' = DeleteSlot(heap, slot)
      /\ UNCHANGED <<leaves, bump, market, now, oracle>>

-----------------------------------------------------------------------------
(* Funds in and out.                                                       *)

Deposit(u, base, quote) ==
  /\ ~market.closed /\ ~MarketExpired
  /\ wallet[u].base >= base /\ wallet[u].quote >= quote
  /\ oo' = [oo EXCEPT ![u].base_free_native = @ + base, ![u].quote_free_native = @ + quote]
  /\ wallet' = [wallet EXCEPT ![u].base = @ - base, ![u].quote = @ - quote]
  /\ vault' = [base |-> vault.base + base, quote |-> vault.quote + quote]
  /\ market' = [market EXCEPT !.base_deposit_total = @ + base,
                              !.quote_deposit_total = @ + quote]
  /\ UNCHANGED <<leaves, bump, heap, delegated, now, oracle>>

\* settle_funds and settle_funds_expired pay out the free balances.  Maker fees
\* that rounding left behind go to the market or to the referrer.
SettleFunds(u, referrer) ==
  LET a == oo[u]
      roundoff == IF MakerFee > 0 /\ a.bids_base_lots = 0 THEN a.locked_maker_fees ELSE 0
      toReferrer == IF referrer THEN roundoff ELSE 0
  IN  /\ ~market.closed
      /\ market.base_deposit_total >= a.base_free_native
      /\ market.quote_deposit_total >= a.quote_free_native + toReferrer
      /\ vault.base >= a.base_free_native /\ vault.quote >= a.quote_free_native
      /\ oo' = [oo EXCEPT ![u].locked_maker_fees = @ - roundoff,
                          ![u].base_free_native = 0, ![u].quote_free_native = 0,
                          ![u].penalty_heap_count = 0]
      /\ market' = [market EXCEPT
                      !.base_deposit_total = @ - a.base_free_native,
                      !.quote_deposit_total = @ - a.quote_free_native - toReferrer,
                      !.fees_available = @ + roundoff - toReferrer]
      /\ wallet' = [wallet EXCEPT ![u].base = @ + a.base_free_native,
                                  ![u].quote = @ + a.quote_free_native]
      /\ vault' = [base |-> vault.base - a.base_free_native,
                   quote |-> vault.quote - a.quote_free_native]
      /\ UNCHANGED <<leaves, bump, heap, delegated, now, oracle>>

-----------------------------------------------------------------------------
(* The life of an open orders account.  Closing it does not involve the    *)
(* market; a new one starts with nothing.                                  *)

CloseOpenOrdersAccount(u) ==
  /\ MayClose /\ oo[u].open
  /\ PositionIsEmpty(oo[u])
  /\ oo' = [oo EXCEPT ![u] = [NewAccount EXCEPT !.open = FALSE]]
  /\ UNCHANGED <<leaves, bump, heap, market, wallet, delegated, vault, now, oracle>>

CreateOpenOrdersAccount(u) ==
  /\ ~oo[u].open /\ ~market.closed
  /\ oo' = [oo EXCEPT ![u] = NewAccount]
  /\ UNCHANGED <<leaves, bump, heap, market, wallet, delegated, vault, now, oracle>>

-----------------------------------------------------------------------------
(* The market's admins, the clock and the oracle.                          *)

SweepFees ==
  /\ ~market.closed
  /\ market.quote_deposit_total >= market.fees_available
  /\ vault.quote >= market.fees_available
  /\ market' = [market EXCEPT !.fees_available = 0,
                              !.quote_deposit_total = @ - market.fees_available]
  /\ vault' = [vault EXCEPT !.quote = @ - market.fees_available]
  /\ UNCHANGED <<leaves, bump, oo, heap, wallet, delegated, now, oracle>>

SetMarketExpired ==
  /\ MayExpire /\ ~market.closed /\ ~MarketExpired
  /\ market' = [market EXCEPT !.time_expiry = -1]
  /\ UNCHANGED <<leaves, bump, oo, heap, wallet, delegated, vault, now, oracle>>

CloseMarket ==
  /\ ~market.closed /\ MarketExpired
  /\ market.base_deposit_total = 0 /\ market.quote_deposit_total = 0
  /\ market.fees_available = 0
  /\ leaves = {} /\ HeapLen(heap) = 0
  /\ market' = [market EXCEPT !.closed = TRUE]
  /\ UNCHANGED <<leaves, bump, oo, heap, wallet, delegated, vault, now, oracle>>

Tick ==
  /\ now < MaxTime
  /\ now' = now + 1
  /\ UNCHANGED <<leaves, bump, oo, heap, market, wallet, delegated, vault, oracle>>

OracleMoves ==
  /\ \E price \in Oracles \ {oracle} : oracle' = price
  /\ UNCHANGED <<leaves, bump, oo, heap, market, wallet, delegated, vault, now>>

-----------------------------------------------------------------------------
WithAccount(u) ==
  \/ \E order \in Orders, remaining \in RemainingSets : PlaceOrder(u, order, remaining)
  \/ \E slot \in OrderSlot, expected \in EditSizes, order \in Orders, remaining \in RemainingSets :
       EditOrder(u, slot, expected, order, remaining)
  \/ \E batch \in Batches, remaining \in RemainingSets : CancelAndPlaceOrders(u, batch, remaining)
  \/ \E slot \in OrderSlot : CancelOneOrder(u, slot)
  \/ \E sides \in {{"Bid"}, {"Ask"}, Side}, limit \in CancelLimits : CancelAll(u, sides, limit)
  \/ \E limit \in CancelLimits : PruneOrders(u, limit)
  \/ \E amount \in Deposits : Deposit(u, amount.base, amount.quote)
  \/ \E referrer \in Referrers : SettleFunds(u, referrer)

Trade(u) ==
  \/ oo[u].open /\ WithAccount(u)
  \/ \E order \in TakeOrders, remaining \in RemainingSets, referrer \in Referrers :
       PlaceTakeOrder(u, order, remaining, referrer)
  \/ CloseOpenOrdersAccount(u)
  \/ CreateOpenOrdersAccount(u)

Finalize(slot) ==
  \/ FinalizeMatch(slot)
  \/ FinalizeMatchDirect(slot)
  \/ FinalizeMarket(slot)
  \/ FinalizeOut(slot)
  \/ \E side \in Side : CancelWithPenalty(slot, side)

Administer == SweepFees \/ SetMarketExpired \/ CloseMarket

Next ==
  \/ \E u \in Users : Trade(u)
  \/ \E slot \in HeapSlot : Finalize(slot)
  \/ Administer
  \/ Tick
  \/ OracleMoves

Spec == Init /\ [][Next]_vars

\* Anyone may finalize a match, and crank bots that scan the heap retry each slot
\* for as long as it holds an event.
Fairness ==
  \A slot \in HeapSlot : /\ WF_vars(FinalizeMatch(slot))
                        /\ WF_vars(FinalizeMarket(slot))
                        /\ WF_vars(FinalizeOut(slot))
FairSpec == Spec /\ Fairness

-----------------------------------------------------------------------------
(* Properties.                                                             *)

LeafType ==
  [side : Side, tree : Tree, seq : 1..MaxOrders, data : Int, owner : Users,
   owner_slot : OrderSlot, qty : Nat \ {0}, ts : 1..MaxTime, tif : Nat,
   peg_limit : Nat \cup {NoPeg}]
EventType ==
  [type : {"Fill", "FillDirect"}, taker_side : Side, maker : Users, taker : Users,
   by_account : BOOLEAN, price : Nat \ {0}, qty : Nat \ {0}, ts : 1..MaxTime]
    \cup [type : {"Out"}, side : Side, owner : Users, slot : OrderSlot, qty : Nat \ {0}]
AccountType ==
  [open : BOOLEAN,
   open_orders : [OrderSlot -> [is_free : BOOLEAN, id : 0..MaxOrders, side : Side,
                                tree : Tree, locked_price : Nat]],
   bids_base_lots : Int, bids_quote_lots : Int, asks_base_lots : Int,
   base_free_native : Nat, quote_free_native : Nat, locked_maker_fees : Nat,
   penalty_heap_count : Nat, total_approved_base : Nat, total_approved_quote : Nat]
Balance == [base : Nat, quote : Nat]

ASSUME EventAssumption == NoEvent \notin EventType

(* The values of the state: no order of size zero rests on the book, no    *)
(* event of size zero is pending, no unsigned field or token account is    *)
(* below zero, and the heap's free slots are those that hold no event.     *)
TypeOK ==
  /\ leaves \subseteq LeafType
  /\ bump \in [Side -> 0..MaxNodes]
  /\ oo \in [Users -> AccountType]
  /\ heap.event \in [HeapSlot -> EventType \cup {NoEvent}]
  /\ heap.free \in Seq(HeapSlot)
  /\ Cardinality({s \in HeapSlot : heap.event[s] = NoEvent}) = Len(heap.free)
  /\ market \in [seq_num : 0..MaxOrders, base_deposit_total : Nat, quote_deposit_total : Nat,
                 fees_available : Nat, time_expiry : {-1, 0}, closed : BOOLEAN]
  /\ wallet \in [Users -> Balance] /\ delegated \in [Users -> Balance] /\ vault \in Balance
  /\ now \in 1..MaxTime
  /\ oracle \in Oracles

(* Every resting order is held by the slot of its owner's account that it  *)
(* names, and the slot by no other order: an account that cancels, expires *)
(* or is evicted frees the slot of the order that left the book, although  *)
(* the slot is chosen once for the book and again for the account.         *)
LeafHasSlot ==
  \A l \in leaves :
    LET o == oo[l.owner].open_orders[l.owner_slot]
    IN  /\ ~o.is_free /\ o.id = l.seq /\ o.side = l.side /\ o.tree = l.tree
        /\ l.side = "Bid" => o.locked_price >= 1

SumOver(S, Value(_)) == SumFunctionOnSet([x \in S |-> Value(x)], S)
RestingOf(u, side) == {l \in leaves : l.owner = u /\ l.side = side}
EventSlots(type) == {s \in HeapSlot : heap.event[s] # NoEvent /\ heap.event[s].type = type}
LockedAt(l) == oo[l.owner].open_orders[l.owner_slot].locked_price

\* The pending matches that the account of u has to deliver base, or quote, for:
\* the taker of a market order has paid already.
SalesOf(u) == {s \in EventSlots("Fill") : Seller(heap.event[s]) = u}
  \cup {s \in EventSlots("FillDirect") : heap.event[s].maker = u /\ heap.event[s].taker_side = "Bid"}
PurchasesOf(u) == {s \in EventSlots("Fill") : Buyer(heap.event[s]) = u}
  \cup {s \in EventSlots("FillDirect") : heap.event[s].maker = u /\ heap.event[s].taker_side = "Ask"}
SoldLots(u) == SumOver(SalesOf(u), LAMBDA s : heap.event[s].qty)
BoughtLots(u) == SumOver(PurchasesOf(u), LAMBDA s : heap.event[s].qty * heap.event[s].price)

(* The lots an account holds a margin for cover everything it still has to *)
(* deliver, on the book and in the event heap, so that no finalization     *)
(* fails with MissingMargin, whatever is matched, cancelled and finalized  *)
(* in between by those who pass the maker's own account: the lots of       *)
(* another one would be gone for a match that is not its own.              *)
MarginCovers ==
  \A u \in Users :
    /\ oo[u].asks_base_lots >= SoldLots(u) + SumOver(RestingOf(u, "Ask"), LAMBDA l : l.qty)
    /\ oo[u].bids_quote_lots >=
         BoughtLots(u) + SumOver(RestingOf(u, "Bid"), LAMBDA l : l.qty * LockedAt(l))

(* An account holds back the maker fee of each of its resting bids, so     *)
(* that a cancellation or an expiry, which gives the fee of what is left   *)
(* of the order back, rounded up, never runs short.                        *)
FeesCoverBids ==
  \A u \in Users :
    oo[u].locked_maker_fees >=
      SumOver(RestingOf(u, "Bid"), LAMBDA l : LockedFee(l.qty, LockedAt(l)))

(* What the market owes, the free balances, the fees locked and collected, *)
(* and what the orders on the book and the pending matches will bring to   *)
(* free balances, is covered by the totals it has booked as deposited: no  *)
(* settle_funds or sweep_fees ever underflows them, and a market whose     *)
(* totals are zero owes nothing to anyone when it is closed.               *)
TotalsCover ==
  LET fills == EventSlots("Fill")
  IN  /\ market.base_deposit_total >=
           SumOver(Users, LAMBDA u : oo[u].base_free_native)
           + SumOver(fills, LAMBDA s : BaseAmount(heap.event[s]))
           + SumOver(OfSide(leaves, "Ask"), LAMBDA l : l.qty * BaseLotSize)
      /\ market.quote_deposit_total >=
           SumOver(Users, LAMBDA u : oo[u].quote_free_native + oo[u].locked_maker_fees)
           + market.fees_available
           + SumOver(fills, LAMBDA s : QuoteAmount(heap.event[s]))
           + SumOver(OfSide(leaves, "Bid"), LAMBDA l : LockedQuote(l.qty, LockedAt(l)))

(* An account is closed only when nothing refers to it: no order on the    *)
(* book and no event names it, as the maker or as the account that took.   *)
(* Its lots are what tells, so this too asks for the maker's own account.  *)
Named(ev) == IF ev.type = "Out" THEN {ev.owner}
             ELSE {ev.maker} \cup IF ev.by_account THEN {ev.taker} ELSE {}
NoOrphans ==
  \A u \in Users : ~oo[u].open =>
    /\ \A l \in leaves : l.owner # u
    /\ \A s \in HeapSlot : heap.event[s] # NoEvent => u \notin Named(heap.event[s])

(* However many orders come in one call, each cut down to what is left of  *)
(* the wallet and the free balance, the wallet can pay for all of them.    *)
BatchIsPaid ==
  \A u \in Users, batch \in Batches : \A c \in {PlaceBatch(u, batch, {})} :
    oo[u].open /\ c.b.ok =>
      wallet[u].base >= ToDeposit(c, u, "base") /\ wallet[u].quote >= ToDeposit(c, u, "quote")

(* The fee of a taker, rounded once, pays for the rebates of all the        *)
(* makers it matches, each rounded on its own, so that no order underflows *)
(* the unsigned amount left for the referrer.                              *)
RebatesCovered ==
  \A u \in Users, order \in Orders :
    LET m == Match(Book, order, MaxQuote(order), u, {u},
                   OrderPrice(leaves, order, now, oracle), {u}, now, oracle)
    IN  TakerFeesCeil((MaxQuote(order) - m.quote - m.decremented) * QuoteLotSize) >= m.rebates

(* No two orders that could trade with each other both rest on the book.   *)
NotCrossed ==
  \A bid \in OfSide(leaves, "Bid"), ask \in OfSide(leaves, "Ask") :
    IsValidNow(bid, now, oracle) /\ IsValidNow(ask, now, oracle)
      => PriceNow(oracle, bid) < PriceNow(oracle, ask)

\* What an order lost in a step.
QtyNext(l) ==
  SumOver({m \in leaves' : m.seq = l.seq}, LAMBDA m : m.qty)
Hit(l) == QtyNext(l) < l.qty
NewFills ==
  {s \in HeapSlot : /\ heap.event[s] = NoEvent /\ heap'.event[s] # NoEvent
                    /\ heap'.event[s].type \in {"Fill", "FillDirect"}}

(* Price-time priority: an instruction that matches an order has also      *)
(* matched, or removed, every order that was ahead of it, and left none of *)
(* those with more than a remainder.                                       *)
PriceTimePriority ==
  [][\A l, m \in leaves :
       /\ NewFills # {} /\ l.side = m.side /\ Hit(l)
       /\ IsValidNow(m, now, oracle)
       /\ Ahead(l.side, PriceNow(oracle, m), m.seq, PriceNow(oracle, l), l.seq)
       => Hit(m)]_vars

(* What a maker offered is never lost on the way to the heap: while an     *)
(* account is not touched and no event is deleted, what its orders on a    *)
(* side lose is what the new events of that step carry for it.             *)
EventQty(h, u, side) ==
  SumOver({s \in HeapSlot :
             LET ev == h.event[s]
             IN  /\ ev # NoEvent
                 /\ IF ev.type = "Out" THEN ev.owner = u /\ ev.side = side
                    ELSE ev.maker = u /\ ev.taker_side # side},
          LAMBDA s : h.event[s].qty)
NothingLost ==
  [][\A u \in Users, side \in Side :
       /\ oo'[u] = oo[u]
       /\ HeapLen(heap') >= HeapLen(heap)
       => SumOver(RestingOf(u, side), LAMBDA l : l.qty) + EventQty(heap, u, side)
            = SumOver({l \in leaves' : l.owner = u /\ l.side = side}, LAMBDA l : l.qty)
                + EventQty(heap', u, side)]_vars

(* A match takes from the book what it gives to the taker: every new fill  *)
(* is backed by an order of that maker, on the other side, that lost the   *)
(* quantity, and that could trade at that price at that moment: not        *)
(* expired, priced by the oracle of that moment, within its peg limit.     *)
FillsAreFair ==
  [][\A s \in NewFills :
       LET ev == heap'.event[s]
       IN  \E l \in leaves :
             /\ l.owner = ev.maker /\ l.side # ev.taker_side
             /\ IsValidNow(l, now, oracle) /\ PriceNow(oracle, l) = ev.price
             /\ QtyNext(l) + ev.qty = l.qty]_vars

(* Nobody's order can be pushed off the book by someone else's without     *)
(* cause: either it could not trade any more, or it was the last of a side *)
(* that had no room, and the order that took its place is at a better      *)
(* price and did not leave a worse one behind.                             *)
PlacedBy(u) ==
  \E slot \in OrderSlot : /\ oo'[u].open_orders[slot].id = market'.seq_num
                         /\ market'.seq_num # market.seq_num
Traded(l) == \E s \in NewFills : heap'.event[s].maker = l.owner
FairEviction ==
  [][\A u \in Users, l \in leaves :
       /\ PlacedBy(u) /\ l.owner # u /\ ~Traded(l) /\ Hit(l)
       => \/ ~IsValidNow(l, now, oracle)
          \/ \E new \in leaves' :
               /\ new.seq = market'.seq_num /\ new.side = l.side
               /\ IsPriceBetter(l.side, PriceNow(oracle, new), PriceNow(oracle, l))
               /\ \A m \in leaves' \ {new} :
                    m.side = l.side =>
                      Ahead(l.side, PriceNow(oracle, m), m.seq, PriceNow(oracle, l), l.seq)]_vars

(* What a match still needs from a wallet has been approved: place_order   *)
(* replaces the allowance each time, and every finalization eats into it,  *)
(* but it always covers the matches still pending and the orders that may  *)
(* yet be matched, so that no finalization fails for want of an allowance, *)
(* if each takes from the allowance of the party that has to pay.          *)
DelegationCovers ==
  \A u \in Users :
    /\ delegated[u].base >=
         SumOver(SalesOf(u), LAMBDA s : AfterMargin(BaseAmount(heap.event[s])))
         + SumOver(RestingOf(u, "Ask"), LAMBDA l : AfterMargin(l.qty * BaseLotSize))
    /\ delegated[u].quote >=
         SumOver(PurchasesOf(u), LAMBDA s : AfterMargin(QuoteAmount(heap.event[s])))
         + SumOver(RestingOf(u, "Bid"), LAMBDA l : AfterMargin(LockedQuote(l.qty, LockedAt(l))))

(* No instruction makes or loses tokens: what leaves the wallets enters a  *)
(* vault, and the other way round, and only the fees that are swept leave  *)
(* the market.                                                             *)
Tokens(token) == SumOver(Users, LAMBDA u : wallet[u][token]) + vault[token]
TokensConserved ==
  [][/\ Tokens("base")' = Tokens("base")
     /\ \/ Tokens("quote")' = Tokens("quote")
        \/ /\ market'.fees_available = 0
           /\ Tokens("quote")' = Tokens("quote") - market.fees_available]_vars

(* Every event is settled in the end, whatever comes after it: no match    *)
(* stays in the heap for ever while both parties can pay.                  *)
EventsDrain ==
  \A s \in HeapSlot : heap.event[s] # NoEvent ~> heap.event[s] = NoEvent

-----------------------------------------------------------------------------
(* What the repository says of the program and the program does not do.    *)

(* book.rs:620-622: an order that is not on the book was filled or expired *)
(* already, "There will be an event on the heap, the perp order slot is    *)
(* freed once it is processed."  So an account with nothing on the book    *)
(* and nothing in the heap has all its slots.                              *)
Involved(u) ==
  \E s \in HeapSlot : LET ev == heap.event[s]
                      IN  /\ ev # NoEvent
                          /\ u \in IF ev.type = "Out" THEN {ev.owner} ELSE {ev.maker, ev.taker}
SlotsFreed ==
  \A u \in Users :
    (\A l \in leaves : l.owner # u) /\ ~Involved(u) => FreeSlots(oo[u]) = OrderSlot

(* lib.rs:407-410: an OutEvent "is handled by crediting whatever the maker *)
(* would have sold (quote token in a bid, base token in an ask) back to    *)
(* the maker."                                                             *)
OutEventCredits ==
  [][\A s \in HeapSlot :
       LET ev == heap.event[s]
       IN  ev # NoEvent /\ ev.type = "Out" /\ heap'.event[s] = NoEvent
             => IF ev.side = "Bid"
                THEN oo'[ev.owner].quote_free_native > oo[ev.owner].quote_free_native
                ELSE oo'[ev.owner].base_free_native > oo[ev.owner].base_free_native]_vars

(* book.rs:404-405: "for oracle peg orders & bids take the peg_limit as     *)
(* it's the upper price limitation".  So a bid that takes pays at most the  *)
(* price that its account has locked for it, whatever the oracle says.     *)
LimitIsUpperPrice ==
  [][\A s \in NewFills :
       LET ev == heap'.event[s]
       IN  ev.taker_side = "Bid" /\ ev.by_account =>
             \E slot \in OrderSlot :
               LET o == oo'[ev.taker].open_orders[slot]
               IN  o.id = market'.seq_num /\ o.locked_price >= ev.price]_vars

(* bookside_iterator.rs:19-20: the iterator "will skip over orders that    *)
(* are not currently matchable, but might be valid in the future."  So it  *)
(* does not skip an order that is matchable now.                           *)
NoneSkipped ==
  \A side \in Side :
    LET items == Iter(leaves, side, now, oracle)
    IN  \A l \in OfSide(leaves, side) :
          IsValidNow(l, now, oracle) => \E i \in DOMAIN items : items[i].leaf = l
=============================================================================

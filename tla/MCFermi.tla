-------------------------------- MODULE MCFermi --------------------------------
(***************************************************************************)
(* Inputs and initial balances for the runs of Fermi.  Each run asks one   *)
(* question of the market and is given the orders that make its cases      *)
(* happen; the README says why they are enough.                            *)
(***************************************************************************)
EXTENDS Fermi

\* An order whose quote limit does not bind.
Order(side, type, price, base) ==
  [side |-> side, type |-> type, pegged |-> FALSE, price |-> price, peg_limit |-> NoPeg,
   base |-> base, quote |-> 20, expiry |-> 0, self_trade |-> "DecrementTake", limit |-> 3]
Limit(side, price, base) == Order(side, "Limit", price, base)
Until(order, expiry) == [order EXCEPT !.expiry = expiry]
\* Fails where it would trade with its own account.
NoSelfTrade(order) == [order EXCEPT !.self_trade = "AbortTransaction"]
Pegged(side, offset, pegLimit, base) ==
  [Limit(side, offset, base) EXCEPT !.pegged = TRUE, !.peg_limit = pegLimit]

Rich == [u \in Users |-> [base |-> 2000, quote |-> 4000]]
Modest == [u \in Users |-> [base |-> 250, quote |-> 450]]
Own == [u \in Users |-> {u}]
Anyone == [u \in Users |-> Users]
Nobody == {}
Alone == {{}}
AnyoneOrNoOne == {{}, Users}

\* matching: each kind of order, one that stops after one match, and self-trades
\* that cancel the resting order.
MatchOrders ==
  {Limit("Bid", 2, 2), Limit("Ask", 1, 1), [Limit("Ask", 2, 3) EXCEPT !.limit = 1],
   [Limit("Bid", 3, 1) EXCEPT !.self_trade = "CancelProvide"],
   Order("Bid", "PostOnlySlide", 3, 1), Order("Ask", "PostOnly", 2, 1),
   Order("Ask", "ImmediateOrCancel", 1, 2)}
\* Of two lots, the least of which atomic_finalize_market takes a whole lot of base.
MatchTakeOrders == {Order("Bid", "Market", 0, 2), Order("Ask", "ImmediateOrCancel", 2, 1)}

\* expiry: orders that expire at 2 or never, on sides with room for two leaves.
ExpiryOrders ==
  {Limit("Ask", 2, 2), Until(Limit("Ask", 2, 1), 2), Limit("Ask", 1, 1),
   Until(Limit("Bid", 2, 1), 3)}

\* pegged: the oracle is at 1 or 4, or gone; no bid is placed above its peg limit.
PeggedOrders ==
  {NoSelfTrade(order) :
     order \in {Pegged("Ask", 1, 3, 1), Pegged("Ask", -3, 1, 1), Limit("Ask", 4, 1),
                Pegged("Bid", 1, 5, 2), Limit("Bid", 5, 2)}}
OracleValues == {1, 4, NoOracle}
Rebate == -2500
\* peg_limit: a bid that is placed above its peg limit when the oracle is at 4.
PegLimitOrders ==
  {NoSelfTrade(order) : order \in {Pegged("Bid", 1, 4, 2), Limit("Ask", 5, 1)}}
\* iterator: when the oracle is at 1, a pegged ask without a price is ahead of one
\* that is valid.
SkipOrders == {Pegged("Ask", 1, 2, 1), Pegged("Ask", -3, 1, 1), Limit("Ask", 4, 1)}

\* settlement: matches of every kind, and balances that pay for part of them.
SettleOrders == {Limit("Bid", 2, 2), Limit("Ask", 1, 1)}
SettleTakeOrders == {Order("Bid", "Market", 0, 1), Order("Ask", "ImmediateOrCancel", 2, 1)}
SomeDeposit == {[base |-> 120, quote |-> 230]}
\* One call that cancels an order and places two, more than a wallet can pay for.
SettleBatches ==
  {[cancel |-> {1}, orders |-> <<Limit("Ask", 1, 1), Limit("Bid", 1, 2)>>],
   [cancel |-> {}, orders |-> <<Limit("Bid", 2, 1), Limit("Bid", 3, 1)>>]}

\* slots: both accounts on both sides; self_trade: an order may trade with its own
\* account.
SimpleOrders == {NoSelfTrade(Limit("Bid", 2, 1)), NoSelfTrade(Limit("Ask", 1, 2))}
SelfTradeOrders == {Limit("Bid", 2, 1), Limit("Ask", 1, 2)}
================================================================================

------------------------------ MODULE MarketFees ------------------------------
(***************************************************************************)
(* state/market.rs: the parameters of a market that never change after     *)
(* create_market, and the conversions between lots and native amounts.     *)
(* Fees are in parts per FEES_SCALE_FACTOR; a negative maker fee is a      *)
(* rebate.                                                                 *)
(***************************************************************************)
EXTENDS Integers

CONSTANTS BaseLotSize, QuoteLotSize, MakerFee, TakerFee,
          FeesScaleFactor, \* FEES_SCALE_FACTOR = 1_000_000
          MaxI64           \* i64::MAX; any number too large to arise from honest amounts

ASSUME MarketAssumption ==
  /\ BaseLotSize \in Nat \ {0} /\ QuoteLotSize \in Nat \ {0}
  /\ FeesScaleFactor \in Nat \ {0}
  /\ MakerFee \in Int /\ TakerFee \in Nat
  /\ MakerFee <= FeesScaleFactor /\ TakerFee <= FeesScaleFactor
  /\ -MakerFee <= TakerFee
  /\ MaxI64 \in Nat \ {0}

Side == {"Bid", "Ask"}
InvertSide(side) == IF side = "Bid" THEN "Ask" ELSE "Bid"
IsPriceBetter(side, lhs, rhs) == IF side = "Bid" THEN lhs > rhs ELSE lhs < rhs
StrictlyWithinLimit(side, price, limit) == \* mutant: an order at the limit does not match
  IF side = "Bid" THEN price < limit ELSE price > limit
IsPriceWithinLimit(side, price, limit) ==
  IF side = "Bid" THEN price <= limit ELSE price >= limit

MaxBaseLots == MaxI64 \div BaseLotSize
MaxQuoteLots == MaxI64 \div QuoteLotSize

\* Rounding: what a payer owes rounds up, what the market pays back rounds down.
CeilFeeDivision(numerator) == (numerator + FeesScaleFactor - 1) \div FeesScaleFactor
SubtractTakerFees(quote) == (quote * FeesScaleFactor) \div (FeesScaleFactor + TakerFee)
TakerFeesCeil(amount) == CeilFeeDivision(amount * TakerFee)
MakerFeesCeil(amount) == IF MakerFee > 0 THEN CeilFeeDivision(amount * MakerFee) ELSE 0
MakerRebateCeil(amount) == \* mutant: rounds the rebate up
  IF MakerFee > 0 THEN 0 ELSE CeilFeeDivision(amount * (-MakerFee))
MakerRebateFloor(amount) ==
  IF MakerFee > 0 THEN 0 ELSE (amount * (-MakerFee)) \div FeesScaleFactor
=============================================================================

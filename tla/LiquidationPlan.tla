--------------------------- MODULE LiquidationPlan ---------------------------
(***************************************************************************)
(* simulator/simulate.ts: from a candidate, its prices and the routes to a     *)
(* plan, to null or to a thrown error.  Token amounts are whole units, prices whole       *)
(* dollars per unit, and where the code takes a floor of a floating-point       *)
(* figure the exact floor is taken.                                          *)
(***************************************************************************)
EXTENDS RouteOptions

CONSTANTS NoOffer

ASSUME PlanAssumption == NoOffer \notin [expiry : Int, incentiveBps : Int, closeFactorBps : Int]

HealthFactorError == "HealthFactorNotBelowThreshold"

applyBps(amount, bps) == (amount * bps) \div 10000
ceilDiv(numerator, denominator) == (numerator + denominator - 1) \div denominator
-----------------------------------------------------------------------------
(* Gas. *)

\* The price of gas: the 1559 maximum, else the legacy price, else asked for.
weiPerGas(fees) ==
  IF fees.maxFeePerGas > 0 THEN fees.maxFeePerGas ELSE IF fees.gasPrice > 0 THEN fees.gasPrice ELSE fees.asked

\* The rollup's own fee; an oracle that fails counts as free.
estimateL1Fee(chainKind, oracle) ==
  IF chainKind \notin {"op-stack", "arbitrum"} \/ oracle = Failure THEN 0 ELSE oracle

\* estimateGas: null for a borrower that is healthy to the contract, a rejection for
\* any other revert, a thrown error where the call did not come back.
estimateGas(call, fees, chainKind, l1Oracle) ==
  CASE call.says = HealthFactorError -> [kind |-> "null"]
    [] call.says = "revert" -> [kind |-> "rejected"]
    [] call.says = "no-answer" -> [kind |-> "thrown"]
    [] call.says = "units" ->
         [kind |-> "gas", eth |-> call.units * weiPerGas(fees) + estimateL1Fee(chainKind, l1Oracle)]

-----------------------------------------------------------------------------
(* Amounts. *)

\* A pre-liquidation offer is taken for Morpho only, unexpired, from 1.5 % incentive,
\* with a close factor of at most one; otherwise the standard terms stay.
usePreliq(input) ==
  /\ input.preliq # NoOffer /\ input.protocol = "morphoblue"
  /\ input.preliq.expiry > input.now
  /\ input.preliq.incentiveBps >= 150
  /\ input.preliq.closeFactorBps > 0 /\ input.preliq.closeFactorBps <= 10000

closeFactorBps(input) == IF usePreliq(input) THEN input.preliq.closeFactorBps ELSE input.closeFactorBps
bonusBps(input) == IF usePreliq(input) THEN input.preliq.incentiveBps ELSE input.bonusBps

repayAmount(input) ==
  LET share == applyBps(input.debt, closeFactorBps(input))
      cap == input.maxRepayUsd \div input.debtPrice
  IN IF input.maxRepayUsd > 0 /\ share * input.debtPrice > input.maxRepayUsd /\ cap < share THEN cap ELSE share

\* Mutant of seizeAmount: not capped by what the borrower has.
seizeUncapped(input) ==
  (repayAmount(input) * input.debtPrice * (10000 + bonusBps(input))) \div (10000 * input.collPrice)

seizeAmount(input) ==
  LET raw == (repayAmount(input) * input.debtPrice * (10000 + bonusBps(input))) \div (10000 * input.collPrice)
  IN IF raw > input.collateral THEN input.collateral ELSE raw

minProfit(input) ==
  IF input.floorBps > 0 THEN ceilDiv(repayAmount(input) * input.floorBps, 10000) ELSE 0

\* Morpho counts in shares: rounded up, and never more than the borrower owes.
repayShares(input) ==
  LET shares == ceilDiv(repayAmount(input) * input.borrowShares, input.debt)
  IN IF shares > input.borrowShares THEN input.borrowShares ELSE shares
-----------------------------------------------------------------------------
(* The plan. *)

\* nativePrice: the debt token's price stands in for an unknown ether price.
nativePrice(input) == IF input.nativePriceUsd > 0 THEN input.nativePriceUsd ELSE input.debtPrice

\* What a route is worth: its guaranteed output less the repayment and the gas.
netUsd(input, route, gasUsd) ==
  route.amountOutMin * input.debtPrice - repayAmount(input) * input.debtPrice - gasUsd

Passes(input, route, gasUsd) ==
  /\ gasUsd <= input.gasCapUsd
  /\ netUsd(input, route, gasUsd) * 10000 >= input.floorBps * repayAmount(input) * input.debtPrice

\* The early returns in front of the routes.
Hopeless(input, quotes) ==
  \/ input.debtPrice <= 0 \/ input.collPrice <= 0
  \/ closeFactorBps(input) <= 0
  \/ repayAmount(input) = 0
  \/ seizeAmount(input) = 0
  \/ minProfit(input) = 0
  \/ DOMAIN quotes = {}
  \/ input.protocol = "morphoblue" /\ (input.borrowShares <= 0 \/ input.debt <= 0)

\* Routes are judged in order; one whose gas cannot be estimated for want of an
\* answer ends it all, a revert only the route.  The first of the best is planned.
simulate(input, quotes, gasOf) ==
  LET gas == [i \in DOMAIN quotes |-> gasOf[quotes[i].option]]
      usd(i) == gas[i].eth * nativePrice(input)
      good == {i \in DOMAIN quotes : gas[i].kind = "gas" /\ Passes(input, quotes[i], usd(i))}
      worth(i) == netUsd(input, quotes[i], usd(i))
      best == CHOOSE i \in good : \A j \in good : worth(j) < worth(i) \/ (worth(j) = worth(i) /\ i <= j)
  IN IF Hopeless(input, quotes) THEN [outcome |-> "null"]
     ELSE IF \E i \in DOMAIN quotes : gas[i].kind = "thrown" THEN [outcome |-> "thrown"]
     ELSE IF good = {} THEN [outcome |-> "null"]
     ELSE [outcome |-> "plan", protocol |-> input.protocol, repayAmount |-> repayAmount(input), seizeAmount |-> seizeAmount(input),
           option |-> quotes[best].option, amountOutMin |-> quotes[best].amountOutMin,
           gasUsd |-> usd(best), netUsd |-> worth(best), minProfit |-> minProfit(input),
           repayShares |-> IF input.protocol = "morphoblue" THEN repayShares(input) ELSE 0,
           preliq |-> usePreliq(input)]
-----------------------------------------------------------------------------
(* executor/build_tx.ts: the call a plan becomes; Morpho's contract has its own.     *)

encodePlan(plan, mode, late) ==
  [contract |-> IF plan.protocol = "morphoblue" THEN "MorphoBlueLiquidator" ELSE "Liquidator",
   function |-> IF mode = "funds" THEN "liquidateWithFunds" ELSE "liquidateWithFlash",
   repayAmount |-> plan.repayAmount, repayShares |-> plan.repayShares, dexId |-> plan.option.type,
   router |-> plan.option.router, minProfit |-> plan.minProfit, amountOutMin |-> plan.amountOutMin,
   pathShort |-> FALSE, late |-> late]
=============================================================================

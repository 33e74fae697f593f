-------------------------------- MODULE Scores --------------------------------
(***************************************************************************)
(* Which candidates are worth a liquidation: pipeline/scorer.ts and           *)
(* pipeline/preliq_scorer.ts, the thresholds of infra/adaptive_thresholds.ts   *)
(* that the first one bends, and the adapters of protocols/ it asks for a plan. *)
(*                                                                         *)
(* A reason for rejection is a string; the first of the code's order counts.   *)
(* Health factors are in ten-thousandths, gaps and incentives in basis points. *)
(***************************************************************************)
EXTENDS LiquidationPlan

CONSTANTS Unknown, Accepted

\* The first of the reasons in the order of the gates that holds, or Accepted.
FirstReason(gates, holding) ==
  LET at == {i \in DOMAIN gates : gates[i] \in holding} IN IF at = {} THEN Accepted ELSE gates[Min(at)]

Clamp(value, low, high) == IF value < low THEN low ELSE IF value > high THEN high ELSE value
Larger(a, b) == IF a > b THEN a ELSE b
Smaller(a, b) == IF a < b THEN a ELSE b
Distance(a, b) == IF a > b THEN a - b ELSE b - a
-----------------------------------------------------------------------------
(* Thresholds. *)

Calm == 150
Wild == 500

\* One more gap: both averages move a fifth of the way, and by how wild the gaps have
\* been the base thresholds are bent.
adaptiveUpdate(state, base, observedGapBps) ==
  LET gap == Larger(observedGapBps, 0)
      emaGap == state.emaGap + (gap - state.emaGap) \div 5
      emaVol == state.emaVol + (Distance(gap, state.emaGap) - state.emaVol) \div 5
      hf == base.hfMax
  IN [state |-> [emaGap |-> emaGap, emaVol |-> emaVol],
      hfMax |-> IF emaVol > Wild THEN Clamp(hf - 200, Larger(8000, (hf * 9) \div 10), hf)
                ELSE IF emaVol < Calm THEN Clamp(hf + 100, hf, (hf * 21) \div 20)
                ELSE hf,
      gapCap |-> IF emaVol > Wild THEN Clamp((base.gapCap * 85 + 50) \div 100, 20, base.gapCap)
                 ELSE IF emaVol < Calm THEN Clamp((base.gapCap * 115 + 50) \div 100, 20, base.gapCap + 100)
                 ELSE base.gapCap]

\* The averages that the gaps seen so far leave; a pair begins with its base gap and no
\* variation.
averages(base, gaps) ==
  FoldLeft(LAMBDA state, gap : adaptiveUpdate(state, base, gap).state, [emaGap |-> base.gapCap, emaVol |-> 0], gaps)

\* The thresholds after the last of these gaps.
Thresholds(base, gaps) == adaptiveUpdate(averages(base, Front(gaps)), base, Last(gaps))

\* The risk engine's answer where it gives one, of whatever size; else the local one.
providedThresholds(base, gaps, remote) == IF remote # Failure THEN remote ELSE Thresholds(base, gaps)

\* Mutant of effectiveHfMax: what the thresholds say.
effectiveHfMaxUnbounded(base, adaptive) == adaptive.hfMax

effectiveHfMax(base, adaptive) == Smaller(base.hfMax, adaptive.hfMax)
\* Mutant of effectiveGapCap: what the thresholds say, from twenty.
effectiveGapCapUnbounded(base, adaptive) == Larger(20, adaptive.gapCap)

effectiveGapCap(base, adaptive) == Larger(20, Smaller(adaptive.gapCap, base.gapCap + 200))

\* Pegged pairs may drift further apart.
PEGGED_GAP_CAP_BPS == 120
baseGapCap(policyCap, pegged) == IF pegged THEN Larger(policyCap, PEGGED_GAP_CAP_BPS) ELSE policyCap
-----------------------------------------------------------------------------
(* Prices of a pair, of which ratio (collateral per debt) can stand in for one. *)

inferPrices(prices, ratio) ==
  IF ratio = Unknown \/ (prices.debt = Unknown) = (prices.coll = Unknown) THEN prices
  ELSE IF prices.coll = Unknown THEN [prices EXCEPT !.coll = prices.debt * ratio]
  ELSE [prices EXCEPT !.debt = prices.coll \div ratio]

PricesKnown(prices) == Unknown \notin {prices.debt, prices.coll}

\* The price of ether, else the debt token's.
nativePriceUsd(prices, native) == IF native = Unknown THEN prices.debt ELSE native

\* computeOracleDivergenceBps: rounded; without a reference there is no divergence.
divergenceBps(reference, prices) ==
  IF reference = Unknown THEN 0
  ELSE LET off == Distance(prices.coll, reference * prices.debt)
       IN (2 * 10000 * off + reference * prices.debt) \div (2 * reference * prices.debt)
-----------------------------------------------------------------------------
(* The scorer. *)

Adapters == {"aavev3", "radiant", "morphoblue", "compoundv3", "exactly", "ionic", "silo", "seamless"}

\* What adapter.simulate brings back; a thrown error is caught as no plan.
adapterSimulate(protocol, plan) ==
  IF protocol \in {"compoundv3", "exactly", "ionic", "silo"} \/ plan = Failure THEN Failure ELSE plan

ScoreGates ==
  <<"protocol-adapter-missing", "chain-disabled", "policy-missing", "asset-denylist", "token-metadata-missing",
    "market-disabled", "missing-liquidator-address", "missing-beneficiary", "missing-executor-or-pk",
    "price-missing", "routing-unavailable", "health-factor-above-max", "gap-exceeds-cap", "plan-null",
    "net-below-min", "pnl-mult-below-min">>

\* plan is [netUsd, gasUsd] or Failure.  A health factor that is not known passes.
score(item) ==
  LET prices == inferPrices(item.prices, item.dexRatio)
      base == [hfMax |-> item.hfMax, gapCap |-> baseGapCap(item.policyCap, item.pegged)]
      adaptive == providedThresholds(base, item.gaps, item.remote)
      plan == adapterSimulate(item.protocol, item.plan)
      worth(p) == {r \in {"net-below-min", "pnl-mult-below-min"} :
                     IF r = "net-below-min" THEN p.netUsd < item.minNetUsd
                     ELSE p.gasUsd > 0 /\ p.netUsd < item.pnlMultMin * p.gasUsd}
      found == item.missing \cup {r \in {"protocol-adapter-missing"} : item.protocol \notin Adapters}
               \cup {r \in {"price-missing"} : ~PricesKnown(prices)}
               \cup {r \in {"health-factor-above-max"} :
                       item.healthFactor # Unknown /\ item.healthFactor >= effectiveHfMax(base, adaptive)}
               \cup {r \in {"gap-exceeds-cap"} : Last(item.gaps) > effectiveGapCap(base, adaptive)}
               \cup (IF plan = Failure THEN {"plan-null"} ELSE worth(plan))
  IN [reason |-> FirstReason(ScoreGates, found), prices |-> prices]
-----------------------------------------------------------------------------
(* The pre-liquidation scorer. *)

PreliqGates ==
  <<"chain-disabled", "preliq-offer-missing", "health-factor-too-low", "health-factor-too-high", "offer-expired",
    "incentive-too-low", "token-metadata-missing", "policy-missing", "market-disabled",
    "missing-liquidator-address", "missing-beneficiary", "missing-executor", "price-missing",
    "routing-unavailable", "plan-null", "profit-too-low", "gas-cost-too-high", "liquidity-score-too-low",
    "oracle-divergence-too-high">>

\* Morpho's own ratio stands in for a price first, the pools' ratio second.
preliqPrices(c) == inferPrices(inferPrices(c.prices, c.oracleRatio), c.dexRatio)

\* A health factor that is not known counts as zero.
preliqHealth(c) == IF c.healthFactor = Unknown THEN 0 ELSE c.healthFactor

\* What it asks the simulator: the market's terms, with the offer beside them.
preliqSimInput(c) ==
  [protocol |-> c.protocol, preliq |-> c.offer, now |-> c.now,
   closeFactorBps |-> 5000, bonusBps |-> 800, debt |-> c.debt, collateral |-> c.collateral,
   debtPrice |-> preliqPrices(c).debt, collPrice |-> preliqPrices(c).coll,
   maxRepayUsd |-> 0, floorBps |-> 30, borrowShares |-> c.borrowShares, gasCapUsd |-> c.gasCapUsd,
   nativePriceUsd |-> nativePriceUsd(preliqPrices(c), Unknown)]

\* simulated is what simulate makes of preliqSimInput(c), asked for only where no
\* earlier gate has refused; the gates behind it judge the plan.
scorePreLiq(c, simulated) ==
  LET prices == preliqPrices(c)
      early == c.missing
               \cup {r \in {"health-factor-too-low"} : preliqHealth(c) <= 10000}
               \cup {r \in {"health-factor-too-high"} : preliqHealth(c) >= 10500}
               \cup {r \in {"offer-expired"} : c.offer.expiry <= c.now}
               \cup {r \in {"incentive-too-low"} : c.offer.incentiveBps < c.minIncentiveBps}
               \cup {r \in {"price-missing"} : ~PricesKnown(prices)}
      plan == IF early # {} THEN Failure ELSE simulated
      late == IF plan = Failure THEN {"plan-null"}
              ELSE {r \in {"profit-too-low"} : plan.netUsd < c.minNetUsd}
                   \cup {r \in {"gas-cost-too-high"} : plan.gasUsd > c.gasCapUsd}
                   \cup {r \in {"liquidity-score-too-low"} : c.liquidityScore < 50}
                   \cup {r \in {"oracle-divergence-too-high"} : divergenceBps(c.oracleRatio, prices) > 200}
  IN [reason |-> FirstReason(PreliqGates, IF early # {} THEN early ELSE late), prices |-> prices, plan |-> plan]

\* No gate's reason is the verdict of a candidate that passed them all.
ASSUME ScoresAssumption ==
  /\ \A i \in DOMAIN ScoreGates : ScoreGates[i] # Accepted
  /\ \A i \in DOMAIN PreliqGates : PreliqGates[i] # Accepted
  /\ Unknown \notin Int
=============================================================================

------------------------ MODULE LiquidationDecisions ------------------------
(***************************************************************************)
(* The liquidation path asked for its routes, for a plan and, through the two   *)
(* scorers, for a verdict.                                                   *)
(***************************************************************************)
EXTENDS Decision, Scores

Token(symbol, class, address) == [symbol |-> symbol, class |-> class, address |-> address]

\* Two names of one dollar address, two stables, ether; W is pegged to E by name.
Entries == {Token("D", "stable", 1), Token("D.e", "stable", 1), Token("S", "stable", 2),
            Token("E", "weth", 3), Token("W", "other", 4)}
TokenLists ==
  LET sets == {s \in SUBSET Entries : Cardinality(s) >= 3}
  IN {SetToSeq(set) : set \in sets} \cup {Reverse(SetToSeq(set)) : set \in sets}

Routers == {"v2", "sushi", "velo"}
ASSUME RoutersAssumption == NoRouter \notin Routers

Dexes == {NoRouter} \cup [uniV3 : {NoRouter, "v3b"}, v2 : {<<>>, <<"v2">>, <<"v2", "v2", "sushi">>},
                          solidly : {<<>>, <<"velo">>}]

AskRoutes ==
  \E tokens \in TokenLists, dex \in Dexes, uniV3Router \in {NoRouter, "v3"} :
    \E debt, coll \in ToSet(tokens) :
      /\ debt.address # coll.address
      /\ LET chain == [tokens |-> tokens, dex |-> dex, uniV3Router |-> uniV3Router]
         IN Decide([about |-> "routes", chain |-> chain, debt |-> debt, coll |-> coll,
                    options |-> buildRouteOptions(chain, debt, coll),
                    fee |-> gapFee(chain, debt, coll),
                    allowed |-> collectRouters(chain, {[debt |-> debt, coll |-> coll]})])

\* Two routes, each with what the quoter answers and what estimating its gas brings.
RouteAnswers == [out : {Failure, 95, 120}, says : {HealthFactorError, "revert", "no-answer", "units"}]
Offers == {NoOffer, [expiry |-> 5, incentiveBps |-> 500, closeFactorBps |-> 10000],
           [expiry |-> 5, incentiveBps |-> 100, closeFactorBps |-> 5000],
           [expiry |-> 1, incentiveBps |-> 500, closeFactorBps |-> 10000]}

\* What a route pays is in proportion to what it is given.
pays(says, given) == IF says.out = Failure THEN Failure ELSE (says.out * given) \div 100

gasSaid(says, units) ==
  estimateGas([says |-> says.says, units |-> units], [maxFeePerGas |-> 0, gasPrice |-> 2, asked |-> 1], "op-stack", Failure)

\* The plan for what the quoter and the gas estimate say of two routes.
AnswerPlan(input, slippageBps, one, two) ==
  LET first == [type |-> "UniV3", router |-> "v3", fee |-> 500]
      second == [type |-> "UniV2", router |-> "v2"]
      out(option) == pays(IF option = first THEN one ELSE two, repayAmount(input))
      quotes == quoteRoutes(<<first, second>>, [o \in {first, second} |-> <<out(o), out(o)>>], {},
                            seizeAmount(input), slippageBps)
      gasOf == [o \in {first, second} |-> IF o = first THEN gasSaid(one, 1) ELSE gasSaid(two, 2)]
  IN /\ one.out = Failure => one.says = "units"
     /\ two.out = Failure => two.says = "units"
     /\ Decide([about |-> "plan", input |-> input, quotes |-> quotes, slippageBps |-> slippageBps,
                plan |-> simulate(input, quotes, gasOf)])

StandardShares == {0, 5000, 10000}

AskPlan ==
  \E debt \in {3, 100}, collPrice \in {1, 3}, collateral \in {20, 200}, closeFactorBpsIn \in StandardShares,
     maxRepayUsd \in {0, 60}, floorBps \in {0, 30}, slippageBps \in {0, 500},
     protocol \in {"aavev3", "morphoblue"}, offer \in Offers, one, two \in RouteAnswers :
    AnswerPlan([debt |-> debt, collateral |-> collateral, debtPrice |-> 1, collPrice |-> collPrice,
                closeFactorBps |-> closeFactorBpsIn, bonusBps |-> 800, maxRepayUsd |-> maxRepayUsd,
                floorBps |-> floorBps, protocol |-> protocol, preliq |-> offer, now |-> 1,
                borrowShares |-> 7, gasCapUsd |-> 4, nativePriceUsd |-> 0], slippageBps, one, two)

RouterAnswers == {"allowed", "unreadable", "refused", "refused-unread", "receipt-lost", "receipt-lost-unread", "sent"}

AskAllow ==
  \E answers \in [1..4 -> RouterAnswers], first \in {5, Failure} :
    Decide([about |-> "allow", answers |-> answers, first |-> first,
            made |-> ensureRoutersAllowed(<<"r1", "r2", "r3", "r4">>, answers, first)])

LiquidationDecides == AskRoutes \/ AskPlan \/ AskAllow
-----------------------------------------------------------------------------
(* What a plan promises. *)

\* No route is quoted twice; a hop never comes back to an address it left; the lowest
\* fee is asked only of dollars and pegged pairs; and every router a plan could name is
\* one the contract was asked to allow.
RoutesSound ==
  About("routes") =>
    LET options == decision.options
    IN /\ IsInjective(options)
       /\ \A i \in DOMAIN options :
            LET option == options[i]
            IN /\ option.router \in decision.allowed \ {NoRouter}
               /\ option.type = "UniV3Multi" =>
                    /\ Cardinality(ToSet(option.path)) = 3 /\ Len(option.fees) = 2
                    /\ Head(option.path) = decision.coll.address /\ Last(option.path) = decision.debt.address
               /\ (option.type = "UniV3" /\ option.fee = 100) => isStablePair(decision.debt, decision.coll)
       /\ decision.fee = 100 <=> isStablePair(decision.debt, decision.coll)

\* A plan repays no more than the share of the debt the protocol lets close, nor than
\* the configured cap, sells no more than the borrower has, and its minimum output
\* covers the repayment and the profit the contract insists on, with the gas on top; no
\* route that was quoted and could be estimated is worth more.  In Morpho's shares it
\* repays at least the amount, and all the shares only for all of the debt.
PlanSound ==
  (About("plan") /\ decision.plan.outcome = "plan") =>
    LET plan == decision.plan
        input == decision.input
    IN /\ plan.repayAmount * 10000 <= input.debt * (IF plan.preliq THEN input.preliq.closeFactorBps ELSE input.closeFactorBps)
       /\ input.maxRepayUsd > 0 => plan.repayAmount * input.debtPrice <= input.maxRepayUsd
       /\ plan.seizeAmount > 0 /\ plan.seizeAmount <= input.collateral
       /\ plan.amountOutMin - plan.repayAmount >= plan.minProfit
       /\ plan.minProfit * 10000 >= input.floorBps * plan.repayAmount /\ plan.minProfit > 0
       /\ plan.netUsd >= 0 /\ plan.gasUsd <= input.gasCapUsd
       /\ plan.netUsd + plan.gasUsd = (plan.amountOutMin - plan.repayAmount) * input.debtPrice
       /\ plan.protocol = "morphoblue" =>
            /\ plan.repayShares * input.debt >= plan.repayAmount * input.borrowShares
            /\ plan.repayShares > 0 /\ plan.repayShares <= input.borrowShares
       /\ \E i \in DOMAIN decision.quotes :
            /\ decision.quotes[i].option = plan.option
            /\ decision.quotes[i].amountOutMin = plan.amountOutMin
            /\ plan.amountOutMin * 10000 <= decision.quotes[i].quotedOut * (10000 - decision.slippageBps)

\* Every router found not allowed is sent for once, up to the one after whose failure
\* the nonce cannot be read again: whatever became of the others, each with a nonce of
\* its own and without a gap.  After that one, or when there never was a nonce, nothing
\* is sent.
AllowSound ==
  About("allow") =>
    LET sent == decision.made.sent
        unread == {i \in 1..4 : decision.answers[i] \in {"refused-unread", "receipt-lost-unread"}}
        lacking == {i \in 1..4 : /\ decision.answers[i] \in {"sent", "receipt-lost", "receipt-lost-unread"}
                                 /\ \A j \in unread : i <= j}
    IN IF decision.first = Failure THEN sent = <<>> /\ decision.made.rejected
       ELSE /\ Len(sent) = Cardinality(lacking)
            /\ \A i \in lacking : \E k \in DOMAIN sent : sent[k].router = <<"r1", "r2", "r3", "r4">>[i]
            /\ \A k \in DOMAIN sent : sent[k].nonce = 4 + k
            /\ decision.made.rejected = (unread # {})

LiquidationSound == RoutesSound /\ PlanSound /\ AllowSound
-----------------------------------------------------------------------------
(* The scorers. *)

Remotes == {Failure} \cup [hfMax : {0, 9900, 20000}, gapCap : {0, 90, 9000}]
Gaps == {<<g>> : g \in {0, 110, 190, 400}} \cup {<<f, g>> : f \in {0, 9000}, g \in {0, 60, 110, 190, 9000}}

ConfiguredHfMax == 9800
CandidateHealths == {Unknown, 9700, 9950}

\* One thing at a time goes wrong beside the thresholds.
OneWrong(protocol, missing, prices, plan) ==
  (IF protocol = "aavev3" THEN 0 ELSE 1) + (IF missing = {} THEN 0 ELSE 1)
    + (IF prices.debt = Unknown \/ prices.coll = Unknown THEN 1 ELSE 0)
    + (IF plan = Failure THEN 1 ELSE 0) <= 1

AnswerScore(item) == Decide([about |-> "score", item |-> item, score |-> score(item)])

AskScore ==
  \E protocol \in {"aavev3", "compoundv3", "unknown"}, missing \in {{}, {"market-disabled", "policy-missing"}},
     prices \in [debt : {Unknown, 2}, coll : {Unknown, 4}], dexRatio \in {Unknown, 2}, remote \in Remotes,
     gaps \in Gaps, healthFactor \in CandidateHealths, policyCap \in {10, 100}, pegged \in BOOLEAN,
     plan \in {Failure} \cup [netUsd : {1, 6}, gasUsd : {0, 2}] :
    /\ OneWrong(protocol, missing, prices, plan)
    /\ AnswerScore([protocol |-> protocol, missing |-> missing, prices |-> prices, dexRatio |-> dexRatio,
                    remote |-> remote, gaps |-> gaps, healthFactor |-> healthFactor, hfMax |-> ConfiguredHfMax,
                    policyCap |-> policyCap, pegged |-> pegged, plan |-> plan, minNetUsd |-> 2, pnlMultMin |-> 2])

\* The simulator's plan for the offer, over one route that pays in proportion.
simulated(c, out) ==
  LET route == [type |-> "UniV2", router |-> "v2"]
      input == preliqSimInput(c)
      paid == IF out = Failure THEN Failure ELSE (out * repayAmount(input)) \div 100
      quotes == quoteRoutes(<<route>>, [o \in {route} |-> <<paid, paid>>], {}, seizeAmount(input), 0)
      plan == simulate(input, quotes, [o \in {route} |-> [kind |-> "gas", eth |-> 1]])
  IN IF plan.outcome = "plan" THEN plan ELSE Failure

\* Health factors below, within and above the band of an offer.
BorrowerHealths == {Unknown, 10000, 10200, 10500}
Open(healthFactor) == healthFactor = 10200
OfferedShares == {5000, 10000, 12000}

AnswerPreliq(c, out) ==
  Decide([about |-> "preliq-score", candidate |-> c, score |-> scorePreLiq(c, simulated(c, out))])

AskPreliqScore ==
  \E healthFactor \in BorrowerHealths, expiry \in {1, 2}, incentiveBps \in {100, 150, 600},
     closeFactorBpsIn \in OfferedShares, minIncentiveBps \in {100, 150}, missing \in {{}, {"market-disabled"}},
     prices \in [debt : {Unknown, 1}, coll : {Unknown, 2, 3}], oracleRatio, dexRatio \in {Unknown, 2},
     protocol \in {"morphoblue", "aavev3"}, out \in {Failure, 101, 108}, liquidityScore \in {10, 90} :
    /\ (IF Open(healthFactor) THEN 0 ELSE 1) + (IF missing = {} THEN 0 ELSE 1)
         + (IF expiry = 2 THEN 0 ELSE 1) + (IF out = Failure THEN 1 ELSE 0) <= 1
    /\ AnswerPreliq(
             [missing |-> missing, healthFactor |-> healthFactor, now |-> 1,
              offer |-> [expiry |-> expiry, incentiveBps |-> incentiveBps, closeFactorBps |-> closeFactorBpsIn],
              minIncentiveBps |-> minIncentiveBps, prices |-> prices, oracleRatio |-> oracleRatio,
              dexRatio |-> dexRatio, protocol |-> protocol, debt |-> 100, collateral |-> 200,
              borrowShares |-> 50, gasCapUsd |-> 4, minNetUsd |-> 2, liquidityScore |-> liquidityScore], out)

ScoresDecide == AskScore \/ AskPreliqScore
-----------------------------------------------------------------------------
\* A candidate the scorer accepts is below the configured health factor and its pools
\* within 200 basis points over the configured gap (20 at the least), whatever the risk
\* engine answers and whatever the gaps have been; without the risk engine no more
\* than 100 over it.  Its prices are the oracles' where there are any, and otherwise in
\* the ratio of the pools; its plan pays its floors.
ScoreSound ==
  (About("score") /\ decision.score.reason = Accepted) =>
    LET item == decision.item
        prices == decision.score.prices
        cap == baseGapCap(item.policyCap, item.pegged)
        gap == Last(item.gaps)
    IN /\ item.healthFactor # Unknown => item.healthFactor < item.hfMax
       /\ gap <= Larger(20, cap + (IF item.remote = Failure THEN 100 ELSE 200))
       /\ item.prices.debt # Unknown => prices.debt = item.prices.debt
       /\ item.prices.coll # Unknown => prices.coll = item.prices.coll
       /\ Unknown \in {item.prices.debt, item.prices.coll} => prices.coll = prices.debt * item.dexRatio
       /\ item.missing = {} /\ item.protocol \in Adapters
       /\ item.plan # Failure /\ item.plan.netUsd >= item.minNetUsd

\* Calm thresholds never refuse what the configured ones let through.
CalmIsNoStricter ==
  (About("score") /\ decision.item.remote = Failure /\ decision.score.reason = "gap-exceeds-cap") =>
    LET base == [hfMax |-> 9800, gapCap |-> baseGapCap(decision.item.policyCap, decision.item.pegged)]
    IN Last(decision.item.gaps) > base.gapCap \/ Thresholds(base, decision.item.gaps).state.emaVol > Wild

\* An offer the pre-liquidation scorer accepts is open, its borrower between the two
\* health factors, and the plan was simulated on the offer's own terms (with a minimum
\* incentive of 1.5 % or more and a close factor of at most one): the scorer's checks
\* and the simulator's agree.  Where Morpho's oracle was read, the prices are within
\* 2 % of it.
PreliqScoreSound ==
  (About("preliq-score") /\ decision.score.reason = Accepted) =>
    LET c == decision.candidate
        prices == decision.score.prices
        plan == decision.score.plan
    IN /\ c.healthFactor # Unknown /\ c.healthFactor > 10000 /\ c.healthFactor < 10500
       /\ (c.protocol = "morphoblue" /\ c.minIncentiveBps >= 150 /\ c.offer.closeFactorBps <= 10000) =>
            plan.preliq /\ plan.repayAmount * 10000 <= c.debt * c.offer.closeFactorBps
       /\ plan.protocol = "morphoblue" => plan.repayShares > 0
       /\ c.oracleRatio # Unknown =>
            Distance(prices.coll, c.oracleRatio * prices.debt) * 10000 <= 201 * c.oracleRatio * prices.debt
       /\ plan.netUsd >= c.minNetUsd

ScoresSound == ScoreSound /\ CalmIsNoStricter /\ PreliqScoreSound
=============================================================================

--------------------------- MODULE ExecutionDecisions ---------------------------
(***************************************************************************)
(* The contracts given a transaction, and a pre-liquidation carried through.   *)
(***************************************************************************)
EXTENDS Decision, LiquidationPlan, LiquidatorContracts

Deployed == [owner |-> "deployer", pending |-> "nobody", paused |-> FALSE, executors |-> {"deployer", "bot"},
             routers |-> {"router"}]
AdminCalls ==
  [what : {"transfer", "accept"}, who : {"bot", "heir"}, none : {"nobody"}, on : {TRUE}] \cup
  [what : {"pause"}, who : {"bot"}, none : {"nobody"}, on : BOOLEAN] \cup
  [what : {"executor"}, who : {"bot"}, none : {"nobody"}, on : BOOLEAN] \cup
  [what : {"router"}, who : {"router"}, none : {"nobody"}, on : {FALSE}]

Markets == [repaid : {2, 4}, seized : {0, 3}, out : {3, 5, 7}, premium : {0, 1}, revert : BOOLEAN,
            liquidatable : {TRUE}, absorbed : {0, 1}]
Worlds == [debt : {0, 4, 6}, coll : {0, 1}, paid : {0}]

\* A transaction of every kind to a contract the owner has set up.
AskContract ==
  \E world \in Worlds, market \in Markets, amountOutMin \in {0, 6}, profit \in 0..2,
     dexId \in {"UniV3", "UniV3Multi", "none"}, late \in BOOLEAN,
     kind \in {"flash", "funds", "morpho", "seamless", "compound"} :
    LET p == [repayAmount |-> 4, minProfit |-> profit, minProfitBps |-> 2500 * profit,
              amountOutMin |-> amountOutMin, dexId |-> dexId, pathShort |-> FALSE, late |-> late, router |-> "router"]
        after == CASE kind = "flash" -> liquidateWithFlash(Deployed, "bot", world, p, market)
                   [] kind = "funds" -> liquidateWithFunds(Deployed, "deployer", world, p, market)
                   [] kind = "morpho" -> morphoLiquidateWithFlash(Deployed, "bot", world, p, market)
                   [] kind = "seamless" -> seamlessLiquidate(Deployed, "deployer", world, p, market)
                   [] kind = "compound" -> compoundLiquidate(Deployed, "deployer", world, p, market)
    IN /\ kind # "compound" => market.absorbed = 1
       /\ Decide([about |-> "contract", kind |-> kind, world |-> world, market |-> market, plan |-> p, after |-> after])

\* Two calls of the owner, the heir or the bot to the settings, then a liquidation.
AskSettings ==
  \E first, second \in AdminCalls, one, two, sender \in {"deployer", "heir", "bot"} :
    LET contract == administer(administer(Deployed, one, first), two, second)
        p == [repayAmount |-> 4, minProfit |-> 1, amountOutMin |-> 6, dexId |-> "UniV2", pathShort |-> FALSE,
              late |-> FALSE, router |-> "router"]
        market == [repaid |-> 4, seized |-> 3, out |-> 7, premium |-> 0, revert |-> FALSE]
        world == [debt |-> 0, coll |-> 0, paid |-> 0]
    IN Decide([about |-> "settings", calls |-> {first, second}, sender |-> sender, contract |-> contract,
               after |-> liquidateWithFlash(contract, sender, world, p, market),
               extracted |-> extractProfit(contract, sender, [world EXCEPT !.debt = 3])])

Slippages == {-5, 50, 1000, 20000}

\* What comes of the bundle built, if one is, whatever the offer asks and the swap brings.
AnswerBundle(params, primary, odos, oneInch, slippageBps) ==
  LET bundle == executePreLiquidation(params, primary, odos, oneInch, slippageBps)
  IN \E repayAssets \in {0, 95, 100, 103}, got \in {80, 99, 100, 115}, held \in {0, 3}, sold \in {40, 70} :
       /\ bundle = NoQuote => /\ repayAssets = 100 /\ got = 100 /\ held = 0 /\ sold = 40
       /\ Decide([about |-> "bundle", params |-> params, bundle |-> bundle, repayAssets |-> repayAssets,
                  got |-> got, held |-> held, sold |-> sold, odos |-> odos, oneInch |-> oneInch,
                  settled |-> IF bundle = NoQuote THEN CallReverts
                              ELSE onPreLiquidate(TRUE, repayAssets, bundle, held, bundle.sellAmount,
                                                  [got |-> got, sold |-> sold, fails |-> FALSE])])

AskBundle ==
  \E repay \in {0, 100}, shares \in {0, 5}, seize \in {0, 40}, odosAnswer, oneInchAnswer \in {NoQuote, 90, 110},
     odosKey, oneInchKey, odosRouter \in BOOLEAN, primary \in {"odos", "oneinch", "none"},
     slippageBps \in Slippages :
    AnswerBundle([repayAmount |-> repay, repayShares |-> shares, seizeAmount |-> seize,
                  collateralAmount |-> 60, chainConfigured |-> TRUE],
                 primary, [key |-> odosKey, router |-> odosRouter, answer |-> odosAnswer],
                 [key |-> oneInchKey, answer |-> oneInchAnswer], slippageBps)

\* From the candidate to the beneficiary: the plan is simulated, encoded and mined, by
\* which time the pool and the router have moved.
CarryThrough(input, slippageBps, quoteBps, gas, premium, fillBps, repaidLess, mode, late) ==
  LET option == [type |-> "UniV2", router |-> "router"]
      quote == applyBps(seizeAmount(input), quoteBps)
      plan == simulate(input, quoteRoutes(<<option>>, [o \in {option} |-> <<quote, quote>>], {}, seizeAmount(input), slippageBps),
                       [o \in {option} |-> [kind |-> "gas", eth |-> gas]])
      call == encodePlan(plan, mode, late)
      market == [repaid |-> plan.repayAmount - repaidLess, seized |-> plan.seizeAmount,
                 out |-> applyBps(quote, fillBps), premium |-> premium, revert |-> FALSE]
      world == [debt |-> 16, coll |-> 0, paid |-> 0]
  IN /\ plan.outcome = "plan"
     /\ Decide([about |-> "end-to-end", plan |-> plan, call |-> call, market |-> market, world |-> world,
                after |-> IF call.function = "liquidateWithFunds"
                          THEN liquidateWithFunds(Deployed, "deployer", world, call, market)
                          ELSE liquidateWithFlash(Deployed, "bot", world, call, market)])

CloseFactors == {5000, 10000}
Bonuses == {800, 5000}
QuoteShares == {9000, 14000}
FillShares == {8000, 9000, 10000}

AskEndToEnd ==
  \E debt \in {4, 9, 16}, closeFactorBpsIn \in CloseFactors, collateral \in {3, 30}, floorBps \in {30, 1000},
     bonusBpsIn \in Bonuses, slippageBps \in {0, 1000}, quoteBps \in QuoteShares, gas, premium \in {0, 1},
     fillBps \in FillShares, repaidLess \in {0, 1}, mode \in {"flash", "funds"}, late \in BOOLEAN :
    CarryThrough([debt |-> debt, collateral |-> collateral, debtPrice |-> 1, collPrice |-> 1,
                  closeFactorBps |-> closeFactorBpsIn, bonusBps |-> bonusBpsIn, maxRepayUsd |-> 10,
                  floorBps |-> floorBps, protocol |-> "aavev3", preliq |-> NoOffer, now |-> 1,
                  borrowShares |-> 0, gasCapUsd |-> 4, nativePriceUsd |-> 1],
                 slippageBps, quoteBps, gas, premium, fillBps, repaidLess, mode, late)

ExecutionDecides == AskEndToEnd \/ AskContract \/ AskSettings \/ AskBundle
-----------------------------------------------------------------------------
\* No liquidation that goes through costs the contract any of the debt asset it held
\* (Morpho's pays everything out, but then no less than the profit asked; Compound's may
\* cost what it held where no profit is asked, since a loss counts as a profit of zero);
\* the beneficiary, or the contract that keeps it, is up by the profit asked; the
\* collateral is gone.  And a plan whose minimum output covers the repayment, the profit and the
\* premium, as the simulator's does but for the premium, goes through wherever pool and
\* router keep to it.
ContractSound ==
  About("contract") =>
    LET world == decision.world
        after == decision.after
        p == decision.plan
        market == decision.market
        gain == after.debt + after.paid - world.debt - world.paid
    IN /\ after # Revert =>
            /\ after.coll = 0 /\ after.debt >= 0
            /\ decision.kind \in {"flash", "funds", "seamless"} => after.debt >= world.debt /\ gain >= p.minProfit
            /\ decision.kind \in {"flash", "funds"} =>
                 after.paid - world.paid >= p.minProfit /\ after.debt = world.debt + p.repayAmount - market.repaid
            /\ decision.kind = "morpho" => after.debt = 0 /\ after.paid - world.paid >= p.minProfit
            /\ decision.kind = "compound" => gain >= p.minProfit \/ (p.minProfit = 0 /\ world.debt + gain >= 0)
       /\ (/\ decision.kind = "flash" /\ p.minProfit > 0 /\ ~p.late /\ p.dexId # "none" /\ ~market.revert
           /\ world.coll + market.seized > 0 /\ market.out >= p.amountOutMin
           /\ p.amountOutMin >= p.repayAmount + p.minProfit + market.premium) => after # Revert

\* Whoever is owner can liquidate until paused or without the router, an heir who has
\* not accepted cannot, nor extract; the handover leaves one owner.
SettingsSound ==
  About("settings") =>
    LET contract == decision.contract
    IN /\ decision.sender = contract.owner =>
            (decision.after = Revert <=> contract.paused \/ "router" \notin contract.routers)
       /\ (decision.after # Revert /\ decision.sender = "heir") => contract.owner = "heir"
       /\ decision.extracted # Revert => decision.sender = contract.owner /\ decision.extracted.debt = 0
       /\ contract.owner # "nobody"
       /\ contract.owner # "deployer" => \E call \in decision.calls : call.what = "accept"

\* A pre-liquidation that settles repays the offer exactly, leaves nothing in the
\* callback contract and hands over the rest; a bundle is only built on a quote above
\* the repayment, and where the swap brings that and the offer asks no more than the
\* plan, it settles whatever the slippage configured.
BundleSound ==
  About("bundle") =>
    LET bundle == decision.bundle
        settled == decision.settled
    IN /\ bundle # NoQuote =>
            /\ bundle.profit > 0 /\ bundle.repayShares > 0 /\ bundle.minRepayAssets <= decision.params.repayAmount
            /\ \/ decision.odos.key /\ decision.odos.answer = bundle.profit + decision.params.repayAmount
               \/ decision.oneInch.key /\ decision.oneInch.answer = bundle.profit + decision.params.repayAmount
            /\ (/\ decision.got >= decision.params.repayAmount /\ decision.sold <= bundle.sellAmount
                /\ decision.repayAssets \in 1..decision.params.repayAmount) => settled # CallReverts
       /\ settled # CallReverts =>
            /\ settled.repaid = decision.repayAssets
            /\ settled.repaid + settled.beneficiaryDebt = decision.held + decision.got
            /\ settled.beneficiaryDebt >= 0 /\ settled.beneficiaryColl >= 0

\* A plan as the simulator makes it, mined in time, goes through exactly when the router
\* pays its minimum output and that leaves the profit after the premium, which the
\* simulator does not count: with no premium the contract's own test of the profit never
\* refuses what the minimum output let through.  It then pays the beneficiary at least the
\* policy's share of the repayment.
EndToEndSound ==
  About("end-to-end") =>
    LET plan == decision.plan
        market == decision.market
        premium == IF decision.call.function = "liquidateWithFunds" THEN 0 ELSE market.premium
    IN /\ decision.after # Revert <=>
            /\ ~decision.call.late /\ market.out >= plan.amountOutMin
            /\ premium > 0 => market.out >= plan.repayAmount + premium + plan.minProfit
       /\ decision.after # Revert => /\ decision.after.paid >= plan.minProfit
                                     /\ decision.after.debt >= decision.world.debt

ExecutionSound == EndToEndSound /\ ContractSound /\ SettingsSound /\ BundleSound
=============================================================================

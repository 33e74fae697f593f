-------------------------- MODULE LiquidatorContracts --------------------------
(***************************************************************************)
(* What one transaction to a liquidator contract of contracts/ does.           *)
(*                                                                         *)
(* world is [debt, coll, paid]: what the contract holds of the two assets and   *)
(* what its beneficiary holds of the debt asset.  market says what the outside   *)
(* does: [repaid, seized, out, premium, revert]: the pool takes `repaid` of the   *)
(* amount offered and hands over `seized`, the router pays `out` for all it is     *)
(* given, the flash loan costs `premium`; revert, any of them fails; a comet shows *)
(* the contract `absorbed` of the collateral in its own account there.  A          *)
(* transaction yields the new world, or Revert, which leaves the old one.         *)
(* The pre-liquidation bundle, whose callback is such a contract, is at the end.     *)
(***************************************************************************)
EXTENDS Integers

CONSTANTS Revert, SwapDexes, NoQuote, CallReverts

\* The four kinds of swap DexRouter.sol knows are among SwapDexes; the outcomes that are
\* no figures and no records are none of either.
ASSUME ContractsAssumption ==
  /\ {"UniV3", "UniV2", "UniV3Multi", "SolidlyV2"} \subseteq SwapDexes
  /\ Revert \notin Int \cup [debt : Int, coll : Int, paid : Int]
  /\ NoQuote \notin Int
  /\ NoQuote \notin [minRepayAssets : Int, sellAmount : Int, repayShares : Int, profit : Int, beneficiary : BOOLEAN]
  /\ CallReverts \notin [repaid : Int, beneficiaryDebt : Int, beneficiaryColl : Int, leftDebt : Int, leftColl : Int,
                         allowance : Int]

\* libs/DexRouter.sol: all four swaps approve and send the amount in, and want the
\* minimum before the deadline; a path is at least two tokens and a fee long.
RouterPays(p, market) ==
  IF market.revert \/ p.late \/ market.out < p.amountOutMin \/ (p.dexId = "UniV3Multi" /\ p.pathShort)
  THEN Revert ELSE market.out

sellCollateral(world, out) == [world EXCEPT !.coll = 0, !.debt = @ + out]

\* The whole balance of the collateral is sold, also what an earlier call left.
swapCollateralForDebt(world, p, market) ==
  LET out == RouterPays(p, market)
  IN IF world.coll = 0 \/ p.dexId \notin SwapDexes \/ out = Revert THEN Revert
     ELSE sellCollateral(world, out)

liquidationCall(world, market) ==
  IF market.revert \/ world.debt < market.repaid THEN Revert
  ELSE [world EXCEPT !.debt = @ - market.repaid, !.coll = @ + market.seized]

payBeneficiary(world, profit) == [world EXCEPT !.debt = @ - profit, !.paid = @ + profit]

\* Who may call: the owner or an executor, while not paused, a plan with a repayment,
\* a profit and an allowed router.
mayLiquidate(contract, sender, p) ==
  /\ sender \in contract.executors \cup {contract.owner}
  /\ ~contract.paused
  /\ p.repayAmount > 0 /\ p.minProfit > 0
  /\ p.router \in contract.routers
-----------------------------------------------------------------------------
(* Liquidator.sol *)

\* Mutant of finalizeFlash: the profit is all the contract holds over the loan.
finalizeOnBalance(world, p, market, owe) ==
  LET after == swapCollateralForDebt(world, p, market)
  IN IF after = Revert THEN Revert
     ELSE IF after.debt < owe \/ after.debt - owe < p.minProfit THEN Revert
     ELSE payBeneficiary(after, after.debt - owe)

\* The profit is the swap's output over what is owed.
finalizeFlash(world, p, market, owe) ==
  LET after == swapCollateralForDebt(world, p, market)
  IN IF after = Revert THEN Revert
     ELSE IF market.out < owe \/ market.out - owe < p.minProfit THEN Revert
     ELSE payBeneficiary(after, market.out - owe)

repayLoan(world, owe) == IF world = Revert THEN Revert
                         ELSE IF world.debt < owe THEN Revert ELSE [world EXCEPT !.debt = @ - owe]

executeOperation(world, p, market) ==
  LET seized == liquidationCall(world, market)
  IN IF seized = Revert THEN Revert ELSE finalizeFlash(seized, p, market, p.repayAmount + market.premium)

liquidateWithFlash(contract, sender, world, p, market) ==
  IF ~mayLiquidate(contract, sender, p) THEN Revert
  ELSE repayLoan(executeOperation([world EXCEPT !.debt = @ + p.repayAmount], p, market),
                 p.repayAmount + market.premium)

\* _finalizeFunds is _finalizeFlash with the amount given as the amount owed.
liquidateWithFunds(contract, sender, world, p, market) ==
  IF sender # contract.owner \/ ~mayLiquidate(contract, sender, p) \/ world.debt < p.repayAmount THEN Revert
  ELSE LET seized == liquidationCall(world, market)
       IN IF seized = Revert THEN Revert ELSE finalizeFlash(seized, p, market, p.repayAmount)

\* The owner's settings.  A new owner is an executor from then on; the one before
\* stays one until removed.
administer(contract, sender, call) ==
  CASE call.what = "accept" ->
         IF sender # contract.pending THEN contract
         ELSE [contract EXCEPT !.owner = sender, !.pending = call.none, !.executors = @ \cup {sender}]
    [] call.what # "accept" /\ sender # contract.owner -> contract
    [] call.what = "transfer" /\ sender = contract.owner -> [contract EXCEPT !.pending = call.who]
    [] call.what = "pause" /\ sender = contract.owner -> [contract EXCEPT !.paused = call.on]
    [] call.what = "executor" /\ sender = contract.owner ->
         [contract EXCEPT !.executors = IF call.on THEN @ \cup {call.who} ELSE @ \ {call.who}]
    [] call.what = "router" /\ sender = contract.owner ->
         [contract EXCEPT !.routers = IF call.on THEN @ \cup {call.who} ELSE @ \ {call.who}]
-----------------------------------------------------------------------------
(* MorphoBlueLiquidator.sol: no premium; the profit is all it holds over the loan. *)

onMorphoFlashLoan(world, p, market) ==
  LET seized == liquidationCall(world, market)
  IN IF market.premium # 0 \/ market.seized = 0 \/ seized = Revert THEN Revert
     ELSE LET after == swapCollateralForDebt(seized, p, market)
          IN IF after = Revert THEN Revert
             ELSE IF after.debt < p.repayAmount \/ after.debt - p.repayAmount < p.minProfit THEN Revert
             ELSE payBeneficiary(after, after.debt - p.repayAmount)

morphoLiquidateWithFlash(contract, sender, world, p, market) ==
  IF ~mayLiquidate(contract, sender, p) THEN Revert
  ELSE repayLoan(onMorphoFlashLoan([world EXCEPT !.debt = @ + p.repayAmount], p, market), p.repayAmount)
-----------------------------------------------------------------------------
(* SeamlessLiquidator.sol and CompoundV3Liquidator.sol: the profit stays until the   *)
(* owner extracts it; p.minProfitBps is of the amount, rounded down.                *)

requiredProfit(p) == (p.repayAmount * p.minProfitBps) \div 10000

seamlessExecuteOperation(world, p, market) ==
  LET seized == liquidationCall(world, market)
      owe == p.repayAmount + market.premium
  IN IF seized = Revert THEN Revert
     ELSE IF seized.coll = 0 \/ market.out < p.amountOutMin \/ market.out < owe
             \/ market.out - owe < requiredProfit(p) THEN Revert
     ELSE sellCollateral(seized, market.out)

seamlessLiquidate(contract, sender, world, p, market) ==
  IF sender # contract.owner \/ p.repayAmount = 0 THEN Revert
  ELSE repayLoan(seamlessExecuteOperation([world EXCEPT !.debt = @ + p.repayAmount], p, market),
                 p.repayAmount + market.premium)

extractProfit(contract, sender, world) ==
  IF sender # contract.owner THEN Revert ELSE payBeneficiary(world, world.debt)

\* All the base asset held is offered for the collateral absorbed, which is not the base
\* asset itself; market.repaid is what the comet takes of it.  That something was
\* absorbed is read off the contract's own account at the comet.
compoundLiquidate(contract, sender, world, p, market) ==
  LET bought == liquidationCall(world, market)
      spent == market.repaid
      got == IF bought = Revert THEN 0 ELSE IF bought.coll = 0 THEN 0 ELSE market.out
      profit == IF got > spent THEN got - spent ELSE 0
  IN IF sender # contract.owner \/ ~market.liquidatable \/ market.absorbed = 0 \/ world.debt = 0 \/ bought = Revert
     THEN Revert
     ELSE IF (bought.coll > 0 /\ (market.out < p.amountOutMin \/ market.revert)) \/ profit < p.minProfit THEN Revert
     ELSE sellCollateral(bought, got)
-----------------------------------------------------------------------------
(* A pre-liquidation: executor/preliq_executor.ts quotes the swap and builds     *)
(* the bundle, contracts/PreLiquidationCallback.sol repays with what the swap    *)
(* brings and hands the rest over.                                            *)

\* Odos needs a key and a router, 1inch a key; either may have no answer.
getOdosQuote(odos) == IF odos.key /\ odos.router THEN odos.answer ELSE NoQuote
get1inchQuote(oneInch) == IF oneInch.key THEN oneInch.answer ELSE NoQuote

\* One is asked, and the other where it has no quote; Odos first only when configured.
swapQuote(primary, odos, oneInch) ==
  LET first == IF primary = "odos" /\ odos.key /\ odos.router THEN getOdosQuote(odos) ELSE get1inchQuote(oneInch)
      second == IF primary = "odos" /\ odos.key /\ odos.router THEN get1inchQuote(oneInch) ELSE getOdosQuote(odos)
  IN IF first # NoQuote THEN first ELSE second

\* Mutant of minRepayAssets: the slippage is taken off the output quoted.
minRepayOfQuote(repayAmount, amountOut, slippageBps) == (amountOut * (10000 - slippageBps)) \div 10000

\* The slippage is bounded to a share.
minRepayAssets(repayAmount, amountOut, slippageBps) ==
  LET bounded == IF slippageBps < 0 THEN 0 ELSE IF slippageBps > 10000 THEN 10000 ELSE slippageBps
  IN (repayAmount * (10000 - bounded)) \div 10000

buildPreLiqBundle(params, primary, odos, oneInch, slippageBps) ==
  LET amountOut == swapQuote(primary, odos, oneInch)
  IN IF ~params.chainConfigured \/ amountOut = NoQuote THEN NoQuote
     ELSE IF amountOut <= params.repayAmount THEN NoQuote
     ELSE [minRepayAssets |-> minRepayAssets(params.repayAmount, amountOut, slippageBps),
           sellAmount |-> IF params.seizeAmount > 0 THEN params.seizeAmount ELSE params.collateralAmount,
           repayShares |-> params.repayShares, profit |-> amountOut - params.repayAmount, beneficiary |-> TRUE]

\* executePreLiquidation: no shares, no bundle, nothing is sent.
executePreLiquidation(params, primary, odos, oneInch, slippageBps) ==
  IF params.repayShares = 0 THEN NoQuote ELSE buildPreLiqBundle(params, primary, odos, oneInch, slippageBps)

\* The callback, holding `held` of the debt token from before and the seized collateral:
\* the swap sells `sold` of it for `got`, the offer is paid, all else goes to the
\* beneficiary, wrapped ether as ether.
onPreLiquidate(fromOffer, repayAssets, payload, held, seized, swap) ==
  LET balance == held + swap.got
  IN IF ~fromOffer \/ ~payload.beneficiary \/ repayAssets = 0 \/ payload.sellAmount = 0
        \/ swap.fails \/ swap.sold > payload.sellAmount \/ swap.sold > seized
        \/ balance < repayAssets \/ balance < payload.minRepayAssets THEN CallReverts
     ELSE [repaid |-> repayAssets, beneficiaryDebt |-> balance - repayAssets,
           beneficiaryColl |-> seized - swap.sold, leftDebt |-> 0, leftColl |-> 0, allowance |-> 0]
=============================================================================

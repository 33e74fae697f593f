---------------------------- MODULE PriceResolver ----------------------------
(***************************************************************************)
(* indexer/price_watcher.ts: the price of a token in dollars, by its own feed, *)
(* by the price of ether, or by a swap into a stable whose price is found the   *)
(* same way; the gap between oracle and pool; the cache of routes.             *)
(*                                                                         *)
(* chain[t] is [feed, usable, eth, answer, rate, last]: a feed is configured, its *)
(* last answer is usable, it is in ether, the answer, rate[s], what a unit of t    *)
(* fetches in the stable s, 0 without a route, and the price the volatility guard *)
(* took for t last, Unpriced when there is none in the guard's window.          *)
(***************************************************************************)
EXTENDS Integers, Sequences, FiniteSetsExt

CONSTANTS Unpriced, Endless,
          Calls,        \* bound on the calls of cachedOraclePrice inside each other
          PriceJump     \* PRICE_JUMP_THRESHOLD

ASSUME PricesAssumption == Calls \in Nat /\ PriceJump \in Nat /\ {Unpriced, Endless} \cap Int = {} /\ Unpriced # Endless

\* The stables the chain has, as places in the code's fixed order.
preferredStableSymbols(order, chain) == {i \in DOMAIN order : order[i] \in DOMAIN chain}

\* The stables t is swapped into.
Routes(chain, order, t) ==
  {i \in preferredStableSymbols(order, chain) : order[i] # t /\ chain[t].rate[order[i]] > 0}

times(price, factor) == IF price \in {Unpriced, Endless} THEN price ELSE price * factor

\* Mutant of dexFallbackPrice: only the first stable with a route is asked.
dexFallbackFirst(chain, order, t, priceOf) ==
  LET tried == Routes(chain, order, t)
      first == order[Min(tried)]
  IN IF tried = {} THEN Unpriced ELSE times(priceOf[first], chain[t].rate[first])

\* dexFallbackPrice: the first stable that has a price, given what asking each brings.
dexFallbackPrice(chain, order, t, priceOf) ==
  LET found == {i \in Routes(chain, order, t) : priceOf[order[i]] # Unpriced}
      first == order[Min(found)]
  IN IF found = {} THEN Unpriced ELSE times(priceOf[first], chain[t].rate[first])

\* A feed in ether needs the price of ether; without it there is no price at all.
ethConverted(chain, t, priceOf) ==
  IF "WETH" \notin DOMAIN chain THEN Unpriced
  ELSE IF ~chain["WETH"].feed THEN Unpriced ELSE times(priceOf["WETH"], chain[t].answer)

\* The price cachedOraclePrice comes to before the guard: swapped, converted or answered.
foundPrice(chain, order, t, inner) ==
  IF ~(chain[t].feed /\ chain[t].usable) THEN dexFallbackPrice(chain, order, t, inner)
  ELSE IF chain[t].eth THEN ethConverted(chain, t, inner)
  ELSE chain[t].answer

\* Mutant of applyVolatilityGuard: every price is believed.
applyVolatilityGuardOff(last, price) == price

\* A price more than PriceJump times the last one away from it is not believed while that
\* one is recent; the last one is answered instead.  A price taken becomes the last one
\* and does not jump from itself, so that asking again in the window answers the same.
applyVolatilityGuard(last, price) ==
  IF price \in {Unpriced, Endless} \/ last = Unpriced THEN price
  ELSE IF price > 0 /\ (price - last > PriceJump * last \/ last - price > PriceJump * last) THEN last
  ELSE price

\* cachedOraclePrice, given what the calls inside bring: nothing is returned unguarded.
priceStep(chain, order, inner) ==
  [t \in DOMAIN chain |-> applyVolatilityGuard(chain[t].last, foundPrice(chain, order, t, inner))]

\* And Endless where it calls itself more than Calls deep.
cachedOraclePrice(chain, order) ==
  LET within[calls \in 0..Calls] ==
        IF calls = 0 THEN [t \in DOMAIN chain |-> Endless] ELSE priceStep(chain, order, within[calls - 1])
  IN within[Calls]

\* dexPriceRatio and oracleDexGapBps, of a quote per unit (0: no route).  The debt
\* token counts as a dollar where it has no price; a missing price is no gap.
dexPriceRatio(quote) == IF quote <= 0 THEN Unpriced ELSE quote

oracleDexGapBps(collUsd, debtUsd, quote) ==
  LET debt == IF debtUsd = Unpriced THEN 1 ELSE debtUsd
  IN IF quote = 0 \/ collUsd = Unpriced THEN 0
     ELSE IF quote * debt > collUsd THEN (20000 * (quote * debt - collUsd) + collUsd) \div (2 * collUsd)
     ELSE (20000 * (collUsd - quote * debt) + collUsd) \div (2 * collUsd)
-----------------------------------------------------------------------------
(* The cache of best routes: one question at a time is asked of the chain, others   *)
(* wait for it.  bestRoute answers a route or null; null is what it makes of quotes  *)
(* that all fail and of routers that are not allowed, and is kept as long as a route. *)
(* Only if bestRoute itself rejects is the shorter time used.                       *)

RouteTtl == 3
RouteErrorTtl == 1

NoRoute == [value |-> "failed", readAt |-> 0, expires |-> 0, pending |-> FALSE,
            served |-> "failed", servedAge |-> 0, now |-> 0]

\* Mutant of cachedBestRoute: an answer is kept as long again each time it is used.
cachedBestRouteRenews(entry, event) ==
  CASE event = "tick" -> [entry EXCEPT !.now = @ + 1]
    [] event = "ask" /\ ~entry.pending ->
         IF entry.expires > entry.now
         THEN [entry EXCEPT !.served = entry.value, !.servedAge = entry.now - entry.readAt, !.expires = entry.now + RouteTtl]
         ELSE [entry EXCEPT !.pending = TRUE]
    [] event \in {"route", "null"} /\ entry.pending ->
         [entry EXCEPT !.value = event, !.readAt = entry.now, !.expires = entry.now + RouteTtl, !.pending = FALSE]
    [] event = "reject" /\ entry.pending ->
         [entry EXCEPT !.value = "failed", !.readAt = entry.now, !.expires = entry.now + RouteErrorTtl, !.pending = FALSE]
    [] OTHER -> entry

cachedBestRoute(entry, event) ==
  CASE event = "tick" -> [entry EXCEPT !.now = @ + 1]
    [] event = "ask" /\ ~entry.pending ->
         IF entry.expires > entry.now
         THEN [entry EXCEPT !.served = entry.value, !.servedAge = entry.now - entry.readAt]
         ELSE [entry EXCEPT !.pending = TRUE]
    [] event \in {"route", "null"} /\ entry.pending ->
         [entry EXCEPT !.value = event, !.readAt = entry.now, !.expires = entry.now + RouteTtl, !.pending = FALSE]
    [] event = "reject" /\ entry.pending ->
         [entry EXCEPT !.value = "failed", !.readAt = entry.now, !.expires = entry.now + RouteErrorTtl, !.pending = FALSE]
    [] OTHER -> entry
=============================================================================

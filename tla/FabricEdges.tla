---------------------------- MODULE FabricEdges ----------------------------
(***************************************************************************)
(* What the three solvers of the arbitrage fabric offer, and what the         *)
(* executor makes of it: single_hop_solver.ts, triangular_solver.ts,          *)
(* cross_chain_solver.ts, executor.ts, with pair_registry.ts, oracle.ts and   *)
(* config.ts, which say which pairs and prices they work on.                  *)
(*                                                                         *)
(* Amounts are whole numbers, USD figures whole dollars; an edge is           *)
(* [source, sizeIn, finalOut, legs, netUsd, gasUsd], finalOut 0 where the     *)
(* solver gives no figure.                                                   *)
(***************************************************************************)
EXTENDS FabricQuotes

CONSTANTS NoPath, NoPrice, Failed

Leg(in, out, fee, amountIn, minAmountOut) ==
  [tokenIn |-> in, tokenOut |-> out, feeBps |-> fee, amountIn |-> amountIn, minAmountOut |-> minAmountOut]
-----------------------------------------------------------------------------
(* Configuration, registry and prices. *)

\* validatePair with its venues: an error stops the start.
ValidPair(pair, knownTokens) ==
  /\ {pair.baseToken, pair.quoteToken} \subseteq knownTokens
  /\ pair.baseAmount > 0
  /\ pair.venues # {}
  /\ \A v \in pair.venues : v.kind = "uniswap_v3" /\ v.feeBps > 0
  /\ pair.minNetUsd > 0

\* buildPairRuntime: a venue without quoter or pool is left out; a pair keeps at
\* least two venues or is not registered.
viableVenues(pair) == {v \in pair.venues : v.quoter /\ v.poolFound}
Registered(pairs) == {p \in pairs : \E v, w \in viableVenues(p) : v # w}

\* fetchOraclePriceUsd: the round data, else the legacy answer; a feed is stale when
\* a figure is zero, never for its age.  A legacy feed without a timestamp is dated now.
fetchOraclePriceUsd(feed) ==
  LET usable(answer, updatedAt) == IF answer > 0 /\ updatedAt > 0 THEN answer ELSE NoPrice
  IN IF ~feed.configured \/ feed.decimals = Failed THEN NoPrice
     ELSE IF feed.round # Failed
          THEN IF feed.round.answeredInRound <= 0 THEN NoPrice
               ELSE usable(feed.round.answer, feed.round.updatedAt)
     ELSE IF feed.latestAnswer = Failed THEN NoPrice
     ELSE IF feed.latestTimestamp = Failed THEN usable(feed.latestAnswer, 1)
     ELSE usable(feed.latestAnswer, feed.latestTimestamp)
-----------------------------------------------------------------------------
(* Single hop: sell the base on one venue, buy it back on another.  pair has   *)
(* [venues, fee, tradeSize, suggested, sold, bought, estimateLow, pricesKnown,   *)
(* priceUsd, gasUsd, minNetUsd, pnlMultipleMin]; sold[v][a] and bought[v][a]    *)
(* are safeQuote's answers, 0 for a suppressed or failing venue.               *)

pickTradeAmount(candidates) ==
  LET known == {a \in candidates : a > 0} IN IF known = {} THEN 0 ELSE Min(known)

\* buildEdges' edge for one round trip.
SingleHopEdge(pair, sell, buy, amount, mid, back) ==
  [source |-> "single-hop", sizeIn |-> amount, finalOut |-> back,
   netUsd |-> (back - amount) * pair.priceUsd, gasUsd |-> pair.gasUsd,
   legs |-> <<Leg("base", "quote", pair.fee[sell], amount, mid),
              Leg("quote", "base", pair.fee[buy], mid, back)>>]

\* The round trip over sell and buy, with amount 0 where a quote is missing.
SingleHop(pair, sell, buy) ==
  LET amount == pickTradeAmount({pair.tradeSize, pair.suggested[sell], pair.suggested[buy]})
      mid == IF amount = 0 THEN 0 ELSE pair.sold[sell][amount]
      back == IF mid = 0 THEN 0 ELSE pair.bought[buy][mid]
  IN SingleHopEdge(pair, sell, buy, amount, mid, back)

\* buildEdges' floors; a multiple of no gas is 0.
PassesFloors(edge, minNetUsd, pnlMultipleMin) ==
  /\ edge.netUsd >= minNetUsd
  /\ IF edge.gasUsd > 0 THEN edge.netUsd >= pnlMultipleMin * edge.gasUsd ELSE pnlMultipleMin <= 0

computeEdgesForPair(pair) ==
  {edge \in {SingleHop(pair, vw[1], vw[2]) : vw \in {vw \in pair.venues \X pair.venues :
                                        vw[1] # vw[2] /\ ~pair.estimateLow[vw[1]][vw[2]]}} :
     /\ pair.pricesKnown
     /\ edge.sizeIn > 0 /\ edge.finalOut > edge.sizeIn
     /\ PassesFloors(edge, pair.minNetUsd, pair.pnlMultipleMin)}
-----------------------------------------------------------------------------
(* Triangles: pairs is a sequence of [baseToken, quoteToken, ...]. *)

ClosesLoop(pairs, i, j, k) ==
  /\ pairs[j].baseToken = pairs[i].quoteToken
  /\ pairs[j].quoteToken # pairs[i].baseToken
  /\ pairs[k].baseToken = pairs[j].quoteToken
  /\ pairs[k].quoteToken = pairs[i].baseToken

\* The loops in the order of the three nested loops over the pairs.
Loops(pairs) ==
  IF Len(pairs) < 3 THEN {}
  ELSE {l \in (DOMAIN pairs) \X (DOMAIN pairs) \X (DOMAIN pairs) : ClosesLoop(pairs, l[1], l[2], l[3])}
Earlier(l, m) == l[1] < m[1] \/ (l[1] = m[1] /\ (l[2] < m[2] \/ (l[2] = m[2] /\ l[3] < m[3])))

\* The same for every order of the three pairs; of the loops with the same key only
\* the first met is for trying.
loopKey(l) == {l[1], l[2], l[3]}
FirstLoops(pairs) == {l \in Loops(pairs) : \A m \in Loops(pairs) : loopKey(m) = loopKey(l) => ~Earlier(m, l)}

\* Mutant of LoopsTried: every rotation of a loop is tried.
LoopsWithRotations(pairs, throws) == {l \in Loops(pairs) : \A m \in Loops(pairs) \cap throws : ~Earlier(m, l)}

\* The loops tried where those in `throws` throw: nothing catches inside the chain, so
\* the first that throws is the last tried.
LoopsTried(pairs, throws) ==
  {l \in FirstLoops(pairs) : \A m \in FirstLoops(pairs) \cap throws : ~Earlier(m, l)}

\* Mutant of EdgesOfChain: what was found before the throw is offered.
EdgesKept(pairs, throws, offered) == UNION {offered[l] : l \in LoopsTried(pairs, throws) \ throws}

\* computeEdgesForChain as findTriangularEdges takes it: a throw costs the chain the
\* edges already found as well; the next chain starts afresh.
EdgesOfChain(pairs, throws, offered) ==
  LET tried == LoopsTried(pairs, throws)
  IN IF tried \cap throws # {} THEN {} ELSE UNION {offered[l] : l \in tried}

\* Three legs [points, out, throws, fee, token], out the quote of the leg's input unless
\* it throws: the size they start from, and what each is handed by the one before.
StartOf(legs, tradeSize) ==
  selectDepthPoint(legs[1].points, suggestBaseAmount(legs[1].points, tradeSize)).amountBaseIn
HandedOn(legs, tradeSize) ==
  LET start == StartOf(legs, tradeSize)
      mid == legs[1].out[start]
  IN <<start, mid, legs[2].out[mid]>>

\* buildLoopEdge up to its i-th quote: all legs fresh, measured and deep enough for it.
Asks(i, legs, fresh, tradeSize, priceUsd) ==
  LET handed == HandedOn(legs, tradeSize)
  IN /\ fresh /\ priceUsd > 0
     /\ \A leg \in 1..3 : validDepth(legs[leg].points)
     /\ \A leg \in 1..(i - 1) : ~legs[leg].throws
     /\ \A leg \in 1..i : handed[leg] > 0
     /\ \A leg \in 2..i : depthAccepts(legs[leg].points, handed[leg])

\* A quote that is asked for and throws leaves buildLoopEdge by the throw.
LoopThrows(legs, fresh, tradeSize, priceUsd) ==
  \E i \in 1..3 : legs[i].throws /\ Asks(i, legs, fresh, tradeSize, priceUsd)

buildLoopEdge(legs, fresh, tradeSize, priceUsd, gasUsd, minNetUsd, pnlMultipleMin) ==
  LET start == StartOf(legs, tradeSize)
      mid == legs[1].out[start]
      last == legs[2].out[mid]
      back == legs[3].out[last]
      edge == [source |-> "triangular", sizeIn |-> start, finalOut |-> back,
               netUsd |-> (back - start) * priceUsd, gasUsd |-> (gasUsd * 18) \div 10,
               legs |-> <<Leg(legs[1].token, legs[2].token, legs[1].fee, start, mid),
                          Leg(legs[2].token, legs[3].token, legs[2].fee, mid, last),
                          Leg(legs[3].token, legs[1].token, legs[3].fee, last, back)>>]
  IN IF /\ Asks(3, legs, fresh, tradeSize, priceUsd) /\ ~legs[3].throws
        /\ back > start /\ edge.gasUsd > 0
        /\ PassesFloors(edge, minNetUsd, pnlMultipleMin)
     THEN {edge} ELSE {}
-----------------------------------------------------------------------------
(* Cross-chain: one quote per chain, [suggested, fallback, sampledBase,        *)
(* sampledQuote, venueFresh, gasUsd, quotePriceUsd].                           *)

\* loadQuotes: the venue with the most quote for the base; its primary depth
\* point, where there is one, replaces the quote just taken.
loadQuote(outs, depthOf, tradeSize) ==
  LET best == CHOOSE v \in DOMAIN outs : /\ \A w \in DOMAIN outs : outs[w] <= outs[v]
                                         /\ \A w \in DOMAIN outs : outs[w] = outs[v] => v <= w
      depth == depthOf[best]
  IN IF DOMAIN depth = {}
     THEN [sampledBase |-> tradeSize, sampledQuote |-> outs[best]]
     ELSE [sampledBase |-> Primary(depth).amountBaseIn, sampledQuote |-> Primary(depth).amountQuoteOut]

pickBaseAmount(quote) == IF quote.suggested > 0 THEN quote.suggested ELSE quote.fallback

scaleQuoteAmount(quote, baseAmount) ==
  IF quote.sampledQuote = 0 \/ quote.sampledBase = 0 THEN 0
  ELSE (baseAmount * quote.sampledQuote) \div quote.sampledBase

\* priceQuotePerBase of one quote above the other's.
Dearer(sell, buy) == sell.sampledQuote * buy.sampledBase > buy.sampledQuote * sell.sampledBase

\* computeEdges for one ordered pair of quotes; what it earns is num / den dollars,
\* net of the gas of both chains.
CrossChain(buy, sell, minNetUsd, pnlMultipleMin) ==
  LET amount == Min({pickBaseAmount(buy), pickBaseAmount(sell)})
      num == amount * (sell.sampledQuote * buy.sampledBase - buy.sampledQuote * sell.sampledBase)
               * (buy.quotePriceUsd + sell.quotePriceUsd)
      den == 2 * buy.sampledBase * sell.sampledBase
      gasUsd == buy.gasUsd + sell.gasUsd
  IN IF /\ buy.venueFresh /\ sell.venueFresh
        /\ amount > 0 /\ Dearer(sell, buy) /\ gasUsd > 0
        /\ num - gasUsd * den >= minNetUsd * den
        /\ num - gasUsd * den >= pnlMultipleMin * gasUsd * den
     THEN {[source |-> "cross-chain", sizeIn |-> amount, finalOut |-> 0, netUsd |-> num \div den - gasUsd,
            gasUsd |-> gasUsd,
            legs |-> <<Leg("quote", "base", 0, scaleQuoteAmount(buy, amount), amount),
                       Leg("base", "base", 0, amount, 0),
                       Leg("base", "quote", 0, amount, scaleQuoteAmount(sell, amount))>>]}
     ELSE {}
-----------------------------------------------------------------------------
(* The executor. *)

applySlippage(amount, slippageBps) == (amount * (10000 - clamp(slippageBps, 0, 10000))) \div 10000

\* buildPath: tokens in order with a fee between two, or none if a leg has no fee.
buildPath(legs) ==
  IF \E i \in DOMAIN legs : legs[i].feeBps <= 0 THEN NoPath
  ELSE [tokens |-> <<legs[1].tokenIn>> \o [i \in DOMAIN legs |-> legs[i].tokenOut],
        fees |-> [i \in DOMAIN legs |-> legs[i].feeBps]]

\* Mutant of amountOutMinimum: slippage is taken from what the first leg gives.
amountOutMinimumOfLeg(edge, slippageBps) == applySlippage(edge.legs[1].minAmountOut, slippageBps)

\* minOut: the solver's final output, or the input where it gives none, less slippage.
amountOutMinimum(edge, slippageBps) ==
  applySlippage(IF edge.finalOut > 0 THEN edge.finalOut ELSE edge.sizeIn, slippageBps)
=============================================================================

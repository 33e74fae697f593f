--------------------------- MODULE FabricDecisions ---------------------------
(***************************************************************************)
(* The arbitrage fabric asked for quotes, depth and edges.                    *)
(***************************************************************************)
EXTENDS Decision, FabricEdges

Bps == {0, 100, 5000}            \* slippage configured for the executor

\* Within its depth a pool pays something, and for many units no more each than for one.
Deepest == 5
ASSUME PoolAssumption ==
  \A amount \in 1..Deepest : PoolOut(amount) \in Nat /\ PoolOut(amount) > 0 /\ PoolOut(amount) <= amount * PoolOut(1)

\* No path is a path, whatever its tokens and fees.
Tokens == {"base", "quote", "A", "B", "C"}
ASSUME PathAssumption == NoPath \notin [tokens : Seq(Tokens), fees : Seq(Nat)]

Pools == [zeroForOne : BOOLEAN, price : (MIN_SQRT_RATIO + 1)..(MAX_SQRT_RATIO - 1),
          configured : {NoLimit} \cup MIN_SQRT_RATIO..MAX_SQRT_RATIO,
          depth : 0..Deepest, failure : {"insufficient-liquidity", "other"}]

AskQuote ==
  \E pool \in Pools, amountIn \in 0..9 :
    Decide([about |-> "quote", pool |-> pool, amountIn |-> amountIn,
            quote |-> quoteExactInput(pool, amountIn)])

\* A venue pays a whole price per unit, tier by tier, or nothing.
AskDepth ==
  \E price \in [{1, 2, 4, 6, 8} -> {0, 8, 9, 10}], maxSlippageBps \in {0, 1000} :
    Decide([about |-> "depth", price |-> price,
            points |-> refreshVenue(4, [a \in DOMAIN price |-> a * price[a]], maxSlippageBps)])

\* Two venues; selling pays `rate` / 2 quote per base, buying back returns `back`.
AskSingleHop ==
  \E suggested \in [{1, 2} -> {0, 2, 3}], rate, back \in [{1, 2} -> 0..3], fee \in [{1, 2} -> {5, 30}],
     gasUsd \in {0, 1}, multiple \in {0, 2}, low \in [{1, 2} -> BOOLEAN] :
    LET pair == [venues |-> {1, 2}, fee |-> fee, tradeSize |-> 3, suggested |-> suggested,
                 sold |-> [v \in {1, 2} |-> [a \in 0..3 |-> (a * rate[v]) \div 2]],
                 bought |-> [v \in {1, 2} |-> [q \in 0..9 |-> q * back[v]]],
                 estimateLow |-> [v \in {1, 2} |-> [w \in {1, 2} |-> low[v]]],
                 pricesKnown |-> TRUE, priceUsd |-> 1, gasUsd |-> gasUsd, minNetUsd |-> 1,
                 pnlMultipleMin |-> multiple]
    IN Decide([about |-> "edges", pair |-> pair, minNetUsd |-> 1,
               edges |-> computeEdgesForPair(pair)])

\* A chain's pairs, any of whose triangles may throw; the edge of a triangle stands for
\* what is offered over it.
AskLoops ==
  \E pairs \in [1..4 -> {p \in [baseToken : {"A", "B", "C"}, quoteToken : {"A", "B", "C"}] :
                           p.baseToken # p.quoteToken}] :
    \E throws \in SUBSET Loops(pairs) :
      Decide([about |-> "loops", pairs |-> pairs, throws |-> throws, tried |-> LoopsTried(pairs, throws),
              offered |-> EdgesOfChain(pairs, throws, [l \in Loops(pairs) |-> {l}])])

\* Three legs A -> B -> C -> A over measured venues, one of which may throw.
Depths == {<<[amountBaseIn |-> 2, fits |-> f]>> : f \in BOOLEAN} \cup
          {<<[amountBaseIn |-> 2, fits |-> TRUE], [amountBaseIn |-> 4, fits |-> f]>> : f \in BOOLEAN}

AskTriangle ==
  \E points \in [1..3 -> Depths], rate \in [1..3 -> 0..2], multiple \in {0, 1}, down \in 0..3 :
    LET legs == [i \in 1..3 |-> [points |-> points[i], token |-> <<"A", "B", "C">>[i], fee |-> 5,
                                 throws |-> (i = down), out |-> [a \in 0..16 |-> a * rate[i]]]]
    IN Decide([about |-> "edges", minNetUsd |-> 1, legs |-> legs, threw |-> LoopThrows(legs, TRUE, 2, 1),
               edges |-> buildLoopEdge(legs, TRUE, 2, 1, 1, 1, multiple)])

\* A chain whose better venue pays `out`, measured or not.
chainQuote(out, measured, suggested, gasUsd) ==
  LET depth == IF measured /\ out > 0 THEN <<[multiplier |-> FullSize, amountBaseIn |-> 2, amountQuoteOut |-> out]>>
               ELSE <<>>
      taken == loadQuote(<<out, out - 1>>, [v \in {1, 2} |-> depth], 2)
  IN [sampledBase |-> taken.sampledBase, sampledQuote |-> taken.sampledQuote, suggested |-> suggested,
      fallback |-> 2, venueFresh |-> TRUE, gasUsd |-> gasUsd, quotePriceUsd |-> 1]

AnswerCrossChain(buy, sell, multiple) ==
  Decide([about |-> "cross", minNetUsd |-> 1, buy |-> buy, sell |-> sell,
          edges |-> CrossChain(buy, sell, 1, multiple) \cup CrossChain(sell, buy, 1, multiple)])

AskCrossChain ==
  \E buyOut, sellOut \in 0..8, suggested \in {0, 1, 3}, gasUsd \in {1, 2}, multiple \in {0, 1},
     depth \in BOOLEAN :
    AnswerCrossChain(chainQuote(buyOut, depth, suggested, gasUsd), chainQuote(sellOut, depth, 2, gasUsd), multiple)

FabricDecides == AskQuote \/ AskDepth \/ AskSingleHop \/ AskLoops \/ AskTriangle \/ AskCrossChain
-----------------------------------------------------------------------------
(* What the fabric's figures are worth. *)

\* What a venue is said to pay is what its pool pays where the pool is deep enough;
\* beyond, dividing by four always ends at an amount the pool answers (so a pool with
\* any depth and any side left is never given up), and the figure scaled back up is
\* no better than the price of the first unit.
QuoteSound ==
  About("quote") =>
    LET pool == decision.pool
        amountIn == decision.amountIn
        quote == decision.quote
        open == \E i \in DOMAIN buildSqrtPriceLimits(pool) : LimitHolds(pool, buildSqrtPriceLimits(pool)[i])
    IN /\ (open /\ amountIn > 0 /\ pool.depth > 0 /\ pool.failure = "insufficient-liquidity") =>
            quote.kind = "value" /\ quote.out > 0
       /\ (open /\ amountIn \in 1..pool.depth) => quote.out = PoolOut(amountIn)
       /\ quote.out <= amountIn * PoolOut(1)
       /\ (quote.kind = "value" /\ amountIn > 0 /\ ~open) => quote = Zero

\* The size suggested for a venue was quoted there, and once any size is within the
\* slippage the suggested one is, and the depth check agrees.
DepthSound ==
  About("depth") =>
    LET points == decision.points
        amount == suggestBaseAmount(points, 4)
    IN DOMAIN points # {} =>
         /\ amount \in DOMAIN decision.price /\ decision.price[amount] > 0
         /\ validDepth(points) => depthAccepts(points, amount)

\* Every edge offered for execution sells no more than the depth the venues were
\* measured at, hands each leg what the one before gives, returns to its token, and
\* clears the floors, all its quotes having been answered; the executor's minimum output is then never below the input
\* less the configured slippage, over a path with one fee per hop.
EdgesSound ==
  About("edges") =>
    \A edge \in decision.edges :
      LET legs == edge.legs
          path == buildPath(legs)
      IN /\ \A i \in DOMAIN legs : i > 1 => /\ legs[i].tokenIn = legs[i - 1].tokenOut
                                            /\ legs[i].amountIn = legs[i - 1].minAmountOut
         /\ legs[1].amountIn = edge.sizeIn /\ Last(legs).minAmountOut = edge.finalOut
         /\ edge.netUsd >= decision.minNetUsd
         /\ path # NoPath /\ Head(path.tokens) = Last(path.tokens)
         /\ Len(path.tokens) = Len(path.fees) + 1
         /\ \A bps \in Bps : amountOutMinimum(edge, bps) >= applySlippage(edge.sizeIn, bps)
         /\ edge.source = "triangular" => ~decision.threw
         /\ edge.source = "triangular" =>
              \A i \in DOMAIN legs : \E p \in DOMAIN decision.legs[i].points :
                /\ decision.legs[i].points[p].fits
                /\ legs[i].amountIn <= decision.legs[i].points[p].amountBaseIn
         /\ edge.source = "single-hop" =>
              \A size \in {decision.pair.tradeSize} \cup {decision.pair.suggested[v] : v \in decision.pair.venues} :
                size > 0 => edge.sizeIn <= size

\* No two triangles tried are over the same pairs, whatever the order the configuration
\* lists them in, and every triangle is tried unless an earlier one threw.  A throw is
\* the chain's last try of the round and leaves it nothing to offer; without one, what
\* was found over every triangle is offered.
LoopsOnce ==
  About("loops") =>
    LET thrown == decision.tried \cap decision.throws
    IN /\ \A i, j, k \in DOMAIN decision.pairs :
            ClosesLoop(decision.pairs, i, j, k) =>
              \/ \E l \in decision.tried : loopKey(l) = loopKey(<<i, j, k>>)
              \/ \E t \in thrown : Earlier(t, <<i, j, k>>)
       /\ \A l, m \in decision.tried : loopKey(l) = loopKey(m) => l = m
       /\ \A t \in thrown, l \in decision.tried : ~Earlier(t, l)
       /\ decision.offered = IF thrown = {} THEN decision.tried ELSE {}

\* A cross-chain edge sells for more quote than it buys for, by more than both
\* chains' gas and the floor, in one direction only, and has no executable path.
CrossSound ==
  About("cross") =>
    /\ Cardinality({edge.legs : edge \in decision.edges}) <= 1
    /\ \A edge \in decision.edges :
         /\ Last(edge.legs).minAmountOut - Head(edge.legs).amountIn
              >= decision.minNetUsd + decision.buy.gasUsd + decision.sell.gasUsd
         /\ buildPath(edge.legs) = NoPath

FabricQuotesSound == QuoteSound /\ DepthSound
FabricEdgesSound == EdgesSound /\ LoopsOnce /\ CrossSound

\* Both: what is quoted is a limit the venues hold and depth they showed, and every edge
\* made of it closes, pays its gas and clears its floor.
FabricSound == FabricQuotesSound /\ FabricEdgesSound
=============================================================================

---------------------------- MODULE FabricQuotes ----------------------------
(***************************************************************************)
(* Quotes and depth of the arbitrage fabric: quoter_mesh.ts and               *)
(* price_graph.ts.  A pool is a record                                       *)
(*   [zeroForOne, price, configured, depth, failure]                         *)
(* : the side the swap takes, the square-root price now, the price limit the   *)
(* venue configures (or NoLimit), the largest input the quoter contract        *)
(* answers, and what it says beyond that.  Square-root prices are the whole    *)
(* numbers between MIN_SQRT_RATIO and MAX_SQRT_RATIO.                          *)
(***************************************************************************)
EXTENDS Integers, Sequences, SequencesExt, FiniteSetsExt

CONSTANTS MIN_SQRT_RATIO, MAX_SQRT_RATIO, NoLimit,
          PoolOut(_)      \* what an untouched pool pays for an input

ScaleFactor == 4
Zero == [kind |-> "value", out |-> 0]     \* the quote of a saturated venue

clamp(value, min, max) == IF value < min THEN min ELSE IF value > max THEN max ELSE value
ClampRatio(value) == clamp(value, MIN_SQRT_RATIO + 1, MAX_SQRT_RATIO - 1)

\* Each value once, at the place where it first stands.
uniqueValues(seq) ==
  [i \in {i \in DOMAIN seq : \A j \in DOMAIN seq : seq[j] = seq[i] => i <= j} |-> seq[i]]

\* The limits tried in turn.  The unlimited 0 is clamped like the others, so the
\* first one tried (after the venue's own) points down whatever the side.
buildSqrtPriceLimits(pool) ==
  LET own == IF pool.configured = NoLimit THEN <<>> ELSE <<pool.configured>>
      far == IF pool.zeroForOne THEN MIN_SQRT_RATIO + 1 ELSE MAX_SQRT_RATIO - 1
      near == IF pool.zeroForOne THEN pool.price - 1 ELSE pool.price + 1
      all == own \o <<0, far, near>>
  IN uniqueValues([i \in DOMAIN all |-> ClampRatio(all[i])])

\* The quoter contract: a limit on the wrong side of the price reverts with SPL,
\* an input beyond the pool's depth with the pool's failure.
LimitHolds(pool, limit) == IF pool.zeroForOne THEN limit < pool.price ELSE limit > pool.price

ContractAnswer(pool, limit, amount) ==
  IF ~LimitHolds(pool, limit) THEN [kind |-> "spl", out |-> 0]
  ELSE IF amount > pool.depth THEN [kind |-> pool.failure, out |-> 0]
  ELSE [kind |-> "value", out |-> PoolOut(amount)]

isRetryableQuoterError(kind) == kind \in {"spl", "insufficient-liquidity"}
isPriceLimitHardFailure(kind) == kind = "spl"

\* Mutant of QuoteAtLimit: a quote that fails on the way down ends at zero.
QuoteAtLimitNoUnit(pool, limit, amountIn) ==
  LET try[amount \in 0..amountIn] ==
        LET answer == ContractAnswer(pool, limit, amount)
        IN IF answer.kind = "value"
           THEN [answer EXCEPT !.out = (@ * amountIn) \div amount]
           ELSE IF isRetryableQuoterError(answer.kind) /\ amount \div ScaleFactor > 0
                THEN try[amount \div ScaleFactor]
                ELSE answer
  IN try[amountIn]

\* One limit: the amount is divided by four after each retryable error, down to
\* one, and what is quoted for the part is scaled up to the whole.
QuoteAtLimit(pool, limit, amountIn) ==
  LET try[amount \in 0..amountIn] ==
        LET answer == ContractAnswer(pool, limit, amount)
            smaller == IF amount \div ScaleFactor > 0 THEN amount \div ScaleFactor ELSE 1
        IN IF answer.kind = "value"
           THEN [answer EXCEPT !.out = (@ * amountIn) \div amount]
           ELSE IF isRetryableQuoterError(answer.kind) /\ amount > 1
                THEN try[smaller]
                ELSE answer
  IN try[amountIn]

\* quoteExactInput where no saturation is remembered: the first limit with a value,
\* else zero or a throw ("failed") by what the last limit said.
quoteExactInput(pool, amountIn) ==
  LET limits == buildSqrtPriceLimits(pool)
      answers == [i \in DOMAIN limits |-> QuoteAtLimit(pool, limits[i], amountIn)]
      valued == {i \in DOMAIN limits : answers[i].kind = "value"}
  IN IF amountIn = 0 THEN [kind |-> "failed", out |-> 0]
     ELSE IF valued # {} THEN answers[Min(valued)]
     ELSE IF isPriceLimitHardFailure(answers[Max(DOMAIN limits)].kind) THEN Zero
     ELSE [kind |-> "failed", out |-> 0]
-----------------------------------------------------------------------------
(* The price graph: one venue is measured at several multiples (in quarters,   *)
(* FullSize is the configured trade) of the trade size.                        *)

FullSize == 4
Tiers == <<1, 2, 4, 6, 8>>      \* DEFAULT_DEPTH_TIERS

scaleAmount(base, multiplier) == (base * multiplier) \div FullSize

\* Up to the full size a tier without a quote is skipped; from there on it ends
\* the measurement.  quoted gives for an amount what the venue pays for it.
Measured(tradeSize, quoted) ==
  LET amount == [i \in DOMAIN Tiers |-> scaleAmount(tradeSize, Tiers[i])]
      good(i) == amount[i] > 0 /\ quoted[amount[i]] > 0
      ends(i) == Tiers[i] >= FullSize /\ amount[i] > 0 /\ ~good(i)
      last == IF \E i \in DOMAIN Tiers : ends(i)
              THEN Min({i \in DOMAIN Tiers : ends(i)}) - 1 ELSE Len(Tiers)
  IN [i \in {j \in 1..last : good(j)} |->
        [multiplier |-> Tiers[i], amountBaseIn |-> amount[i], amountQuoteOut |-> quoted[amount[i]]]]

\* getPrimaryPoint: the point at full size, else the largest.
Primary(depth) ==
  LET full == {i \in DOMAIN depth : depth[i].multiplier = FullSize}
  IN depth[IF full # {} THEN Min(full) ELSE Max(DOMAIN depth)]

\* Math.abs(point.slippageBps) <= maxSlippageBps, with the price per unit compared
\* to the primary point's.
WithinSlippage(depth, point, maxSlippageBps) ==
  LET base == Primary(depth)
      here == point.amountQuoteOut * base.amountBaseIn
      there == base.amountQuoteOut * point.amountBaseIn
      gap == IF here > there THEN here - there ELSE there - here
  IN gap * 10000 <= maxSlippageBps * there

refreshVenue(tradeSize, quoted, maxSlippageBps) ==
  LET depth == Measured(tradeSize, quoted)
  IN [i \in DOMAIN depth |->
        [multiplier |-> depth[i].multiplier, amountBaseIn |-> depth[i].amountBaseIn,
         amountQuoteOut |-> depth[i].amountQuoteOut, fits |-> WithinSlippage(depth, depth[i], maxSlippageBps)]]

\* Mutant of suggestBaseAmount: the deepest point, whatever its slippage.
suggestDeepest(points, tradeSize) ==
  IF points = <<>> THEN tradeSize ELSE points[Max(DOMAIN points)].amountBaseIn

\* The largest point within the slippage, else the smallest, else the trade size.
suggestBaseAmount(points, tradeSize) ==
  LET fitting == {i \in DOMAIN points : points[i].fits}
  IN IF DOMAIN points = {} THEN tradeSize
     ELSE points[IF fitting # {} THEN Max(fitting) ELSE Min(DOMAIN points)].amountBaseIn

\* estimateNetUsdWithSell(...).netUsd below 60 % of the floor at this size: what the
\* sale brought, bought back at the primary point's price, which must be fresh.
EstimateTooLow(primary, fresh, sold, amount, tradeSize, basePriceUsd, minNetUsd) ==
  /\ fresh
  /\ (sold * primary.amountBaseIn - amount * primary.amountQuoteOut) * basePriceUsd * 10 * tradeSize
       < 6 * minNetUsd * amount * primary.amountQuoteOut
-----------------------------------------------------------------------------
(* Depth as the triangular solver uses it. *)

validDepth(points) == \E i \in DOMAIN points : points[i].fits

\* The smallest fitting point of at least the amount, else the largest fitting one.
selectDepthPoint(points, amount) ==
  LET fitting == {i \in DOMAIN points : points[i].fits}
      large == {i \in fitting : points[i].amountBaseIn >= amount}
  IN points[IF large # {} THEN Min(large) ELSE Max(fitting)]

\* Mutant of depthAccepts: any fitting point will do.
depthAcceptsAny(points, amount) == amount > 0 /\ validDepth(points)

depthAccepts(points, amount) ==
  /\ amount > 0
  /\ validDepth(points)
  /\ selectDepthPoint(points, amount).amountBaseIn >= amount
=============================================================================

----------------------------- MODULE RouteOptions -----------------------------
(***************************************************************************)
(* The swap routes tried for one liquidation: util/routes.ts lists them,      *)
(* simulator/router.ts quotes them, executor/allow_router.ts has the contract  *)
(* allow their routers.                                                      *)
(*                                                                         *)
(* A chain is [tokens, uniV3Router, dex]: tokens the configured entries        *)
(* [symbol, address, class] in order, several of which may share an address;   *)
(* class "stable" and "weth" stand for what the symbol's spelling tells.  dex  *)
(* is NoRouter or [uniV3, v2, solidly]: the Uniswap v2 routers in the order    *)
(* listed, repeats included, and the configured Solidly routers.              *)
(***************************************************************************)
EXTENDS Integers, Sequences, FiniteSets, SequencesExt, FiniteSetsExt, Functions

CONSTANTS NoRouter, PeggedPairs, Failure,
          AbiHasAllowedRouters    \* FALSE for the interface files in the repository

isStableSymbol(token) == token.class = "stable"
isPeggedPair(a, b) == a.symbol = b.symbol \/ {a.symbol, b.symbol} \in PeggedPairs
isStablePair(a, b) == (isStableSymbol(a) /\ isStableSymbol(b)) \/ isPeggedPair(a, b)

uniFeesForPair(a, b) == IF isStablePair(a, b) THEN <<100, 500, 3000, 10000>> ELSE <<500, 3000, 10000>>
pickFee(a, b) == IF isStablePair(a, b) THEN 100 ELSE 500

\* The entry an address is known by: the first that has it.
symbolForAddress(tokens, address) ==
  tokens[Min({i \in DOMAIN tokens : tokens[i].address = address})]

\* The entries of seq at these places, in their order.
AtPlaces(seq, places) ==
  LET nth(k) == CHOOSE i \in places : Cardinality({j \in places : j <= i}) = k
  IN [k \in 1..Cardinality(places) |-> seq[nth(k)]]

\* Each entry once, where it first stands.
Distinct(seq) == AtPlaces(seq, {i \in DOMAIN seq : \A j \in DOMAIN seq : seq[j] = seq[i] => i <= j})

\* One stop at every stable, then at every wrapped ether, that is neither end.
multiHopCandidates(tokens, coll, debt) ==
  LET via(class) ==
        AtPlaces(tokens, {i \in DOMAIN tokens : /\ tokens[i].class = class
                                                /\ tokens[i].address \notin {coll.address, debt.address}})
      hop(t) == LET known == symbolForAddress(tokens, t.address)
                IN [path |-> <<coll.address, t.address, debt.address>>,
                    fees |-> <<pickFee(coll, known), pickFee(known, debt)>>]
      middles == via("stable") \o via("weth")
  IN Distinct([i \in DOMAIN middles |-> hop(middles[i])])

UniV3(router, fees) == [i \in DOMAIN fees |-> [type |-> "UniV3", router |-> router, fee |-> fees[i]]]

UniV3Multi(router, hops) ==
  LET simple == AtPlaces(hops, {i \in DOMAIN hops : Cardinality(ToSet(hops[i].path)) = Len(hops[i].path)})
  IN [i \in DOMAIN simple |->
        [type |-> "UniV3Multi", router |-> router, path |-> simple[i].path, fees |-> simple[i].fees]]

\* pushUniV2: each router once.
UniV2(routers) ==
  LET once == Distinct(routers) IN [i \in DOMAIN once |-> [type |-> "UniV2", router |-> once[i]]]

\* Each router's stable pool, then its volatile one.
Solidly(routers) ==
  [i \in 1..(2 * Len(routers)) |->
     [type |-> "SolidlyV2", router |-> routers[(i + 1) \div 2], stable |-> i % 2 = 1]]

buildRouteOptions(chain, debt, coll) ==
  LET fees == uniFeesForPair(debt, coll)
      v3 == IF chain.dex # NoRouter /\ chain.dex.uniV3 # NoRouter THEN chain.dex.uniV3 ELSE chain.uniV3Router
      ours == IF v3 = NoRouter THEN <<>> ELSE UniV3(v3, fees)
  IN IF chain.dex = NoRouter THEN ours
     ELSE ours
          \o (IF v3 = NoRouter THEN <<>> ELSE UniV3Multi(v3, multiHopCandidates(chain.tokens, coll, debt)))
          \o UniV2(chain.dex.v2)
          \o Solidly(chain.dex.solidly)

\* The fee at which the gap between oracle and pool is measured.
gapFee(chain, debt, coll) ==
  IF isStablePair(debt, coll) THEN 100 ELSE IF chain.dex = NoRouter THEN 500 ELSE 3000
-----------------------------------------------------------------------------
(* Quoting.  answers is what the quoter says at each attempt, Failure included. *)

\* quoteUniV3 asks without a price limit, then with the furthest one.
quoteUniV3(answers) == IF answers[1] # Failure THEN answers[1] ELSE answers[2]

quoted(option, answers) == IF option.type = "UniV3" THEN quoteUniV3(answers) ELSE answers[1]

\* buildRouteQuote: any error gives no quote, and so does a router the contract does
\* not allow, where the contract's interface as shipped lets the question be asked.
buildRouteQuote(option, answers, allowedRouters, slippageBps) ==
  LET out == quoted(option, answers)
  IN IF (AbiHasAllowedRouters /\ option.router \notin allowedRouters) \/ out = Failure THEN Failure
     ELSE [option |-> option, quotedOut |-> out, amountOutMin |-> (out * (10000 - slippageBps)) \div 10000]

\* The quotes there are, each at the place of its option; none for nothing to sell.
quoteRoutes(options, answers, allowedRouters, seizeAmount, slippageBps) ==
  LET quote(i) == buildRouteQuote(options[i], answers[options[i]], allowedRouters, slippageBps)
  IN [i \in {j \in DOMAIN options : seizeAmount # 0 /\ quote(j) # Failure} |-> quote(i)]

\* bestRoute: the first with the largest quote.
bestRoute(quotes) ==
  IF DOMAIN quotes = {} THEN Failure
  ELSE LET largest == Max({quotes[i].quotedOut : i \in DOMAIN quotes})
       IN quotes[Min({i \in DOMAIN quotes : quotes[i].quotedOut = largest})]
-----------------------------------------------------------------------------
(* collectRouters: what the contract is asked to allow at the start. *)

collectRouters(chain, markets) ==
  LET used == {option.router : option \in UNION {ToSet(buildRouteOptions(chain, m.debt, m.coll)) : m \in markets}}
      listed == IF chain.dex = NoRouter THEN {} ELSE {chain.dex.uniV3} \cup ToSet(chain.dex.solidly)
  IN (used \cup listed \cup {chain.uniV3Router}) \ {NoRouter}

WithNonce(acc, router, next) ==
  [acc EXCEPT !.sent = Append(@, [router |-> router, nonce |-> acc.nonce]), !.nonce = next]

\* Mutant of allowNext: after a failed write the count goes on from where it was.
allowNextKeepsNonce(acc, router, answer, count) ==
  CASE answer \in {"allowed", "unreadable", "refused-unread", "refused"} -> acc
    [] answer = "receipt-lost" -> WithNonce(acc, router, acc.nonce)
    [] answer \in {"sent", "receipt-lost-unread"} -> WithNonce(acc, router, acc.nonce + 1)

\* One router of ensureRoutersAllowed: asked, and if need be sent with the next nonce;
\* a failure, before the write or while its receipt is awaited, has the nonce read
\* again from the chain, where count transactions of the account are pending or done.
\* That read may fail as well ("-unread").
allowNext(acc, router, answer, count) ==
  CASE answer \in {"allowed", "unreadable", "refused-unread"} -> acc
    [] answer = "refused" -> [acc EXCEPT !.nonce = count]
    [] answer = "receipt-lost" -> WithNonce(acc, router, count + 1)
    [] answer \in {"sent", "receipt-lost-unread"} -> WithNonce(acc, router, acc.nonce + 1)

\* Nothing catches the count: where it cannot be read, at the start or after a failure,
\* the function rejects and the routers left are not asked about.
Unread == {"refused-unread", "receipt-lost-unread"}

\* Mutant of Reached: a failing read is caught like the failing write.
ReachesAll(answers, n) == n

Reached(answers, n) ==
  LET rejecting == {i \in 1..n : answers[i] \in Unread}
  IN IF rejecting = {} THEN n ELSE Min(rejecting)

ensureRoutersAllowed(routers, answers, first) ==
  LET tried == Reached(answers, Len(routers))
      after[n \in 0..tried] ==
        IF n = 0 THEN [sent |-> <<>>, nonce |-> first]
        ELSE allowNext(after[n - 1], routers[n], answers[n], first + Len(after[n - 1].sent))
  IN IF first = Failure THEN [sent |-> <<>>, rejected |-> TRUE]
     ELSE [sent |-> after[tried].sent,
           rejected |-> (\E i \in 1..Len(routers) : answers[i] \in Unread)]
=============================================================================

---------------------------- MODULE IndexerDecisions ----------------------------
(***************************************************************************)
(* The indexers asked what they find, the predictors what they expect, the price *)
(* watcher for a price.                                                      *)
(***************************************************************************)
EXTENDS Decision, Indexers, Predictor, PriceResolver

\* No candidate is one, whatever its health factor.
ListedUsers == {"u", "v"}
ListedAssets == {"A", "B", "C", "D"}
ASSUME CandidateAssumption ==
  NoCandidate \notin [user : ListedUsers, hf : Int, debt : ListedAssets, coll : ListedAssets]

\* What an account has of an asset: of A it may owe or hold, of B it may hold or owe.
RowsOf(user, hf) ==
  LET row(asset, debt, collateral, price) ==
        [user |-> user, hf |-> hf, asset |-> asset, debt |-> debt, collateral |-> collateral,
         asCollateral |-> collateral # 3, price |-> price, threshold |-> 8000]
      kinds(asset) == {row(asset, d, c, p) : d \in {0, 4, 8}, c \in {0, 3, 9}, p \in {0, 1}}
  IN {<<a, b>> : a \in kinds("A"), b \in kinds("B") \cup kinds(NoAddress)}

\* A batch brings every row of its users.
ASSUME RowsAssumption == RowLimit >= 3

AnswerAccounts(rows, scan, answers, settings) ==
  Decide([about |-> "accounts", rows |-> rows, scan |-> scan, answers |-> answers, settings |-> settings,
          found |-> pollChainCandidatesOnce(rows, scan, answers, settings),
          alone |-> fetchBorrowerCandidates(rows, "u", answers, settings)])

\* Two rows of an account, and between them one of another that owes A.
withOther(own) == <<own[1], [own[1] EXCEPT !.user = "v", !.hf = NoHf, !.debt = 4, !.asset = "A"], own[2]>>

AskAccounts ==
  \E hf \in {NoHf, 9000}, answers \in {<<>>, [A |-> 2, Eth |-> 2], [A |-> 2]}, hfThreshold \in {8500, 9800},
     scan \in {<<"u", "v">>, <<"v", "v", "u">>}, first \in {1, 2} :
    \E own \in RowsOf("u", hf) :
      AnswerAccounts(withOther(own), scan, answers, [first |-> first, hfThreshold |-> hfThreshold])

Boosts == {[kind |-> "boost", hf |-> h, first |-> f, duration |-> d] : h \in {0, 1000, 10500}, f \in {0, 2000}, d \in {1, 3}}
Waits == {[kind |-> k] : k \in {"tick", "ask"}}

nextOverride(config, override, event) ==
  CASE event.kind = "boost" -> requestIndexerBoost(override, event.hf, event.first, event.duration)
    [] event.kind = "tick" -> [override EXCEPT !.left = IF @ = 0 THEN 0 ELSE @ - 1]
    [] event.kind = "ask" -> getIndexerSettings(config, override).override

overrideAfter(config, events) ==
  LET after[n \in 0..Len(events)] == IF n = 0 THEN NoBoost ELSE nextOverride(config, after[n - 1], events[n])
  IN after[Len(events)]

AnswerBoosts(config, events) ==
  Decide([about |-> "boosts", events |-> events, config |-> config,
          settings |-> getIndexerSettings(config, overrideAfter(config, events)).settings])

AskBoosts ==
  \E events \in UNION {[1..n -> Boosts \cup Waits] : n \in 1..3} :
    AnswerBoosts([hfThreshold |-> 9800, first |-> 500], events)

\* Polls of a chain that find the one or the other of two candidates.
foundIn(poll) == [k \in DOMAIN poll |-> [user |-> poll[k], debt |-> "A", coll |-> "B"]]
NothingOut == [seen |-> <<>>, out |-> <<>>]

streamOf(polls, params, gap) ==
  LET after[n \in 0..Len(polls)] ==
        IF n = 0 THEN [acc |-> NothingOut, interval |-> params.base, next |-> 0]
        ELSE streamMorphoTurn(after[n - 1], foundIn(polls[n]), params, gap * n, 4)
  IN after

AnswerStream(polls, params, gap) ==
  Decide([about |-> "stream", polls |-> polls, params |-> params, gap |-> gap, states |-> streamOf(polls, params, gap)])

AskStream ==
  \E polls \in [1..4 -> {<<>>, <<"u">>, <<"u", "v">>}], desired \in {Unset, 2, 5}, gap \in {1, 3, 6} :
    AnswerStream(polls, resolveChainPollingConfig(desired), gap)

AnswerCompound(account, comets) ==
  Decide([about |-> "compound", account |-> account, comets |-> comets,
          polled |-> pollCompoundV3CandidatesOnce(<<account>>, comets),
          streamed |-> streamCompoundV3Poll(NothingOut, <<account>>, comets, 1, 4).out])

\* Owes the one asset or the other or nothing, holds up to two.
AccountOf(health, owed, held, whole) ==
  [user |-> "u", health |-> health,
   tokens |-> [i \in 1..2 |-> [asset |-> <<"A", "D">>[i], balance |-> IF owed = i THEN -4 ELSE 1, whole |-> TRUE]],
   collateral |-> [i \in DOMAIN held |-> [asset |-> <<"B", "C">>[i], balance |-> held[i], whole |-> whole]]]

AskCompound ==
  \E health \in {NoHf, 9000, 10000}, owed \in {0, 1, 2}, held \in {<<>>, <<5>>, <<5, 7>>, <<7, 7>>}, whole \in BOOLEAN,
     comets \in 1..2 : AnswerCompound(AccountOf(health, owed, held, whole), comets)

\* A position at a health factor, enriched, and once more at another one.
enriched(offer, cache, hf, now) ==
  LET candidate == toCandidate([user |-> "u", hf |-> hf, debt |-> 5, loanAsset |-> "A", collAsset |-> "B"])
  IN IF candidate = NoCandidate THEN [cache |-> cache, terms |-> NoOfferTerms]
     ELSE enrichWithPreLiqOffer(candidate, offer, cache, 10500, now)

AnswerOffer(offer, first, second) ==
  LET one == enriched(offer, NoOfferTerms, first, 1)
  IN Decide([about |-> "offer", offer |-> offer, hfs |-> <<first, second>>,
             terms |-> <<one.terms, enriched(offer, one.cache, second, 2).terms>>])

OffersRead ==
  [address : {NoAddress, "offer"}, authorized : BOOLEAN, readable : BOOLEAN, preLLTV : {8000, 9500},
   lcf : {<<2000, 6000>>}, lif : {<<10100, 10400>>}, expiry : 1..3]

AskOffer == \E offer \in OffersRead, first, second \in {0, 9000, 10000, 10200, 10600} : AnswerOffer(offer, first, second)

statsAfter(updates) ==
  LET after[n \in 0..Len(updates)] == IF n = 0 THEN NoStats ELSE recordFeedUpdate(after[n - 1], updates[n])
  IN after[Len(updates)]

AnswerFeed(updates, now, gapBps, hf) ==
  Decide([about |-> "feed", updates |-> updates, now |-> now, gapBps |-> gapBps, hf |-> hf,
          precommits |-> shouldPrecommit(statsAfter(updates), now, gapBps, hf, 980)])

AskFeed ==
  \E updates \in UNION {[1..n -> 1..5] : n \in 1..4}, later \in 1..3, gapBps \in {100, 200}, hf \in {970, 980, 1010, 1011} :
    \E newest \in ToSet(updates) :
      /\ \A t \in ToSet(updates) : t <= newest
      /\ AnswerFeed(updates, newest + later, gapBps, hf)

\* Each tick sees an account in two candidates.
seenTwice(hf) == <<[user |-> "u", hf |-> hf], [user |-> "u", hf |-> hf]>>

scansQueued(hfs, pace) ==
  LET after[n \in 0..Len(hfs)] == IF n = 0 THEN NoScans ELSE tick(after[n - 1], seenTwice(hfs[n]), pace * n)
  IN after[Len(hfs)].queued

AnswerScan(hfs, pace) == Decide([about |-> "scan", hfs |-> hfs, pace |-> pace, queued |-> scansQueued(hfs, pace)])

AskScan == \E hfs \in [1..4 -> {980, 1000, 1016, 1040, 1130}], pace \in 1..3 : AnswerScan(hfs, pace)

IndexersDecide == AskAccounts \/ AskBoosts \/ AskStream \/ AskCompound \/ AskOffer \/ AskFeed \/ AskScan
-----------------------------------------------------------------------------
\* The price a row has, of its own or through the oracle; where neither has one, this.
PriceOr(answers, row, missing) ==
  IF row.price > 0 THEN row.price
  ELSE IF row.asset \in DOMAIN answers /\ Ether \in DOMAIN answers
       THEN (answers[row.asset] * Scale) \div answers[Ether] ELSE missing

\* What the rows owe, and what they hold after their thresholds.
OwedIn(rows, answers, missing) ==
  LET upTo[n \in 0..Len(rows)] ==
        IF n = 0 THEN 0 ELSE upTo[n - 1] + rows[n].debt * PriceOr(answers, rows[n], missing)
  IN upTo[Len(rows)]

Counted(answers, row, missing) ==
  IF row.asCollateral THEN (row.collateral * PriceOr(answers, row, missing) * row.threshold) \div 10000 ELSE 0
HeldIn(rows, answers, missing) ==
  LET upTo[n \in 0..Len(rows)] == IF n = 0 THEN 0 ELSE upTo[n - 1] + Counted(answers, rows[n], missing)
  IN upTo[Len(rows)]

\* The different assets of a debt and a collateral of the rows.
Apart(rows) ==
  LET known == {r \in ToSet(rows) : r.asset # NoAddress}
  IN {p \in {d.asset : d \in {r \in known : r.debt > 0}} \X {c.asset : c \in {r \in known : r.collateral > 0 /\ r.asCollateral}} :
        p[1] # p[2]}

\* Those of a scan until it has met as many different ones.
Scanned(scan, first) == {scan[i] : i \in {i \in DOMAIN scan : Cardinality({scan[j] : j \in 1..i}) <= first}}

\* Of an account that was scanned, these candidates are rightly found.
RightlyListed(rows, found, answers, threshold) ==
  LET short(missing) == 10000 * HeldIn(rows, answers, missing) < threshold * OwedIn(rows, answers, missing)
      priced == \A i \in DOMAIN rows : PriceOr(answers, rows[i], 0) > 0
      debtsPriced == \A i \in DOMAIN rows : rows[i].debt > 0 => PriceOr(answers, rows[i], 0) > 0
      unknown == rows[1].hf = NoHf
  IN /\ {<<c.debt, c.coll>> : c \in found} \in {{}, Apart(rows)}
     /\ \A c \in found : c.hf < threshold
     /\ priced /\ unknown /\ HeldIn(rows, answers, 0) > 0 => (found = {} <=> ~short(0) \/ Apart(rows) = {})
     /\ debtsPriced /\ unknown /\ (\E p \in 1..2 : short(p) /\ HeldIn(rows, answers, p) > 0) /\ Apart(rows) # {} =>
          found # {}
     /\ ~unknown /\ Apart(rows) # {} => (found # {} <=> rows[1].hf < threshold)

\* An account that is scanned and whose prices are all known is listed exactly when what
\* it holds, after its thresholds, covers too little of what it owes, every debt with
\* every other asset held; an unknown price of something held hides no account that any
\* price of it would put below the threshold.  (An unknown price of a debt does.)  The
\* look at one account finds what the poll finds.
AccountsSound ==
  About("accounts") =>
    LET scanned == Scanned(decision.scan, decision.settings.first)
        found(user) == {c \in decision.found : c.user = user}
    IN /\ \A user \in scanned :
            RightlyListed(OfUsers(decision.rows, {user}), found(user), decision.answers, decision.settings.hfThreshold)
       /\ \A c \in decision.found : c.user \in scanned
       /\ "u" \in scanned => decision.alone = found("u")

\* The last boost has not run out.
Running(events) ==
  \E i \in DOMAIN events :
    /\ events[i].kind = "boost"
    /\ \A j \in (i + 1)..Len(events) : events[j].kind # "boost"
    /\ Cardinality({j \in (i + 1)..Len(events) : events[j].kind = "tick"}) < events[i].duration

\* Settings are the configured ones as soon as the last boost has run out, and a
\* threshold is never below the floor, a page never above its largest.
BoostSound ==
  About("boosts") =>
    /\ ~Running(decision.events) => decision.settings = decision.config
    /\ decision.settings.hfThreshold >= 3000 /\ decision.settings.first <= 1000

\* Of a stream: the same candidate passes twice only a window apart, one is withheld only
\* for one that passed within the window, counted from poll to poll and whenever the consumer
\* asks for what passed, and no chain waits longer than its longest interval.
StreamSound ==
  About("stream") =>
    LET out == decision.states[Len(decision.polls)].acc.out
        params == decision.params
    IN /\ \A i, j \in DOMAIN out : i < j /\ out[i].c = out[j].c => out[j].at - out[i].at >= 4
       /\ \A i \in DOMAIN decision.polls : \A k \in DOMAIN decision.polls[i] :
            decision.gap * i >= decision.states[i - 1].next =>
              \E o \in ToSet(out) : /\ o.c.user = decision.polls[i][k]
                                    /\ o.at <= decision.gap * i /\ decision.gap * i - o.at < 4
       /\ \A i \in DOMAIN decision.states :
            /\ decision.states[i].interval <= (IF params.success > params.most THEN params.success ELSE params.most)
            /\ decision.states[i].next <= decision.gap * i + params.most \/ decision.states[i].interval = params.success

\* Of Compound: a candidate is an account below one, with its largest collateral; a poll
\* repeats it for every market, the stream does not.
CompoundSound ==
  About("compound") =>
    LET account == decision.account
    IN /\ Len(decision.polled) \in {0, decision.comets}
       /\ Len(decision.streamed) = (IF decision.polled = <<>> THEN 0 ELSE 1)
       /\ \A c \in ToSet(decision.polled) :
            /\ account.health < 10000
            /\ \A held \in ToSet(account.collateral) :
                 held.balance <= (CHOOSE h \in ToSet(account.collateral) : h.asset = c.coll).balance

\* Of Morpho: terms are attached between one and the bound only, by leave of the borrower,
\* before their expiry.  There the code's interpolation stands at its upper end, so that
\* they are the offer's second ones whatever the health factor, read or cached; that the
\* documents mean others is OffersInterpolate.
OfferSound ==
  About("offer") =>
    \A i \in 1..2 :
      LET hf == decision.hfs[i]
          terms == decision.terms[i]
      IN /\ terms # NoOfferTerms =>
              /\ hf > 10000 /\ hf < 10500
              /\ decision.offer.authorized /\ terms.expiry > i
              /\ terms.closeFactor = decision.offer.lcf[2] /\ terms.incentive = decision.offer.lif[2]
         /\ hf = 10200 /\ decision.offer.authorized /\ decision.offer.readable /\ decision.offer.address # NoAddress
              /\ decision.offer.expiry > i => terms # NoOfferTerms

\* What the comment at morphoblue_indexer.ts:336 and the example at
\* PRELIQ_INTEGRATION_COMPLETE.md:257 say of the same terms: they lie between the offer's
\* two, the first ones at a health factor of one and never, above it, the second.
OffersInterpolate ==
  About("offer") =>
    \A i \in 1..2 :
      decision.terms[i] # NoOfferTerms =>
        /\ decision.offer.lcf[1] <= decision.terms[i].closeFactor /\ decision.terms[i].closeFactor < decision.offer.lcf[2]
        /\ decision.offer.lif[1] <= decision.terms[i].incentive /\ decision.terms[i].incentive < decision.offer.lif[2]

\* A precommit is for an account within the margin over its cap and a feed whose updates
\* came often enough and in some interval; where they came in order, it is overdue by
\* four fifths of the shortest interval at least.
FeedSound ==
  (About("feed") /\ decision.precommits) =>
    LET updates == decision.updates
        intervals == {updates[i + 1] - updates[i] : i \in 1..(Len(updates) - 1)}
    IN /\ Len(updates) > MinSamples /\ \E i \in intervals : i > 0
       /\ decision.hf \in 980..(980 + HfMargin) /\ decision.gapBps >= MinGapBps
       /\ (\A i \in intervals : i > 0) =>
            \E i \in intervals : 10 * (decision.now - Last(updates)) >= 8 * i

\* An account is handled ahead once in a cooldown, and only at a tick that saw it in the
\* band and lower than at the last tick that did; the first such fall is never missed.
ScanSound ==
  About("scan") =>
    LET hfs == decision.hfs
        inBand(i) == hfs[i] > HfFloor /\ hfs[i] <= HfCeiling
        before(i) == {j \in 1..(i - 1) : inBand(j)}
        lastBefore(i) == CHOOSE j \in before(i) : \A k \in before(i) : k <= j
        falls(i) == /\ inBand(i) /\ before(i) # {}
                    /\ LET drop == hfs[lastBefore(i)] - hfs[i]
                       IN drop > MinDrop /\ drop >= MinSlope * decision.pace * (i - lastBefore(i))
        fallen == {i \in DOMAIN hfs : falls(i)}
    IN /\ \A q \in ToSet(decision.queued) : \E i \in fallen : q.at = decision.pace * i
       /\ \A i, j \in DOMAIN decision.queued : i < j => decision.queued[j].at - decision.queued[i].at >= Cooldown
       /\ fallen # {} => decision.queued # <<>>

DiscoverySound ==
  AccountsSound /\ BoostSound /\ StreamSound /\ CompoundSound /\ OfferSound /\ FeedSound /\ ScanSound
-----------------------------------------------------------------------------
(* Prices. *)

StableOrder == <<"USDbC", "USDC">>

\* Enough to go from a token through ether and both stables.
ASSUME CallsAssumption == Calls >= 4

\* The tokens of a chain; feeds of stables are in dollars.
PricedTokens == {"T", "USDbC", "USDC", "WETH"}
Stables == {"USDbC", "USDC"}
answerOf(t) == CASE t = "T" -> 5 [] t = "WETH" -> 3 [] OTHER -> 1

\* What the guard took last: for T, a price its answer does not jump from but that in ether
\* does; for ether, one its answer jumps from.
lastOf(t) == CASE t = "T" -> 3 [] OTHER -> 1

chainOf(usable, eth, wethFeed, routes, chainHas, taken) ==
  [t \in chainHas |->
     [feed |-> t # "WETH" \/ wethFeed, usable |-> usable[t], eth |-> t = "T" /\ eth, answer |-> answerOf(t),
      rate |-> [s \in Stables |-> IF <<t, s>> \in routes THEN answerOf(t) ELSE 0],
      last |-> IF t \in taken THEN lastOf(t) ELSE Unpriced]]

AnswerPrice(chain, quote) ==
  LET price == cachedOraclePrice(chain, StableOrder)
  IN Decide([about |-> "price", chain |-> chain, price |-> price,
             gap |-> IF Endless \in {price["T"], price["USDC"]} THEN 0
                     ELSE oracleDexGapBps(price["T"], price["USDC"], quote), quote |-> quote])

AskPrice ==
  \E usable \in [PricedTokens -> BOOLEAN], eth, wethFeed \in BOOLEAN,
     routes \in SUBSET {<<"T", "USDbC">>, <<"T", "USDC">>, <<"USDbC", "USDC">>,
                        <<"USDC", "USDbC">>, <<"WETH", "USDC">>},
     chainHas \in {PricedTokens, {"T", "USDC"}}, quote \in {0, 5, 6}, taken \in SUBSET {"T", "WETH"} :
    /\ quote = 5 \/ routes = {}
    /\ AnswerPrice(chainOf(usable, eth, wethFeed, routes, chainHas, taken), quote)

cachedAfter(events) ==
  LET after[n \in 0..Len(events)] == IF n = 0 THEN NoRoute ELSE cachedBestRoute(after[n - 1], events[n])
  IN after[Len(events)]

AskRouteCache ==
  \E events \in UNION {[1..n -> {"ask", "route", "null", "reject", "tick"}] : n \in 1..6} :
    Decide([about |-> "route-cache", entry |-> cachedAfter(events)])

PricesDecide == AskPrice \/ AskRouteCache
-----------------------------------------------------------------------------
Usable(chain, t) == chain[t].feed /\ chain[t].usable
Dollars(chain, t) == Usable(chain, t) /\ ~chain[t].eth

\* Two stables without answers of their own that are routed to each other.
Circle(chain) ==
  \E s, t \in DOMAIN chain :
    /\ s # t /\ {s, t} \subseteq ToSet(StableOrder)
    /\ ~Usable(chain, s) /\ ~Usable(chain, t)
    /\ chain[s].rate[t] > 0 /\ chain[t].rate[s] > 0

\* A price that is near enough to the last one taken, and what is shown of one that is found.
Steady(chain, t, price) ==
  \/ chain[t].last = Unpriced
  \/ price - chain[t].last <= PriceJump * chain[t].last /\ chain[t].last - price <= PriceJump * chain[t].last
Shown(chain, t, price, found) == price = IF Steady(chain, t, found) THEN found ELSE chain[t].last

IsPriceOf(chain, price, t) ==
  /\ price[t] = Endless => Circle(chain)
  /\ Dollars(chain, t) => Shown(chain, t, price[t], chain[t].answer)
  /\ (~Usable(chain, t) /\ price[t] \notin {Unpriced, Endless}) =>
       \E s \in ToSet(StableOrder) \cap DOMAIN chain :
         /\ s # t /\ chain[t].rate[s] > 0 /\ price[s] # Unpriced
         /\ Shown(chain, t, price[t], price[s] * chain[t].rate[s])
  /\ (~Usable(chain, t) /\ \E s \in ToSet(StableOrder) \cap DOMAIN chain :
        s # t /\ chain[t].rate[s] > 0 /\ Dollars(chain, s)) => price[t] # Unpriced
  /\ (Usable(chain, t) /\ chain[t].eth) =>
       \/ price[t] = Endless
       \/ price[t] = Unpriced /\ ("WETH" \notin DOMAIN chain \/ ~chain["WETH"].feed \/ price["WETH"] = Unpriced)
       \/ price[t] # Unpriced /\ "WETH" \in DOMAIN chain /\ Shown(chain, t, price[t], price["WETH"] * chain[t].answer)

IsGapOf(price, quote, gap) ==
  /\ gap > 0 => price["T"] # Unpriced /\ quote > 0
  /\ (gap = 0 /\ quote > 0 /\ price["T"] \notin {Unpriced, Endless}
      /\ price["USDC"] \notin {Unpriced, Endless}) => quote * price["USDC"] = price["T"]

\* A price is the token's own usable answer, or what it fetches in a token that has one
\* (in ether, the price of ether), unless that jumps from a price the guard took a moment
\* ago: then it is that price.  With a route to a stable that is usable in dollars
\* there is one, unless the search runs through two stables without answers that are
\* routed to each other: only then does it not end, until one of them answers.  And a
\* gap is reported only where the collateral has a price and a route.
PriceSound ==
  About("price") =>
    /\ \A t \in DOMAIN decision.chain : IsPriceOf(decision.chain, decision.price, t)
    /\ IsGapOf(decision.price, decision.quote, decision.gap)

\* What is served of a route, a missing one included, is no older than a route's time, and
\* no older than a failure's if looking for it failed outright.
RouteCacheSound ==
  About("route-cache") =>
    /\ decision.entry.servedAge < RouteTtl
    /\ decision.entry.served = "failed" => decision.entry.servedAge < RouteErrorTtl

PricesSound == PriceSound /\ RouteCacheSound
=============================================================================

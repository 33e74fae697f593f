------------------------------- MODULE Indexers -------------------------------
(***************************************************************************)
(* indexer/aave_indexer.ts, compoundv3_indexer.ts and morphoblue_indexer.ts:    *)
(* from the rows of a subgraph, accounts and positions to candidates, the offers *)
(* a Morpho candidate is enriched with, and how often each chain is polled.      *)
(*                                                                         *)
(* A row is what one account holds and owes of one asset.  Amounts are in whole  *)
(* units, prices in ether times Scale, health factors and offer terms in         *)
(* ten-thousandths.  The oracle's answers for a chain are a function of its      *)
(* assets, 0 where there is none; Ether is the asset whose answer prices the     *)
(* others in ether.                                                          *)
(***************************************************************************)
EXTENDS Integers, Sequences, SequencesExt, FiniteSets

CONSTANTS NoHf,         \* no health factor, or an infinite one
          NoAddress,    \* a row whose asset has no address
          Ether, Scale,
          RowLimit,     \* rows a batch may bring
          BatchSize,    \* USER_BATCH_SIZE
          NoCandidate, NoOfferTerms, Multiplier, MinPoll, DefaultPoll, DefaultSuccess, DefaultMaxPoll, Unset

ASSUME IndexersAssumption ==
  /\ {NoHf, Unset} \cap Int = {}
  /\ NoOfferTerms \notin [closeFactor : Int, incentive : Int, expiry : Int]
  /\ Scale \in Nat \ {0} /\ BatchSize \in Nat \ {0} /\ RowLimit \in Nat
  /\ {Multiplier, MinPoll, DefaultPoll, DefaultSuccess, DefaultMaxPoll} \subseteq Nat

Put(f, key, value) == [k \in DOMAIN f \cup {key} |-> IF k = key THEN value ELSE f[k]]
-----------------------------------------------------------------------------
(* Settings: the configured ones, and a boost that overrides them for a time. *)

NoBoost == [left |-> 0, hfThreshold |-> 0, first |-> 0]      \* 0 for a field left out

\* What the new boost leaves out it takes from the one before, be that over or not.
requestIndexerBoost(override, hfThreshold, first, duration) ==
  [left |-> duration,
   hfThreshold |-> IF hfThreshold # 0 THEN hfThreshold ELSE override.hfThreshold,
   first |-> IF first # 0 THEN first ELSE override.first]

Between(low, value, high) == IF value < low THEN low ELSE IF value > high THEN high ELSE value

\* [override, settings]: asking deletes a boost that has run out.
getIndexerSettings(config, override) ==
  LET boosted == override.left > 0
      or(field, raw) == IF boosted /\ field # 0 THEN field ELSE raw
  IN [override |-> IF boosted THEN override ELSE NoBoost,
      settings |-> [hfThreshold |-> Between(3000, or(override.hfThreshold, config.hfThreshold), 99999),
                    first |-> Between(1, or(override.first, config.first), 1000)]]
-----------------------------------------------------------------------------
(* Rows, fetched and grouped by account. *)

\* The first accounts of the scan, each once.
selectUsers(scan, maxUsers) ==
  LET seen[n \in 0..Len(scan)] ==
        IF n = 0 THEN <<>>
        ELSE IF Len(seen[n - 1]) >= maxUsers \/ scan[n] \in ToSet(seen[n - 1]) THEN seen[n - 1]
        ELSE Append(seen[n - 1], scan[n])
  IN seen[Len(scan)]

\* The rows of these users, in their order.
OfUsers(rows, users) ==
  LET upTo[n \in 0..Len(rows)] ==
        IF n = 0 THEN <<>> ELSE IF rows[n].user \in users THEN Append(upTo[n - 1], rows[n]) ELSE upTo[n - 1]
  IN upTo[Len(rows)]

\* Batch by batch, each cut off at its limit.
BatchOf(users, i) == {users[j] : j \in {j \in DOMAIN users : (j - 1) \div BatchSize = i - 1}}
cut(rows) == SubSeq(rows, 1, IF Len(rows) > RowLimit THEN RowLimit ELSE Len(rows))
fetchCandidateReserves(rows, scan, maxUsers) ==
  LET users == selectUsers(scan, maxUsers)
      upTo[i \in 0..Len(users)] == IF i = 0 THEN <<>> ELSE upTo[i - 1] \o cut(OfUsers(rows, BatchOf(users, i)))
  IN upTo[Len(users)]

\* The price of a row's asset from the oracle, [ctx, price]: each asset is asked about
\* once in a grouping and Ether once more, the first time; whatever came of it stays.
resolveFallbackPriceInEth(ctx, asset, answers) ==
  IF asset \in DOMAIN ctx.cache THEN [ctx |-> ctx, price |-> ctx.cache[asset]]
  ELSE LET usd == IF asset \in DOMAIN answers THEN answers[asset] ELSE 0
           ether == IF ctx.etherAsked THEN ctx.ether
                    ELSE IF Ether \in DOMAIN answers THEN answers[Ether] ELSE 0
           price == IF usd = 0 \/ ether = 0 THEN 0 ELSE (2 * usd * Scale + ether) \div (2 * ether)
       IN [price |-> price,
           ctx |-> [cache |-> Put(ctx.cache, asset, price), etherAsked |-> ctx.etherAsked \/ usd > 0,
                    ether |-> IF usd > 0 THEN ether ELSE ctx.ether]]

NewBucket == [rows |-> <<>>, debt |-> 0, adjusted |-> 0, hf |-> NoHf, missing |-> {}]

\* Mutant of AddRow: collateral counts at its value.
AddRowUnadjusted(bucket, row, price) ==
  LET uses == row.asCollateral /\ row.collateral > 0
      filled == [bucket EXCEPT !.rows = Append(@, row), !.hf = IF @ = NoHf THEN row.hf ELSE @]
  IN IF price = 0
     THEN [filled EXCEPT !.missing = @ \cup (IF row.debt > 0 THEN {<<"debt", row.asset>>} ELSE {})
                                       \cup (IF uses THEN {<<"collateral", row.asset>>} ELSE {})]
     ELSE [filled EXCEPT !.debt = @ + row.debt * price,
                         !.adjusted = @ + IF uses THEN row.collateral * price ELSE 0]

\* One row into its account's bucket: the first health factor the subgraph gives stands,
\* a row without a price adds to no sum.
AddRow(bucket, row, price) ==
  LET uses == row.asCollateral /\ row.collateral > 0
      filled == [bucket EXCEPT !.rows = Append(@, row), !.hf = IF @ = NoHf THEN row.hf ELSE @]
  IN IF price = 0
     THEN [filled EXCEPT !.missing = @ \cup (IF row.debt > 0 THEN {<<"debt", row.asset>>} ELSE {})
                                       \cup (IF uses THEN {<<"collateral", row.asset>>} ELSE {})]
     ELSE [filled EXCEPT !.debt = @ + row.debt * price,
                         !.adjusted = @ + IF uses THEN (row.collateral * price * row.threshold) \div 10000 ELSE 0]

\* [buckets, ctx] after one row more, and after all rows in their order.
Grouped(acc, row, answers) ==
  LET priced == IF row.price > 0 THEN [ctx |-> acc.ctx, price |-> row.price]
                ELSE resolveFallbackPriceInEth(acc.ctx, row.asset, answers)
      bucket == IF row.user \in DOMAIN acc.buckets THEN acc.buckets[row.user] ELSE NewBucket
  IN [buckets |-> Put(acc.buckets, row.user, AddRow(bucket, row, priced.price)), ctx |-> priced.ctx]

NothingGrouped == [buckets |-> <<>>, ctx |-> [cache |-> <<>>, etherAsked |-> FALSE, ether |-> 0]]

groupUserReserves(rows, answers) ==
  LET upTo[n \in 0..Len(rows)] == IF n = 0 THEN NothingGrouped ELSE Grouped(upTo[n - 1], rows[n], answers)
  IN upTo[Len(rows)]
-----------------------------------------------------------------------------
(* Candidates. *)

\* The subgraph's health factor, else the one of the rows with a price, at least one
\* ten-thousandth where anything is held; where neither says anything and a price is missing,
\* one just below the threshold.
healthFactorOf(bucket, hfThreshold) ==
  LET ratio == (10000 * bucket.adjusted) \div bucket.debt
      derived == IF bucket.debt = 0 THEN NoHf ELSE IF bucket.adjusted > 0 /\ ratio = 0 THEN 1 ELSE ratio
      first == IF bucket.hf \notin {NoHf, 0} THEN bucket.hf ELSE derived
  IN IF first \in {NoHf, 0} /\ bucket.missing # {}
     THEN Between(1, IF hfThreshold - 1 < 9500 THEN hfThreshold - 1 ELSE 9500, 99999)
     ELSE first

\* Every debt with every other asset that is collateral.  (Their order matters to nobody.)
buildCandidatesFromBucket(user, bucket, hfThreshold) ==
  LET hf == healthFactorOf(bucket, hfThreshold)
      known == {row \in ToSet(bucket.rows) : row.asset # NoAddress}
      debts == {row.asset : row \in {row \in known : row.debt > 0}}
      colls == {row.asset : row \in {row \in known : row.asCollateral /\ row.collateral > 0}}
  IN IF hf \in {NoHf, 0} \/ hf >= hfThreshold THEN {}
     ELSE {c \in [user : {user}, hf : {hf}, debt : debts, coll : colls] : c.debt # c.coll}

\* What a poll finds, account by account.
pollChainCandidatesOnce(rows, scan, answers, settings) ==
  LET grouped == groupUserReserves(fetchCandidateReserves(rows, scan, settings.first), answers).buckets
  IN UNION {buildCandidatesFromBucket(user, grouped[user], settings.hfThreshold) : user \in DOMAIN grouped}

\* What a look at one account finds; answers may be none at all.
fetchBorrowerCandidates(rows, user, answers, settings) ==
  LET own == OfUsers(rows, {user})
      grouped == groupUserReserves(own, answers).buckets
  IN IF own = <<>> THEN {} ELSE buildCandidatesFromBucket(user, grouped[user], settings.hfThreshold)

\* [seen, out]: a candidate found at `now` passes unless its key passed within the window.
\* The key says who, what is owed and what is held, not the health factor.  `at` is the
\* time the window is counted from, that of the poll; the generator stands still at each
\* yield, so its consumer may be handed a candidate later.  (The Aave and Compound streams
\* read the clock anew for each candidate; here a poll has one time.)
DedupeKey(c) == <<c.user, c.debt, c.coll>>

\* Mutant of Deduped: the window begins anew with every sight.
DedupedRenews(acc, c, now, dedupeMs) ==
  LET key == DedupeKey(c)
      fresh == key \notin DOMAIN acc.seen \/ now - acc.seen[key] >= dedupeMs
  IN [seen |-> Put(acc.seen, key, now), out |-> IF fresh THEN Append(acc.out, [c |-> c, at |-> now]) ELSE acc.out]

Deduped(acc, c, now, dedupeMs) ==
  LET key == DedupeKey(c)
  IN IF key \in DOMAIN acc.seen /\ now - acc.seen[key] < dedupeMs THEN acc
     ELSE [seen |-> Put(acc.seen, key, now), out |-> Append(acc.out, [c |-> c, at |-> now])]

\* One after the other.
AllDeduped(acc, found, now, dedupeMs) ==
  LET after[n \in 0..Len(found)] == IF n = 0 THEN acc ELSE Deduped(after[n - 1], found[n], now, dedupeMs)
  IN after[Len(found)]
-----------------------------------------------------------------------------
(* Compound. *)

HealthOne == 10000      \* a health factor of one

\* The largest collateral and the first debt of an account below one.  An amount that is
\* not whole is refused by BigInt, and so is its candidate.
convertToCandidate(account) ==
  LET balance(i) == account.collateral[i].balance
      colls == {i \in DOMAIN account.collateral : balance(i) > 0}
      debts == {i \in DOMAIN account.tokens : account.tokens[i].balance < 0}
      coll == account.collateral[CHOOSE i \in colls : \A j \in colls : balance(j) < balance(i) \/ (balance(j) = balance(i) /\ i <= j)]
      debt == account.tokens[CHOOSE i \in debts : \A j \in debts : i <= j]
  IN IF account.health = NoHf \/ account.health >= HealthOne \/ colls = {} \/ debts = {} \/ ~debt.whole \/ ~coll.whole
     THEN NoCandidate
     ELSE [user |-> account.user, hf |-> account.health, debt |-> debt.asset, coll |-> coll.asset]

\* Once per market of the chain: each converts the account alike.
pollCompoundV3CandidatesOnce(accounts, comets) ==
  LET found(account) == IF convertToCandidate(account) = NoCandidate THEN <<>>
                        ELSE [k \in 1..comets |-> convertToCandidate(account)]
      upTo[n \in 0..Len(accounts)] == IF n = 0 THEN <<>> ELSE upTo[n - 1] \o found(accounts[n])
  IN upTo[Len(accounts)]

\* A poll of the stream, at `now`.
streamCompoundV3Poll(acc, accounts, comets, now, dedupeMs) ==
  AllDeduped(acc, pollCompoundV3CandidatesOnce(accounts, comets), now, dedupeMs)
-----------------------------------------------------------------------------
(* Morpho. *)

\* A position without debt or with no positive health factor is none; without collateral
\* it still is.
toCandidate(position) ==
  IF position.hf \in {NoHf, 0} \/ position.debt = 0 THEN NoCandidate
  ELSE [user |-> position.user, hf |-> position.hf, debt |-> position.loanAsset, coll |-> position.collAsset]

\* Where between its lower bound and one the health factor stands, in ten-thousandths.
Interpolation(preLLTV, hf) == Between(0, (10000 * (hf - preLLTV)) \div (10000 - preLLTV), 10000)
Interpolate(from, to, t) == from + (t * (to - from)) \div 10000

\* [cache, terms]: the terms of an offer at a health factor.  The cache keeps the result,
\* not the offer, under a key without the health factor.
fetchOfferParams(cache, offer, hf) ==
  IF cache # NoOfferTerms THEN [cache |-> cache, terms |-> cache]
  ELSE IF ~offer.readable THEN [cache |-> cache, terms |-> NoOfferTerms]
  ELSE LET t == Interpolation(offer.preLLTV, hf)
           terms == [closeFactor |-> Interpolate(offer.lcf[1], offer.lcf[2], t),
                     incentive |-> Interpolate(offer.lif[1], offer.lif[2], t), expiry |-> offer.expiry]
       IN [cache |-> terms, terms |-> terms]

\* [cache, terms]: only a candidate between one and the bound has its offer looked up; it
\* is attached where the borrower authorized it and it has not expired.
enrichWithPreLiqOffer(candidate, offer, cache, maxHf, now) ==
  LET asked == candidate.hf > 10000 /\ candidate.hf < maxHf /\ offer.address # NoAddress /\ offer.authorized
      fetched == fetchOfferParams(cache, offer, candidate.hf)
  IN IF ~asked THEN [cache |-> cache, terms |-> NoOfferTerms]
     ELSE IF fetched.terms = NoOfferTerms \/ fetched.terms.expiry <= now
     THEN [fetched EXCEPT !.terms = NoOfferTerms] ELSE fetched

\* The intervals of a chain from its configured one, Unset for none.
resolveChainPollingConfig(desired) ==
  LET at(least, value) == IF value > least THEN value ELSE least
      base == at(MinPoll, IF desired = Unset THEN DefaultPoll ELSE desired)
  IN [base |-> base, least |-> at(MinPoll, IF desired = Unset THEN base ELSE desired),
      success |-> at(MinPoll, IF desired = Unset THEN DefaultSuccess ELSE desired),
      most |-> at(base, IF desired \in {Unset, 0} THEN DefaultMaxPoll ELSE at(base, 4 * desired))]

\* After a poll that yielded something the success interval, else a longer one.
nextInterval(params, interval, yielded) ==
  IF yielded > 0 THEN params.success
  ELSE LET grown == Multiplier * (IF interval > params.least THEN interval ELSE params.least)
       IN IF grown < params.most THEN grown ELSE params.most

\* One turn of the stream over a chain that is due: [acc, interval, next].
streamMorphoTurn(state, found, params, now, dedupeMs) ==
  LET acc == AllDeduped(state.acc, found, now, dedupeMs)
      interval == nextInterval(params, state.interval, Len(acc.out) - Len(state.acc.out))
  IN IF now < state.next THEN state
     ELSE [acc |-> acc, interval |-> interval, next |-> now + interval]
=============================================================================

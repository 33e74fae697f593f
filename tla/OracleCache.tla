----------------------------- MODULE OracleCache -----------------------------
(***************************************************************************)
(* offchain/indexer/price_watcher.ts: the cached observation of one Chainlink   *)
(* feed, the volatility guard its prices pass, and the events of               *)
(* realtime/watchers.ts that drop it.  Callers share a read under way; a read   *)
(* that settles writes whatever the entry has become.  An event that comes     *)
(* within a minute of another feed's is debounced before it drops anything.    *)
(***************************************************************************)
EXTENDS Naturals

CONSTANTS Nothing,
          MaxRounds,   \* bound: answers the feed publishes
          Reads,       \* bound: reads of the feed under way at once
          Window       \* PRICE_JUMP_WINDOW_MS, in ticks

ASSUME CacheAssumption == MaxRounds \in Nat /\ Window \in Nat \ {0} /\ Nothing \notin Reads

Rounds == 0..MaxRounds

\* What a read brings: a price, a stale round, or no answer.  Whether an event
\* dropped the entry while the read was under way is remembered.
Observations == [round: Rounds, kind: {"price", "stale", "error"}, overtaken: BOOLEAN]
Asked == [round |-> 0, kind |-> "asked", overtaken |-> FALSE]

VARIABLES round,      \* the feed's latest round
          stalled,    \* it is older than a day
          told,       \* the latest round whose event was delivered
          heard,      \* and the latest whose event dropped the entry
          debounced,  \* an event was acted on less than a minute ago
          entry,      \* oracleCache.get(feed)
          reads,      \* loadOracleDetail under way, with its answer when it has one
          served,     \* the observation last given to a caller
          guard       \* priceHistory.get(token)

cacheVars == <<round, stalled, told, heard, debounced, entry, reads, served, guard>>

NoEntry == [value |-> Nothing, live |-> FALSE, pending |-> Nothing]

Price(n) == IF n % 2 = 0 THEN "low" ELSE "high"
Prices == {"low", "high"}

CacheInit ==
  /\ round = 0 /\ told = 0 /\ heard = 0
  /\ stalled \in BOOLEAN
  /\ debounced = FALSE
  /\ entry = NoEntry
  /\ reads = [r \in Reads |-> Nothing]
  /\ served = Nothing
  /\ guard = [price |-> Nothing, age |-> 0]

usable(o) == o # Nothing /\ o.kind = "price"
-----------------------------------------------------------------------------
(* The feed and its events. *)

Publish ==
  /\ round < MaxRounds
  /\ round' = round + 1 /\ stalled' = FALSE
  /\ UNCHANGED <<told, heard, debounced, entry, reads, served, guard>>

Stall ==
  /\ ~stalled /\ stalled' = TRUE
  /\ UNCHANGED <<round, told, heard, debounced, entry, reads, served, guard>>

\* Mutant of invalidateOracleFeed: the entry only expires.
invalidateOracleFeedKeeps ==
  /\ entry' = [entry EXCEPT !.live = FALSE, !.pending = Nothing]
  /\ reads' = [r \in Reads |-> IF reads[r] = Nothing THEN Nothing
                               ELSE [reads[r] EXCEPT !.overtaken = TRUE]]

\* invalidateOracleFeed: the entry goes, reads under way go on.
invalidateOracleFeed ==
  /\ entry' = NoEntry
  /\ reads' = [r \in Reads |-> IF reads[r] = Nothing THEN Nothing
                               ELSE [reads[r] EXCEPT !.overtaken = TRUE]]

FeedEvent ==
  /\ told < round
  /\ told' \in (told + 1)..round
  /\ \/ debounced /\ UNCHANGED <<heard, entry, reads>>
     \/ ~debounced /\ heard' = told' /\ invalidateOracleFeed
  /\ debounced' = TRUE
  /\ UNCHANGED <<round, stalled, served, guard>>

\* Another feed of the chain: the debounce is the watcher's.
OtherFeedEvent ==
  /\ ~debounced /\ debounced' = TRUE
  /\ UNCHANGED <<round, stalled, told, heard, entry, reads, served, guard>>

DebounceElapses ==
  /\ debounced /\ debounced' = FALSE
  /\ UNCHANGED <<round, stalled, told, heard, entry, reads, served, guard>>
-----------------------------------------------------------------------------
(* applyVolatilityGuard: a jump inside the window is answered with the last     *)
(* price, whose age it leaves alone.  The answer is the price the guard holds.  *)
(* Any two prices are a jump here: PRICE_JUMP_THRESHOLD may be set as low as one *)
(* likes (from one on, a fall is never a jump; PriceResolver compares).           *)

\* Mutant of applyVolatilityGuard: a rejected price renews the last one.
applyVolatilityGuardRenews(p) ==
  guard' = IF guard.price \in Prices \ {p} /\ guard.age < Window
           THEN [guard EXCEPT !.age = 0] ELSE [price |-> p, age |-> 0]

applyVolatilityGuard(p) ==
  guard' = IF guard.price \in Prices \ {p} /\ guard.age < Window
           THEN guard ELSE [price |-> p, age |-> 0]

Tick ==
  /\ guard.age < Window
  /\ guard' = [guard EXCEPT !.age = @ + 1]
  /\ UNCHANGED <<round, stalled, told, heard, debounced, entry, reads, served>>

\* cachedOraclePrice, given an observation: without a price it asks the DEX.
Serve(o) ==
  /\ served' = o
  /\ IF usable(o) THEN applyVolatilityGuard(Price(o.round))
     ELSE \/ UNCHANGED guard
          \/ \E p \in Prices : applyVolatilityGuard(p)
-----------------------------------------------------------------------------
(* cachedOracleDetail. *)

Hit ==
  /\ entry.live /\ entry.pending = Nothing /\ entry.value # Nothing
  /\ Serve(entry.value)
  /\ UNCHANGED <<round, stalled, told, heard, debounced, entry, reads>>

\* Whoever calls while a read is pending waits for that one.
Miss ==
  /\ entry.pending = Nothing /\ ~(entry.live /\ entry.value # Nothing)
  /\ \E r \in Reads :
       /\ reads[r] = Nothing
       /\ reads' = [reads EXCEPT ![r] = Asked]
       /\ entry' = [entry EXCEPT !.pending = r]
  /\ UNCHANGED <<round, stalled, told, heard, debounced, served, guard>>

\* loadOracleDetail: latestRoundData, or latestAnswer when that fails.  It turns
\* every failure into an observation.
loadOracleDetail(r) ==
  /\ reads[r] # Nothing /\ reads[r].kind = "asked"
  /\ \E kind \in {IF stalled THEN "stale" ELSE "price", "error"} :
       reads' = [reads EXCEPT ![r] = [@ EXCEPT !.round = round, !.kind = kind]]
  /\ UNCHANGED <<round, stalled, told, heard, debounced, entry, served, guard>>

\* A price replaces the entry for a day; anything else keeps a price the entry
\* has, for 15 s.  Both drop a pending read that is not this one.
Settle(r) ==
  /\ reads[r] # Nothing /\ reads[r].kind # "asked"
  /\ LET nextValue == IF ~usable(reads[r]) /\ usable(entry.value) THEN entry.value ELSE reads[r]
     IN entry' = [value |-> nextValue, live |-> TRUE, pending |-> Nothing] /\ Serve(nextValue)
  /\ reads' = [reads EXCEPT ![r] = Nothing]
  /\ UNCHANGED <<round, stalled, told, heard, debounced>>

Expire ==
  /\ entry.live
  /\ entry' = [entry EXCEPT !.live = FALSE]
  /\ UNCHANGED <<round, stalled, told, heard, debounced, reads, served, guard>>

CacheNext ==
  \/ Publish \/ Stall \/ FeedEvent \/ OtherFeedEvent \/ DebounceElapses
  \/ Tick \/ Hit \/ Miss \/ Expire
  \/ \E r \in Reads : loadOracleDetail(r) \/ Settle(r)

-----------------------------------------------------------------------------
(* Properties. *)

\* A price from before an event that dropped the entry is cached only if a read
\* was under way when the event came, and settled after it.
OldPriceWasOvertaken ==
  usable(entry.value) /\ entry.value.round < heard => entry.value.overtaken

\* Once the feed is quiet and alive, callers are in the end given its latest
\* price: entries expire, overtaken reads settle once, debounced events are made
\* good by the expiry, and the guard gives way to a jump that stays.
AnswersCatchUp ==
  <>[](round = MaxRounds /\ ~stalled) =>
    <>[](usable(served) /\ served.round = round /\ guard.price = Price(round))

=============================================================================

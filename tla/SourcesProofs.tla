---------------------------- MODULE SourcesProofs ----------------------------
(***************************************************************************)
(* What is proved of the sources, for any number of websocket URLs, overtaken *)
(* starts, rounds, reads, callers and borrowers: the watcher is never left     *)
(* blind, a stop is final, an old price in the cache was overtaken, no subgraph *)
(* slot is leaked or given twice, no retry is lost on its way, and the sequencer *)
(* guard says ok exactly when some read has.                                  *)
(***************************************************************************)
EXTENDS Sources, FiniteSetTheorems, SequenceTheorems, TLAPS

\* What the watcher's flags say of each other: before its pool is found nothing is
\* subscribed, no timer is set and it may not have been stopped; once stopped it
\* watches nothing of its own.
FlagsBoolean ==
  /\ stopped \in BOOLEAN /\ poolSub \in BOOLEAN /\ staleSubs \in BOOLEAN
  /\ reading \in BOOLEAN /\ restartTimer \in BOOLEAN

FlagsAgree ==
  /\ phase \in {"new", "lookup", "dead", "found"}
  /\ feedSubs \/ reading => poolSub
  /\ phase # "found" => ~poolSub /\ ~staleSubs /\ ~restartTimer
  /\ stopped => phase \in {"dead", "found"} /\ ~poolSub
  /\ NeverBlind

Counted ==
  /\ overtaken \in Nat
  /\ phase # "found" => overtaken = 0

WatcherInv == FlagsBoolean /\ FlagsAgree /\ Counted

LEMMA WatcherInvInit == WatcherInit => WatcherInv
<1> SUFFICES ASSUME WatcherInit PROVE WatcherInv
  OBVIOUS
<1>1. FlagsBoolean
  BY DEF WatcherInit, FlagsBoolean
<1>2. FlagsAgree
  BY DEF WatcherInit, FlagsAgree, NeverBlind
<1>3. Counted
  BY DEF WatcherInit, Counted
<1> QED BY <1>1, <1>2, <1>3 DEF WatcherInv

\* What every restart does to the subscriptions.
LEMMA RewatchKeeps ==
  ASSUME WatcherInv, Rewatch, phase = "found", UNCHANGED <<phase, stopped, restartTimer>>
  PROVE  WatcherInv'
<1>1. FlagsBoolean'
  BY DEF WatcherInv, FlagsBoolean, Rewatch
<1>2. FlagsAgree'
  BY DEF WatcherInv, FlagsBoolean, FlagsAgree, Rewatch, NeverBlind
<1>3. Counted'
  BY DEF WatcherInv, Counted, Rewatch, Overtaken
<1> QED BY <1>1, <1>2, <1>3 DEF WatcherInv

\* A rate limit leaves a restart behind, or everything as it is.
LEMMA RateLimitKeeps ==
  ASSUME WatcherInv, applyRateLimit, phase = "found", UNCHANGED <<phase, stopped>>
  PROVE  WatcherInv'
<1>1. FlagsBoolean'
  BY DEF WatcherInv, FlagsBoolean, applyRateLimit, clearWatchers, subs
<1>2. FlagsAgree'
  BY DEF WatcherInv, FlagsAgree, applyRateLimit, clearWatchers, subs, NeverBlind
<1>3. Counted'
  BY DEF WatcherInv, Counted, applyRateLimit, clearWatchers, subs, Overtaken
<1> QED BY <1>1, <1>2, <1>3 DEF WatcherInv

\* Only a watcher that found its pool has anything to listen to.
LEMMA ListeningFound == ASSUME WatcherInv, Listening PROVE phase = "found"
BY DEF WatcherInv, FlagsAgree, Listening

LEMMA WatcherInvStep == WatcherInv /\ [WatcherNext]_watcherVars => WatcherInv'
<1> SUFFICES ASSUME WatcherInv, [WatcherNext]_watcherVars PROVE WatcherInv'
  OBVIOUS
<1>1. CASE start
  <2>1. FlagsBoolean'
    BY <1>1 DEF start, subs, WatcherInv, FlagsBoolean
  <2>2. FlagsAgree'
    BY <1>1 DEF start, subs, WatcherInv, FlagsAgree, NeverBlind
  <2>3. Counted'
    BY <1>1 DEF start, subs, WatcherInv, Counted
  <2> QED BY <2>1, <2>2, <2>3 DEF WatcherInv
<1>2. CASE PoolLookup
  <2>1. FlagsBoolean'
    BY <1>2 DEF PoolLookup, subs, WatcherInv, FlagsBoolean
  <2>2. FlagsAgree'
    BY <1>2 DEF PoolLookup, subs, WatcherInv, FlagsAgree, NeverBlind
  <2>3. Counted'
    BY <1>2 DEF PoolLookup, subs, WatcherInv, Counted
  <2> QED BY <2>1, <2>2, <2>3 DEF WatcherInv
<1>3. CASE stop
  <2>1. FlagsBoolean'
    BY <1>3 DEF stop, clearWatchers, WatcherInv, FlagsBoolean
  <2>2. FlagsAgree'
    BY <1>3 DEF stop, clearWatchers, WatcherInv, FlagsAgree, NeverBlind
  <2>3. Counted'
    BY <1>3 DEF stop, clearWatchers, Overtaken, WatcherInv, FlagsAgree, Counted
  <2> QED BY <2>1, <2>2, <2>3 DEF WatcherInv
<1>4. CASE AggregatorsRead
  <2>1. phase = "found"
    BY <1>4 DEF AggregatorsRead, WatcherInv, FlagsAgree, Counted
  <2>2. CASE reading /\ reading' = FALSE /\ feedSubs' = env.feeds /\ UNCHANGED <<staleSubs, overtaken>>
    <3>1. FlagsBoolean'
      BY <1>4, <2>2 DEF AggregatorsRead, WatcherInv, FlagsBoolean
    <3>2. FlagsAgree'
      BY <1>4, <2>1, <2>2 DEF AggregatorsRead, WatcherInv, FlagsAgree, NeverBlind
    <3>3. Counted'
      BY <1>4, <2>1, <2>2 DEF AggregatorsRead, WatcherInv, Counted
    <3> QED BY <3>1, <3>2, <3>3 DEF WatcherInv
  <2>3. CASE /\ overtaken > 0 /\ overtaken' = overtaken - 1
             /\ staleSubs' = (staleSubs \/ env.feeds)
             /\ UNCHANGED <<reading, feedSubs>>
    <3>1. FlagsBoolean'
      BY <1>4, <2>3 DEF AggregatorsRead, WatcherInv, FlagsBoolean
    <3>2. FlagsAgree'
      BY <1>4, <2>1, <2>3 DEF AggregatorsRead, WatcherInv, FlagsAgree, NeverBlind
    <3>3. Counted'
      BY <1>4, <2>1, <2>3 DEF AggregatorsRead, WatcherInv, Counted
    <3> QED BY <3>1, <3>2, <3>3 DEF WatcherInv
  <2> QED BY <1>4, <2>2, <2>3 DEF AggregatorsRead
<1>5. CASE PoolLogs \/ FeedLogs
  <2>1. FlagsBoolean'
    BY <1>5 DEF PoolLogs, FeedLogs, onWatcherActivity, subs, WatcherInv, FlagsBoolean
  <2>2. FlagsAgree'
    BY <1>5 DEF PoolLogs, FeedLogs, onWatcherActivity, subs, WatcherInv, FlagsAgree, NeverBlind
  <2>3. Counted'
    BY <1>5 DEF PoolLogs, FeedLogs, onWatcherActivity, subs, WatcherInv, Counted
  <2> QED BY <2>1, <2>2, <2>3 DEF WatcherInv
<1>6. CASE handleWatcherError
  <2>1. Listening
    BY <1>6 DEF handleWatcherError, RateLimitError, FilterNotFound, WsClosed, HttpUnsupported, WsUnsupported
  <2>2. phase = "found"
    BY <2>1, ListeningFound
  <2>3. UNCHANGED <<phase, stopped>>
    BY <1>6 DEF handleWatcherError, RateLimitError, FilterNotFound, WsClosed, HttpUnsupported, WsUnsupported
  <2>4. applyRateLimit \/ (Rewatch /\ UNCHANGED restartTimer)
    BY <1>6 DEF handleWatcherError, RateLimitError, FilterNotFound, WsClosed, HttpUnsupported, WsUnsupported, Reconnect
  <2> QED BY <2>2, <2>3, <2>4, RewatchKeeps, RateLimitKeeps
<1>7. CASE RestartFires
  <2>1. phase = "found" /\ UNCHANGED <<phase, stopped>> /\ restartTimer' = FALSE
    BY <1>7 DEF RestartFires, WatcherInv, FlagsAgree
  <2>2. CASE stopped
    BY <1>7, <2>1, <2>2 DEF RestartFires, subs, WatcherInv, FlagsBoolean, FlagsAgree, Counted, NeverBlind
  <2>3. CASE ~stopped
    <3>1. Rewatch
      BY <1>7, <2>3 DEF RestartFires
    <3>2. FlagsBoolean'
      BY <2>1, <3>1 DEF Rewatch, WatcherInv, FlagsBoolean
    <3>3. FlagsAgree'
      BY <2>1, <2>3, <3>1 DEF Rewatch, WatcherInv, FlagsAgree, NeverBlind
    <3>4. Counted'
      BY <2>1, <3>1 DEF Rewatch, Overtaken, WatcherInv, Counted
    <3> QED BY <3>2, <3>3, <3>4 DEF WatcherInv
  <2> QED BY <2>2, <2>3
<1>8. CASE WsEnableFires \/ DisablingElapses \/ LimitElapses \/ UNCHANGED watcherVars
  <2>1. UNCHANGED <<phase, stopped, subs, restartTimer>>
    BY <1>8 DEF WsEnableFires, DisablingElapses, LimitElapses, watcherVars, subs
  <2> QED BY <2>1 DEF subs, WatcherInv, FlagsBoolean, FlagsAgree, Counted, NeverBlind
<1> QED BY <1>1, <1>2, <1>3, <1>4, <1>5, <1>6, <1>7, <1>8 DEF WatcherNext

\* A step of the composition is one of the watcher, or leaves it alone.
LEMMA WatcherSteps == [Next]_vars => [WatcherNext]_watcherVars
BY DEF Next, vars, OfWatcher, OfPrices, OfGuard, OfSubgraph, OfRetries

LEMMA WatcherInvHolds == Spec => []WatcherInv
<1>1. Init => WatcherInv
  BY WatcherInvInit DEF Init
<1>2. WatcherInv /\ [Next]_vars => WatcherInv'
  BY WatcherInvStep, WatcherSteps
<1> QED BY <1>1, <1>2, PTL DEF Spec

\* NeverBlind holds always: a watcher that found its pool and was not stopped watches it,
\* has a restart due or a feed subscription left over (watchers.ts, clearWatchers,
\* startWatchers and applyRateLimit under every order of events, errors and timers).
THEOREM NeverBlindCorrect == Spec => []NeverBlind
<1>1. WatcherInv => NeverBlind
  BY DEF WatcherInv, FlagsAgree
<1> QED BY <1>1, WatcherInvHolds, PTL

\* One step after the stop, from a state the watcher can be in: it stays stopped, ...
LEMMA StoppedStays ==
  ASSUME WatcherInv, [WatcherNext]_watcherVars, stopped
  PROVE  stopped'
<1>1. CASE start \/ stop
  BY <1>1 DEF start, stop, WatcherInv, FlagsAgree
<1>2. CASE PoolLookup \/ AggregatorsRead \/ PoolLogs \/ FeedLogs
  BY <1>2 DEF PoolLookup, AggregatorsRead, PoolLogs, FeedLogs, onWatcherActivity
<1>3. CASE handleWatcherError
  BY <1>3 DEF handleWatcherError, RateLimitError, FilterNotFound, WsClosed, HttpUnsupported, WsUnsupported
<1>4. CASE RestartFires \/ WsEnableFires \/ DisablingElapses \/ LimitElapses \/ UNCHANGED watcherVars
  BY <1>4 DEF RestartFires, WsEnableFires, DisablingElapses, LimitElapses, watcherVars
<1> QED BY <1>1, <1>2, <1>3, <1>4 DEF WatcherNext

\* ... and of the feeds only those are watched again that an overtaken start reads.
OnlyOvertaken == \/ overtaken' = overtaken /\ (staleSubs' => staleSubs)
                 \/ overtaken' = overtaken - 1

LEMMA StoppedWatches ==
  ASSUME WatcherInv, [WatcherNext]_watcherVars, stopped
  PROVE  OnlyOvertaken
<1>1. ~poolSub /\ ~reading
  BY DEF WatcherInv, FlagsAgree
<1>2. CASE start \/ stop
  BY <1>2 DEF start, stop, WatcherInv, FlagsAgree
<1>3. CASE PoolLookup
  BY <1>3 DEF PoolLookup, WatcherInv, FlagsAgree
<1>4. CASE AggregatorsRead
  BY <1>1, <1>4 DEF AggregatorsRead, OnlyOvertaken
<1>5. CASE PoolLogs \/ FeedLogs
  BY <1>5 DEF PoolLogs, FeedLogs, onWatcherActivity
<1>6. Overtaken = overtaken
  BY <1>1 DEF Overtaken, WatcherInv, Counted
<1>7. Rewatch => OnlyOvertaken
  BY <1>6 DEF Rewatch, OnlyOvertaken
<1>8. applyRateLimit => OnlyOvertaken
  BY <1>6 DEF applyRateLimit, clearWatchers, subs, OnlyOvertaken
<1>9. CASE handleWatcherError
  BY <1>7, <1>8, <1>9
     DEF handleWatcherError, RateLimitError, FilterNotFound, WsClosed, HttpUnsupported, WsUnsupported, Reconnect
<1>10. CASE RestartFires
  BY <1>7, <1>10 DEF RestartFires, subs, OnlyOvertaken
<1>11. CASE WsEnableFires \/ DisablingElapses \/ LimitElapses \/ UNCHANGED watcherVars
  BY <1>11 DEF WsEnableFires, DisablingElapses, LimitElapses, watcherVars, subs, OnlyOvertaken
<1> QED BY <1>2, <1>3, <1>4, <1>5, <1>9, <1>10, <1>11 DEF WatcherNext

LEMMA StoppedStep ==
  ASSUME WatcherInv, WatcherInv', [WatcherNext]_watcherVars, stopped
  PROVE  /\ stopped' /\ ~poolSub' /\ ~feedSubs' /\ ~reading'
         /\ overtaken' <= overtaken
         /\ staleSubs' => staleSubs \/ overtaken' < overtaken
<1>1. stopped'
  BY StoppedStays
<1>2. ~poolSub' /\ ~feedSubs' /\ ~reading'
  BY <1>1 DEF WatcherInv, FlagsAgree
<1>3. overtaken \in Nat /\ overtaken' \in Nat
  BY DEF WatcherInv, Counted
<1>4. /\ overtaken' <= overtaken
      /\ staleSubs' => staleSubs \/ overtaken' < overtaken
  BY <1>3, StoppedWatches DEF OnlyOvertaken
<1> QED BY <1>1, <1>2, <1>4

\* StopIsFinal holds of every step: no timer, error or late answer makes a stopped watcher
\* subscribe again, but for the starts that were reading when the stop came.
THEOREM StopIsFinalCorrect == Spec => StopIsFinal
<1>1. WatcherInv /\ WatcherInv' /\ [Next]_vars =>
        [stopped => /\ stopped'
                    /\ ~poolSub' /\ ~feedSubs' /\ ~reading'
                    /\ overtaken' <= overtaken
                    /\ (staleSubs' => staleSubs \/ overtaken' < overtaken)]_watcherVars
  BY StoppedStep, WatcherSteps
<1> QED BY <1>1, WatcherInvHolds, PTL DEF Spec, StopIsFinal
-----------------------------------------------------------------------------
(* The cached price. *)

Kinds == {"asked", "price", "stale", "error"}
Observed == [round : Nat, kind : Kinds, overtaken : BOOLEAN]

\* An answer older than the last event that dropped the entry knows it was overtaken.
Knows(o) == o # Nothing /\ o.kind # "asked" /\ o.round < heard => o.overtaken

\* Events are delivered after their rounds, and both the entry and the reads under way
\* know what overtook them.
CacheInv ==
  /\ round \in Nat /\ told \in Nat /\ heard \in Nat
  /\ heard <= told /\ told <= round
  /\ reads \in [Reads -> Observed \cup {Nothing}]
  /\ entry \in [value : Observed \cup {Nothing}, live : BOOLEAN, pending : Reads \cup {Nothing}]
  /\ \A r \in Reads : Knows(reads[r])
  /\ Knows(entry.value)

LEMMA CacheInvInit == CacheInit => CacheInv
BY DEF CacheInit, CacheInv, NoEntry, Knows

LEMMA CacheInvStep == CacheInv /\ [CacheNext]_cacheVars => CacheInv'
<1> SUFFICES ASSUME CacheInv, [CacheNext]_cacheVars PROVE CacheInv'
  OBVIOUS
<1>1. CASE Publish
  BY <1>1 DEF Publish, CacheInv, Knows
<1>2. CASE Stall \/ OtherFeedEvent \/ DebounceElapses \/ Tick
  BY <1>2 DEF Stall, OtherFeedEvent, DebounceElapses, Tick, CacheInv, Knows
<1>3. CASE FeedEvent
  <2>1. told' \in Nat /\ told <= told' /\ told' <= round /\ round' = round
    BY <1>3 DEF FeedEvent, CacheInv
  <2>2. CASE UNCHANGED <<heard, entry, reads>>
    BY <2>1, <2>2 DEF CacheInv, Knows
  <2>3. CASE heard' = told' /\ invalidateOracleFeed
    <3>1. \A r \in Reads : reads'[r] \in Observed \cup {Nothing} /\ Knows(reads[r])'
      BY <2>3 DEF invalidateOracleFeed, CacheInv, Observed, Knows
    <3>2. reads' \in [Reads -> Observed \cup {Nothing}]
      BY <2>3, <3>1 DEF invalidateOracleFeed
    <3>3. entry' = NoEntry
      BY <2>3 DEF invalidateOracleFeed
    <3> QED BY <2>1, <2>3, <3>1, <3>2, <3>3 DEF CacheInv, NoEntry, Knows
  <2> QED BY <1>3, <2>2, <2>3 DEF FeedEvent
<1>4. CASE Hit
  BY <1>4 DEF Hit, CacheInv, Knows
<1>5. CASE Miss
  <2>1. PICK r \in Reads : /\ reads' = [reads EXCEPT ![r] = Asked]
                           /\ entry' = [entry EXCEPT !.pending = r]
    BY <1>5 DEF Miss
  <2>2. Asked \in Observed /\ Asked.kind = "asked"
    BY DEF Asked, Observed, Kinds
  <2>3. UNCHANGED <<round, told, heard>>
    BY <1>5 DEF Miss
  <2>4. entry'.value = entry.value /\ entry' \in [value : Observed \cup {Nothing}, live : BOOLEAN, pending : Reads \cup {Nothing}]
    BY <2>1 DEF CacheInv
  <2>5. reads' \in [Reads -> Observed \cup {Nothing}] /\ \A s \in Reads : Knows(reads[s])'
    BY <2>1, <2>2, <2>3 DEF CacheInv, Knows
  <2> QED BY <2>3, <2>4, <2>5 DEF CacheInv, Knows
<1>6. ASSUME NEW r \in Reads, loadOracleDetail(r) PROVE CacheInv'
  <2>1. PICK kind \in {IF stalled THEN "stale" ELSE "price", "error"} :
          reads' = [reads EXCEPT ![r] = [@ EXCEPT !.round = round, !.kind = kind]]
    BY <1>6 DEF loadOracleDetail
  <2>2. reads[r] \in Observed
    BY <1>6 DEF loadOracleDetail, CacheInv
  <2>3. UNCHANGED <<round, told, heard, entry>>
    BY <1>6 DEF loadOracleDetail
  <2>4. reads'[r] \in Observed /\ reads'[r].round = round
    BY <2>1, <2>2 DEF CacheInv, Observed, Kinds
  <2>5. ~(round < heard)
    BY DEF CacheInv
  <2>6. reads' \in [Reads -> Observed \cup {Nothing}] /\ \A s \in Reads : Knows(reads[s])'
    BY <2>1, <2>3, <2>4, <2>5 DEF CacheInv, Knows
  <2> QED BY <2>3, <2>6 DEF CacheInv, Knows
<1>7. ASSUME NEW r \in Reads, Settle(r) PROVE CacheInv'
  <2> DEFINE nextValue == IF ~usable(reads[r]) /\ usable(entry.value) THEN entry.value ELSE reads[r]
  <2>1. /\ entry' = [value |-> nextValue, live |-> TRUE, pending |-> Nothing]
        /\ reads' = [reads EXCEPT ![r] = Nothing]
        /\ UNCHANGED <<round, told, heard>>
    BY <1>7 DEF Settle
  <2>2. nextValue \in Observed \cup {Nothing} /\ Knows(nextValue)
    BY DEF CacheInv
  <2>3. Knows(entry.value)'
    BY <2>1, <2>2 DEF Knows
  <2>4. reads' \in [Reads -> Observed \cup {Nothing}] /\ \A s \in Reads : Knows(reads[s])'
    BY <2>1 DEF CacheInv, Knows
  <2> HIDE DEF nextValue
  <2> QED BY <2>1, <2>2, <2>3, <2>4 DEF CacheInv
<1>8. CASE Expire
  BY <1>8 DEF Expire, CacheInv, Knows
<1>9. CASE UNCHANGED cacheVars
  BY <1>9 DEF cacheVars, CacheInv, Knows
<1> QED BY <1>1, <1>2, <1>3, <1>4, <1>5, <1>6, <1>7, <1>8, <1>9 DEF CacheNext

\* A step of the composition is one of the cache, or leaves it alone.
LEMMA CacheSteps == [Next]_vars => [CacheNext]_cacheVars
BY DEF Next, vars, OfWatcher, OfPrices, OfGuard, OfSubgraph, OfRetries

\* OldPriceWasOvertaken holds always: price_watcher.ts caches a price from before the event
\* that dropped its feed only where the read was under way when the event came.
THEOREM OldPriceCorrect == Spec => []OldPriceWasOvertaken
<1>1. Init => CacheInv
  BY CacheInvInit DEF Init
<1>2. CacheInv /\ [Next]_vars => CacheInv'
  BY CacheInvStep, CacheSteps
<1>3. CacheInv => OldPriceWasOvertaken
  BY DEF CacheInv, Knows, OldPriceWasOvertaken, usable
<1> QED BY <1>1, <1>2, <1>3, PTL DEF Spec
-----------------------------------------------------------------------------
(* The slots of the subgraph. *)

Fetching == {c \in Callers : call[c].at = "fetches"}

\* The count and the window, and that what is counted can be: finitely many at a time.
GraphInv ==
  /\ call \in [Callers -> [at : {"rest", "asks", "sleeps", "fetches"}, left : Int, wait : Int]]
  /\ inFlight \in Nat
  /\ stamps \in Seq(Int)
  /\ IsFiniteSet(Fetching)
  /\ SlotsAccounted

LEMMA GraphInvInit == GraphInit => GraphInv
<1> SUFFICES ASSUME GraphInit PROVE GraphInv
  OBVIOUS
<1>1. Fetching = {}
  BY DEF GraphInit, Fetching, Resting
<1>2. IsFiniteSet(Fetching) /\ Cardinality(Fetching) = 0
  BY <1>1, FS_EmptySet
<1>3. SlotsAccounted
  BY <1>2, GraphAssumption DEF GraphInit, SlotsAccounted, Fetching
<1> QED BY <1>2, <1>3 DEF GraphInit, GraphInv, Resting

\* A request that ends frees one slot, and the count says so.
LEMMA ReleaseKeeps ==
  ASSUME GraphInv, NEW c \in Callers, call[c].at = "fetches", releaseGraphSlot,
         NEW next \in [at : {"rest", "asks"}, left : Int, wait : Int],
         call' = [call EXCEPT ![c] = next]
  PROVE  GraphInv'
<1>1. Fetching' = Fetching \ {c} /\ c \in Fetching
  BY DEF GraphInv, Fetching
<1>2. /\ IsFiniteSet(Fetching')
      /\ Cardinality(Fetching') = Cardinality(Fetching) - 1
  BY <1>1, FS_RemoveElement DEF GraphInv
<1>3. Cardinality(Fetching') \in Nat /\ Cardinality(Fetching) = inFlight
  BY <1>2, FS_CardinalityType DEF GraphInv, SlotsAccounted, Fetching
<1>4. inFlight - 1 \in Nat
  BY <1>2, <1>3 DEF GraphInv
<1>5. Max({0, inFlight - 1}) = inFlight - 1
  BY <1>4 DEF Max
<1>6. inFlight' = inFlight - 1 /\ stamps' = stamps
  BY <1>5 DEF releaseGraphSlot
<1>7. SlotsAccounted'
  BY <1>2, <1>3, <1>6, GraphAssumption DEF GraphInv, SlotsAccounted, Fetching
<1> QED BY <1>2, <1>4, <1>6, <1>7 DEF GraphInv

\* What leaves the slots alone and lets nobody in or out.
LEMMA NoSlotKeeps ==
  ASSUME GraphInv, UNCHANGED slots,
         call' \in [Callers -> [at : {"rest", "asks", "sleeps", "fetches"}, left : Int, wait : Int]],
         \A c \in Callers : call'[c].at = "fetches" <=> call[c].at = "fetches"
  PROVE  GraphInv'
<1>1. Fetching' = Fetching
  BY DEF Fetching
<1> QED BY <1>1 DEF GraphInv, SlotsAccounted, slots, Fetching

\* Time only takes requests out of the window.
LEMMA OlderIsShorter ==
  ASSUME NEW ages \in Seq(Int)
  PROVE  Older(ages) \in Seq(Int) /\ Len(Older(ages)) <= Len(ages)
<1> DEFINE past == {i \in DOMAIN ages : ages[i] + 1 >= GraphWindow}
           gone == Cardinality(past)
           kept == SubSeq(ages, gone + 1, Len(ages))
<1>1. Len(ages) \in Int /\ 1 \in Int /\ past \in SUBSET (1..Len(ages))
  OBVIOUS
<1>2. gone \in Nat
  <2> HIDE DEF past
  <2>1. IsFiniteSet(1..Len(ages))
    BY <1>1, FS_Interval
  <2> QED BY <1>1, <2>1, FS_Subset, FS_CardinalityType
<1> HIDE DEF gone, past
<1>3. \A i \in (gone + 1)..Len(ages) : ages[i] \in Int
  BY <1>2
<1>4. /\ kept \in Seq(Int)
      /\ Len(kept) = IF gone + 1 <= Len(ages) THEN Len(ages) - (gone + 1) + 1 ELSE 0
  BY <1>2, <1>3, SubSeqProperties
<1>5. Len(kept) \in Nat /\ Len(kept) <= Len(ages)
  BY <1>2, <1>4
<1> HIDE DEF kept
<1>6. Older(ages) = [i \in DOMAIN kept |-> kept[i] + 1]
  BY DEF Older, kept, gone, past
<1>7. DOMAIN kept = 1..Len(kept) /\ \A i \in 1..Len(kept) : kept[i] \in Int
  BY <1>4
<1>8. Older(ages) \in [1..Len(kept) -> Int]
  BY <1>6, <1>7
<1>9. Older(ages) \in Seq(Int) /\ Len(Older(ages)) = Len(kept)
  BY <1>5, <1>8, SeqDef
<1> QED BY <1>5, <1>9

LEMMA GraphInvStep == GraphInv /\ [GraphNext]_graphVars => GraphInv'
<1> SUFFICES ASSUME GraphInv, [GraphNext]_graphVars PROVE GraphInv'
  OBVIOUS
<1>1. ASSUME NEW c \in Callers, Begin(c) PROVE GraphInv'
  <2>1. PICK batches \in IF c \in Pollers THEN 0..Batches ELSE {0} :
          call' = [call EXCEPT ![c] = [at |-> "asks", left |-> batches, wait |-> 0]]
    BY <1>1 DEF Begin
  <2>2. batches \in Int
    BY <2>1, GraphAssumption
  <2>3. call[c].at = "rest" /\ UNCHANGED slots
    BY <1>1 DEF Begin
  <2>4. call' \in [Callers -> [at : {"rest", "asks", "sleeps", "fetches"}, left : Int, wait : Int]]
    BY <2>1, <2>2 DEF GraphInv
  <2>5. \A d \in Callers : call'[d].at = "fetches" <=> call[d].at = "fetches"
    BY <2>1, <2>3 DEF GraphInv
  <2> QED BY <2>3, <2>4, <2>5, NoSlotKeeps
<1>2. ASSUME NEW c \in Callers, acquireGraphSlot(c) PROVE GraphInv'
  <2>1. call[c].at \in {"asks", "sleeps"} /\ call[c] \in [at : {"rest", "asks", "sleeps", "fetches"}, left : Int, wait : Int]
    BY <1>2 DEF acquireGraphSlot, GraphInv
  <2>2. CASE inFlight < Concurrency /\ Len(stamps) < PerWindow
    <3>1. /\ inFlight' = inFlight + 1 /\ stamps' = Append(stamps, 0)
          /\ call' = [call EXCEPT ![c].at = "fetches"]
      BY <1>2, <2>2 DEF acquireGraphSlot
    <3>2. call' \in [Callers -> [at : {"rest", "asks", "sleeps", "fetches"}, left : Int, wait : Int]]
      BY <2>1, <3>1 DEF GraphInv
    <3>3. Fetching' = Fetching \cup {c} /\ c \notin Fetching
      BY <2>1, <3>1 DEF GraphInv, Fetching
    <3>4. IsFiniteSet(Fetching') /\ Cardinality(Fetching') = Cardinality(Fetching) + 1
      BY <3>3, FS_AddElement DEF GraphInv
    <3>5. stamps' \in Seq(Int) /\ Len(stamps') = Len(stamps) + 1
      BY <3>1, AppendProperties DEF GraphInv
    <3>6. Len(stamps) \in Nat
      BY DEF GraphInv
    <3>7. SlotsAccounted'
      BY <2>2, <3>1, <3>4, <3>5, <3>6, GraphAssumption DEF GraphInv, SlotsAccounted, Fetching
    <3> QED BY <3>1, <3>2, <3>4, <3>5, <3>7 DEF GraphInv
  <2>3. CASE ~(inFlight < Concurrency /\ Len(stamps) < PerWindow)
    <3>1. /\ call' = [call EXCEPT ![c].at = "sleeps", ![c].wait = SlotWait]
          /\ UNCHANGED slots
      BY <1>2, <2>3 DEF acquireGraphSlot
    <3>2. SlotWait \in Int
      <4>1. CASE stamps = <<>>
        BY <4>1, GraphAssumption DEF SlotWait
      <4>2. CASE stamps # <<>>
        <5>1. stamps[1] \in Int
          BY <4>2 DEF GraphInv
        <5> QED BY <4>2, <5>1, GraphAssumption DEF SlotWait
      <4> QED BY <4>1, <4>2
    <3>3. call' \in [Callers -> [at : {"rest", "asks", "sleeps", "fetches"}, left : Int, wait : Int]]
      BY <2>1, <3>1, <3>2 DEF GraphInv
    <3>4. \A d \in Callers : call'[d].at = "fetches" <=> call[d].at = "fetches"
      BY <2>1, <3>1 DEF GraphInv
    <3> QED BY <3>1, <3>3, <3>4, NoSlotKeeps
  <2> QED BY <2>2, <2>3
<1>3. ASSUME NEW c \in Callers, Succeed(c) PROVE GraphInv'
  <2> DEFINE next == IF call[c].left = 0 THEN Resting ELSE [call[c] EXCEPT !.at = "asks", !.left = @ - 1]
  <2>1. call[c].at = "fetches" /\ releaseGraphSlot /\ call' = [call EXCEPT ![c] = next]
    BY <1>3 DEF Succeed
  <2>2. call[c] \in [at : {"rest", "asks", "sleeps", "fetches"}, left : Int, wait : Int]
    BY DEF GraphInv
  <2>3. next \in [at : {"rest", "asks"}, left : Int, wait : Int]
    <3>1. CASE call[c].left = 0
      BY <3>1 DEF Resting
    <3>2. CASE call[c].left # 0
      <4>1. next = [call[c] EXCEPT !.at = "asks", !.left = @ - 1]
        BY <3>2
      <4>2. call[c].left - 1 \in Int
        BY <2>2
      <4> QED BY <2>2, <4>1, <4>2
    <3> QED BY <3>1, <3>2
  <2> HIDE DEF next
  <2> QED BY <2>1, <2>3, ReleaseKeeps
<1>4. ASSUME NEW c \in Callers, NEW status \in Statuses, Fail(c, status) PROVE GraphInv'
  <2>1. call[c].at = "fetches" /\ releaseGraphSlot /\ call' = [call EXCEPT ![c] = Resting]
    BY <1>4 DEF Fail
  <2>2. Resting \in [at : {"rest", "asks"}, left : Int, wait : Int]
    BY DEF Resting
  <2> QED BY <2>1, <2>2, ReleaseKeeps
<1>5. CASE GraphTick
  <2>1. stamps' = Older(stamps) /\ inFlight' = inFlight
    BY <1>5 DEF GraphTick
  <2>2. stamps' \in Seq(Int) /\ Len(stamps') <= Len(stamps)
    BY <2>1, OlderIsShorter DEF GraphInv
  <2>3. call' = [c \in Callers |-> [call[c] EXCEPT !.wait = Less(@)]]
    BY <1>5 DEF GraphTick
  <2>4. \A n \in Int : Less(n) \in Int
    BY DEF Less
  <2>5. call' \in [Callers -> [at : {"rest", "asks", "sleeps", "fetches"}, left : Int, wait : Int]]
    BY <2>3, <2>4 DEF GraphInv
  <2>6. Fetching' = Fetching
    BY <2>3 DEF Fetching, GraphInv
  <2>7. Len(stamps) \in Nat /\ Len(stamps') \in Nat
    BY <2>2 DEF GraphInv
  <2>8. SlotsAccounted'
    <3>1. inFlight = Cardinality(Fetching) /\ inFlight <= Concurrency /\ Len(stamps) <= PerWindow
      BY DEF GraphInv, SlotsAccounted, Fetching
    <3>2. inFlight' = Cardinality(Fetching') /\ inFlight' <= Concurrency /\ Len(stamps') <= PerWindow
      BY <2>1, <2>2, <2>6, <2>7, <3>1, GraphAssumption
    <3> QED BY <3>2 DEF SlotsAccounted, Fetching
  <2> QED BY <2>1, <2>2, <2>5, <2>6, <2>8 DEF GraphInv
<1>6. CASE UNCHANGED graphVars
  <2>1. UNCHANGED slots /\ call' = call
    BY <1>6 DEF graphVars
  <2> QED BY <2>1, NoSlotKeeps DEF GraphInv
<1> QED BY <1>1, <1>2, <1>3, <1>4, <1>5, <1>6 DEF GraphNext

LEMMA GraphSteps == [Next]_vars => [GraphNext]_graphVars
BY DEF Next, vars, OfWatcher, OfPrices, OfGuard, OfSubgraph, OfRetries

\* SlotsAccounted holds always: the subgraph gate of aave_indexer.ts neither leaks a slot nor
\* lets more through than its limits, for any number of callers.
THEOREM SlotsAccountedCorrect == Spec => []SlotsAccounted
<1>1. Init => GraphInv
  BY GraphInvInit DEF Init
<1>2. GraphInv /\ [Next]_vars => GraphInv'
  BY GraphInvStep, GraphSteps
<1>3. GraphInv => SlotsAccounted
  BY DEF GraphInv
<1> QED BY <1>1, <1>2, <1>3, PTL DEF Spec
-----------------------------------------------------------------------------
(* The retries. *)

IsSequence(q) == \E S : q \in Seq(S)

\* What the queue holds: each with an attempt of those allowed.
IsEntry(e) == {"borrower", "attempts", "left"} \subseteq DOMAIN e /\ e.attempts \in 1..MaxAttempts

Entries(q) == IsSequence(q) /\ \A i \in DOMAIN q : IsEntry(q[i])

\* The entry taken is one of the queue's.
RetryInv == Entries(retries) /\ (loop = "fetching" => IsEntry(fetching))

\* Map.delete of what is at i loses nobody else.
LEMMA RemoveAtKeeps ==
  ASSUME NEW q, Entries(q), NEW i \in DOMAIN q
  PROVE  Entries(RemoveAt(q, i)) /\ Queued(q) \ {q[i].borrower} \subseteq Queued(RemoveAt(q, i))
<1>1. PICK S : q \in Seq(S)
  BY DEF Entries, IsSequence
<1>2. Len(q) \in Nat /\ DOMAIN q = 1..Len(q) /\ i \in 1..Len(q) /\ \A j \in 1..Len(q) : q[j] \in S
  BY <1>1
<1> DEFINE before == SubSeq(q, 1, i - 1)
           after == SubSeq(q, i + 1, Len(q))
<1>3. before \in Seq(S) /\ Len(before) = i - 1 /\ \A j \in 1..(i - 1) : before[j] = q[j]
  <2>1. \A j \in 1..(i - 1) : q[j] \in S
    BY <1>2
  <2> QED BY <1>2, <2>1, SubSeqProperties
<1>4. after \in Seq(S) /\ Len(after) = Len(q) - i /\ \A j \in 1..(Len(q) - i) : after[j] = q[i + j]
  <2>1. \A j \in (i + 1)..Len(q) : q[j] \in S
    BY <1>2
  <2> QED BY <1>2, <2>1, SubSeqProperties
<1> HIDE DEF before, after
<1> DEFINE rest == before \o after
<1>5. /\ rest \in Seq(S) /\ Len(rest) = Len(q) - 1
      /\ \A j \in 1..(i - 1) : rest[j] = q[j]
      /\ \A j \in i..(Len(q) - 1) : rest[j] = q[j + 1]
  <2>1. /\ rest \in Seq(S) /\ Len(rest) = Len(before) + Len(after)
        /\ \A j \in 1..(Len(before) + Len(after)) :
             rest[j] = IF j <= Len(before) THEN before[j] ELSE after[j - Len(before)]
    BY <1>3, <1>4, ConcatProperties
  <2>2. Len(rest) = Len(q) - 1
    BY <1>2, <1>3, <1>4, <2>1
  <2>3. \A j \in 1..(i - 1) : rest[j] = q[j]
    BY <1>2, <1>3, <1>4, <2>1
  <2>4. ASSUME NEW j \in i..(Len(q) - 1) PROVE rest[j] = q[j + 1]
    <3>1. rest[j] = after[j - (i - 1)] /\ j - (i - 1) \in 1..(Len(q) - i)
      BY <1>2, <1>3, <1>4, <2>1
    <3> QED BY <1>2, <1>4, <3>1
  <2> QED BY <2>1, <2>2, <2>3, <2>4
<1>6. RemoveAt(q, i) = rest
  BY DEF RemoveAt, rest, before, after
<1> HIDE DEF rest
<1>7. DOMAIN rest = 1..(Len(q) - 1)
  BY <1>5
<1>8. Entries(rest)
  <2>1. ASSUME NEW j \in DOMAIN rest PROVE IsEntry(rest[j])
    <3>1. CASE j <= i - 1
      BY <1>2, <1>5, <1>7, <3>1 DEF Entries
    <3>2. CASE ~(j <= i - 1)
      <4>1. j \in i..(Len(q) - 1) /\ j + 1 \in 1..Len(q)
        BY <1>2, <1>7, <3>2
      <4> QED BY <1>2, <1>5, <4>1 DEF Entries
    <3> QED BY <3>1, <3>2
  <2> QED BY <1>5, <2>1 DEF Entries, IsSequence
<1>9. ASSUME NEW b \in Queued(q), b # q[i].borrower PROVE b \in Queued(rest)
  <2>1. PICK j \in 1..Len(q) : q[j].borrower = b
    BY <1>2 DEF Queued
  <2>2. CASE j < i
    <3>1. j \in DOMAIN rest /\ rest[j] = q[j]
      BY <1>2, <1>5, <1>7, <2>2
    <3> QED BY <2>1, <3>1 DEF Queued
  <2>3. CASE j > i
    <3>1. j - 1 \in DOMAIN rest /\ j - 1 \in i..(Len(q) - 1) /\ (j - 1) + 1 = j
      BY <1>2, <1>7, <2>3
    <3>2. rest[j - 1] = q[j]
      BY <1>5, <3>1
    <3> QED BY <2>1, <3>1, <3>2 DEF Queued
  <2>4. j # i
    BY <1>9, <2>1
  <2> QED BY <1>2, <2>2, <2>3, <2>4
<1> QED BY <1>6, <1>8, <1>9

LEMMA AppendKeeps ==
  ASSUME NEW q, Entries(q), NEW e, IsEntry(e)
  PROVE  Entries(Append(q, e)) /\ Queued(q) \cup {e.borrower} \subseteq Queued(Append(q, e))
<1>1. PICK S : q \in Seq(S)
  BY DEF Entries, IsSequence
<1> DEFINE T == S \cup {e}
           longer == Append(q, e)
<1>2. q \in Seq(T) /\ e \in T
  BY <1>1, SeqMonotonic
<1>3. /\ longer \in Seq(T) /\ Len(longer) = Len(q) + 1
      /\ \A i \in 1..Len(q) : longer[i] = q[i]
      /\ longer[Len(q) + 1] = e
  BY <1>2, AppendProperties
<1>4. Len(q) \in Nat /\ DOMAIN q = 1..Len(q)
  BY <1>1
<1> HIDE DEF longer, T
<1>5. DOMAIN longer = 1..(Len(q) + 1)
  BY <1>3, <1>4
<1>6. Entries(longer)
  <2>1. \A i \in DOMAIN longer : IsEntry(longer[i])
    BY <1>3, <1>4, <1>5 DEF Entries
  <2> QED BY <1>3, <2>1 DEF Entries, IsSequence
<1>7. \A b \in Queued(q) : b \in Queued(longer)
  BY <1>3, <1>4, <1>5 DEF Queued
<1>8. e.borrower \in Queued(longer)
  <2>1. Len(q) + 1 \in DOMAIN longer
    BY <1>4, <1>5
  <2> QED BY <1>3, <2>1 DEF Queued
<1> QED BY <1>6, <1>7, <1>8 DEF longer

\* Entries written over others where they are.
LEMMA ReplaceKeeps ==
  ASSUME NEW q, Entries(q), NEW other, other = [i \in DOMAIN q |-> other[i]],
         \A i \in DOMAIN q : IsEntry(other[i])
  PROVE  Entries(other)
<1>1. PICK S : q \in Seq(S)
  BY DEF Entries, IsSequence
<1>2. Len(q) \in Nat /\ DOMAIN q = 1..Len(q)
  BY <1>1
<1> DEFINE T == {other[i] : i \in 1..Len(q)}
<1>3. other \in [1..Len(q) -> T]
  BY <1>2
<1>4. other \in Seq(T)
  BY <1>2, <1>3, SeqDef
<1> QED BY <1>4 DEF Entries, IsSequence

\* Map.set loses nobody.
LEMMA MapSetKeeps ==
  ASSUME NEW q, Entries(q), NEW e, IsEntry(e)
  PROVE  Entries(MapSet(q, e)) /\ Queued(q) \cup {e.borrower} \subseteq Queued(MapSet(q, e))
<1>1. CASE e.borrower \notin Queued(q)
  BY <1>1, AppendKeeps DEF MapSet
<1>2. CASE e.borrower \in Queued(q)
  <2> DEFINE other == [i \in DOMAIN q |-> IF q[i].borrower = e.borrower THEN e ELSE q[i]]
  <2>1. /\ DOMAIN other = DOMAIN q /\ other = [i \in DOMAIN q |-> other[i]]
        /\ \A i \in DOMAIN q : IsEntry(other[i]) /\ other[i].borrower = q[i].borrower
    BY DEF Entries
  <2>2. MapSet(q, e) = other
    BY <1>2 DEF MapSet
  <2> HIDE DEF other
  <2>3. Entries(other)
    BY <2>1, ReplaceKeeps
  <2>4. DOMAIN other = DOMAIN q /\ \A i \in DOMAIN q : other[i].borrower = q[i].borrower
    BY <2>1
  <2>5. Queued(other) = Queued(q)
    BY <2>4 DEF Queued
  <2> QED BY <1>2, <2>2, <2>3, <2>5
<1> QED BY <1>1, <1>2

\* The entry of one who is queued.
LEMMA EntryIs ==
  ASSUME NEW q, Entries(q), NEW b \in Queued(q)
  PROVE  Place(q, b) \in DOMAIN q /\ Entry(q, b).borrower = b /\ IsEntry(Entry(q, b))
<1>1. \E i \in DOMAIN q : q[i].borrower = b
  BY DEF Queued
<1>2. Place(q, b) \in DOMAIN q /\ q[Place(q, b)].borrower = b
  BY <1>1 DEF Place
<1> QED BY <1>2 DEF Entry, Entries

LEMMA ScheduledIs ==
  ASSUME NEW b, NEW attempts \in 1..MaxAttempts, NEW e \in Scheduled(b, attempts)
  PROVE  IsEntry(e) /\ e.borrower = b
<1>1. PICK j \in 0..Jitter :
        e = [borrower |-> b, attempts |-> attempts, left |-> Lesser(MaxDelay, computePolicyRetryDelay(attempts) + j)]
  BY DEF Scheduled
<1> QED BY <1>1 DEF IsEntry

\* A rejection drops nobody but its borrower, and that one after the last attempt.
LEMMA RejectKeeps ==
  ASSUME RetryInv, NEW b, Reject(b)
  PROVE  /\ Entries(retries')
         /\ \A d \in Queued(retries) \ Queued(retries') : d = b /\ Entry(retries, d).attempts = MaxAttempts
<1>1. PICK improved \in BOOLEAN : schedulePolicyRetry(b, improved)
  BY DEF Reject
<1>2. Entries(retries)
  BY DEF RetryInv
<1> DEFINE known == b \in Queued(retries)
           attempts == IF known THEN Entry(retries, b).attempts + 1 ELSE 1
<1>3. known => Entry(retries, b).attempts \in 1..MaxAttempts
  BY <1>2, EntryIs DEF IsEntry
<1>4. CASE UNCHANGED retries
  BY <1>2, <1>4
<1>5. CASE attempts > MaxAttempts /\ retries' = Without(retries, b)
  <2>1. CASE known
    <3>1. Place(retries, b) \in DOMAIN retries /\ retries[Place(retries, b)].borrower = b
      BY <1>2, <2>1, EntryIs DEF Entry
    <3>2. retries' = RemoveAt(retries, Place(retries, b))
      BY <1>5, <2>1 DEF Without
    <3>3. Entries(retries') /\ Queued(retries) \ {b} \subseteq Queued(retries')
      BY <1>2, <3>1, <3>2, RemoveAtKeeps
    <3>4. Entry(retries, b).attempts = MaxAttempts
      BY <1>3, <1>5, <2>1, RetryAssumption
    <3> QED BY <3>3, <3>4
  <2>2. CASE ~known
    BY <1>2, <1>5, <2>2 DEF Without
  <2> QED BY <2>1, <2>2
<1>6. CASE ~(attempts > MaxAttempts) /\ \E e \in Scheduled(b, attempts) : retries' = MapSet(retries, e)
  <2>1. PICK e \in Scheduled(b, attempts) : retries' = MapSet(retries, e)
    BY <1>6
  <2>2. attempts \in 1..MaxAttempts
    BY <1>3, <1>6, RetryAssumption
  <2>3. IsEntry(e)
    <3> HIDE DEF attempts
    <3> QED BY <2>1, <2>2, ScheduledIs
  <2> QED BY <1>2, <2>1, <2>3, MapSetKeeps
<1> QED BY <1>1, <1>4, <1>5, <1>6 DEF schedulePolicyRetry

\* One step of the retries, and what it may do to whoever is owed a look.
RetryKeeps ==
  \A b \in Borrowers : Owed(b) /\ ~Owed(b)' => FetchedCandidates \/ AttemptsOf(b) = MaxAttempts

LEMMA RetryStep == RetryInv /\ [RetryNext]_retryVars => RetryInv' /\ [RetryKeeps]_retryVars
<1> SUFFICES ASSUME RetryInv, [RetryNext]_retryVars PROVE RetryInv' /\ [RetryKeeps]_retryVars
  OBVIOUS
<1>1. Entries(retries)
  BY DEF RetryInv
<1>2. ASSUME NEW b \in Borrowers, RejectElsewhere(b) PROVE RetryInv' /\ RetryKeeps
  <2>1. Reject(b) /\ UNCHANGED <<fetching, loop>>
    BY <1>2 DEF RejectElsewhere
  <2>2. /\ Entries(retries')
        /\ \A d \in Queued(retries) \ Queued(retries') : d = b /\ Entry(retries, d).attempts = MaxAttempts
    BY <2>1, RejectKeeps
  <2> QED BY <2>1, <2>2 DEF RetryInv, RetryKeeps, Owed, AttemptsOf
<1>3. CASE DrainTakes
  <2>1. PICK i \in DOMAIN retries :
          IF retries[i].borrower \in NoUrl
          THEN retries' = Append(RemoveAt(retries, i), retries[i]) /\ loop' = "racing" /\ UNCHANGED fetching
          ELSE retries' = RemoveAt(retries, i) /\ loop' = "fetching" /\ fetching' = retries[i]
    BY <1>3 DEF DrainTakes
  <2>2. loop = "top" /\ IsEntry(retries[i])
    BY <1>1, <1>3 DEF DrainTakes, Entries
  <2>3. /\ Entries(RemoveAt(retries, i))
        /\ Queued(retries) \ {retries[i].borrower} \subseteq Queued(RemoveAt(retries, i))
    BY <1>1, RemoveAtKeeps
  <2>4. CASE retries[i].borrower \in NoUrl
    <3>1. retries' = Append(RemoveAt(retries, i), retries[i]) /\ loop' = "racing"
      BY <2>1, <2>4
    <3>2. Entries(retries') /\ Queued(retries) \subseteq Queued(retries')
      BY <2>2, <2>3, <3>1, AppendKeeps
    <3> QED BY <2>2, <3>1, <3>2 DEF RetryInv, RetryKeeps, Owed
  <2>5. CASE retries[i].borrower \notin NoUrl
    <3>1. retries' = RemoveAt(retries, i) /\ loop' = "fetching" /\ fetching' = retries[i]
      BY <2>1, <2>5
    <3> QED BY <2>2, <2>3, <3>1 DEF RetryInv, RetryKeeps, Owed
  <2> QED BY <2>4, <2>5
<1>4. CASE DrainNothing
  BY <1>4 DEF DrainNothing, RetryInv, RetryKeeps, Owed
<1>5. CASE FetchedNothing
  <2>1. loop = "fetching" /\ loop' = "racing" /\ IsEntry(fetching)
    BY <1>5 DEF FetchedNothing, RetryInv
  <2>2. fetching.attempts \in 1..MaxAttempts
    BY <2>1 DEF IsEntry
  <2>3. CASE fetching.attempts < MaxAttempts
    <3>1. PICK e \in Scheduled(fetching.borrower, fetching.attempts + 1) : retries' = MapSet(retries, e)
      BY <1>5, <2>3 DEF FetchedNothing
    <3>2. fetching.attempts + 1 \in 1..MaxAttempts
      BY <2>2, <2>3, RetryAssumption
    <3>3. IsEntry(e) /\ e.borrower = fetching.borrower
      BY <3>1, <3>2, ScheduledIs
    <3>4. Entries(retries') /\ Queued(retries) \cup {fetching.borrower} \subseteq Queued(retries')
      BY <1>1, <3>1, <3>3, MapSetKeeps
    <3> QED BY <2>1, <3>4 DEF RetryInv, RetryKeeps, Owed
  <2>4. CASE ~(fetching.attempts < MaxAttempts)
    <3>1. fetching.attempts = MaxAttempts /\ retries' = retries
      BY <1>5, <2>2, <2>4, RetryAssumption DEF FetchedNothing
    <3> QED BY <1>1, <2>1, <3>1 DEF RetryInv, RetryKeeps, Owed, AttemptsOf
  <2> QED BY <2>3, <2>4
<1>6. CASE FetchedCandidates
  <2>1. loop' = "top" /\ (Reject(fetching.borrower) \/ UNCHANGED retries)
    BY <1>6 DEF FetchedCandidates
  <2>2. Entries(retries')
    BY <1>1, <2>1, RejectKeeps
  <2> QED BY <1>6, <2>1, <2>2 DEF RetryInv, RetryKeeps
<1>7. CASE CandidateArrives
  BY <1>7 DEF CandidateArrives, RetryInv, RetryKeeps, Owed
<1>8. CASE Handles
  <2>1. loop = "handling" /\ loop' = "top"
    BY <1>8 DEF Handles
  <2>2. CASE UNCHANGED retries
    BY <1>1, <2>1, <2>2 DEF RetryInv, RetryKeeps, Owed
  <2>3. ASSUME NEW b \in Borrowers, Reject(b) PROVE RetryInv' /\ RetryKeeps
    <3>1. /\ Entries(retries')
          /\ \A d \in Queued(retries) \ Queued(retries') : d = b /\ Entry(retries, d).attempts = MaxAttempts
      BY <2>3, RejectKeeps
    <3> QED BY <2>1, <3>1 DEF RetryInv, RetryKeeps, Owed, AttemptsOf
  <2> QED BY <1>8, <2>2, <2>3 DEF Handles
<1>9. CASE RetryTick
  <2>1. /\ retries' = [i \in DOMAIN retries |-> [retries[i] EXCEPT !.left = IF @ = 0 THEN 0 ELSE @ - 1]]
        /\ UNCHANGED <<fetching, loop>>
    BY <1>9 DEF RetryTick
  <2>2. /\ DOMAIN retries' = DOMAIN retries /\ retries' = [i \in DOMAIN retries |-> retries'[i]]
        /\ \A i \in DOMAIN retries : IsEntry(retries'[i]) /\ retries'[i].borrower = retries[i].borrower
    BY <1>1, <2>1 DEF Entries, IsEntry
  <2>3. Entries(retries')
    BY <1>1, <2>2, ReplaceKeeps
  <2>4. Queued(retries') = Queued(retries)
    BY <2>2 DEF Queued
  <2> QED BY <2>1, <2>3, <2>4 DEF RetryInv, RetryKeeps, Owed
<1>10. CASE UNCHANGED retryVars
  BY <1>1, <1>10 DEF retryVars, RetryInv
<1> QED BY <1>2, <1>3, <1>4, <1>5, <1>6, <1>7, <1>8, <1>9, <1>10 DEF RetryNext

LEMMA RetrySteps == [Next]_vars => [RetryNext]_retryVars
BY DEF Next, vars, OfWatcher, OfPrices, OfGuard, OfSubgraph, OfRetries

\* RetriesKept holds of every step: policyRetryQueue loses nobody between the map and the
\* fetch, whoever schedules meanwhile, except after the last attempt or to candidates.
THEOREM RetriesKeptCorrect == Spec => RetriesKept
<1>1. Init => RetryInv
  <2>1. ASSUME Init PROVE RetryInv
    <3>1. retries = <<>> /\ loop = "top"
      BY <2>1 DEF Init, RetryInit
    <3>2. <<>> \in Seq({}) /\ DOMAIN <<>> = {}
      BY EmptySeq
    <3> QED BY <3>1, <3>2 DEF RetryInv, Entries, IsSequence
  <2> QED BY <2>1
<1>2. RetryInv /\ [Next]_vars => RetryInv' /\ [RetryKeeps]_retryVars
  BY RetryStep, RetrySteps
<1>3. Spec => [][RetryKeeps]_retryVars
  BY <1>1, <1>2, PTL DEF Spec
<1> QED BY <1>3, PTL DEF RetryKeeps, RetriesKept
-----------------------------------------------------------------------------
(* The sequencer guard: type correctness, and what the entry can say, for any number *)
(* of calls. *)

\* While the entry is empty no read has come back ok: with OkIffEverOk this makes
\* "ok" in the entry and a good read somewhere in the past the same thing.
EmptyMeansNeverOk == value = NoStatus => ~seenOk

GuardInv == GuardTypeOK /\ OkIffEverOk /\ EmptyMeansNeverOk

\* The four reports of a feed are statuses, and none of them is "none" or "sent".
LEMMA ReportsAreStatuses ==
  /\ \A r \in DOMAIN Reports : Reports[r] \in GuardStatuses
  /\ "feed-read-failed" \in GuardStatuses /\ "none" \notin GuardStatuses /\ "sent" \notin GuardStatuses
  /\ NoStatus \notin GuardStatuses
BY GuardAssumption DEF Reports, GuardStatuses

\* GuardInv holds initially.
LEMMA GuardInvInit == GuardInit => GuardInv
BY DEF GuardInit, GuardInv, GuardTypeOK, OkIffEverOk, EmptyMeansNeverOk

\* A call leaves the entry's status alone.
LEMMA CallKeepsGuard == ASSUME GuardInv, NEW c \in Checks, Call(c) PROVE GuardInv'
BY ReportsAreStatuses DEF Call, Free, GuardInv, GuardTypeOK, OkIffEverOk, EmptyMeansNeverOk, entryVars

\* The entry settles: Kept keeps "ok", and a read that is not ok only fills an
\* entry nobody has filled.
LEMMA SettlingKeepsGuard == ASSUME GuardInv, ReadSettles PROVE GuardInv'
<1> USE ReportsAreStatuses DEF GuardInv, ReadSettles
<1>1. Kept(pending) \in GuardStatuses
  BY DEF Kept, GuardTypeOK
<1>2. GuardTypeOK'
  BY <1>1 DEF GuardTypeOK
<1>3. CASE pending = "ok"
  BY <1>2, <1>3 DEF Kept, OkIffEverOk, EmptyMeansNeverOk
<1>4. CASE pending # "ok"
  BY <1>1, <1>2, <1>4 DEF Kept, OkIffEverOk, EmptyMeansNeverOk
<1>5. QED BY <1>3, <1>4

\* Every step keeps GuardInv.
LEMMA GuardInvStep == GuardInv /\ [GuardNext]_guardVars => GuardInv'
<1> SUFFICES ASSUME GuardInv, [GuardNext]_guardVars PROVE GuardInv'
  OBVIOUS
<1> USE DEF OkIffEverOk, EmptyMeansNeverOk
<1>1. ASSUME NEW c \in Checks, Call(c) PROVE GuardInv'
  BY <1>1, CallKeepsGuard
<1>2. ASSUME NEW c \in Checks, Proceed(c) PROVE GuardInv'
  BY <1>2 DEF Proceed, GuardInv, GuardTypeOK, entryVars
<1>3. ASSUME ReadReturns PROVE GuardInv'
  BY <1>3, ReportsAreStatuses DEF ReadReturns, GuardInv, GuardTypeOK
<1>4. ASSUME ReadSettles PROVE GuardInv'
  BY <1>4, SettlingKeepsGuard
<1>5. ASSUME StatusExpires PROVE GuardInv'
  BY <1>5 DEF StatusExpires, GuardInv, GuardTypeOK
<1>6. ASSUME SequencerChanges PROVE GuardInv'
  BY <1>6 DEF SequencerChanges, GuardInv, GuardTypeOK, entryVars
<1>7. ASSUME UNCHANGED guardVars PROVE GuardInv'
  BY <1>7 DEF guardVars, entryVars, GuardInv, GuardTypeOK
<1>8. QED
  BY <1>1, <1>2, <1>3, <1>4, <1>5, <1>6, <1>7 DEF GuardNext

LEMMA GuardSteps == [Next]_vars => [GuardNext]_guardVars
BY DEF Next, vars, OfWatcher, OfPrices, OfGuard, OfSubgraph, OfRetries

\* GuardInv holds of every state, for any number of overlapping calls.
LEMMA GuardInvHolds == Spec => []GuardInv
<1>1. Init => GuardInv
  BY GuardInvInit DEF Init
<1>2. GuardInv /\ [Next]_vars => GuardInv'
  BY GuardInvStep, GuardSteps
<1> QED BY <1>1, <1>2, PTL DEF Spec

\* Every variable of the guard keeps its type, and a fresh entry has a status.
THEOREM GuardTypeCorrect == Spec => []GuardTypeOK
BY GuardInvHolds, PTL DEF GuardInv

\* The entry says ok exactly when some read has ever come back ok (sequencer.ts
\* 111-120), for any number of callers and any history of the feed.
THEOREM GuardSticky == Spec => []OkIffEverOk
BY GuardInvHolds, PTL DEF GuardInv
=============================================================================

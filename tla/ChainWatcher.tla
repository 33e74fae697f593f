----------------------------- MODULE ChainWatcher -----------------------------
(***************************************************************************)
(* offchain/realtime/watchers.ts, class ChainWatcher: the life of one chain's   *)
(* subscriptions.  startWatchers subscribes to the pool's events at once and   *)
(* to the price feeds after it has read their aggregators; errors clear the    *)
(* subscriptions and start them again, at once or after a backoff.  A start    *)
(* that is overtaken by a clear goes on: what it subscribes to when its reads  *)
(* answer is added to whatever holds then ("stale" subscriptions).            *)
(*                                                                         *)
(* Candidates go to the queue of RealtimeQueue, and poll intervals and backoff *)
(* lengths are left out.                                                     *)
(***************************************************************************)
EXTENDS RpcClients

CONSTANTS Threshold,     \* WATCH_WS_FAILURE_THRESHOLD
          MaxOvertaken   \* bound: starts overtaken and still reading

ASSUME WatcherAssumption == Threshold \in Nat \ {0} /\ MaxOvertaken \in Nat

VARIABLES env,           \* the chain has feeds; a wsRpc; Node has a WebSocket
          registry,      \* rpc_clients' maps
          phase,         \* start(): "new", "lookup", then "dead" or "found"
          stopped,
          client,
          poolSub,       \* the pool is watched
          feedSubs,      \* so are the feeds, by the start that watches the pool
          staleSubs,     \* feeds are watched by a start overtaken by a clear
          reading,       \* the start that watches the pool reads aggregators
          overtaken,     \* starts overtaken by a clear and still reading
          restartTimer,
          limited,       \* now < rateLimitedUntil
          wsEnableTimer,
          wsFailureStreak

watcherVars == <<env, registry, phase, stopped, client, poolSub, feedSubs, staleSubs, reading,
          overtaken, restartTimer, limited, wsEnableTimer, wsFailureStreak>>
subs == <<poolSub, feedSubs, staleSubs, reading, overtaken>>

WatcherTypeOK ==
  /\ env \in [feeds: BOOLEAN, wsRpc: BOOLEAN, webSocket: BOOLEAN]
  /\ registry \in Registries
  /\ phase \in {"new", "lookup", "dead", "found"}
  /\ stopped \in BOOLEAN
  /\ client \in Clients \cup {Absent}
  /\ {poolSub, feedSubs, staleSubs, reading, restartTimer, limited, wsEnableTimer} \subseteq BOOLEAN
  /\ overtaken \in 0..MaxOvertaken
  /\ wsFailureStreak \in 0..(Threshold - 1)
  /\ feedSubs => poolSub
  /\ reading => poolSub

WatcherInit ==
  /\ env \in [feeds: BOOLEAN, wsRpc: BOOLEAN, webSocket: BOOLEAN]
  /\ registry = NoRegistry
  /\ phase = "new"
  /\ client = Absent
  /\ overtaken = 0 /\ wsFailureStreak = 0
  /\ stopped = FALSE /\ poolSub = FALSE /\ feedSubs = FALSE /\ staleSubs = FALSE /\ reading = FALSE
  /\ restartTimer = FALSE /\ limited = FALSE /\ wsEnableTimer = FALSE
-----------------------------------------------------------------------------
usingWebSocket == client \in WsClients

\* The registry as r, then this.client = this.createClient().
createClient(r) ==
  /\ registry' = getRealtimeClient(r, env.webSocket)
  /\ client' = registry'.realtime

\* this.unwatchers = []; a start still reading is not told.
Overtaken == overtaken + (IF reading THEN 1 ELSE 0)

clearWatchers ==
  /\ Overtaken <= MaxOvertaken
  /\ poolSub' = FALSE /\ feedSubs' = FALSE /\ staleSubs' = FALSE /\ reading' = FALSE
  /\ overtaken' = Overtaken

\* Mutant of Rewatch: startWatchers does not look at stopped.
RewatchAlways ==
  /\ Overtaken <= MaxOvertaken
  /\ poolSub' = TRUE /\ reading' = TRUE
  /\ feedSubs' = FALSE /\ staleSubs' = FALSE
  /\ overtaken' = Overtaken
  /\ limited' = FALSE

\* clearWatchers and startWatchers in one step; the latter does nothing once
\* stopped.
Rewatch ==
  /\ Overtaken <= MaxOvertaken
  /\ poolSub' = ~stopped /\ reading' = ~stopped
  /\ feedSubs' = FALSE /\ staleSubs' = FALSE
  /\ overtaken' = Overtaken
  /\ limited' = (limited /\ stopped)

-----------------------------------------------------------------------------
(* createChainWatcher, start and stop. *)

start ==
  /\ phase = "new"
  /\ phase' = "lookup"
  /\ createClient(registry)
  /\ UNCHANGED <<env, stopped, subs, restartTimer, limited, wsEnableTimer, wsFailureStreak>>

\* getPoolFromProvider asks over HTTP and then over the websocket; when neither
\* answers, start() returns and the watcher stays silent for good.
PoolLookup ==
  /\ phase = "lookup"
  /\ registry' = getRealtimeClient(registry, env.webSocket)
  /\ \/ /\ phase' = "found"
        /\ poolSub' = TRUE /\ reading' = TRUE
        /\ UNCHANGED <<feedSubs, staleSubs, overtaken>>
     \/ phase' = "dead" /\ UNCHANGED subs
  /\ UNCHANGED <<env, stopped, client, restartTimer, limited, wsEnableTimer, wsFailureStreak>>

\* The agent has no watcher to stop before createChainWatcher has returned it.
stop ==
  /\ phase \in {"dead", "found"} /\ ~stopped
  /\ stopped' = TRUE
  /\ restartTimer' = FALSE /\ wsEnableTimer' = FALSE
  /\ clearWatchers
  /\ UNCHANGED <<env, registry, phase, client, limited, wsFailureStreak>>

\* The last aggregator() has answered, or failed and left its proxy.
AggregatorsRead ==
  /\ \/ reading /\ reading' = FALSE /\ feedSubs' = env.feeds /\ UNCHANGED <<staleSubs, overtaken>>
     \/ /\ overtaken > 0 /\ overtaken' = overtaken - 1
        /\ staleSubs' = (staleSubs \/ env.feeds)
        /\ UNCHANGED <<reading, feedSubs>>
  /\ UNCHANGED <<env, registry, phase, stopped, client, poolSub, restartTimer, limited,
                 wsEnableTimer, wsFailureStreak>>

-----------------------------------------------------------------------------
(* What the subscriptions deliver. *)

onWatcherActivity ==
  /\ ~stopped
  /\ restartTimer' = FALSE
  /\ wsFailureStreak' = 0
  /\ UNCHANGED <<env, registry, phase, stopped, client, subs, limited, wsEnableTimer>>

\* A feed's log inside the debounce of PRICE_REFETCH_DEBOUNCE_MS does nothing.
PoolLogs == poolSub /\ onWatcherActivity
FeedLogs == (feedSubs \/ staleSubs) /\ onWatcherActivity

Listening == poolSub \/ feedSubs \/ staleSubs

\* Mutant of applyRateLimit: it clears before it looks at the last limit.
applyRateLimitClearsFirst ==
  /\ clearWatchers
  /\ \/ limited /\ UNCHANGED <<registry, client, restartTimer, limited, wsEnableTimer>>
     \/ /\ ~limited /\ limited' = TRUE
        /\ createClient(evictRpcClients(disableWebSocket(registry)))
        /\ restartTimer' = TRUE /\ wsEnableTimer' = TRUE

\* Nothing while the last rate limit holds.
applyRateLimit ==
  \/ limited /\ UNCHANGED <<registry, client, subs, restartTimer, limited, wsEnableTimer>>
  \/ /\ ~limited /\ limited' = TRUE
     /\ clearWatchers
     /\ createClient(evictRpcClients(disableWebSocket(registry)))
     /\ restartTimer' = TRUE /\ wsEnableTimer' = TRUE

\* A 429, a 5xx or a provider's wording for them.
RateLimitError ==
  /\ Listening
  /\ applyRateLimit
  /\ UNCHANGED <<env, phase, stopped, wsFailureStreak>>

FilterNotFound ==
  /\ Listening
  /\ Rewatch
  /\ UNCHANGED <<env, registry, phase, stopped, client, restartTimer, wsEnableTimer, wsFailureStreak>>

Reconnect(r) == Rewatch /\ createClient(r) /\ UNCHANGED <<restartTimer, wsEnableTimer>>

\* The streak starts over when the last failure is old enough.
WsClosed ==
  /\ Listening /\ usingWebSocket
  /\ \E streak \in {1, wsFailureStreak + 1} :
       \/ /\ streak < Threshold
          /\ wsFailureStreak' = streak
          /\ Reconnect(evictRpcClients(registry))
       \/ /\ streak >= Threshold
          /\ wsFailureStreak' = 0
          /\ applyRateLimit
  /\ UNCHANGED <<env, phase, stopped>>

\* "resource not found" over HTTP, when the chain has a wsRpc.
HttpUnsupported ==
  /\ Listening /\ ~usingWebSocket /\ env.wsRpc
  /\ Reconnect(evictRpcClients(registry))
  /\ UNCHANGED <<env, phase, stopped, wsFailureStreak>>

\* Code -32602: five minutes over HTTP.
WsUnsupported ==
  /\ Listening /\ usingWebSocket
  /\ Reconnect(evictRpcClients(disableWebSocket(registry)))
  /\ UNCHANGED <<env, phase, stopped, wsFailureStreak>>

handleWatcherError ==
  RateLimitError \/ FilterNotFound \/ WsClosed \/ HttpUnsupported \/ WsUnsupported
-----------------------------------------------------------------------------
(* Timers and the clock. *)

\* It was set when the subscriptions were cleared, and clears again.
RestartFires ==
  /\ restartTimer /\ restartTimer' = FALSE
  /\ IF stopped THEN UNCHANGED <<subs, limited>> ELSE Rewatch
  /\ UNCHANGED <<env, registry, phase, stopped, client, wsEnableTimer, wsFailureStreak>>

WsEnableFires ==
  /\ wsEnableTimer /\ wsEnableTimer' = FALSE
  /\ registry' = enableWebSocket(registry)
  /\ UNCHANGED <<env, phase, stopped, client, subs, restartTimer, limited, wsFailureStreak>>

DisablingElapses ==
  /\ registry.wsDisabled = "until"
  /\ registry' = [registry EXCEPT !.wsDisabled = "elapsed"]
  /\ UNCHANGED <<env, phase, stopped, client, subs, restartTimer, limited, wsEnableTimer, wsFailureStreak>>

LimitElapses ==
  /\ limited /\ limited' = FALSE
  /\ UNCHANGED <<env, registry, phase, stopped, client, subs, restartTimer, wsEnableTimer, wsFailureStreak>>

WatcherNext ==
  \/ start \/ PoolLookup \/ stop \/ AggregatorsRead
  \/ PoolLogs \/ FeedLogs
  \/ handleWatcherError
  \/ RestartFires \/ WsEnableFires \/ DisablingElapses \/ LimitElapses

WatcherSpec == WatcherInit /\ [][WatcherNext]_watcherVars
-----------------------------------------------------------------------------
(* Properties. *)

\* A watcher that found its pool and is not stopped is never left with nothing:
\* it watches the pool, or a restart is due, or a stale feed subscription (whose
\* event may have cancelled the restart, as onWatcherActivity does for every
\* event) can still bring it back by failing.
NeverBlind ==
  phase = "found" /\ ~stopped => poolSub \/ restartTimer \/ staleSubs

\* After stop() nothing is watched again, except the feeds of starts that were
\* reading when it came: their handlers ask nobody whether the watcher stopped,
\* and their errors must not revive it.
StopIsFinal ==
  [][stopped => /\ stopped'
                /\ ~poolSub' /\ ~feedSubs' /\ ~reading'
                /\ overtaken' <= overtaken
                /\ (staleSubs' => staleSubs \/ overtaken' < overtaken)]_watcherVars
=============================================================================

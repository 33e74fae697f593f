-------------------------------- MODULE Sources --------------------------------
(***************************************************************************)
(* What feeds the agent of a chain: the watcher's subscriptions, the cached      *)
(* prices, the sequencer's cached status, the subgraph requests and the retries.  *)
(* They share no state, so one of them runs and the others stay as they began: an  *)
(* interleaving of the five would show nothing that one of them does not.       *)
(***************************************************************************)
EXTENDS ChainWatcher, OracleCache, SequencerGuard, Subgraph, PolicyRetry

VARIABLE part

vars == <<part, watcherVars, cacheVars, guardVars, graphVars, retryVars>>

Init ==
  /\ part \in {"watcher", "prices", "sequencer", "subgraph", "retries"}
  /\ WatcherInit /\ CacheInit /\ GuardInit /\ GraphInit /\ RetryInit
  /\ part # "watcher" => env.feeds /\ env.wsRpc /\ env.webSocket
  /\ part # "prices" => ~stalled
  /\ part # "sequencer" => sequencer = "up"

\* A step of one of them.
OfWatcher(A) == part = "watcher" /\ A /\ UNCHANGED <<part, cacheVars, guardVars, graphVars, retryVars>>
OfPrices(A) == part = "prices" /\ A /\ UNCHANGED <<part, watcherVars, guardVars, graphVars, retryVars>>
OfGuard(A) == part = "sequencer" /\ A /\ UNCHANGED <<part, watcherVars, cacheVars, graphVars, retryVars>>
OfSubgraph(A) == part = "subgraph" /\ A /\ UNCHANGED <<part, watcherVars, cacheVars, guardVars, retryVars>>
OfRetries(A) == part = "retries" /\ A /\ UNCHANGED <<part, watcherVars, cacheVars, guardVars, graphVars>>

Next == \/ OfWatcher(WatcherNext) \/ OfPrices(CacheNext) \/ OfGuard(GuardNext)
        \/ OfSubgraph(GraphNext) \/ OfRetries(RetryNext)

\* Prices are asked for again and again, reads settle, time passes, and a feed that
\* answers now and then answers in the end.
Answered == \E r \in Reads : loadOracleDetail(r) /\ reads'[r].kind # "error"

PricesFairness ==
  /\ WF_vars(OfPrices(Tick)) /\ WF_vars(OfPrices(Expire))
  /\ WF_vars(OfPrices(Hit)) /\ WF_vars(OfPrices(Miss))
  /\ SF_vars(OfPrices(Answered))
  /\ \A r \in Reads : WF_vars(OfPrices(Settle(r)))

\* An RPC read settles (viem's http transport times out) and so does its callback.
GuardFairness == WF_vars(OfGuard(ReadReturns)) /\ WF_vars(OfGuard(ReadSettles))

\* Time passes, sleepers wake, and fetch settles: by itself, or by its own timeout.
Fetched(c) == Succeed(c) \/ \E status \in Statuses : Fail(c, status)

SubgraphFairness ==
  /\ WF_vars(OfSubgraph(GraphTick))
  /\ \A c \in Callers : WF_vars(OfSubgraph(acquireGraphSlot(c))) /\ WF_vars(OfSubgraph(Fetched(c)))

\* The loop runs on, fetches and handlers settle, time passes.  Candidates need not come.
RetriesFairness ==
  /\ WF_vars(OfRetries(DrainTakes \/ DrainNothing \/ Handles))
  /\ WF_vars(OfRetries(FetchedNothing \/ FetchedCandidates))
  /\ WF_vars(OfRetries(RetryTick))

Spec == Init /\ [][Next]_vars /\ PricesFairness /\ GuardFairness /\ SubgraphFairness /\ RetriesFairness
=============================================================================

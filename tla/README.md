# A verification model of l2liquidator

l2liquidator watches lending protocols on several L2 chains for positions that can be
liquidated, simulates a liquidation, and sends it when it pays. This directory holds TLA+
modules of its off-chain core, the TLC configurations that check them on small instances, and
theorems about them that TLAPS proves for every value of the constants. `PROJECT.json` says
which definition stands for which source lines, which run checks what, and which change of the
code each property would notice.

The modules describe the TypeScript program at the level at which its bugs live: JavaScript runs
each stretch of code between two awaits to completion, so every such stretch is one action, and
whatever may happen during an await is left to happen there.

## 1. The system

Two programs handle candidates. `offchain/orchestrator.ts` is the older one: an agent for each
chain, all in one process. `offchain/pipeline/runner.ts` is its replacement: one loop over one queue.
Around them are caches, locks and guards that both share, a realtime watcher, indexers, an arbitrage
program (`arb_fabric`), and the contracts that do the liquidation.

### 1.1 Components

| Component | State it keeps | Operations | Correct when | Module |
|---|---|---|---|---|
| Pipeline runner (`pipeline/runner.ts`, `pipeline/watchers.ts`) | running, plansSentCount, plansErrorCount, sessionNotionalUsd, lastFailAlertMs | handleCandidate, handlePlan, handleSendError, stop, the candidate stream and the poll timers | session caps hold, a stop is final, the run ends when its queue does | `PipelineRunner` |
| AsyncQueue (`pipeline/async_queue.ts`) | queue, resolvers, closed | push, close, next | no consumer sleeps beside an item or a close | `AsyncQueue` |
| Orchestrator, candidate handling (`orchestrator.ts` 483-1321) | the session counters, the alert cooldown, killSwitchNotificationSent | processCandidate, from several callers at once | the overrun of caps and throttle is bounded, every send is accounted for | `Orchestrator` |
| Orchestrator, agent loop (100-151, 332-334, 1385-1430) | the merge's slots, subgraphPromise | mergeCandidateStreams, the race between streams and realtime queue | candidates are not lost or doubled, and starved by nothing but retries that keep falling due | `ChainAgent` |
| Realtime queue (`realtime/watchers.ts` 164-204) | items, waiters, closed | push, tryShift, next, shutdown | a pushed item reaches somebody who handles it | `RealtimeQueue` |
| Policy retry (`orchestrator.ts` 429-481, 1323-1372) | policyRetryQueue | schedulePolicyRetry, drainPolicyRetry | no borrower owed a look is dropped, due retries are looked up | `PolicyRetry` |
| Chain watcher (`realtime/watchers.ts` 243-594) | unwatchers, restartTimer, backoff, client | startWatchers, clearWatchers, handleWatcherError, applyRateLimit, stop | a chain that is not stopped is watched; a stop is final | `ChainWatcher` |
| RPC client registry (`infra/rpc_clients.ts`) | clients, wsFailures, wsDisabledUntil, cursors | getRealtimeClient, disableWebSocket, evictRpcClients | a dead transport is replaced | `RpcClients` |
| Oracle and route cache (`indexer/price_watcher.ts`) | entries with expires and pending, the volatility guard's history | oraclePriceUsd, invalidateOracleFeed, cachedBestRoute, the DEX fallback | old prices give way; a price is found where there is one | `OracleCache`, `PriceResolver` |
| Aave indexer (`indexer/aave_indexer.ts`) | request slots, the window's stamps, error streaks, backoff, boosts, dedupe maps | poll loops over GraphQL, per-borrower fetches | limits are kept, an outage ends in fallback and back, the listed accounts are the unhealthy ones | `Subgraph`, `Indexers` |
| Compound and Morpho indexers | dedupe maps, an offer cache | poll loops | the same | `Indexers` |
| Predictive scanner, oracle predictor | histories and cooldowns | ticks | an account that falls is handled ahead, once in a cooldown | `Predictor` |
| Throttle (`infra/throttle.ts`) | a count per borrower in Redis and in memory, fallbackEnabled | isThrottled, recordAttempt, resetThrottle | no borrower is tried more often than allowed | `Throttle` |
| Kill switch (`infra/kill_switch.ts`) | lastState, lastChecked | isKillSwitchActive | a file that stays is seen | `KillSwitch` |
| Sequencer guard (`infra/sequencer.ts`) | one cache entry a feed: value, expires, pending | checkSequencerStatus | nothing is sent during an outage | `SequencerGuard` |
| Routes, simulator (`util/routes.ts`, `simulator/*`, `executor/allow_router.ts`) | none | route list, quotes, plan, router allowances | a plan is worth its floors and its routers are allowed | `RouteOptions`, `LiquidationPlan` |
| Scorers and adaptive thresholds (`pipeline/scorer.ts`, `pipeline/preliq_scorer.ts`, `infra/adaptive_thresholds*.ts`) | two averages a chain | score, thresholds | what is accepted is within the configured bounds | `Scores` |
| Nonce lock and senders (`infra/nonce_lock.ts`, `executor/*`) | a Redis key with a TTL, or a map | withNonceLock, sendLiquidation, the pre-liquidation sender | one transaction at a time for an account | `NonceLock`, `Senders` |
| Liquidator contracts, pre-liquidation callback (`src/contracts/*`, `executor/preliq_*`) | owner, allowed routers, pause | liquidate, executeOperation, callbacks, administration | the loan is repaid and the profit floor holds, or all reverts | `LiquidatorContracts` |
| Arbitrage fabric (`arb_fabric/*`) | queue, risk statistics, throttle, balance cache, allowance | producers, workers, executeEdge | limits hold over concurrent workers, the program ends with its streams | `Fabric`, `EdgeThrottle`, `FabricInventory` |
| Fabric solvers, quotes, depth | none | quoteExactInput, depth, edges, path and minimum output | an edge closes, is covered by depth seen and clears its floor | `FabricQuotes`, `FabricEdges` |
| Heartbeat's clock, attempts and database, borrower intel, risk engine, agent service, configuration, metrics, alerts, tools | rows, gauges, files | mostly write-only from the core's point of view | - | section 6 |

### 1.2 How they interact

Streams and on-chain watchers produce candidates. In the pipeline they share one AsyncQueue with one
consumer, the runner. In the orchestrator every chain has a main loop, and three more places call the
same `processCandidate` without waiting for it: the heartbeat's stall fallback, the predictive scanner's
callback, and the other chains' agents. Both programs ask the kill switch, the throttle and the sequencer guard
before they simulate, ask the guard again, record the attempt, compare the session caps and send. Redis is shared
through the throttle and the nonce lock, everything else is memory of the process.

### 1.3 What is hard

- *Check and act are awaits apart.* Caps, throttle and kill switch are read long before they matter. The pipeline
  runner is sequential and can afford it; the orchestrator is not.
- *Answers get lost.* An RPC call may fail after the node took the transaction, a Redis call after Redis counted.
- *Stops race with work.* A cap, a signal, the kill switch, the automatic stop and the end of the stream all stop a run
  that may be parked in its queue or in the middle of a send.
- *Caches prefer what they had.* The sequencer guard and the oracle cache keep a good value when a read is bad.
- *Promise.race leaves things behind*, and timers do not wait for their previous tick.

- *The session of an account is spread over processes.* The nonce lock is a Redis key that ends before its holder
  need; one of the two senders does not take it; a process that dies leaves its key and its transaction behind.
- *Numbers that are computed apart must agree.* The simulator's floors and the contracts' tests, the scorers' terms and
  the simulator's, depth measured at one size and used at another.

The hazards, line by line, are in `PROJECT.json`.

## 2. The modules

| Module | Models | Remarks |
|---|---|---|
| `AsyncQueue` | `pipeline/async_queue.ts` | `resolvers` are the parked consumers, `delivered` the promise a consumer holds; used by the runner and by the fabric |
| `KillSwitch` | `infra/kill_switch.ts` | an answer may be one poll interval old: `recentLook` |
| `Throttle` | `infra/throttle.ts` | both stores; a failing Redis call switches over before or after Redis counted |
| `SessionBudget` | what a session promises | abstract: admit, reserve under both caps, commit or release, close |
| `PipelineRunner` | `pipeline/runner.ts`, `pipeline/watchers.ts` | extends the three before it; implements `SessionBudget` |
| `Orchestrator` | `processCandidate`, `sendLiquidation` | any number of callers over any number of agents |
| `SequencerGuard` | `infra/sequencer.ts` | one feed, overlapping calls |
| `RealtimeQueue` | the watcher's CandidateQueue | waiters are never withdrawn |
| `ChainAgent` | stream merge and main loop | extends `RealtimeQueue` |
| `NonceLock` | `infra/nonce_lock.ts` | Redis key or map entry, TTL, two-step release, dying processes |
| `NonceMutex` | what the lock promises | abstract: one owner in a scope; implemented by the calls that are on time |
| `Senders` | `executor/preliq_sender.ts`, `preliq_executor.ts`, `send_tx.ts` | extends `NonceLock`; nonces, the node's pool, private relays |
| `RpcClients` | `infra/rpc_clients.ts` | one chain's registry as a record, its operations as operators |
| `ChainWatcher` | `realtime/watchers.ts` | extends `RpcClients` |
| `OracleCache` | `indexer/price_watcher.ts`: observation cache, guard | one feed, shared reads, events with a debounce |
| `Subgraph` | `indexer/aave_indexer.ts`: slots, fallback, backoff | pollers and single fetches of one chain |
| `PolicyRetry` | `orchestrator.ts`: the retry map | the loop that drains it, anybody who schedules |
| `Sources` | the watcher, the price cache, the sequencer guard, the subgraph and the retries, one at a time | the instance and its fairness |
| `EdgeThrottle`, `FabricInventory` | `arb_fabric/throttle.ts`, `inventory_manager.ts` | the fabric's shared stores |
| `Fabric` | `arb_fabric/runner.ts`, `risk.ts`, `executor.ts` | composes them with `AsyncQueue` |
| `FabricQuotes`, `FabricEdges` | quotes, depth, solvers, path and minimum output | operators only |
| `RouteOptions`, `LiquidationPlan`, `Scores` | routes and allowances, the simulator, both scorers and thresholds | operators only, each extends the one before |
| `LiquidatorContracts` | `contracts/*`, the pre-liquidation bundle | a transaction is a function from a world to a world or a revert |
| `PriceResolver`, `Indexers`, `Predictor` | prices and routes, rows to candidates, feeds and scans ahead of time | operators only |
| `Decision` | one question asked, its answer kept | the state machine around the operators |
| `FabricDecisions`, `LiquidationDecisions`, `ExecutionDecisions`, `IndexerDecisions` | the questions and what the answers promise | extend `Decision` and the operators' modules |
| `Parts` | all questions | the instance |
| `MCPipelineRunner`, `MCOrchestrator` | instances for TLC | |
| `PipelineRunnerProofs`, `OrchestratorProofs`, `ChainAgentProofs`, `SendersProofs`, `SourcesProofs`, `FabricProofs`, `PartsProofs`, `DiscoveryProofs` | theorems | section 4 |

State corresponds to the code by name: a variable has the name of the field it stands for, and `pc`, `loc`
name the await a call is at. Added variables are the environment (`killFile`, `sequencer`, `produced`) and
history that properties need (`broadcasts`, `broadcastUsd`, `lostAnswers` in Orchestrator are the network's view; `seenOk`
in SequencerGuard; `streamWins` in ChainAgent; `late`, `robbed` in NonceLock; `overtaken` of an observation in OracleCache; `overlapped` in
FabricInventory). Operators whose comment begins with "Mutant of" are altered copies of the
definition that follows them. No specification uses them; each shows a mistake that a property would notice.

Abstractions, the same in the modules with state: amounts are whole USD; simulation, scoring, prices and health factors are answers
of the environment; a row written by `recordAttemptRow` is an await and nothing else, since it swallows its errors; logging and
metrics are left out. TTLs and intervals are actions that may happen at any time.

### 2.1 PipelineRunner

`handleCandidate`, `handlePlan` and `handleSendError` are cut at their awaits: throttle, sequencerPreSim, score,
sequencerPreSend, inventory, recordAttempt, caps, send, and the rows after them. `caps` is its own point because min-profit and both
caps run synchronously up to the send. `AskNext`, `TakeCandidate`, `QueueEnds`, `Break` and `MainFinally` are the for-await
loop and main's finally. `StreamCandidate`, `StreamEnds`, `PollCandidate` and `StopWatchers` are
`startCandidateWatchers`; a poll in flight while the queue closes still pushes. `Signal` is SIGINT or SIGTERM.

### 2.2 Orchestrator

A caller is an invocation of `processCandidate` that can overlap others; `ChainOf` says for which agent it works, which matters
for `killNotified` alone, since the counters, the cooldown, the throttle and the kill switch belong to the process. `Exit` is
`process.exit`: nobody runs another line. `Broadcast` puts a transaction on the wire; then either its hash comes back, the `sent` row is
written and only then the counters move (`SentRowWritten`), or the answer is lost and the plan counts as an error (`AnswerLost`). Policy retry
and the candidate's origin are not in this module; `Examine` covers all that happens between the throttle and the second look at the sequencer.

### 2.3 SequencerGuard

`Call`, `ReadReturns` and `ReadSettles` are the three synchronous stretches of `checkSequencerStatus`. Chains without a feed keep no state.
Orchestrator and PipelineRunner let the guard answer anything.

### 2.4 ChainAgent

`slot` is `states[i].next` of the merge, `subgraphPromise` the loop's outstanding `next()`. A realtime waiter is numbered by its race;
`resolved` tells what it was given, also when the race is long over. Each turn of the loop begins with `Drain`, before the queue and the race: `drainPolicyRetry` may find a borrower to dispatch
(`DrainDispatches`), after which the loop starts over, or none. What is in the retry map is `PolicyRetry`'s; here every drain may dispatch, since a dispatched borrower that is still too healthy is scheduled anew with one attempt.
A `processCandidate` that throws out of the loop is left out. After `End` a fetch in flight may still push, into a closed queue.

### 2.5 NonceLock and Senders

A call of `withNonceLock` is its own token. `TrySet`, `AcquireLocal`, the release's `GET` and its `DEL`, `Expire` and the death of a process are
separate actions, so a key can end and be taken anew between the `GET` and the `DEL`. `Sound`, the calls that hold the lock and are on time, refines `NonceMutex`
within `lockScope`: all processes when Redis is configured, one process without. `Senders` puts the bundle sender's steps inside the lock (gas before it, nonce,
write and receipt in it) and the liquidation sender's beside it. The node accepts a transaction, replaces one of the same nonce, mines in order; a private relay keeps the pool out of the
public node's count. A write may be accepted though its answer is an error.

### 2.6 Fabric

A worker's `pc` is its await: the queue, the kill switch, the throttle's look, price and balance reads, the allowance, the throttle's count, the send. Risk statistics
are judged and changed in one synchronous step each (`Evaluate`, the failure and success of an execution). An edge's age, net and multiple are a choice made
where they are looked at, since an edge waits in the queue for any time. What throws out of `executeEdge` before its `try` ends the worker. `recordFill` stands inside
the `try` (executor.ts 155), so a transaction that was sent can be counted as a failure when it throws. The streams are producers that end; the last one closes the queue.

### 2.7 Sources

`ChainWatcher` cuts `startWatchers` at its two awaits. A start that a clear overtakes goes on and subscribes to feeds nobody will clear (`staleSubs`). Their errors are errors of
the watcher. `OracleCache` keeps for each observation whether an event dropped the entry while it was read; `debounced` is the minute in which further events return early, for another
feed's event too. `Subgraph` counts time in ticks, and every duration is what is left of it. `acquireGraphSlot` is one action from waking to sleeping again or taking the slot, as in
the code, where nothing is awaited between. `PolicyRetry` keeps the Map's order of insertion, which decides who is fetched first.

The five share no variables, so `Sources` runs one at a time.

### 2.8 Parts

The parts without state of their own are operators. `Decision` holds one record: a question, whose fields are the inputs, and the answer of the operators. The inputs are enumerated from
small sets, the properties compare the answer with a definition of what it should be that does not follow the code's steps. `FabricDecisions` looks at quotes, depth and edges;
`LiquidationDecisions` at routes, plans, router allowances and scores; `ExecutionDecisions` at contracts, alone and after the simulator's plan; `IndexerDecisions` at accounts, boosts, streams, offers, feeds, scans, prices and
the route cache. Amounts are whole units, rates basis points; a floor of a floating-point figure is the exact floor.

Three parts may fail half way, and their operators say where. A quote of a triangle may throw, which no `catch` inside the chain's loop holds: `LoopsTried` ends there and `EdgesOfChain` is empty, whatever was found before. The nonce that
`ensureRoutersAllowed` reads again after a failure may be unreadable, and the later routers get no transaction (`Reached`). A contract reverts, with nothing changed. Every price found passes the volatility guard, `PriceJump` standing for `PRICE_JUMP_THRESHOLD` (1 in the runs, so
that a rise to more than twice the last price is a jump); within one question the guard's window does not run out. A route that was not found is kept as long as one that was, and only a rejection shorter. In the streams a candidate goes out at the time of the poll that found it; the
generator may hand it on later, when the loop asks again.

## 3. What the runs check

Symmetry is used only where callers of one agent can be exchanged. Every run finishes within three minutes on two cores.

| Run | Instance | Shows |
|---|---|---|
| pipeline_safety | one borrower; each cap alone, both, dry run, hourly limit 2, fail-rate cap 50% with and without auto-stop; 3 sends, 6 errors | types, caps, the throttle's limit whenever Redis fails, the automatic stop, and that `SessionBudget` is implemented |
| pipeline_liveness | one borrower | a closed queue ends the run; a kill switch left in place ends the sending |
| orchestrator_safety | three callers, one borrower; each cap alone, dry run, throttle with bypass on and off; 4 broadcasts, 1 error | every broadcast is accounted for; the count keeps its cap; the overrun on the network is one transaction or plan of each other caller, plus lost answers; a store passes the throttle's limit by at most the other callers |
| orchestrator_stops | two agents, sample 2 | the automatic stop ends the process; the kill switch ends the sending |
| orchestrator_live_cap | two callers, cap 1 | *violated*: two transactions on the wire |
| sequencer_down | two calls | *violated*: a read that reports an outage answers ok |
| chain_agent_intake | two streams, three candidates of each source | no stream candidate is lost or doubled, order is kept, a realtime candidate is lost only to an orphaned waiter and at most one per race won by the streams, queued ones are served unless the loop comes to do nothing but dispatch retries |
| senders | three bundles of two processes, or two and a liquidation, on one account; Redis or not; public or private RPC | two bundles share a nonce only if one outlived its key, lost it to another's `DEL`, or was left unmined; on-time holders exclude each other; every call ends, whoever dies |
| fabric | two workers, one pair, a routable and a cross-chain stream, three edges, limit 1, balance 1, back-off after 2 | throttle and balance are overrun by at most the other worker, a back-off never ends, a closed queue ends every worker |
| parts | some 450,000 questions and answers | quotes, depth and edges; routes, plans and allowances; scores; transactions; prices; listed accounts |
| offers | the same | *violated*: above a health factor of one an offer's terms are the second ones, not between the two |
| sources | watcher: three websocket URLs, streak 4, three overtaken starts; prices: two rounds, two reads at once, a jump window of 2; sequencer: three overlapping calls; subgraph: one poller, two fetchers, one slot, two requests a window; retries: three borrowers, three attempts | the watcher is neither blind nor revived, old prices give way, the guard's entry says ok exactly when some read ever did and nobody who shares a read waits for ever, slots are counted, the main subgraph is asked again, no retry is lost or starved |

Bounds. Three callers are enough for the orchestrator because its properties compare one caller with "all the others": the bound is reached
exactly when all of them pass a check together, and a third shows that it grows with their number. Two would not tell `N - 1` from a constant. Sends exceed the cap by the number of
callers, so that the overrun fits. `FailSample` is 5 in the pipeline run and lowered to 2 in orchestrator_stops, which checks liveness and where only
the order of the alert and the exit matters. `MaxAttempts` stops new candidates of a borrower once a store holds that many attempts, which are as many as the bound allows
in the throttle's configurations. Three candidates a source give ChainAgent two orphans and a live waiter at once.

For the newer runs: a robbed lock takes three calls (one late, one robbed by it, one that enters meanwhile), so senders has three bundles, two of them of one process so that the map
is contended as well. Two workers are the fewest that overlap in the fabric, and three edges let one of them come around; `FabricProofs` has the bounds for any number. Two rounds are one change of a price,
which the guard may take for a jump. Three overtaken starts are one more than the fewest that mix, and a streak of 4 is the code's default. (The code only ever sets the URL cursor to 0 or to the URL it took, so it never moves on by itself.) One slot and two requests a window
make both limits bind with three callers. Three borrowers let one that has no URL stand first, in the middle and last.

The parts' bounds are chosen so that each operator's branches are all taken: pools with and without depth and on both sides of their limits, five tokens of which two share an address, health factors on both sides of
every threshold, amounts small enough to be rounded down to nothing.

Deadlock is not checked where the process can exit or its sources can dry up (all but sequencer_down, parts and offers).

Fairness. `RunnerStep`, `Proceed(c)`, `Worker(w)`, `BundleStep(c)`, `Loop`, `Merge`, `ReadReturns`, `ReadSettles` and `Settle` are weakly fair: promise callbacks run, and every await of theirs is a call with a timeout in its client. For `Loop` this means that an iteration ends, not that a drain comes up empty: a loop that goes on dispatching retries is fair, and `QueuedServed` excepts it (`OnlyRetries`).
`KillPollDue`, `KeyExpires`, `Tick`, `Expire`, `GraphTick` and `RetryTick` are weakly fair because they are the clock. Reads of a price are asked for again and again (`Hit`, `Miss`), which pollers do. One action is strongly fair: a feed whose
reads fail now and then answers in the end (`Answered`), without which no cache could promise anything. Candidates, edges, the operator, Redis failures, blocks, crashes and stream ends owe nothing.

### 3.1 Where code and documents disagree

Three properties state what a document or a comment says and are violated; `PROJECT.json` has them under `findings`, with the lines they contradict:

- the live-execution cap of the orchestrator (its notional cap is overrun the same way, `NotionalBounded` says how far);
- the sequencer guard that never forgets a good read;
- the terms of an offer. `morphoblue_indexer.ts:336` interpolates from preLLTV, with the second terms, to a health factor of one, with the first; the example at `PRELIQ_INTEGRATION_COMPLETE.md:257-263` works a health factor of 1.03 to terms between the two.
  The code runs the other way, is clamped at one, and attaches terms above one only, so they are always `preLCF2` and `preLIF2`. `OffersInterpolate` is what the two texts have in common; `OfferSound` says what the code does.

Others were met on the way and are not runs:

- `monitoring/README.md:115` drills an alert by setting `risk.maxLiveExecutions=0` and expects that nothing is sent. Both programs take 0 for no cap (`SafetyConfigs` has it so).
- `README.md:173` says the kill switch halts all agents instantly. An answer may be one poll interval old, and a caller past its look sends; `KillSwitchHalts` says that the sending ends.
- `docs/SYSTEM_ARCHITECTURE.md:763` and `:765` speak of staleness checks and a fallback when prices are stale. A read in flight when its feed is invalidated writes the old price back with a full lifetime; `OldPriceWasOvertaken` says that there is no
  other way to it, `AnswersCatchUp` that it does not last.
- `docs/runbooks/liquidator_runbook.md:161` says that more than three consecutive execution failures lead to a back-off that clears. Refusals count as failures too, three suffice, and the back-off refuses, so it never clears: `LockoutIsFinal`.
- `price_watcher.ts` has a short lifetime for errors (`ROUTE_ERROR_TTL_MS`), which a failed quote does not get: `buildRouteQuote` turns it into null, `bestRoute` resolves, and null is kept for `ROUTE_TTL_MS` (377-380). No document says which is meant; `RouteCacheSound` says what holds.
- Policy retries come before the realtime queue and the streams (`orchestrator.ts` 1387), and a dispatch starts their count of attempts anew, so borrowers that stay near the threshold can hold the loop (`QueuedServed`). No document promises otherwise.
- A candidate of the realtime queue can be given to a waiter whose race is over and is then handled by nobody (`LostBounded`). No document promises otherwise.

## 4. What is proved

All theorems are proved for every value of the constants that the modules' assumptions allow: any number of callers, workers, agents and borrowers, any risk
configuration, any bound. The assumptions (`QueueAssumption`, `RunnerAssumption`, `OrchestratorAssumption`, `GuardAssumption`, `AgentAssumption`, `LockAssumption`, `SendersAssumption`, `RpcAssumption`, `WatcherAssumption`,
`CacheAssumption`, `GraphAssumption`, `RetryAssumption`, `FabricAssumption`, and of the parts `PlanAssumption`, `ScoresAssumption`, `RoutersAssumption`, `ContractsAssumption`, `PricesAssumption`, `CallsAssumption`, `PathAssumption`,
`PoolAssumption`, `IndexersAssumption`, `RowsAssumption`, `PredictorAssumption`, `CandidateAssumption`) give the constants their types and keep the marker values apart from the data: no offer is not an offer, a revert is not a world, an unknown price is not a number. Five say more: the callers are finitely many and at
least one; no plan repays more than `MaxRepayUsd`, which `simulate` (318-336) sees to where `risk.maxRepayUsd` is set; a search for a price may make a call for each of the four tokens (`Calls`, the bound at which an endless search is cut); a batch may bring the three rows asked about (`RowLimit`; the code's limit, line 762, is at least 16); and the pool of the
quotes, within its depth, pays something for every amount and never more than its first unit's price for each, which is what a constant-product pool does.

### 4.1 PipelineRunnerProofs

`Inv` has five parts, because no property is inductive alone.

- `TypeOK` and `HandFilled`: where there is a candidate in hand, and a live plan with an amount, so that each step keeps the types.
- `SafeInv`: `CapsHold` with `SendFits` (what is being sent still fits under both caps, since nothing is counted between the check and the answer) and `QueueShape` (the loop is parked exactly
  while it waits without an answer, in an open and empty queue).
- `RateInv`: `ThrottleHolds` with `ThrottleRoom` (from the throttle's answer to the record, the store in use has room for one more attempt, and the map is empty until it is in use).
- `StopInv`: `AutoStopHolds` with `AlertArmed` (with auto-stop no alert cooldown is running in a run that goes on, so the error that crosses the fail-rate cap is never overlooked).

`CapsCorrect`, `WakeupCorrect`, `ThrottleCorrect`, `AutoStopCorrect` and `TypeCorrect` follow from `Inv`, and so does `BudgetImplemented`: under the refinement mapping (`Stage`,
`ReservedUsd`) every step of the runner is a step of `SessionBudget` or a stutter. `WakeupCorrect` proves `NoLostWakeup`, which no run lists because `ClosedEndsRun` and the theorem cover it.
The module opens with what the queue's operations keep.

### 4.2 OrchestratorProofs

The properties here are bounds on an overrun, and none is inductive. They have one argument in common: those who pass a check and have yet to act on it form a set, and
the invariant trades the size of this set against the counter.

- `WireStep`: `WireAccounted` is inductive by itself; a step moves one caller in or out of `InFlight`, and `OneMoves` says what that does to its cardinality.
- `CapInv`: the count is below its cap, or equals it when the process has ended and the caller that reached it is not on the wire. `CountWithinCap` follows, and with
  `WireAccounted` and the number of callers `BroadcastsBounded`: the caller of the last count is why the bound is `N - 1` and not `N`.
- `NotionalInv`: with k callers past the caps, some one of them fits into the cap plus `N - k` plans. Whoever passes is the one that fits; whoever is done adds one plan and leaves a
  place. A sum over the callers would say the same and could not be proved, since it needs induction.
- `ThrottleInv`: the store in use has room for every caller that has yet to record. As long as Redis is in use the map is empty, and once the map is in use Redis is not counted up; so a failure between a
  caller's look and its record starts a store with room for all.

`CallerShapes` and `ThrottleShapes` reduce the twenty steps of a caller to the few kinds these arguments tell apart.

### 4.3 ChainAgentProofs

`IntakeInv` has five parts.

- `Shape`: types, and what the places say of each other (`Places`): the hand is full exactly while it is handled, the candidate of the merge is still in its promise then, whoever waits has not been answered, and
  nobody waits while something is queued.
- `StreamsInv`: each stream's candidates are handled, in the merge's promise or in the slot, counted (`StreamCount`) and in this order (`StreamOrder`).
- `RealtimeOrder`: what is queued is newer than everything that left the queue, no two waiters were given the same, and what the loop takes is newer than all it handled. This is where the queue's rule
  is needed that it serves a waiter before it queues.
- `Ledger`: each realtime candidate is queued, in the loop, handled or lost; and waiters, the race's candidate and the lost are together no more than the races the merge has won and the one under way. `LostBounded` alone is not inductive, since
  a candidate that the race has and has not taken yet is neither.
- `InOrder`, which follows step by step from the two orders.

`IntakeTypeCorrect` and `CandidatesAccountedCorrect` follow for any number of streams and candidates.

### 4.4 SendersProofs

- `SoundIsExclusiveCorrect`: with Redis, whoever is on time in its section has its token under the key, and without, the entry of its process (`LockInv`); so two of one scope are one call. `SoundStep` finds that a step lets
  nobody in or one call into an empty scope, which makes it a step of `NonceMutex` or a stutter.
- `NonceDisciplineCorrect` from `NonceInv`: an accepted bundle that was not late, robbed or abandoned either waits for its receipt in its section, or has its nonce behind the account's count. A new nonce is at or above the count and free in the pool it is
  read from, and exclusion keeps those who wait apart (`NoncesApart`). A key is robbed only after somebody was late (`RobbedAfterLate`). `NextNonceIsNat` shows by counting that the first free nonce exists: of one more
  numbers than there are transactions one is free, and the inclusion of the intervals below is well-founded.

### 4.5 SourcesProofs

Each theorem is about one part, and `WatcherSteps`, `CacheSteps`, `GuardSteps`, `GraphSteps` and `RetrySteps` carry it over to `Sources`.

- `NeverBlindCorrect` from `WatcherInv`. `NeverBlind` says nothing of a watcher before its pool is found or after a stop; `FlagsAgree` adds that before its pool is found nothing is subscribed or due,
  and that a stopped watcher has no subscription of its own, so that no error or timer leads out of either but the way the code means.
- `StopIsFinalCorrect` from the same invariant: `StoppedStep` goes through the actions and finds that each either asks `stopped` first or concerns a start that was reading when the stop came.
- `OldPriceCorrect` from `CacheInv`: the entry and every read under way know whether an event came after their round (`Knows`), since an event marks the reads it overtakes and is delivered after its round is published.
- `SlotsAccountedCorrect` from `GraphInv`: whoever fetches is one of a finite set that grows and shrinks by one as the count does, so the count is never clipped at zero, and whoever gets a slot has looked at both limits in the
  same step. `OlderIsShorter` says that time only takes requests out of the window.
- `RetriesKeptCorrect` from `RetryInv`: the map is a sequence of entries with an attempt among those allowed, so an entry that may have no further attempt has had exactly the last. `RemoveAtKeeps`, `AppendKeeps` and `MapSetKeeps`
  say that the map's operations lose nobody but the one they name. The delays need no type.
- `GuardSticky` and `GuardTypeCorrect` from `GuardInv`, which adds `EmptyMeansNeverOk`: as long as the guard's entry is empty no read has come back ok.

### 4.6 FabricProofs

`Moved` and `Sizes` are the same argument over sets of workers as in the orchestrator.

- `LockoutCorrect`: while no worker holds an accepted edge of a pair in back-off, `Evaluate` refuses, a refusal adds to the count, and the one step that resets it needs such a worker.
- `AttemptsCorrect` from `AttemptInv`: what the store in use holds and what is about to be counted stay within `Limit + N - 1`. A look that finds room adds one worker to the second and leaves at most the others there; a Redis
  failure starts the empty map.
- `SentCoveredCorrect` from `SentInv`, for at least one worker: while every balance read saw every transaction sent before it, the unmined transactions and the workers about to spend are covered by the balance but for one
  unit per further worker; a positive cached balance is really there, and a value read and not yet stored is the balance now. The last two are what a worker relies on that passes on a cached value another one stored.

### 4.7 PartsProofs

A decision is made anew by every step, so the invariants of `Parts` are inductive as they stand. `StepTopics` splits a step by its question, and one lemma for each question (`QuoteAnswered`, `PlanAnswered`, ...) says that its answer is sound. These rest on
theorems about the operators alone, which know nothing of the sets the questions are drawn from: they hold for any amounts, prices, lists, pools and environments of the right kind.

- *The plan.* `SimulatedPlan`: the routes that pass are finitely many, so one of them is worth most. `PlanKept`: flooring a share of an amount never exceeds it (`Share`, `ShareFloored`), and a route passes only when its guaranteed output less the repayment clears the floor in dollars,
  which with the price cancelled (`Cancel`) is the profit rounded up that the contract will ask for.
- *The contracts.* `FlashOutcome`, `FundsOutcome`, `MorphoOutcome`, `SeamlessOutcome` and `CompoundOutcome` give each transaction in closed form: a condition under which it goes through, and the world afterwards. That the loan is repaid and the floor kept, or everything reverts, is read off. `CompoundOutcome` is the one
  in which a call with no profit asked may end with less; it goes through only where the comet shows the contract some collateral. `BundleBuilt` and `SettledOutcome` do the same for the pre-liquidation, and `CarryThrough` ties the simulator's plan to the transaction it becomes.
- *Scores.* `AcceptedWithin`: an accepted candidate passed every gate, and the thresholds in force are the configured ones bent by no more than the clamps allow, whatever the averages have seen.
- *Allowances and the route cache.* Both are loops. `AllowOutcome` has one transaction for each router up to the one after whose failure the nonce cannot be read (`Reached`), and `RoutesServedInTime` gives a missing route the time of a route. `AllowOutcome` and `RoutesServedInTime` are proved by counting up the loop's steps: the loop is a recursive function, `Iterated` gives its equation, and the set of numbers at which its invariant holds contains all of `Nat` (`NatInductionSet`, the library's form of
  induction that takes a set and no operator).
- *Routes.* `RoutesBuilt`: the options are a concatenation of lists of different kinds, each without repetition (`Distinct`, `AtPlaces`).
- *Prices.* `PricesAgree`: what a search of n calls finds, a longer one finds too, by counting up the calls. `SearchEnds` counts them: an answer of its own takes one call; of two stables, one without an answer leads to the other, which has one or leads nowhere since there is no circle; other tokens take one call more, and those quoted in ether a fourth. What the guard holds for a token does not depend on how long the search is, so guarding each answer changes neither argument (`priceStep`).
- *Quotes.* `QuoteOutcome`: the amount is divided by four until the pool answers, which ends (`Falls`), and what is scaled up again is at most the first unit's price for each unit.
- *Edges.* `SuggestionFits`, `RoundTripCloses`, `TriangleCloses`, `TrianglesOnce`, `CrossOutcome`. Every leg hands on what the next takes in, every leg is within a point measured, and what comes back clears the floor. Triangles are tried once because each set of three has a first in the loop's order, and none after one that throws; an edge is only built of three quotes that did not.
  Across chains the amounts are rounded twice, and `RoundedGain` says that both together cost less than one unit, so that in whole dollars the floor still holds.

`FabricIsSound`, `LiquidationIsSound`, `ScoresAreSound`, `ExecutionIsSound` and `PricesAreSound` follow.

### 4.8 DiscoveryProofs

The same for the indexers and the predictors, in a module of its own that extends `PartsProofs`. Their state (an override, a cache, a dedupe map, an average, a history) lives through sequences of calls, so each theorem
counts up the calls with an invariant of that state (`Carried`, or `NatInductionSet`).

- `BoostsEnd`: the override after n events is the last boost with what is left of its time, or none; what a boost leaves out comes from those before it and is within the bounds like them.
- `StreamsOnceAWindow`: the dedupe map holds for each key when it went out last (`PollDeduped`), so a candidate is held back only for one that the map remembers; a turn's interval is at most the larger of the success interval and the longest
  (`StreamTurned`).
- `CompoundPicks`: finitely many collaterals have a largest, and of the largest one is first (`LargestFirst`). A poll finds it once for each market (`MarketsFindAlike`), the stream once (`RepeatedGoesOnce`).
- `OfferTerms`: above a health factor of one the interpolation stands at its upper end, so what a cache without the health factor keeps is the same for every one. (The documents mean other terms, section 3.1.)
- `PrecommitsWhenDue`: with updates in order the average interval is at least the shortest (`FeedKnown`).
- `HandledAheadWhenFalling`: the history holds the last tick that saw the account in the band, the cooldown the last that handled it (`ScansKnown`).

- `AccountsFound`: what a poll finds of any rows, any scan, any answers and any threshold above one. The rows a model folds over are a sequence of any length, so the argument is about folds: `FoldExists` gives every function that recurses over a
  sequence its values, `FoldOfOneMore` its step, and `AllSequences` is induction on sequences by a set of those for which a statement holds. On these rest `UsersSelected` (the scan picks each account once, in order, up to the page),
  `FetchedBy` (the batches together bring every row of those picked and of nobody else, in the account's order, as long as no batch is cut off), and `RowsGrouped` (the bucket of an account holds its own rows and their sums, whatever rows of others lie
  between and whenever an asset was first priced: the cache holds what the oracle answers, `AskedOf`). `ListedRightly` then goes from a bucket to its candidates: a floored ratio is below the threshold exactly when the exact comparison is (`DerivedBelow`), and a price
  that is not known adds to what is held only when it is (`RowsValued`). Its hypotheses are that the rows number no more than a batch's limit, that an account's rows agree on its health factor, and that a price through ether is whole (`RightlyPriced`: the code rounds it, the property does not);
  where one batch is cut off the rows of an account may be lost, and the theorem does not apply.

`DiscoveryIsSound` follows. The questions meet those hypotheses: three rows, and answers of two for every asset (`RowsAsked`, `TwosPriced`).

### 4.9 Model-checked only

Liveness (`ClosedEndsRun`, both `KillSwitchHalts`, `AutoStopEnds`, `CallersAnswered`, `QueuedServed`, `CallsEnd`, `StreamsOverEndsWorkers`, `AnswersCatchUp`, `SubgraphServes`, `RetriesServed`) rests on fairness, which is out of the prover's reach.
Every invariant and every action property that a passing run checks has a theorem. The violated properties are TLC's counterexamples.

## 5. Plan

Done: both candidate handlers and what they share, with their proofs; the sequencer guard; the intake of the orchestrator; the nonce lock and the senders; the watcher with the client registry; prices; the subgraph; retries; the
arbitrage fabric; the contracts; routes, simulator, scorers, indexers and predictors as decisions. Left, in this order:

1. The heartbeat's clock with the agent loop, and `processCandidate` throwing out of the loop.
2. A balance cache for the orchestrator like the fabric's.

## 6. Not modelled

- *The heartbeat's clock* (`orchestrator.ts` 378-427): when it starts a fallback poll. What the poll then does is one more caller of `processCandidate`, which `Orchestrator` has; the boost it asks for is `Indexers`'.
- *`processCandidate` throwing out of the agent's loop*: the agent ends, as it does in `ChainAgent` when its streams are done.
- *Exactly, Ionic and Silo indexers*: their adapters never make a plan.
- *Attempts and database*: one INSERT per outcome, errors swallowed; nothing is read back.
- *Borrower intel*: a Redis value that decides whether a bypass of the throttle is allowed; any answer in `Orchestrator`.
- *Agent service, risk engine*: separate programs. The first stages proposals in files; the second is stateless and `Scores` lets it answer anything.
- *Configuration, metrics, alerts, logging, analytics and tools*: input validation, output, offline scripts.
- Of what is modelled: text, addresses and ABI encodings, gas prices, allowances of the contracts' tokens and their events, GraphQL queries, and integer widths: a bigint has none, and an
  overflow in a contract is one more revert.

`PROJECT.json` lists each component with its status.

------------------------------- MODULE Fabric -------------------------------
(***************************************************************************)
(* The arbitrage fabric, offchain/arb_fabric/runner.ts: solver streams push   *)
(* edges into an AsyncQueue; maxConcurrentExecutions workers take them        *)
(* through kill switch, risk manager (risk.ts), edge throttle and executor    *)
(* (executor.ts).  Each await of a worker is a program point.                 *)
(*                                                                         *)
(* An edge is its pair and the stream it came from.  Its age, net and         *)
(* multiple are a choice made where they are looked at: an edge may wait in   *)
(* the queue for any time.  So is the kill switch's answer: its file comes and *)
(* goes as the operator likes.  All pairs share the base token, so one cached  *)
(* balance; an edge spends one unit of it.                                   *)
(***************************************************************************)
EXTENDS Integers, Sequences, FiniteSets, AsyncQueue, EdgeThrottle, FabricInventory

CONSTANTS Sources,        \* the streams the configuration may enable
          Unroutable,     \* those whose legs carry no fee: cross-chain
          NoEdge,
          FailureBackoff, \* FABRIC_FAILURE_BACKOFF
          MaxEdges        \* bound: edges the streams push

Edges == [pair : Pairs, source : Sources]

ASSUME FabricAssumption ==
  /\ Consumers = Workers /\ Items = Edges /\ IsFiniteSet(Workers)
  /\ NoEdge \notin Edges
  /\ Limit \in Nat /\ FailureBackoff \in Nat \ {0} /\ MaxEdges \in Nat
  /\ Balance \in Nat /\ Unknown \notin Nat
  /\ Unroutable \subseteq Sources

VARIABLES census,              \* global.mode = 'census'
          active,              \* streams that have not ended (activeProducers)
          produced,
          pc, hand,            \* each worker's await and the edge it holds
          consecutiveFailures, \* RiskManager.stats
          allowance,           \* of the router: "none", "sent" (approve unmined), "granted"
          graphRunning         \* priceGraph.running

mainVars == <<census, active, produced, graphRunning>>
workerVars == <<pc, hand>>
vars == <<queueVars, edgeThrottleVars, inventoryVars, mainVars, workerVars,
          consecutiveFailures, allowance>>

\* Past evaluate(): the edge will be tried whatever the stats become.
Accepted == {"throttle", "count", "execute", "reading", "storing", "allowance", "send"}
Over == {"finished", "dead"}

TypeOK ==
  /\ QueueTypeOK /\ EdgeThrottleTypeOK /\ InventoryTypeOK
  /\ census \in BOOLEAN /\ graphRunning \in BOOLEAN
  /\ active \subseteq Sources /\ produced \in 0..MaxEdges
  /\ pc \in [Workers -> Accepted \cup Over \cup {"next", "waiting"}]
  /\ hand \in [Workers -> Edges \cup {NoEdge}]
  /\ \A w \in Workers : hand[w] # NoEdge <=> pc[w] \in Accepted
  /\ consecutiveFailures \in [Pairs -> Nat]
  /\ allowance \in {"none", "sent", "granted"}

\* No enabled stream: main() closes the queue at once.
Init ==
  /\ EdgeThrottleInit /\ InventoryInit
  /\ census \in BOOLEAN /\ graphRunning = TRUE
  /\ active \in SUBSET Sources
  /\ items = <<>> /\ resolvers = <<>> /\ closed = (active = {})
  /\ delivered = [w \in Workers |-> Nothing]
  /\ produced = 0
  /\ pc = [w \in Workers |-> "next"]
  /\ hand = [w \in Workers |-> NoEdge]
  /\ consecutiveFailures = [p \in Pairs |-> 0]
  /\ allowance \in {"none", "granted"}

Goto(w, at) == pc' = [pc EXCEPT ![w] = at]
Drop(w, at) == Goto(w, at) /\ hand' = [hand EXCEPT ![w] = NoEdge]
Keep(w, at) == Goto(w, at) /\ UNCHANGED hand
-----------------------------------------------------------------------------
(* The streams. *)

\* for await (edge of generator) queue.push({ edge, pair }) for a known pair.
Produce(s, p) ==
  /\ s \in active
  /\ produced < MaxEdges
  /\ produced' = produced + 1
  /\ Push([pair |-> p, source |-> s])
  /\ UNCHANGED <<edgeThrottleVars, inventoryVars, census, active, graphRunning,
                 workerVars, consecutiveFailures, allowance>>

\* A generator throws: logged; the last one to go closes the queue.
StreamEnds(s) ==
  /\ s \in active
  /\ active' = active \ {s}
  /\ IF active = {s} THEN Close ELSE UNCHANGED queueVars
  /\ UNCHANGED <<edgeThrottleVars, inventoryVars, census, produced, graphRunning,
                 workerVars, consecutiveFailures, allowance>>
-----------------------------------------------------------------------------
(* One worker: consumer() and executeEdge(). *)

Next_(w) ==
  /\ pc[w] = "next"
  /\ CallNext(w)
  /\ Keep(w, "waiting")
  /\ UNCHANGED <<edgeThrottleVars, inventoryVars, mainVars, consecutiveFailures, allowance>>

\* The for-await loop ends; once every worker is through, main() stops the graph.
Finish(w) ==
  /\ pc[w] = "waiting"
  /\ Resume(w, Done)
  /\ Keep(w, "finished")
  /\ graphRunning' = (graphRunning /\ \E v \in Workers \ {w} : pc[v] # "finished")
  /\ UNCHANGED <<edgeThrottleVars, inventoryVars, census, active, produced,
                 consecutiveFailures, allowance>>

\* risk.record(pair, success): only a success ends a streak of failures.
Record(p, success) ==
  consecutiveFailures' = [consecutiveFailures EXCEPT ![p] = IF success THEN 0 ELSE @ + 1]

\* Mutant of Evaluate: one failure more is allowed.
EvaluateOneMore(edge, good) == good /\ consecutiveFailures[edge.pair] <= FailureBackoff

\* risk.evaluate(edge, pair).ok, when the edge's own figures are good enough
\* (age, minNetUsd, pnlMultipleMin; its source is enabled, or it had no stream).
Evaluate(edge, good) == good /\ consecutiveFailures[edge.pair] < FailureBackoff

\* An edge arrives: kill switch, census and risk are looked at in one go, and a
\* refusal of the first or the last counts as a failure of the pair.
Take(w) ==
  /\ pc[w] = "waiting"
  /\ \E edge \in Edges, killed \in BOOLEAN, good \in BOOLEAN :
       /\ Resume(w, edge)
       /\ \/ /\ killed \/ (~census /\ ~Evaluate(edge, good))
             /\ Record(edge.pair, FALSE)
             /\ Drop(w, "next")
          \/ /\ ~killed /\ census
             /\ Drop(w, "next")
             /\ UNCHANGED consecutiveFailures
          \/ /\ ~killed /\ ~census /\ Evaluate(edge, good)
             /\ Goto(w, "throttle")
             /\ hand' = [hand EXCEPT ![w] = edge]
             /\ UNCHANGED consecutiveFailures
  /\ UNCHANGED <<edgeThrottleVars, inventoryVars, mainVars, allowance>>

ThrottleLook(w) ==
  /\ pc[w] = "throttle"
  /\ \E throttled \in BOOLEAN :
       /\ IsEdgeThrottled(hand[w].pair, throttled)
       /\ IF throttled
          THEN Record(hand[w].pair, FALSE) /\ Drop(w, "next")
          ELSE Keep(w, "count") /\ UNCHANGED consecutiveFailures
  /\ UNCHANGED <<queueVars, inventoryVars, mainVars, allowance>>

\* recordEdgeAttempt, then the 'queued' row (written or not, it never throws).
CountAttempt(w) ==
  /\ pc[w] = "count"
  /\ RecordEdgeAttempt(hand[w].pair)
  /\ Keep(w, "execute")
  /\ UNCHANGED <<queueVars, inventoryVars, mainVars, consecutiveFailures, allowance>>

\* executeEdge returned null: no key, chain or account, too little balance, a
\* path that cannot be built, a failed estimate or send.
Fail(w) ==
  /\ Record(hand[w].pair, FALSE)
  /\ Drop(w, "next")

\* A throw outside executeEdge's try: the worker is gone, Promise.all rejects,
\* main()'s finally stops the price graph, and the rest runs on.
Die(w) ==
  /\ Drop(w, "dead")
  /\ graphRunning' = FALSE
  /\ UNCHANGED <<census, active, produced, consecutiveFailures>>

\* The price read throws; or there is no key; or ensureBalance starts.
Execute(w) ==
  /\ pc[w] = "execute"
  /\ \/ Die(w)
     \/ Fail(w) /\ UNCHANGED mainVars
     \/ /\ ~Trusted /\ Keep(w, "reading")
        /\ UNCHANGED <<mainVars, consecutiveFailures>>
     \/ /\ Trusted /\ cached >= 1 /\ Keep(w, "allowance")
        /\ UNCHANGED <<mainVars, consecutiveFailures>>
  /\ UNCHANGED <<queueVars, edgeThrottleVars, inventoryVars, allowance>>

ReadBalance(w) ==
  /\ pc[w] = "reading"
  /\ \/ BalanceAnswered(w) /\ Keep(w, "storing") /\ UNCHANGED <<mainVars, consecutiveFailures>>
     \/ UNCHANGED inventoryVars /\ Die(w)
  /\ UNCHANGED <<queueVars, edgeThrottleVars, allowance>>

\* ensureBalance goes on with the value read.  Too little of it asks for a
\* bridge, whose append to a file may throw.
BalanceRead(w) ==
  /\ pc[w] = "storing"
  /\ StoreBalance(w)
  /\ \/ /\ readValue[w] >= 1 /\ Keep(w, "allowance")
        /\ UNCHANGED <<mainVars, consecutiveFailures>>
     \/ readValue[w] < 1 /\ Fail(w) /\ UNCHANGED mainVars
     \/ readValue[w] < 1 /\ Die(w)
  /\ UNCHANGED <<queueVars, edgeThrottleVars, allowance>>

\* ensureAllowance (an approve is sent, not waited for; either call may throw),
\* then buildPath, which no edge without fees passes.
EnsureAllowance(w) ==
  /\ pc[w] = "allowance"
  /\ \/ Die(w) /\ UNCHANGED allowance
     \/ /\ allowance' = IF allowance = "granted" THEN allowance ELSE "sent"
        /\ IF hand[w].source \in Unroutable
           THEN Fail(w)
           ELSE Keep(w, "send") /\ UNCHANGED consecutiveFailures
        /\ UNCHANGED mainVars
  /\ UNCHANGED <<queueVars, edgeThrottleVars, inventoryVars>>

\* estimateContractGas needs the balance and the allowance on chain; it or the
\* send may fail.  After the send recordFill may throw while it asks for a
\* bridge: the transaction is out, and the pair is charged with a failure.
Send(w) ==
  /\ pc[w] = "send"
  /\ \/ Fail(w) /\ UNCHANGED inventoryVars
     \/ /\ onChain >= 1 /\ allowance = "granted"
        /\ RecordFill
        /\ \E thrown \in BOOLEAN : Record(hand[w].pair, ~thrown)
        /\ Drop(w, "next")
  /\ UNCHANGED <<queueVars, edgeThrottleVars, mainVars, allowance>>

Worker(w) ==
  \/ Next_(w) \/ Finish(w) \/ Take(w) \/ ThrottleLook(w) \/ CountAttempt(w) \/ Execute(w)
  \/ ReadBalance(w) \/ BalanceRead(w) \/ EnsureAllowance(w) \/ Send(w)
-----------------------------------------------------------------------------
(* The chain and the clock. *)

ApproveMined ==
  /\ allowance = "sent"
  /\ allowance' = "granted"
  /\ UNCHANGED <<queueVars, edgeThrottleVars, inventoryVars, mainVars, workerVars,
                 consecutiveFailures>>

Environment ==
  /\ \/ (Mined \/ CacheAges) /\ UNCHANGED edgeThrottleVars
     \/ (\E p \in Pairs : EdgeWindowExpires(p)) /\ UNCHANGED inventoryVars
  /\ UNCHANGED <<queueVars, mainVars, workerVars, consecutiveFailures, allowance>>

Next ==
  \/ \E s \in Sources, p \in Pairs : Produce(s, p)
  \/ \E s \in Sources : StreamEnds(s)
  \/ \E w \in Workers : Worker(w)
  \/ ApproveMined
  \/ Environment

\* The event loop runs every worker that can go on, and every await of a worker
\* is answered or fails.
Spec == Init /\ [][Next]_vars /\ \A w \in Workers : WF_vars(Worker(w))
-----------------------------------------------------------------------------
\* Once a pair is in back-off and no worker holds an edge of it that was accepted
\* before, it stays in back-off for the life of the process: every refusal counts
\* as one more failure and nothing else than a success forgets them.
LockedOut(p) ==
  /\ consecutiveFailures[p] >= FailureBackoff
  /\ \A w \in Workers : pc[w] \in Accepted => hand[w].pair # p

LockoutIsFinal == [][\A p \in Pairs : LockedOut(p) => LockedOut(p)']_vars

\* The workers look at the throttle and count later: in one window a pair is tried
\* at most once per further worker beyond its limit, in each of the two stores.
AttemptsBounded ==
  Limit > 0 =>
    \A p \in Pairs :
      /\ redisCount[p] <= Limit + Cardinality(Workers) - 1
      /\ memoryCount[p] <= Limit + Cardinality(Workers) - 1

\* Nothing reserves a balance between ensureBalance and recordFill, and still the
\* transactions under way exceed what the wallet holds by at most one per further
\* worker, as long as every balance read saw every transaction sent before it.
SentCovered == ~overlapped => unmined <= onChain + Cardinality(Workers) - 1

\* When the last stream has ended, every worker finishes what the queue still
\* holds and returns, or has died of a throw.
StreamsOverEndsWorkers == active = {} ~> \A w \in Workers : pc[w] \in Over

=============================================================================

------------------------------ MODULE ChainAgent ------------------------------
(***************************************************************************)
(* offchain/orchestrator.ts: how the agent of one chain comes by candidates.   *)
(* The protocol streams are merged by mergeCandidateStreams, which keeps one   *)
(* next() of each stream under way; the main loop keeps one next() of the      *)
(* merge under way.  Each turn of it first drains the policy retries and starts  *)
(* over if one was dispatched, then serves the realtime queue, and otherwise    *)
(* races the two.  What a race leaves behind stays in the queue (RealtimeQueue). *)
(*                                                                         *)
(* A candidate is <<source, n>>, the n-th of its source.                      *)
(***************************************************************************)
EXTENDS RealtimeQueue, FiniteSets, SequencesExt

CONSTANTS Streams,       \* the protocol adapters of the chain
          Realtime,      \* the source of what the watchers push
          Done,          \* { done: true }
          MaxProduced    \* bound: candidates of each source

Sources == Streams \cup {Realtime}
Candidates == Sources \X (1..MaxProduced)

ASSUME AgentAssumption ==
  /\ IsFiniteSet(Streams) /\ Streams # {} /\ Realtime \notin Streams
  /\ MaxProduced \in Nat
  /\ Done \notin Items /\ Done # Nothing
  /\ Items = Candidates

VARIABLES watched,         \* createChainWatcher made a watcher (WATCH_REALTIME)
          produced,        \* how many candidates each source has made
          active,          \* the streams whose states[i].next is not null,
          slot,            \* and what that promise resolved with
          subgraphPromise, \* the merge's next(), as the loop holds it
          loc,             \* where the loop is
          hand,            \* the candidate it handles
          handled,         \* those it has handled, in order
          streamWins       \* races the merge has won

agentVars == <<watched, produced, active, slot, subgraphPromise, loc, hand, handled, streamWins>>
vars == <<queueVars, agentVars>>

TypeOK ==
  /\ QueueTypeOK
  /\ watched \in BOOLEAN
  /\ produced \in [Sources -> 0..MaxProduced]
  /\ active \subseteq Streams
  /\ slot \in [Streams -> Items \cup {Nothing, Done}]
  /\ subgraphPromise \in Items \cup {Nothing, Done}
  /\ loc \in {"top", "retrying", "drained", "racing", "handling", "ended"}
  /\ hand \in Items \cup {Nothing}
  /\ handled \in Seq(Items)
  /\ streamWins \in Nat

Init ==
  /\ QueueInit
  /\ watched \in BOOLEAN
  /\ produced = [s \in Sources |-> 0]
  /\ active = Streams
  /\ slot = [s \in Streams |-> Nothing]
  /\ subgraphPromise = Nothing
  /\ loc = "top"
  /\ hand = Nothing
  /\ handled = <<>>
  /\ streamWins = 0
-----------------------------------------------------------------------------
(* Producers. *)

Produce(s) ==
  /\ produced[s] < MaxProduced
  /\ produced' = [produced EXCEPT ![s] = @ + 1]

\* An on-chain event makes fetchAndEnqueueBorrower push a candidate.
RealtimePush ==
  /\ watched
  /\ Produce(Realtime)
  /\ Push(<<Realtime, produced'[Realtime]>>)
  /\ UNCHANGED <<watched, active, slot, subgraphPromise, loc, hand, handled, streamWins>>

\* The stream's next() resolves with a candidate.
StreamYields(s) ==
  /\ slot[s] = Nothing
  /\ Produce(s)
  /\ slot' = [slot EXCEPT ![s] = <<s, produced'[s]>>]
  /\ UNCHANGED <<queueVars, watched, active, subgraphPromise, loc, hand, handled, streamWins>>

\* The stream returns, or throws: the catch of queueNext makes both the same.
StreamEnds(s) ==
  /\ slot[s] = Nothing
  /\ slot' = [slot EXCEPT ![s] = Done]
  /\ UNCHANGED <<queueVars, watched, produced, active, subgraphPromise, loc, hand, handled, streamWins>>

\* Mutant of MergeYields: what is yielded is read after the stream was asked again.
MergeYieldsLate(s) ==
  /\ subgraphPromise = Nothing
  /\ s \in active /\ slot[s] \in Items
  /\ slot' = [slot EXCEPT ![s] = Nothing]
  /\ subgraphPromise' = slot'[s]
  /\ UNCHANGED <<queueVars, watched, produced, active, loc, hand, handled, streamWins>>

\* The merge's race picks a stream that has a candidate, asks that stream for the
\* next one and yields.
MergeYields(s) ==
  /\ subgraphPromise = Nothing
  /\ s \in active /\ slot[s] \in Items
  /\ slot' = [slot EXCEPT ![s] = Nothing]
  /\ subgraphPromise' = slot[s]
  /\ UNCHANGED <<queueVars, watched, produced, active, loc, hand, handled, streamWins>>

\* It picks a stream that is done, which drops out; the last one ends the merge.
MergeDrops(s) ==
  /\ subgraphPromise = Nothing
  /\ s \in active /\ slot[s] = Done
  /\ active' = active \ {s}
  /\ subgraphPromise' = IF active' = {} THEN Done ELSE Nothing
  /\ UNCHANGED <<queueVars, watched, produced, slot, loc, hand, handled, streamWins>>
-----------------------------------------------------------------------------
(* The main loop.  The retry map is PolicyRetry's: here any drain may find a borrower *)
(* to dispatch, since what is dispatched may be scheduled again.                 *)

Handle(candidate) == hand' = candidate /\ loc' = "handling"

\* The finally block: the watcher stops and its queue shuts down.
End == loc' = "ended" /\ Shutdown /\ UNCHANGED hand

\* drainPolicyRetry fetches a due borrower's candidates and processes them, awaited.
DrainDispatches ==
  /\ loc = "top"
  /\ loc' = "retrying"
  /\ UNCHANGED <<queueVars, watched, produced, active, slot, subgraphPromise, hand, handled, streamWins>>

\* It returns true and the loop starts over, or its catch makes a failure false.
RetriesDone ==
  /\ loc = "retrying"
  /\ loc' \in {"top", "drained"}
  /\ UNCHANGED <<queueVars, watched, produced, active, slot, subgraphPromise, hand, handled, streamWins>>

\* Nothing is due, or what is due has no candidate: the drain returns false.
DrainFindsNone ==
  /\ loc = "top"
  /\ loc' = "drained"
  /\ UNCHANGED <<queueVars, watched, produced, active, slot, subgraphPromise, hand, handled, streamWins>>

Drain == DrainDispatches \/ RetriesDone \/ DrainFindsNone

TakeImmediate ==
  /\ loc = "drained" /\ watched
  /\ \E c \in Items : TryShift(c) /\ Handle(c)
  /\ UNCHANGED <<watched, produced, active, slot, subgraphPromise, handled, streamWins>>

StartRace ==
  /\ loc = "drained"
  /\ IF watched THEN Park ELSE UNCHANGED queueVars
  /\ loc' = "racing"
  /\ UNCHANGED <<watched, produced, active, slot, subgraphPromise, hand, handled, streamWins>>

OwnWaiter == Len(resolved)

RealtimeWins ==
  /\ loc = "racing" /\ watched
  /\ resolved[OwnWaiter] \in Items
  /\ Handle(resolved[OwnWaiter])
  /\ UNCHANGED <<queueVars, watched, produced, active, slot, subgraphPromise, handled, streamWins>>

\* The loop's waiter stays parked; nobody looks at it again.
SubgraphWins ==
  /\ loc = "racing"
  /\ subgraphPromise \in Items
  /\ Handle(subgraphPromise)
  /\ streamWins' = streamWins + 1
  /\ UNCHANGED <<queueVars, watched, produced, active, slot, subgraphPromise, handled>>

SubgraphDone ==
  /\ loc = "racing"
  /\ subgraphPromise = Done
  /\ End
  /\ UNCHANGED <<watched, produced, active, slot, subgraphPromise, handled, streamWins>>

\* processCandidate returns; the merge is asked for more only after one of its own.
Handled ==
  /\ loc = "handling"
  /\ handled' = Append(handled, hand)
  /\ subgraphPromise' = IF hand = subgraphPromise THEN Nothing ELSE subgraphPromise
  /\ hand' = Nothing
  /\ loc' = "top"
  /\ UNCHANGED <<queueVars, watched, produced, active, slot, streamWins>>

Loop == Drain \/ TakeImmediate \/ StartRace \/ RealtimeWins \/ SubgraphWins \/ SubgraphDone \/ Handled

Merge == \E s \in Streams : MergeYields(s) \/ MergeDrops(s)

Next ==
  \/ RealtimePush
  \/ \E s \in Streams : StreamYields(s) \/ StreamEnds(s)
  \/ Merge \/ Loop

Spec == Init /\ [][Next]_vars

\* Promise callbacks run, and what the loop awaits of a drain or a candidate ends in an
\* answer or an error.  The sources owe nothing, and no drain has to come up empty.
FairSpec == Spec /\ WF_vars(Loop) /\ WF_vars(Merge)
-----------------------------------------------------------------------------
(* Waiters of races the merge has won; a candidate given to one is lost. *)
Orphans == {w \in DOMAIN resolved : w < OwnWaiter \/ loc # "racing"}
Lost == {resolved[w] : w \in {o \in Orphans : resolved[o] \in Items}}
          \ (Range(handled) \cup {hand})

\* While the agent runs every realtime candidate is queued, in the loop's hands,
\* handled or lost to an orphan (orchestrator.ts 1391-1411, watchers.ts 169-194).
RealtimeAccounted ==
  loc # "ended" =>
    LET inLoop == IF loc = "racing" /\ watched THEN {resolved[OwnWaiter]} \cap Items
                  ELSE {hand} \cap ({Realtime} \X (1..MaxProduced))
        mine   == {i \in DOMAIN handled : handled[i][1] = Realtime}
    IN produced[Realtime]
         = Len(items) + Cardinality(inLoop) + Cardinality(mine) + Cardinality(Lost)

\* Each race the merge wins costs at most one realtime candidate, then or later:
\* it leaves one waiter, which takes one candidate and never a second (1397-1416).
LostBounded ==
  watched /\ loc # "ended" =>
    Cardinality(Lost) + Len(waiters) <= streamWins + (IF loc = "racing" THEN 1 ELSE 0)

\* Nothing a stream makes is lost while the agent runs: not in the merge, not in a
\* race that realtime wins (117-137, 1405-1417).
StreamsAccounted ==
  loc # "ended" =>
    \A s \in Streams :
      produced[s] = Cardinality({i \in DOMAIN handled : handled[i][1] = s})
                      + (IF slot[s] \in Items THEN 1 ELSE 0)
                      + (IF subgraphPromise \in Items /\ subgraphPromise[1] = s THEN 1 ELSE 0)

\* Each source's candidates are handled in the order it made them, none twice.
InOrder ==
  \A i, j \in DOMAIN handled :
    i < j /\ handled[i][1] = handled[j][1] => handled[i][2] < handled[j][2]

\* The four together: where every candidate of every source is, and in which order.
CandidatesAccounted == RealtimeAccounted /\ LostBounded /\ StreamsAccounted /\ InOrder

\* A queued realtime candidate is handled, however busy the streams are, unless the last
\* of them ends and the agent with it, or from some time on every drain dispatches a
\* retry (1387-1395): retries that fall due as fast as they are dispatched starve it.
OnlyRetries == loc \in {"top", "retrying"}
QueuedServed ==
  <>[]OnlyRetries \/ \A c \in Items : (c \in Range(items)) ~> (c \in Range(handled) \/ loc = "ended")
=============================================================================

------------------------------- MODULE Subgraph -------------------------------
(***************************************************************************)
(* indexer/aave_indexer.ts: how one chain's subgraph is asked.  Every request  *)
(* takes a slot (so many at once, so many in a window); errors in a row force   *)
(* the chain to the fallback subgraph for a while; a poller also backs off.     *)
(*                                                                         *)
(* The state of the slots belongs to the process, that of the errors to the     *)
(* chain: pollers of several protocols and the borrower fetches of the watcher   *)
(* share both.  Time passes in ticks; every duration is what is left of it.      *)
(***************************************************************************)
EXTENDS Integers, Sequences, SequencesExt, FiniteSetsExt

CONSTANTS Pollers,         \* streamCandidates of a protocol
          Askers,          \* fetchBorrowerCandidates
          OwnSubgraph,     \* those of them with a URL of their own: seamless, an override
          Concurrency,     \* GRAPH_MAX_CONCURRENCY
          PerWindow,       \* GRAPH_MAX_REQUESTS_PER_WINDOW
          GraphWindow,          \* GRAPH_RATE_WINDOW_MS
          FallbackTrigger, FallbackTime,
          BackoffBase, BackoffMax,
          Batches          \* bound: batches of a poll after its first request

Callers == Pollers \cup Askers

ASSUME GraphAssumption ==
  /\ Concurrency \in Nat \ {0} /\ PerWindow \in Nat \ {0}
  /\ GraphWindow \in Nat /\ Batches \in Nat

VARIABLES inFlight,        \* graphInFlight
          stamps,          \* graphTimestamps of the last window, as ages
          errors,          \* consecutive5xx of the chain
          forced,          \* time left of forcedFallbackUntil
          backoff,         \* a poller's [delay, left], delay 0 for none
          call             \* what a caller is about: [at, left, wait]

slots == <<inFlight, stamps>>
graphVars == <<slots, errors, forced, backoff, call>>

Resting == [at |-> "rest", left |-> 0, wait |-> 0]

GraphInit ==
  /\ inFlight = 0 /\ stamps = <<>>
  /\ errors = 0 /\ forced = 0
  /\ backoff = [p \in Pollers |-> [delay |-> 0, left |-> 0]]
  /\ call = [c \in Callers |-> Resting]
-----------------------------------------------------------------------------
\* Which subgraph a call that begins now asks, and stays with.  Either may fail.
buildSubgraphUrl(c) == IF c \in OwnSubgraph THEN "own" ELSE IF forced > 0 THEN "fallback" ELSE "main"

Begin(c) ==
  /\ call[c].at = "rest"
  /\ c \in Pollers => backoff[c].left = 0
  /\ \E batches \in IF c \in Pollers THEN 0..Batches ELSE {0} :
       call' = [call EXCEPT ![c] = [at |-> "asks", left |-> batches, wait |-> 0]]
  /\ UNCHANGED <<slots, errors, forced, backoff>>

\* Until the oldest request leaves the window, a whole one where there is none.
SlotWait == IF stamps = <<>> THEN GraphWindow ELSE GraphWindow - stamps[1]

\* Mutant of acquireGraphSlot: who has waited does not look again.
acquireOnWaking(c) ==
  /\ call[c].at \in {"asks", "sleeps"} /\ call[c].wait = 0
  /\ IF call[c].at = "sleeps" \/ (inFlight < Concurrency /\ Len(stamps) < PerWindow)
     THEN /\ inFlight' = inFlight + 1 /\ stamps' = Append(stamps, 0)
          /\ call' = [call EXCEPT ![c].at = "fetches"]
     ELSE /\ call' = [call EXCEPT ![c].at = "sleeps", ![c].wait = SlotWait]
          /\ UNCHANGED slots
  /\ UNCHANGED <<errors, forced, backoff>>

\* A slot when there is one, else a sleep.
acquireGraphSlot(c) ==
  /\ call[c].at \in {"asks", "sleeps"} /\ call[c].wait = 0
  /\ IF inFlight < Concurrency /\ Len(stamps) < PerWindow
     THEN /\ inFlight' = inFlight + 1 /\ stamps' = Append(stamps, 0)
          /\ call' = [call EXCEPT ![c].at = "fetches"]
     ELSE /\ call' = [call EXCEPT ![c].at = "sleeps", ![c].wait = SlotWait]
          /\ UNCHANGED slots
  /\ UNCHANGED <<errors, forced, backoff>>

releaseGraphSlot == inFlight' = Max({0, inFlight - 1}) /\ UNCHANGED stamps

\* graphFetch brought data: the chain's errors are forgotten, whoever made them; the
\* last answer of a poll ends its poller's backoff.
Succeed(c) ==
  /\ call[c].at = "fetches"
  /\ releaseGraphSlot
  /\ errors' = 0
  /\ call' = [call EXCEPT ![c] = IF call[c].left = 0 THEN Resting
                                 ELSE [call[c] EXCEPT !.at = "asks", !.left = @ - 1]]
  /\ backoff' = IF c \in Pollers /\ call[c].left = 0 THEN [backoff EXCEPT ![c] = [delay |-> 0, left |-> 0]]
                ELSE backoff
  /\ UNCHANGED forced

\* A fallback activated in the same instant is left as it is, the count with it
\* (which is not followed beyond the trigger).
activateFallback ==
  IF forced >= FallbackTime THEN errors' = FallbackTrigger /\ UNCHANGED forced
  ELSE errors' = 0 /\ forced' = FallbackTime

\* 429 and 5xx count; anything else, a timeout included, does not.
recordSubgraphError(status) ==
  IF status \notin {"429", "5xx"} THEN UNCHANGED <<errors, forced>>
  ELSE IF errors + 1 >= FallbackTrigger THEN activateFallback
  ELSE errors' = errors + 1 /\ UNCHANGED forced

NextDelay(p) == IF backoff[p].delay = 0 THEN BackoffBase ELSE Min({2 * backoff[p].delay, BackoffMax})

\* Mutant of Fail: the slot is not given back.
FailKeepsSlot(c, status) ==
  /\ call[c].at = "fetches"
  /\ UNCHANGED slots
  /\ recordSubgraphError(status)
  /\ backoff' = IF c \in Pollers /\ status = "5xx"
                THEN [backoff EXCEPT ![c] = [delay |-> NextDelay(c), left |-> NextDelay(c)]] ELSE backoff
  /\ call' = [call EXCEPT ![c] = Resting]

Fail(c, status) ==
  /\ call[c].at = "fetches"
  /\ releaseGraphSlot
  /\ recordSubgraphError(status)
  /\ backoff' = IF c \in Pollers /\ status = "5xx"
                THEN [backoff EXCEPT ![c] = [delay |-> NextDelay(c), left |-> NextDelay(c)]] ELSE backoff
  /\ call' = [call EXCEPT ![c] = Resting]

Less(n) == IF n = 0 THEN 0 ELSE n - 1

\* The oldest come first: as many as have left the window are dropped.  The code drops
\* them when somebody asks; dropping them as they leave tells nobody apart.
Older(ages) ==
  LET gone == Cardinality({i \in DOMAIN ages : ages[i] + 1 >= GraphWindow})
      kept == SubSeq(ages, gone + 1, Len(ages))
  IN [i \in DOMAIN kept |-> kept[i] + 1]

GraphTick ==
  /\ stamps' = Older(stamps)
  /\ forced' = Less(forced)
  /\ backoff' = [p \in Pollers |-> [backoff[p] EXCEPT !.left = Less(@)]]
  /\ call' = [c \in Callers |-> [call[c] EXCEPT !.wait = Less(@)]]
  /\ UNCHANGED <<inFlight, errors>>
  /\ graphVars' # graphVars

Statuses == {"429", "5xx", "other"}

GraphNext ==
  \/ \E c \in Callers : Begin(c) \/ acquireGraphSlot(c) \/ Succeed(c) \/ \E status \in Statuses : Fail(c, status)
  \/ GraphTick

-----------------------------------------------------------------------------
\* However many wake at once, no more requests are under way than allowed, none is
\* counted that is not, and no window of the configured length sees more than its
\* share.
SlotsAccounted ==
  /\ inFlight = Cardinality({c \in Callers : call[c].at = "fetches"})
  /\ inFlight <= Concurrency
  /\ Len(stamps) <= PerWindow

\* The gate does not wedge: as long as somebody sleeps before it, requests go on.
NeverWedged ==
  (\E c \in Callers : call[c].at = "sleeps")
    ~> ((\A c \in Callers : call[c].at # "sleeps") \/ \E c \in Callers : call[c].at = "fetches")

\* A chain that no longer answers with 429 or 5xx is in the end asked at its own
\* subgraph again, and every poller polls without backoff: nothing else prolongs them.
BackToMain ==
  <>[][\A c \in Callers : ~Fail(c, "429") /\ ~Fail(c, "5xx")]_graphVars =>
    <>[](/\ \A c \in Callers \ OwnSubgraph : buildSubgraphUrl(c) = "main"
         /\ \A p \in Pollers : backoff[p].left = 0)

\* Both: requests go on, and go back to where they belong.
SubgraphServes == NeverWedged /\ BackToMain
=============================================================================

------------------------------ MODULE PolicyRetry ------------------------------
(***************************************************************************)
(* orchestrator.ts: policyRetryQueue of one chain's agent.  A candidate whose   *)
(* health factor is just too high is looked up again later: schedulePolicyRetry  *)
(* is called from any processCandidate under way, drainPolicyRetry from the top   *)
(* of the main loop, which then waits in a race that no timer ends.             *)
(*                                                                         *)
(* The Map keeps its keys in the order they were inserted: a sequence of entries, *)
(* each with what is left until its next attempt.  Where an indexer has no URL    *)
(* (radiant without its environment variable) the entry is put back as it was.    *)
(***************************************************************************)
EXTENDS Integers, Sequences, SequencesExt

CONSTANTS Borrowers,
          NoUrl,           \* those whose protocol has no indexer options
          NobodyFetched,   \* no entry is fetched
          MaxAttempts, BaseDelay, MaxDelay, Jitter, Guard

ASSUME RetryAssumption == MaxAttempts \in Nat

VARIABLES retries,         \* policyRetryQueue, in insertion order
          fetching,        \* the entry drainPolicyRetry has taken
          loop             \* "top", "fetching", "racing" or "handling"

retryVars == <<retries, fetching, loop>>

RetryInit == retries = <<>> /\ fetching = NobodyFetched /\ loop = "top"

Queued(q) == {q[i].borrower : i \in DOMAIN q}
Place(q, b) == CHOOSE i \in DOMAIN q : q[i].borrower = b
Entry(q, b) == q[Place(q, b)]
Lesser(a, b) == IF a < b THEN a ELSE b

\* Map.delete.
Without(q, b) == IF b \in Queued(q) THEN RemoveAt(q, Place(q, b)) ELSE q

\* Map.set: a key that is there keeps its place.
MapSet(q, entry) ==
  IF entry.borrower \in Queued(q)
  THEN [i \in DOMAIN q |-> IF q[i].borrower = entry.borrower THEN entry ELSE q[i]]
  ELSE Append(q, entry)

computePolicyRetryDelay(attempts) == Lesser(BaseDelay * 2^(attempts - 1), MaxDelay)

\* The entry with this many attempts, its delay with any jitter.
Scheduled(b, attempts) ==
  {[borrower |-> b, attempts |-> attempts, left |-> Lesser(MaxDelay, computePolicyRetryDelay(attempts) + j)] : j \in 0..Jitter}

\* A candidate of b was rejected with a health factor within the margin, meaningfully
\* better than at the last time or not.
schedulePolicyRetry(b, improved) ==
  LET known == b \in Queued(retries)
      attempts == IF known THEN Entry(retries, b).attempts + 1 ELSE 1
  IN IF known /\ ~improved /\ Entry(retries, b).left > Guard THEN UNCHANGED retries
     ELSE IF attempts > MaxAttempts THEN retries' = Without(retries, b)
     ELSE \E entry \in Scheduled(b, attempts) : retries' = MapSet(retries, entry)

Reject(b) == \E improved \in BOOLEAN : schedulePolicyRetry(b, improved)

\* Another caller's candidate: predictive, or the heartbeat's.
RejectElsewhere(b) == Reject(b) /\ UNCHANGED <<fetching, loop>>
-----------------------------------------------------------------------------
(* The loop. *)

Due == {i \in DOMAIN retries : retries[i].left = 0}
IsFirst(i, places) == i \in places /\ \A j \in places : i <= j

\* Mutant of DrainTakes: an entry without a URL is put back where it was.
DrainTakesInPlace ==
  /\ loop = "top"
  /\ \E i \in DOMAIN retries :
       /\ IsFirst(i, Due)
       /\ IF retries[i].borrower \in NoUrl
          THEN loop' = "racing" /\ UNCHANGED <<fetching, retries>>
          ELSE retries' = RemoveAt(retries, i) /\ loop' = "fetching" /\ fetching' = retries[i]

\* drainPolicyRetry takes the first entry that is due out of the map; one that cannot be
\* fetched goes back to its end at once, and the loop goes on.
DrainTakes ==
  /\ loop = "top"
  /\ \E i \in DOMAIN retries :
       /\ IsFirst(i, Due)
       /\ IF retries[i].borrower \in NoUrl
          THEN retries' = Append(RemoveAt(retries, i), retries[i]) /\ loop' = "racing" /\ UNCHANGED fetching
          ELSE retries' = RemoveAt(retries, i) /\ loop' = "fetching" /\ fetching' = retries[i]

DrainNothing == loop = "top" /\ Due = {} /\ loop' = "racing" /\ UNCHANGED <<retries, fetching>>

\* Mutant of FetchedNothing: only an empty answer is retried, not an error.
FetchedNothingDropped == loop = "fetching" /\ fetching' = NobodyFetched /\ loop' = "racing" /\ UNCHANGED retries

\* No candidate, or the fetch threw: one more attempt, over whatever was scheduled for
\* the same borrower meanwhile; the last attempt leaves that alone.
FetchedNothing ==
  /\ loop = "fetching"
  /\ IF fetching.attempts < MaxAttempts
     THEN \E entry \in Scheduled(fetching.borrower, fetching.attempts + 1) : retries' = MapSet(retries, entry)
     ELSE UNCHANGED retries
  /\ fetching' = NobodyFetched /\ loop' = "racing"

\* Candidates: each is handled, and the last word on the borrower is a rejection or not.
FetchedCandidates ==
  /\ loop = "fetching"
  /\ Reject(fetching.borrower) \/ UNCHANGED retries
  /\ fetching' = NobodyFetched /\ loop' = "top"

\* The race ends with a candidate only.
CandidateArrives == loop = "racing" /\ loop' = "handling" /\ UNCHANGED <<retries, fetching>>
Handles == loop = "handling" /\ loop' = "top" /\ (UNCHANGED retries \/ \E b \in Borrowers : Reject(b)) /\ UNCHANGED fetching

RetryTick ==
  /\ retries' = [i \in DOMAIN retries |-> [retries[i] EXCEPT !.left = IF @ = 0 THEN 0 ELSE @ - 1]]
  /\ retries' # retries
  /\ UNCHANGED <<fetching, loop>>

RetryNext ==
  \/ \E b \in Borrowers : RejectElsewhere(b)
  \/ DrainTakes \/ DrainNothing \/ FetchedNothing \/ FetchedCandidates \/ CandidateArrives \/ Handles
  \/ RetryTick

-----------------------------------------------------------------------------
Owed(b) == b \in Queued(retries) \/ (loop = "fetching" /\ fetching.borrower = b)
AttemptsOf(b) == IF b \in Queued(retries) THEN Entry(retries, b).attempts ELSE fetching.attempts

\* A borrower who is owed a look gets it: nobody is dropped between the map and the fetch,
\* whoever schedules meanwhile, except after the last attempt or when candidates came.
RetriesKept ==
  [][\A b \in Borrowers : Owed(b) /\ ~Owed(b)' =>
       FetchedCandidates \/ AttemptsOf(b) = MaxAttempts]_retryVars

\* As long as candidates keep coming every retry that is due is fetched or scheduled
\* anew, whoever else is due; when none comes the loop stays in its race and the retry
\* waits.
RetriesServed ==
  (<>[](loop = "racing"))
  \/ \A b \in Borrowers \ NoUrl :
       (b \in Queued(retries) /\ Entry(retries, b).left = 0)
         ~> ~(b \in Queued(retries) /\ Entry(retries, b).left = 0)
=============================================================================

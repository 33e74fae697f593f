------------------------------ MODULE Throttle ------------------------------
(***************************************************************************)
(* offchain/infra/throttle.ts: attempts per borrower in a one-hour window.   *)
(* Counts live in Redis; the first Redis error (or no REDIS_URL) switches    *)
(* this process, for good, to an in-memory map that starts empty.  No other   *)
(* process is taken to count the same borrowers.                             *)
(***************************************************************************)
EXTENDS Naturals

CONSTANTS Borrowers

VARIABLES redisCount,      \* throttle:<chain>:<borrower> in Redis
          fallbackStore,   \* the in-memory count of each borrower
          fallbackEnabled

throttleVars == <<redisCount, fallbackStore, fallbackEnabled>>

ThrottleTypeOK ==
  /\ redisCount \in [Borrowers -> Nat]
  /\ fallbackStore \in [Borrowers -> Nat]
  /\ fallbackEnabled \in BOOLEAN

\* fallbackEnabled is initially TRUE where no Redis is configured: every call
\* then takes the same branch as after a failure.
ThrottleInit ==
  /\ redisCount = [b \in Borrowers |-> 0]
  /\ fallbackStore = [b \in Borrowers |-> 0]
  /\ fallbackEnabled \in BOOLEAN

\* Mutant of IsThrottled: the limit is off by one.
IsThrottledOneMore(b, limit, throttled) ==
  \/ /\ ~fallbackEnabled
     /\ throttled = (redisCount[b] > limit)
     /\ UNCHANGED throttleVars
  \/ /\ fallbackEnabled' = TRUE
     /\ throttled = (fallbackStore[b] > limit)
     /\ UNCHANGED <<redisCount, fallbackStore>>

\* isThrottled(borrower, limit) answers throttled.
IsThrottled(b, limit, throttled) ==
  \/ /\ ~fallbackEnabled
     /\ throttled = (redisCount[b] >= limit)
     /\ UNCHANGED throttleVars
  \/ /\ fallbackEnabled' = TRUE      \* already in fallback, or the GET fails
     /\ throttled = (fallbackStore[b] >= limit)
     /\ UNCHANGED <<redisCount, fallbackStore>>

Plus(count, b) == [count EXCEPT ![b] = @ + 1]
Zeroed(count, b) == [count EXCEPT ![b] = 0]

\* recordAttempt(borrower): in Redis, in the map, or, when the call fails (before
\* or after Redis counted it), in the map from now on.
RecordAttempt(b) ==
  \/ /\ ~fallbackEnabled
     /\ redisCount' = Plus(redisCount, b)
     /\ UNCHANGED <<fallbackStore, fallbackEnabled>>
  \/ /\ fallbackEnabled' = TRUE
     /\ fallbackStore' = Plus(fallbackStore, b)
     /\ \/ UNCHANGED redisCount
        \/ ~fallbackEnabled /\ redisCount' = Plus(redisCount, b)

\* resetThrottle(borrower)
ResetThrottle(b) ==
  \/ /\ ~fallbackEnabled
     /\ redisCount' = Zeroed(redisCount, b)
     /\ UNCHANGED <<fallbackStore, fallbackEnabled>>
  \/ /\ fallbackEnabled' = TRUE
     /\ fallbackStore' = Zeroed(fallbackStore, b)
     /\ \/ UNCHANGED redisCount
        \/ ~fallbackEnabled /\ redisCount' = Zeroed(redisCount, b)

\* The key's TTL runs out in Redis, or expiresAt passes for the map's entry.
WindowExpires(b) ==
  /\ \/ /\ redisCount[b] > 0
        /\ redisCount' = Zeroed(redisCount, b)
        /\ UNCHANGED fallbackStore
     \/ /\ fallbackStore[b] > 0
        /\ fallbackStore' = Zeroed(fallbackStore, b)
        /\ UNCHANGED redisCount
  /\ UNCHANGED fallbackEnabled
=============================================================================

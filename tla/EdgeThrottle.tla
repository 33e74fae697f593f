---------------------------- MODULE EdgeThrottle ----------------------------
(***************************************************************************)
(* offchain/arb_fabric/throttle.ts: executions of a pair in one window       *)
(* (WINDOW_SEC), counted in Redis or, without Redis or from its first error   *)
(* on, in a map of this process that starts empty.  Both calls are awaited    *)
(* by their caller, so other workers act between the look and the count.      *)
(***************************************************************************)
EXTENDS Naturals

CONSTANTS Pairs, Limit     \* FABRIC_THROTTLE_LIMIT; zero turns the throttle off

VARIABLES redisCount, memoryCount, fallbackEnabled

edgeThrottleVars == <<redisCount, memoryCount, fallbackEnabled>>

EdgeThrottleTypeOK ==
  /\ redisCount \in [Pairs -> Nat] /\ memoryCount \in [Pairs -> Nat]
  /\ fallbackEnabled \in BOOLEAN

EdgeThrottleInit ==
  /\ redisCount = [p \in Pairs |-> 0] /\ memoryCount = [p \in Pairs |-> 0]
  /\ fallbackEnabled \in BOOLEAN     \* TRUE: no REDIS_URL

\* Mutant of IsEdgeThrottled: the limit is off by one.
IsEdgeThrottledOneMore(p, throttled) ==
  \/ /\ ~fallbackEnabled
     /\ throttled = (redisCount[p] > Limit)
     /\ UNCHANGED edgeThrottleVars
  \/ /\ fallbackEnabled' = TRUE
     /\ throttled = (memoryCount[p] > Limit)
     /\ UNCHANGED <<redisCount, memoryCount>>

\* isEdgeThrottled(pair) answers throttled.
IsEdgeThrottled(p, throttled) ==
  \/ Limit = 0 /\ throttled = FALSE /\ UNCHANGED edgeThrottleVars
  \/ /\ Limit > 0 /\ ~fallbackEnabled
     /\ throttled = (redisCount[p] >= Limit)
     /\ UNCHANGED edgeThrottleVars
  \/ /\ Limit > 0
     /\ fallbackEnabled' = TRUE      \* already so, or the GET fails
     /\ throttled = (memoryCount[p] >= Limit)
     /\ UNCHANGED <<redisCount, memoryCount>>

\* recordEdgeAttempt(pair): MULTI may have counted before it failed.
RecordEdgeAttempt(p) ==
  \/ /\ ~fallbackEnabled
     /\ redisCount' = [redisCount EXCEPT ![p] = @ + 1]
     /\ UNCHANGED <<memoryCount, fallbackEnabled>>
  \/ /\ fallbackEnabled' = TRUE
     /\ memoryCount' = [memoryCount EXCEPT ![p] = @ + 1]
     /\ \/ UNCHANGED redisCount
        \/ ~fallbackEnabled /\ redisCount' = [redisCount EXCEPT ![p] = @ + 1]

\* The Redis key expires WINDOW_SEC after its first count, the map's entry that
\* long after its last.
EdgeWindowExpires(p) ==
  /\ \/ redisCount[p] > 0 /\ redisCount' = [redisCount EXCEPT ![p] = 0] /\ UNCHANGED memoryCount
     \/ memoryCount[p] > 0 /\ memoryCount' = [memoryCount EXCEPT ![p] = 0] /\ UNCHANGED redisCount
  /\ UNCHANGED fallbackEnabled
=============================================================================

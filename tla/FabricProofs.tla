----------------------------- MODULE FabricProofs -----------------------------
(***************************************************************************)
(* Theorems about Fabric, for any number of workers, pairs, streams and edges. *)
(* As in OrchestratorProofs a bound on an overrun relates a counter to the     *)
(* workers that have passed its check and have not acted yet.                *)
(***************************************************************************)
EXTENDS Fabric, FiniteSetTheorems, TLAPS

N == Cardinality(Workers)

\* The workers about to count an execution of p, and those about to spend a unit.
Counting(p) == {w \in Workers : pc[w] = "count" /\ hand[w].pair = p}
Spending == {w \in Workers : pc[w] \in {"allowance", "send"}}

\* Sizes of sets of workers, and what adding or removing one of them does.
LEMMA Sizes ==
  ASSUME NEW S \in SUBSET Workers
  PROVE  /\ N \in Nat /\ Cardinality(S) \in Nat /\ Cardinality(S) <= N
         /\ \A w \in Workers \ S : Cardinality(S \cup {w}) = Cardinality(S) + 1
         /\ \A w \in S : Cardinality(S \ {w}) = Cardinality(S) - 1
<1>1. IsFiniteSet(Workers)
  BY FabricAssumption
<1>2. IsFiniteSet(S) /\ N \in Nat /\ Cardinality(S) \in Nat /\ Cardinality(S) <= N
  BY <1>1, FS_Subset, FS_CardinalityType DEF N
<1> QED BY <1>2, FS_AddElement, FS_RemoveElement
-----------------------------------------------------------------------------
(* Types, as far as the bounds need them. *)

AllPcs == Accepted \cup Over \cup {"next", "waiting"}

WorkerTypes ==
  /\ pc \in [Workers -> AllPcs]
  /\ hand \in [Workers -> Edges \cup {NoEdge}]
  /\ \A w \in Workers : pc[w] \in Accepted => hand[w] \in Edges

FailureTypes == consecutiveFailures \in [Pairs -> Nat]

ThrottleTypes ==
  /\ redisCount \in [Pairs -> Nat] /\ memoryCount \in [Pairs -> Nat]

\* What a worker does to its place and its edge.
LEMMA Moved ==
  ASSUME WorkerTypes, NEW w \in Workers, NEW at \in AllPcs
  PROVE  /\ Keep(w, at) /\ (at \in Accepted => pc[w] \in Accepted) => WorkerTypes'
         /\ Drop(w, at) /\ at \notin Accepted => WorkerTypes'
         /\ \A edge \in Edges : Goto(w, at) /\ hand' = [hand EXCEPT ![w] = edge] => WorkerTypes'
BY DEF WorkerTypes, Keep, Drop, Goto

\* Failures only change for the pair of the edge in hand.
LEMMA Recorded ==
  ASSUME FailureTypes, NEW p \in Pairs, NEW success \in BOOLEAN, Record(p, success)
  PROVE  /\ FailureTypes'
         /\ \A q \in Pairs \ {p} : consecutiveFailures'[q] = consecutiveFailures[q]
         /\ ~success => consecutiveFailures'[p] = consecutiveFailures[p] + 1
BY DEF FailureTypes, Record

\* How a step of a worker may move it and count for its pair.
Step(w) ==
  \/ \E at \in {"waiting", "finished"} :
       /\ pc[w] \in {"next", "waiting"} /\ Keep(w, at) /\ UNCHANGED consecutiveFailures
  \/ /\ pc[w] = "waiting"
     /\ \E edge \in Edges :
          \/ Drop(w, "next") /\ (Record(edge.pair, FALSE) \/ UNCHANGED consecutiveFailures)
          \/ /\ Goto(w, "throttle") /\ hand' = [hand EXCEPT ![w] = edge]
             /\ consecutiveFailures[edge.pair] < FailureBackoff /\ UNCHANGED consecutiveFailures
  \/ \E at \in Accepted \ {"throttle"} :
       pc[w] \in Accepted /\ Keep(w, at) /\ UNCHANGED consecutiveFailures
  \/ pc[w] \in Accepted /\ Drop(w, "next") /\ \E success \in BOOLEAN : Record(hand[w].pair, success)
  \/ pc[w] \in Accepted /\ Drop(w, "dead") /\ UNCHANGED consecutiveFailures

LEMMA WorkerSteps == ASSUME NEW w \in Workers, Worker(w) PROVE Step(w)
<1> USE DEF Accepted, Step, mainVars
<1>1. CASE Next_(w)
  BY <1>1 DEF Next_
<1>2. CASE Finish(w)
  BY <1>2 DEF Finish
<1>3. CASE Take(w)
  BY <1>3 DEF Take, Evaluate
<1>4. CASE ThrottleLook(w)
  BY <1>4 DEF ThrottleLook
<1>5. CASE CountAttempt(w)
  BY <1>5 DEF CountAttempt
<1>6. CASE Execute(w)
  BY <1>6 DEF Execute, Die, Fail
<1>7. CASE ReadBalance(w)
  BY <1>7 DEF ReadBalance, Die
<1>8. CASE BalanceRead(w)
  BY <1>8 DEF BalanceRead, Die, Fail
<1>9. CASE EnsureAllowance(w)
  BY <1>9 DEF EnsureAllowance, Die, Fail
<1>10. CASE Send(w)
  BY <1>10 DEF Send, Fail
<1> QED BY <1>1, <1>2, <1>3, <1>4, <1>5, <1>6, <1>7, <1>8, <1>9, <1>10 DEF Worker

\* Everybody else leaves the workers and the failures alone.
LEMMA OthersSteps ==
  ASSUME [Next]_vars
  PROVE  \/ \E w \in Workers : Worker(w)
         \/ UNCHANGED <<workerVars, consecutiveFailures>>
BY DEF Next, vars, Produce, StreamEnds, ApproveMined, Environment

TypesInv == WorkerTypes /\ FailureTypes

LEMMA TypesStep == TypesInv /\ [Next]_vars => TypesInv'
<1> SUFFICES ASSUME TypesInv, [Next]_vars PROVE TypesInv'
  OBVIOUS
<1>1. ASSUME NEW w \in Workers, Step(w) PROVE TypesInv'
  <2>1. \A at \in Accepted : hand[w] \in Edges \/ pc[w] \notin Accepted
    BY DEF TypesInv, WorkerTypes
  <2>2. \A edge \in Edges : edge.pair \in Pairs
    BY DEF Edges
  <2>3. WorkerTypes'
    BY <1>1, Moved DEF Step, TypesInv, AllPcs, Accepted, Over
  <2>4. FailureTypes'
    <3>1. pc[w] \in Accepted => hand[w].pair \in Pairs
      BY <2>2 DEF TypesInv, WorkerTypes
    <3>2. UNCHANGED consecutiveFailures => FailureTypes'
      BY DEF TypesInv, FailureTypes
    <3>3. \A p \in Pairs, success \in BOOLEAN : Record(p, success) => FailureTypes'
      BY Recorded DEF TypesInv
    <3> QED BY <1>1, <2>2, <3>1, <3>2, <3>3 DEF Step
  <2> QED BY <2>3, <2>4 DEF TypesInv
<1>2. CASE UNCHANGED <<workerVars, consecutiveFailures>>
  BY <1>2 DEF TypesInv, WorkerTypes, FailureTypes, workerVars
<1> QED BY <1>1, <1>2, WorkerSteps, OthersSteps

LEMMA TypesHold == Spec => []TypesInv
<1>1. Init => TypesInv
  BY DEF Init, TypesInv, WorkerTypes, FailureTypes, AllPcs, Accepted, Over
<1> QED BY <1>1, TypesStep, PTL DEF Spec
-----------------------------------------------------------------------------
(* Back-off. *)

LEMMA LockoutStep ==
  ASSUME TypesInv, [Next]_vars, NEW p \in Pairs, LockedOut(p)
  PROVE  LockedOut(p)'
<1>1. ASSUME NEW w \in Workers, Step(w) PROVE LockedOut(p)'
  <2>1. /\ consecutiveFailures[p] \in Nat /\ consecutiveFailures[p] >= FailureBackoff
        /\ \A v \in Workers : pc[v] \in Accepted => hand[v].pair \in Pairs \ {p}
        /\ FailureBackoff \in Nat
    BY FabricAssumption DEF LockedOut, TypesInv, WorkerTypes, FailureTypes, Edges
  <2>2. /\ consecutiveFailures'[p] \in Nat
        /\ consecutiveFailures'[p] >= consecutiveFailures[p]
    <3>1. CASE UNCHANGED consecutiveFailures
      BY <2>1, <3>1
    <3>2. ASSUME NEW q \in Pairs, Record(q, FALSE)
          PROVE  consecutiveFailures'[p] \in Nat /\ consecutiveFailures'[p] >= consecutiveFailures[p]
      <4>1. \/ consecutiveFailures'[p] = consecutiveFailures[p]
            \/ consecutiveFailures'[p] = consecutiveFailures[p] + 1
        BY <3>2, Recorded DEF TypesInv
      <4> QED BY <2>1, <4>1
    <3>3. ASSUME NEW q \in Pairs \ {p}, NEW success \in BOOLEAN, Record(q, success)
          PROVE  consecutiveFailures'[p] \in Nat /\ consecutiveFailures'[p] >= consecutiveFailures[p]
      <4>1. consecutiveFailures'[p] = consecutiveFailures[p]
        BY <3>3, Recorded DEF TypesInv
      <4> QED BY <2>1, <4>1
    <3>4. \/ UNCHANGED consecutiveFailures
          \/ \E q \in Pairs : Record(q, FALSE)
          \/ \E q \in Pairs \ {p}, success \in BOOLEAN : Record(q, success)
      BY <1>1, <2>1 DEF Step, Edges
    <3> QED BY <3>1, <3>2, <3>3, <3>4
  <2>3. \A v \in Workers \ {w} : pc'[v] = pc[v] /\ hand'[v] = hand[v]
    BY <1>1 DEF Step, Keep, Drop, Goto, TypesInv, WorkerTypes
  <2>4. pc'[w] \in Accepted => hand'[w].pair # p
    <3>1. CASE pc[w] \in Accepted
      BY <1>1, <2>1, <3>1 DEF Step, Keep, Drop, Goto, TypesInv, WorkerTypes, Accepted
    <3>2. CASE pc[w] \notin Accepted
      <4>1. \A edge \in Edges : consecutiveFailures[edge.pair] < FailureBackoff => edge.pair # p
        BY <2>1
      <4> QED BY <1>1, <3>2, <4>1 DEF Step, Keep, Drop, Goto, TypesInv, WorkerTypes, Accepted
    <3> QED BY <3>1, <3>2
  <2> QED BY <2>1, <2>2, <2>3, <2>4 DEF LockedOut
<1>2. CASE UNCHANGED <<workerVars, consecutiveFailures>>
  BY <1>2 DEF LockedOut, workerVars
<1> QED BY <1>1, <1>2, WorkerSteps, OthersSteps

\* LockoutIsFinal holds of every step: risk.ts counts its own refusals as failures, so a
\* pair in back-off with no accepted edge under way never trades again.
THEOREM LockoutCorrect == Spec => LockoutIsFinal
<1>1. TypesInv /\ [Next]_vars => [\A p \in Pairs : LockedOut(p) => LockedOut(p)']_vars
  BY LockoutStep
<1> QED BY <1>1, TypesHold, PTL DEF Spec, LockoutIsFinal
-----------------------------------------------------------------------------
(* The edge throttle. *)

Room == Limit + N - 1

\* What the store in use holds and what is about to be counted stay below the room a
\* look leaves; the map is empty until Redis fails, and Redis is not counted in after.
AttemptsOf(p) ==
  /\ redisCount[p] <= Room
  /\ memoryCount[p] + Cardinality(Counting(p)) <= Room
  /\ ~fallbackEnabled => /\ memoryCount[p] = 0
                         /\ redisCount[p] + Cardinality(Counting(p)) <= Room

AttemptInv == ThrottleTypes /\ \A p \in Pairs : AttemptsOf(p)

\* Nobody goes to or leaves the place before the count.
LEMMA NobodyCounts ==
  ASSUME WorkerTypes, NEW w \in Workers, Step(w), pc[w] # "count", pc'[w] # "count", NEW p
  PROVE  Counting(p)' = Counting(p)
<1>1. \A v \in Workers \ {w} : pc'[v] = pc[v] /\ hand'[v] = hand[v]
  BY DEF Step, Keep, Drop, Goto, WorkerTypes
<1> QED BY <1>1 DEF Counting

LEMMA NothingCounted ==
  ASSUME AttemptInv, UNCHANGED edgeThrottleVars, \A p \in Pairs : Counting(p)' = Counting(p)
  PROVE  AttemptInv'
BY DEF AttemptInv, AttemptsOf, ThrottleTypes, edgeThrottleVars

\* A worker that finds the throttle open joins those about to count.
LEMMA LookStep ==
  ASSUME TypesInv, AttemptInv, Limit > 0, NEW w \in Workers, ThrottleLook(w)
  PROVE  AttemptInv'
<1>1. PICK q \in Pairs :
        /\ q = hand[w].pair /\ pc[w] = "throttle"
        /\ pc \in [Workers -> AllPcs] /\ hand \in [Workers -> Edges \cup {NoEdge}]
  BY DEF ThrottleLook, TypesInv, WorkerTypes, Accepted, Edges
<1>2. \/ IsEdgeThrottled(q, TRUE) /\ Drop(w, "next")
      \/ IsEdgeThrottled(q, FALSE) /\ Keep(w, "count")
  BY <1>1 DEF ThrottleLook
<1>3. /\ UNCHANGED <<redisCount, memoryCount>>
      /\ fallbackEnabled' = fallbackEnabled \/ fallbackEnabled' = TRUE
  BY <1>2 DEF IsEdgeThrottled, edgeThrottleVars
<1>4. CASE Drop(w, "next")
  <2>1. \A p : Counting(p)' = Counting(p)
    BY <1>1, <1>2, <1>4 DEF Drop, Goto, Counting
  <2> QED BY <1>3, <1>4, <2>1 DEF AttemptInv, AttemptsOf, ThrottleTypes
<1>5. CASE IsEdgeThrottled(q, FALSE) /\ Keep(w, "count")
  <2>1. w \notin Counting(q) /\ Counting(q)' = Counting(q) \cup {w}
    BY <1>1, <1>2, <1>5 DEF Keep, Goto, Counting
  <2>2. \A p \in Pairs \ {q} : Counting(p)' = Counting(p)
    BY <1>1, <1>2, <1>5 DEF Keep, Goto, Counting
  <2>3. /\ N \in Nat /\ Cardinality(Counting(q)) \in Nat
        /\ Cardinality(Counting(q)') = Cardinality(Counting(q)) + 1
        /\ Cardinality(Counting(q)') <= N
    <3>1. Counting(q) \in SUBSET Workers /\ Counting(q)' \in SUBSET Workers
      BY DEF Counting
    <3> QED BY <2>1, <3>1, Sizes
  <2>4. AttemptsOf(q)'
    <3>1. redisCount[q] \in Nat /\ memoryCount[q] \in Nat /\ Limit \in Nat
      BY FabricAssumption DEF AttemptInv, ThrottleTypes
    <3>2. /\ redisCount'[q] = redisCount[q] /\ memoryCount'[q] = memoryCount[q]
          /\ redisCount[q] <= Room
          /\ ~fallbackEnabled => memoryCount[q] = 0
      BY <1>1, <1>3 DEF AttemptInv, AttemptsOf
    <3>3. CASE fallbackEnabled' = fallbackEnabled /\ ~fallbackEnabled /\ redisCount[q] < Limit
      BY <2>3, <3>1, <3>2, <3>3 DEF AttemptsOf, Room
    <3>4. CASE fallbackEnabled' = TRUE /\ memoryCount[q] < Limit
      BY <2>3, <3>1, <3>2, <3>4 DEF AttemptsOf, Room
    <3>5. Limit # 0
      BY <3>1
    <3>6. \/ ~fallbackEnabled /\ fallbackEnabled' = fallbackEnabled /\ ~(redisCount[q] >= Limit)
          \/ fallbackEnabled' = TRUE /\ ~(memoryCount[q] >= Limit)
      BY <1>5, <3>5, ZenonT(30) DEF IsEdgeThrottled, edgeThrottleVars
    <3>7. /\ ~(redisCount[q] >= Limit) => redisCount[q] < Limit
          /\ ~(memoryCount[q] >= Limit) => memoryCount[q] < Limit
      BY <3>1
    <3> QED BY <3>3, <3>4, <3>6, <3>7
  <2>5. \A p \in Pairs \ {q} : AttemptsOf(p)'
    BY <1>3, <2>2 DEF AttemptInv, AttemptsOf
  <2> QED BY <1>3, <2>4, <2>5 DEF AttemptInv, ThrottleTypes
<1> QED BY <1>2, <1>4, <1>5

\* A worker that counts leaves them.
LEMMA CountStep ==
  ASSUME TypesInv, AttemptInv, NEW w \in Workers, CountAttempt(w)
  PROVE  AttemptInv'
<1>1. PICK q \in Pairs : q = hand[w].pair /\ pc[w] = "count" /\ pc \in [Workers -> AllPcs]
  BY DEF CountAttempt, TypesInv, WorkerTypes, Accepted, Edges
<1>2. RecordEdgeAttempt(q) /\ Keep(w, "execute")
  BY <1>1 DEF CountAttempt
<1>3. w \in Counting(q) /\ Counting(q)' = Counting(q) \ {w}
  BY <1>1, <1>2 DEF Keep, Goto, Counting
<1>4. \A p \in Pairs \ {q} : Counting(p)' = Counting(p)
  BY <1>1, <1>2 DEF Keep, Goto, Counting
<1>5. /\ N \in Nat /\ Cardinality(Counting(q)) \in Nat /\ Cardinality(Counting(q)') \in Nat
      /\ Cardinality(Counting(q)') = Cardinality(Counting(q)) - 1
  <2>1. Counting(q) \in SUBSET Workers /\ Counting(q)' \in SUBSET Workers
    BY DEF Counting
  <2> QED BY <1>3, <2>1, Sizes
<1>6. redisCount[q] \in Nat /\ memoryCount[q] \in Nat /\ Limit \in Nat /\ ThrottleTypes /\ AttemptsOf(q)
  BY <1>1, FabricAssumption DEF AttemptInv, ThrottleTypes
<1>7. /\ ThrottleTypes'
      /\ \A p \in Pairs \ {q} : redisCount'[p] = redisCount[p] /\ memoryCount'[p] = memoryCount[p]
  BY <1>1, <1>2, <1>6 DEF ThrottleTypes, RecordEdgeAttempt
<1>8. AttemptsOf(q)'
  <2>1. CASE /\ ~fallbackEnabled /\ UNCHANGED <<memoryCount, fallbackEnabled>>
             /\ redisCount' = [redisCount EXCEPT ![q] = @ + 1]
    <3>1. redisCount'[q] = redisCount[q] + 1 /\ memoryCount'[q] = 0
      BY <1>1, <1>6, <2>1 DEF ThrottleTypes, AttemptsOf
    <3> QED BY <1>5, <1>6, <2>1, <3>1 DEF AttemptsOf, Room
  <2>2. CASE /\ fallbackEnabled' = TRUE
             /\ memoryCount' = [memoryCount EXCEPT ![q] = @ + 1]
             /\ \/ UNCHANGED redisCount
                \/ ~fallbackEnabled /\ redisCount' = [redisCount EXCEPT ![q] = @ + 1]
    <3>1. /\ memoryCount'[q] = memoryCount[q] + 1
          /\ \/ redisCount'[q] = redisCount[q]
             \/ ~fallbackEnabled /\ redisCount'[q] = redisCount[q] + 1
      BY <1>1, <1>6, <2>2 DEF ThrottleTypes
    <3> QED BY <1>5, <1>6, <2>2, <3>1 DEF AttemptsOf, Room
  <2> QED BY <1>2, <2>1, <2>2 DEF RecordEdgeAttempt
<1>9. \A p \in Pairs \ {q} : AttemptsOf(p)'
  <2>1. fallbackEnabled' = fallbackEnabled \/ fallbackEnabled' = TRUE
    BY <1>2 DEF RecordEdgeAttempt
  <2> QED BY <1>4, <1>7, <2>1 DEF AttemptInv, AttemptsOf
<1> QED BY <1>7, <1>8, <1>9 DEF AttemptInv

LEMMA ExpiryStep ==
  ASSUME AttemptInv, Limit > 0, NEW q \in Pairs, EdgeWindowExpires(q), UNCHANGED workerVars
  PROVE  AttemptInv'
<1>1. \A p : Counting(p)' = Counting(p)
  BY DEF workerVars, Counting
<1>2. ThrottleTypes'
  BY DEF EdgeWindowExpires, AttemptInv, ThrottleTypes
<1>3. ASSUME NEW p \in Pairs PROVE AttemptsOf(p)'
  <2>1. /\ redisCount'[p] = redisCount[p] \/ redisCount'[p] = 0
        /\ memoryCount'[p] = memoryCount[p] \/ memoryCount'[p] = 0
    BY DEF EdgeWindowExpires, AttemptInv, ThrottleTypes
  <2>2. /\ redisCount[p] \in Nat /\ memoryCount[p] \in Nat /\ AttemptsOf(p)
        /\ fallbackEnabled' = fallbackEnabled
    BY DEF EdgeWindowExpires, AttemptInv, ThrottleTypes
  <2>3. Cardinality(Counting(p)) \in Nat /\ Cardinality(Counting(p)) <= N /\ N \in Nat /\ Limit \in Nat
    <3>1. Counting(p) \in SUBSET Workers
      BY DEF Counting
    <3> QED BY <3>1, Sizes, FabricAssumption
  <2> QED BY <1>1, <2>1, <2>2, <2>3 DEF AttemptsOf, Room
<1> QED BY <1>2, <1>3 DEF AttemptInv

LEMMA AttemptStep ==
  ASSUME TypesInv, AttemptInv, [Next]_vars, Limit > 0
  PROVE  AttemptInv'
<1>1. ASSUME NEW w \in Workers, Worker(w) PROVE AttemptInv'
  <2>1. CASE ThrottleLook(w)
    BY <2>1, LookStep
  <2>2. CASE CountAttempt(w)
    BY <2>2, CountStep
  <2>3. CASE ~ThrottleLook(w) /\ ~CountAttempt(w)
    <3>1. UNCHANGED edgeThrottleVars
      BY <1>1, <2>3 DEF Worker, Next_, Finish, Take, Execute, ReadBalance, BalanceRead, EnsureAllowance, Send
    <3>2. pc \in [Workers -> AllPcs]
      BY DEF TypesInv, WorkerTypes
    <3>3. pc[w] # "count" /\ pc'[w] # "count"
      BY <1>1, <2>3, <3>2 DEF Worker, Next_, Finish, Take, Execute, ReadBalance, BalanceRead, EnsureAllowance, Send,
                              Keep, Drop, Goto, Fail, Die
    <3>4. \A p \in Pairs : Counting(p)' = Counting(p)
      BY <1>1, <3>3, WorkerSteps, NobodyCounts DEF TypesInv
    <3> QED BY <3>1, <3>4, NothingCounted
  <2> QED BY <2>1, <2>2, <2>3
<1>2. CASE UNCHANGED <<edgeThrottleVars, workerVars>>
  <2>1. \A p \in Pairs : Counting(p)' = Counting(p)
    BY <1>2 DEF workerVars, Counting
  <2> QED BY <1>2, <2>1, NothingCounted
<1>3. ASSUME NEW q \in Pairs, EdgeWindowExpires(q), UNCHANGED workerVars PROVE AttemptInv'
  BY <1>3, ExpiryStep
<1> QED BY <1>1, <1>2, <1>3 DEF Next, vars, Produce, StreamEnds, ApproveMined, Environment

LEMMA AttemptInit == Init /\ Limit > 0 => AttemptInv
<1> SUFFICES ASSUME Init, Limit > 0 PROVE AttemptInv
  OBVIOUS
<1>1. ThrottleTypes
  BY DEF Init, EdgeThrottleInit, ThrottleTypes
<1>2. ASSUME NEW p \in Pairs PROVE AttemptsOf(p)
  <2>1. Counting(p) = {} /\ Cardinality(Counting(p)) = 0
    BY FS_EmptySet DEF Init, Counting
  <2>2. N \in Nat /\ Limit \in Nat
    BY Sizes, FabricAssumption
  <2>3. redisCount[p] = 0 /\ memoryCount[p] = 0
    BY DEF Init, EdgeThrottleInit
  <2> QED BY <2>1, <2>2, <2>3 DEF AttemptsOf, Room
<1> QED BY <1>1, <1>2 DEF AttemptInv

\* AttemptsBounded holds always: whatever the workers, the windows and Redis do, the look
\* and the later count of throttle.ts let a pair be tried once more per further worker.
THEOREM AttemptsCorrect == Spec => []AttemptsBounded
<1>1. CASE Limit > 0
  <2>1. Init => AttemptInv
    BY <1>1, AttemptInit
  <2>2. TypesInv /\ AttemptInv /\ [Next]_vars => AttemptInv'
    BY <1>1, AttemptStep
  <2>3. AttemptInv => AttemptsBounded
    <3> SUFFICES ASSUME AttemptInv, NEW p \in Pairs
                 PROVE  redisCount[p] <= Limit + Cardinality(Workers) - 1 /\ memoryCount[p] <= Limit + Cardinality(Workers) - 1
      BY DEF AttemptsBounded
    <3>1. Cardinality(Counting(p)) \in Nat /\ N \in Nat /\ Limit \in Nat
      <4>1. Counting(p) \in SUBSET Workers
        BY DEF Counting
      <4> QED BY <4>1, Sizes, FabricAssumption
    <3>2. redisCount[p] \in Nat /\ memoryCount[p] \in Nat /\ AttemptsOf(p)
      BY DEF AttemptInv, ThrottleTypes
    <3> QED BY <3>1, <3>2 DEF AttemptsOf, Room, N
  <2> QED BY <2>1, <2>2, <2>3, TypesHold, PTL DEF Spec
<1>2. CASE ~(Limit > 0)
  <2>1. AttemptsBounded
    BY <1>2 DEF AttemptsBounded
  <2> QED BY <2>1, PTL
<1> QED BY <1>1, <1>2
-----------------------------------------------------------------------------
(* The balance. *)

BalanceTypes ==
  /\ onChain \in Nat /\ unmined \in Nat
  /\ cached \in Nat \cup {Unknown}
  /\ readValue \in [Workers -> Nat \cup {Unknown}]
  /\ \A w \in Workers : pc[w] = "storing" => readValue[w] # Unknown

\* Until some read fails to see a transaction: the workers about to spend are covered but
\* for one unit per further worker, a positive cached balance is really there, and what
\* was read and not stored yet is the balance now.
Covered ==
  /\ unmined + Cardinality(Spending) <= onChain + N - 1
  /\ cached # Unknown /\ cached >= 1 => cached + unmined <= onChain
  /\ \A w \in Workers : readValue[w] # Unknown => unmined = 0 /\ readValue[w] = onChain

SentInv == BalanceTypes /\ (~overlapped => Covered)

\* How a worker joins those about to spend, stays among them and leaves them.
LEMMA Spenders ==
  ASSUME WorkerTypes, NEW w \in Workers, NEW at \in AllPcs, Goto(w, at)
  PROVE  /\ N \in Nat /\ Cardinality(Spending) \in Nat /\ Cardinality(Spending') \in Nat
         /\ Cardinality(Spending') <= N
         /\ (pc[w] \in {"allowance", "send"} <=> at \in {"allowance", "send"}) => Cardinality(Spending') = Cardinality(Spending)
         /\ pc[w] \notin {"allowance", "send"} /\ at \in {"allowance", "send"} =>
              Cardinality(Spending') = Cardinality(Spending) + 1
         /\ pc[w] \in {"allowance", "send"} /\ at \notin {"allowance", "send"} =>
              Cardinality(Spending') = Cardinality(Spending) - 1
<1>1. pc'[w] = at /\ \A v \in Workers \ {w} : pc'[v] = pc[v]
  BY DEF Goto, WorkerTypes
<1>2. Spending' = IF at \in {"allowance", "send"} THEN Spending \cup {w} ELSE Spending \ {w}
  BY <1>1 DEF Spending
<1>3. w \in Spending <=> pc[w] \in {"allowance", "send"}
  BY DEF Spending
<1>4. Spending \in SUBSET Workers /\ Spending' \in SUBSET Workers
  BY DEF Spending
<1>5. /\ N \in Nat /\ Cardinality(Spending) \in Nat /\ Cardinality(Spending') \in Nat /\ Cardinality(Spending') <= N
      /\ w \notin Spending => Cardinality(Spending \cup {w}) = Cardinality(Spending) + 1
      /\ w \in Spending => Cardinality(Spending \ {w}) = Cardinality(Spending) - 1
  BY <1>4, Sizes
<1>6. w \in Spending => Spending \cup {w} = Spending
  OBVIOUS
<1>7. w \notin Spending => Spending \ {w} = Spending
  OBVIOUS
<1>8. CASE at \in {"allowance", "send"}
  BY <1>2, <1>3, <1>5, <1>6, <1>8
<1>9. CASE at \notin {"allowance", "send"}
  BY <1>2, <1>3, <1>5, <1>7, <1>9
<1> QED BY <1>8, <1>9

\* A worker that moves and touches no balance may leave those about to spend, and joins
\* them only with a unit that is there.
LEMMA MoveKeeps ==
  ASSUME TypesInv, SentInv, NEW w \in Workers, NEW at \in AllPcs, Goto(w, at), UNCHANGED inventoryVars,
         at # "storing",
         at \in {"allowance", "send"} => pc[w] \in {"allowance", "send"} \/ (cached # Unknown /\ cached >= 1)
  PROVE  SentInv'
<1>1. BalanceTypes'
  BY DEF SentInv, BalanceTypes, inventoryVars, Goto, TypesInv, WorkerTypes
<1>2. ASSUME ~overlapped PROVE Covered'
  <2>1. Covered /\ BalanceTypes
    BY <1>2 DEF SentInv
  <2>2. onChain \in Nat /\ unmined \in Nat /\ (cached # Unknown => cached \in Nat)
    BY <2>1 DEF BalanceTypes
  <2>3. unmined' + Cardinality(Spending') <= onChain' + N - 1
    <3>1. CASE at \in {"allowance", "send"} /\ pc[w] \notin {"allowance", "send"}
      <4>1. cached # Unknown /\ cached \in Nat /\ cached >= 1 /\ cached + unmined <= onChain
        BY <2>1, <2>2, <3>1 DEF Covered
      <4>2. N \in Nat /\ Cardinality(Spending') \in Nat /\ Cardinality(Spending') <= N
        BY Spenders DEF TypesInv
      <4> QED BY <2>2, <4>1, <4>2 DEF inventoryVars
    <3>2. CASE ~(at \in {"allowance", "send"} /\ pc[w] \notin {"allowance", "send"})
      <4>1. /\ N \in Nat /\ Cardinality(Spending') \in Nat /\ Cardinality(Spending) \in Nat
            /\ Cardinality(Spending') <= Cardinality(Spending)
        <5>1. /\ N \in Nat /\ Cardinality(Spending') \in Nat /\ Cardinality(Spending) \in Nat
              /\ \/ Cardinality(Spending') = Cardinality(Spending)
                 \/ Cardinality(Spending') = Cardinality(Spending) - 1
          BY <3>2, Spenders DEF TypesInv
        <5> QED BY <5>1
      <4> QED BY <2>1, <2>2, <4>1 DEF Covered, inventoryVars
    <3> QED BY <3>1, <3>2
  <2> QED BY <2>1, <2>3 DEF Covered, inventoryVars
<1> QED BY <1>1, <1>2 DEF SentInv, inventoryVars

\* The balance is read: from here on it is current only if nothing is unmined.
LEMMA ReadStep ==
  ASSUME TypesInv, SentInv, NEW w \in Workers, ReadBalance(w)
  PROVE  SentInv'
<1>1. pc[w] = "reading"
  BY DEF ReadBalance
<1>2. CASE UNCHANGED inventoryVars /\ Die(w)
  BY <1>1, <1>2, MoveKeeps DEF Die, Drop, AllPcs, Over
<1>3. CASE BalanceAnswered(w) /\ Keep(w, "storing")
  <2>1. Cardinality(Spending') = Cardinality(Spending)
    BY <1>1, <1>3, Spenders DEF Keep, TypesInv, AllPcs, Accepted
  <2>2. BalanceTypes'
    <3>1. /\ readValue' \in [Workers -> Nat \cup {Unknown}] /\ readValue'[w] # Unknown
          /\ \A v \in Workers \ {w} : readValue'[v] = readValue[v] /\ pc'[v] = pc[v]
      BY <1>3, FabricAssumption DEF BalanceAnswered, Keep, Goto, SentInv, BalanceTypes, TypesInv, WorkerTypes
    <3> QED BY <1>3, <3>1 DEF BalanceAnswered, SentInv, BalanceTypes
  <2>3. ASSUME ~overlapped' PROVE Covered'
    <3>1. ~overlapped /\ ~(unmined > 0) /\ unmined \in Nat
      BY <1>3, <2>3 DEF BalanceAnswered, SentInv, BalanceTypes
    <3>2. unmined = 0 /\ Covered
      BY <3>1 DEF SentInv
    <3>3. \A v \in Workers : readValue'[v] # Unknown => readValue'[v] = onChain
      BY <1>3, <3>2 DEF BalanceAnswered, SentInv, BalanceTypes, Covered
    <3> QED BY <1>3, <2>1, <3>2, <3>3 DEF BalanceAnswered, Covered
  <2> QED BY <2>2, <2>3 DEF SentInv
<1> QED BY <1>2, <1>3 DEF ReadBalance

\* It is stored, and whoever read at least a unit goes on.
LEMMA StoreStep ==
  ASSUME TypesInv, SentInv, NEW w \in Workers, BalanceRead(w)
  PROVE  SentInv'
<1>1. pc[w] = "storing" /\ StoreBalance(w) /\ readValue[w] # Unknown
  BY DEF BalanceRead, SentInv, BalanceTypes
<1>2. readValue[w] \in Nat /\ onChain \in Nat /\ unmined \in Nat
  BY <1>1 DEF SentInv, BalanceTypes
<1>3. PICK at \in AllPcs :
        /\ Goto(w, at) /\ at # "storing"
        /\ at \in {"allowance", "send"} => readValue[w] >= 1
  <2>1. \/ Goto(w, "allowance") /\ readValue[w] >= 1
        \/ Goto(w, "next")
        \/ Goto(w, "dead")
    BY DEF BalanceRead, Keep, Fail, Die, Drop
  <2>2. {"allowance", "next", "dead"} \subseteq AllPcs
    BY DEF AllPcs, Accepted, Over
  <2> QED BY <2>1, <2>2
<1>4. /\ readValue' \in [Workers -> Nat \cup {Unknown}]
      /\ \A v \in Workers : readValue'[v] # Unknown => readValue'[v] = readValue[v]
      /\ \A v \in Workers \ {w} : readValue'[v] = readValue[v] /\ pc'[v] = pc[v]
      /\ pc'[w] = at
  BY <1>1, <1>3 DEF StoreBalance, Goto, SentInv, BalanceTypes, TypesInv, WorkerTypes
<1>5. BalanceTypes'
  BY <1>1, <1>2, <1>3, <1>4 DEF StoreBalance, SentInv, BalanceTypes
<1>6. ASSUME ~overlapped PROVE Covered'
  <2>1. unmined = 0 /\ readValue[w] = onChain /\ Covered
    BY <1>1, <1>6 DEF SentInv, Covered
  <2>2. unmined' + Cardinality(Spending') <= onChain' + N - 1
    <3>1. UNCHANGED <<onChain, unmined>>
      BY <1>1 DEF StoreBalance
    <3>2. CASE at \in {"allowance", "send"}
      <4>1. N \in Nat /\ Cardinality(Spending') \in Nat /\ Cardinality(Spending') <= N
        BY <1>3, Spenders DEF TypesInv
      <4>2. onChain >= 1
        BY <1>3, <2>1, <3>2
      <4> QED BY <1>2, <2>1, <3>1, <4>1, <4>2
    <3>3. CASE at \notin {"allowance", "send"}
      <4>1. Cardinality(Spending') = Cardinality(Spending)
        BY <1>1, <1>3, <3>3, Spenders DEF TypesInv
      <4> QED BY <2>1, <3>1, <4>1 DEF Covered
    <3> QED BY <3>2, <3>3
  <2>3. cached' + unmined' <= onChain'
    <3>1. cached' = onChain /\ unmined' = 0 /\ onChain' = onChain
      BY <1>1, <2>1 DEF StoreBalance
    <3> QED BY <1>2, <3>1
  <2>4. \A v \in Workers : readValue'[v] # Unknown => unmined' = 0 /\ readValue'[v] = onChain'
    BY <1>1, <1>4, <2>1 DEF StoreBalance, Covered
  <2> QED BY <2>2, <2>3, <2>4 DEF Covered
<1> QED BY <1>1, <1>5, <1>6 DEF SentInv, StoreBalance

\* A unit is spent: by one of those who were about to.
LEMMA FillStep ==
  ASSUME TypesInv, SentInv, NEW w \in Workers, pc[w] = "send", RecordFill, Goto(w, "next")
  PROVE  SentInv'
<1>1. /\ onChain \in Nat /\ unmined \in Nat /\ (cached # Unknown => cached \in Nat)
      /\ \A v \in Workers : pc'[v] = "storing" => readValue[v] # Unknown
  BY DEF SentInv, BalanceTypes, Goto, TypesInv, WorkerTypes
<1>2. \/ cached' = cached /\ (cached = Unknown \/ cached = 0)
      \/ cached # Unknown /\ cached # 0 /\ cached' = cached - 1
  BY DEF RecordFill
<1>3. cached' \in Nat \cup {Unknown}
  BY <1>1, <1>2
<1>4. BalanceTypes'
  BY <1>1, <1>3 DEF RecordFill, SentInv, BalanceTypes
<1>5. ASSUME ~overlapped' PROVE Covered'
  <2>1. ~overlapped /\ \A v \in Workers : readValue[v] = Unknown
    BY <1>5 DEF RecordFill
  <2>2. Covered
    BY <2>1 DEF SentInv
  <2>3. /\ Cardinality(Spending) \in Nat /\ N \in Nat
        /\ Cardinality(Spending') = Cardinality(Spending) - 1
    BY Spenders DEF TypesInv, AllPcs
  <2>4. unmined' + Cardinality(Spending') <= onChain' + N - 1
    BY <1>1, <2>2, <2>3 DEF RecordFill, Covered
  <2>5. cached' # Unknown /\ cached' >= 1 => cached' + unmined' <= onChain'
    BY <1>1, <1>2, <2>2 DEF RecordFill, Covered
  <2>6. \A v \in Workers : readValue'[v] = Unknown
    BY <2>1 DEF RecordFill
  <2> QED BY <2>4, <2>5, <2>6 DEF Covered
<1> QED BY <1>4, <1>5 DEF SentInv

\* The chain and the clock: a transaction takes its unit with it, or leaves it.
LEMMA ChainStep ==
  ASSUME SentInv, Mined \/ CacheAges, UNCHANGED workerVars
  PROVE  SentInv'
<1>1. Spending' = Spending /\ UNCHANGED <<pc, cached, readValue, overlapped>>
  BY DEF Mined, CacheAges, workerVars, Spending
<1>2. CASE CacheAges
  BY <1>1, <1>2 DEF CacheAges, SentInv, BalanceTypes, Covered
<1>3. CASE Mined
  <2>1. /\ unmined > 0 /\ unmined' = unmined - 1 /\ unmined \in Nat /\ onChain \in Nat /\ onChain' \in Nat
        /\ onChain' = onChain \/ onChain' = onChain - 1
    <3>1. \/ onChain' = onChain
          \/ onChain' \in 0..Balance /\ onChain' = onChain - 1
      BY <1>3 DEF Mined
    <3>2. unmined > 0 /\ unmined' = unmined - 1 /\ unmined \in Nat /\ onChain \in Nat /\ Balance \in Nat
      BY <1>3, FabricAssumption DEF Mined, SentInv, BalanceTypes
    <3> QED BY <3>1, <3>2
  <2>2. BalanceTypes'
    BY <1>1, <2>1 DEF SentInv, BalanceTypes
  <2>3. ASSUME ~overlapped PROVE Covered'
    <3>1. Covered
      BY <2>3 DEF SentInv
    <3>2. Cardinality(Spending) \in Nat /\ N \in Nat
      <4>1. Spending \in SUBSET Workers
        BY DEF Spending
      <4> QED BY <4>1, Sizes
    <3>3. unmined' + Cardinality(Spending) <= onChain' + N - 1
      BY <2>1, <3>1, <3>2 DEF Covered
    <3>4. cached # Unknown => cached \in Nat
      BY DEF SentInv, BalanceTypes
    <3>5. cached # Unknown /\ cached >= 1 => cached + unmined' <= onChain'
      BY <2>1, <3>1, <3>4 DEF Covered
    <3>6. \A v \in Workers : readValue[v] = Unknown
      BY <2>1, <3>1 DEF Covered
    <3> QED BY <1>1, <3>3, <3>5, <3>6 DEF Covered
  <2> QED BY <1>1, <2>2, <2>3 DEF SentInv
<1> QED BY <1>2, <1>3

\* Where a worker that neither reads nor stores nor sends may go.
LEMMA SentWorkerStep ==
  ASSUME TypesInv, SentInv, NEW w \in Workers, Worker(w)
  PROVE  SentInv'
<1>1. CASE ReadBalance(w)
  BY <1>1, ReadStep
<1>2. CASE BalanceRead(w)
  BY <1>2, StoreStep
<1>3. CASE Send(w)
  <2>1. CASE Fail(w) /\ UNCHANGED inventoryVars
    BY <1>3, <2>1, MoveKeeps DEF Send, Fail, Drop, AllPcs
  <2>2. CASE RecordFill /\ Drop(w, "next")
    BY <1>3, <2>2, FillStep DEF Send, Drop
  <2> QED BY <1>3, <2>1, <2>2 DEF Send
<1>4. CASE EnsureAllowance(w)
  <2>1. UNCHANGED inventoryVars /\ pc[w] = "allowance" /\ \E at \in {"next", "dead", "send"} : Goto(w, at)
    BY <1>4 DEF EnsureAllowance, Die, Fail, Drop, Keep
  <2> QED BY <2>1, MoveKeeps DEF AllPcs, Accepted, Over
<1>5. CASE Execute(w)
  <2>1. /\ UNCHANGED inventoryVars
        /\ \/ \E at \in {"next", "dead", "reading"} : Goto(w, at)
           \/ cached # Unknown /\ cached >= 1 /\ Goto(w, "allowance")
    BY <1>5 DEF Execute, Die, Fail, Drop, Keep, Trusted
  <2> QED BY <2>1, MoveKeeps DEF AllPcs, Accepted, Over
<1>6. CASE Next_(w) \/ Finish(w) \/ Take(w) \/ ThrottleLook(w) \/ CountAttempt(w)
  <2>1. /\ UNCHANGED inventoryVars
        /\ \E at \in {"waiting", "finished", "next", "throttle", "count", "execute"} : Goto(w, at)
    BY <1>6 DEF Next_, Finish, Take, ThrottleLook, CountAttempt, Drop, Keep
  <2> QED BY <2>1, MoveKeeps DEF AllPcs, Accepted, Over
<1> QED BY <1>1, <1>2, <1>3, <1>4, <1>5, <1>6 DEF Worker

LEMMA SentStep ==
  ASSUME TypesInv, SentInv, [Next]_vars
  PROVE  SentInv'
<1>1. CASE UNCHANGED <<inventoryVars, workerVars>>
  BY <1>1 DEF SentInv, BalanceTypes, Covered, Spending, inventoryVars, workerVars
<1>2. CASE \E w \in Workers : Worker(w)
  BY <1>2, SentWorkerStep
<1>3. CASE (Mined \/ CacheAges) /\ UNCHANGED workerVars
  BY <1>3, ChainStep
<1> QED BY <1>1, <1>2, <1>3 DEF Next, vars, Produce, StreamEnds, ApproveMined, Environment

\* SentCovered holds always, for any positive number of workers: nothing reserves a balance
\* in inventory_manager.ts between the check and the send, and yet, as long as every read
\* saw every fill, what is sent exceeds the balance by at most one unit per further worker.
THEOREM SentCoveredCorrect == ASSUME Workers # {} PROVE Spec => []SentCovered
<1>1. N \in Nat /\ N >= 1
  <2>1. IsFiniteSet(Workers) /\ N \in Nat /\ N # 0
    BY FabricAssumption, FS_CardinalityType, FS_EmptySet DEF N
  <2> QED BY <2>1
<1>2. Init => SentInv
  <2> SUFFICES ASSUME Init PROVE SentInv
    OBVIOUS
  <2>1. Spending = {} /\ Cardinality(Spending) = 0
    BY FS_EmptySet DEF Init, Spending
  <2>2. onChain \in Nat /\ unmined = 0 /\ cached = Unknown /\ \A w \in Workers : readValue[w] = Unknown
    BY FabricAssumption DEF Init, InventoryInit
  <2>3. BalanceTypes
    BY <2>2 DEF BalanceTypes, Init, InventoryInit
  <2>4. Covered
    BY <1>1, <2>1, <2>2 DEF Covered
  <2> QED BY <2>3, <2>4 DEF SentInv
<1>3. SentInv => SentCovered
  <2> SUFFICES ASSUME SentInv, ~overlapped PROVE unmined <= onChain + Cardinality(Workers) - 1
    BY DEF SentCovered
  <2>1. Covered /\ onChain \in Nat /\ unmined \in Nat
    BY DEF SentInv, BalanceTypes
  <2>2. Cardinality(Spending) \in Nat
    <3>1. Spending \in SUBSET Workers
      BY DEF Spending
    <3> QED BY <3>1, Sizes
  <2> QED BY <1>1, <2>1, <2>2 DEF Covered, N
<1> QED BY <1>2, <1>3, SentStep, TypesHold, PTL DEF Spec
=============================================================================

------------------------- MODULE OrchestratorProofs -------------------------
(***************************************************************************)
(* Theorems about Orchestrator, for any number of callers and agents.        *)
(*                                                                         *)
(* Each bound on an overrun has the same shape: whoever passes a check joins  *)
(* a set of callers that have yet to act on it, and what they may still add   *)
(* is at most one unit each.  So an invariant relates a counter to the size   *)
(* of that set, and a step changes the set by at most the caller that moves.  *)
(***************************************************************************)
EXTENDS Orchestrator, FiniteSetTheorems, TLAPS

N == Cardinality(Callers)

\* The callers at one of the locations L.
Those(L) == {c \in Callers : loc[c] \in L}

\* Moves c to location l.
Moves(c, l) == loc' = [loc EXCEPT ![c] = l]
-----------------------------------------------------------------------------
(* Counting callers. *)

\* The callers are finitely many, and at least one.
LEMMA CallersCounted == IsFiniteSet(Callers) /\ N \in Nat \ {0}
<1>1. IsFiniteSet(Callers) /\ N \in Nat
  BY OrchestratorAssumption, FS_CardinalityType DEF N
<1>2. N # 0
  BY <1>1, OrchestratorAssumption, FS_EmptySet DEF N
<1>. QED  BY <1>1, <1>2

\* A set of callers that lacks one of them is smaller than Callers.
LEMMA SomeOf ==
  ASSUME NEW S \in SUBSET Callers
  PROVE  /\ IsFiniteSet(S) /\ Cardinality(S) \in Nat /\ Cardinality(S) <= N
         /\ \A c \in Callers \ S : Cardinality(S) <= N - 1
         /\ Cardinality(S) = 0 <=> S = {}
<1>1. IsFiniteSet(S) /\ Cardinality(S) \in Nat /\ Cardinality(S) <= N
  BY CallersCounted, FS_Subset, FS_CardinalityType DEF N
<1>2. ASSUME NEW c \in Callers \ S
      PROVE  Cardinality(S) <= N - 1
  BY <1>1, <1>2, CallersCounted, FS_Subset DEF N
<1>. QED  BY <1>1, <1>2, FS_EmptySet

\* A step of one caller changes the callers at L by that caller at most.
LEMMA OneMoves ==
  ASSUME loc \in [Callers -> Locations], NEW c \in Callers, NEW l, NEW L, Moves(c, l)
  PROVE  /\ loc[c] \in L /\ l \in L => Those(L)' = Those(L)
         /\ loc[c] \notin L /\ l \notin L => Those(L)' = Those(L)
         /\ loc[c] \notin L /\ l \in L =>
              Cardinality(Those(L)') = Cardinality(Those(L)) + 1
         /\ loc[c] \in L /\ l \notin L =>
              Cardinality(Those(L)') = Cardinality(Those(L)) - 1
<1>1. loc'[c] = l /\ \A d \in Callers \ {c} : loc'[d] = loc[d]
  BY DEF Moves
<1>2. Those(L)' = IF l \in L THEN Those(L) \cup {c} ELSE Those(L) \ {c}
  BY <1>1 DEF Those
<1>3. c \in Those(L) <=> loc[c] \in L
  BY DEF Those
<1>4. IsFiniteSet(Those(L))
  BY SomeOf DEF Those
<1>5. /\ Cardinality(Those(L) \cup {c}) =
           IF c \in Those(L) THEN Cardinality(Those(L)) ELSE Cardinality(Those(L)) + 1
      /\ Cardinality(Those(L) \ {c}) =
           IF c \in Those(L) THEN Cardinality(Those(L)) - 1 ELSE Cardinality(Those(L))
  BY <1>4, FS_AddElement, FS_RemoveElement
<1>6. CASE l \in L
  BY <1>2, <1>3, <1>5, <1>6
<1>7. CASE l \notin L
  BY <1>2, <1>3, <1>5, <1>7
<1>. QED  BY <1>6, <1>7
-----------------------------------------------------------------------------
(* Types. *)

\* The kill switch and the throttle keep their types (kill_switch.ts, throttle.ts).
LEMMA GuardTypes ==
  ASSUME KillTypeOK, ThrottleTypeOK
  PROVE  /\ UNCHANGED killVars => KillTypeOK'
         /\ UNCHANGED throttleVars => ThrottleTypeOK'
         /\ \A active : IsKillSwitchActive(active) => KillTypeOK'
         /\ PollIntervalElapses \/ OperatorToggles => KillTypeOK'
         /\ \A b, limit, throttled : IsThrottled(b, limit, throttled) => ThrottleTypeOK'
         /\ \A b : RecordAttempt(b) => ThrottleTypeOK'
         /\ \A b : ResetThrottle(b) => ThrottleTypeOK'
         /\ \A b : WindowExpires(b) => ThrottleTypeOK'
<1>1. /\ UNCHANGED killVars => KillTypeOK'
      /\ \A active : IsKillSwitchActive(active) => KillTypeOK'
      /\ PollIntervalElapses \/ OperatorToggles => KillTypeOK'
  BY DEF KillTypeOK, killVars, IsKillSwitchActive, PollIntervalElapses, OperatorToggles
<1>2. /\ UNCHANGED throttleVars => ThrottleTypeOK'
      /\ \A b, limit, throttled : IsThrottled(b, limit, throttled) => ThrottleTypeOK'
  BY DEF ThrottleTypeOK, throttleVars, IsThrottled
<1>3. ASSUME NEW count \in [Borrowers -> Nat], NEW b
      PROVE  Plus(count, b) \in [Borrowers -> Nat] /\ Zeroed(count, b) \in [Borrowers -> Nat]
  <2>1. CASE b \in Borrowers
    BY <2>1 DEF Plus, Zeroed
  <2>2. CASE b \notin Borrowers
    BY <2>2 DEF Plus, Zeroed
  <2>. QED  BY <2>1, <2>2
<1>4. ASSUME NEW b
      PROVE  /\ RecordAttempt(b) => ThrottleTypeOK'
             /\ ResetThrottle(b) => ThrottleTypeOK'
             /\ WindowExpires(b) => ThrottleTypeOK'
  <2>1. RecordAttempt(b) => ThrottleTypeOK'
    BY <1>3 DEF ThrottleTypeOK, RecordAttempt
  <2>2. ResetThrottle(b) => ThrottleTypeOK'
    BY <1>3 DEF ThrottleTypeOK, ResetThrottle
  <2>3. WindowExpires(b) => ThrottleTypeOK'
    BY <1>3 DEF ThrottleTypeOK, WindowExpires
  <2>. QED  BY <2>1, <2>2, <2>3
<1>. QED  BY <1>1, <1>2, <1>4

CallerTypes == /\ loc \in [Callers -> Locations]
               /\ borrowerOf \in [Callers -> Borrowers \cup {NoBorrower}]
               /\ repayUsdOf \in [Callers -> RepayUsd \cup {0}]

\* Where a caller goes, it keeps its type.
LEMMA CallerTypesKept ==
  ASSUME CallerTypes, NEW c \in Callers
  PROVE  /\ UNCHANGED callerVars => CallerTypes'
         /\ \A l \in Locations : Goto(c, l) => CallerTypes'
         /\ Return(c) => CallerTypes'
<1>1. "idle" \in Locations
  BY DEF Locations
<1>. QED  BY <1>1 DEF CallerTypes, callerVars, Goto, Return

\* A plan repays at most MaxRepayUsd.
LEMMA RepayBounded ==
  \A usd \in RepayUsd \cup {0} : usd \in Nat /\ usd <= MaxRepayUsd
BY OrchestratorAssumption

\* Every step of a caller keeps every type (orchestrator.ts 483-1321).
LEMMA ProceedTypes ==
  ASSUME TypeOK, NEW c \in Callers, Proceed(c)
  PROVE  TypeOK'
<1>. USE OrchestratorAssumption, GuardTypes, CallerTypesKept
     DEF TypeOK, CallerTypes, Locations, OnTheWire, processVars, sessionVars, networkVars
<1>1. CASE KillAlertSent(c)
  BY <1>1 DEF KillAlertSent, Exit, callerVars
<1>2. CASE SequencerPreSim(c)
  BY <1>2 DEF SequencerPreSim
<1>3. CASE CheckThrottle(c)
  BY <1>3 DEF CheckThrottle
<1>4. CASE EvaluateBypass(c)
  BY <1>4 DEF EvaluateBypass
<1>5. CASE LiftThrottle(c)
  BY <1>5 DEF LiftThrottle
<1>6. CASE Examine(c)
  BY <1>6 DEF Examine, Fail, callerVars
<1>7. CASE HfRowWritten(c)
  BY <1>7 DEF HfRowWritten
<1>8. CASE RecordHfAttempt(c)
  BY <1>8 DEF RecordHfAttempt
<1>9. CASE SequencerPreSend(c)
  BY <1>9 DEF SequencerPreSend
<1>10. CASE RecordThrottleAttempt(c)
  BY <1>10 DEF RecordThrottleAttempt
<1>11. CASE CheckCaps(c)
  BY <1>11 DEF CheckCaps, Exit, callerVars
<1>12. CASE Broadcast(c)
  <2>1. repayUsdOf[c] \in Nat
    BY RepayBounded
  <2>. QED  BY <1>12, <2>1 DEF Broadcast
<1>13. CASE SendRecovered(c)
  BY <1>13 DEF SendRecovered
<1>14. CASE SendFails(c)
  BY <1>14 DEF SendFails, Fail
<1>15. CASE AnswerArrives(c)
  BY <1>15 DEF AnswerArrives
<1>16. CASE AnswerLost(c)
  BY <1>16 DEF AnswerLost, Fail
<1>17. CASE SentRowWritten(c)
  <2>1. repayUsdOf[c] \in Nat
    BY RepayBounded
  <2>. QED  BY <1>17, <2>1 DEF SentRowWritten
<1>18. CASE JudgeFailRate(c)
  BY <1>18 DEF JudgeFailRate
<1>19. CASE AlertSent(c)
  BY <1>19 DEF AlertSent, Exit, callerVars
<1>20. CASE RowWritten(c)
  BY <1>20 DEF RowWritten
<1>. QED  BY <1>1, <1>2, <1>3, <1>4, <1>5, <1>6, <1>7, <1>8, <1>9, <1>10, <1>11, <1>12, <1>13, <1>14, <1>15, <1>16, <1>17, <1>18, <1>19, <1>20 DEF Proceed

\* So does every step.
LEMMA TypeStep ==
  ASSUME TypeOK, [Next]_vars
  PROVE  TypeOK'
<1>. USE OrchestratorAssumption, GuardTypes, CallerTypesKept
     DEF TypeOK, CallerTypes, processVars, sessionVars, networkVars
<1>1. CASE \E c \in Callers : Proceed(c)
  BY <1>1, ProceedTypes
<1>2. ASSUME NEW c \in Callers, NEW b \in Borrowers, TakeCandidate(c, b)
      PROVE  TypeOK'
  <2>1. ThrottleTypeOK' /\ KillTypeOK'
    <3>1. UNCHANGED throttleVars /\ (IsKillSwitchActive(TRUE) \/ IsKillSwitchActive(FALSE))
      BY <1>2 DEF TakeCandidate
    <3>2. KillTypeOK'
      BY <3>1 DEF IsKillSwitchActive, KillTypeOK, killVars
    <3>. QED  BY <3>1, <3>2
  <2>2. killNotified' \in [Chains -> BOOLEAN]
    BY <1>2 DEF TakeCandidate, Exit
  <2>3. alive' \in BOOLEAN
    BY <1>2 DEF TakeCandidate, Exit
  <2>4. CallerTypes'
    <3>1. CASE UNCHANGED callerVars \/ Goto(c, "killAlert")
      BY <3>1 DEF Goto, Locations, callerVars
    <3>2. CASE \E next \in {"sequencerPreSim", "row"} : loc' = [loc EXCEPT ![c] = next]
      <4>1. loc' \in [Callers -> Locations]
        BY <3>2 DEF Locations
      <4>2. CASE borrowerOf' = [borrowerOf EXCEPT ![c] = b] /\ UNCHANGED repayUsdOf
        BY <4>1, <4>2
      <4>. QED  BY <1>2, <3>1, <4>2 DEF TakeCandidate, Exit
    <3>. QED  BY <1>2, <3>1, <3>2 DEF TakeCandidate, Exit
  <2>. QED  BY <1>2, <2>1, <2>2, <2>3, <2>4 DEF TakeCandidate
<1>3. CASE Environment
  <2>1. CASE OperatorActs
    BY <2>1 DEF OperatorActs
  <2>2. CASE KillPollDue
    BY <2>2 DEF KillPollDue
  <2>3. CASE ThrottleWindowExpires
    BY <2>3 DEF ThrottleWindowExpires
  <2>4. CASE AlertCooldownEnds
    BY <2>4 DEF AlertCooldownEnds
  <2>. QED  BY <1>3, <2>1, <2>2, <2>3, <2>4 DEF Environment
<1>4. CASE UNCHANGED vars
  BY <1>4 DEF vars
<1>. QED  BY <1>1, <1>2, <1>3, <1>4 DEF Next

\* The initial states have the types.
LEMMA InitTypes == Init => TypeOK
<1>. SUFFICES ASSUME Init PROVE TypeOK
  OBVIOUS
<1>1. KillTypeOK /\ ThrottleTypeOK
  BY DEF Init, KillInit, KillTypeOK, ThrottleInit, ThrottleTypeOK
<1>2. "idle" \in Locations
  BY DEF Locations
<1>. QED  BY <1>1, <1>2 DEF Init, TypeOK
-----------------------------------------------------------------------------
(* What a step may do to the session counters, and who may do it. *)

\* The locations of a plan that has passed the caps and is not done with.
Spending == {"send"} \cup OnTheWire

counted == <<risk, plansSentCount, sessionNotionalUsd, broadcasts, lostAnswers>>

\* No caller moves, but the process may end.
Stays == (alive' => alive) /\ UNCHANGED <<counted, loc, repayUsdOf>>

\* c goes from one of the locations to a location outside Spending.
Leaves(c, from) ==
  /\ alive /\ UNCHANGED <<alive, counted>>
  /\ loc[c] \in from
  /\ \E l \in Locations \ Spending : Moves(c, l)
  /\ \A d \in Callers \ {c} : repayUsdOf'[d] = repayUsdOf[d]

\* c passes both caps and goes on to its send.
Passes(c) ==
  /\ alive /\ UNCHANGED <<alive, counted, repayUsdOf>>
  /\ loc[c] \notin Spending /\ Moves(c, "send")
  /\ ~SessionNotionalCapHit(repayUsdOf[c])

\* A step of a caller before its send, or at its end, fits one of these.
LEMMA CallerShapes ==
  ASSUME TypeOK, NEW c \in Callers, Proceed(c)
  PROVE  \/ Stays \/ Leaves(c, Locations \ Spending) \/ Leaves(c, {"send"}) \/ Passes(c)
         \/ Broadcast(c) \/ AnswerArrives(c) \/ AnswerLost(c) \/ SentRowWritten(c)
<1>. USE DEF TypeOK, At, Goto, Return, Moves, Leaves, Locations, Spending, OnTheWire, counted,
             sessionVars, networkVars, processVars, callerVars
<1>1. CASE \/ SequencerPreSim(c) \/ CheckThrottle(c) \/ EvaluateBypass(c) \/ LiftThrottle(c)
           \/ HfRowWritten(c) \/ RecordHfAttempt(c)
  BY <1>1 DEF SequencerPreSim, CheckThrottle, EvaluateBypass, LiftThrottle, HfRowWritten,
              RecordHfAttempt
<1>2. CASE \/ SequencerPreSend(c) \/ RecordThrottleAttempt(c) \/ JudgeFailRate(c) \/ RowWritten(c)
  BY <1>2 DEF SequencerPreSend, RecordThrottleAttempt, JudgeFailRate, RowWritten
<1>3. CASE Examine(c)
  BY <1>3 DEF Examine, Fail
<1>4. CASE KillAlertSent(c)
  BY <1>4 DEF KillAlertSent, Exit, Stays
<1>5. CASE AlertSent(c)
  BY <1>5 DEF AlertSent, Exit, Stays
<1>6. CASE CheckCaps(c)
  BY <1>6 DEF CheckCaps, Exit, Stays, Passes
<1>7. CASE SendRecovered(c) \/ SendFails(c)
  BY <1>7 DEF SendRecovered, SendFails, Fail
<1>. QED  BY <1>1, <1>2, <1>3, <1>4, <1>5, <1>6, <1>7 DEF Proceed

\* And so does every step.
LEMMA Shapes ==
  ASSUME TypeOK, [Next]_vars
  PROVE  \/ Stays
         \/ \E c \in Callers :
              \/ Leaves(c, Locations \ Spending) \/ Leaves(c, {"send"}) \/ Passes(c)
              \/ Broadcast(c) \/ AnswerArrives(c) \/ AnswerLost(c) \/ SentRowWritten(c)
<1>1. ASSUME NEW c \in Callers, NEW b \in Borrowers, TakeCandidate(c, b)
      PROVE  Stays \/ Leaves(c, Locations \ Spending)
  BY <1>1 DEF TakeCandidate, Exit, TypeOK, At, Goto, Moves, Leaves, Stays, Locations, Spending,
              OnTheWire, counted, sessionVars, networkVars, processVars, callerVars
<1>2. CASE Environment
  BY <1>2 DEF Environment, OperatorActs, KillPollDue, ThrottleWindowExpires, AlertCooldownEnds,
              Stays, counted, sessionVars, networkVars, processVars, callerVars
<1>3. CASE UNCHANGED vars
  BY <1>3 DEF vars, Stays, counted, sessionVars, networkVars, processVars, callerVars
<1>. QED  BY CallerShapes, <1>1, <1>2, <1>3 DEF Next
-----------------------------------------------------------------------------
(* The live-execution cap. *)

\* The count reaches its cap only as the process ends, and the caller that reached
\* it is no longer on the wire.
CapInv ==
  risk.maxLiveExecutions > 0 =>
    /\ plansSentCount <= risk.maxLiveExecutions
    /\ plansSentCount = risk.maxLiveExecutions =>
         ~alive /\ \E c \in Callers : loc[c] \notin OnTheWire

\* Every broadcast is in flight, counted or lost (orchestrator.ts 1179-1211).
LEMMA WireStep ==
  ASSUME TypeOK, WireAccounted, [Next]_vars
  PROVE  WireAccounted'
<1>1. InFlight = Those(OnTheWire) /\ InFlight' = Those(OnTheWire)'
  BY DEF InFlight, Those
<1>2. Cardinality(InFlight) \in Nat
  BY <1>1, SomeOf DEF Those
<1>3. CASE Stays
  BY <1>3 DEF Stays, counted, WireAccounted, InFlight
<1>4. ASSUME NEW c \in Callers, NEW l, Moves(c, l)
      PROVE  /\ (loc[c] \in OnTheWire <=> l \in OnTheWire) => InFlight' = InFlight
             /\ loc[c] \notin OnTheWire /\ l \in OnTheWire =>
                  Cardinality(InFlight') = Cardinality(InFlight) + 1
             /\ loc[c] \in OnTheWire /\ l \notin OnTheWire =>
                  Cardinality(InFlight') = Cardinality(InFlight) - 1
  BY <1>1, <1>4, OneMoves DEF TypeOK
<1>5. ASSUME NEW c \in Callers,
             Leaves(c, Locations \ Spending) \/ Leaves(c, {"send"}) \/ Passes(c)
      PROVE  WireAccounted'
  <2>1. PICK l : Moves(c, l) /\ loc[c] \notin OnTheWire /\ l \notin OnTheWire
    BY <1>5 DEF Leaves, Passes, Spending, OnTheWire
  <2>2. UNCHANGED counted /\ InFlight' = InFlight
    BY <1>4, <1>5, <2>1 DEF Leaves, Passes
  <2>. QED  BY <2>2 DEF WireAccounted, counted
<1>6. ASSUME NEW c \in Callers, Broadcast(c)
      PROVE  WireAccounted'
  <2>1. loc[c] \notin OnTheWire /\ Moves(c, "answer") /\ "answer" \in OnTheWire
    BY <1>6 DEF Broadcast, At, Goto, Moves, OnTheWire
  <2>. QED  BY <1>2, <1>4, <1>6, <2>1 DEF Broadcast, WireAccounted, TypeOK, sessionVars
<1>7. ASSUME NEW c \in Callers, AnswerArrives(c)
      PROVE  WireAccounted'
  <2>1. loc[c] \in OnTheWire /\ Moves(c, "sentRow") /\ "sentRow" \in OnTheWire
    BY <1>7 DEF AnswerArrives, At, Goto, Moves, OnTheWire
  <2>. QED  BY <1>4, <1>7, <2>1 DEF AnswerArrives, WireAccounted, sessionVars, networkVars
<1>8. ASSUME NEW c \in Callers, AnswerLost(c)
      PROVE  WireAccounted'
  <2>1. loc[c] \in OnTheWire /\ Moves(c, "errorRow") /\ "errorRow" \notin OnTheWire
    BY <1>8 DEF AnswerLost, Fail, At, Goto, Moves, OnTheWire
  <2>. QED  BY <1>2, <1>4, <1>8, <2>1 DEF AnswerLost, Fail, WireAccounted, TypeOK
<1>9. ASSUME NEW c \in Callers, SentRowWritten(c)
      PROVE  WireAccounted'
  <2>1. loc[c] \in OnTheWire /\ Moves(c, "idle") /\ "idle" \notin OnTheWire
    BY <1>9 DEF SentRowWritten, Return, At, Moves, OnTheWire
  <2>. QED  BY <1>2, <1>4, <1>9, <2>1 DEF SentRowWritten, WireAccounted, TypeOK, networkVars
<1>. QED  BY Shapes, <1>3, <1>5, <1>6, <1>7, <1>8, <1>9

\* The second look at the cap (orchestrator.ts 1212-1249) keeps the count under it.
LEMMA CapStep ==
  ASSUME TypeOK, CapInv, [Next]_vars
  PROVE  CapInv'
<1>. DEFINE cap == risk.maxLiveExecutions
<1>0. risk' = risk /\ cap \in Nat /\ plansSentCount \in Nat
  <2>1. risk' = risk
    BY Shapes DEF Stays, Leaves, Passes, counted, Broadcast, AnswerArrives, AnswerLost, SentRowWritten
  <2>. QED  BY <2>1, OrchestratorAssumption DEF TypeOK
<1>1. SUFFICES ASSUME cap > 0
               PROVE  CapInv'
  BY <1>0 DEF CapInv
<1>2. CASE Stays
  BY <1>0, <1>2 DEF Stays, counted, CapInv
<1>3. ASSUME NEW c \in Callers,
             \/ Leaves(c, Locations \ Spending) \/ Leaves(c, {"send"}) \/ Passes(c)
             \/ Broadcast(c) \/ AnswerArrives(c) \/ AnswerLost(c)
      PROVE  CapInv'
  <2>1. alive /\ plansSentCount' = plansSentCount
    BY <1>3 DEF Leaves, Passes, counted, Broadcast, AnswerArrives, AnswerLost, Fail, At, sessionVars
  <2>. QED  BY <1>0, <1>1, <2>1 DEF CapInv
<1>4. ASSUME NEW c \in Callers, SentRowWritten(c)
      PROVE  CapInv'
  <2>1. alive /\ plansSentCount < cap /\ plansSentCount' = plansSentCount + 1
    BY <1>0, <1>1, <1>4 DEF CapInv, SentRowWritten, At
  <2>2. loc'[c] = "idle"
    BY <1>4 DEF SentRowWritten, Return, TypeOK
  <2>3. alive' = ~(cap > 0 /\ plansSentCount' >= cap)
    BY <1>4 DEF SentRowWritten
  <2>4. plansSentCount' = cap => ~alive'
    <3>1. plansSentCount' = cap => cap > 0 /\ plansSentCount' >= cap
      BY <1>0, <1>1
    <3>. QED  BY <2>3, <3>1, Zenon
  <2>. QED  BY <1>0, <2>1, <2>2, <2>4 DEF CapInv, OnTheWire
<1>. QED  BY Shapes, <1>2, <1>3, <1>4
-----------------------------------------------------------------------------
(* The session notional cap. *)

Slack(k) == k * MaxRepayUsd

\* As long as plans that passed the cap are not done with, one of them (the last to
\* pass) fits, and each of those that are done has added MaxRepayUsd at most.
NotionalInv ==
  risk.maxSessionNotionalUsd > 0 =>
    /\ sessionNotionalUsd <= risk.maxSessionNotionalUsd + Slack(N - 1)
    /\ Those(Spending) # {} =>
         \E c \in Those(Spending) :
           sessionNotionalUsd + repayUsdOf[c] <=
             risk.maxSessionNotionalUsd + Slack(N - Cardinality(Those(Spending)))

\* Room for k plans, and for one more.
LEMMA SlackGrows ==
  /\ \A k \in Int : Slack(k) \in Int /\ Slack(k + 1) = Slack(k) + MaxRepayUsd
  /\ \A k \in Nat : Slack(k) \in Nat
<1>1. MaxRepayUsd \in Nat
  BY OrchestratorAssumption
<1>2. ASSUME NEW k \in Int
      PROVE  Slack(k) \in Int /\ Slack(k + 1) = Slack(k) + MaxRepayUsd
  BY <1>1 DEF Slack
<1>3. ASSUME NEW k \in Nat
      PROVE  Slack(k) \in Nat
  BY <1>1 DEF Slack
<1>. QED  BY <1>2, <1>3

\* How many are spending, and the room the others leave.
LEMMA SpendingCounted ==
  /\ Cardinality(Those(Spending)) \in Nat
  /\ Cardinality(Those(Spending)) = 0 <=> Those(Spending) = {}
  /\ N - Cardinality(Those(Spending)) \in Nat
  /\ N - 1 \in Nat
BY CallersCounted, SomeOf DEF Those

\* A step that spends nothing, and after which fewer are spending or as many.
LEMMA NotionalKept ==
  ASSUME TypeOK, CallerTypes', NotionalInv,
         risk' = risk, sessionNotionalUsd' = sessionNotionalUsd,
         \/ /\ Those(Spending)' = Those(Spending)
            /\ \A c \in Those(Spending) : repayUsdOf'[c] = repayUsdOf[c]
         \/ Cardinality(Those(Spending)') = Cardinality(Those(Spending)) - 1
  PROVE  NotionalInv'
<1>. DEFINE W == Those(Spending)
            limit == risk.maxSessionNotionalUsd
            spent == sessionNotionalUsd
<1>1. SUFFICES ASSUME limit > 0
               PROVE  NotionalInv'
  BY DEF NotionalInv
<1>2. spent <= limit + Slack(N - 1) /\ spent' = spent /\ limit' = limit
  BY <1>1 DEF NotionalInv
<1>3. CASE W' = W /\ \A c \in W : repayUsdOf'[c] = repayUsdOf[c]
  BY <1>1, <1>2, <1>3 DEF NotionalInv
<1>4. CASE Cardinality(W') = Cardinality(W) - 1
  <2>1. /\ Cardinality(W) \in Nat /\ Cardinality(W') \in Nat
        /\ N - Cardinality(W) \in Nat /\ W # {}
    BY <1>4, SpendingCounted, SomeOf DEF Those
  <2>2. PICK c \in W : spent + repayUsdOf[c] <= limit + Slack(N - Cardinality(W))
    BY <1>1, <2>1 DEF NotionalInv
  <2>3. ASSUME NEW d \in W'
        PROVE  spent + repayUsdOf'[d] <= limit + Slack(N - Cardinality(W'))
    <3>1. /\ repayUsdOf[c] \in Nat
          /\ repayUsdOf'[d] \in Nat /\ repayUsdOf'[d] <= MaxRepayUsd
      <4>1. repayUsdOf[c] \in RepayUsd \cup {0} /\ repayUsdOf'[d] \in RepayUsd \cup {0}
        BY <2>2, <2>3 DEF Those, TypeOK, CallerTypes
      <4>. QED  BY <4>1, RepayBounded
    <3>2. Slack(N - Cardinality(W')) = Slack(N - Cardinality(W)) + MaxRepayUsd
      <4>1. N - Cardinality(W') = (N - Cardinality(W)) + 1
        BY <1>4, <2>1, CallersCounted
      <4>. QED  BY <2>1, <4>1, SlackGrows
    <3>3. /\ spent \in Nat /\ limit \in Nat /\ MaxRepayUsd \in Nat
          /\ Slack(N - Cardinality(W)) \in Nat
      <4>1. risk.maxSessionNotionalUsd \in Nat /\ sessionNotionalUsd \in Nat
        BY OrchestratorAssumption DEF TypeOK
      <4>2. Slack(N - Cardinality(W)) \in Nat
        BY <2>1, SlackGrows
      <4>. QED  BY <4>1, <4>2, OrchestratorAssumption
    <3>. HIDE DEF W, limit, spent
    <3>. QED  BY <2>2, <3>1, <3>2, <3>3
  <2>. QED  BY <1>2, <2>3 DEF NotionalInv
<1>. QED  BY <1>3, <1>4

\* More plans need more room.
LEMMA SlackMonotone ==
  ASSUME NEW j \in Nat, NEW k \in Nat, j <= k
  PROVE  Slack(j) \in Nat /\ Slack(k) \in Nat /\ Slack(j) <= Slack(k)
<1>1. MaxRepayUsd \in Nat /\ k - j \in Nat /\ k = j + (k - j)
  BY OrchestratorAssumption
<1>2. (k - j) * MaxRepayUsd \in Nat /\ k * MaxRepayUsd = j * MaxRepayUsd + (k - j) * MaxRepayUsd
  BY <1>1
<1>. QED  BY <1>2, SlackGrows DEF Slack

\* The plan that is counted leaves room for those still under way (orchestrator.ts 1211).
LEMMA NotionalCounted ==
  ASSUME TypeOK, TypeOK', NotionalInv, NEW c \in Callers, SentRowWritten(c)
  PROVE  NotionalInv'
<1>. DEFINE W == Those(Spending)
            limit == risk.maxSessionNotionalUsd
            spent == sessionNotionalUsd
            free == N - Cardinality(W)
<1>1. SUFFICES ASSUME limit > 0
               PROVE  NotionalInv'
  BY DEF SentRowWritten, NotionalInv
<1>2. /\ c \in W /\ Cardinality(W') = Cardinality(W) - 1
      /\ limit' = limit /\ spent' = spent + repayUsdOf[c]
      /\ \A d \in Callers : d \in W' <=> d \in W /\ d # c
      /\ \A d \in Callers \ {c} : repayUsdOf'[d] = repayUsdOf[d]
  <2>1. Moves(c, "idle") /\ loc[c] \in Spending /\ "idle" \notin Spending
    BY DEF SentRowWritten, Return, At, Moves, Spending, OnTheWire
  <2>2. Cardinality(W') = Cardinality(W) - 1
    BY <2>1, OneMoves DEF TypeOK
  <2>. QED  BY <2>1, <2>2 DEF SentRowWritten, Return, Moves, Those, TypeOK
<1>3. /\ free \in Nat /\ free <= N - 1 /\ N - 1 \in Nat
      /\ N - Cardinality(W') = free + 1 /\ (W' # {} => free + 1 <= N - 1)
  <2>1. N \in Nat \ {0} /\ Cardinality(W) \in Nat /\ Cardinality(W) <= N
    BY SomeOf, CallersCounted DEF Those
  <2>2. Cardinality(W') \in Nat /\ (Cardinality(W') = 0 <=> W' = {})
    BY SomeOf DEF Those
  <2>. HIDE DEF W
  <2>. QED  BY <1>2, <2>1, <2>2
<1>4. PICK e \in W : spent + repayUsdOf[e] <= limit + Slack(free)
  BY <1>1, <1>2 DEF NotionalInv
<1>5. \A d \in Callers : /\ repayUsdOf[d] \in Nat /\ repayUsdOf[d] <= MaxRepayUsd
                         /\ repayUsdOf'[d] \in Nat /\ repayUsdOf'[d] <= MaxRepayUsd
  BY RepayBounded DEF TypeOK
<1>6. limit \in Nat /\ spent \in Nat /\ MaxRepayUsd \in Nat
  BY OrchestratorAssumption DEF TypeOK
<1>7. /\ Slack(free) \in Nat /\ Slack(N - 1) \in Nat /\ Slack(free) <= Slack(N - 1)
      /\ Slack(free + 1) = Slack(free) + MaxRepayUsd
      /\ W' # {} => Slack(free + 1) <= Slack(N - 1)
  BY <1>3, SlackGrows, SlackMonotone
<1>8. e \in Callers /\ c \in Callers
  BY DEF Those
<1>9. CASE e = c
  <2>1. spent' <= limit + Slack(free)
    BY <1>2, <1>4, <1>9
  <2>2. \A d \in W' : spent' + repayUsdOf'[d] <= limit + Slack(free + 1)
    <3>1. \A d \in W' : d \in Callers
      BY DEF Those
    <3>2. spent' \in Nat
      BY <1>2, <1>5, <1>6
    <3>. HIDE DEF W, limit, spent, free
    <3>. QED  BY <1>5, <1>6, <1>7, <2>1, <3>1, <3>2
  <2>3. spent' <= limit + Slack(N - 1)
    <3>. HIDE DEF W, limit, spent, free
    <3>. QED  BY <1>2, <1>5, <1>6, <1>7, <2>1
  <2>. QED  BY <1>2, <1>3, <2>2, <2>3 DEF NotionalInv
<1>10. CASE e # c
  <2>1. e \in W' /\ repayUsdOf'[e] = repayUsdOf[e]
    BY <1>2, <1>8, <1>10
  <2>2. spent' + repayUsdOf'[e] <= limit + Slack(free + 1)
    <3>. HIDE DEF W, limit, spent, free
    <3>. QED  BY <1>2, <1>4, <1>5, <1>6, <1>7, <1>8, <2>1
  <2>3. spent' <= limit + Slack(N - 1)
    <3>1. Slack(free + 1) <= Slack(N - 1)
      BY <1>7, <2>1
    <3>. HIDE DEF W, limit, spent, free
    <3>. QED  BY <1>2, <1>5, <1>6, <1>7, <1>8, <2>2, <3>1
  <2>. QED  BY <1>2, <1>3, <2>1, <2>2, <2>3 DEF NotionalInv
<1>. QED  BY <1>9, <1>10

\* The check before the send (orchestrator.ts 1090-1097) and the count after it keep the
\* overrun of the session notional within one plan of each other caller.
LEMMA NotionalStep ==
  ASSUME TypeOK, TypeOK', NotionalInv, [Next]_vars
  PROVE  NotionalInv'
<1>. DEFINE W == Those(Spending)
<1>0. CallerTypes' /\ \A c \in W : c \in Callers
  BY DEF TypeOK, CallerTypes, Those
<1>1. CASE Stays
  <2>1. W' = W /\ UNCHANGED <<counted, repayUsdOf>>
    BY <1>1 DEF Stays, Those
  <2>. QED  BY <1>0, <2>1, NotionalKept DEF counted
<1>2. ASSUME NEW c \in Callers, Leaves(c, Locations \ Spending)
      PROVE  NotionalInv'
  <2>1. W' = W
    BY <1>2, OneMoves DEF TypeOK, Leaves
  <2>2. \A d \in W : repayUsdOf'[d] = repayUsdOf[d]
    BY <1>2 DEF Leaves, Those
  <2>. QED  BY <1>0, <1>2, <2>1, <2>2, NotionalKept DEF Leaves, counted
<1>3. ASSUME NEW c \in Callers, Leaves(c, {"send"})
      PROVE  NotionalInv'
  <2>1. Cardinality(W') = Cardinality(W) - 1
    BY <1>3, OneMoves DEF TypeOK, Leaves, Spending
  <2>. QED  BY <1>0, <1>3, <2>1, NotionalKept DEF Leaves, counted
<1>4. ASSUME NEW c \in Callers, Passes(c)
      PROVE  NotionalInv'
  <2>1. c \in W' /\ UNCHANGED <<counted, repayUsdOf>>
    BY <1>4 DEF Passes, Moves, Those, Spending, TypeOK
  <2>2. SUFFICES ASSUME risk.maxSessionNotionalUsd > 0
                 PROVE  NotionalInv'
    BY <2>1 DEF NotionalInv, counted
  <2>3. sessionNotionalUsd + repayUsdOf[c] <= risk.maxSessionNotionalUsd
    <3>1. ~(sessionNotionalUsd + repayUsdOf[c] > risk.maxSessionNotionalUsd)
      BY <1>4, <2>2 DEF Passes, SessionNotionalCapHit
    <3>2. /\ sessionNotionalUsd \in Nat /\ risk.maxSessionNotionalUsd \in Nat
          /\ repayUsdOf[c] \in Nat
      BY RepayBounded, OrchestratorAssumption DEF TypeOK
    <3>. QED  BY <3>1, <3>2
  <2>4. N - Cardinality(W') \in Nat
    BY CallersCounted, SomeOf DEF Those
  <2>5. Slack(N - Cardinality(W')) \in Nat
    BY <2>4, SlackGrows
  <2>6. /\ sessionNotionalUsd \in Nat /\ risk.maxSessionNotionalUsd \in Nat
        /\ repayUsdOf[c] \in Nat
    BY RepayBounded, OrchestratorAssumption DEF TypeOK
  <2>7. sessionNotionalUsd + repayUsdOf[c] <=
          risk.maxSessionNotionalUsd + Slack(N - Cardinality(W'))
    BY <2>3, <2>5, <2>6
  <2>. QED  BY <2>1, <2>2, <2>7 DEF NotionalInv, counted
<1>5. ASSUME NEW c \in Callers, Broadcast(c) \/ AnswerArrives(c)
      PROVE  NotionalInv'
  <2>1. PICK l \in Spending : Moves(c, l) /\ loc[c] \in Spending
    BY <1>5 DEF Broadcast, AnswerArrives, At, Goto, Moves, Spending, OnTheWire
  <2>2. W' = W
    BY <2>1, OneMoves DEF TypeOK
  <2>3. UNCHANGED <<risk, sessionNotionalUsd, repayUsdOf>>
    BY <1>5 DEF Broadcast, AnswerArrives, Goto, sessionVars
  <2>. QED  BY <1>0, <2>2, <2>3, NotionalKept
<1>6. ASSUME NEW c \in Callers, AnswerLost(c)
      PROVE  NotionalInv'
  <2>1. Moves(c, "errorRow") /\ loc[c] \in Spending /\ "errorRow" \notin Spending
    BY <1>6 DEF AnswerLost, Fail, At, Goto, Moves, Spending, OnTheWire
  <2>2. Cardinality(W') = Cardinality(W) - 1
    BY <2>1, OneMoves DEF TypeOK
  <2>. QED  BY <1>0, <1>6, <2>2, NotionalKept DEF AnswerLost, Fail
<1>7. ASSUME NEW c \in Callers, SentRowWritten(c)
      PROVE  NotionalInv'
  BY <1>7, NotionalCounted
<1>. QED  BY Shapes, <1>1, <1>2, <1>3, <1>4, <1>5, <1>6, <1>7
-----------------------------------------------------------------------------
(* The throttle. *)

\* The locations between the throttle's answer and the record of the attempt.
Examining == {"examine", "hfRow", "hfRecord", "sequencerPreSend", "recordAttempt"}

\* The callers that have yet to record their attempt at b.
Pending(b) == {c \in Callers : loc[c] \in Examining /\ borrowerOf[c] = b}

\* A count that leaves room under the bound for k pending callers.
Fits(count, limit, k) ==
  /\ count <= limit + (N - 1)
  /\ k > 0 => count <= limit - 1 + (N - k)

\* The store in use has room for the callers pending on b; the map is empty until it is
\* used, and Redis is not counted up once the map is.
RoomFor(b) ==
  LET limit == risk.maxAttemptsPerBorrowerHour
      pending == Cardinality(Pending(b))
  IN IF fallbackEnabled
     THEN Fits(fallbackStore[b], limit, pending) /\ redisCount[b] <= limit + (N - 1)
     ELSE Fits(redisCount[b], limit, pending) /\ fallbackStore[b] = 0

ThrottleInv ==
  ~risk.dryRun /\ risk.maxAttemptsPerBorrowerHour > 0 => \A b \in Borrowers : RoomFor(b)

\* A count fits when it is below the limit, when it has not grown, and when it grew by the
\* attempt of a caller that was pending.
LEMMA FitsRules ==
  ASSUME NEW count \in Nat, NEW limit \in Nat \ {0}, NEW k \in 0..N
  PROVE  /\ count < limit => Fits(count, limit, k)
         /\ Fits(count, limit, k) => \A less \in Nat : less <= count => Fits(less, limit, k)
         /\ Fits(count, limit, k) /\ k > 0 =>
              \A less \in Nat : less <= count => Fits(less, limit, k - 1)
         /\ Fits(count, limit, k) /\ k > 0 => Fits(count + 1, limit, k - 1)
BY CallersCounted DEF Fits

\* The number of pending callers.
LEMMA PendingCounted ==
  \A b : Cardinality(Pending(b)) \in 0..N /\ IsFiniteSet(Pending(b))
BY CallersCounted, SomeOf DEF Pending

\* Only c moves, and it does not come to be pending.
Quiet(c) ==
  /\ \A d \in Callers \ {c} : loc'[d] = loc[d] /\ borrowerOf'[d] = borrowerOf[d]
  /\ loc'[c] \in Examining => loc[c] \in Examining /\ borrowerOf'[c] = borrowerOf[c]

\* After a quiet step as many are pending, or one less.
LEMMA QuietPending ==
  ASSUME NEW c \in Callers, Quiet(c), NEW b
  PROVE  /\ \/ Cardinality(Pending(b)') = Cardinality(Pending(b))
            \/ /\ Cardinality(Pending(b)) > 0
               /\ Cardinality(Pending(b)') = Cardinality(Pending(b)) - 1
         /\ c \in Pending(b) /\ loc'[c] \notin Examining =>
              /\ Cardinality(Pending(b)) > 0
              /\ Cardinality(Pending(b)') = Cardinality(Pending(b)) - 1
<1>1. \/ Pending(b)' = Pending(b) /\ ~(c \in Pending(b) /\ loc'[c] \notin Examining)
      \/ c \in Pending(b) /\ Pending(b)' = Pending(b) \ {c}
  BY DEF Quiet, Pending
<1>2. c \in Pending(b) =>
        /\ Cardinality(Pending(b)) > 0
        /\ Cardinality(Pending(b) \ {c}) = Cardinality(Pending(b)) - 1
  <2>1. IsFiniteSet(Pending(b)) /\ Cardinality(Pending(b)) \in 0..N /\ N \in Nat
    BY PendingCounted, CallersCounted
  <2>2. Cardinality(Pending(b)) = 0 <=> Pending(b) = {}
    BY <2>1, FS_EmptySet
  <2>3. c \in Pending(b) => Cardinality(Pending(b) \ {c}) = Cardinality(Pending(b)) - 1
    BY <2>1, FS_RemoveElement
  <2>. QED  BY <2>1, <2>2, <2>3
<1>. QED  BY <1>1, <1>2

\* The attempt of a pending caller is recorded, and it is pending no more.
Records(c) ==
  /\ Quiet(c)
  /\ loc[c] \in Examining /\ loc'[c] \notin Examining
  /\ RecordAttempt(borrowerOf[c])

\* A step of a caller either leaves the throttle alone or is one of its three calls.
LEMMA ThrottleShapes ==
  ASSUME TypeOK, NEW c \in Callers, Proceed(c),
         ~risk.dryRun, risk.maxAttemptsPerBorrowerHour > 0
  PROVE  \/ Quiet(c) /\ UNCHANGED throttleVars
         \/ CheckThrottle(c) \/ LiftThrottle(c) \/ Records(c)
<1>. USE DEF TypeOK, At, Goto, Return, Quiet, Examining
<1>1. CASE SequencerPreSim(c) \/ EvaluateBypass(c) \/ HfRowWritten(c)
  BY <1>1 DEF SequencerPreSim, EvaluateBypass, HfRowWritten
<1>2. CASE SequencerPreSend(c) \/ JudgeFailRate(c) \/ RowWritten(c)
  BY <1>2 DEF SequencerPreSend, JudgeFailRate, RowWritten
<1>3. CASE Examine(c)
  BY <1>3 DEF Examine, Fail
<1>4. CASE RecordHfAttempt(c) \/ RecordThrottleAttempt(c)
  BY <1>4 DEF RecordHfAttempt, RecordThrottleAttempt, Records
<1>5. CASE KillAlertSent(c) \/ AlertSent(c) \/ CheckCaps(c)
  BY <1>5 DEF KillAlertSent, AlertSent, CheckCaps, Exit, callerVars
<1>6. CASE Broadcast(c) \/ SendRecovered(c) \/ SendFails(c)
  BY <1>6 DEF Broadcast, SendRecovered, SendFails, Fail
<1>7. CASE AnswerArrives(c) \/ AnswerLost(c) \/ SentRowWritten(c)
  BY <1>7 DEF AnswerArrives, AnswerLost, Fail, SentRowWritten
<1>. QED  BY <1>1, <1>2, <1>3, <1>4, <1>5, <1>6, <1>7 DEF Proceed

\* Neither store has grown, and no caller has come to be pending on b.
LEMMA RoomKept ==
  ASSUME TypeOK, TypeOK', risk' = risk, risk.maxAttemptsPerBorrowerHour > 0,
         NEW b \in Borrowers, RoomFor(b),
         redisCount'[b] <= redisCount[b], fallbackStore'[b] <= fallbackStore[b],
         fallbackEnabled => fallbackEnabled',
         \/ Cardinality(Pending(b)') = Cardinality(Pending(b))
         \/ /\ Cardinality(Pending(b)) > 0
            /\ Cardinality(Pending(b)') = Cardinality(Pending(b)) - 1
  PROVE  RoomFor(b)'
<1>. DEFINE limit == risk.maxAttemptsPerBorrowerHour
            k == Cardinality(Pending(b))
<1>1. limit \in Nat \ {0} /\ limit' = limit
  BY OrchestratorAssumption DEF TypeOK
<1>2. /\ redisCount[b] \in Nat /\ redisCount'[b] \in Nat
      /\ fallbackStore[b] \in Nat /\ fallbackStore'[b] \in Nat
  BY DEF TypeOK, ThrottleTypeOK
<1>3. k \in 0..N /\ k' \in 0..N /\ N \in Nat \ {0}
  BY CallersCounted, SomeOf, PendingCounted DEF Pending
<1>4. (k' = k) \/ (k > 0 /\ k' = k - 1)
  OBVIOUS
<1>. HIDE DEF limit, k
<1>5. CASE ~fallbackEnabled'
  <2>1. ~fallbackEnabled /\ Fits(redisCount[b], limit, k) /\ fallbackStore[b] = 0
    BY <1>5 DEF RoomFor, limit, k
  <2>2. Fits(redisCount'[b], limit, k')
    BY <1>1, <1>2, <1>3, <1>4, <2>1, FitsRules
  <2>. QED  BY <1>1, <1>2, <1>5, <2>1, <2>2 DEF RoomFor, limit, k
<1>6. CASE fallbackEnabled' /\ ~fallbackEnabled
  <2>1. Fits(redisCount[b], limit, k) /\ fallbackStore[b] = 0
    BY <1>6 DEF RoomFor, limit, k
  <2>2. redisCount'[b] <= limit + (N - 1) /\ fallbackStore'[b] = 0
    BY <1>1, <1>2, <1>3, <2>1 DEF Fits
  <2>3. Fits(fallbackStore'[b], limit, k')
    BY <1>1, <1>3, <2>2, FitsRules
  <2>. QED  BY <1>1, <1>6, <2>2, <2>3 DEF RoomFor, limit, k
<1>7. CASE fallbackEnabled' /\ fallbackEnabled
  <2>1. Fits(fallbackStore[b], limit, k) /\ redisCount[b] <= limit + (N - 1)
    BY <1>7 DEF RoomFor, limit, k
  <2>2. Fits(fallbackStore'[b], limit, k')
    BY <1>1, <1>2, <1>3, <1>4, <2>1, FitsRules
  <2>3. redisCount'[b] <= limit + (N - 1)
    BY <1>1, <1>2, <1>3, <2>1
  <2>. QED  BY <1>1, <1>7, <2>2, <2>3 DEF RoomFor, limit, k
<1>. QED  BY <1>5, <1>6, <1>7

\* The store in use is below the limit: whoever is pending, there is room.
LEMMA RoomBelow ==
  ASSUME TypeOK, TypeOK', risk' = risk, risk.maxAttemptsPerBorrowerHour > 0,
         NEW b \in Borrowers, RoomFor(b), redisCount'[b] <= redisCount[b],
         IF fallbackEnabled' THEN fallbackStore'[b] < risk.maxAttemptsPerBorrowerHour
         ELSE /\ redisCount'[b] < risk.maxAttemptsPerBorrowerHour
              /\ ~fallbackEnabled /\ fallbackStore'[b] = fallbackStore[b]
  PROVE  RoomFor(b)'
<1>. DEFINE limit == risk.maxAttemptsPerBorrowerHour
            k == Cardinality(Pending(b))
<1>1. limit \in Nat \ {0} /\ limit' = limit
  BY OrchestratorAssumption DEF TypeOK
<1>2. /\ redisCount[b] \in Nat /\ redisCount'[b] \in Nat
      /\ fallbackStore[b] \in Nat /\ fallbackStore'[b] \in Nat
  BY DEF TypeOK, ThrottleTypeOK
<1>3. k' \in 0..N /\ N \in Nat \ {0}
  BY CallersCounted, SomeOf DEF Pending
<1>. HIDE DEF k
<1>4. redisCount'[b] <= limit + (N - 1)
  <2>1. redisCount[b] <= limit + (N - 1)
    BY DEF RoomFor, Fits
  <2>. HIDE DEF limit
  <2>. QED  BY <1>1, <1>2, <1>3, <2>1
<1>5. CASE fallbackEnabled'
  <2>1. Fits(fallbackStore'[b], limit, k')
    BY <1>1, <1>2, <1>3, <1>5, FitsRules
  <2>. QED  BY <1>1, <1>4, <1>5, <2>1 DEF RoomFor, k
<1>6. CASE ~fallbackEnabled'
  <2>1. Fits(redisCount'[b], limit, k')
    BY <1>1, <1>2, <1>3, <1>6, FitsRules
  <2>2. fallbackStore'[b] = 0
    BY <1>6 DEF RoomFor
  <2>. QED  BY <1>1, <1>6, <2>1, <2>2 DEF RoomFor, k
<1>. QED  BY <1>5, <1>6

\* The attempt of a pending caller takes the room that was kept for it (throttle.ts 76-103).
LEMMA RoomRecorded ==
  ASSUME TypeOK, TypeOK', risk' = risk, risk.maxAttemptsPerBorrowerHour > 0,
         NEW c \in Callers, Records(c), NEW b \in Borrowers, borrowerOf[c] = b, RoomFor(b)
  PROVE  RoomFor(b)'
<1>. DEFINE limit == risk.maxAttemptsPerBorrowerHour
            k == Cardinality(Pending(b))
<1>1. limit \in Nat \ {0} /\ limit' = limit
  BY OrchestratorAssumption DEF TypeOK
<1>2. redisCount[b] \in Nat /\ fallbackStore[b] \in Nat
  BY DEF TypeOK, ThrottleTypeOK
<1>3. k \in 0..N /\ k > 0 /\ k' = k - 1 /\ N \in Nat \ {0}
  <2>1. c \in Pending(b) /\ loc'[c] \notin Examining /\ Quiet(c)
    BY DEF Records, Pending
  <2>. QED  BY <2>1, QuietPending, PendingCounted, CallersCounted
<1>4. /\ Plus(redisCount, b)[b] = redisCount[b] + 1
      /\ Plus(fallbackStore, b)[b] = fallbackStore[b] + 1
  BY DEF Plus, TypeOK, ThrottleTypeOK
<1>5. \/ /\ ~fallbackEnabled /\ ~fallbackEnabled'
         /\ redisCount'[b] = redisCount[b] + 1 /\ fallbackStore'[b] = fallbackStore[b]
      \/ /\ ~fallbackEnabled /\ fallbackEnabled'
         /\ redisCount'[b] = redisCount[b] \/ redisCount'[b] = redisCount[b] + 1
         /\ fallbackStore'[b] = fallbackStore[b] + 1
      \/ /\ fallbackEnabled /\ fallbackEnabled'
         /\ redisCount'[b] = redisCount[b] /\ fallbackStore'[b] = fallbackStore[b] + 1
  BY <1>4 DEF Records, RecordAttempt, TypeOK, ThrottleTypeOK
<1>. HIDE DEF limit, k
<1>6. CASE ~fallbackEnabled
  <2>1. Fits(redisCount[b], limit, k) /\ fallbackStore[b] = 0
    BY <1>6 DEF RoomFor, limit, k
  <2>2. Fits(redisCount[b] + 1, limit, k') /\ Fits(redisCount[b], limit, k')
    BY <1>1, <1>2, <1>3, <2>1, FitsRules
  <2>3. Fits(0, limit, k)
    BY <1>1, <1>3, FitsRules
  <2>4. Fits(0 + 1, limit, k')
    BY <1>1, <1>3, <2>3, FitsRules
  <2>5. redisCount'[b] <= limit + (N - 1)
    BY <1>5, <1>6, <2>2 DEF Fits
  <2>6. CASE fallbackEnabled'
    <3>1. fallbackStore'[b] = 0 + 1
      BY <1>5, <1>6, <2>1, <2>6
    <3>. QED  BY <1>1, <2>4, <2>5, <2>6, <3>1 DEF RoomFor, limit, k
  <2>7. CASE ~fallbackEnabled'
    BY <1>1, <1>5, <1>6, <2>1, <2>2, <2>7 DEF RoomFor, limit, k
  <2>. QED  BY <2>6, <2>7
<1>7. CASE fallbackEnabled
  <2>1. Fits(fallbackStore[b], limit, k) /\ redisCount[b] <= limit + (N - 1)
    BY <1>7 DEF RoomFor, limit, k
  <2>2. Fits(fallbackStore[b] + 1, limit, k')
    BY <1>1, <1>2, <1>3, <2>1, FitsRules
  <2>. QED  BY <1>1, <1>5, <1>7, <2>1, <2>2 DEF RoomFor, limit, k
<1>. QED  BY <1>6, <1>7

\* A step that grows no store and lets nobody come to be pending.
LEMMA RoomQuiet ==
  ASSUME TypeOK, TypeOK', risk' = risk, risk.maxAttemptsPerBorrowerHour > 0,
         NEW c \in Callers, Quiet(c), NEW b \in Borrowers, RoomFor(b),
         redisCount'[b] <= redisCount[b], fallbackStore'[b] <= fallbackStore[b],
         fallbackEnabled => fallbackEnabled'
  PROVE  RoomFor(b)'
BY QuietPending, RoomKept

\* No step overruns the throttle by more than the other callers (orchestrator.ts 643-683,
\* 849, 865, 1064), whatever Redis does.
LEMMA ThrottleStep ==
  ASSUME TypeOK, TypeOK', ThrottleInv, [Next]_vars
  PROVE  ThrottleInv'
<1>. DEFINE limit == risk.maxAttemptsPerBorrowerHour
<1>0. risk' = risk
  BY Shapes DEF Stays, Leaves, Passes, counted, Broadcast, AnswerArrives, AnswerLost, SentRowWritten
<1>1. SUFFICES ASSUME ~risk.dryRun, limit > 0, NEW b \in Borrowers
               PROVE  RoomFor(b)'
  BY <1>0 DEF ThrottleInv
<1>2. RoomFor(b)
  BY <1>1 DEF ThrottleInv
<1>3. /\ limit \in Nat \ {0}
      /\ redisCount[b] \in Nat /\ fallbackStore[b] \in Nat
  BY <1>1, OrchestratorAssumption DEF TypeOK, ThrottleTypeOK
<1>4. ASSUME NEW c \in Callers, Quiet(c), UNCHANGED throttleVars
      PROVE  RoomFor(b)'
  BY <1>0, <1>1, <1>2, <1>3, <1>4, RoomQuiet DEF throttleVars
<1>5. ASSUME NEW c \in Callers, UNCHANGED <<loc, borrowerOf>>
      PROVE  Quiet(c)
  BY <1>5 DEF Quiet
<1>6. ASSUME NEW c \in Callers, CheckThrottle(c)
      PROVE  RoomFor(b)'
  <2>1. CASE IsThrottled(borrowerOf[c], limit, TRUE) /\ (Goto(c, "bypass") \/ Goto(c, "row"))
    <3>1. Quiet(c)
      BY <2>1 DEF Goto, Quiet, Examining, TypeOK
    <3>2. /\ UNCHANGED <<redisCount, fallbackStore>>
          /\ fallbackEnabled => fallbackEnabled'
      BY <2>1 DEF IsThrottled, throttleVars
    <3>. QED  BY <1>0, <1>1, <1>2, <1>3, <3>1, <3>2, RoomQuiet
  <2>2. CASE IsThrottled(borrowerOf[c], limit, FALSE) /\ Goto(c, "examine")
    <3>1. UNCHANGED <<redisCount, fallbackStore>> /\ (fallbackEnabled => fallbackEnabled')
      BY <2>2 DEF IsThrottled, throttleVars
    <3>2. CASE borrowerOf[c] = b
      <4>1. \/ fallbackEnabled' /\ ~(fallbackStore[b] >= limit)
            \/ ~fallbackEnabled' /\ ~fallbackEnabled /\ ~(redisCount[b] >= limit)
        BY <2>2, <3>2 DEF IsThrottled, throttleVars
      <4>. QED  BY <1>0, <1>1, <1>2, <1>3, <3>1, <4>1, RoomBelow
    <3>3. CASE borrowerOf[c] # b
      <4>1. Pending(b)' = Pending(b)
        BY <2>2, <3>3 DEF Goto, Pending, TypeOK
      <4>. QED  BY <1>0, <1>1, <1>2, <1>3, <3>1, <4>1, RoomKept
    <3>. QED  BY <3>2, <3>3
  <2>. QED  BY <1>6, <2>1, <2>2 DEF CheckThrottle
<1>7. ASSUME NEW c \in Callers, LiftThrottle(c)
      PROVE  RoomFor(b)'
  <2>1. CASE borrowerOf[c] = b
    <3>1. Zeroed(redisCount, b)[b] = 0 /\ Zeroed(fallbackStore, b)[b] = 0
      BY DEF Zeroed, TypeOK, ThrottleTypeOK
    <3>2. \/ fallbackEnabled' /\ fallbackStore'[b] = 0
          \/ /\ ~fallbackEnabled' /\ ~fallbackEnabled
             /\ redisCount'[b] = 0 /\ fallbackStore' = fallbackStore
      BY <1>7, <2>1, <3>1 DEF LiftThrottle, ResetThrottle
    <3>3. redisCount'[b] <= redisCount[b]
      BY <1>3, <1>7, <2>1, <3>1 DEF LiftThrottle, ResetThrottle
    <3>. QED  BY <1>0, <1>1, <1>2, <1>3, <3>2, <3>3, RoomBelow
  <2>2. CASE borrowerOf[c] # b
    <3>1. Pending(b)' = Pending(b)
      BY <1>7, <2>2 DEF LiftThrottle, Goto, Pending, TypeOK
    <3>2. /\ Zeroed(redisCount, borrowerOf[c])[b] = redisCount[b]
          /\ Zeroed(fallbackStore, borrowerOf[c])[b] = fallbackStore[b]
      BY <2>2 DEF Zeroed, TypeOK, ThrottleTypeOK
    <3>3. redisCount'[b] = redisCount[b] /\ fallbackStore'[b] = fallbackStore[b]
      BY <1>7, <3>2 DEF LiftThrottle, ResetThrottle
    <3>4. fallbackEnabled => fallbackEnabled'
      BY <1>7 DEF LiftThrottle, ResetThrottle
    <3>. QED  BY <1>0, <1>1, <1>2, <1>3, <3>1, <3>3, <3>4, RoomKept
  <2>. QED  BY <2>1, <2>2
<1>8. ASSUME NEW c \in Callers, Records(c)
      PROVE  RoomFor(b)'
  <2>1. CASE borrowerOf[c] = b
    BY <1>0, <1>1, <1>2, <1>8, <2>1, RoomRecorded
  <2>2. CASE borrowerOf[c] # b
    <3>1. /\ Plus(redisCount, borrowerOf[c])[b] = redisCount[b]
          /\ Plus(fallbackStore, borrowerOf[c])[b] = fallbackStore[b]
      BY <2>2 DEF Plus, TypeOK, ThrottleTypeOK
    <3>2. redisCount'[b] = redisCount[b] /\ fallbackStore'[b] = fallbackStore[b]
      BY <1>8, <3>1 DEF Records, RecordAttempt
    <3>3. Quiet(c) /\ (fallbackEnabled => fallbackEnabled')
      BY <1>8 DEF Records, RecordAttempt
    <3>. QED  BY <1>0, <1>1, <1>2, <1>3, <3>2, <3>3, RoomQuiet
  <2>. QED  BY <2>1, <2>2
<1>9. ASSUME NEW c \in Callers, NEW d \in Borrowers, TakeCandidate(c, d)
      PROVE  RoomFor(b)'
  <2>1. Quiet(c) /\ UNCHANGED throttleVars
    BY <1>9 DEF TakeCandidate, At, Exit, Goto, Quiet, Examining, callerVars, TypeOK
  <2>. QED  BY <1>4, <2>1
<1>10. CASE Environment \/ UNCHANGED vars
  <2>1. PICK c \in Callers : TRUE
    BY OrchestratorAssumption
  <2>2. Quiet(c)
    BY <1>5, <1>10, <2>1 DEF Environment, OperatorActs, KillPollDue, ThrottleWindowExpires,
                      AlertCooldownEnds, callerVars, vars
  <2>3. CASE UNCHANGED throttleVars
    BY <1>4, <2>2, <2>3
  <2>4. ASSUME NEW d \in Borrowers, WindowExpires(d)
        PROVE  RoomFor(b)'
    <3>1. /\ Zeroed(redisCount, d)[b] \in {0, redisCount[b]}
          /\ Zeroed(fallbackStore, d)[b] \in {0, fallbackStore[b]}
      BY DEF Zeroed, TypeOK, ThrottleTypeOK
    <3>2. redisCount'[b] \in {0, redisCount[b]} /\ fallbackStore'[b] \in {0, fallbackStore[b]}
      BY <2>4, <3>1 DEF WindowExpires
    <3>3. fallbackEnabled' = fallbackEnabled
      BY <2>4 DEF WindowExpires
    <3>. QED  BY <1>0, <1>1, <1>2, <1>3, <2>2, <3>2, <3>3, RoomQuiet
  <2>. QED  BY <1>10, <2>3, <2>4 DEF Environment, OperatorActs, KillPollDue,
                     ThrottleWindowExpires, AlertCooldownEnds, vars, throttleVars
<1>11. ASSUME NEW c \in Callers, Proceed(c)
       PROVE  RoomFor(b)'
  BY <1>1, <1>4, <1>6, <1>7, <1>8, <1>11, ThrottleShapes
<1>. QED  BY <1>9, <1>10, <1>11 DEF Next
-----------------------------------------------------------------------------
(* The theorems. *)

Inv == TypeOK /\ WireAccounted /\ CapInv /\ NotionalInv /\ ThrottleInv

\* Inv holds throughout every behaviour.
THEOREM Invariant == Spec => []Inv
<1>1. ASSUME Init
      PROVE  Inv
  <2>1. TypeOK
    BY <1>1, InitTypes
  <2>2. \A L : "idle" \notin L => Those(L) = {}
    BY <1>1 DEF Init, Those
  <2>3. WireAccounted
    BY <1>1, <2>2, FS_EmptySet DEF Init, WireAccounted, InFlight, Those, OnTheWire
  <2>4. CapInv
    BY <1>1, OrchestratorAssumption DEF Init, CapInv
  <2>5. NotionalInv
    <3>1. Those(Spending) = {}
      BY <2>2 DEF Spending, OnTheWire
    <3>2. Slack(N - 1) \in Nat
      BY CallersCounted, SlackGrows
    <3>3. risk.maxSessionNotionalUsd \in Nat /\ sessionNotionalUsd = 0
      BY <1>1, OrchestratorAssumption DEF Init
    <3>. QED  BY <3>1, <3>2, <3>3 DEF NotionalInv
  <2>6. ThrottleInv
    <3>1. SUFFICES ASSUME risk.maxAttemptsPerBorrowerHour > 0, NEW b \in Borrowers
                   PROVE  RoomFor(b)
      BY DEF ThrottleInv
    <3>2. risk.maxAttemptsPerBorrowerHour \in Nat \ {0}
      BY <1>1, <3>1, OrchestratorAssumption DEF Init
    <3>3. redisCount[b] = 0 /\ fallbackStore[b] = 0
      BY <1>1 DEF Init, ThrottleInit
    <3>4. Fits(0, risk.maxAttemptsPerBorrowerHour, Cardinality(Pending(b)))
      BY <3>2, PendingCounted, FitsRules
    <3>5. 0 <= risk.maxAttemptsPerBorrowerHour + (N - 1)
      BY <3>2, CallersCounted
    <3>. QED  BY <3>3, <3>4, <3>5 DEF RoomFor
  <2>. QED  BY <2>1, <2>3, <2>4, <2>5, <2>6 DEF Inv
<1>2. Inv /\ [Next]_vars => Inv'
  BY TypeStep, WireStep, CapStep, NotionalStep, ThrottleStep DEF Inv
<1>. QED  BY <1>1, <1>2, PTL DEF Spec

\* Every variable keeps its type, for all callers, agents, borrowers and bounds.
THEOREM TypeCorrect == Spec => []TypeOK
<1>1. Inv => TypeOK
  BY DEF Inv
<1>. QED  BY Invariant, <1>1, PTL

\* Every transaction on the wire is counted, lost, or in the hands of a caller
\* (orchestrator.ts 1179-1211).
THEOREM WireCorrect == Spec => []WireAccounted
<1>1. Inv => WireAccounted
  BY DEF Inv
<1>. QED  BY Invariant, <1>1, PTL

\* The count never passes maxLiveExecutions (orchestrator.ts 1081-1088, 1210-1249).
THEOREM CountCorrect == Spec => []CountWithinCap
<1>1. Inv => CountWithinCap
  BY DEF Inv, CapInv, CountWithinCap
<1>. QED  BY Invariant, <1>1, PTL

\* The network sees no more transactions than the cap, the other callers and the lost
\* answers together (orchestrator.ts 1081, 1210).
THEOREM BroadcastsCorrect == Spec => []BroadcastsBounded
<1>1. ASSUME Inv
      PROVE  BroadcastsBounded
  <2>1. SUFFICES ASSUME risk.maxLiveExecutions > 0
                 PROVE  broadcasts <= risk.maxLiveExecutions + lostAnswers + (N - 1)
    BY DEF BroadcastsBounded, N
  <2>2. /\ broadcasts \in Nat /\ plansSentCount \in Nat /\ lostAnswers \in Nat
        /\ risk.maxLiveExecutions \in Nat
        /\ broadcasts = plansSentCount + lostAnswers + Cardinality(InFlight)
    BY <1>1, OrchestratorAssumption DEF Inv, TypeOK, WireAccounted
  <2>3. /\ Cardinality(InFlight) \in Nat /\ Cardinality(InFlight) <= N /\ N \in Nat \ {0}
        /\ \A c \in Callers : loc[c] \notin OnTheWire => Cardinality(InFlight) <= N - 1
    BY SomeOf, CallersCounted DEF InFlight
  <2>4. CASE plansSentCount < risk.maxLiveExecutions
    BY <2>2, <2>3, <2>4
  <2>5. CASE ~(plansSentCount < risk.maxLiveExecutions)
    <3>1. /\ plansSentCount <= risk.maxLiveExecutions
          /\ plansSentCount = risk.maxLiveExecutions =>
               \E c \in Callers : loc[c] \notin OnTheWire
      BY <1>1, <2>1 DEF Inv, CapInv
    <3>2. plansSentCount = risk.maxLiveExecutions
      BY <2>2, <2>5, <3>1
    <3>. QED  BY <2>2, <2>3, <3>1, <3>2
  <2>. QED  BY <2>4, <2>5
<1>. QED  BY Invariant, <1>1, PTL

\* The session notional is overrun by one plan of each other caller at most
\* (orchestrator.ts 1090, 1211).
THEOREM NotionalCorrect == Spec => []NotionalBounded
<1>1. Inv => NotionalBounded
  BY DEF Inv, NotionalInv, NotionalBounded, Slack, N
<1>. QED  BY Invariant, <1>1, PTL

\* A store passes the hourly limit by the other callers at most, whenever Redis fails and
\* whoever lifts the throttle (orchestrator.ts 643-683, 1064).
THEOREM ThrottleCorrect == Spec => []ThrottleBounded
<1>1. ASSUME Inv
      PROVE  ThrottleBounded
  <2>1. SUFFICES ASSUME ~risk.dryRun, risk.maxAttemptsPerBorrowerHour > 0, NEW b \in Borrowers
                 PROVE  /\ redisCount[b] <= risk.maxAttemptsPerBorrowerHour + (N - 1)
                        /\ fallbackStore[b] <= risk.maxAttemptsPerBorrowerHour + (N - 1)
    BY DEF ThrottleBounded, N
  <2>2. RoomFor(b)
    BY <1>1, <2>1 DEF Inv, ThrottleInv
  <2>3. 0 <= risk.maxAttemptsPerBorrowerHour + (N - 1)
    BY <1>1, CallersCounted, OrchestratorAssumption DEF Inv, TypeOK
  <2>. QED  BY <2>2, <2>3 DEF RoomFor, Fits
<1>. QED  BY Invariant, <1>1, PTL
=============================================================================

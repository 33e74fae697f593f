------------------------ MODULE PipelineRunnerProofs ------------------------
(***************************************************************************)
(* Proofs about PipelineRunner, for every queue content, every set of risk   *)
(* configurations and every bound.                                           *)
(***************************************************************************)
EXTENDS PipelineRunner, SequenceTheorems, TLAPS
-----------------------------------------------------------------------------
(* What the calls of AsyncQueue keep. *)

\* push() hands out or buffers the item, or drops it, but keeps the types.
LEMMA PushType ==
  ASSUME QueueTypeOK, NEW x \in Items, Push(x)
  PROVE  QueueTypeOK'
<1>1. CASE closed /\ UNCHANGED queueVars
  BY <1>1 DEF QueueTypeOK, queueVars
<1>2. CASE /\ ~closed
           /\ resolvers # <<>>
           /\ delivered' = [delivered EXCEPT ![Head(resolvers)] = x]
           /\ resolvers' = Tail(resolvers)
           /\ UNCHANGED <<items, closed>>
  <2>1. Head(resolvers) \in Consumers /\ Tail(resolvers) \in Seq(Consumers)
    BY <1>2, HeadTailProperties DEF QueueTypeOK
  <2>. QED  BY <1>2, <2>1 DEF QueueTypeOK
<1>3. CASE /\ ~closed
           /\ resolvers = <<>>
           /\ items' = Append(items, x)
           /\ UNCHANGED <<resolvers, closed, delivered>>
  <2>1. Append(items, x) \in Seq(Items)
    BY AppendProperties DEF QueueTypeOK
  <2>. QED  BY <1>3, <2>1 DEF QueueTypeOK
<1>. QED  BY <1>1, <1>2, <1>3 DEF Push

\* close() gives Done to the parked consumers only.
LEMMA CloseType ==
  ASSUME QueueTypeOK, Close
  PROVE  QueueTypeOK'
<1>1. CASE closed /\ UNCHANGED queueVars
  BY <1>1 DEF QueueTypeOK, queueVars
<1>2. CASE ~closed
  <2>1. <<>> \in Seq(Consumers)
    BY EmptySeq
  <2>2. delivered' \in [Consumers -> Items \cup {Nothing, Done}]
    <3>. DEFINE woken(c) == \E i \in DOMAIN resolvers : resolvers[i] = c
    <3>1. delivered' = [c \in Consumers |-> IF woken(c) THEN Done ELSE delivered[c]]
      BY <1>2 DEF Close
    <3>. HIDE DEF woken
    <3>. QED  BY <3>1 DEF QueueTypeOK
  <2>. QED  BY <1>2, <2>1, <2>2 DEF QueueTypeOK, Close
<1>. QED  BY <1>1, <1>2 DEF Close

\* next() takes the head, answers Done or parks its caller.
LEMMA CallNextType ==
  ASSUME QueueTypeOK, NEW c \in Consumers, CallNext(c)
  PROVE  QueueTypeOK'
<1>1. CASE items # <<>>
  <2>1. Head(items) \in Items /\ Tail(items) \in Seq(Items)
    BY <1>1, HeadTailProperties DEF QueueTypeOK
  <2>. QED  BY <1>1, <2>1 DEF QueueTypeOK, CallNext
<1>2. CASE items = <<>> /\ closed
  BY <1>2 DEF QueueTypeOK, CallNext
<1>3. CASE items = <<>> /\ ~closed
  <2>1. Append(resolvers, c) \in Seq(Consumers)
    BY AppendProperties DEF QueueTypeOK
  <2>. QED  BY <1>3, <2>1 DEF QueueTypeOK, CallNext
<1>. QED  BY <1>1, <1>2, <1>3 DEF CallNext

\* A consumer that resumes gives up the value of its promise.
LEMMA ResumeType ==
  ASSUME QueueTypeOK, NEW c \in Consumers, NEW v, Resume(c, v)
  PROVE  QueueTypeOK'
BY DEF QueueTypeOK, Resume, queueVars
-----------------------------------------------------------------------------
(* The inductive invariant. *)

\* From the hand-over to the last row there is a borrower in hand, and from the
\* plan to the send a live plan's amount.
HandFilled ==
  /\ pc \in Examining \cup {"loop", "send", "attemptRow", "errorRow", "alert"}
       => borrower \in Borrowers
  /\ pc \in {"sequencerPreSend", "inventory", "recordAttempt", "caps", "send"}
       => repayUsd \in RepayUsd /\ ~risk.dryRun

\* What is being sent still fits under both caps: nothing is counted meanwhile.
SendFits ==
  pc = "send" => ~LiveExecutionCapHit /\ ~SessionNotionalCapHit

\* The loop is parked exactly while it waits without an answer.
QueueShape ==
  /\ pc # "resume" => delivered[Runner] = Nothing
  /\ pc = "resume" /\ delivered[Runner] = Nothing =>
       resolvers = <<Runner>> /\ items = <<>> /\ ~closed
  /\ ~(pc = "resume" /\ delivered[Runner] = Nothing) => resolvers = <<>>

\* Where isThrottled said no, the store in use has room for one more attempt;
\* the in-memory map is empty until it is in use.
Unthrottled == {"sequencerPreSim", "score", "sequencerPreSend", "inventory", "recordAttempt"}
ThrottleRoom ==
  /\ ~fallbackEnabled => \A b \in Borrowers : fallbackStore[b] = 0
  /\ ~risk.dryRun /\ risk.maxAttemptsPerBorrowerHour > 0 /\ pc \in Unthrottled =>
       IF fallbackEnabled
       THEN fallbackStore[borrower] < risk.maxAttemptsPerBorrowerHour
       ELSE redisCount[borrower] < risk.maxAttemptsPerBorrowerHour

\* With auto-stop no alert is pending for a run that goes on.
AlertArmed == risk.autoStop /\ running /\ pc # "alert" => alertReady

SafeInv == CapsHold /\ SendFits /\ QueueShape
RateInv == ThrottleHolds /\ ThrottleRoom
StopInv == AutoStopHolds /\ AlertArmed
Inv == TypeOK /\ HandFilled /\ SafeInv /\ RateInv /\ StopInv
-----------------------------------------------------------------------------
(* Type correctness. *)

\* stop() of the watchers keeps the types.
LEMMA StopWatchersType ==
  ASSUME QueueTypeOK, aborted \in BOOLEAN, StopWatchers
  PROVE  QueueTypeOK' /\ aborted' \in BOOLEAN
<1>1. CASE aborted /\ UNCHANGED <<aborted, queueVars>>
  BY <1>1 DEF QueueTypeOK, queueVars
<1>2. CASE ~aborted /\ aborted' = TRUE /\ Close
  BY <1>2, CloseType
<1>. QED  BY <1>1, <1>2 DEF StopWatchers

\* Closing the queue and stopping the watchers keep the types of both (watchers.ts 53-58).
LEMMA StopType ==
  ASSUME QueueTypeOK, aborted \in BOOLEAN, running \in BOOLEAN, Stop
  PROVE  QueueTypeOK' /\ aborted' \in BOOLEAN /\ running' \in BOOLEAN
<1>1. CASE ~running /\ UNCHANGED <<running, aborted, queueVars>>
  BY <1>1 DEF QueueTypeOK, queueVars
<1>2. CASE running /\ running' = FALSE /\ StopWatchers
  BY <1>2, StopWatchersType
<1>. QED  BY <1>1, <1>2 DEF Stop

\* A step that leaves every variable alone keeps every type.
LEMMA UnchangedTypes ==
  /\ QueueTypeOK /\ UNCHANGED queueVars => QueueTypeOK'
  /\ KillTypeOK /\ UNCHANGED killVars => KillTypeOK'
  /\ ThrottleTypeOK /\ UNCHANGED throttleVars => ThrottleTypeOK'
BY DEF QueueTypeOK, queueVars, KillTypeOK, killVars, ThrottleTypeOK, throttleVars

\* The kill switch and the throttle keep their types.
LEMMA KillSwitchTypes ==
  /\ \A active : KillTypeOK /\ IsKillSwitchActive(active) => KillTypeOK'
  /\ KillTypeOK /\ PollIntervalElapses => KillTypeOK'
  /\ KillTypeOK /\ OperatorToggles => KillTypeOK'
BY DEF KillTypeOK, killVars, IsKillSwitchActive, PollIntervalElapses, OperatorToggles

\* No call of the throttle leaves the types of its stores (throttle.ts 57-117).
LEMMA ThrottleTypes ==
  ASSUME ThrottleTypeOK
  PROVE  /\ \A b, limit, throttled : IsThrottled(b, limit, throttled) => ThrottleTypeOK'
         /\ \A b \in Borrowers : RecordAttempt(b) => ThrottleTypeOK'
         /\ \A b \in Borrowers : WindowExpires(b) => ThrottleTypeOK'
<1>1. ASSUME NEW b, NEW limit, NEW throttled, IsThrottled(b, limit, throttled)
      PROVE  ThrottleTypeOK'
  BY <1>1 DEF ThrottleTypeOK, throttleVars, IsThrottled
<1>2. ASSUME NEW b \in Borrowers, RecordAttempt(b)
      PROVE  ThrottleTypeOK'
  <2>1. redisCount[b] + 1 \in Nat /\ fallbackStore[b] + 1 \in Nat
    BY DEF ThrottleTypeOK
  <2>. QED  BY <1>2, <2>1 DEF ThrottleTypeOK, RecordAttempt, Plus
<1>3. ASSUME NEW b \in Borrowers, WindowExpires(b)
      PROVE  ThrottleTypeOK'
  BY <1>3 DEF ThrottleTypeOK, WindowExpires, Zeroed
<1>. QED  BY <1>1, <1>2, <1>3

\* Every step keeps the types.
LEMMA TypeNext ==
  ASSUME TypeOK, HandFilled, [Next]_vars
  PROVE  TypeOK'
<1>1. CASE \E b \in Borrowers : StreamCandidate(b) \/ PollCandidate(b)
  BY <1>1, RunnerAssumption, UnchangedTypes, PushType
  DEF TypeOK, StreamCandidate, PollCandidate, watcherVars, handVars, sessionVars
<1>2. CASE StreamEnds
  BY <1>2, RunnerAssumption, UnchangedTypes, CloseType
  DEF TypeOK, StreamEnds, watcherVars, handVars, sessionVars, Locations, Examining, Goto
<1>3. CASE Signal
  BY <1>3, RunnerAssumption, UnchangedTypes, StopType
  DEF TypeOK, Signal, watcherVars, handVars, sessionVars, Locations, Examining, Goto
<1>4. CASE OperatorActs
  BY <1>4, RunnerAssumption, UnchangedTypes, KillSwitchTypes
  DEF TypeOK, OperatorActs, watcherVars, handVars, sessionVars, Locations, Examining, Goto
<1>5. CASE KillPollDue
  BY <1>5, RunnerAssumption, UnchangedTypes, KillSwitchTypes
  DEF TypeOK, KillPollDue, watcherVars, handVars, sessionVars, Locations, Examining, Goto
<1>6. CASE ThrottleWindowExpires
  BY <1>6, RunnerAssumption, UnchangedTypes, ThrottleTypes
  DEF TypeOK, ThrottleWindowExpires, watcherVars, handVars, sessionVars, Locations, Examining, Goto
<1>7. CASE AlertCooldownEnds
  BY <1>7, RunnerAssumption, UnchangedTypes
  DEF TypeOK, AlertCooldownEnds, watcherVars, handVars, sessionVars, Locations, Examining, Goto
<1>8. CASE AskNext
  BY <1>8, RunnerAssumption, UnchangedTypes, CallNextType
  DEF TypeOK, AskNext, watcherVars, handVars, sessionVars, Locations, Examining, Goto
<1>9. CASE TakeCandidate
  BY <1>9, RunnerAssumption, UnchangedTypes, ResumeType
  DEF TypeOK, TakeCandidate, watcherVars, handVars, sessionVars, Locations, Examining, Goto
<1>10. CASE QueueEnds
  BY <1>10, RunnerAssumption, UnchangedTypes, ResumeType
  DEF TypeOK, QueueEnds, watcherVars, handVars, sessionVars, Locations, Examining, Goto
<1>11. CASE Break
  BY <1>11, RunnerAssumption, UnchangedTypes
  DEF TypeOK, Break, watcherVars, handVars, sessionVars, Locations, Examining, Goto
<1>12. CASE MainFinally
  BY <1>12, RunnerAssumption, UnchangedTypes, StopWatchersType
  DEF TypeOK, MainFinally, watcherVars, handVars, sessionVars, Locations, Examining, Goto
<1>13. CASE HandleCandidate
  BY <1>13, RunnerAssumption, UnchangedTypes, KillSwitchTypes, StopType
  DEF TypeOK, HandleCandidate, watcherVars, handVars, sessionVars, Locations, Examining, Goto, Finish
<1>14. CASE CheckThrottle
  BY <1>14, RunnerAssumption, UnchangedTypes, ThrottleTypes
  DEF TypeOK, CheckThrottle, watcherVars, handVars, sessionVars, Locations, Examining, Goto, Drop
<1>15. CASE SequencerPreSim
  BY <1>15, RunnerAssumption, UnchangedTypes
  DEF TypeOK, SequencerPreSim, watcherVars, handVars, sessionVars, Locations, Examining, Goto
<1>16. CASE Score
  BY <1>16, RunnerAssumption, UnchangedTypes
  DEF TypeOK, Score, watcherVars, handVars, sessionVars, Locations, Examining, Goto, Drop, Finish
<1>17. CASE SequencerPreSend
  BY <1>17, RunnerAssumption, UnchangedTypes
  DEF TypeOK, SequencerPreSend, watcherVars, handVars, sessionVars, Locations, Examining, Goto
<1>18. CASE UpdateInventoryMode
  BY <1>18, RunnerAssumption, UnchangedTypes
  DEF TypeOK, UpdateInventoryMode, watcherVars, handVars, sessionVars, Locations, Examining, Goto
<1>19. CASE RecordThrottleAttempt
  BY <1>19, RunnerAssumption, UnchangedTypes, ThrottleTypes
  DEF TypeOK, HandFilled, RecordThrottleAttempt, watcherVars, handVars, sessionVars, Locations, Examining, Goto
<1>20. CASE CheckCaps
  BY <1>20, RunnerAssumption, UnchangedTypes, StopType
  DEF TypeOK, CheckCaps, watcherVars, handVars, sessionVars, Locations, Examining, Goto, Finish
<1>21. CASE SendSucceeds
  BY <1>21, RunnerAssumption, UnchangedTypes
  DEF TypeOK, SendSucceeds, watcherVars, handVars, sessionVars, Locations, Examining, Goto
<1>22. CASE SendRecovered
  BY <1>22, RunnerAssumption, UnchangedTypes
  DEF TypeOK, SendRecovered, watcherVars, handVars, sessionVars, Locations, Examining, Goto, Drop
<1>23. CASE SendFails
  BY <1>23, RunnerAssumption, UnchangedTypes
  DEF TypeOK, SendFails, watcherVars, handVars, sessionVars, Locations, Examining, Goto
<1>24. CASE JudgeFailRate
  BY <1>24, RunnerAssumption, UnchangedTypes
  DEF TypeOK, JudgeFailRate, watcherVars, handVars, sessionVars, Locations, Examining, Goto, Finish
<1>25. CASE AlertSent
  BY <1>25, RunnerAssumption, UnchangedTypes, StopType
  DEF TypeOK, AlertSent, watcherVars, handVars, sessionVars, Locations, Examining, Goto, Finish
<1>26. CASE AttemptRowWritten
  BY <1>26, RunnerAssumption, UnchangedTypes
  DEF TypeOK, AttemptRowWritten, watcherVars, handVars, sessionVars, Locations, Examining, Goto, Finish
<1>27. CASE UNCHANGED vars
  BY <1>27, UnchangedTypes DEF TypeOK, vars, watcherVars, handVars, sessionVars
<1>. QED
  BY <1>1, <1>2, <1>3, <1>4, <1>5, <1>6, <1>7, <1>8, <1>9, <1>10, <1>11, <1>12, <1>13, <1>14, <1>15, <1>16, <1>17, <1>18, <1>19, <1>20, <1>21, <1>22, <1>23, <1>24, <1>25, <1>26, <1>27 DEF Next, RunnerStep, Environment
-----------------------------------------------------------------------------
(* The candidate in hand. *)

\* Every step keeps the hand filled where the code reads it.
LEMMA HandNext ==
  ASSUME TypeOK, HandFilled, [Next]_vars
  PROVE  HandFilled'
<1>. USE DEF HandFilled, Examining
<1>1. CASE Environment
  BY <1>1 DEF Environment, StreamCandidate, PollCandidate, StreamEnds, Signal, OperatorActs,
     KillPollDue, ThrottleWindowExpires, AlertCooldownEnds, handVars
<1>2. CASE AskNext \/ TakeCandidate \/ QueueEnds \/ Break \/ MainFinally
  BY <1>2, RunnerAssumption
  DEF AskNext, TakeCandidate, QueueEnds, Break, MainFinally, Goto, handVars
<1>3. CASE HandleCandidate \/ CheckThrottle \/ SequencerPreSim \/ Score
  BY <1>3
  DEF HandleCandidate, CheckThrottle, SequencerPreSim, Score, Goto, Drop, Finish, handVars
<1>4. CASE SequencerPreSend \/ UpdateInventoryMode \/ RecordThrottleAttempt \/ CheckCaps
  BY <1>4
  DEF SequencerPreSend, UpdateInventoryMode, RecordThrottleAttempt, CheckCaps, Goto, Finish,
      handVars
<1>5. CASE SendSucceeds \/ SendRecovered \/ SendFails
  BY <1>5 DEF SendSucceeds, SendRecovered, SendFails, Goto, Drop, handVars
<1>6. CASE JudgeFailRate \/ AlertSent \/ AttemptRowWritten
  BY <1>6 DEF JudgeFailRate, AlertSent, AttemptRowWritten, Goto, Finish, handVars
<1>7. CASE UNCHANGED vars
  BY <1>7 DEF vars, handVars
<1>. QED  BY <1>1, <1>2, <1>3, <1>4, <1>5, <1>6, <1>7 DEF Next, RunnerStep
-----------------------------------------------------------------------------
(* The queue and its only consumer. *)

\* push() wakes the loop exactly when it is parked.
LEMMA PushShape ==
  ASSUME TypeOK, QueueShape, NEW x \in Borrowers, Push(x), pc' = pc
  PROVE  QueueShape'
<1>1. CASE resolvers = <<Runner>>
  <2>1. Head(resolvers) = Runner /\ Tail(resolvers) = <<>> /\ resolvers # <<>>
    BY <1>1
  <2>. QED
    BY <1>1, <2>1, QueueAssumption, RunnerAssumption
    DEF QueueShape, Push, queueVars, TypeOK, QueueTypeOK
<1>2. CASE resolvers = <<>>
  <2>1. ~(pc = "resume" /\ delivered[Runner] = Nothing)
    BY <1>2 DEF QueueShape
  <2>. QED  BY <1>2, <2>1 DEF QueueShape, Push, queueVars
<1>. QED  BY <1>1, <1>2 DEF QueueShape

\* close() wakes the loop if it is parked and disturbs nobody else.
LEMMA CloseShape ==
  ASSUME TypeOK, QueueShape, Close \/ UNCHANGED queueVars,
         pc' = pc \/ (pc # "resume" /\ pc' # "resume")
  PROVE  QueueShape'
<1>1. CASE UNCHANGED queueVars
  BY <1>1 DEF QueueShape, queueVars
<1>2. CASE Close /\ ~closed /\ resolvers = <<Runner>>
  <2>1. \E i \in DOMAIN resolvers : resolvers[i] = Runner
    BY <1>2
  <2>2. delivered'[Runner] = Done /\ resolvers' = <<>>
    BY <1>2, <2>1, RunnerAssumption DEF Close
  <2>. QED  BY <1>2, <2>2, QueueAssumption DEF QueueShape
<1>3. CASE Close /\ ~closed /\ resolvers = <<>>
  <2>1. ~(pc = "resume" /\ delivered[Runner] = Nothing)
    BY <1>3 DEF QueueShape
  <2>2. delivered'[Runner] = delivered[Runner] /\ resolvers' = <<>>
    BY <1>3, RunnerAssumption DEF Close
  <2>. QED  BY <2>1, <2>2 DEF QueueShape
<1>. QED  BY <1>1, <1>2, <1>3 DEF QueueShape, Close

\* stop() closes the queue or leaves it alone.
LEMMA StopCloses ==
  ASSUME Stop \/ StopWatchers
  PROVE  Close \/ UNCHANGED queueVars
BY DEF Stop, StopWatchers, queueVars

\* Every step keeps the loop parked exactly while it waits.
LEMMA QueueNext ==
  ASSUME TypeOK, QueueShape, [Next]_vars
  PROVE  QueueShape'
<1>1. CASE \E b \in Borrowers : StreamCandidate(b) \/ PollCandidate(b)
  BY <1>1, PushShape DEF StreamCandidate, PollCandidate
<1>2. CASE StreamEnds \/ Signal \/ OperatorActs \/ KillPollDue \/ ThrottleWindowExpires
        \/ AlertCooldownEnds
  BY <1>2, CloseShape, StopCloses
  DEF StreamEnds, Signal, OperatorActs, KillPollDue, ThrottleWindowExpires, AlertCooldownEnds
<1>3. CASE AskNext
  <2>1. resolvers = <<>> /\ Append(resolvers, Runner) = <<Runner>>
    BY <1>3 DEF AskNext, QueueShape
  <2>2. CASE items = <<>> /\ ~closed
    BY <1>3, <2>1, <2>2 DEF AskNext, CallNext, Goto, QueueShape
  <2>3. CASE items # <<>>
    <3>1. Head(items) \in Items
      BY <2>3, HeadTailProperties DEF TypeOK, QueueTypeOK
    <3>2. delivered'[Runner] # Nothing
      BY <1>3, <2>3, <3>1, QueueAssumption, RunnerAssumption
      DEF AskNext, CallNext, TypeOK, QueueTypeOK
    <3>. QED  BY <1>3, <2>1, <2>3, <3>2 DEF AskNext, CallNext, Goto, QueueShape
  <2>4. CASE items = <<>> /\ closed
    BY <1>3, <2>1, <2>4, QueueAssumption, RunnerAssumption
    DEF AskNext, CallNext, Goto, QueueShape, TypeOK, QueueTypeOK
  <2>. QED  BY <2>2, <2>3, <2>4
<1>4. CASE TakeCandidate \/ QueueEnds
  BY <1>4, RunnerAssumption
  DEF TakeCandidate, QueueEnds, Resume, Goto, QueueShape, TypeOK, QueueTypeOK
<1>5. CASE Break \/ MainFinally \/ HandleCandidate
  BY <1>5, CloseShape, StopCloses
  DEF Break, MainFinally, HandleCandidate, Goto, Finish
<1>6. CASE CheckThrottle \/ SequencerPreSim \/ Score \/ SequencerPreSend
        \/ UpdateInventoryMode \/ RecordThrottleAttempt
  BY <1>6, CloseShape
  DEF CheckThrottle, SequencerPreSim, Score, SequencerPreSend, UpdateInventoryMode,
      RecordThrottleAttempt, Goto, Drop, Finish
<1>7. CASE CheckCaps \/ SendSucceeds \/ SendRecovered \/ SendFails
  BY <1>7, CloseShape, StopCloses
  DEF CheckCaps, SendSucceeds, SendRecovered, SendFails, Goto, Drop, Finish
<1>8. CASE JudgeFailRate \/ AlertSent \/ AttemptRowWritten
  BY <1>8, CloseShape, StopCloses
  DEF JudgeFailRate, AlertSent, AttemptRowWritten, Goto, Finish
<1>9. CASE UNCHANGED vars
  BY <1>9, CloseShape DEF vars
<1>. QED
  BY <1>1, <1>2, <1>3, <1>4, <1>5, <1>6, <1>7, <1>8, <1>9 DEF Next, RunnerStep, Environment
-----------------------------------------------------------------------------
(* The session caps. *)

\* Nothing but a successful send moves the counters, and what is being sent
\* fitted when the caps were checked.
LEMMA CapsNext ==
  ASSUME TypeOK, CapsHold, SendFits, [Next]_vars
  PROVE  CapsHold' /\ SendFits'
<1>. USE DEF LiveExecutionCapHit, SessionNotionalCapHit, CapsHold, SendFits
<1>1. CASE SendSucceeds
  BY <1>1, RunnerAssumption DEF SendSucceeds, Goto, handVars, TypeOK
<1>2. CASE CheckCaps
  BY <1>2 DEF CheckCaps, Goto, Finish, handVars, sessionVars
<1>3. CASE Environment
  BY <1>3 DEF Environment, StreamCandidate, PollCandidate, StreamEnds, Signal, OperatorActs,
     KillPollDue, ThrottleWindowExpires, AlertCooldownEnds, handVars, sessionVars
<1>4. CASE AskNext \/ TakeCandidate \/ QueueEnds \/ Break \/ MainFinally \/ HandleCandidate
  BY <1>4 DEF AskNext, TakeCandidate, QueueEnds, Break, MainFinally, HandleCandidate, Goto,
     Finish, sessionVars
<1>5. CASE CheckThrottle \/ SequencerPreSim \/ Score \/ SequencerPreSend
        \/ UpdateInventoryMode \/ RecordThrottleAttempt
  BY <1>5 DEF CheckThrottle, SequencerPreSim, Score, SequencerPreSend, UpdateInventoryMode,
     RecordThrottleAttempt, Goto, Drop, Finish, sessionVars
<1>6. CASE SendRecovered \/ SendFails \/ JudgeFailRate \/ AlertSent \/ AttemptRowWritten
  BY <1>6 DEF SendRecovered, SendFails, JudgeFailRate, AlertSent, AttemptRowWritten, Goto, Drop,
     Finish, sessionVars
<1>7. CASE UNCHANGED vars
  BY <1>7 DEF vars, handVars, sessionVars
<1>. QED  BY <1>1, <1>2, <1>3, <1>4, <1>5, <1>6, <1>7 DEF Next, RunnerStep
-----------------------------------------------------------------------------
(* The borrower throttle. *)

\* Where the throttle is left alone and no new location claims room, room stays.
LEMMA RateUnchanged ==
  ASSUME ThrottleHolds, ThrottleRoom, UNCHANGED <<throttleVars, risk>>,
         \/ pc' \notin Unthrottled
         \/ pc \in Unthrottled /\ borrower' = borrower
         \/ pc' = "sequencerPreSim" /\ ~(~risk.dryRun /\ risk.maxAttemptsPerBorrowerHour > 0)
  PROVE  ThrottleHolds' /\ ThrottleRoom'
BY DEF ThrottleHolds, ThrottleRoom, throttleVars

\* Every step keeps the recorded attempts within the limit.
LEMMA RateNext ==
  ASSUME TypeOK, HandFilled, ThrottleHolds, ThrottleRoom, [Next]_vars
  PROVE  ThrottleHolds' /\ ThrottleRoom'
<1>1. CASE RecordThrottleAttempt
  <2>1. pc' \notin Unthrottled /\ borrower \in Borrowers /\ risk' = risk
    BY <1>1 DEF RecordThrottleAttempt, Goto, HandFilled, Examining, Unthrottled
  <2>2. CASE ~(~risk.dryRun /\ risk.maxAttemptsPerBorrowerHour > 0)
    BY <1>1, <2>1, <2>2
    DEF RecordThrottleAttempt, RecordAttempt, ThrottleHolds, ThrottleRoom, HandFilled
  <2>3. CASE ~risk.dryRun /\ risk.maxAttemptsPerBorrowerHour > 0
    <3>1. /\ risk.maxAttemptsPerBorrowerHour \in Nat
          /\ \A b \in Borrowers : redisCount[b] \in Nat /\ fallbackStore[b] \in Nat
      BY RunnerAssumption DEF TypeOK, ThrottleTypeOK
    <3>2. IF fallbackEnabled
          THEN fallbackStore[borrower] < risk.maxAttemptsPerBorrowerHour
          ELSE redisCount[borrower] < risk.maxAttemptsPerBorrowerHour
      BY <1>1, <2>3 DEF RecordThrottleAttempt, ThrottleRoom, Unthrottled
    <3>. QED
      BY <1>1, <2>1, <2>3, <3>1, <3>2
      DEF RecordThrottleAttempt, RecordAttempt, Plus, ThrottleHolds, ThrottleRoom, TypeOK,
          ThrottleTypeOK
  <2>. QED  BY <2>2, <2>3
<1>2. CASE CheckThrottle
  <2>1. borrower \in Borrowers /\ pc \notin Unthrottled
    BY <1>2 DEF CheckThrottle, HandFilled, Examining, Unthrottled
  <2>2. CASE pc' = "sequencerPreSim" /\ borrower' = borrower
    <3>1. IsThrottled(borrower, risk.maxAttemptsPerBorrowerHour, FALSE)
      BY <1>2, <2>2 DEF CheckThrottle, Drop, Goto
    <3>2. CASE ~fallbackEnabled /\ UNCHANGED throttleVars
      <4>1. ~(redisCount[borrower] >= risk.maxAttemptsPerBorrowerHour)
        BY <3>1, <3>2 DEF IsThrottled, throttleVars
      <4>. QED
        BY <1>2, <2>1, <2>2, <3>2, <4>1, RunnerAssumption
        DEF CheckThrottle, ThrottleHolds, ThrottleRoom, throttleVars, TypeOK, ThrottleTypeOK
    <3>3. CASE fallbackEnabled' = TRUE /\ UNCHANGED <<redisCount, fallbackStore>>
      <4>1. ~(fallbackStore[borrower] >= risk.maxAttemptsPerBorrowerHour)
        BY <3>1, <3>3 DEF IsThrottled, throttleVars
      <4>. QED
        BY <1>2, <2>1, <2>2, <3>3, <4>1, RunnerAssumption
        DEF CheckThrottle, ThrottleHolds, ThrottleRoom, TypeOK, ThrottleTypeOK
    <3>. QED  BY <3>1, <3>2, <3>3 DEF IsThrottled
  <2>3. CASE pc' = "attemptRow"
    BY <1>2, <2>3
    DEF CheckThrottle, IsThrottled, ThrottleHolds, ThrottleRoom, throttleVars, Unthrottled
  <2>. QED  BY <1>2, <2>2, <2>3 DEF CheckThrottle, Drop, Goto, handVars
<1>3. CASE ThrottleWindowExpires
  <2>1. PICK b \in Borrowers : WindowExpires(b)
    BY <1>3 DEF ThrottleWindowExpires
  <2>2. UNCHANGED <<fallbackEnabled, risk, pc, borrower>>
    BY <1>3, <2>1 DEF ThrottleWindowExpires, WindowExpires, handVars
  <2>3. \A c \in Borrowers : /\ redisCount[c] \in Nat /\ fallbackStore[c] \in Nat
                            /\ redisCount'[c] \in {redisCount[c], 0}
                            /\ fallbackStore'[c] \in {fallbackStore[c], 0}
    BY <2>1 DEF WindowExpires, Zeroed, TypeOK, ThrottleTypeOK
  <2>4. ThrottleHolds'
    BY <2>2, <2>3, RunnerAssumption DEF ThrottleHolds, TypeOK
  <2>5. pc \in Unthrottled => borrower \in Borrowers
    BY DEF HandFilled, Unthrottled, Examining
  <2>6. ThrottleRoom'
    BY <2>2, <2>3, <2>5, RunnerAssumption DEF ThrottleRoom, TypeOK
  <2>. QED  BY <2>4, <2>6
<1>4. CASE (\E b \in Borrowers : StreamCandidate(b) \/ PollCandidate(b))
        \/ StreamEnds \/ Signal \/ OperatorActs \/ KillPollDue \/ AlertCooldownEnds
  BY <1>4, RateUnchanged
  DEF StreamCandidate, PollCandidate, StreamEnds, Signal, OperatorActs, KillPollDue,
      AlertCooldownEnds, handVars
<1>5. CASE AskNext \/ TakeCandidate \/ QueueEnds \/ Break \/ MainFinally \/ HandleCandidate
  BY <1>5, RateUnchanged
  DEF AskNext, TakeCandidate, QueueEnds, Break, MainFinally, HandleCandidate, Goto, Finish,
      Unthrottled
<1>6. CASE SequencerPreSim \/ Score \/ SequencerPreSend \/ UpdateInventoryMode \/ CheckCaps
  BY <1>6, RateUnchanged
  DEF SequencerPreSim, Score, SequencerPreSend, UpdateInventoryMode, CheckCaps, Goto, Drop,
      Finish, handVars, Unthrottled
<1>7. CASE SendSucceeds \/ SendRecovered \/ SendFails \/ JudgeFailRate \/ AlertSent
        \/ AttemptRowWritten
  BY <1>7, RateUnchanged
  DEF SendSucceeds, SendRecovered, SendFails, JudgeFailRate, AlertSent, AttemptRowWritten, Goto,
      Drop, Finish, Unthrottled
<1>8. CASE UNCHANGED vars
  BY <1>8, RateUnchanged DEF vars, handVars
<1>. QED
  BY <1>1, <1>2, <1>3, <1>4, <1>5, <1>6, <1>7, <1>8 DEF Next, RunnerStep, Environment
-----------------------------------------------------------------------------
(* The automatic stop. *)

\* One more success never pushes the fail rate over its cap.
LEMMA SuccessLowersFailRate ==
  ASSUME NEW errors \in Nat, NEW sent \in Nat, NEW cap \in Nat,
         errors * 100 <= cap * (errors + sent)
  PROVE  errors * 100 <= cap * (errors + (sent + 1))
<1>1. ASSUME NEW x \in Nat, NEW p \in Nat, NEW c \in Nat, x <= p
      PROVE  x <= p + c
  BY <1>1
<1>2. cap * (errors + (sent + 1)) = cap * (errors + sent) + cap
  OBVIOUS
<1>3. errors * 100 \in Nat /\ cap * (errors + sent) \in Nat
  OBVIOUS
<1>. QED  BY <1>1, <1>2, <1>3

\* With a full sample the judgement is the ratio alone.
LEMMA FailRateIsRatio ==
  ASSUME TypeOK, plansErrorCount >= FailSample
  PROVE  FailRateExceeded(plansErrorCount, plansSentCount) <=>
           /\ risk.failRateCapPct > 0
           /\ ~(plansErrorCount * 100
                  <= risk.failRateCapPct * (plansErrorCount + plansSentCount))
<1>. DEFINE limit == risk.failRateCapPct * (plansErrorCount + plansSentCount)
<1>1. /\ plansErrorCount \in Nat /\ plansSentCount \in Nat /\ FailSample \in Nat
      /\ risk.failRateCapPct \in Nat
  BY RunnerAssumption DEF TypeOK
<1>2. limit \in Nat /\ plansErrorCount * 100 \in Nat
  BY <1>1
<1>3. plansErrorCount + plansSentCount >= FailSample
  BY <1>1
<1>. HIDE DEF limit
<1>4. plansErrorCount * 100 > limit <=> ~(plansErrorCount * 100 <= limit)
  BY <1>2
<1>. QED  BY <1>3, <1>4 DEF FailRateExceeded, limit

\* Every step keeps a run with auto-stop below the cap or stops it.
LEMMA StopNext ==
  ASSUME TypeOK, AutoStopHolds, AlertArmed, [Next]_vars
  PROVE  AutoStopHolds' /\ AlertArmed'
<1>1. ASSUME UNCHANGED <<risk, plansErrorCount, plansSentCount>>,
             running' => running, alertReady => alertReady',
             pc \notin {"errorRow", "alert"}, pc' \notin {"errorRow", "alert"}
      PROVE  AutoStopHolds' /\ AlertArmed'
  BY <1>1 DEF AutoStopHolds, AlertArmed
<1>2. Stop => (running' => running)
  BY DEF Stop
<1>3. CASE Environment
  <2>1. UNCHANGED <<risk, pc, plansErrorCount, plansSentCount>>
    BY <1>3 DEF Environment, StreamCandidate, PollCandidate, StreamEnds, Signal, OperatorActs,
       KillPollDue, ThrottleWindowExpires, AlertCooldownEnds, sessionVars
  <2>2. (running' => running) /\ (alertReady => alertReady')
    BY <1>2, <1>3 DEF Environment, StreamCandidate, PollCandidate, StreamEnds, Signal,
       OperatorActs, KillPollDue, ThrottleWindowExpires, AlertCooldownEnds, sessionVars
  <2>. QED  BY <2>1, <2>2 DEF AutoStopHolds, AlertArmed
<1>4. CASE AskNext \/ TakeCandidate \/ QueueEnds \/ Break \/ MainFinally \/ HandleCandidate
  BY <1>1, <1>2, <1>4
  DEF AskNext, TakeCandidate, QueueEnds, Break, MainFinally, HandleCandidate, Goto, Finish,
      sessionVars
<1>5. CASE CheckThrottle \/ SequencerPreSim \/ Score \/ SequencerPreSend
        \/ UpdateInventoryMode \/ RecordThrottleAttempt \/ CheckCaps
  BY <1>1, <1>2, <1>5
  DEF CheckThrottle, SequencerPreSim, Score, SequencerPreSend, UpdateInventoryMode,
      RecordThrottleAttempt, CheckCaps, Goto, Drop, Finish, sessionVars
<1>6. CASE SendRecovered \/ AttemptRowWritten
  BY <1>1, <1>6 DEF SendRecovered, AttemptRowWritten, Goto, Drop, Finish, sessionVars
<1>7. CASE SendSucceeds
  <2>1. /\ plansSentCount' = plansSentCount + 1 /\ plansErrorCount' = plansErrorCount
        /\ risk' = risk /\ running' = running /\ alertReady' = alertReady
        /\ pc = "send" /\ pc' = "attemptRow"
    BY <1>7 DEF SendSucceeds, Goto
  <2>2. /\ plansErrorCount \in Nat /\ plansSentCount \in Nat
        /\ risk.failRateCapPct \in Nat
    BY RunnerAssumption DEF TypeOK
  <2>3. plansErrorCount * 100 <= risk.failRateCapPct * (plansErrorCount + plansSentCount)
          => plansErrorCount * 100
               <= risk.failRateCapPct * (plansErrorCount + (plansSentCount + 1))
    BY <2>2, SuccessLowersFailRate
  <2>. QED  BY <2>1, <2>3 DEF AutoStopHolds, AlertArmed
<1>8. CASE SendFails
  BY <1>8 DEF SendFails, Goto, AutoStopHolds, AlertArmed
<1>9. CASE JudgeFailRate
  <2>1. UNCHANGED <<risk, running, plansErrorCount, plansSentCount>> /\ pc = "errorRow"
    BY <1>9 DEF JudgeFailRate
  <2>2. CASE pc' = "alert"
    BY <2>1, <2>2 DEF AutoStopHolds, AlertArmed
  <2>3. CASE pc' = "next"
    <3>1. /\ ~(FailRateExceeded(plansErrorCount, plansSentCount) /\ alertReady)
          /\ alertReady' = alertReady
      BY <1>9, <2>3 DEF JudgeFailRate, Goto
    <3>. QED  BY <2>1, <2>3, <3>1, FailRateIsRatio DEF AutoStopHolds, AlertArmed
  <2>. QED  BY <1>9, <2>2, <2>3 DEF JudgeFailRate, Goto, Finish
<1>10. CASE AlertSent
  <2>1. risk' = risk /\ UNCHANGED <<plansErrorCount, plansSentCount>>
    BY <1>10 DEF AlertSent, sessionVars
  <2>2. risk.autoStop => ~running'
    BY <1>10 DEF AlertSent, Stop
  <2>. QED  BY <2>1, <2>2 DEF AutoStopHolds, AlertArmed
<1>11. CASE UNCHANGED vars
  BY <1>11 DEF vars, sessionVars, AutoStopHolds, AlertArmed
<1>. QED
  BY <1>3, <1>4, <1>5, <1>6, <1>7, <1>8, <1>9, <1>10, <1>11 DEF Next, RunnerStep
-----------------------------------------------------------------------------
(* The theorems. *)

\* The invariant holds at every await of every run.
THEOREM Invariant == Spec => []Inv
<1>1. Init => Inv
  <2>. SUFFICES ASSUME Init PROVE Inv
    OBVIOUS
  <2>1. <<>> \in Seq(Items) /\ <<>> \in Seq(Consumers)
    BY EmptySeq
  <2>2. TypeOK
    BY <2>1, RunnerAssumption
    DEF Init, TypeOK, QueueInit, QueueTypeOK, KillInit, KillTypeOK, ThrottleInit, ThrottleTypeOK,
        Locations
  <2>3. HandFilled /\ SafeInv
    BY <2>2, RunnerAssumption
    DEF Init, QueueInit, HandFilled, Examining, SafeInv, CapsHold, SendFits, QueueShape, TypeOK
  <2>4. RateInv
    BY <2>2, RunnerAssumption
    DEF Init, ThrottleInit, RateInv, ThrottleHolds, ThrottleRoom, Unthrottled, TypeOK
  <2>5. StopInv
    BY <2>2, RunnerAssumption
    DEF Init, StopInv, AutoStopHolds, AlertArmed
  <2>. QED  BY <2>2, <2>3, <2>4, <2>5 DEF Inv
<1>2. Inv /\ [Next]_vars => Inv'
  BY TypeNext, HandNext, QueueNext, CapsNext, RateNext, StopNext
  DEF Inv, SafeInv, RateInv, StopInv
<1>. QED  BY <1>1, <1>2, PTL DEF Spec

\* Every variable of the runner, its queue, its throttle and the kill switch
\* keeps its type.
THEOREM TypeCorrect == Spec => []TypeOK
BY Invariant, PTL DEF Inv

\* For every configuration of the risk block the caps hold for what is counted.
THEOREM CapsCorrect == Spec => []CapsHold
BY Invariant, PTL DEF Inv, SafeInv

\* However pushes, polls, closes and stops interleave with the loop, it is never
\* left waiting in a queue that is closed or holds an item.
THEOREM WakeupCorrect == Spec => []NoLostWakeup
<1>1. Inv => NoLostWakeup
  BY DEF Inv, SafeInv, QueueShape, NoLostWakeup
<1>. QED  BY Invariant, <1>1, PTL

\* Whenever Redis fails, no store ever records more attempts than allowed.
THEOREM ThrottleCorrect == Spec => []ThrottleHolds
BY Invariant, PTL DEF Inv, RateInv

\* With auto-stop no run goes on above the fail-rate cap.
THEOREM AutoStopCorrect == Spec => []AutoStopHolds
BY Invariant, PTL DEF Inv, StopInv
-----------------------------------------------------------------------------
(* The runner implements the session budget. *)

\* Where the counters, the flag and the reservation stay, the budget stutters.
LEMMA BudgetStutter ==
  ASSUME UNCHANGED <<risk, running, plansSentCount, sessionNotionalUsd>>,
         Stage' = Stage, ReservedUsd' = ReservedUsd
  PROVE  UNCHANGED Budget!budgetVars
BY DEF Budget!budgetVars

\* A candidate that is finished with, or was never admitted, is a release.
LEMMA BudgetRelease ==
  ASSUME UNCHANGED <<risk, running, plansSentCount, sessionNotionalUsd>>,
         pc' \notin Examining \cup {"send"}
  PROVE  Budget!Release
BY DEF Budget!Release, Budget!caps, Stage, ReservedUsd

\* runner.stop() closes the session.
LEMMA BudgetClose ==
  ASSUME running \in BOOLEAN, Stop, UNCHANGED <<risk, plansSentCount, sessionNotionalUsd>>,
         (pc' = pc /\ repayUsd' = repayUsd) \/ pc' \notin Examining \cup {"send"}
  PROVE  Budget!CloseSession
<1>1. running' = FALSE
  BY DEF Stop
<1>2. UNCHANGED <<Stage, ReservedUsd>> \/ (Stage' = "free" /\ ReservedUsd' = 0)
  BY DEF Stage, ReservedUsd, Examining
<1>. QED  BY <1>1, <1>2 DEF Budget!CloseSession, Budget!caps

\* Every step of the runner is a step of the budget or leaves it alone.
LEMMA BudgetStep ==
  ASSUME Inv, [Next]_vars
  PROVE  [Budget!Next]_(Budget!budgetVars)
<1>. USE DEF Examining
<1>1. running \in BOOLEAN
  BY DEF Inv, TypeOK
<1>2. CASE Signal
  BY <1>1, <1>2, BudgetClose DEF Signal, handVars, sessionVars, Budget!Next
<1>3. CASE \/ \E b \in Borrowers : StreamCandidate(b) \/ PollCandidate(b)
           \/ StreamEnds \/ OperatorActs \/ KillPollDue \/ ThrottleWindowExpires
           \/ AlertCooldownEnds
  BY <1>3, BudgetStutter
  DEF StreamCandidate, PollCandidate, StreamEnds, OperatorActs, KillPollDue,
      ThrottleWindowExpires, AlertCooldownEnds, handVars, sessionVars, Stage, ReservedUsd
<1>4. CASE AskNext \/ TakeCandidate \/ QueueEnds \/ Break \/ MainFinally
  <2>1. /\ UNCHANGED <<risk, running, plansSentCount, sessionNotionalUsd>>
        /\ pc \notin Examining \cup {"send"} /\ pc' \notin Examining \cup {"send"}
    BY <1>4 DEF AskNext, TakeCandidate, QueueEnds, Break, MainFinally, Goto, sessionVars
  <2>. QED  BY <2>1, BudgetStutter DEF Stage, ReservedUsd
<1>5. CASE HandleCandidate
  <2>1. CASE Stop /\ Finish
    BY <1>1, <1>5, <2>1, BudgetClose DEF HandleCandidate, Finish, Goto, sessionVars, Budget!Next
  <2>2. CASE pc' \in {"throttle", "sequencerPreSim"} /\ UNCHANGED running
    BY <1>5, <2>2
    DEF HandleCandidate, sessionVars, Stage, ReservedUsd, Budget!Next, Budget!Admit, Budget!caps
  <2>. QED  BY <1>5, <2>1, <2>2 DEF HandleCandidate, Goto
<1>6. CASE CheckThrottle \/ SequencerPreSim \/ Score \/ SequencerPreSend
        \/ UpdateInventoryMode \/ RecordThrottleAttempt
  <2>1. /\ UNCHANGED <<risk, running, plansSentCount, sessionNotionalUsd>>
        /\ pc \in Examining
        /\ pc' \in Examining \/ pc' \notin Examining \cup {"send"}
    BY <1>6
    DEF CheckThrottle, SequencerPreSim, Score, SequencerPreSend, UpdateInventoryMode,
        RecordThrottleAttempt, Goto, Drop, Finish, sessionVars
  <2>2. CASE pc' \in Examining
    BY <2>1, <2>2, BudgetStutter DEF Stage, ReservedUsd
  <2>3. CASE pc' \notin Examining \cup {"send"}
    BY <2>1, <2>3, BudgetRelease DEF Budget!Next
  <2>. QED  BY <2>1, <2>2, <2>3
<1>7. CASE CheckCaps
  <2>1. CASE Stop /\ Finish
    BY <1>1, <1>7, <2>1, BudgetClose DEF CheckCaps, Finish, Goto, sessionVars, Budget!Next
  <2>2. CASE pc' = "attemptRow" /\ UNCHANGED running
    BY <1>7, <2>2, BudgetRelease DEF CheckCaps, sessionVars, Budget!Next
  <2>3. CASE /\ pc' = "send" /\ UNCHANGED <<running, handVars>>
             /\ ~LiveExecutionCapHit /\ ~SessionNotionalCapHit
    <3>1. repayUsd \in RepayUsd /\ repayUsd \in Nat
      BY <1>7, RunnerAssumption DEF CheckCaps, Inv, HandFilled
    <3>2. /\ plansSentCount \in Nat /\ sessionNotionalUsd \in Nat
          /\ risk.maxLiveExecutions \in Nat /\ risk.maxSessionNotionalUsd \in Nat
      BY RunnerAssumption DEF Inv, TypeOK
    <3>3. Budget!FitsUnder(plansSentCount + 1, sessionNotionalUsd + repayUsd)
      BY <2>3, <3>1, <3>2 DEF Budget!FitsUnder, LiveExecutionCapHit, SessionNotionalCapHit
    <3>4. Budget!Reserve(repayUsd)
      BY <1>7, <2>3, <3>3
      DEF CheckCaps, handVars, sessionVars, Stage, ReservedUsd, Budget!Reserve, Budget!caps
    <3>. QED  BY <3>1, <3>4 DEF Budget!Next
  <2>. QED  BY <1>7, <2>1, <2>2, <2>3 DEF CheckCaps, Goto
<1>8. CASE SendSucceeds
  BY <1>8
  DEF SendSucceeds, Goto, Stage, ReservedUsd, Budget!Next, Budget!Commit, Budget!caps
<1>9. CASE SendRecovered \/ SendFails \/ JudgeFailRate \/ AttemptRowWritten
  BY <1>9, BudgetRelease
  DEF SendRecovered, SendFails, JudgeFailRate, AttemptRowWritten, Goto, Drop, Finish, sessionVars,
      Budget!Next
<1>10. CASE AlertSent
  <2>1. CASE risk.autoStop
    BY <1>1, <1>10, <2>1, BudgetClose DEF AlertSent, Finish, Goto, sessionVars, Budget!Next
  <2>2. CASE ~risk.autoStop
    BY <1>10, <2>2, BudgetRelease DEF AlertSent, Finish, Goto, sessionVars, Budget!Next
  <2>. QED  BY <2>1, <2>2
<1>11. CASE UNCHANGED vars
  BY <1>11, BudgetStutter DEF vars, handVars, sessionVars, Stage, ReservedUsd
<1>. QED
  BY <1>2, <1>3, <1>4, <1>5, <1>6, <1>7, <1>8, <1>9, <1>10, <1>11
  DEF Next, RunnerStep, Environment

\* The runner is a session budget: it reserves only what fits, counts it before
\* the next reservation and admits nobody once it is stopped.
THEOREM BudgetImplemented == Spec => ImplementsBudget
<1>1. Init => Budget!Init
  BY RunnerAssumption DEF Init, Budget!Init, Stage, ReservedUsd, Examining
<1>2. Inv /\ [Next]_vars => [Budget!Next]_(Budget!budgetVars)
  BY BudgetStep
<1>. QED  BY <1>1, <1>2, Invariant, PTL DEF Spec, ImplementsBudget, Budget!Spec
=============================================================================

--------------------------- MODULE PipelineRunner ---------------------------
(***************************************************************************)
(* offchain/pipeline/runner.ts with its candidate sources                    *)
(* (offchain/pipeline/watchers.ts): one loop takes candidates from the       *)
(* AsyncQueue and walks each through throttle, sequencer guard, scorer,       *)
(* profit floors, session caps and the send.  Every await is a program point; *)
(* between two of them the stream, the poll timers, the operator, a signal    *)
(* and the throttle window may act.  The loop awaits each candidate before it *)
(* takes the next, and the session caps lean on exactly that.                 *)
(*                                                                         *)
(* Left out: metrics, logging, and chain-disabled / chain-mismatch, which the *)
(* sources rule out before they push.  Amounts are whole USD.                 *)
(***************************************************************************)
EXTENDS Integers, Sequences, AsyncQueue, KillSwitch, Throttle

CONSTANTS Runner,        \* the for-await loop, the queue's only consumer
          NoBorrower,
          RiskConfigs,   \* the cfg.risk blocks (and FAIL_RATE_AUTO_STOP) considered
          RepayUsd,      \* plan.repayUsd of the plans a scorer may return
          FailSample,    \* 5 in the code
          MaxBuffered,   \* bound: items waiting in the queue
          MaxSent,       \* bound: successful sends (matters where no cap is set)
          MaxErrors      \* bound: failed sends

ASSUME RunnerAssumption ==
  /\ Consumers = {Runner}
  /\ Items = Borrowers
  /\ NoBorrower \notin Borrowers
  /\ RepayUsd \subseteq Nat
  /\ FailSample \in Nat \ {0}
  /\ MaxBuffered \in Nat /\ MaxSent \in Nat /\ MaxErrors \in Nat
  /\ RiskConfigs \subseteq
       [dryRun: BOOLEAN, maxLiveExecutions: Nat, maxSessionNotionalUsd: Nat,
        maxAttemptsPerBorrowerHour: Nat, failRateCapPct: Nat, autoStop: BOOLEAN]

VARIABLES risk,          \* cfg.risk, loaded once by main()
          streamOpen,    \* the adapter's candidate stream has not ended
          aborted,       \* watchers: abort.signal.aborted
          running,       \* PipelineRunner.running
          pc,            \* where the loop is: the await it is at
          borrower,      \* the candidate in hand
          repayUsd,      \* repayUsd of the plan in hand
          plansSentCount,
          plansErrorCount,
          sessionNotionalUsd,
          alertReady     \* ALERT_COOLDOWN_MS has passed since lastFailAlertMs

sessionVars == <<plansSentCount, plansErrorCount, sessionNotionalUsd, alertReady>>
watcherVars == <<streamOpen, aborted>>
handVars == <<borrower, repayUsd>>
vars == <<queueVars, killVars, throttleVars, risk, watcherVars, running, pc,
          handVars, sessionVars>>

\* The awaits of handleCandidate and handlePlan, in the order of the code.
Examining == {"throttle", "sequencerPreSim", "score", "sequencerPreSend",
              "inventory", "recordAttempt", "caps"}
Locations == Examining \cup
             {"next", "resume", "loop", "returned", "exited",
              "send", "attemptRow", "errorRow", "alert"}

TypeOK ==
  /\ QueueTypeOK /\ KillTypeOK /\ ThrottleTypeOK
  /\ risk \in RiskConfigs
  /\ streamOpen \in BOOLEAN /\ aborted \in BOOLEAN /\ running \in BOOLEAN
  /\ pc \in Locations
  /\ borrower \in Borrowers \cup {NoBorrower}
  /\ repayUsd \in RepayUsd \cup {0}
  /\ plansSentCount \in Nat /\ plansErrorCount \in Nat
  /\ sessionNotionalUsd \in Nat
  /\ alertReady \in BOOLEAN

Init ==
  /\ QueueInit /\ KillInit /\ ThrottleInit
  /\ risk \in RiskConfigs
  /\ streamOpen = TRUE
  /\ aborted = FALSE
  /\ running = TRUE
  /\ pc = "next"
  /\ borrower = NoBorrower
  /\ repayUsd = 0
  /\ plansSentCount = 0
  /\ plansErrorCount = 0
  /\ sessionNotionalUsd = 0
  /\ alertReady = TRUE
-----------------------------------------------------------------------------
(* The sources and the two ways the run is told to stop. *)

\* for await (candidate of streamCandidates) queue.push(...)
StreamCandidate(b) ==
  /\ streamOpen /\ ~aborted
  /\ Len(items) < MaxBuffered
  /\ Push(b)
  /\ UNCHANGED <<killVars, throttleVars, risk, watcherVars, running, pc, handVars, sessionVars>>

\* The stream ends, throws, or sees the abort: finally { queue.close() }
StreamEnds ==
  /\ streamOpen
  /\ streamOpen' = FALSE
  /\ Close
  /\ UNCHANGED <<killVars, throttleVars, risk, aborted, running, pc, handVars, sessionVars>>

\* A poll timer pushes what pollCandidatesOnce returned.  A poll in flight when
\* stop() runs still pushes, into a queue that is closed by then.
PollCandidate(b) ==
  /\ Len(items) < MaxBuffered
  /\ Push(b)
  /\ UNCHANGED <<killVars, throttleVars, risk, watcherVars, running, pc, handVars, sessionVars>>

\* watchers.stop(): abort, clear the timers, close the queue.
StopWatchers ==
  \/ aborted /\ UNCHANGED <<aborted, queueVars>>
  \/ ~aborted /\ aborted' = TRUE /\ Close

\* runner.stop(reason)
Stop ==
  \/ ~running /\ UNCHANGED <<running, aborted, queueVars>>
  \/ running /\ running' = FALSE /\ StopWatchers

\* SIGINT or SIGTERM (process.once): stop('signal'), at any await.
Signal ==
  /\ running
  /\ pc # "exited"
  /\ Stop
  /\ UNCHANGED <<killVars, throttleVars, risk, streamOpen, pc, handVars, sessionVars>>

\* The operator creates or removes the kill switch file.
OperatorActs ==
  /\ OperatorToggles
  /\ UNCHANGED <<queueVars, throttleVars, risk, watcherVars, running, pc, handVars, sessionVars>>

KillPollDue ==
  /\ PollIntervalElapses
  /\ UNCHANGED <<queueVars, throttleVars, risk, watcherVars, running, pc, handVars, sessionVars>>

ThrottleWindowExpires ==
  /\ \E b \in Borrowers : WindowExpires(b)
  /\ UNCHANGED <<queueVars, killVars, risk, watcherVars, running, pc, handVars, sessionVars>>

AlertCooldownEnds ==
  /\ ~alertReady
  /\ alertReady' = TRUE
  /\ UNCHANGED <<queueVars, killVars, throttleVars, risk, watcherVars, running, pc,
                 handVars, plansSentCount, plansErrorCount, sessionNotionalUsd>>

Environment ==
  \/ \E b \in Borrowers : StreamCandidate(b) \/ PollCandidate(b)
  \/ StreamEnds \/ Signal
  \/ OperatorActs \/ KillPollDue \/ ThrottleWindowExpires \/ AlertCooldownEnds
-----------------------------------------------------------------------------
(* The loop: for await (const item of queue) { ... } *)

Goto(location) == pc' = location

\* The candidate in hand is finished with; the loop asks for the next one.
Finish == Goto("next") /\ borrower' = NoBorrower /\ repayUsd' = 0

\* The candidate goes no further: its row is written, then the loop goes on.
Drop == Goto("attemptRow") /\ UNCHANGED <<borrower, repayUsd>>

AskNext ==
  /\ pc = "next"
  /\ CallNext(Runner)
  /\ Goto("resume")
  /\ UNCHANGED <<killVars, throttleVars, risk, watcherVars, running, handVars, sessionVars>>

TakeCandidate ==
  /\ pc = "resume"
  /\ \E b \in Borrowers : Resume(Runner, b) /\ borrower' = b
  /\ Goto("loop")
  /\ UNCHANGED <<killVars, throttleVars, risk, watcherVars, running, repayUsd, sessionVars>>

\* The iterator is done.
QueueEnds ==
  /\ pc = "resume"
  /\ Resume(Runner, Done)
  /\ Goto("returned")
  /\ UNCHANGED <<killVars, throttleVars, risk, watcherVars, running, handVars, sessionVars>>

\* if (!this.running) break;
Break ==
  /\ pc = "loop"
  /\ ~running
  /\ Goto("returned")
  /\ borrower' = NoBorrower
  /\ UNCHANGED <<queueVars, killVars, throttleVars, risk, watcherVars, running, repayUsd, sessionVars>>

\* main(): finally { watchers.stop() }
MainFinally ==
  /\ pc = "returned"
  /\ StopWatchers
  /\ Goto("exited")
  /\ UNCHANGED <<killVars, throttleVars, risk, streamOpen, running, handVars, sessionVars>>

\* Mutant of HandleCandidate: a candidate taken before the stop is still handled.
HandleCandidateWhenStopped ==
  /\ pc = "loop"
  /\ \/ /\ IsKillSwitchActive(TRUE)
        /\ Stop
        /\ Finish
     \/ /\ IsKillSwitchActive(FALSE)
        /\ IF ~risk.dryRun /\ risk.maxAttemptsPerBorrowerHour > 0
           THEN Goto("throttle") ELSE Goto("sequencerPreSim")
        /\ UNCHANGED <<queueVars, aborted, running, handVars>>
  /\ UNCHANGED <<throttleVars, risk, streamOpen, sessionVars>>

\* The head of handleCandidate: the kill switch, then the first await.
HandleCandidate ==
  /\ pc = "loop"
  /\ running
  /\ \/ /\ IsKillSwitchActive(TRUE)
        /\ Stop
        /\ Finish
     \/ /\ IsKillSwitchActive(FALSE)
        /\ IF ~risk.dryRun /\ risk.maxAttemptsPerBorrowerHour > 0
           THEN Goto("throttle") ELSE Goto("sequencerPreSim")
        /\ UNCHANGED <<queueVars, aborted, running, handVars>>
  /\ UNCHANGED <<throttleVars, risk, streamOpen, sessionVars>>

CheckThrottle ==
  /\ pc = "throttle"
  /\ \/ IsThrottled(borrower, risk.maxAttemptsPerBorrowerHour, TRUE) /\ Drop
     \/ /\ IsThrottled(borrower, risk.maxAttemptsPerBorrowerHour, FALSE)
        /\ Goto("sequencerPreSim")
        /\ UNCHANGED handVars
  /\ UNCHANGED <<queueVars, killVars, risk, watcherVars, running, sessionVars>>

\* The sequencer guard answers ok or not; see SequencerGuard for what it says.
SequencerPreSim ==
  /\ pc = "sequencerPreSim"
  /\ Goto("score") \/ Goto("attemptRow")
  /\ UNCHANGED <<queueVars, killVars, throttleVars, risk, watcherVars, running, handVars, sessionVars>>

\* scorer.score: a rejection, an exception (caught by run), or a plan, which
\* then passes the profit floors of handlePlan and goes live unless dryRun.
Score ==
  /\ pc = "score"
  /\ \/ Drop
     \/ Finish
     \/ /\ ~risk.dryRun
        /\ repayUsd' \in RepayUsd
        /\ Goto("sequencerPreSend")
        /\ UNCHANGED borrower
  /\ UNCHANGED <<queueVars, killVars, throttleVars, risk, watcherVars, running, sessionVars>>

\* The second look at the sequencer, the key and the contract address.
SequencerPreSend ==
  /\ pc = "sequencerPreSend"
  /\ Goto("inventory") \/ Goto("attemptRow")
  /\ UNCHANGED <<queueVars, killVars, throttleVars, risk, watcherVars, running, handVars, sessionVars>>

\* updateInventoryMode picks funds or flash; neither changes the session.
UpdateInventoryMode ==
  /\ pc = "inventory"
  /\ Goto("recordAttempt")
  /\ UNCHANGED <<queueVars, killVars, throttleVars, risk, watcherVars, running, handVars, sessionVars>>

RecordThrottleAttempt ==
  /\ pc = "recordAttempt"
  /\ RecordAttempt(borrower)
  /\ Goto("caps")
  /\ UNCHANGED <<queueVars, killVars, risk, watcherVars, running, handVars, sessionVars>>

LiveExecutionCapHit ==
  risk.maxLiveExecutions > 0 /\ plansSentCount >= risk.maxLiveExecutions

\* Mutant of SessionNotionalCapHit: the plan in hand is not counted in.
SessionNotionalSpent ==
  /\ risk.maxSessionNotionalUsd > 0
  /\ sessionNotionalUsd > risk.maxSessionNotionalUsd

SessionNotionalCapHit ==
  /\ risk.maxSessionNotionalUsd > 0
  /\ sessionNotionalUsd + repayUsd > risk.maxSessionNotionalUsd

\* A cap that is hit ends the run; otherwise the send starts, or a Morpho plan
\* without its market is dropped.
CheckCaps ==
  /\ pc = "caps"
  /\ \/ (LiveExecutionCapHit \/ SessionNotionalCapHit) /\ Stop /\ Finish
     \/ /\ ~LiveExecutionCapHit /\ ~SessionNotionalCapHit
        /\ Goto("send") \/ Goto("attemptRow")
        /\ UNCHANGED <<queueVars, aborted, running, handVars>>
  /\ UNCHANGED <<killVars, throttleVars, risk, streamOpen, sessionVars>>

\* Mutant of SendSucceeds: the notional is taken from the session.
SendSucceedsWrongSign ==
  /\ pc = "send"
  /\ plansSentCount < MaxSent
  /\ plansSentCount' = plansSentCount + 1
  /\ sessionNotionalUsd' = sessionNotionalUsd - repayUsd
  /\ Goto("attemptRow")
  /\ UNCHANGED <<queueVars, killVars, throttleVars, risk, watcherVars, running,
                 handVars, plansErrorCount, alertReady>>

\* sendLiquidation returned a hash: the counters move before the next await.
SendSucceeds ==
  /\ pc = "send"
  /\ plansSentCount < MaxSent
  /\ plansSentCount' = plansSentCount + 1
  /\ sessionNotionalUsd' = sessionNotionalUsd + repayUsd
  /\ Goto("attemptRow")
  /\ UNCHANGED <<queueVars, killVars, throttleVars, risk, watcherVars, running,
                 handVars, plansErrorCount, alertReady>>

\* HealthFactorNotBelowThreshold: the borrower recovered, which is no error.
SendRecovered ==
  /\ pc = "send"
  /\ Drop
  /\ UNCHANGED <<queueVars, killVars, throttleVars, risk, watcherVars, running, sessionVars>>

SendFails ==
  /\ pc = "send"
  /\ plansErrorCount < MaxErrors
  /\ plansErrorCount' = plansErrorCount + 1
  /\ Goto("errorRow")
  /\ UNCHANGED <<queueVars, killVars, throttleVars, risk, watcherVars, running,
                 handVars, plansSentCount, sessionNotionalUsd, alertReady>>

\* Mutant of FailRateExceeded: the sample counts the successes only.
FailRateAmongSent(errors, sent) ==
  /\ sent >= FailSample
  /\ risk.failRateCapPct > 0
  /\ errors * 100 > risk.failRateCapPct * (errors + sent)

\* ratio > failRateCap over errors failures and sent successes.
FailRateExceeded(errors, sent) ==
  /\ errors + sent >= FailSample
  /\ risk.failRateCapPct > 0
  /\ errors * 100 > risk.failRateCapPct * (errors + sent)

\* After the error row: raise the alert, at most once per cooldown.
JudgeFailRate ==
  /\ pc = "errorRow"
  /\ \/ /\ FailRateExceeded(plansErrorCount, plansSentCount) /\ alertReady
        /\ alertReady' = FALSE
        /\ Goto("alert")
        /\ UNCHANGED handVars
     \/ /\ ~(FailRateExceeded(plansErrorCount, plansSentCount) /\ alertReady)
        /\ Finish
        /\ UNCHANGED alertReady
  /\ UNCHANGED <<queueVars, killVars, throttleVars, risk, watcherVars, running,
                 plansSentCount, plansErrorCount, sessionNotionalUsd>>

\* await emitAlert(...); with FAIL_RATE_AUTO_STOP=1 the run then stops.
AlertSent ==
  /\ pc = "alert"
  /\ IF risk.autoStop THEN Stop ELSE UNCHANGED <<queueVars, aborted, running>>
  /\ Finish
  /\ UNCHANGED <<killVars, throttleVars, risk, streamOpen, sessionVars>>

\* recordAttemptRow never throws; the loop goes on.
AttemptRowWritten ==
  /\ pc = "attemptRow"
  /\ Finish
  /\ UNCHANGED <<queueVars, killVars, throttleVars, risk, watcherVars, running, sessionVars>>

RunnerStep ==
  \/ AskNext \/ TakeCandidate \/ QueueEnds \/ Break \/ MainFinally
  \/ HandleCandidate \/ CheckThrottle \/ SequencerPreSim \/ Score
  \/ SequencerPreSend \/ UpdateInventoryMode \/ RecordThrottleAttempt \/ CheckCaps
  \/ SendSucceeds \/ SendRecovered \/ SendFails
  \/ JudgeFailRate \/ AlertSent \/ AttemptRowWritten

Next == RunnerStep \/ Environment

Spec == Init /\ [][Next]_vars

\* Every await of the loop settles (clients and sockets time out) and the poll
\* interval of the kill switch passes.  Nothing is assumed of the sources.
FairSpec ==
  /\ Spec
  /\ WF_vars(RunnerStep)
  /\ WF_vars(KillPollDue)
-----------------------------------------------------------------------------
(* What the runner must keep. *)

\* The session caps of config.yaml hold for what the runner has counted, at
\* every await and whatever stops or fails in between (runner.ts 357-381).
CapsHold ==
  /\ risk.maxLiveExecutions > 0 => plansSentCount <= risk.maxLiveExecutions
  /\ risk.maxSessionNotionalUsd > 0 => sessionNotionalUsd <= risk.maxSessionNotionalUsd

\* No borrower is recorded more than maxAttemptsPerBorrowerHour times in one
\* window of either store, although the check (runner.ts 126) and the record
\* (runner.ts 355) are five awaits apart and Redis may fail at each of them.
ThrottleHolds ==
  ~risk.dryRun /\ risk.maxAttemptsPerBorrowerHour > 0 =>
    \A b \in Borrowers :
      /\ redisCount[b] <= risk.maxAttemptsPerBorrowerHour
      /\ fallbackStore[b] <= risk.maxAttemptsPerBorrowerHour

\* With FAIL_RATE_AUTO_STOP=1 the run never goes on while the failed sends, once
\* there are FailSample of them, exceed the fail-rate cap: only the error that
\* crosses it can be pending (runner.ts 513-533).
AutoStopHolds ==
  /\ risk.autoStop /\ running
  /\ risk.failRateCapPct > 0
  /\ pc \notin {"errorRow", "alert"}
  /\ plansErrorCount >= FailSample
  => plansErrorCount * 100 <= risk.failRateCapPct * (plansErrorCount + plansSentCount)

\* The loop is never stranded: while it waits without an answer it is parked in
\* an open queue that holds nothing (async_queue.ts 6-36).
NoLostWakeup ==
  pc = "resume" /\ delivered[Runner] = Nothing =>
    resolvers = <<Runner>> /\ items = <<>> /\ ~closed

\* What a session promises, seen through SessionBudget.
Stage == IF pc = "send" THEN "reserved" ELSE IF pc \in Examining THEN "admitted" ELSE "free"
ReservedUsd == IF pc = "send" THEN repayUsd ELSE 0

Budget == INSTANCE SessionBudget WITH
  Amounts <- RepayUsd,
  maxExecutions <- risk.maxLiveExecutions,
  maxExposure <- risk.maxSessionNotionalUsd,
  open <- running,
  stage <- Stage,
  amount <- ReservedUsd,
  executions <- plansSentCount,
  exposure <- sessionNotionalUsd

\* The runner implements the budget: it reserves only what fits, counts it
\* before anything else can be reserved, and admits no candidate once stopped
\* by a cap, the kill switch, the fail rate or a signal.
ImplementsBudget == Budget!Spec

\* However the queue was closed (the stream ended or failed, a cap, the kill
\* switch, a signal), main() comes to its return.
ClosedEndsRun == closed ~> pc = "exited"

\* A kill switch file that stays in place ends the sending.
KillSwitchHalts == <>[]killFile => <>[](pc # "send")

=============================================================================

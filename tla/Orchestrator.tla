---------------------------- MODULE Orchestrator ----------------------------
(***************************************************************************)
(* offchain/orchestrator.ts: one process, an agent per chain, and several     *)
(* calls of processCandidate under way at once: the agent's main loop, its    *)
(* stall-fallback poll (a timer that does not wait for the previous tick) and *)
(* the predictive scanner's callback, on every chain.  They share the session *)
(* counters, the alert cooldown, the throttle and the kill switch, and each   *)
(* await lets any other of them run.                                         *)
(*                                                                         *)
(* A caller is one such invocation; ChainOf says whose agent it works for.    *)
(* Simulation, prices and health factors are answers of the environment.      *)
(* Amounts are whole USD.                                                    *)
(***************************************************************************)
EXTENDS Integers, FiniteSets, KillSwitch, Throttle

CONSTANTS Callers,       \* the invocations of processCandidate that can overlap
          Chains,
          ChainOf,
          NoBorrower,
          RiskConfigs,   \* cfg.risk, FAIL_RATE_AUTO_STOP and the throttle bypass
          RepayUsd,      \* plan.repayUsd of the plans simulate may return
          MaxRepayUsd,   \* cfg.risk.maxRepayUsd, which caps them
          FailSample,    \* 5 in the code
          MaxBroadcasts, \* bound: transactions put on the wire
          MaxErrors,     \* bound: failed candidates
          MaxAttempts    \* bound: attempts a store holds when a candidate is taken

ASSUME OrchestratorAssumption ==
  /\ IsFiniteSet(Callers) /\ Callers # {}
  /\ ChainOf \in [Callers -> Chains]
  /\ NoBorrower \notin Borrowers
  /\ MaxRepayUsd \in Nat
  /\ RepayUsd \subseteq 0..MaxRepayUsd
  /\ FailSample \in Nat \ {0}
  /\ MaxBroadcasts \in Nat /\ MaxErrors \in Nat /\ MaxAttempts \in Nat
  /\ RiskConfigs \subseteq
       [dryRun: BOOLEAN, maxLiveExecutions: Nat, maxSessionNotionalUsd: Nat,
        maxAttemptsPerBorrowerHour: Nat, throttleBypass: BOOLEAN,
        failRateCapPct: Nat, autoStop: BOOLEAN]

VARIABLES risk,
          alive,              \* process.exit has not been called
          killNotified,       \* killSwitchNotificationSent of each agent
          loc,                \* the await each caller is at
          borrowerOf,         \* the candidate each caller has in hand
          repayUsdOf,         \* repayUsd of its plan
          plansSentCount, plansErrorCount, sessionNotionalUsd,
          alertReady,         \* ALERT_COOLDOWN_MS has passed since lastFailAlertMs
          broadcasts,         \* the network's view: transactions put on the wire,
          broadcastUsd,       \* what they repay,
          lostAnswers         \* and those whose hash never came back

callerVars == <<loc, borrowerOf, repayUsdOf>>
sessionVars == <<plansSentCount, plansErrorCount, sessionNotionalUsd, alertReady>>
networkVars == <<broadcasts, broadcastUsd, lostAnswers>>
processVars == <<alive, killNotified>>
vars == <<killVars, throttleVars, risk, processVars, callerVars, sessionVars, networkVars>>

OnTheWire == {"answer", "sentRow"}
Locations == {"idle", "killAlert", "sequencerPreSim", "throttle", "bypass", "reset", "examine",
              "hfRow", "hfRecord", "sequencerPreSend", "recordAttempt", "caps", "send",
              "row", "errorRow", "alert"} \cup OnTheWire

TypeOK ==
  /\ KillTypeOK /\ ThrottleTypeOK
  /\ risk \in RiskConfigs
  /\ alive \in BOOLEAN
  /\ killNotified \in [Chains -> BOOLEAN]
  /\ loc \in [Callers -> Locations]
  /\ borrowerOf \in [Callers -> Borrowers \cup {NoBorrower}]
  /\ repayUsdOf \in [Callers -> RepayUsd \cup {0}]
  /\ plansSentCount \in Nat /\ plansErrorCount \in Nat /\ sessionNotionalUsd \in Nat
  /\ alertReady \in BOOLEAN
  /\ broadcasts \in Nat /\ broadcastUsd \in Nat /\ lostAnswers \in Nat

Init ==
  /\ KillInit /\ ThrottleInit
  /\ risk \in RiskConfigs
  /\ alive = TRUE
  /\ killNotified = [ch \in Chains |-> FALSE]
  /\ loc = [c \in Callers |-> "idle"]
  /\ borrowerOf = [c \in Callers |-> NoBorrower]
  /\ repayUsdOf = [c \in Callers |-> 0]
  /\ plansSentCount = 0 /\ plansErrorCount = 0 /\ sessionNotionalUsd = 0
  /\ alertReady = TRUE
  /\ broadcasts = 0 /\ broadcastUsd = 0 /\ lostAnswers = 0
-----------------------------------------------------------------------------
(* Where a caller goes from one await to the next. *)

At(c, location) == alive /\ loc[c] = location

Goto(c, location) ==
  /\ loc' = [loc EXCEPT ![c] = location]
  /\ UNCHANGED <<borrowerOf, repayUsdOf>>

\* processCandidate returns.
Return(c) ==
  /\ loc' = [loc EXCEPT ![c] = "idle"]
  /\ borrowerOf' = [borrowerOf EXCEPT ![c] = NoBorrower]
  /\ repayUsdOf' = [repayUsdOf EXCEPT ![c] = 0]

\* process.exit(): nobody runs another line, whatever they have in hand.
Exit == alive' = FALSE /\ UNCHANGED <<killNotified, callerVars>>

\* A candidate arrives; the kill switch is looked at here and nowhere else.  The
\* agent's first caller to see it raises the alert before it exits, a later one
\* exits at once.  The checks before the first await may drop the candidate.
TakeCandidate(c, b) ==
  /\ At(c, "idle")
  /\ redisCount[b] < MaxAttempts /\ fallbackStore[b] < MaxAttempts
  /\ \/ /\ IsKillSwitchActive(TRUE)
        /\ killNotified[ChainOf[c]]
        /\ Exit
     \/ /\ IsKillSwitchActive(TRUE)
        /\ ~killNotified[ChainOf[c]]
        /\ killNotified' = [killNotified EXCEPT ![ChainOf[c]] = TRUE]
        /\ Goto(c, "killAlert")
        /\ UNCHANGED alive
     \/ /\ IsKillSwitchActive(FALSE)
        /\ \E next \in {"sequencerPreSim", "row"} : loc' = [loc EXCEPT ![c] = next]
        /\ borrowerOf' = [borrowerOf EXCEPT ![c] = b]
        /\ UNCHANGED <<repayUsdOf, processVars>>
  /\ UNCHANGED <<throttleVars, risk, sessionVars, networkVars>>

KillAlertSent(c) ==
  /\ At(c, "killAlert")
  /\ Exit
  /\ UNCHANGED <<killVars, throttleVars, risk, sessionVars, networkVars>>

\* The sequencer guard answers; see SequencerGuard for what it says.
SequencerPreSim(c) ==
  /\ At(c, "sequencerPreSim")
  /\ \/ Goto(c, "row")
     \/ Goto(c, IF ~risk.dryRun /\ risk.maxAttemptsPerBorrowerHour > 0
                THEN "throttle" ELSE "examine")
  /\ UNCHANGED <<killVars, throttleVars, risk, processVars, sessionVars, networkVars>>

CheckThrottle(c) ==
  /\ At(c, "throttle")
  /\ \/ /\ IsThrottled(borrowerOf[c], risk.maxAttemptsPerBorrowerHour, TRUE)
        /\ Goto(c, IF risk.throttleBypass THEN "bypass" ELSE "row")
     \/ /\ IsThrottled(borrowerOf[c], risk.maxAttemptsPerBorrowerHour, FALSE)
        /\ Goto(c, "examine")
  /\ UNCHANGED <<killVars, risk, processVars, sessionVars, networkVars>>

\* A health factor that fell far enough since the last look lifts the throttle.
EvaluateBypass(c) ==
  /\ At(c, "bypass")
  /\ Goto(c, "row") \/ Goto(c, "reset")
  /\ UNCHANGED <<killVars, throttleVars, risk, processVars, sessionVars, networkVars>>

LiftThrottle(c) ==
  /\ At(c, "reset")
  /\ ResetThrottle(borrowerOf[c])
  /\ Goto(c, "examine")
  /\ UNCHANGED <<killVars, risk, processVars, sessionVars, networkVars>>

\* The catch block counts every exception, of a price read as of a send.
Fail(c) ==
  /\ plansErrorCount < MaxErrors
  /\ plansErrorCount' = plansErrorCount + 1
  /\ Goto(c, "errorRow")
  /\ UNCHANGED <<plansSentCount, sessionNotionalUsd, alertReady>>

\* Prices, gap, health factor, simulation, inventory: the candidate is dropped
\* (with or without a row), skipped for its health factor, fails, or has a plan.
Examine(c) ==
  /\ At(c, "examine")
  /\ \/ /\ Goto(c, "row") \/ Goto(c, "hfRow") \/ Return(c)
        /\ UNCHANGED sessionVars
     \/ Fail(c)
     \/ /\ ~risk.dryRun
        /\ \E usd \in RepayUsd : repayUsdOf' = [repayUsdOf EXCEPT ![c] = usd]
        /\ loc' = [loc EXCEPT ![c] = "sequencerPreSend"]
        /\ UNCHANGED <<borrowerOf, sessionVars>>
  /\ UNCHANGED <<killVars, throttleVars, risk, processVars, networkVars>>

\* A borrower whose health factor is too high counts as attempted all the same.
HfRowWritten(c) ==
  /\ At(c, "hfRow")
  /\ IF risk.maxAttemptsPerBorrowerHour > 0 THEN Goto(c, "hfRecord") ELSE Return(c)
  /\ UNCHANGED <<killVars, throttleVars, risk, processVars, sessionVars, networkVars>>

RecordHfAttempt(c) ==
  /\ At(c, "hfRecord")
  /\ RecordAttempt(borrowerOf[c])
  /\ Return(c)
  /\ UNCHANGED <<killVars, risk, processVars, sessionVars, networkVars>>

SequencerPreSend(c) ==
  /\ At(c, "sequencerPreSend")
  /\ Goto(c, "row") \/ Goto(c, "recordAttempt")
  /\ UNCHANGED <<killVars, throttleVars, risk, processVars, sessionVars, networkVars>>

RecordThrottleAttempt(c) ==
  /\ At(c, "recordAttempt")
  /\ RecordAttempt(borrowerOf[c])
  /\ Goto(c, "caps")
  /\ UNCHANGED <<killVars, risk, processVars, sessionVars, networkVars>>

LiveExecutionCapHit ==
  risk.maxLiveExecutions > 0 /\ plansSentCount >= risk.maxLiveExecutions

\* Mutant of SessionNotionalCapHit: the pending plan is not counted in.
SessionNotionalSpent(usd) ==
  risk.maxSessionNotionalUsd > 0 /\ sessionNotionalUsd > risk.maxSessionNotionalUsd

SessionNotionalCapHit(usd) ==
  /\ risk.maxSessionNotionalUsd > 0
  /\ sessionNotionalUsd + usd > risk.maxSessionNotionalUsd

\* No await from here to the send: a plan without profit (or a Morpho plan without
\* its market) is dropped, a cap that is hit ends the process.
CheckCaps(c) ==
  /\ At(c, "caps")
  /\ \/ Goto(c, "row") /\ UNCHANGED processVars
     \/ /\ LiveExecutionCapHit \/ SessionNotionalCapHit(repayUsdOf[c])
        /\ Exit
     \/ /\ ~LiveExecutionCapHit /\ ~SessionNotionalCapHit(repayUsdOf[c])
        /\ Goto(c, "send")
        /\ UNCHANGED processVars
  /\ UNCHANGED <<killVars, throttleVars, risk, sessionVars, networkVars>>

\* sendLiquidation (or the pre-liquidation bundle) reaches the network.
Broadcast(c) ==
  /\ At(c, "send")
  /\ broadcasts < MaxBroadcasts
  /\ broadcasts' = broadcasts + 1
  /\ broadcastUsd' = broadcastUsd + repayUsdOf[c]
  /\ Goto(c, "answer")
  /\ UNCHANGED <<killVars, throttleVars, risk, processVars, sessionVars, lostAnswers>>

\* HealthFactorNotBelowThreshold from the gas estimate.
SendRecovered(c) ==
  /\ At(c, "send")
  /\ Goto(c, "row")
  /\ UNCHANGED <<killVars, throttleVars, risk, processVars, sessionVars, networkVars>>

SendFails(c) ==
  /\ At(c, "send")
  /\ Fail(c)
  /\ UNCHANGED <<killVars, throttleVars, risk, processVars, networkVars>>

\* Mutant of AnswerArrives: the transaction is counted before the row as well as after.
AnswerArrivesCounted(c) ==
  /\ At(c, "answer")
  /\ plansSentCount' = plansSentCount + 1
  /\ Goto(c, "sentRow")
  /\ UNCHANGED <<killVars, throttleVars, risk, processVars, plansErrorCount, sessionNotionalUsd,
                 alertReady, networkVars>>

\* The hash comes back; the row is written before anything is counted.
AnswerArrives(c) ==
  /\ At(c, "answer")
  /\ Goto(c, "sentRow")
  /\ UNCHANGED <<killVars, throttleVars, risk, processVars, sessionVars, networkVars>>

\* The RPC call times out after the node took the transaction.
AnswerLost(c) ==
  /\ At(c, "answer")
  /\ lostAnswers' = lostAnswers + 1
  /\ Fail(c)
  /\ UNCHANGED <<killVars, throttleVars, risk, processVars, broadcasts, broadcastUsd>>

\* Mutant of SentRowWritten: the notional is taken off instead of added.
SentRowWrittenWrongSign(c) ==
  /\ At(c, "sentRow")
  /\ plansSentCount' = plansSentCount + 1
  /\ sessionNotionalUsd' = sessionNotionalUsd - repayUsdOf[c]
  /\ alive' = ~(risk.maxLiveExecutions > 0 /\ plansSentCount' >= risk.maxLiveExecutions)
  /\ Return(c)
  /\ UNCHANGED <<killVars, throttleVars, risk, killNotified, plansErrorCount, alertReady,
                 networkVars>>

\* Mutant of SentRowWritten: only the notional is counted.
SentRowWrittenNotionalOnly(c) ==
  /\ At(c, "sentRow")
  /\ sessionNotionalUsd' = sessionNotionalUsd + repayUsdOf[c]
  /\ alive' = ~(risk.maxLiveExecutions > 0 /\ plansSentCount >= risk.maxLiveExecutions)
  /\ Return(c)
  /\ UNCHANGED <<killVars, throttleVars, risk, killNotified, plansSentCount, plansErrorCount,
                 alertReady, networkVars>>

\* Mutant of SentRowWritten: the second look at the cap is left out.
SentRowWrittenNoStop(c) ==
  /\ At(c, "sentRow")
  /\ plansSentCount' = plansSentCount + 1
  /\ sessionNotionalUsd' = sessionNotionalUsd + repayUsdOf[c]
  /\ Return(c)
  /\ UNCHANGED <<killVars, throttleVars, risk, processVars, plansErrorCount, alertReady,
                 networkVars>>

\* Only now do the counters move, and the cap is looked at again.
SentRowWritten(c) ==
  /\ At(c, "sentRow")
  /\ plansSentCount' = plansSentCount + 1
  /\ sessionNotionalUsd' = sessionNotionalUsd + repayUsdOf[c]
  /\ alive' = ~(risk.maxLiveExecutions > 0 /\ plansSentCount' >= risk.maxLiveExecutions)
  /\ Return(c)
  /\ UNCHANGED <<killVars, throttleVars, risk, killNotified, plansErrorCount, alertReady,
                 networkVars>>

FailRateExceeded(errors, sent) ==
  /\ ~risk.dryRun
  /\ errors + sent >= FailSample
  /\ risk.failRateCapPct > 0
  /\ errors * 100 > risk.failRateCapPct * (errors + sent)

\* After the error row: the alert, at most once per cooldown for all callers.
JudgeFailRate(c) ==
  /\ At(c, "errorRow")
  /\ \/ /\ FailRateExceeded(plansErrorCount, plansSentCount) /\ alertReady
        /\ alertReady' = FALSE
        /\ Goto(c, "alert")
     \/ /\ ~(FailRateExceeded(plansErrorCount, plansSentCount) /\ alertReady)
        /\ Return(c)
        /\ UNCHANGED alertReady
  /\ UNCHANGED <<killVars, throttleVars, risk, processVars, plansSentCount, plansErrorCount,
                 sessionNotionalUsd, networkVars>>

\* Mutant of AlertSent: the rate is judged again once the alert is out.
AlertSentJudgesAgain(c) ==
  /\ At(c, "alert")
  /\ IF risk.autoStop /\ FailRateExceeded(plansErrorCount, plansSentCount)
     THEN Exit ELSE Return(c) /\ UNCHANGED processVars
  /\ UNCHANGED <<killVars, throttleVars, risk, sessionVars, networkVars>>

\* With FAIL_RATE_AUTO_STOP=1 the process exits once the alert is out.
AlertSent(c) ==
  /\ At(c, "alert")
  /\ IF risk.autoStop THEN Exit ELSE Return(c) /\ UNCHANGED processVars
  /\ UNCHANGED <<killVars, throttleVars, risk, sessionVars, networkVars>>

\* recordAttemptRow never throws; processCandidate returns.
RowWritten(c) ==
  /\ At(c, "row")
  /\ Return(c)
  /\ UNCHANGED <<killVars, throttleVars, risk, processVars, sessionVars, networkVars>>

\* What a caller does by itself once it has a candidate.
Proceed(c) ==
  \/ KillAlertSent(c) \/ SequencerPreSim(c) \/ CheckThrottle(c) \/ EvaluateBypass(c)
  \/ LiftThrottle(c) \/ Examine(c) \/ HfRowWritten(c) \/ RecordHfAttempt(c)
  \/ SequencerPreSend(c) \/ RecordThrottleAttempt(c) \/ CheckCaps(c)
  \/ Broadcast(c) \/ SendRecovered(c) \/ SendFails(c) \/ AnswerArrives(c) \/ AnswerLost(c)
  \/ SentRowWritten(c) \/ JudgeFailRate(c) \/ AlertSent(c) \/ RowWritten(c)
-----------------------------------------------------------------------------
OperatorActs ==
  /\ OperatorToggles
  /\ UNCHANGED <<throttleVars, risk, processVars, callerVars, sessionVars, networkVars>>

KillPollDue ==
  /\ PollIntervalElapses
  /\ UNCHANGED <<throttleVars, risk, processVars, callerVars, sessionVars, networkVars>>

ThrottleWindowExpires ==
  /\ \E b \in Borrowers : WindowExpires(b)
  /\ UNCHANGED <<killVars, risk, processVars, callerVars, sessionVars, networkVars>>

AlertCooldownEnds ==
  /\ ~alertReady
  /\ alertReady' = TRUE
  /\ UNCHANGED <<killVars, throttleVars, risk, processVars, callerVars, plansSentCount,
                 plansErrorCount, sessionNotionalUsd, networkVars>>

Environment ==
  /\ alive
  /\ OperatorActs \/ KillPollDue \/ ThrottleWindowExpires \/ AlertCooldownEnds

Next ==
  \/ \E c \in Callers : Proceed(c) \/ \E b \in Borrowers : TakeCandidate(c, b)
  \/ Environment

Spec == Init /\ [][Next]_vars

\* Every await of every caller settles and the poll interval passes.  Candidates
\* and the operator owe nothing.
FairSpec ==
  /\ Spec
  /\ \A c \in Callers : WF_vars(Proceed(c))
  /\ WF_vars(alive /\ KillPollDue)
-----------------------------------------------------------------------------
(* What the orchestrator keeps. *)

InFlight == {c \in Callers : loc[c] \in OnTheWire}

\* Every transaction on the wire is counted, known to be lost, or in the hands of
\* a caller that will count it unless the process exits first
\* (orchestrator.ts 1179-1211, 1250-1287).
WireAccounted ==
  broadcasts = plansSentCount + lostAnswers + Cardinality(InFlight)

\* The count never passes maxLiveExecutions, although callers check it before and
\* move it after two awaits: whoever reaches it exits (1081-1088, 1210-1249).
CountWithinCap ==
  risk.maxLiveExecutions > 0 => plansSentCount <= risk.maxLiveExecutions

\* How far the cap is overrun on the network: by at most the other callers, and by
\* the transactions whose answer was lost.
BroadcastsBounded ==
  risk.maxLiveExecutions > 0 =>
    broadcasts <= risk.maxLiveExecutions + lostAnswers + (Cardinality(Callers) - 1)

\* How far the session notional is overrun: by one plan of each other caller.
NotionalBounded ==
  risk.maxSessionNotionalUsd > 0 =>
    sessionNotionalUsd <=
      risk.maxSessionNotionalUsd + (Cardinality(Callers) - 1) * MaxRepayUsd

\* A store counts past the hourly limit by at most the callers that looked at it
\* before the others recorded (643, 849, 865, 1064), whatever Redis does and
\* whoever lifts the throttle meanwhile.
ThrottleBounded ==
  ~risk.dryRun /\ risk.maxAttemptsPerBorrowerHour > 0 =>
    \A b \in Borrowers :
      LET most == risk.maxAttemptsPerBorrowerHour + (Cardinality(Callers) - 1)
      IN redisCount[b] <= most /\ fallbackStore[b] <= most

\* The alert of the automatic stop is raised by one caller at a time and the
\* process ends with it, even if other candidates succeed meanwhile.
AutoStopEnds ==
  risk.autoStop /\ (\E c \in Callers : loc[c] = "alert") ~> ~alive

\* A kill switch file that stays in place ends the sending.
KillSwitchHalts == <>[]killFile => <>[](\A c \in Callers : ~At(c, "send"))

\* README.md:182 says of the caps that "the orchestrator will exit once any cap is
\* hit": what is on the wire would stay within maxLiveExecutions.
BroadcastsWithinCap ==
  risk.maxLiveExecutions > 0 => broadcasts <= risk.maxLiveExecutions

=============================================================================

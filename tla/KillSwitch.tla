----------------------------- MODULE KillSwitch -----------------------------
(***************************************************************************)
(* offchain/infra/kill_switch.ts: the process looks at KILL_SWITCH_FILE at   *)
(* most once per KILL_SWITCH_POLL_MS and answers from lastState in between,  *)
(* so a caller can act on an answer up to one poll interval old.             *)
(***************************************************************************)
EXTENDS Naturals

VARIABLES killFile,     \* the file exists (the operator's doing)
          lastState,    \* the answer of the last look
          recentLook    \* less than one poll interval since lastChecked

killVars == <<killFile, lastState, recentLook>>

KillTypeOK == killFile \in BOOLEAN /\ lastState \in BOOLEAN /\ recentLook \in BOOLEAN

KillInit ==
  /\ killFile \in BOOLEAN
  /\ lastState = FALSE
  /\ recentLook = FALSE

\* Mutant of IsKillSwitchActive: the look is not remembered.
IsKillSwitchActiveForgetsLook(active) ==
  /\ active = lastState
  /\ recentLook' = TRUE
  /\ UNCHANGED <<killFile, lastState>>

\* isKillSwitchActive(): cached answer inside the interval, else existsSync.
IsKillSwitchActive(active) ==
  \/ /\ recentLook
     /\ active = lastState
     /\ UNCHANGED killVars
  \/ /\ ~recentLook
     /\ active = killFile
     /\ lastState' = killFile
     /\ recentLook' = TRUE
     /\ UNCHANGED killFile

PollIntervalElapses ==
  /\ recentLook
  /\ recentLook' = FALSE
  /\ UNCHANGED <<killFile, lastState>>

\* The operator creates or removes the file.
OperatorToggles ==
  /\ killFile' = ~killFile
  /\ UNCHANGED <<lastState, recentLook>>
=============================================================================

---------------------------- MODULE SessionBudget ---------------------------
(***************************************************************************)
(* What a trading session promises its operator, whatever the pipeline does  *)
(* inside: candidates are admitted one at a time while the session is open,   *)
(* an execution is reserved only if it fits under both caps at that moment,   *)
(* nothing else is counted before the reservation is settled, and a closed   *)
(* session admits nobody (an execution already admitted may still finish).    *)
(* A cap of 0 means no cap, as in the risk block of config.yaml.              *)
(***************************************************************************)
EXTENDS Naturals

CONSTANTS Amounts   \* the USD amounts an execution may repay

VARIABLES maxExecutions, maxExposure,   \* fixed when the session starts
          open,
          stage,       \* "free", "admitted" or "reserved"
          amount,      \* of the reservation, 0 without one
          executions,
          exposure

budgetVars == <<maxExecutions, maxExposure, open, stage, amount, executions, exposure>>
caps == <<maxExecutions, maxExposure>>

FitsUnder(n, usd) ==
  /\ maxExecutions > 0 => n <= maxExecutions
  /\ maxExposure > 0 => usd <= maxExposure

Init ==
  /\ maxExecutions \in Nat
  /\ maxExposure \in Nat
  /\ open = TRUE
  /\ stage = "free"
  /\ amount = 0
  /\ executions = 0
  /\ exposure = 0

Admit ==
  /\ open
  /\ stage = "free"
  /\ stage' = "admitted"
  /\ UNCHANGED <<caps, open, amount, executions, exposure>>

Reserve(usd) ==
  /\ stage = "admitted"
  /\ FitsUnder(executions + 1, exposure + usd)
  /\ stage' = "reserved"
  /\ amount' = usd
  /\ UNCHANGED <<caps, open, executions, exposure>>

Commit ==
  /\ stage = "reserved"
  /\ stage' = "free"
  /\ amount' = 0
  /\ executions' = executions + 1
  /\ exposure' = exposure + amount
  /\ UNCHANGED <<caps, open>>

Release ==
  /\ stage' = "free"
  /\ amount' = 0
  /\ UNCHANGED <<caps, open, executions, exposure>>

\* The session ends; the candidate being examined may be dropped with it.
CloseSession ==
  /\ open' = FALSE
  /\ \/ UNCHANGED <<stage, amount>>
     \/ stage' = "free" /\ amount' = 0
  /\ UNCHANGED <<caps, executions, exposure>>

Next ==
  \/ Admit
  \/ \E usd \in Amounts : Reserve(usd)
  \/ Commit
  \/ Release
  \/ CloseSession

Spec == Init /\ [][Next]_budgetVars
=============================================================================

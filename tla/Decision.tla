------------------------------ MODULE Decision ------------------------------
(***************************************************************************)
(* The parts of the system that keep no state of their own: solvers, price    *)
(* resolution, the simulator, scorers, on-chain callbacks.  Each is a set of   *)
(* operators; here one of them is asked one question at a time, and the answer *)
(* stays in `decision` for the properties to judge.                           *)
(***************************************************************************)
CONSTANT None

VARIABLE decision       \* None, or a record with the field `about`

DecisionInit == decision = None
Idle == decision = None
Decide(record) == decision' = record       \* taken while Idle
Forget == decision # None /\ decision' = None

About(topic) == decision # None /\ decision.about = topic
=============================================================================

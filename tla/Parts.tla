-------------------------------- MODULE Parts --------------------------------
(***************************************************************************)
(* One question to one of the stateless parts, its answer, the next question.  *)
(***************************************************************************)
EXTENDS FabricDecisions, LiquidationDecisions, ExecutionDecisions, IndexerDecisions

\* For TLC: a pool whose price falls with the size, and the one pair pegged by name.
MCPoolOut(amount) == (12 * amount) \div (amount + 3)
MCPeggedPairs == {{"E", "W"}}

vars == <<decision>>
Init == DecisionInit
Next == (Idle /\ (FabricDecides \/ LiquidationDecides \/ ScoresDecide \/ ExecutionDecides
                 \/ PricesDecide \/ IndexersDecide)) \/ Forget
Spec == Init /\ [][Next]_vars
=============================================================================

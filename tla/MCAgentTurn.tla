----------------------------- MODULE MCAgentTurn -----------------------------
(* Instances of AgentTurn for TLC.                                         *)
EXTENDS AgentTurn

\* Each server takes one of the calls.
ServedByOne == "data_analysis" :> {"sensors"} @@ "knowledge" :> {"manual"}

\* Every orchestrated build; of the legacy ones, two tails.
SomeBuilds ==
  {c \in Config : c.orchestrator \/ (c.fastRouter = c.grounding /\ c.suggestions # c.grounding)}

=============================================================================

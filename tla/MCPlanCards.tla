---------------------------- MODULE MCPlanCards ----------------------------
(* PlanCards for TLC: both cards hang on one message. *)
EXTENDS PlanCards

MCMsgOf == [c \in Cards |-> CHOOSE m \in Msgs : TRUE]
=============================================================================

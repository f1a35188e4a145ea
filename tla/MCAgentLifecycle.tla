-------------------------- MODULE MCAgentLifecycle --------------------------
(***************************************************************************)
(* One agent that is started twice, and a second process of it, started by *)
(* hand without a control plane, that gets in its way once.                *)
(***************************************************************************)
EXTENDS AgentLifecycle

MCMaxStarts == [a \in Instance |-> IF a \in Brief THEN 1 ELSE 2]
=============================================================================

-------------------------- MODULE MCAgentLifecycle --------------------------
(* Requests are interchangeable. *)
EXTENDS AgentLifecycle, TLC

RequestSymmetry == Permutations(Requests)
=============================================================================

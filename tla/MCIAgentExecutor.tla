-------------------------- MODULE MCIAgentExecutor --------------------------
(* Instances of IAgentExecutor for TLC. *)
EXTENDS IAgentExecutor, TLC

(* Agents of one kind, and descriptors, are interchangeable. *)
Symmetry == Permutations(IAgents) \cup Permutations(SAgents) \cup Permutations(Fds)
=============================================================================

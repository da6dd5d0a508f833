-------------------------- MODULE MCAgentExecution --------------------------
(* TLC instances of AgentExecution. *)
EXTENDS AgentExecution, TLC

\* Inputs are only ever compared with each other; so are batches.
Symmetry == Permutations(Inputs) \cup Permutations(Batches)

=============================================================================

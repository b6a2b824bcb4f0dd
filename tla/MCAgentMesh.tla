---------------------------- MODULE MCAgentMesh ----------------------------
(* AgentMesh on small instances. *)
EXTENDS AgentMesh, TLC

CONSTANTS r1, r2, r3, t1, t2

Symmetry == Permutations(Runs) \cup Permutations(Threads)
=============================================================================

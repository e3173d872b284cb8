---------------------------- MODULE MCAgentRuns ----------------------------
(* AgentRuns as TLC instantiates it; each configuration gives the constants.  *)
EXTENDS AgentRuns, TLC

\* Sound where every run is of one kind: neither the actions nor the invariants
\* tell two runs or two processes apart.
Symmetry == Permutations(Runs) \union Permutations(Processes)
=============================================================================

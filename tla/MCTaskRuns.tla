----------------------------- MODULE MCTaskRuns -----------------------------
(* TaskRuns with the constants given in the configurations. *)
EXTENDS TaskRuns, TLC

\* Dispatch passes differ in nothing but their names, and so do requests.
Alike == Permutations(Dispatchers) \union Permutations(Clients)
=============================================================================

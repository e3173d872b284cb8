-------------------------- MODULE MCDelegationRuns --------------------------
(* DelegationRuns with the constants given in the configurations. *)
EXTENDS DelegationRuns
=============================================================================

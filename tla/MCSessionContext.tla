-------------------------- MODULE MCSessionContext --------------------------
(* SessionContext with the constants given in the configurations. *)
EXTENDS SessionContext
=============================================================================

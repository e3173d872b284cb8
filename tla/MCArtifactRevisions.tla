------------------------ MODULE MCArtifactRevisions -------------------------
(* ArtifactRevisions with the constants given in the configurations. *)
EXTENDS ArtifactRevisions, TLC

\* Calls are told apart by nothing but their name.
Symmetry == Permutations(Clients)
=============================================================================

----------------------------- MODULE MCPageLoad -----------------------------
(***************************************************************************)
(* PageLoad for TLC, together with the refinement of the registry.         *)
(***************************************************************************)
EXTENDS PageLoad, MCGovernanceApp
=============================================================================

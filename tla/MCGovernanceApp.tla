-------------------------- MODULE MCGovernanceApp --------------------------
(***************************************************************************)
(* GovernanceApp for TLC.                                                  *)
(***************************************************************************)
EXTENDS GovernanceApp, TLC

Symmetry == Permutations(Clients)
=============================================================================

-------------------------- MODULE MCWalletSession --------------------------
(***************************************************************************)
(* WalletSession for TLC.  Accounts are interchangeable: no definition     *)
(* compares them but for equality.                                         *)
(***************************************************************************)
EXTENDS WalletSession, TLC

Symmetry == Permutations(Accounts)
=============================================================================

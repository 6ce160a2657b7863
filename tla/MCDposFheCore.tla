--------------------------- MODULE MCDposFheCore ---------------------------
(***************************************************************************)
(* DposFheCore for TLC.  2^32 is scaled down to 2 and 2^64 to 4: four      *)
(* delegations of weight 1 wrap a total around, as 2^32 + 2 of the largest *)
(* weight would in the code.                                               *)
(***************************************************************************)
EXTENDS DposFheCore, TLC

\* The contract treats hashes alike; no property compares them in an order
Symmetry == Permutations(Hashes)
=============================================================================

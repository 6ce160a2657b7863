---------------------------- MODULE MCDposFheAcl ----------------------------
(***************************************************************************)
(* DposFheAcl for TLC: a ballot carries a client's ciphertext, or the      *)
(* total of delegation 1, or the total of delegations 1 and 2.             *)
(***************************************************************************)
EXTENDS DposFheAcl

CONSTANT c1 \* the ciphertext of a client

Totals == {[terms |-> 1 .. n, value |-> n] : n \in 1 .. 2}
SomeHandles == {c1} \cup Totals
=============================================================================

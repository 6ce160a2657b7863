-------------------------- MODULE UniversalAdapter --------------------------
(***************************************************************************)
(* The UniversalAdapter contract behind the web application: one mapping   *)
(* from keys to byte strings, written by anyone.  Its source is embedded   *)
(* in the compiler input artifacts/build-info/3117f982....json.  A key is  *)
(* a pair of a table and an id; keccak256 of the key is the key itself.    *)
(***************************************************************************)
VARIABLE store

\* What getData returns for a key that was never written
EmptyBytes == <<>>

AdapterInit == store = <<>>

SetData(key, value) ==
    store' = [k \in DOMAIN store \cup {key} |-> IF k = key THEN value ELSE store[k]]

GetData(key) == IF key \in DOMAIN store THEN store[key] ELSE EmptyBytes
=============================================================================

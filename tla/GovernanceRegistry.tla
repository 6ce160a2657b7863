------------------------- MODULE GovernanceRegistry -------------------------
(***************************************************************************)
(* What the web application promises its users: a registry of nodes with   *)
(* their votes, and of delegations, in which nothing entered is lost.      *)
(* Adding votes and recording the delegation are two steps, because the    *)
(* application may be interrupted between them; the registry never records *)
(* more delegated votes than it has counted.                               *)
(***************************************************************************)
EXTENDS Integers, FiniteSetsExt

CONSTANTS Owners, NodeIds, VoteAmounts

VARIABLES nodes,        \* node id -> [address, votes, status]
          delegations   \* set of [id, delegator, node, amount]

Recorded(node) ==
    LET OfNode == {d \in delegations : d.node = node}
        Amount(d) == d.amount
    IN  MapThenSumSet(Amount, OfNode)

Init == nodes = <<>> /\ delegations = {}

Register(id, owner) ==
    /\ id \notin DOMAIN nodes
    /\ nodes' = [n \in DOMAIN nodes \cup {id} |->
                    IF n = id THEN [address |-> owner, votes |-> 0, status |-> "pending"]
                              ELSE nodes[n]]
    /\ UNCHANGED delegations

AddVotes(id, amount) ==
    /\ id \in DOMAIN nodes
    /\ nodes' = [nodes EXCEPT ![id].votes = @ + amount]
    /\ UNCHANGED delegations

RecordDelegation(id, delegator, node, amount) ==
    /\ node \in DOMAIN nodes
    /\ Recorded(node) + amount <= nodes[node].votes
    /\ delegations' = delegations \cup
           {[id |-> id, delegator |-> delegator, node |-> node, amount |-> amount]}
    /\ UNCHANGED nodes

SetStatus(id, status) ==
    /\ id \in DOMAIN nodes
    /\ nodes' = [nodes EXCEPT ![id].status = status]
    /\ UNCHANGED delegations

Next ==
    \/ \E id \in NodeIds, owner \in Owners : Register(id, owner)
    \/ \E id \in NodeIds, amount \in VoteAmounts : AddVotes(id, amount)
    \/ \E id, node \in NodeIds, owner \in Owners, amount \in VoteAmounts :
           RecordDelegation(id, owner, node, amount)
    \/ \E id \in NodeIds, status \in {"active", "inactive"} : SetStatus(id, status)

Spec == Init /\ [][Next]_<<nodes, delegations>>
=============================================================================

---------------------------- MODULE GovernanceApp ----------------------------
(***************************************************************************)
(* The write side of the web application (frontend/web/src/App.tsx):       *)
(* several users, one browser tab and one account each, register nodes,    *)
(* delegate votes and change the status of their nodes by reading and      *)
(* rewriting JSON values in the UniversalAdapter contract.                 *)
(*                                                                         *)
(* One step is the code between two awaits.  "await contract.setData"      *)
(* returns once the transaction is submitted, not once it is mined: it     *)
(* joins the account's queue, ordered by nonce, and Mine applies it later. *)
(* "await contract.getData" reads the mined state.                         *)
(***************************************************************************)
EXTENDS Integers, Sequences, UniversalAdapter

CONSTANTS
    Clients,     \* users, each with a tab and an account of its own
    Amounts,     \* votes a button delegates: 1 and 5 in the code
    MaxOps,      \* bound on the operations started, and the ids they create
    Serialised,  \* TRUE: an operation starts only when nothing is in flight
    MayFail      \* TRUE: an await may throw, the user may reject or leave

ASSUME ClientAssumption == Amounts \subseteq Nat /\ MaxOps \in Nat
ASSUME ModeAssumption == {Serialised, MayFail} \subseteq BOOLEAN

VARIABLES
    mempool,    \* per client, its submitted transactions in nonce order
    pc,         \* per client, the await its current handler is at
    op,         \* per client, the locals of its current or last handler
    started,    \* operations started so far: the source of fresh ids
    shown,      \* the nodes, with owner and status, a page load can have displayed
    requested,  \* per node id, the votes added in submitted transactions
    completed   \* operations whose last transaction was submitted

appVars == <<mempool, pc, op, started, shown, requested, completed>>
vars == <<store, appVars>>

Ids == 1 .. MaxOps
Kinds == {"register", "delegate", "activate", "deactivate"}
Statuses == {"pending", "active", "inactive"}

NodeListKey == <<"node_list", 0>>
DelegationListKey == <<"delegation_list", 0>>
NodeKey(id) == <<"node", id>>
DelegationKey(id) == <<"delegation", id>>

Listed(list) == {list[i] : i \in DOMAIN list}
ListedNodes == Listed(GetData(NodeListKey))
ListedDelegations == Listed(GetData(DelegationListKey))

NoOp == [kind |-> "register", node |-> 0, amount |-> 0, id |-> 0,
         record |-> EmptyBytes, list |-> EmptyBytes]

\* A page load skips an id whose record is empty
DisplayedNodes == {id \in ListedNodes : GetData(NodeKey(id)) # EmptyBytes}

\* What a node's card shows of it, as far as the buttons depend on it
Card(id) == [node |-> id, address |-> GetData(NodeKey(id)).address,
             status |-> GetData(NodeKey(id)).status]

InFlight(c) == pc[c] # "idle" \/ mempool[c] # <<>>
Quiescent == \A c \in Clients : ~ InFlight(c)

----------------------------------------------------------------------------
Init ==
    /\ AdapterInit
    /\ mempool = [c \in Clients |-> <<>>]
    /\ pc = [c \in Clients |-> "idle"]
    /\ op = [c \in Clients |-> NoOp]
    /\ started = 0
    /\ shown = {}
    /\ requested = [id \in Ids |-> 0]
    /\ completed = {}

\* A button is pressed with the pointer: no handler of this tab is running, because
\* the status overlay covers the page until the last one has ended.  (What the
\* keyboard can press behind the overlay is in WalletSession.)
Start(c, kind, node, amount, next) ==
    /\ pc[c] = "idle"
    /\ Serialised => Quiescent
    /\ started < MaxOps
    /\ started' = started + 1
    /\ op' = [op EXCEPT ![c] = [kind |-> kind, node |-> node, amount |-> amount,
                                id |-> started + 1,
                                record |-> EmptyBytes, list |-> EmptyBytes]]
    /\ pc' = [pc EXCEPT ![c] = next]
    /\ UNCHANGED <<store, mempool, shown, requested, completed>>

Goto(c, next) == pc' = [pc EXCEPT ![c] = next]

\* setData: the user confirms and the wallet broadcasts the transaction
Submit(c, key, value) ==
    mempool' = [mempool EXCEPT ![c] = Append(@, [key |-> key, value |-> value])]

\* getData: the value is kept in a local of the handler
Read(c, local, key) == op' = [op EXCEPT ![c][local] = GetData(key)]

\* The last setData of a handler
Complete(c) ==
    completed' = completed \cup
        {[client |-> c, kind |-> op[c].kind, node |-> op[c].node,
          amount |-> op[c].amount, id |-> op[c].id]}

\* The new value of a node's record in delegateVotes
\* Mutant: the amount is added again on top of an optimistic update
WithVotesTwice(record, amount) == [record EXCEPT !.votes = @ + amount + amount]
WithVotes(record, amount) == [record EXCEPT !.votes = @ + amount]

\* ... and in activateNode and deactivateNode
\* Mutant: the record is rebuilt instead of spread
RebuiltWithStatus(record, kind) ==
    [address |-> record.address, votes |-> 0,
     status |-> IF kind = "activate" THEN "active" ELSE "inactive"]
WithStatus(record, kind) ==
    [record EXCEPT !.status = IF kind = "activate" THEN "active" ELSE "inactive"]

----------------------------------------------------------------------------
\* registerNode

\* Mutant: the id is not fresh
RegisterSameId(c) == Start(c, "register", 1, 0, "sendNode")
\* Mutant: the handler goes straight to the list
RegisterListOnly(c) == Start(c, "register", started + 1, 0, "readNodeList")
RegisterNode(c) == Start(c, "register", started + 1, 0, "sendNode")

SendNode(c) ==
    /\ pc[c] = "sendNode"
    /\ Submit(c, NodeKey(op[c].node), [address |-> c, votes |-> 0, status |-> "pending"])
    /\ Goto(c, "readNodeList")
    /\ UNCHANGED <<store, op, started, shown, requested, completed>>

ReadNodeList(c) ==
    /\ pc[c] = "readNodeList"
    /\ Read(c, "list", NodeListKey)
    /\ Goto(c, "sendNodeList")
    /\ UNCHANGED <<store, mempool, started, shown, requested, completed>>

SendNodeList(c) ==
    /\ pc[c] = "sendNodeList"
    /\ Submit(c, NodeListKey, Append(op[c].list, op[c].node))
    /\ Complete(c)
    /\ Goto(c, "succeed")
    /\ UNCHANGED <<store, op, started, shown, requested>>

----------------------------------------------------------------------------
\* delegateVotes

DelegateVotes(c, node, amount) ==
    /\ \E card \in shown : card.node = node
    /\ Start(c, "delegate", node, amount, "readNode")

\* Shared by delegateVotes, activateNode and deactivateNode: "Node not found"
\* ends the handler with an error
ReadNode(c) ==
    /\ pc[c] = "readNode"
    /\ Read(c, "record", NodeKey(op[c].node))
    /\ Goto(c, IF GetData(NodeKey(op[c].node)) = EmptyBytes THEN "idle"
               ELSE IF op[c].kind = "delegate" THEN "sendVotes" ELSE "sendStatus")
    /\ UNCHANGED <<store, mempool, started, shown, requested, completed>>

SendVotes(c) ==
    /\ pc[c] = "sendVotes"
    /\ Submit(c, NodeKey(op[c].node), WithVotes(op[c].record, op[c].amount))
    /\ requested' = [requested EXCEPT ![op[c].node] = @ + op[c].amount]
    /\ Goto(c, "sendDelegation")
    /\ UNCHANGED <<store, op, started, shown, completed>>

SendDelegation(c) ==
    /\ pc[c] = "sendDelegation"
    /\ Submit(c, DelegationKey(op[c].id),
              [delegator |-> c, node |-> op[c].node, amount |-> op[c].amount])
    /\ Goto(c, "readDelegationList")
    /\ UNCHANGED <<store, op, started, shown, requested, completed>>

ReadDelegationList(c) ==
    /\ pc[c] = "readDelegationList"
    /\ Read(c, "list", DelegationListKey)
    /\ Goto(c, "sendDelegationList")
    /\ UNCHANGED <<store, mempool, started, shown, requested, completed>>

SendDelegationList(c) ==
    /\ pc[c] = "sendDelegationList"
    /\ Submit(c, DelegationListKey, Append(op[c].list, op[c].id))
    /\ Complete(c)
    /\ Goto(c, "succeed")
    /\ UNCHANGED <<store, op, started, shown, requested>>

----------------------------------------------------------------------------
\* activateNode and deactivateNode: the buttons are drawn for the node's owner
\* only, from what the last page load displayed

\* Mutant: the buttons are drawn for everyone
AnyoneIsOwner(c, address) == TRUE
IsNodeOwner(c, address) == address = c

ActivateNode(c, node) ==
    /\ \E card \in shown : card.node = node /\ card.status = "pending" /\ IsNodeOwner(c, card.address)
    /\ Start(c, "activate", node, 0, "readNode")

DeactivateNode(c, node) ==
    /\ \E card \in shown : card.node = node /\ card.status = "active" /\ IsNodeOwner(c, card.address)
    /\ Start(c, "deactivate", node, 0, "readNode")

SendStatus(c) ==
    /\ pc[c] = "sendStatus"
    /\ Submit(c, NodeKey(op[c].node), WithStatus(op[c].record, op[c].kind))
    /\ Complete(c)
    /\ Goto(c, "succeed")
    /\ UNCHANGED <<store, op, started, shown, requested>>

----------------------------------------------------------------------------
\* Back from its last await a handler displays its success status
Succeed(c) ==
    /\ pc[c] = "succeed"
    /\ Goto(c, "idle")
    /\ UNCHANGED <<store, mempool, op, started, shown, requested, completed>>

\* The catch block of a handler: the user rejects the transaction, the node
\* cannot be reached, or the tab is closed.  What was submitted stays.
Fail(c) ==
    /\ MayFail /\ pc[c] # "idle"
    /\ Goto(c, "idle")
    /\ UNCHANGED <<store, mempool, op, started, shown, requested, completed>>

\* The chain applies the account's next transaction.  From then on a page load
\* can display the listed nodes, and nodes it found in an older list, with
\* their new status.
Mine(c) ==
    /\ mempool[c] # <<>>
    /\ LET tx == Head(mempool[c]) IN SetData(tx.key, tx.value)
    /\ mempool' = [mempool EXCEPT ![c] = Tail(@)]
    /\ shown' = shown \cup {Card(id)' : id \in DisplayedNodes' \cup {card.node : card \in shown}}
    /\ UNCHANGED <<pc, op, started, requested, completed>>

ClientNext(c) ==
    \/ RegisterNode(c) \/ SendNode(c) \/ ReadNodeList(c) \/ SendNodeList(c)
    \/ \E node \in Ids, amount \in Amounts : DelegateVotes(c, node, amount)
    \/ ReadNode(c) \/ SendVotes(c) \/ SendDelegation(c)
    \/ ReadDelegationList(c) \/ SendDelegationList(c)
    \/ \E node \in Ids : ActivateNode(c, node) \/ DeactivateNode(c, node)
    \/ SendStatus(c)
    \/ Succeed(c) \/ Fail(c) \/ Mine(c)

Next == \E c \in Clients : ClientNext(c)

Spec == Init /\ [][Next]_vars

----------------------------------------------------------------------------
\* Properties

\* A listed node or delegation has its record in the store, and a listed
\* delegation names a stored node: a list is submitted after the record it
\* points to, with a higher nonce, so no page load meets a dangling id.
ListedRecordsAreStored ==
    /\ \A id \in ListedNodes : GetData(NodeKey(id)) # EmptyBytes
    /\ \A id \in ListedDelegations :
           /\ GetData(DelegationKey(id)) # EmptyBytes
           /\ GetData(NodeKey(GetData(DelegationKey(id)).node)) # EmptyBytes

\* However writes to a node's record race, the record keeps its owner.
OwnersNeverChange ==
    [][\A id \in Ids : NodeKey(id) \in DOMAIN store =>
           GetData(NodeKey(id)).address' = GetData(NodeKey(id)).address]_vars

\* Racing read-modify-writes can lose votes but never invent any: a node has at
\* most the votes that submitted transactions added to it.
VotesAreBacked ==
    \A id \in Ids : NodeKey(id) \in DOMAIN store =>
        GetData(NodeKey(id)).votes <= requested[id]

\* A node has left "pending" only if its owner has activated or deactivated it:
\* stale rewrites by others bring back an old status, never a new one.
StatusIsOwnersChoice ==
    \A id \in Ids : NodeKey(id) \in DOMAIN store =>
        LET node == GetData(NodeKey(id))
        IN  node.status # "pending" =>
                \E o \in completed : /\ o.node = id /\ o.client = node.address
                                     /\ o.kind = IF node.status = "active" THEN "activate"
                                                                          ELSE "deactivate"

\* Displayed, and false in the code: "Node registered securely with FHE
\* encryption!" (line 229).  When no await throws, every completed registration
\* has displayed it once its tab is idle; and the node is not always listed.
RegistrationsAreListed ==
    ~ MayFail /\ Quiescent => \A o \in completed : o.kind = "register" => o.node \in ListedNodes

\* The registry a page load displays: the listed nodes and delegations
RegistryNodes == [id \in ListedNodes |-> GetData(NodeKey(id))]
RegistryDelegations ==
    {[id |-> id, delegator |-> GetData(DelegationKey(id)).delegator,
      node |-> GetData(DelegationKey(id)).node,
      amount |-> GetData(DelegationKey(id)).amount] : id \in ListedDelegations}

Registry == INSTANCE GovernanceRegistry WITH
    Owners <- Clients, NodeIds <- Ids, VoteAmounts <- Amounts,
    nodes <- RegistryNodes, delegations <- RegistryDelegations

\* As long as operations do not overlap, even interrupted ones, the displayed
\* registry only changes as an atomic registry may: nodes and delegations are
\* never lost, votes only grow, and a status change leaves the votes alone.
ImplementsRegistry == Registry!Spec
=============================================================================

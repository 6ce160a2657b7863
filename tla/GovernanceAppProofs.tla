------------------------ MODULE GovernanceAppProofs -------------------------
(***************************************************************************)
(* Machine-checked proofs about GovernanceApp: for any number of users,    *)
(* operations and votes, however their transactions interleave and         *)
(* wherever a handler is interrupted.                                      *)
(***************************************************************************)
EXTENDS GovernanceApp, SetSums, TLAPS

----------------------------------------------------------------------------
\* The inductive invariant.  First the types.

NodeRecord == [address : Clients, votes : Nat, status : Statuses]
DelegationRecord == [delegator : Clients, node : Ids, amount : Nat]

ListKeys == {NodeListKey, DelegationListKey}
NodeKeys == {NodeKey(id) : id \in Ids}
DelegationKeys == {DelegationKey(id) : id \in Ids}

Transaction == [key : ListKeys, value : Seq(Ids)] \cup [key : NodeKeys, value : NodeRecord]
                                                  \cup [key : DelegationKeys, value : DelegationRecord]

Awaits == {"idle", "sendNode", "readNodeList", "sendNodeList", "readNode", "sendVotes",
           "sendDelegation", "readDelegationList", "sendDelegationList", "sendStatus", "succeed"}

Operation == [kind : Kinds, node : 0 .. MaxOps, amount : Nat, id : 0 .. MaxOps,
              record : NodeRecord \cup {EmptyBytes}, list : Seq(Ids)]

StoreOK == \A k \in DOMAIN store : [key |-> k, value |-> store[k]] \in Transaction

TypeOK ==
    /\ StoreOK
    /\ mempool \in [Clients -> Seq(Transaction)]
    /\ pc \in [Clients -> Awaits]
    /\ op \in [Clients -> Operation]
    /\ started \in 0 .. MaxOps
    /\ shown \subseteq [node : Ids, address : Clients, status : Statuses]
    /\ requested \in [Ids -> Nat]
    /\ completed \subseteq [client : Clients, kind : Kinds, node : Ids, amount : Nat, id : Ids]

\* What a handler works on at each of its awaits; ids are given out once
Registering(c) == pc[c] \in {"sendNode", "readNodeList", "sendNodeList"}
Delegating(c) == pc[c] \in {"sendVotes", "sendDelegation", "readDelegationList", "sendDelegationList"}
HoldsRecord(c) == pc[c] \in {"sendVotes", "sendStatus"}

ClientControl(c) ==
    /\ op[c].id <= started
    /\ pc[c] # "idle" => op[c].id \in Ids /\ op[c].node \in Ids
    /\ Registering(c) => op[c].kind = "register" /\ op[c].node = op[c].id
    /\ pc[c] = "readNode" => op[c].kind # "register"
    /\ Delegating(c) => op[c].kind = "delegate"
    /\ pc[c] = "sendStatus" => op[c].kind \in {"activate", "deactivate"}
    /\ HoldsRecord(c) => op[c].record \in NodeRecord

Control ==
    /\ \A c \in Clients : ClientControl(c)
    /\ \A c, d \in Clients : op[c].id = op[d].id => c = d \/ op[c].id = 0

----------------------------------------------------------------------------
\* What the store and the queues hold of a key, and who still holds an old value

IsStored(key) == key \in DOMAIN store

\* The record at a key is stored, or on its way before position i of c's queue
ComesBefore(c, i, key) ==
    IsStored(key) \/ \E j \in DOMAIN mempool[c] : j < i /\ mempool[c][j].key = key

Sent(key) ==
    {store[k] : k \in {key} \cap DOMAIN store} \cup
    UNION {{mempool[c][i].value : i \in {j \in DOMAIN mempool[c] : mempool[c][j].key = key}}
              : c \in Clients}

NodeVersions(id) ==
    Sent(NodeKey(id)) \cup
    {op[c].record : c \in {d \in Clients : HoldsRecord(d) /\ op[d].node = id}}

----------------------------------------------------------------------------
\* No dangling ids

\* In each queue a list comes after the records of the ids it adds
QueuePoints(c) ==
    \A i \in DOMAIN mempool[c] :
        /\ mempool[c][i].key = NodeListKey =>
               \A id \in Listed(mempool[c][i].value) : ComesBefore(c, i, NodeKey(id))
        /\ mempool[c][i].key = DelegationListKey =>
               \A id \in Listed(mempool[c][i].value) : ComesBefore(c, i, DelegationKey(id))

\* What a handler has read and the node it works on are stored
HandlerPoints(c) ==
    /\ pc[c] \in {"readNodeList", "sendNodeList"} =>
           ComesBefore(c, Len(mempool[c]) + 1, NodeKey(op[c].node))
    /\ pc[c] = "sendNodeList" => \A id \in Listed(op[c].list) : IsStored(NodeKey(id))
    /\ pc[c] \in {"readDelegationList", "sendDelegationList"} =>
           ComesBefore(c, Len(mempool[c]) + 1, DelegationKey(op[c].id))
    /\ pc[c] = "sendDelegationList" => \A id \in Listed(op[c].list) : IsStored(DelegationKey(id))
    /\ Delegating(c) \/ pc[c] = "sendStatus" => IsStored(NodeKey(op[c].node))

ListsPoint ==
    /\ \A id \in ListedNodes : IsStored(NodeKey(id))
    /\ \A id \in ListedDelegations : IsStored(DelegationKey(id))

DelegationsPoint == \A id \in Ids : \A d \in Sent(DelegationKey(id)) : IsStored(NodeKey(d.node))

Pointers ==
    /\ \A c \in Clients : QueuePoints(c) /\ HandlerPoints(c)
    /\ ListsPoint /\ DelegationsPoint

----------------------------------------------------------------------------
\* All versions of a node's record

\* Its owner changed the status it has
StatusChosen(id, v) ==
    v.status # "pending" =>
        \E o \in completed : /\ o.node = id /\ o.client = v.address
                             /\ o.kind = IF v.status = "active" THEN "activate" ELSE "deactivate"

\* However old, they agree on the owner, and each is backed by what happened
Versions ==
    \A id \in Ids :
        /\ \A v, w \in NodeVersions(id) : v.address = w.address
        /\ \A v \in NodeVersions(id) : v.votes <= requested[id] /\ StatusChosen(id, v)

\* There is none before the registration has sent the first
FreshNodes ==
    /\ \A id \in Ids : NodeVersions(id) # {} => id <= started
    /\ \A c \in Clients : pc[c] = "sendNode" => NodeVersions(op[c].node) = {}

\* The status buttons are the owner's
OwnersAct ==
    /\ \A card \in shown : /\ IsStored(NodeKey(card.node))
                           /\ store[NodeKey(card.node)].address = card.address
    /\ \A c \in Clients :
           pc[c] \in {"readNode", "sendStatus"} /\ op[c].kind \in {"activate", "deactivate"} =>
               /\ IsStored(NodeKey(op[c].node))
               /\ store[NodeKey(op[c].node)].address = c

IInv == TypeOK /\ Control /\ Pointers /\ Versions /\ FreshNodes /\ OwnersAct

----------------------------------------------------------------------------
\* Keys, records and lists

\* Keys of different tables or ids are different.
LEMMA KeysDiffer ==
    /\ \A i, j \in Ids : NodeKey(i) = NodeKey(j) => i = j
    /\ \A i, j \in Ids : DelegationKey(i) = DelegationKey(j) => i = j
    /\ \A i, j \in Ids : NodeKey(i) # DelegationKey(j)
    /\ NodeListKey # DelegationListKey
    /\ \A i \in Ids : NodeListKey \notin {NodeKey(i), DelegationKey(i)}
    /\ \A i \in Ids : DelegationListKey \notin {NodeKey(i), DelegationKey(i)}
  BY DEF NodeKey, DelegationKey, NodeListKey, DelegationListKey

\* No record is the empty byte string.
LEMMA RecordsAreNotEmpty ==
    /\ \A r \in NodeRecord : r # EmptyBytes
    /\ \A r \in DelegationRecord : r # EmptyBytes
  BY DEF NodeRecord, DelegationRecord, EmptyBytes

\* A transaction has a value of the kind its key asks for.
LEMMA TransactionType ==
    ASSUME NEW tx \in Transaction
    PROVE  /\ tx = [key |-> tx.key, value |-> tx.value]
           /\ tx.key \in ListKeys => tx.value \in Seq(Ids)
           /\ \A id \in Ids : tx.key = NodeKey(id) => tx.value \in NodeRecord
           /\ \A id \in Ids : tx.key = DelegationKey(id) => tx.value \in DelegationRecord
  <1>1. CASE tx \in [key : ListKeys, value : Seq(Ids)]
    BY <1>1, KeysDiffer DEF ListKeys
  <1>2. CASE tx \in [key : NodeKeys, value : NodeRecord]
    BY <1>2, KeysDiffer DEF NodeKeys, ListKeys
  <1>3. CASE tx \in [key : DelegationKeys, value : DelegationRecord]
    BY <1>3, KeysDiffer DEF DelegationKeys, ListKeys
  <1> QED
    BY <1>1, <1>2, <1>3 DEF Transaction

\* What is stored has the type of its key, too.
LEMMA StoreType ==
    ASSUME StoreOK
    PROVE  /\ \A k \in ListKeys : IsStored(k) => store[k] \in Seq(Ids)
           /\ \A id \in Ids : IsStored(NodeKey(id)) => store[NodeKey(id)] \in NodeRecord
           /\ \A id \in Ids : IsStored(DelegationKey(id)) => store[DelegationKey(id)] \in DelegationRecord
  <1>1. ASSUME NEW k \in DOMAIN store
        PROVE  /\ k \in ListKeys => store[k] \in Seq(Ids)
               /\ \A id \in Ids : k = NodeKey(id) => store[k] \in NodeRecord
               /\ \A id \in Ids : k = DelegationKey(id) => store[k] \in DelegationRecord
    <2> DEFINE tx == [key |-> k, value |-> store[k]]
    <2>1. tx \in Transaction
      BY DEF StoreOK
    <2>2. tx.key = k /\ tx.value = store[k]
      OBVIOUS
    <2> HIDE DEF tx
    <2> QED
      BY <2>1, <2>2, TransactionType
  <1> QED
    BY <1>1 DEF IsStored

\* What a handler reads: a list, perhaps empty, a record, or nothing.
LEMMA ReadType ==
    ASSUME StoreOK
    PROVE  /\ GetData(NodeListKey) \in Seq(Ids) /\ GetData(DelegationListKey) \in Seq(Ids)
           /\ \A id \in Ids :
                  IF IsStored(NodeKey(id))
                  THEN /\ GetData(NodeKey(id)) = store[NodeKey(id)]
                       /\ GetData(NodeKey(id)) \in NodeRecord /\ GetData(NodeKey(id)) # EmptyBytes
                  ELSE GetData(NodeKey(id)) = EmptyBytes
  BY StoreType, RecordsAreNotEmpty DEF GetData, IsStored, ListKeys, EmptyBytes

\* A list of ids names ids.
LEMMA ListedType == \A list \in Seq(Ids) : Listed(list) \subseteq Ids
  BY DEF Listed

\* The ids of a list that grew by one.
LEMMA ListedAppend ==
    \A list \in Seq(Ids), id \in Ids : Listed(Append(list, id)) = Listed(list) \cup {id}
  <1> TAKE list \in Seq(Ids), id \in Ids
  <1>1. /\ Append(list, id) \in Seq(Ids) /\ DOMAIN Append(list, id) = 1 .. Len(list) + 1
        /\ DOMAIN list = 1 .. Len(list) /\ Append(list, id)[Len(list) + 1] = id
        /\ \A i \in DOMAIN list : Append(list, id)[i] = list[i]
    OBVIOUS
  <1>2. Listed(Append(list, id)) \subseteq Listed(list) \cup {id}
    BY <1>1 DEF Listed
  <1>3. Listed(list) \subseteq Listed(Append(list, id))
    BY <1>1 DEF Listed
  <1>4. id \in Listed(Append(list, id))
    BY <1>1 DEF Listed
  <1> QED
    BY <1>2, <1>3, <1>4

----------------------------------------------------------------------------
\* What a step does to a queue and to what was sent

\* Submit puts the transaction behind those of the same account.
LEMMA QueueAfterSubmit ==
    ASSUME TypeOK, NEW c \in Clients, NEW key, NEW value,
           [key |-> key, value |-> value] \in Transaction, Submit(c, key, value)
    PROVE  /\ mempool' \in [Clients -> Seq(Transaction)]
           /\ \A d \in Clients \ {c} : mempool'[d] = mempool[d]
           /\ Len(mempool'[c]) = Len(mempool[c]) + 1
           /\ DOMAIN mempool[c] = 1 .. Len(mempool[c]) /\ Len(mempool[c]) \in Nat
           /\ DOMAIN mempool'[c] = 1 .. Len(mempool[c]) + 1
           /\ \A i \in DOMAIN mempool[c] : mempool'[c][i] = mempool[c][i]
           /\ mempool'[c][Len(mempool[c]) + 1] = [key |-> key, value |-> value]
  <1>1. mempool \in [Clients -> Seq(Transaction)] /\ mempool[c] \in Seq(Transaction)
    BY DEF TypeOK
  <1> QED
    BY <1>1 DEF Submit

\* Mine takes the first transaction of the account and stores it.
LEMMA QueueAfterMine ==
    ASSUME TypeOK, NEW c \in Clients, Mine(c)
    PROVE  /\ mempool[c] # <<>> /\ 1 \in DOMAIN mempool[c] /\ mempool[c][1] \in Transaction
           /\ mempool' \in [Clients -> Seq(Transaction)]
           /\ \A d \in Clients \ {c} : mempool'[d] = mempool[d]
           /\ DOMAIN mempool[c] = 1 .. Len(mempool[c]) /\ Len(mempool[c]) \in Nat
           /\ Len(mempool'[c]) = Len(mempool[c]) - 1
           /\ DOMAIN mempool'[c] = 1 .. Len(mempool[c]) - 1
           /\ \A i \in DOMAIN mempool'[c] : i + 1 \in DOMAIN mempool[c] /\ mempool'[c][i] = mempool[c][i + 1]
           /\ DOMAIN store' = DOMAIN store \cup {mempool[c][1].key}
           /\ store'[mempool[c][1].key] = mempool[c][1].value
           /\ \A k \in DOMAIN store : k # mempool[c][1].key => store'[k] = store[k]
  <1>1. mempool \in [Clients -> Seq(Transaction)] /\ mempool[c] \in Seq(Transaction) /\ mempool[c] # <<>>
    BY DEF TypeOK, Mine
  <1>2. Head(mempool[c]) = mempool[c][1] /\ mempool' = [mempool EXCEPT ![c] = Tail(@)]
    BY <1>1 DEF Mine
  <1>3. SetData(mempool[c][1].key, mempool[c][1].value)
    BY <1>2 DEF Mine
  <1>4. /\ DOMAIN store' = DOMAIN store \cup {mempool[c][1].key}
        /\ store'[mempool[c][1].key] = mempool[c][1].value
        /\ \A k \in DOMAIN store : k # mempool[c][1].key => store'[k] = store[k]
    BY <1>3 DEF SetData
  <1> QED
    BY <1>1, <1>2, <1>4

\* What Sent is: the stored value and the queued ones.
LEMMA SentMember ==
    ASSUME NEW key, NEW v
    PROVE  v \in Sent(key) <=>
               \/ IsStored(key) /\ v = store[key]
               \/ \E c \in Clients : \E i \in DOMAIN mempool[c] :
                      mempool[c][i].key = key /\ v = mempool[c][i].value
  <1> DEFINE InQueue(c) == {mempool[c][i].value : i \in {j \in DOMAIN mempool[c] : mempool[c][j].key = key}}
  <1>1. v \in {store[k] : k \in {key} \cap DOMAIN store} <=> IsStored(key) /\ v = store[key]
    BY DEF IsStored
  <1>2. \A c \in Clients : v \in InQueue(c) <=>
            \E i \in DOMAIN mempool[c] : mempool[c][i].key = key /\ v = mempool[c][i].value
    OBVIOUS
  <1>3. v \in UNION {InQueue(c) : c \in Clients} <=> \E c \in Clients : v \in InQueue(c)
    OBVIOUS
  <1> QED
    BY <1>1, <1>2, <1>3, Zenon DEF Sent

\* ... and after a step.
LEMMA SentMemberNext ==
    ASSUME NEW key, NEW v
    PROVE  v \in Sent(key)' <=>
               \/ key \in DOMAIN store' /\ v = store'[key]
               \/ \E c \in Clients : \E i \in DOMAIN mempool'[c] :
                      mempool'[c][i].key = key /\ v = mempool'[c][i].value
  <1> DEFINE InQueue(c) == {mempool'[c][i].value : i \in {j \in DOMAIN mempool'[c] : mempool'[c][j].key = key}}
  <1>1. v \in {store'[k] : k \in {key} \cap DOMAIN store'} <=> key \in DOMAIN store' /\ v = store'[key]
    OBVIOUS
  <1>2. \A c \in Clients : v \in InQueue(c) <=>
            \E i \in DOMAIN mempool'[c] : mempool'[c][i].key = key /\ v = mempool'[c][i].value
    OBVIOUS
  <1>3. v \in UNION {InQueue(c) : c \in Clients} <=> \E c \in Clients : v \in InQueue(c)
    OBVIOUS
  <1> QED
    BY <1>1, <1>2, <1>3, Zenon DEF Sent

\* Submitting adds one value to what was sent, and mining, which may overwrite
\* a stored value, adds none.
LEMMA SentAfterSubmit ==
    ASSUME TypeOK, NEW c \in Clients, NEW key, NEW value,
           [key |-> key, value |-> value] \in Transaction, Submit(c, key, value), UNCHANGED store
    PROVE  \A k, v : v \in Sent(k)' <=> v \in Sent(k) \/ (k = key /\ v = value)
  <1> TAKE k, v
  <1>1. \A d \in Clients \ {c} : mempool'[d] = mempool[d]
    BY QueueAfterSubmit
  <1> DEFINE n == Len(mempool[c])
  <1>2. /\ n \in Nat /\ DOMAIN mempool[c] = 1 .. n /\ DOMAIN mempool'[c] = 1 .. n + 1
        /\ \A i \in 1 .. n : mempool'[c][i] = mempool[c][i]
        /\ mempool'[c][n + 1] = [key |-> key, value |-> value]
    BY QueueAfterSubmit
  <1> HIDE DEF n
  <1>3. (\E i \in DOMAIN mempool'[c] : mempool'[c][i].key = k /\ v = mempool'[c][i].value) <=>
        \/ \E i \in DOMAIN mempool[c] : mempool[c][i].key = k /\ v = mempool[c][i].value
        \/ k = key /\ v = value
    <2>1. 1 .. n + 1 = (1 .. n) \cup {n + 1}
      BY <1>2
    <2> QED
      BY <1>2, <2>1
  <1> QED
    BY <1>1, <1>3, SentMember, SentMemberNext DEF IsStored

\* Mining sends nothing that was not sent.
LEMMA SentAfterMine ==
    ASSUME TypeOK, NEW c \in Clients, Mine(c)
    PROVE  \A k : Sent(k)' \subseteq Sent(k)
  <1> SUFFICES ASSUME NEW k, NEW v \in Sent(k)' PROVE v \in Sent(k)
    OBVIOUS
  <1> DEFINE tx == mempool[c][1]
  <1>0. /\ DOMAIN store' = DOMAIN store \cup {tx.key}
        /\ \A key \in DOMAIN store : key # tx.key => store'[key] = store[key]
    BY QueueAfterMine
  <1>1. ASSUME k \in DOMAIN store', v = store'[k] PROVE v \in Sent(k)
    <2>1. CASE k = tx.key
      <3>1. v = tx.value /\ 1 \in DOMAIN mempool[c]
        BY <1>1, <2>1, QueueAfterMine
      <3> QED
        BY <2>1, <3>1, SentMember
    <2>2. CASE k # tx.key
      <3>1. k \in DOMAIN store /\ v = store[k]
        BY <1>0, <1>1, <2>2
      <3> QED
        BY <3>1, SentMember DEF IsStored
    <2> QED
      BY <2>1, <2>2
  <1>2. ASSUME NEW d \in Clients, NEW i \in DOMAIN mempool'[d],
               mempool'[d][i].key = k, v = mempool'[d][i].value
        PROVE  v \in Sent(k)
    <2>1. CASE d = c
      <3>1. i + 1 \in DOMAIN mempool[d] /\ mempool'[d][i] = mempool[d][i + 1]
        BY <1>2, <2>1, QueueAfterMine
      <3> QED
        BY <1>2, <3>1, SentMember
    <2>2. CASE d # c
      <3>1. mempool'[d] = mempool[d]
        BY <1>2, <2>2, QueueAfterMine
      <3> QED
        BY <1>2, <3>1, SentMember
    <2> QED
      BY <2>1, <2>2
  <1> QED
    BY <1>1, <1>2, SentMemberNext

\* What was sent is in the store and the queues.
LEMMA SentUnchanged == UNCHANGED <<store, mempool>> => \A k : Sent(k)' = Sent(k)
  BY DEF Sent

\* What was sent under a key has the type of that key.
LEMMA SentType ==
    ASSUME TypeOK
    PROVE  /\ \A k \in ListKeys : Sent(k) \subseteq Seq(Ids)
           /\ \A id \in Ids : Sent(NodeKey(id)) \subseteq NodeRecord
           /\ \A id \in Ids : Sent(DelegationKey(id)) \subseteq DelegationRecord
  <1>1. ASSUME NEW c \in Clients, NEW i \in DOMAIN mempool[c]
        PROVE  mempool[c][i] \in Transaction
    <2>1. mempool[c] \in Seq(Transaction)
      BY DEF TypeOK
    <2> QED
      BY <2>1
  <1>2. StoreOK
    BY DEF TypeOK
  <1>3. ASSUME NEW k \in ListKeys, NEW v \in Sent(k) PROVE v \in Seq(Ids)
    BY <1>1, <1>2, TransactionType, StoreType, SentMember
  <1>4. ASSUME NEW id \in Ids, NEW v \in Sent(NodeKey(id)) PROVE v \in NodeRecord
    BY <1>1, <1>2, TransactionType, StoreType, SentMember
  <1>5. ASSUME NEW id \in Ids, NEW v \in Sent(DelegationKey(id)) PROVE v \in DelegationRecord
    BY <1>1, <1>2, TransactionType, StoreType, SentMember
  <1> QED
    BY <1>3, <1>4, <1>5

\* A queued or stored value was sent.
LEMMA SentValues ==
    /\ \A k : IsStored(k) => store[k] \in Sent(k)
    /\ \A c \in Clients : \A i \in DOMAIN mempool[c] : mempool[c][i].value \in Sent(mempool[c][i].key)
  BY SentMember

----------------------------------------------------------------------------
\* Types and control

\* What each handler submits.
Submits(c, key, value) ==
    Submit(c, key, value) /\ [key |-> key, value |-> value] \in Transaction

FirstRecord(c) == [address |-> c, votes |-> 0, status |-> "pending"]
Delegation(c) == [delegator |-> c, node |-> op[c].node, amount |-> op[c].amount]

\* What each submitting step puts in the queue.
LEMMA Submissions ==
    ASSUME TypeOK, Control, NEW c \in Clients
    PROVE  /\ SendNode(c) => Submits(c, NodeKey(op[c].node), FirstRecord(c))
           /\ SendNodeList(c) => Submits(c, NodeListKey, Append(op[c].list, op[c].node))
           /\ SendVotes(c) => Submits(c, NodeKey(op[c].node), WithVotes(op[c].record, op[c].amount))
           /\ SendDelegation(c) => Submits(c, DelegationKey(op[c].id), Delegation(c))
           /\ SendDelegationList(c) => Submits(c, DelegationListKey, Append(op[c].list, op[c].id))
           /\ SendStatus(c) => Submits(c, NodeKey(op[c].node), WithStatus(op[c].record, op[c].kind))
  <1>1. /\ op[c].amount \in Nat /\ op[c].list \in Seq(Ids)
        /\ pc[c] # "idle" => op[c].node \in Ids /\ op[c].id \in Ids
        /\ HoldsRecord(c) => op[c].record \in NodeRecord
    BY DEF TypeOK, Operation, Control, ClientControl
  <1>2. ASSUME NEW id \in Ids, NEW r \in NodeRecord
        PROVE  [key |-> NodeKey(id), value |-> r] \in Transaction
    BY <1>2 DEF Transaction, NodeKeys
  <1>3. ASSUME NEW id \in Ids, NEW r \in DelegationRecord
        PROVE  [key |-> DelegationKey(id), value |-> r] \in Transaction
    BY <1>3 DEF Transaction, DelegationKeys
  <1>4. ASSUME NEW k \in ListKeys, NEW list \in Seq(Ids)
        PROVE  [key |-> k, value |-> list] \in Transaction
    BY <1>4 DEF Transaction
  <1>5. ASSUME SendNode(c) PROVE Submits(c, NodeKey(op[c].node), FirstRecord(c))
    <2>1. FirstRecord(c) \in NodeRecord
      BY DEF FirstRecord, NodeRecord, Statuses
    <2> QED
      BY <1>1, <1>2, <1>5, <2>1 DEF SendNode, Submits, FirstRecord
  <1>6. ASSUME SendNodeList(c) PROVE Submits(c, NodeListKey, Append(op[c].list, op[c].node))
    <2>1. Append(op[c].list, op[c].node) \in Seq(Ids)
      <3>1. op[c].list \in Seq(Ids) /\ op[c].node \in Ids
        BY <1>1, <1>6 DEF SendNodeList
      <3> QED
        BY <3>1
    <2>2. NodeListKey \in ListKeys
      BY DEF ListKeys
    <2> QED
      BY <1>4, <1>6, <2>1, <2>2 DEF SendNodeList, Submits
  <1>7. ASSUME SendVotes(c)
        PROVE  Submits(c, NodeKey(op[c].node), WithVotes(op[c].record, op[c].amount))
    <2>1. WithVotes(op[c].record, op[c].amount) \in NodeRecord
      BY <1>1, <1>7 DEF SendVotes, HoldsRecord, WithVotes, NodeRecord
    <2> QED
      BY <1>1, <1>2, <1>7, <2>1 DEF SendVotes, Submits
  <1>8. ASSUME SendDelegation(c) PROVE Submits(c, DelegationKey(op[c].id), Delegation(c))
    <2>1. Delegation(c) \in DelegationRecord
      BY <1>1, <1>8 DEF SendDelegation, Delegation, DelegationRecord
    <2> QED
      BY <1>1, <1>3, <1>8, <2>1 DEF SendDelegation, Submits, Delegation
  <1>9. ASSUME SendDelegationList(c) PROVE Submits(c, DelegationListKey, Append(op[c].list, op[c].id))
    BY <1>1, <1>4, <1>9 DEF SendDelegationList, Submits, ListKeys
  <1>10. ASSUME SendStatus(c)
         PROVE  Submits(c, NodeKey(op[c].node), WithStatus(op[c].record, op[c].kind))
    <2>1. WithStatus(op[c].record, op[c].kind) \in NodeRecord
      BY <1>1, <1>10 DEF SendStatus, HoldsRecord, WithStatus, NodeRecord, Statuses
    <2> QED
      BY <1>1, <1>2, <1>10, <2>1 DEF SendStatus, Submits
  <1> QED
    BY <1>5, <1>6, <1>7, <1>8, <1>9, <1>10

\* A step that presses a button
Starts(c) ==
    \/ RegisterNode(c)
    \/ \E node \in Ids, amount \in Amounts : DelegateVotes(c, node, amount)
    \/ \E node \in Ids : ActivateNode(c, node) \/ DeactivateNode(c, node)

\* All that may differ between the four buttons.
LEMMA StartsOperation ==
    ASSUME TypeOK, NEW c \in Clients, Starts(c)
    PROVE  \E kind \in Kinds, node \in Ids, amount \in Nat, next \in {"sendNode", "readNode"} :
               /\ Start(c, kind, node, amount, next)
               /\ next = "sendNode" => kind = "register" /\ node = started + 1
               /\ next = "readNode" => kind # "register" /\ \E card \in shown : card.node = node
               /\ kind \in {"activate", "deactivate"} =>
                      \E card \in shown : card.node = node /\ card.address = c
               /\ kind = "delegate" => amount \in Amounts
  <1> USE ClientAssumption DEF Kinds, Ids
  <1>1. CASE RegisterNode(c)
    <2>1. started + 1 \in Ids
      BY <1>1 DEF RegisterNode, Start, TypeOK
    <2> QED
      BY <1>1, <2>1 DEF RegisterNode
  <1>2. ASSUME NEW node \in Ids, NEW amount \in Amounts, DelegateVotes(c, node, amount)
        PROVE  Start(c, "delegate", node, amount, "readNode") /\ amount \in Nat
               /\ \E card \in shown : card.node = node
    BY <1>2 DEF DelegateVotes
  <1>3. ASSUME NEW node \in Ids, ActivateNode(c, node)
        PROVE  Start(c, "activate", node, 0, "readNode")
               /\ \E card \in shown : card.node = node /\ card.address = c
    BY <1>3 DEF ActivateNode, IsNodeOwner
  <1>4. ASSUME NEW node \in Ids, DeactivateNode(c, node)
        PROVE  Start(c, "deactivate", node, 0, "readNode")
               /\ \E card \in shown : card.node = node /\ card.address = c
    BY <1>4 DEF DeactivateNode, IsNodeOwner
  <1> HIDE DEF Start
  <1> QED
    BY <1>1, <1>2, <1>3, <1>4 DEF Starts

\* Whatever a handler submits, the queues keep their type.
LEMMA QueuesKeepType ==
    ASSUME TypeOK, NEW c \in Clients, NEW key, NEW value, Submits(c, key, value)
    PROVE  mempool' \in [Clients -> Seq(Transaction)]
  BY QueueAfterSubmit DEF Submits

\* A success names the operation that ended.
LEMMA CompletionType ==
    ASSUME TypeOK, Control, NEW c \in Clients, pc[c] # "idle", Complete(c)
    PROVE  completed' \subseteq [client : Clients, kind : Kinds, node : Ids, amount : Nat, id : Ids]
  BY DEF TypeOK, Operation, Control, ClientControl, Complete

\* A card that can be displayed names a node that is stored.
LEMMA CardType ==
    ASSUME StoreOK
    PROVE  \A id \in Ids : IsStored(NodeKey(id)) =>
               /\ Card(id) \in [node : Ids, address : Clients, status : Statuses]
               /\ Card(id).node = id /\ Card(id).address = store[NodeKey(id)].address
               /\ Card(id).status = store[NodeKey(id)].status
  BY ReadType DEF Card, NodeRecord

\* A displayed node is listed, and its record stored.
LEMMA DisplayedType ==
    ASSUME StoreOK
    PROVE  \A id \in DisplayedNodes : id \in Ids /\ IsStored(NodeKey(id)) /\ id \in ListedNodes
  BY ReadType, ListedType DEF DisplayedNodes, ListedNodes

\* After a transaction is mined, a card is that of a stored node, as it is now,
\* or an older one.
LEMMA CardsAfterMine ==
    ASSUME TypeOK, OwnersAct, NEW c \in Clients, Mine(c), StoreOK'
    PROVE  \A card \in shown' : card \notin shown =>
               /\ card \in [node : Ids, address : Clients, status : Statuses]
               /\ IsStored(NodeKey(card.node))' /\ card = Card(card.node)'
  <1>1. \A id : IsStored(NodeKey(id)) => IsStored(NodeKey(id))'
    BY QueueAfterMine DEF IsStored
  <1>2. (\A id \in DisplayedNodes : id \in Ids /\ IsStored(NodeKey(id)) /\ id \in ListedNodes)'
    BY DisplayedType, PTL
  <1>3. \A card \in shown : card.node \in Ids /\ IsStored(NodeKey(card.node))'
    BY <1>1 DEF TypeOK, OwnersAct
  <1>4. (\A id \in Ids : IsStored(NodeKey(id)) =>
             /\ Card(id) \in [node : Ids, address : Clients, status : Statuses]
             /\ Card(id).node = id /\ Card(id).address = store[NodeKey(id)].address
             /\ Card(id).status = store[NodeKey(id)].status)'
    BY CardType, PTL
  <1>5. ASSUME NEW card \in shown', card \notin shown
        PROVE  \E id \in DisplayedNodes' \cup {old.node : old \in shown} : card = Card(id)'
    BY <1>5 DEF Mine
  <1> QED
    BY <1>2, <1>3, <1>4, <1>5

\* Every step keeps the types.
LEMMA TypeStep ==
    ASSUME TypeOK, Control, OwnersAct, NEW c \in Clients, ClientNext(c)
    PROVE  TypeOK'
  <1>1. CASE Starts(c)
    <2>1. PICK kind \in Kinds, node \in Ids, amount \in Nat, next \in {"sendNode", "readNode"} :
              Start(c, kind, node, amount, next)
      BY <1>1, StartsOperation
    <2>2. op' \in [Clients -> Operation]
      BY <2>1, ClientAssumption DEF Start, Operation, TypeOK, Ids, EmptyBytes
    <2>3. pc' \in [Clients -> Awaits] /\ started' \in 0 .. MaxOps
      BY <2>1, ClientAssumption DEF Start, TypeOK, StoreOK, Awaits
    <2> QED
      BY <2>1, <2>2, <2>3 DEF Start, TypeOK, StoreOK
  <1>2. CASE SendNode(c)
    <2>1. mempool' \in [Clients -> Seq(Transaction)]
      BY <1>2, Submissions, QueuesKeepType
    <2> QED
      BY <1>2, <2>1 DEF SendNode, Goto, TypeOK, StoreOK, Awaits
  <1>3. CASE SendNodeList(c)
    <2>1. mempool' \in [Clients -> Seq(Transaction)]
      BY <1>3, Submissions, QueuesKeepType
    <2> QED
      BY <1>3, <2>1, CompletionType DEF SendNodeList, Goto, TypeOK, StoreOK, Awaits
  <1>4. CASE SendVotes(c)
    <2>1. mempool' \in [Clients -> Seq(Transaction)]
      BY <1>4, Submissions, QueuesKeepType
    <2>2. op[c].amount \in Nat /\ op[c].node \in Ids /\ requested[op[c].node] \in Nat
      BY <1>4 DEF SendVotes, TypeOK, Operation, Control, ClientControl
    <2>3. requested' \in [Ids -> Nat]
      BY <1>4, <2>2 DEF SendVotes, TypeOK
    <2> QED
      BY <1>4, <2>1, <2>3 DEF SendVotes, Goto, TypeOK, StoreOK, Awaits
  <1>5. CASE SendDelegation(c)
    <2>1. mempool' \in [Clients -> Seq(Transaction)]
      BY <1>5, Submissions, QueuesKeepType
    <2> QED
      BY <1>5, <2>1 DEF SendDelegation, Goto, TypeOK, StoreOK, Awaits
  <1>6. CASE SendDelegationList(c)
    <2>1. mempool' \in [Clients -> Seq(Transaction)]
      BY <1>6, Submissions, QueuesKeepType
    <2> QED
      BY <1>6, <2>1, CompletionType DEF SendDelegationList, Goto, TypeOK, StoreOK, Awaits
  <1>7. CASE SendStatus(c)
    <2>1. mempool' \in [Clients -> Seq(Transaction)]
      BY <1>7, Submissions, QueuesKeepType
    <2> QED
      BY <1>7, <2>1, CompletionType DEF SendStatus, Goto, TypeOK, StoreOK, Awaits
  <1>8. CASE ReadNodeList(c)
    <2>1. op' \in [Clients -> Operation]
      BY <1>8, ReadType DEF ReadNodeList, Read, TypeOK, Operation
    <2> QED
      BY <1>8, <2>1 DEF ReadNodeList, Goto, TypeOK, StoreOK, Awaits
  <1>9. CASE ReadDelegationList(c)
    <2>1. op' \in [Clients -> Operation]
      BY <1>9, ReadType DEF ReadDelegationList, Read, TypeOK, Operation
    <2> QED
      BY <1>9, <2>1 DEF ReadDelegationList, Goto, TypeOK, StoreOK, Awaits
  <1>10. CASE ReadNode(c)
    <2>1. GetData(NodeKey(op[c].node)) \in NodeRecord \cup {EmptyBytes}
      BY <1>10, ReadType DEF ReadNode, Control, ClientControl, TypeOK
    <2>2. op' \in [Clients -> Operation]
      BY <1>10, <2>1 DEF ReadNode, Read, TypeOK, Operation
    <2> QED
      BY <1>10, <2>2 DEF ReadNode, Goto, TypeOK, StoreOK, Awaits
  <1>11. CASE Fail(c) \/ Succeed(c)
    BY <1>11 DEF Fail, Succeed, Goto, TypeOK, StoreOK, Awaits
  <1>12. CASE Mine(c)
    <2>1. mempool' \in [Clients -> Seq(Transaction)]
      BY <1>12, QueueAfterMine
    <2>2. StoreOK'
      <3>1. /\ DOMAIN store' = DOMAIN store \cup {mempool[c][1].key}
            /\ store'[mempool[c][1].key] = mempool[c][1].value
            /\ \A k \in DOMAIN store : k # mempool[c][1].key => store'[k] = store[k]
            /\ mempool[c][1] \in Transaction
        BY <1>12, QueueAfterMine
      <3>2. [key |-> mempool[c][1].key, value |-> mempool[c][1].value] \in Transaction
        BY <3>1, TransactionType
      <3> QED
        BY <3>1, <3>2 DEF TypeOK, StoreOK
    <2>3. shown' \subseteq [node : Ids, address : Clients, status : Statuses]
      BY <1>12, <2>2, CardsAfterMine DEF TypeOK
    <2> QED
      BY <1>12, <2>1, <2>2, <2>3 DEF Mine, TypeOK
  <1> QED
    BY <1>1, <1>2, <1>3, <1>4, <1>5, <1>6, <1>7, <1>8, <1>9, <1>10, <1>11, <1>12 DEF ClientNext, Starts

\* A read changes one local of one handler.
ReadsInto(c, local) ==
    /\ \A d \in Clients \ {c} : op'[d] = op[d]
    /\ op'[c].kind = op[c].kind /\ op'[c].node = op[c].node
    /\ op'[c].amount = op[c].amount /\ op'[c].id = op[c].id
    /\ local = "list" => op'[c].record = op[c].record
    /\ local = "record" => op'[c].list = op[c].list

\* A read fills one field of its handler's locals.
LEMMA ReadsLocal ==
    ASSUME TypeOK, NEW c \in Clients, NEW key
    PROVE  /\ Read(c, "list", key) => ReadsInto(c, "list") /\ op'[c].list = GetData(key)
           /\ Read(c, "record", key) => ReadsInto(c, "record") /\ op'[c].record = GetData(key)
  <1>1. op \in [Clients -> Operation] /\ op[c] \in Operation
    BY DEF TypeOK
  <1> QED
    BY <1>1 DEF Read, ReadsInto, Operation

\* Every step keeps each handler at an await of its own operation.
LEMMA ControlStep ==
    ASSUME TypeOK, Control, NEW c \in Clients, ClientNext(c)
    PROVE  Control'
  <1>1. CASE Starts(c)
    <2>1. PICK kind \in Kinds, node \in Ids, amount \in Nat, next \in {"sendNode", "readNode"} :
              /\ Start(c, kind, node, amount, next)
              /\ next = "sendNode" => kind = "register" /\ node = started + 1
              /\ next = "readNode" => kind # "register"
      BY <1>1, StartsOperation
    <2>2. /\ started' = started + 1 /\ started' \in Ids
          /\ pc'[c] = next /\ \A d \in Clients \ {c} : pc'[d] = pc[d]
          /\ op'[c].kind = kind /\ op'[c].node = node /\ op'[c].id = started'
          /\ \A d \in Clients \ {c} : op'[d] = op[d]
      BY <2>1, ClientAssumption DEF Start, TypeOK, Ids
    <2>3. \A d \in Clients : op[d].id \in 0 .. MaxOps /\ op[d].id < started'
      BY <2>2 DEF TypeOK, Operation, Control, ClientControl
    <2>4. \A a, b \in Clients : op'[a].id = op'[b].id => a = b \/ op'[a].id = 0
      BY <2>2, <2>3 DEF Control
    <2>5. \A d \in Clients \ {c} : ClientControl(d)'
      BY <2>2, <2>3 DEF Control, ClientControl, TypeOK, Registering, Delegating, HoldsRecord
    <2>6. ClientControl(c)'
      BY <2>1, <2>2 DEF ClientControl, TypeOK, Registering, Delegating, HoldsRecord, Ids
    <2> QED
      BY <2>4, <2>5, <2>6 DEF Control
  <1>2. CASE SendNode(c)
    BY <1>2 DEF SendNode, Goto, Control, ClientControl, TypeOK, Registering, Delegating, HoldsRecord
  <1>3. CASE SendNodeList(c)
    BY <1>3 DEF SendNodeList, Goto, Control, ClientControl, TypeOK, Registering, Delegating, HoldsRecord
  <1>4. CASE SendVotes(c)
    BY <1>4 DEF SendVotes, Goto, Control, ClientControl, TypeOK, Registering, Delegating, HoldsRecord
  <1>5. CASE SendDelegation(c)
    BY <1>5 DEF SendDelegation, Goto, Control, ClientControl, TypeOK, Registering, Delegating, HoldsRecord
  <1>6. CASE SendDelegationList(c)
    BY <1>6 DEF SendDelegationList, Goto, Control, ClientControl, TypeOK, Registering, Delegating, HoldsRecord
  <1>7. CASE SendStatus(c)
    BY <1>7 DEF SendStatus, Goto, Control, ClientControl, TypeOK, Registering, Delegating, HoldsRecord
  <1>8. CASE ReadNodeList(c)
    <2>1. ReadsInto(c, "list")
      BY <1>8, ReadsLocal DEF ReadNodeList
    <2>2. /\ pc[c] = "readNodeList" /\ pc'[c] = "sendNodeList" /\ started' = started
          /\ \A d \in Clients \ {c} : pc'[d] = pc[d]
      BY <1>8 DEF ReadNodeList, Goto, TypeOK
    <2>3. \A d \in Clients : ClientControl(d)'
      BY <2>1, <2>2 DEF ReadsInto, Control, ClientControl, Registering, Delegating, HoldsRecord
    <2> QED
      BY <2>1, <2>3 DEF ReadsInto, Control
  <1>9. CASE ReadDelegationList(c)
    <2>1. ReadsInto(c, "list")
      BY <1>9, ReadsLocal DEF ReadDelegationList
    <2>2. /\ pc[c] = "readDelegationList" /\ pc'[c] = "sendDelegationList" /\ started' = started
          /\ \A d \in Clients \ {c} : pc'[d] = pc[d]
      BY <1>9 DEF ReadDelegationList, Goto, TypeOK
    <2>3. \A d \in Clients : ClientControl(d)'
      BY <2>1, <2>2 DEF ReadsInto, Control, ClientControl, Registering, Delegating, HoldsRecord
    <2> QED
      BY <2>1, <2>3 DEF ReadsInto, Control
  <1>10. CASE ReadNode(c)
    <2>1. ReadsInto(c, "record") /\ op'[c].record = GetData(NodeKey(op[c].node))
      BY <1>10, ReadsLocal DEF ReadNode
    <2>2. /\ op[c].node \in Ids /\ op[c].kind # "register" /\ op[c].kind \in Kinds
          /\ GetData(NodeKey(op[c].node)) # EmptyBytes => GetData(NodeKey(op[c].node)) \in NodeRecord
      BY <1>10, ReadType DEF ReadNode, Control, ClientControl, TypeOK, Operation
    <2>3. \/ pc'[c] = "idle"
          \/ /\ GetData(NodeKey(op[c].node)) # EmptyBytes
             /\ pc'[c] = IF op[c].kind = "delegate" THEN "sendVotes" ELSE "sendStatus"
      BY <1>10 DEF ReadNode, Goto, TypeOK
    <2>4. /\ pc[c] = "readNode" /\ started' = started
          /\ \A d \in Clients \ {c} : pc'[d] = pc[d]
      BY <1>10 DEF ReadNode, Goto, TypeOK
    <2>5. \A d \in Clients \ {c} : ClientControl(d)'
      BY <2>1, <2>4 DEF ReadsInto, Control, ClientControl, Registering, Delegating, HoldsRecord
    <2>6. ClientControl(c)'
      BY <2>1, <2>2, <2>3, <2>4 DEF ReadsInto, Control, ClientControl, Registering, Delegating, HoldsRecord, Kinds
    <2> QED
      BY <2>1, <2>5, <2>6 DEF ReadsInto, Control
  <1>11. CASE Fail(c) \/ Succeed(c)
    BY <1>11 DEF Fail, Succeed, Goto, Control, ClientControl, TypeOK, Registering, Delegating, HoldsRecord
  <1>12. CASE Mine(c)
    BY <1>12 DEF Mine, Control, ClientControl, Registering, Delegating, HoldsRecord
  <1> QED
    BY <1>1, <1>2, <1>3, <1>4, <1>5, <1>6, <1>7, <1>8, <1>9, <1>10, <1>11, <1>12 DEF ClientNext, Starts

\* A step changes the queue and the handler of one client, and no record leaves
\* the store.
LEMMA OneClientSteps ==
    ASSUME TypeOK, NEW c \in Clients, ClientNext(c)
    PROVE  /\ \A d \in Clients \ {c} : mempool'[d] = mempool[d] /\ pc'[d] = pc[d] /\ op'[d] = op[d]
           /\ \A k : IsStored(k) => IsStored(k)'
  <1>1. CASE Starts(c)
    <2>1. PICK kind \in Kinds, node \in Ids, amount \in Nat, next \in {"sendNode", "readNode"} :
              Start(c, kind, node, amount, next)
      BY <1>1, StartsOperation
    <2> QED
      BY <2>1 DEF Start, TypeOK, IsStored
  <1> USE DEF TypeOK, IsStored, Goto, Submit
  <1>2. CASE SendNode(c) \/ SendNodeList(c) \/ SendVotes(c)
    BY <1>2 DEF SendNode, SendNodeList, SendVotes
  <1>3. CASE SendDelegation(c) \/ SendDelegationList(c) \/ SendStatus(c)
    BY <1>3 DEF SendDelegation, SendDelegationList, SendStatus
  <1>4. CASE ReadNodeList(c) \/ ReadDelegationList(c) \/ ReadNode(c)
    BY <1>4 DEF ReadNodeList, ReadDelegationList, ReadNode, Read
  <1>5. CASE Fail(c) \/ Succeed(c)
    BY <1>5 DEF Fail, Succeed
  <1>6. CASE Mine(c)
    BY <1>6, QueueAfterMine DEF Mine
  <1> QED
    BY <1>1, <1>2, <1>3, <1>4, <1>5, <1>6 DEF ClientNext, Starts

----------------------------------------------------------------------------
\* No dangling ids

\* What comes before a position of a queue still does when the queue grows, and
\* what was submitted comes before what follows.
LEMMA BeforeAfterSubmit ==
    ASSUME TypeOK, NEW c \in Clients, NEW key, NEW value, Submits(c, key, value), UNCHANGED store
    PROVE  /\ \A k : \A i, j \in Nat : i <= j /\ ComesBefore(c, i, k) => ComesBefore(c, j, k)'
           /\ ComesBefore(c, Len(mempool[c]) + 1, key)'
  <1>1. /\ Len(mempool[c]) \in Nat /\ DOMAIN mempool[c] = 1 .. Len(mempool[c])
        /\ Len(mempool'[c]) = Len(mempool[c]) + 1 /\ DOMAIN mempool'[c] = 1 .. Len(mempool[c]) + 1
        /\ \A i \in DOMAIN mempool[c] : mempool'[c][i] = mempool[c][i]
        /\ mempool'[c][Len(mempool[c]) + 1] = [key |-> key, value |-> value]
    BY QueueAfterSubmit DEF Submits
  <1>2. \A k : \A i, j \in Nat : i <= j /\ ComesBefore(c, i, k) => ComesBefore(c, j, k)'
    BY <1>1 DEF ComesBefore, IsStored
  <1>3. ComesBefore(c, Len(mempool[c]) + 1, key)'
    BY <1>1 DEF ComesBefore
  <1> QED
    BY <1>2, <1>3

\* When the first transaction is mined, the others move up by one and what it
\* carried is stored.
LEMMA BeforeAfterMine ==
    ASSUME TypeOK, NEW c \in Clients, Mine(c)
    PROVE  \A k : \A i \in Nat : ComesBefore(c, i + 1, k) => ComesBefore(c, i, k)'
  <1>1. /\ Len(mempool[c]) \in Nat /\ DOMAIN mempool[c] = 1 .. Len(mempool[c])
        /\ DOMAIN mempool'[c] = 1 .. Len(mempool[c]) - 1
        /\ \A i \in DOMAIN mempool'[c] : mempool'[c][i] = mempool[c][i + 1]
        /\ DOMAIN store' = DOMAIN store \cup {mempool[c][1].key}
    BY QueueAfterMine
  <1> TAKE k
  <1> TAKE i \in Nat
  <1> HAVE ComesBefore(c, i + 1, k)
  <1>2. CASE IsStored(k)
    BY <1>1, <1>2 DEF ComesBefore, IsStored
  <1>3. ASSUME NEW j \in DOMAIN mempool[c], j < i + 1, mempool[c][j].key = k
        PROVE  ComesBefore(c, i, k)'
    <2>1. CASE j = 1
      BY <1>1, <1>3, <2>1 DEF ComesBefore, IsStored
    <2>2. CASE j > 1
      <3>1. j - 1 \in DOMAIN mempool'[c] /\ j - 1 < i /\ mempool'[c][j - 1] = mempool[c][j]
        BY <1>1, <1>3, <2>2
      <3> QED
        BY <1>3, <3>1 DEF ComesBefore
    <2> QED
      BY <1>1, <1>3, <2>1, <2>2
  <1> QED
    BY <1>2, <1>3 DEF ComesBefore

\* Another client's step disturbs neither a queue nor a handler.
LEMMA OthersKeepPointing ==
    ASSUME TypeOK, NEW c \in Clients, ClientNext(c), NEW d \in Clients \ {c},
           QueuePoints(d), HandlerPoints(d)
    PROVE  QueuePoints(d)' /\ HandlerPoints(d)'
  <1>1. mempool'[d] = mempool[d] /\ pc'[d] = pc[d] /\ op'[d] = op[d] /\ \A k : IsStored(k) => IsStored(k)'
    BY OneClientSteps
  <1>2. \A i, k : ComesBefore(d, i, k) => ComesBefore(d, i, k)'
    BY <1>1 DEF ComesBefore
  <1>3. QueuePoints(d)'
    BY <1>1, <1>2 DEF QueuePoints
  <1>4. ComesBefore(d, Len(mempool[d]) + 1, NodeKey(op[d].node)) =>
            ComesBefore(d, Len(mempool[d]) + 1, NodeKey(op[d].node))'
    BY <1>1, <1>2
  <1>5. ComesBefore(d, Len(mempool[d]) + 1, DelegationKey(op[d].id)) =>
            ComesBefore(d, Len(mempool[d]) + 1, DelegationKey(op[d].id))'
    BY <1>1, <1>2
  <1> QED
    BY <1>1, <1>3, <1>4, <1>5 DEF HandlerPoints, Delegating

\* After a submission the queue's lists point to earlier records if the
\* submitted value does.
LEMMA QueuePointsAfterSubmit ==
    ASSUME TypeOK, NEW c \in Clients, NEW key, NEW value, Submits(c, key, value), UNCHANGED store,
           QueuePoints(c),
           key = NodeListKey => \A id \in Listed(value) : ComesBefore(c, Len(mempool[c]) + 1, NodeKey(id)),
           key = DelegationListKey =>
               \A id \in Listed(value) : ComesBefore(c, Len(mempool[c]) + 1, DelegationKey(id))
    PROVE  QueuePoints(c)'
  <1>1. /\ Len(mempool[c]) \in Nat /\ DOMAIN mempool[c] = 1 .. Len(mempool[c])
        /\ DOMAIN mempool'[c] = 1 .. Len(mempool[c]) + 1
        /\ \A i \in DOMAIN mempool[c] : mempool'[c][i] = mempool[c][i]
        /\ mempool'[c][Len(mempool[c]) + 1] = [key |-> key, value |-> value]
    BY QueueAfterSubmit DEF Submits
  <1>2. \A k : \A i \in Nat : ComesBefore(c, i, k) => ComesBefore(c, i, k)'
    BY BeforeAfterSubmit
  <1> SUFFICES ASSUME NEW i \in DOMAIN mempool'[c]
               PROVE  /\ mempool'[c][i].key = NodeListKey =>
                             \A id \in Listed(mempool'[c][i].value) : ComesBefore(c, i, NodeKey(id))'
                      /\ mempool'[c][i].key = DelegationListKey =>
                             \A id \in Listed(mempool'[c][i].value) : ComesBefore(c, i, DelegationKey(id))'
    BY DEF QueuePoints
  <1>3. CASE i \in DOMAIN mempool[c]
    BY <1>1, <1>2, <1>3 DEF QueuePoints
  <1>4. CASE i = Len(mempool[c]) + 1
    BY <1>1, <1>2, <1>4
  <1> QED
    BY <1>1, <1>3, <1>4

\* A delegation that is submitted names a stored node.
LEMMA DelegationsPointAfterSubmit ==
    ASSUME TypeOK, NEW c \in Clients, NEW key, NEW value, Submits(c, key, value), UNCHANGED store,
           DelegationsPoint, key \in DelegationKeys => IsStored(NodeKey(value.node))
    PROVE  DelegationsPoint'
  <1>1. \A k, v : v \in Sent(k)' <=> v \in Sent(k) \/ (k = key /\ v = value)
    BY SentAfterSubmit DEF Submits
  <1> QED
    BY <1>1 DEF DelegationsPoint, IsStored, DelegationKeys

\* Every step keeps listed ids pointing at records.
LEMMA PointersStep ==
    ASSUME TypeOK, Control, Pointers, NEW c \in Clients, ClientNext(c), TypeOK'
    PROVE  Pointers'
  <1>1. \A d \in Clients \ {c} : QueuePoints(d)' /\ HandlerPoints(d)'
    BY OthersKeepPointing DEF Pointers
  <1>2. QueuePoints(c) /\ HandlerPoints(c) /\ ListsPoint /\ DelegationsPoint
    BY DEF Pointers
  <1>3. SUFFICES QueuePoints(c)' /\ HandlerPoints(c)' /\ ListsPoint' /\ DelegationsPoint'
    BY <1>1 DEF Pointers
  <1>4. ASSUME UNCHANGED store PROVE ListsPoint'
    BY <1>2, <1>4 DEF ListsPoint, ListedNodes, ListedDelegations, GetData, IsStored
  <1>5. ASSUME UNCHANGED <<store, mempool>> PROVE QueuePoints(c)' /\ DelegationsPoint'
    BY <1>2, <1>5, SentUnchanged DEF QueuePoints, ComesBefore, IsStored, DelegationsPoint
  <1>6. mempool[c] \in Seq(Transaction) /\ Len(mempool[c]) \in Nat
    BY DEF TypeOK
  <1>7. op[c].list \in Seq(Ids) /\ (pc[c] # "idle" => op[c].node \in Ids /\ op[c].id \in Ids)
    BY DEF TypeOK, Operation, Control, ClientControl
  <1>10. CASE Starts(c)
    <2>1. PICK kind \in Kinds, node \in Ids, amount \in Nat, next \in {"sendNode", "readNode"} :
              Start(c, kind, node, amount, next)
      BY <1>10, StartsOperation
    <2>2. pc'[c] = next
      BY <2>1 DEF Start, TypeOK
    <2> QED
      BY <1>4, <1>5, <2>1, <2>2 DEF Start, HandlerPoints, Delegating
  <1>11. CASE SendNode(c)
    <2> DEFINE key == NodeKey(op[c].node)
    <2>1. Submits(c, key, FirstRecord(c)) /\ UNCHANGED <<store, op>>
      BY <1>11, Submissions DEF SendNode
    <2>2. pc[c] = "sendNode" /\ pc'[c] = "readNodeList" /\ op[c].node \in Ids
      BY <1>7, <1>11 DEF SendNode, Goto, TypeOK
    <2>3. QueuePoints(c)'
      BY <1>2, <2>1, <2>2, KeysDiffer, QueuePointsAfterSubmit
    <2>4. DelegationsPoint'
      BY <1>2, <2>1, <2>2, KeysDiffer, DelegationsPointAfterSubmit DEF DelegationKeys
    <2>5. ComesBefore(c, Len(mempool[c]) + 1, key)'
      BY <2>1, BeforeAfterSubmit
    <2>6. HandlerPoints(c)'
      BY <2>1, <2>2, <2>5 DEF HandlerPoints, Delegating
    <2> QED
      BY <1>4, <2>1, <2>3, <2>4, <2>6
  <1>12. CASE SendNodeList(c)
    <2> DEFINE value == Append(op[c].list, op[c].node)
    <2>1. Submits(c, NodeListKey, value) /\ UNCHANGED store
      BY <1>12, Submissions DEF SendNodeList
    <2>2. pc[c] = "sendNodeList" /\ pc'[c] = "succeed" /\ op[c].node \in Ids
      BY <1>7, <1>12 DEF SendNodeList, Goto, TypeOK
    <2>3. \A id \in Listed(value) : ComesBefore(c, Len(mempool[c]) + 1, NodeKey(id))
      <3>1. Listed(value) = Listed(op[c].list) \cup {op[c].node}
        BY <1>7, <2>2, ListedAppend
      <3> QED
        BY <1>2, <2>2, <3>1 DEF HandlerPoints, ComesBefore
    <2>4. QueuePoints(c)'
      BY <1>2, <2>1, <2>3, KeysDiffer, QueuePointsAfterSubmit
    <2>5. DelegationsPoint'
      BY <1>2, <2>1, KeysDiffer, DelegationsPointAfterSubmit DEF DelegationKeys
    <2> QED
      BY <1>4, <2>1, <2>2, <2>4, <2>5 DEF HandlerPoints, Delegating
  <1>13. CASE SendVotes(c)
    <2> DEFINE value == WithVotes(op[c].record, op[c].amount)
    <2>1. Submits(c, NodeKey(op[c].node), value) /\ UNCHANGED <<store, op>>
      BY <1>13, Submissions DEF SendVotes
    <2>2. pc[c] = "sendVotes" /\ pc'[c] = "sendDelegation" /\ op[c].node \in Ids
      BY <1>7, <1>13 DEF SendVotes, Goto, TypeOK
    <2>3. QueuePoints(c)'
      BY <1>2, <2>1, <2>2, KeysDiffer, QueuePointsAfterSubmit
    <2>4. DelegationsPoint'
      BY <1>2, <2>1, <2>2, KeysDiffer, DelegationsPointAfterSubmit DEF DelegationKeys
    <2>5. HandlerPoints(c)'
      BY <1>2, <2>1, <2>2 DEF HandlerPoints, Delegating, IsStored
    <2> QED
      BY <1>4, <2>1, <2>3, <2>4, <2>5
  <1>14. CASE SendDelegation(c)
    <2> DEFINE key == DelegationKey(op[c].id)
    <2>1. Submits(c, key, Delegation(c)) /\ UNCHANGED <<store, op>>
      BY <1>14, Submissions DEF SendDelegation
    <2>2. /\ pc[c] = "sendDelegation" /\ pc'[c] = "readDelegationList" /\ op[c].id \in Ids
          /\ IsStored(NodeKey(op[c].node))
      BY <1>2, <1>7, <1>14 DEF SendDelegation, Goto, TypeOK, HandlerPoints, Delegating
    <2>3. QueuePoints(c)'
      BY <1>2, <2>1, <2>2, KeysDiffer, QueuePointsAfterSubmit
    <2>4. DelegationsPoint'
      BY <1>2, <2>1, <2>2, DelegationsPointAfterSubmit DEF Delegation
    <2>5. ComesBefore(c, Len(mempool[c]) + 1, key)'
      BY <2>1, BeforeAfterSubmit
    <2>6. HandlerPoints(c)'
      BY <2>1, <2>2, <2>5 DEF HandlerPoints, Delegating, IsStored
    <2> QED
      BY <1>4, <2>1, <2>3, <2>4, <2>6
  <1>15. CASE SendDelegationList(c)
    <2> DEFINE value == Append(op[c].list, op[c].id)
    <2>1. Submits(c, DelegationListKey, value) /\ UNCHANGED store
      BY <1>15, Submissions DEF SendDelegationList
    <2>2. pc[c] = "sendDelegationList" /\ pc'[c] = "succeed" /\ op[c].id \in Ids
      BY <1>7, <1>15 DEF SendDelegationList, Goto, TypeOK
    <2>3. \A id \in Listed(value) : ComesBefore(c, Len(mempool[c]) + 1, DelegationKey(id))
      <3>1. Listed(value) = Listed(op[c].list) \cup {op[c].id}
        BY <1>7, <2>2, ListedAppend
      <3> QED
        BY <1>2, <2>2, <3>1 DEF HandlerPoints, ComesBefore
    <2>4. QueuePoints(c)'
      BY <1>2, <2>1, <2>3, KeysDiffer, QueuePointsAfterSubmit
    <2>5. DelegationsPoint'
      BY <1>2, <2>1, KeysDiffer, DelegationsPointAfterSubmit DEF DelegationKeys
    <2> QED
      BY <1>4, <2>1, <2>2, <2>4, <2>5 DEF HandlerPoints, Delegating
  <1>16. CASE SendStatus(c)
    <2>1. Submits(c, NodeKey(op[c].node), WithStatus(op[c].record, op[c].kind)) /\ UNCHANGED store
      BY <1>16, Submissions DEF SendStatus
    <2>2. pc[c] = "sendStatus" /\ pc'[c] = "succeed" /\ op[c].node \in Ids
      BY <1>7, <1>16 DEF SendStatus, Goto, TypeOK
    <2>3. QueuePoints(c)'
      BY <1>2, <2>1, <2>2, KeysDiffer, QueuePointsAfterSubmit
    <2>4. DelegationsPoint'
      BY <1>2, <2>1, <2>2, KeysDiffer, DelegationsPointAfterSubmit DEF DelegationKeys
    <2> QED
      BY <1>4, <2>1, <2>2, <2>3, <2>4 DEF HandlerPoints, Delegating
  <1>17. CASE ReadNodeList(c)
    <2>1. op'[c].list = GetData(NodeListKey) /\ op'[c].node = op[c].node
      BY <1>17, ReadsLocal DEF ReadNodeList, ReadsInto
    <2>2. pc[c] = "readNodeList" /\ pc'[c] = "sendNodeList" /\ UNCHANGED <<store, mempool>>
      BY <1>17 DEF ReadNodeList, Goto, TypeOK
    <2>3. \A id \in Listed(op'[c].list) : IsStored(NodeKey(id))
      BY <1>2, <2>1 DEF ListsPoint, ListedNodes
    <2>4. HandlerPoints(c)'
      BY <1>2, <2>1, <2>2, <2>3 DEF HandlerPoints, Delegating, ComesBefore, IsStored
    <2> QED
      BY <1>4, <1>5, <2>2, <2>4
  <1>18. CASE ReadDelegationList(c)
    <2>1. op'[c].list = GetData(DelegationListKey) /\ op'[c].id = op[c].id /\ op'[c].node = op[c].node
      BY <1>18, ReadsLocal DEF ReadDelegationList, ReadsInto
    <2>2. /\ pc[c] = "readDelegationList" /\ pc'[c] = "sendDelegationList"
          /\ UNCHANGED <<store, mempool>>
      BY <1>18 DEF ReadDelegationList, Goto, TypeOK
    <2>3. \A id \in Listed(op'[c].list) : IsStored(DelegationKey(id))
      BY <1>2, <2>1 DEF ListsPoint, ListedDelegations
    <2>4. HandlerPoints(c)'
      BY <1>2, <2>1, <2>2, <2>3 DEF HandlerPoints, Delegating, ComesBefore, IsStored
    <2> QED
      BY <1>4, <1>5, <2>2, <2>4
  <1>19. CASE ReadNode(c)
    <2>1. op'[c].node = op[c].node
      BY <1>19, ReadsLocal DEF ReadNode, ReadsInto
    <2>2. /\ pc'[c] = "idle" \/ IsStored(NodeKey(op[c].node))
          /\ pc'[c] \in {"idle", "sendVotes", "sendStatus"} /\ UNCHANGED <<store, mempool>>
      BY <1>19 DEF ReadNode, Goto, TypeOK, GetData, IsStored
    <2>3. HandlerPoints(c)'
      BY <2>1, <2>2 DEF HandlerPoints, Delegating, IsStored
    <2> QED
      BY <1>4, <1>5, <2>2, <2>3
  <1>20. CASE Fail(c) \/ Succeed(c)
    <2>1. pc'[c] = "idle" /\ UNCHANGED <<store, mempool>>
      BY <1>20 DEF Fail, Succeed, Goto, TypeOK
    <2> QED
      BY <1>4, <1>5, <2>1 DEF HandlerPoints, Delegating
  <1>21. CASE Mine(c)
    <2> DEFINE tx == mempool[c][1]
    <2>1. /\ 1 \in DOMAIN mempool[c] /\ Len(mempool'[c]) = Len(mempool[c]) - 1
          /\ DOMAIN mempool'[c] = 1 .. Len(mempool[c]) - 1
          /\ \A i \in DOMAIN mempool'[c] : i + 1 \in DOMAIN mempool[c] /\ mempool'[c][i] = mempool[c][i + 1]
          /\ DOMAIN store' = DOMAIN store \cup {tx.key} /\ store'[tx.key] = tx.value
          /\ \A k \in DOMAIN store : k # tx.key => store'[k] = store[k]
      BY <1>21, QueueAfterMine
    <2>2. \A k : \A i \in Nat : ComesBefore(c, i + 1, k) => ComesBefore(c, i, k)'
      BY <1>21, BeforeAfterMine
    <2>3. \A k : IsStored(k) => IsStored(k)'
      BY OneClientSteps
    <2>4. pc' = pc /\ op' = op
      BY <1>21 DEF Mine
    <2>5. QueuePoints(c)'
      BY <1>2, <1>6, <2>1, <2>2 DEF QueuePoints
    <2>6. HandlerPoints(c)'
      <3>1. Len(mempool[c]) = Len(mempool'[c]) + 1 /\ Len(mempool'[c]) + 1 \in Nat
        BY <1>6, <2>1 DEF TypeOK
      <3> QED
        BY <1>2, <2>2, <2>3, <2>4, <3>1 DEF HandlerPoints, Delegating
    <2>7. ListsPoint'
      <3>1. \A k : ComesBefore(c, 1, k) => IsStored(k)
        BY <1>6 DEF ComesBefore
      <3>2. /\ tx.key = NodeListKey => \A id \in Listed(tx.value) : IsStored(NodeKey(id))
            /\ tx.key = DelegationListKey => \A id \in Listed(tx.value) : IsStored(DelegationKey(id))
        BY <1>2, <2>1, <3>1 DEF QueuePoints
      <3>3. \A id \in ListedNodes' : IsStored(NodeKey(id))
        BY <1>2, <2>1, <3>2 DEF ListsPoint, ListedNodes, GetData
      <3>4. \A id \in ListedDelegations' : IsStored(DelegationKey(id))
        BY <1>2, <2>1, <3>2 DEF ListsPoint, ListedDelegations, GetData
      <3> QED
        BY <2>3, <3>3, <3>4 DEF ListsPoint
    <2>8. DelegationsPoint'
      <3>1. \A k : Sent(k)' \subseteq Sent(k)
        BY <1>21, SentAfterMine
      <3> QED
        BY <1>2, <2>3, <3>1 DEF DelegationsPoint
    <2> QED
      BY <2>5, <2>6, <2>7, <2>8
  <1> QED
    BY <1>10, <1>11, <1>12, <1>13, <1>14, <1>15, <1>16, <1>17, <1>18, <1>19, <1>20, <1>21
    DEF ClientNext, Starts

----------------------------------------------------------------------------
\* All versions of a node's record

\* A version of a record was sent, or is held by a handler.
LEMMA VersionMember ==
    \A id, v : v \in NodeVersions(id) <=>
        \/ v \in Sent(NodeKey(id))
        \/ \E d \in Clients : HoldsRecord(d) /\ op[d].node = id /\ v = op[d].record
  BY DEF NodeVersions

\* Every version of a record is a record.
LEMMA VersionType ==
    ASSUME TypeOK, Control
    PROVE  \A id \in Ids : NodeVersions(id) \subseteq NodeRecord
  BY VersionMember, SentType DEF Control, ClientControl

\* The three submissions that write a record, and what they make of it
WritesVersion(c, id, v) ==
    /\ id = op[c].node
    /\ \/ SendNode(c) /\ v = FirstRecord(c)
       \/ SendVotes(c) /\ v = WithVotes(op[c].record, op[c].amount)
       \/ SendStatus(c) /\ v = WithStatus(op[c].record, op[c].kind)

\* What is submitted: nothing, or one value.
LEMMA SentAfterStep ==
    ASSUME TypeOK, Control, NEW c \in Clients, ClientNext(c)
    PROVE  \A id \in Ids : \A v \in Sent(NodeKey(id))' : v \in Sent(NodeKey(id)) \/ WritesVersion(c, id, v)
  <1>1. ASSUME UNCHANGED <<store, mempool>> PROVE \A k : Sent(k)' = Sent(k)
    BY <1>1, SentUnchanged
  <1>2. ASSUME NEW key, NEW value, Submits(c, key, value), UNCHANGED store
        PROVE  \A k, v : v \in Sent(k)' => v \in Sent(k) \/ (k = key /\ v = value)
    BY <1>2, SentAfterSubmit DEF Submits
  <1>3. pc[c] # "idle" => op[c].node \in Ids /\ op[c].id \in Ids
    BY DEF Control, ClientControl
  <1>10. CASE Starts(c)
    BY <1>1, <1>10, StartsOperation DEF Start
  <1>11. CASE SendNode(c)
    <2>1. Submits(c, NodeKey(op[c].node), FirstRecord(c)) /\ UNCHANGED store /\ op[c].node \in Ids
      BY <1>3, <1>11, Submissions DEF SendNode
    <2> QED
      BY <1>2, <1>11, <2>1, KeysDiffer DEF WritesVersion
  <1>12. CASE SendVotes(c)
    <2>1. /\ Submits(c, NodeKey(op[c].node), WithVotes(op[c].record, op[c].amount))
          /\ UNCHANGED store /\ op[c].node \in Ids
      BY <1>3, <1>12, Submissions DEF SendVotes
    <2> QED
      BY <1>2, <1>12, <2>1, KeysDiffer DEF WritesVersion
  <1>13. CASE SendStatus(c)
    <2>1. /\ Submits(c, NodeKey(op[c].node), WithStatus(op[c].record, op[c].kind))
          /\ UNCHANGED store /\ op[c].node \in Ids
      BY <1>3, <1>13, Submissions DEF SendStatus
    <2> QED
      BY <1>2, <1>13, <2>1, KeysDiffer DEF WritesVersion
  <1>14. CASE SendNodeList(c)
    <2>1. Submits(c, NodeListKey, Append(op[c].list, op[c].node)) /\ UNCHANGED store
      BY <1>14, Submissions DEF SendNodeList
    <2> QED
      BY <1>2, <2>1, KeysDiffer
  <1>15. CASE SendDelegation(c)
    <2>1. Submits(c, DelegationKey(op[c].id), Delegation(c)) /\ UNCHANGED store /\ op[c].id \in Ids
      BY <1>3, <1>15, Submissions DEF SendDelegation
    <2> QED
      BY <1>2, <2>1, KeysDiffer
  <1>16. CASE SendDelegationList(c)
    <2>1. Submits(c, DelegationListKey, Append(op[c].list, op[c].id)) /\ UNCHANGED store
      BY <1>16, Submissions DEF SendDelegationList
    <2> QED
      BY <1>2, <2>1, KeysDiffer
  <1>17. CASE ReadNodeList(c) \/ ReadDelegationList(c) \/ ReadNode(c) \/ Fail(c) \/ Succeed(c)
    <2>1. UNCHANGED <<store, mempool>>
      BY <1>17 DEF ReadNodeList, ReadDelegationList, ReadNode, Fail, Succeed
    <2> QED
      BY <1>1, <2>1
  <1>18. CASE Mine(c)
    BY <1>18, SentAfterMine
  <1> QED
    BY <1>10, <1>11, <1>12, <1>13, <1>14, <1>15, <1>16, <1>17, <1>18 DEF ClientNext, Starts

\* A handler comes to hold a record by reading the stored one.
LEMMA HoldersAfterStep ==
    ASSUME TypeOK, Control, NEW c \in Clients, ClientNext(c), NEW d \in Clients, HoldsRecord(d)'
    PROVE  \/ HoldsRecord(d) /\ op'[d].node = op[d].node /\ op'[d].record = op[d].record
           \/ /\ op'[d].node \in Ids /\ IsStored(NodeKey(op'[d].node))
              /\ op'[d].record = store[NodeKey(op'[d].node)]
  <1>1. CASE d # c
    BY <1>1, OneClientSteps DEF HoldsRecord
  <1>2. CASE d = c
    <2>1. CASE ReadNode(c)
      <3>1. op'[c].record = GetData(NodeKey(op[c].node)) /\ op'[c].node = op[c].node
        BY <2>1, ReadsLocal DEF ReadNode, ReadsInto
      <3>2. GetData(NodeKey(op[c].node)) # EmptyBytes /\ op[c].node \in Ids
        BY <1>2, <2>1 DEF ReadNode, Goto, HoldsRecord, TypeOK, Control, ClientControl
      <3> QED
        BY <1>2, <3>1, <3>2 DEF GetData, IsStored
    <2>2. CASE Mine(c)
      BY <1>2, <2>2 DEF Mine, HoldsRecord
    <2>3. ASSUME ~ ReadNode(c), ~ Mine(c) PROVE pc'[c] \notin {"sendVotes", "sendStatus"}
      <3>1. CASE Starts(c)
        <4>1. \E next \in {"sendNode", "readNode"} : pc' = [pc EXCEPT ![c] = next]
          BY <3>1, StartsOperation DEF Start
        <4> QED
          BY <4>1 DEF TypeOK
      <3>2. CASE ~ Starts(c)
        <4> USE DEF Goto, TypeOK
        <4>1. CASE SendNode(c) \/ SendNodeList(c) \/ SendVotes(c) \/ SendDelegation(c)
          BY <4>1 DEF SendNode, SendNodeList, SendVotes, SendDelegation
        <4>2. CASE SendDelegationList(c) \/ SendStatus(c) \/ ReadNodeList(c)
          BY <4>2 DEF SendDelegationList, SendStatus, ReadNodeList
        <4>3. CASE ReadDelegationList(c) \/ Fail(c) \/ Succeed(c)
          BY <4>3 DEF ReadDelegationList, Fail, Succeed
        <4> QED
          BY <2>3, <3>2, <4>1, <4>2, <4>3 DEF ClientNext, Starts
      <3> QED
        BY <3>1, <3>2
    <2> QED
      BY <1>2, <2>1, <2>2, <2>3 DEF HoldsRecord
  <1> QED
    BY <1>1, <1>2

\* A step adds at most the version it writes.
LEMMA VersionsAfterStep ==
    ASSUME TypeOK, Control, NEW c \in Clients, ClientNext(c)
    PROVE  \A id \in Ids : \A v \in NodeVersions(id)' : v \in NodeVersions(id) \/ WritesVersion(c, id, v)
  <1>1. (\A id, v : v \in NodeVersions(id) <=>
             \/ v \in Sent(NodeKey(id))
             \/ \E d \in Clients : HoldsRecord(d) /\ op[d].node = id /\ v = op[d].record)'
    BY VersionMember, PTL
  <1> SUFFICES ASSUME NEW id \in Ids, NEW v \in NodeVersions(id)'
               PROVE  v \in NodeVersions(id) \/ WritesVersion(c, id, v)
    OBVIOUS
  <1>2. CASE v \in Sent(NodeKey(id))'
    BY <1>2, SentAfterStep, VersionMember
  <1>3. ASSUME NEW d \in Clients, HoldsRecord(d)', op'[d].node = id, v = op'[d].record
        PROVE  v \in NodeVersions(id)
    <2>1. CASE HoldsRecord(d) /\ op'[d].node = op[d].node /\ op'[d].record = op[d].record
      BY <1>3, <2>1, VersionMember
    <2>2. CASE IsStored(NodeKey(id)) /\ v = store[NodeKey(id)]
      BY <2>2, VersionMember, SentValues
    <2> QED
      BY <1>3, <2>1, <2>2, HoldersAfterStep
  <1>4. v \in Sent(NodeKey(id))' \/ \E d \in Clients : HoldsRecord(d)' /\ op'[d].node = id /\ v = op'[d].record
    BY <1>1
  <1> QED
    BY <1>2, <1>3, <1>4

\* What a write makes of a record, and the version it starts from.
LEMMA WrittenVersion ==
    ASSUME TypeOK, Control, NEW c \in Clients, NEW id \in Ids, NEW v, WritesVersion(c, id, v)
    PROVE  \/ SendNode(c) /\ v = FirstRecord(c)
           \/ /\ SendVotes(c) /\ op[c].record \in NodeVersions(id)
              /\ v.address = op[c].record.address /\ v.status = op[c].record.status
              /\ v.votes = op[c].record.votes + op[c].amount
           \/ /\ SendStatus(c) /\ op[c].record \in NodeVersions(id)
              /\ v.address = op[c].record.address /\ v.votes = op[c].record.votes
              /\ v.status = IF op[c].kind = "activate" THEN "active" ELSE "inactive"
  <1>1. CASE SendNode(c) /\ v = FirstRecord(c)
    BY <1>1
  <1>2. CASE SendVotes(c) /\ v = WithVotes(op[c].record, op[c].amount)
    <2>1. HoldsRecord(c) /\ op[c].record \in NodeRecord /\ op[c].node = id
      BY <1>2 DEF SendVotes, HoldsRecord, Control, ClientControl, WritesVersion
    <2>2. op[c].record \in NodeVersions(id)
      BY <2>1, VersionMember
    <2> QED
      BY <1>2, <2>1, <2>2 DEF WithVotes, NodeRecord
  <1>3. CASE SendStatus(c) /\ v = WithStatus(op[c].record, op[c].kind)
    <2>1. HoldsRecord(c) /\ op[c].record \in NodeRecord /\ op[c].node = id
      BY <1>3 DEF SendStatus, HoldsRecord, Control, ClientControl, WritesVersion
    <2>2. op[c].record \in NodeVersions(id)
      BY <2>1, VersionMember
    <2> QED
      BY <1>3, <2>1, <2>2 DEF WithStatus, NodeRecord
  <1> QED
    BY <1>1, <1>2, <1>3 DEF WritesVersion

\* What was requested and what completed is not forgotten.
LEMMA NothingIsForgotten ==
    ASSUME TypeOK, NEW c \in Clients, ClientNext(c)
    PROVE  /\ \A id \in Ids : requested[id] \in Nat /\ requested'[id] \in Nat /\ requested[id] <= requested'[id]
           /\ completed \subseteq completed' /\ started <= started'
  <1> USE DEF TypeOK
  <1>1. CASE Starts(c)
    <2>1. started \in Nat
      BY ClientAssumption
    <2>2. started' = started + 1 /\ UNCHANGED <<requested, completed>>
      BY <1>1, StartsOperation DEF Start
    <2> QED
      BY <2>1, <2>2
  <1>2. CASE SendVotes(c)
    <2>1. op[c].amount \in Nat
      BY DEF Operation
    <2> QED
      BY <1>2, <2>1 DEF SendVotes
  <1>3. CASE SendNode(c) \/ SendNodeList(c) \/ SendDelegation(c) \/ SendDelegationList(c)
    BY <1>3 DEF SendNode, SendNodeList, SendDelegation, SendDelegationList, Complete
  <1>4. CASE SendStatus(c) \/ ReadNodeList(c) \/ ReadDelegationList(c) \/ ReadNode(c)
    BY <1>4 DEF SendStatus, ReadNodeList, ReadDelegationList, ReadNode, Complete
  <1>5. CASE Fail(c) \/ Succeed(c) \/ Mine(c)
    BY <1>5 DEF Fail, Succeed, Mine
  <1> QED
    BY <1>1, <1>2, <1>3, <1>4, <1>5 DEF ClientNext, Starts

\* A stored record is one of the versions, and so is the one that replaces it:
\* they have the same owner.
LEMMA OwnerIsKept ==
    ASSUME TypeOK, Versions, NEW c \in Clients, ClientNext(c)
    PROVE  \A id \in Ids : IsStored(NodeKey(id)) =>
               store'[NodeKey(id)].address = store[NodeKey(id)].address
  <1> SUFFICES ASSUME NEW id \in Ids, IsStored(NodeKey(id))
               PROVE  store'[NodeKey(id)].address = store[NodeKey(id)].address
    OBVIOUS
  <1>1. CASE Mine(c)
    <2>1. store'[NodeKey(id)] \in Sent(NodeKey(id))'
      <3>1. IsStored(NodeKey(id))'
        BY OneClientSteps
      <3>2. (\A k : IsStored(k) => store[k] \in Sent(k))'
        BY SentValues, PTL
      <3> QED
        BY <3>1, <3>2
    <2>2. {store'[NodeKey(id)]} \subseteq Sent(NodeKey(id)) /\ store[NodeKey(id)] \in Sent(NodeKey(id))
      BY <1>1, <2>1, SentAfterMine, SentValues
    <2> QED
      BY <2>2, VersionMember DEF Versions
  <1>2. CASE ~ Mine(c)
    <2>1. UNCHANGED store
      BY <1>2 DEF ClientNext, RegisterNode, DelegateVotes, ActivateNode, DeactivateNode, Start,
         SendNode, ReadNodeList, SendNodeList, ReadNode, SendVotes, SendDelegation, ReadDelegationList,
         SendDelegationList, SendStatus, Fail, Succeed
    <2> QED
      BY <2>1
  <1> QED
    BY <1>1, <1>2

\* No version of a node exists before its handler submits the first.
LEMMA FreshNodesStep ==
    ASSUME TypeOK, Control, FreshNodes, NEW c \in Clients, ClientNext(c), TypeOK', Control'
    PROVE  FreshNodes'
  <1>1. /\ \A id \in Ids : NodeVersions(id) # {} => id <= started
        /\ \A d \in Clients : pc[d] = "sendNode" => op[d].node \in Ids /\ NodeVersions(op[d].node) = {}
    BY DEF FreshNodes, Control, ClientControl
  <1>2. \A id \in Ids : \A v \in NodeVersions(id)' : v \in NodeVersions(id) \/ WritesVersion(c, id, v)
    BY VersionsAfterStep
  <1>3. started \in Nat /\ started' \in Nat /\ started <= started'
    BY NothingIsForgotten, ClientAssumption DEF TypeOK
  <1>4. ASSUME NEW id \in Ids, NEW v, WritesVersion(c, id, v), NodeVersions(id) = {}
        PROVE  SendNode(c) /\ id = op[c].node
    BY <1>4, WrittenVersion DEF WritesVersion
  <1>5. ASSUME NEW id \in Ids, NodeVersions(id)' # {} PROVE id <= started'
    <2>1. CASE NodeVersions(id) # {}
      BY <1>1, <1>3, <2>1 DEF Ids
    <2>2. CASE SendNode(c) /\ id = op[c].node
      BY <1>3, <2>2 DEF SendNode, Control, ClientControl, Registering, Ids
    <2> QED
      BY <1>2, <1>4, <1>5, <2>1, <2>2
  <1>6. ASSUME NEW d \in Clients, pc'[d] = "sendNode", NEW id \in Ids, id = op'[d].node, NEW v \in NodeVersions(id)'
        PROVE  FALSE
    <2>1. CASE d = c /\ Starts(c)
      <3>1. id = started + 1 /\ ~ SendNode(c)
        <4>1. PICK kind \in Kinds, node \in Ids, amount \in Nat, next \in {"sendNode", "readNode"} :
                 Start(c, kind, node, amount, next) /\ (next = "sendNode" => node = started + 1)
          BY <2>1, StartsOperation
        <4> QED
          BY <1>6, <2>1, <4>1 DEF Start, TypeOK, SendNode
      <3> QED
        BY <1>1, <1>2, <1>3, <1>4, <1>6, <3>1
    <2>2. CASE ~ (d = c /\ Starts(c))
      <3>1. pc[d] = "sendNode" /\ op[d].node = id /\ ~ (d = c /\ SendNode(c))
        <4>1. CASE d # c
          BY <1>6, <4>1, OneClientSteps
        <4>2. CASE d = c
          <5> USE DEF Goto, TypeOK
          <5>1. CASE SendNode(c) \/ SendNodeList(c) \/ SendVotes(c) \/ SendDelegation(c)
            BY <1>6, <4>2, <5>1 DEF SendNode, SendNodeList, SendVotes, SendDelegation
          <5>2. CASE SendDelegationList(c) \/ SendStatus(c) \/ ReadNodeList(c)
            BY <1>6, <4>2, <5>2 DEF SendDelegationList, SendStatus, ReadNodeList
          <5>3. CASE ReadDelegationList(c) \/ Fail(c) \/ Succeed(c) \/ ReadNode(c)
            BY <1>6, <4>2, <5>3 DEF ReadDelegationList, Fail, Succeed, ReadNode
          <5>4. CASE Mine(c)
            BY <1>6, <4>2, <5>4 DEF Mine, SendNode
          <5> QED
            BY <2>2, <4>2, <5>1, <5>2, <5>3, <5>4 DEF ClientNext, Starts
        <4> QED
          BY <4>1, <4>2
      <3>2. NodeVersions(id) = {}
        BY <1>1, <3>1
      <3>3. SendNode(c) /\ id = op[c].node
        BY <1>2, <1>4, <1>6, <3>2
      <3> QED
        BY <3>1, <3>3 DEF SendNode, Control, ClientControl, Registering, Ids
    <2> QED
      BY <2>1, <2>2
  <1>7. \A d \in Clients : pc'[d] = "sendNode" => op'[d].node \in Ids
    BY DEF Control, ClientControl
  <1> QED
    BY <1>5, <1>6, <1>7 DEF FreshNodes

\* The owner's card stays that of the node's owner, and so does the handler its
\* button started.
LEMMA OwnersActStep ==
    ASSUME TypeOK, Control, Pointers, Versions, OwnersAct, NEW c \in Clients, ClientNext(c), TypeOK'
    PROVE  OwnersAct'
  <1>1. \A id \in Ids : IsStored(NodeKey(id)) =>
            IsStored(NodeKey(id))' /\ store'[NodeKey(id)].address = store[NodeKey(id)].address
    BY OneClientSteps, OwnerIsKept
  <1>2. \A card \in shown : /\ card.node \in Ids /\ IsStored(NodeKey(card.node))'
                           /\ store'[NodeKey(card.node)].address = card.address
    BY <1>1 DEF TypeOK, OwnersAct
  <1>3. ASSUME NEW card \in shown'
        PROVE  IsStored(NodeKey(card.node))' /\ store'[NodeKey(card.node)].address = card.address
    <2>1. CASE card \in shown
      BY <1>2, <2>1
    <2>2. CASE card \notin shown
      <3>1. Mine(c)
        BY <2>2 DEF ClientNext, RegisterNode, DelegateVotes, ActivateNode, DeactivateNode, Start,
           SendNode, ReadNodeList, SendNodeList, ReadNode, SendVotes, SendDelegation, ReadDelegationList,
           SendDelegationList, SendStatus, Fail, Succeed
      <3>2. card.node \in Ids /\ IsStored(NodeKey(card.node))' /\ card = Card(card.node)'
        BY <2>2, <3>1, CardsAfterMine DEF TypeOK
      <3>3. (\A id \in Ids : IsStored(NodeKey(id)) =>
                 /\ Card(id) \in [node : Ids, address : Clients, status : Statuses]
                 /\ Card(id).node = id /\ Card(id).address = store[NodeKey(id)].address
                 /\ Card(id).status = store[NodeKey(id)].status)'
        BY CardType, PTL DEF TypeOK
      <3> QED
        BY <3>2, <3>3
    <2> QED
      BY <2>1, <2>2
  <1>4. ASSUME NEW d \in Clients, pc'[d] \in {"readNode", "sendStatus"},
               op'[d].kind \in {"activate", "deactivate"}
        PROVE  IsStored(NodeKey(op[d].node))' /\ store'[NodeKey(op'[d].node)].address = d
    <2>1. CASE d = c /\ Starts(c)
      <3>1. PICK kind \in Kinds, node \in Ids, amount \in Nat, next \in {"sendNode", "readNode"} :
                /\ Start(c, kind, node, amount, next)
                /\ kind \in {"activate", "deactivate"} =>
                       \E card \in shown : card.node = node /\ card.address = c
        BY <2>1, StartsOperation
      <3>2. op'[c].kind = kind /\ op'[c].node = node
        BY <3>1 DEF Start, TypeOK
      <3> QED
        BY <1>2, <1>4, <2>1, <3>1, <3>2
    <2>2. CASE ~ (d = c /\ Starts(c))
      <3>1. pc[d] \in {"readNode", "sendStatus"} /\ op'[d].kind = op[d].kind /\ op'[d].node = op[d].node
        <4>1. CASE d # c
          BY <1>4, <4>1, OneClientSteps
        <4>2. CASE d = c
          <5> USE DEF Goto, TypeOK
          <5>1. CASE SendNode(c) \/ SendNodeList(c) \/ SendVotes(c) \/ SendDelegation(c)
            BY <1>4, <4>2, <5>1 DEF SendNode, SendNodeList, SendVotes, SendDelegation
          <5>2. CASE SendDelegationList(c) \/ SendStatus(c) \/ ReadNodeList(c)
            BY <1>4, <4>2, <5>2 DEF SendDelegationList, SendStatus, ReadNodeList
          <5>3. CASE ReadDelegationList(c) \/ Fail(c) \/ Succeed(c)
            BY <1>4, <4>2, <5>3 DEF ReadDelegationList, Fail, Succeed
          <5>4. CASE ReadNode(c)
            BY <1>4, <4>2, <5>4, ReadsLocal DEF ReadNode, ReadsInto
          <5>5. CASE Mine(c)
            BY <1>4, <4>2, <5>5 DEF Mine
          <5> QED
            BY <2>2, <4>2, <5>1, <5>2, <5>3, <5>4, <5>5 DEF ClientNext, Starts
        <4> QED
          BY <4>1, <4>2
      <3>2. op[d].node \in Ids /\ IsStored(NodeKey(op[d].node)) /\ store[NodeKey(op[d].node)].address = d
        BY <1>4, <3>1 DEF OwnersAct, Control, ClientControl
      <3> QED
        BY <1>1, <3>1, <3>2
    <2> QED
      BY <2>1, <2>2
  <1> QED
    BY <1>3, <1>4 DEF OwnersAct

\* Every step keeps all versions of a record with one owner, backed votes and a
\* chosen status.
LEMMA VersionsStep ==
    ASSUME TypeOK, Control, Versions, FreshNodes, OwnersAct, NEW c \in Clients, ClientNext(c)
    PROVE  Versions'
  <1> SUFFICES ASSUME NEW id \in Ids
               PROVE  /\ \A v, w \in NodeVersions(id)' : v.address = w.address
                      /\ \A v \in NodeVersions(id)' : v.votes <= requested'[id] /\ StatusChosen(id, v)'
    BY DEF Versions
  <1>1. /\ \A v, w \in NodeVersions(id) : v.address = w.address
        /\ \A v \in NodeVersions(id) : v.votes <= requested[id] /\ StatusChosen(id, v)
    BY DEF Versions
  <1>2. \A v \in NodeVersions(id) : v \in NodeRecord
    BY VersionType
  <1>3. \A v \in NodeVersions(id)' : v \in NodeVersions(id) \/ WritesVersion(c, id, v)
    BY VersionsAfterStep
  <1>4. /\ requested[id] \in Nat /\ requested'[id] \in Nat /\ requested[id] <= requested'[id]
        /\ completed \subseteq completed'
    BY NothingIsForgotten
  <1>5. ASSUME NEW v, WritesVersion(c, id, v), ~ SendNode(c)
        PROVE  \E w \in NodeVersions(id) : v.address = w.address
    BY <1>5, WrittenVersion
  <1>6. ASSUME NEW v, WritesVersion(c, id, v), SendNode(c)
        PROVE  NodeVersions(id) = {} /\ v = FirstRecord(c)
    <2>1. NodeVersions(id) = {}
      BY <1>6 DEF WritesVersion, SendNode, FreshNodes
    <2> QED
      BY <1>6, <2>1, WrittenVersion
  <1>7. ASSUME NEW v \in NodeVersions(id)', NEW w \in NodeVersions(id)' PROVE v.address = w.address
    <2>1. CASE SendNode(c) /\ (WritesVersion(c, id, v) \/ WritesVersion(c, id, w))
      BY <1>3, <1>6, <2>1
    <2>2. CASE ~ (SendNode(c) /\ (WritesVersion(c, id, v) \/ WritesVersion(c, id, w)))
      BY <1>1, <1>3, <1>5, <2>2
    <2> QED
      BY <2>1, <2>2
  <1>8. ASSUME NEW v \in NodeVersions(id)
        PROVE  v.votes <= requested'[id] /\ StatusChosen(id, v)'
    <2>1. v.votes \in Nat /\ v.votes <= requested[id]
      BY <1>1, <1>2 DEF NodeRecord
    <2>2. StatusChosen(id, v)'
      BY <1>1, <1>4 DEF StatusChosen
    <2> QED
      BY <1>4, <2>1, <2>2
  <1>9. ASSUME NEW v, WritesVersion(c, id, v)
        PROVE  v.votes <= requested'[id] /\ StatusChosen(id, v)'
    <2>1. CASE SendNode(c)
      BY <1>4, <1>6, <1>9, <2>1 DEF FirstRecord, StatusChosen
    <2>2. CASE SendVotes(c) /\ op[c].record \in NodeVersions(id)
      <3>1. /\ v.address = op[c].record.address /\ v.status = op[c].record.status
            /\ v.votes = op[c].record.votes + op[c].amount
        <4>1. ~ SendNode(c) /\ ~ SendStatus(c)
          BY <2>2 DEF SendNode, SendVotes, SendStatus
        <4> QED
          BY <1>9, <4>1, WrittenVersion
      <3>2. op[c].amount \in Nat /\ op[c].record.votes \in Nat /\ id = op[c].node
        BY <1>2, <1>9, <2>2 DEF TypeOK, Operation, NodeRecord, WritesVersion
      <3>3. requested'[id] = requested[id] + op[c].amount
        BY <2>2, <3>2 DEF SendVotes, TypeOK
      <3>4. v.votes <= requested'[id]
        BY <1>1, <1>4, <2>2, <3>1, <3>2, <3>3
      <3> QED
        BY <1>8, <2>2, <3>1, <3>4 DEF StatusChosen
    <2>3. CASE SendStatus(c) /\ op[c].record \in NodeVersions(id)
      <3>1. /\ v.address = op[c].record.address /\ v.votes = op[c].record.votes
            /\ v.status = IF op[c].kind = "activate" THEN "active" ELSE "inactive"
        <4>1. ~ SendNode(c) /\ ~ SendVotes(c)
          BY <2>3 DEF SendNode, SendVotes, SendStatus
        <4> QED
          BY <1>9, <4>1, WrittenVersion
      <3>2. v.votes <= requested'[id]
        BY <1>8, <2>3, <3>1
      <3>3. /\ id = op[c].node /\ op[c].kind \in {"activate", "deactivate"}
            /\ IsStored(NodeKey(id)) /\ store[NodeKey(id)].address = c
        BY <1>9, <2>3 DEF WritesVersion, SendStatus, Control, ClientControl, OwnersAct
      <3>4. v.address = c
        BY <1>1, <2>3, <3>1, <3>3, SentValues, VersionMember
      <3> DEFINE o == [client |-> c, kind |-> op[c].kind, node |-> op[c].node,
                       amount |-> op[c].amount, id |-> op[c].id]
      <3>5. o \in completed'
        BY <2>3 DEF SendStatus, Complete
      <3>6. StatusChosen(id, v)'
        BY <3>1, <3>3, <3>4, <3>5 DEF StatusChosen
      <3> QED
        BY <3>2, <3>6
    <2> QED
      BY <1>9, <2>1, <2>2, <2>3, WrittenVersion
  <1> QED
    BY <1>3, <1>7, <1>8, <1>9

----------------------------------------------------------------------------
\* The invariant of the specification, and what it implies

\* The invariant holds at first,
LEMMA InitInvariant == Init => IInv
  <1> SUFFICES ASSUME Init PROVE IInv
    OBVIOUS
  <1> USE DEF Init, AdapterInit, EmptyBytes
  <1>1. TypeOK
    BY ClientAssumption DEF TypeOK, StoreOK, Awaits, Operation, NoOp, Kinds
  <1>2. Control
    BY DEF Control, ClientControl, NoOp, Registering, Delegating, HoldsRecord
  <1>3. \A k : Sent(k) = {}
    BY SentMember DEF IsStored
  <1>4. \A id : NodeVersions(id) = {}
    BY <1>3, VersionMember DEF HoldsRecord
  <1>5. GetData(NodeListKey) = <<>> /\ GetData(DelegationListKey) = <<>>
    BY DEF GetData
  <1>6. Pointers
    BY <1>3, <1>5 DEF Pointers, QueuePoints, HandlerPoints, ListsPoint, DelegationsPoint, Delegating,
       ListedNodes, ListedDelegations, Listed
  <1>7. Versions /\ FreshNodes /\ OwnersAct
    BY <1>4 DEF Versions, FreshNodes, OwnersAct
  <1> QED
    BY <1>1, <1>2, <1>6, <1>7 DEF IInv

\* a step of any client keeps it,
LEMMA ClientInvariant ==
    ASSUME IInv, NEW c \in Clients, ClientNext(c)
    PROVE  IInv'
  <1>1. TypeOK' /\ Control'
    BY TypeStep, ControlStep DEF IInv
  <1> QED
    BY <1>1, PointersStep, VersionsStep, FreshNodesStep, OwnersActStep DEF IInv

\* The variables of the store and the application alone decide the invariant.
LEMMA StutterInvariant == IInv /\ UNCHANGED vars => IInv'
  <1> SUFFICES ASSUME IInv, UNCHANGED vars PROVE IInv'
    OBVIOUS
  <1> USE DEF vars, appVars
  <1>1. TypeOK' /\ Control'
    BY DEF IInv, TypeOK, StoreOK, Control, ClientControl, Registering, Delegating, HoldsRecord
  <1>2. Pointers'
    BY SentUnchanged DEF IInv, Pointers, QueuePoints, HandlerPoints, ListsPoint, DelegationsPoint,
       ComesBefore, IsStored, ListedNodes, ListedDelegations, GetData, Delegating
  <1>3. \A id : NodeVersions(id)' = NodeVersions(id)
    BY SentUnchanged DEF NodeVersions, HoldsRecord
  <1>4. Versions' /\ FreshNodes' /\ OwnersAct'
    BY <1>3 DEF IInv, Versions, StatusChosen, FreshNodes, OwnersAct, IsStored
  <1> QED
    BY <1>1, <1>2, <1>4 DEF IInv

\* and so does a stutter.
LEMMA StepInvariant == IInv /\ [Next]_vars => IInv'
  BY ClientInvariant, StutterInvariant DEF Next

\* The invariant holds for every number of clients and operations.
THEOREM InvariantHolds == Spec => []IInv
  BY InitInvariant, StepInvariant, PTL DEF Spec

\* The records of what is listed are stored.
LEMMA ListedAreStored == IInv => ListedRecordsAreStored
  <1> SUFFICES ASSUME IInv PROVE ListedRecordsAreStored
    OBVIOUS
  <1>1. StoreOK /\ ListsPoint /\ DelegationsPoint
    BY DEF IInv, TypeOK, Pointers
  <1>2. ListedNodes \subseteq Ids /\ ListedDelegations \subseteq Ids
    BY <1>1, ReadType, ListedType DEF ListedNodes, ListedDelegations
  <1>3. \A id \in ListedNodes : GetData(NodeKey(id)) # EmptyBytes
    BY <1>1, <1>2, ReadType DEF ListsPoint
  <1>4. ASSUME NEW id \in ListedDelegations
        PROVE  /\ GetData(DelegationKey(id)) # EmptyBytes
               /\ GetData(NodeKey(GetData(DelegationKey(id)).node)) # EmptyBytes
    <2>1. IsStored(DelegationKey(id)) /\ id \in Ids
      BY <1>1, <1>2 DEF ListsPoint
    <2>2. /\ GetData(DelegationKey(id)) = store[DelegationKey(id)]
          /\ store[DelegationKey(id)] \in DelegationRecord
      BY <1>1, <2>1, StoreType DEF GetData, IsStored
    <2>3. IsStored(NodeKey(store[DelegationKey(id)].node))
      BY <1>1, <2>1, SentValues DEF DelegationsPoint
    <2> QED
      BY <1>1, <2>2, <2>3, ReadType, RecordsAreNotEmpty DEF DelegationRecord
  <1> QED
    BY <1>3, <1>4 DEF ListedRecordsAreStored

\* No page load meets a dangling id: the record of every listed node and
\* delegation is stored, because setData is called for the record before the
\* list, in the same account's nonce order (App.tsx, registerNode, delegateVotes).
THEOREM ListsCorrect == Spec => []ListedRecordsAreStored
  BY ListedAreStored, InvariantHolds, PTL

\* A node never has more votes than submitted delegations added to it, however
\* the rewrites of its record race (App.tsx, delegateVotes).
THEOREM VotesCorrect == Spec => []VotesAreBacked
  <1>1. IInv => VotesAreBacked
    BY VersionMember, SentValues DEF IInv, Versions, VotesAreBacked, GetData, IsStored
  <1> QED
    BY <1>1, InvariantHolds, PTL

\* A node is active or inactive only if its owner once made it so (App.tsx,
\* activateNode and deactivateNode, whose buttons are drawn for the owner).
THEOREM StatusCorrect == Spec => []StatusIsOwnersChoice
  <1>1. IInv => StatusIsOwnersChoice
    BY VersionMember, SentValues DEF IInv, Versions, StatusChosen, StatusIsOwnersChoice, GetData, IsStored
  <1> QED
    BY <1>1, InvariantHolds, PTL

\* No rewrite of a node's record changes its owner.
THEOREM OwnersCorrect == Spec => OwnersNeverChange
  <1>1. IInv /\ [Next]_vars =>
            [\A id \in Ids : NodeKey(id) \in DOMAIN store =>
                GetData(NodeKey(id)).address' = GetData(NodeKey(id)).address]_vars
    <2> SUFFICES ASSUME IInv, NEW c \in Clients, ClientNext(c), NEW id \in Ids, IsStored(NodeKey(id))
                 PROVE  GetData(NodeKey(id)).address' = GetData(NodeKey(id)).address
      BY DEF Next, IsStored
    <2>1. IsStored(NodeKey(id))' /\ store'[NodeKey(id)].address = store[NodeKey(id)].address
      BY OneClientSteps, OwnerIsKept DEF IInv
    <2> QED
      BY <2>1 DEF GetData, IsStored
  <1> QED
    BY <1>1, InvariantHolds, PTL DEF Spec, OwnersNeverChange
----------------------------------------------------------------------------
\* Operations that do not overlap: what one of them submits, in nonce order

RecordTx(c) ==
    LET record == GetData(NodeKey(op[c].node))
    IN  [key |-> NodeKey(op[c].node),
         value |-> CASE op[c].kind = "register" -> FirstRecord(c)
                     [] op[c].kind = "delegate" -> WithVotes(record, op[c].amount)
                     [] OTHER -> WithStatus(record, op[c].kind)]
NodeListTx(c) == [key |-> NodeListKey, value |-> Append(GetData(NodeListKey), op[c].node)]
DelegationTx(c) == [key |-> DelegationKey(op[c].id), value |-> Delegation(c)]
DelegationListTx(c) ==
    [key |-> DelegationListKey, value |-> Append(GetData(DelegationListKey), op[c].id)]

Plan(c) == CASE op[c].kind = "register" -> <<RecordTx(c), NodeListTx(c)>>
             [] op[c].kind = "delegate" -> <<RecordTx(c), DelegationTx(c), DelegationListTx(c)>>
             [] OTHER -> <<RecordTx(c)>>

\* How many of them a handler has submitted at each of its awaits
SubmittedAt(at) == CASE at \in {"readNodeList", "sendNodeList", "sendDelegation"} -> 1
                     [] at \in {"readDelegationList", "sendDelegationList"} -> 2
                     [] OTHER -> 0

\* What the store says of the operation once so many of them are mined
Effects(c, mined) ==
    /\ op[c].kind = "register" =>
           /\ op[c].node \notin ListedNodes
           /\ mined >= 1 => GetData(NodeKey(op[c].node)) = FirstRecord(c)
    /\ op[c].kind # "register" => op[c].node \in ListedNodes
    /\ op[c].kind = "delegate" =>
           /\ op[c].id \notin ListedDelegations /\ op[c].amount \in Amounts
           /\ mined >= 1 => Registry!Recorded(op[c].node) + op[c].amount
                                <= GetData(NodeKey(op[c].node)).votes
           /\ mined >= 2 => GetData(DelegationKey(op[c].id)) = Delegation(c)

\* A handler has not submitted its last transaction; it has one that is not mined
Working(c) == pc[c] \notin {"idle", "succeed"}
Unsettled(c) == Working(c) \/ mempool[c] # <<>>

\* The queue holds those submitted and not yet mined
Progress(c, mined) ==
    LET sent == mined + Len(mempool[c])
    IN  /\ sent <= Len(Plan(c))
        /\ \A i \in 1 .. Len(mempool[c]) : mempool[c][i] = Plan(c)[mined + i]
        /\ Working(c) => sent = SubmittedAt(pc[c])
        /\ Effects(c, mined)

\* What a handler holds is what is stored
HoldsStored(c) ==
    /\ HoldsRecord(c) => op[c].record = GetData(NodeKey(op[c].node))
    /\ pc[c] = "sendNodeList" => op[c].list = GetData(NodeListKey)
    /\ pc[c] = "sendDelegationList" => op[c].list = GetData(DelegationListKey)

OneInFlight ==
    \A c \in Clients :
        /\ InFlight(c) => \A d \in Clients \ {c} : ~ InFlight(d)
        /\ Unsettled(c) => /\ op[c].node \in Ids /\ op[c].id \in Ids
                           /\ HoldsStored(c)
                           /\ \E mined \in 0 .. Len(Plan(c)) - 1 : Progress(c, mined)

\* The registry counts all it records, and what is listed and shown hangs together
RegistrySound ==
    /\ \A id \in ListedNodes : Registry!Recorded(id) <= GetData(NodeKey(id)).votes
    /\ \A id \in ListedDelegations :
           id <= started /\ GetData(DelegationKey(id)).node \in ListedNodes
    /\ \A card \in shown : card.node \in ListedNodes

SerialInv == IInv /\ OneInFlight /\ RegistrySound

\* Who has nothing in flight has nothing unsettled.
LEMMA OthersSettled ==
    (\A c \in Clients : Unsettled(c) => InFlight(c))
    /\ (\A c \in Clients : Unsettled(c) => InFlight(c))'
  BY DEF Unsettled, Working, InFlight

----------------------------------------------------------------------------
\* The sum of what is recorded for a node

DelegationEntry == [id : Ids, delegator : Clients, node : Ids, amount : Nat]
AmountIn == [d \in DelegationEntry |-> d.amount]
RecordedFor(id) == {d \in RegistryDelegations : d.node = id}

\* What is listed has ids and records of its type, and is finitely many.
LEMMA EntryTypes ==
    ASSUME IInv
    PROVE  /\ ListedNodes \subseteq Ids /\ ListedDelegations \subseteq Ids
           /\ \A id \in ListedNodes : GetData(NodeKey(id)) \in NodeRecord
           /\ \A id \in ListedDelegations : GetData(DelegationKey(id)) \in DelegationRecord
           /\ RegistryDelegations \subseteq DelegationEntry
           /\ IsFiniteSet(RegistryDelegations)
  <1>1. StoreOK /\ ListsPoint
    BY DEF IInv, TypeOK, Pointers
  <1>2. ListedNodes \subseteq Ids /\ ListedDelegations \subseteq Ids
    BY <1>1, ReadType, ListedType DEF ListedNodes, ListedDelegations
  <1>3. /\ \A id \in ListedNodes : GetData(NodeKey(id)) \in NodeRecord
        /\ \A id \in ListedDelegations : GetData(DelegationKey(id)) \in DelegationRecord
    BY <1>1, <1>2, StoreType DEF ListsPoint, GetData, IsStored
  <1>4. RegistryDelegations \subseteq DelegationEntry
    BY <1>2, <1>3 DEF RegistryDelegations, DelegationEntry, DelegationRecord
  <1>5. IsFiniteSet(RegistryDelegations)
    <2> DEFINE Entry(id) == [id |-> id, delegator |-> GetData(DelegationKey(id)).delegator,
                             node |-> GetData(DelegationKey(id)).node,
                             amount |-> GetData(DelegationKey(id)).amount]
    <2>1. IsFiniteSet(ListedDelegations)
      <3>1. IsFiniteSet(Ids)
        BY ClientAssumption, FS_Interval DEF Ids
      <3> QED
        BY <1>2, <3>1, FS_Subset
    <2>2. RegistryDelegations = {Entry(id) : id \in ListedDelegations}
      BY DEF RegistryDelegations
    <2> DEFINE f == [id \in ListedDelegations |-> Entry(id)]
    <2>3. f \in Surjection(ListedDelegations, RegistryDelegations)
      BY <2>2 DEF Surjection
    <2> HIDE DEF f
    <2> QED
      BY <2>1, <2>3, FS_Surjection
  <1> QED
    BY <1>2, <1>3, <1>4, <1>5

\* The abstract registry's sum over the delegations of a node is a number of
\* units, of which SetSums says how it grows.
LEMMA RecordedIsCount ==
    ASSUME RegistryDelegations \subseteq DelegationEntry, IsFiniteSet(RegistryDelegations), NEW id
    PROVE  /\ Registry!Recorded(id) = Cardinality(Units(RecordedFor(id), AmountIn))
           /\ IsFiniteSet(Units(RecordedFor(id), AmountIn))
           /\ Registry!Recorded(id) \in Nat
  <1> DEFINE S == RecordedFor(id)
             Amount(d) == d.amount
             Solves(g) == g = [T \in SUBSET S |-> IF T = {} THEN 0 ELSE Amount(Pick(T)) + g[T \ {Pick(T)}]]
             f == CHOOSE g : Solves(g)
  <1>1. IsFiniteSet(S) /\ \A d \in S : AmountIn[d] \in Nat /\ AmountIn[d] = Amount(d)
    <2>1. S \subseteq RegistryDelegations
      BY DEF RecordedFor
    <2> QED
      BY <2>1, FS_Subset DEF AmountIn, DelegationEntry
  <1>2. \A T \in SUBSET S : T # {} => Amount(Pick(T)) = AmountIn[Pick(T)]
    BY <1>1 DEF Pick
  <1>3. ASSUME NEW g PROVE Solves(g) <=> IsSum(g, S, AmountIn)
    BY <1>2 DEF IsSum
  <1>4. \E g : Solves(g)
    BY <1>1, <1>3, CountIsSum
  <1>5. Registry!Recorded(id) = f[S]
    BY DEF Registry!Recorded, Registry!MapThenSumSet, Registry!MapThenFoldSet, Pick, RecordedFor
  <1>6. Solves(f)
    BY <1>4
  <1> HIDE DEF f, Solves
  <1>7. IsSum(f, S, AmountIn)
    BY <1>3, <1>6
  <1>8. f[S] = Cardinality(Units(S, AmountIn))
    BY <1>1, <1>7, SumIsCount
  <1>9. IsFiniteSet(Units(S, AmountIn)) /\ Cardinality(Units(S, AmountIn)) \in Nat
    BY <1>1, UnitsFinite
  <1> QED
    BY <1>5, <1>8, <1>9

\* The same, in every state of the application.
LEMMA RecordedCounts ==
    IInv => \A id : /\ Registry!Recorded(id) = Cardinality(Units(RecordedFor(id), AmountIn))
                    /\ IsFiniteSet(Units(RecordedFor(id), AmountIn))
                    /\ Registry!Recorded(id) \in Nat
  BY EntryTypes, RecordedIsCount

\* The sums stay when the recorded delegations do.
LEMMA RecordedKept ==
    ASSUME IInv, IInv', RegistryDelegations' = RegistryDelegations
    PROVE  \A id : Registry!Recorded(id)' = Registry!Recorded(id)
  <1>1. \A id : Registry!Recorded(id) = Cardinality(Units(RecordedFor(id), AmountIn))
    BY RecordedCounts
  <1>2. (\A id : /\ Registry!Recorded(id) = Cardinality(Units(RecordedFor(id), AmountIn))
                 /\ IsFiniteSet(Units(RecordedFor(id), AmountIn))
                 /\ Registry!Recorded(id) \in Nat)'
    BY RecordedCounts, PTL
  <1>3. \A id : RecordedFor(id)' = RecordedFor(id)
    BY DEF RecordedFor
  <1> QED
    BY <1>1, <1>2, <1>3 DEF AmountIn

\* A delegation that joins the registry adds its amount to its node's sum.
LEMMA RecordedMore ==
    ASSUME IInv, IInv', NEW d \in DelegationEntry, d \notin RegistryDelegations,
           RegistryDelegations' = RegistryDelegations \cup {d}
    PROVE  \A id : Registry!Recorded(id)' = Registry!Recorded(id) + IF d.node = id THEN d.amount ELSE 0
  <1>1. \A id : /\ Registry!Recorded(id) = Cardinality(Units(RecordedFor(id), AmountIn))
                /\ IsFiniteSet(Units(RecordedFor(id), AmountIn))
                /\ Registry!Recorded(id) \in Nat
    BY RecordedCounts
  <1>2. (\A id : /\ Registry!Recorded(id) = Cardinality(Units(RecordedFor(id), AmountIn))
                 /\ IsFiniteSet(Units(RecordedFor(id), AmountIn))
                 /\ Registry!Recorded(id) \in Nat)'
    BY RecordedCounts, PTL
  <1> TAKE id
  <1>3. CASE d.node = id
    <2> DEFINE S == RecordedFor(id)'
    <2>1. d \in S /\ S \ {d} = RecordedFor(id)
      BY <1>3 DEF RecordedFor
    <2>2. AmountIn[d] = d.amount /\ AmountIn[d] \in Nat
      BY DEF AmountIn, DelegationEntry
    <2>3. Registry!Recorded(id)' = Cardinality(Units(S, AmountIn))
      BY <1>2 DEF AmountIn
    <2> HIDE DEF S
    <2>4. Cardinality(Units(S, AmountIn)) = Cardinality(Units(S \ {d}, AmountIn)) + AmountIn[d]
      BY <1>1, <2>1, <2>2, UnitsAdd
    <2> QED
      BY <1>1, <1>3, <2>1, <2>2, <2>3, <2>4
  <1>4. CASE d.node # id
    <2>1. RecordedFor(id)' = RecordedFor(id)
      BY <1>4 DEF RecordedFor
    <2>2. Registry!Recorded(id)' = Registry!Recorded(id)
      BY <1>1, <1>2, <2>1 DEF AmountIn
    <2> QED
      BY <1>1, <1>4, <2>2
  <1> QED
    BY <1>3, <1>4

----------------------------------------------------------------------------
\* What mining a transaction does to what is read

\* Mining changes what is read under one key.
LEMMA DataAfterMine ==
    ASSUME TypeOK, NEW c \in Clients, Mine(c)
    PROVE  \A key : GetData(key)' = IF key = mempool[c][1].key THEN mempool[c][1].value ELSE GetData(key)
  <1>1. /\ DOMAIN store' = DOMAIN store \cup {mempool[c][1].key}
        /\ store'[mempool[c][1].key] = mempool[c][1].value
        /\ \A k \in DOMAIN store : k # mempool[c][1].key => store'[k] = store[k]
    BY QueueAfterMine
  <1> QED
    BY <1>1 DEF GetData

\* Mining changes what is listed or recorded only through the key of a list,
\* or of a record that is listed.
LEMMA RegistryAfterMine ==
    ASSUME IInv, NEW c \in Clients, Mine(c)
    PROVE  /\ mempool[c][1].key # NodeListKey => ListedNodes' = ListedNodes
           /\ mempool[c][1].key # DelegationListKey => ListedDelegations' = ListedDelegations
           /\ /\ mempool[c][1].key # DelegationListKey
              /\ \A id \in ListedDelegations : mempool[c][1].key # DelegationKey(id)
              => RegistryDelegations' = RegistryDelegations
           /\ /\ mempool[c][1].key # NodeListKey
              /\ \A id \in ListedNodes : mempool[c][1].key # NodeKey(id)
              => RegistryNodes' = RegistryNodes
  <1>1. \A key : key # mempool[c][1].key => GetData(key)' = GetData(key)
    BY DataAfterMine DEF IInv
  <1>2. mempool[c][1].key # NodeListKey => ListedNodes' = ListedNodes
    BY <1>1 DEF ListedNodes
  <1>3. mempool[c][1].key # DelegationListKey => ListedDelegations' = ListedDelegations
    BY <1>1 DEF ListedDelegations
  <1> QED
    BY <1>1, <1>2, <1>3 DEF RegistryNodes, RegistryDelegations

\* The plan of each kind of operation.
LEMMA PlanOf ==
    ASSUME NEW c \in Clients
    PROVE  /\ op[c].kind = "register" =>
                  Len(Plan(c)) = 2 /\ Plan(c)[1] = RecordTx(c) /\ Plan(c)[2] = NodeListTx(c)
           /\ op[c].kind = "delegate" =>
                  /\ Len(Plan(c)) = 3 /\ Plan(c)[1] = RecordTx(c)
                  /\ Plan(c)[2] = DelegationTx(c) /\ Plan(c)[3] = DelegationListTx(c)
           /\ op[c].kind \in {"activate", "deactivate"} => Len(Plan(c)) = 1 /\ Plan(c)[1] = RecordTx(c)
  BY DEF Plan

\* A handler has always something left to submit.
LEMMA HandlerHasMore ==
    ASSUME Control, NEW c \in Clients, Working(c), op[c].kind \in Kinds
    PROVE  SubmittedAt(pc[c]) < Len(Plan(c)) /\ SubmittedAt(pc[c]) \in Nat
  BY PlanOf DEF Working, Control, ClientControl, Registering, Delegating, SubmittedAt, Kinds

\* What is mined next is the first of the plan that is not mined yet.
LEMMA NextMined ==
    ASSUME IInv, OneInFlight, NEW c \in Clients, Mine(c)
    PROVE  \E mined \in 0 .. Len(Plan(c)) - 1 :
               /\ Progress(c, mined)
               /\ \/ mined = 0 /\ mempool[c][1] = RecordTx(c)
                  \/ op[c].kind = "register" /\ mined = 1 /\ mempool[c][1] = NodeListTx(c)
                  \/ op[c].kind = "delegate" /\ mined = 1 /\ mempool[c][1] = DelegationTx(c)
                  \/ op[c].kind = "delegate" /\ mined = 2 /\ mempool[c][1] = DelegationListTx(c)
  <1>1. mempool[c] # <<>> /\ 1 \in 1 .. Len(mempool[c])
    BY QueueAfterMine DEF IInv
  <1>2. PICK mined \in 0 .. Len(Plan(c)) - 1 : Progress(c, mined)
    BY <1>1 DEF OneInFlight, Unsettled
  <1>3. op[c].kind \in Kinds
    BY DEF IInv, TypeOK, Operation
  <1>4. mempool[c][1] = Plan(c)[mined + 1]
    BY <1>1, <1>2 DEF Progress
  <1>5. Len(Plan(c)) \in Nat
    BY <1>3, PlanOf DEF Kinds
  <1>6. mined = 0 \/ (op[c].kind = "register" /\ mined = 1)
                  \/ (op[c].kind = "delegate" /\ mined \in {1, 2})
    <2>1. CASE op[c].kind = "register"
      <3>1. Len(Plan(c)) = 2
        BY <2>1, PlanOf
      <3> QED
        BY <2>1, <3>1
    <2>2. CASE op[c].kind = "delegate"
      <3>1. Len(Plan(c)) = 3
        BY <2>2, PlanOf
      <3> QED
        BY <2>2, <3>1
    <2>3. CASE op[c].kind \in {"activate", "deactivate"}
      <3>1. Len(Plan(c)) = 1
        BY <2>3, PlanOf
      <3> QED
        BY <3>1
    <2> QED
      BY <1>3, <2>1, <2>2, <2>3 DEF Kinds
  <1>7. mined = 0 => mempool[c][1] = RecordTx(c)
    BY <1>3, <1>4, PlanOf DEF Kinds
  <1>8. mined = 1 /\ op[c].kind = "register" => mempool[c][1] = NodeListTx(c)
    BY <1>4, PlanOf
  <1>9. op[c].kind = "delegate" => /\ mined = 1 => mempool[c][1] = DelegationTx(c)
                                   /\ mined = 2 => mempool[c][1] = DelegationListTx(c)
    BY <1>4, PlanOf
  <1> QED
    BY <1>2, <1>6, <1>7, <1>8, <1>9

\* Registry!Next or a stutter.
RegistryStep ==
    Registry!Next \/ UNCHANGED <<RegistryNodes, RegistryDelegations>>

\* The part of the invariant about what is counted and listed, after a step
Counted == \A id \in ListedNodes : Registry!Recorded(id) <= GetData(NodeKey(id)).votes
Placed == \A id \in ListedDelegations :
              id <= started /\ GetData(DelegationKey(id)).node \in ListedNodes

\* The record of a registration changes nothing that is listed.
LEMMA MineFirstRecord ==
    ASSUME IInv, IInv', OneInFlight, RegistrySound, NEW c \in Clients, Mine(c),
           NEW mined \in Nat, Progress(c, mined), mempool[c][1] = RecordTx(c), mined = 0,
           op[c].kind = "register"
    PROVE  /\ UNCHANGED <<RegistryNodes, RegistryDelegations, ListedNodes, ListedDelegations>>
           /\ Counted' /\ Placed'
           /\ GetData(NodeKey(op[c].node))' = FirstRecord(c)
  <1>1. op[c].node \in Ids
    BY QueueAfterMine DEF OneInFlight, InFlight, Working, Unsettled, IInv
  <1>2. mempool[c][1].key = NodeKey(op[c].node) /\ mempool[c][1].value = FirstRecord(c)
    BY DEF RecordTx
  <1>3. op[c].node \notin ListedNodes
    BY DEF Progress, Effects
  <1>4. ListedNodes \subseteq Ids /\ ListedDelegations \subseteq Ids
    BY EntryTypes
  <1>5. UNCHANGED <<RegistryNodes, RegistryDelegations, ListedNodes, ListedDelegations>>
    BY <1>1, <1>2, <1>3, <1>4, KeysDiffer, RegistryAfterMine
  <1>6. \A key : key # NodeKey(op[c].node) => GetData(key)' = GetData(key)
    BY <1>2, DataAfterMine DEF IInv
  <1>7. Counted'
    <2>1. \A id : Registry!Recorded(id)' = Registry!Recorded(id)
      BY <1>5, RecordedKept
    <2>2. \A id \in ListedNodes : GetData(NodeKey(id))' = GetData(NodeKey(id))
      BY <1>1, <1>3, <1>4, <1>6, KeysDiffer
    <2> QED
      BY <1>5, <2>1, <2>2 DEF Counted, RegistrySound
  <1>8. Placed'
    BY <1>1, <1>4, <1>5, <1>6, KeysDiffer DEF Placed, RegistrySound, Mine
  <1>9. GetData(NodeKey(op[c].node))' = FirstRecord(c)
    <2>1. op' = op
      BY DEF Mine
    <2>2. \A key : key = NodeKey(op[c].node) => GetData(key)' = FirstRecord(c)
      BY <1>2, DataAfterMine DEF IInv
    <2> QED
      BY <2>1, <2>2
  <1> QED
    BY <1>5, <1>7, <1>8, <1>9

\* A rewrite of a record is the registry's AddVotes or SetStatus.
LEMMA MineRewrite ==
    ASSUME IInv, IInv', OneInFlight, RegistrySound, NEW c \in Clients, Mine(c),
           NEW mined \in Nat, Progress(c, mined), mempool[c][1] = RecordTx(c), mined = 0,
           op[c].kind \in {"delegate", "activate", "deactivate"}
    PROVE  /\ RegistryStep
           /\ UNCHANGED <<RegistryDelegations, ListedNodes, ListedDelegations>>
           /\ Counted' /\ Placed'
           /\ op[c].kind = "delegate" =>
                  (Registry!Recorded(op[c].node) + op[c].amount <= GetData(NodeKey(op[c].node)).votes)'
  <1> DEFINE n == op[c].node
             old == GetData(NodeKey(n))
             new == mempool[c][1].value
  <1>1. n \in Ids /\ op' = op /\ started' = started
    BY QueueAfterMine DEF OneInFlight, InFlight, Working, Unsettled, IInv, Mine
  <1>2. n \in ListedNodes
    BY DEF Progress, Effects
  <1>3. ListedNodes \subseteq Ids /\ ListedDelegations \subseteq Ids /\ old \in NodeRecord
    BY <1>2, EntryTypes
  <1>4. /\ mempool[c][1].key = NodeKey(n)
        /\ new = IF op[c].kind = "delegate" THEN WithVotes(old, op[c].amount)
                                            ELSE WithStatus(old, op[c].kind)
    BY DEF RecordTx
  <1>5. UNCHANGED <<RegistryDelegations, ListedNodes, ListedDelegations>>
    BY <1>1, <1>3, <1>4, KeysDiffer, RegistryAfterMine
  <1>6. \A key : GetData(key)' = IF key = NodeKey(n) THEN new ELSE GetData(key)
    BY <1>4, DataAfterMine DEF IInv
  <1>7. RegistryNodes' = [RegistryNodes EXCEPT ![n] = new]
    <2>1. \A id \in ListedNodes : NodeKey(id) = NodeKey(n) => id = n
      BY <1>2, <1>3, KeysDiffer
    <2> QED
      BY <1>2, <1>5, <1>6, <2>1 DEF RegistryNodes
  <1>8. op[c].amount \in Nat /\ old.votes \in Nat
    BY <1>3 DEF IInv, TypeOK, Operation, NodeRecord
  <1>9. /\ new.votes = IF op[c].kind = "delegate" THEN old.votes + op[c].amount ELSE old.votes
        /\ new.votes \in Nat /\ old.votes <= new.votes
    BY <1>3, <1>4, <1>8 DEF WithVotes, WithStatus, NodeRecord
  <1>10. RegistryStep
    <2>1. n \in DOMAIN RegistryNodes /\ RegistryNodes[n] = old
      BY <1>2 DEF RegistryNodes
    <2>2. CASE op[c].kind = "delegate"
      <3>1. op[c].amount \in Amounts
        BY <2>2 DEF Progress, Effects
      <3>2. Registry!AddVotes(n, op[c].amount)
        BY <1>4, <1>5, <1>7, <2>1, <2>2 DEF Registry!AddVotes, WithVotes
      <3> QED
        BY <1>1, <3>1, <3>2 DEF RegistryStep, Registry!Next
    <2>3. CASE op[c].kind # "delegate"
      <3> DEFINE status == IF op[c].kind = "activate" THEN "active" ELSE "inactive"
      <3>1. Registry!SetStatus(n, status)
        BY <1>4, <1>5, <1>7, <2>1, <2>3 DEF Registry!SetStatus, WithStatus
      <3> QED
        BY <1>1, <3>1 DEF RegistryStep, Registry!Next
    <2> QED
      BY <2>2, <2>3
  <1>11. \A id : Registry!Recorded(id)' = Registry!Recorded(id) /\ Registry!Recorded(id) \in Nat
    BY <1>5, RecordedKept, RecordedCounts
  <1>12. Registry!Recorded(n) <= old.votes
    BY <1>2 DEF RegistrySound
  <1>13. Counted'
    <2>1. ASSUME NEW id \in ListedNodes PROVE Registry!Recorded(id) <= GetData(NodeKey(id))'.votes
      <3>1. CASE id = n
        <4>1. GetData(NodeKey(id))' = new
          BY <1>6, <3>1
        <4>2. Registry!Recorded(n) \in Nat
          BY <1>11
        <4> QED
          BY <1>8, <1>9, <1>12, <3>1, <4>1, <4>2
      <3>2. CASE id # n
        BY <1>1, <1>3, <1>6, <3>2, KeysDiffer DEF RegistrySound
      <3> QED
        BY <3>1, <3>2
    <2> QED
      BY <1>5, <1>11, <2>1 DEF Counted
  <1>14. Placed'
    BY <1>1, <1>3, <1>5, <1>6, KeysDiffer DEF Placed, RegistrySound
  <1>15. ASSUME op[c].kind = "delegate"
         PROVE  (Registry!Recorded(op[c].node) + op[c].amount <= GetData(NodeKey(op[c].node)).votes)'
    <2>1. new.votes = old.votes + op[c].amount /\ GetData(NodeKey(n))' = new
      BY <1>1, <1>6, <1>9, <1>15
    <2>2. Registry!Recorded(n)' = Registry!Recorded(n) /\ Registry!Recorded(n) \in Nat
      BY <1>1, <1>11
    <2> QED
      BY <1>1, <1>8, <1>12, <2>1, <2>2
  <1> QED
    BY <1>5, <1>10, <1>13, <1>14, <1>15

\* The list that names the new node is the registry's Register.
LEMMA MineNodeList ==
    ASSUME IInv, IInv', OneInFlight, RegistrySound, NEW c \in Clients, Mine(c),
           NEW mined \in Nat, Progress(c, mined), mempool[c][1] = NodeListTx(c), mined = 1,
           op[c].kind = "register"
    PROVE  /\ RegistryStep
           /\ ListedNodes \subseteq ListedNodes'
           /\ Counted' /\ Placed'
  <1> DEFINE n == op[c].node
  <1>1. n \in Ids /\ started' = started
    BY QueueAfterMine DEF OneInFlight, InFlight, Working, Unsettled, IInv, Mine
  <1>2. n \notin ListedNodes /\ GetData(NodeKey(n)) = FirstRecord(c)
    BY DEF Progress, Effects
  <1>3. ListedNodes \subseteq Ids /\ ListedDelegations \subseteq Ids
    BY EntryTypes
  <1>4. /\ mempool[c][1].key = NodeListKey
        /\ mempool[c][1].value = Append(GetData(NodeListKey), n)
    BY DEF NodeListTx
  <1>5. \A key : GetData(key)' = IF key = NodeListKey THEN Append(GetData(NodeListKey), n) ELSE GetData(key)
    BY <1>4, DataAfterMine DEF IInv
  <1>6. ListedNodes' = ListedNodes \cup {n}
    <2>1. GetData(NodeListKey) \in Seq(Ids)
      BY ReadType DEF IInv, TypeOK
    <2>2. ListedNodes' = Listed(Append(GetData(NodeListKey), n))
      BY <1>5 DEF ListedNodes, Listed
    <2> QED
      BY <1>1, <2>1, <2>2, ListedAppend DEF ListedNodes
  <1>7. ListedDelegations' = ListedDelegations /\ RegistryDelegations' = RegistryDelegations
    BY <1>3, <1>4, KeysDiffer, RegistryAfterMine
  <1>8. \A id \in Ids : GetData(NodeKey(id))' = GetData(NodeKey(id))
                      /\ GetData(DelegationKey(id))' = GetData(DelegationKey(id))
    BY <1>5, KeysDiffer
  <1>9. RegistryStep
    <2>1. DOMAIN RegistryNodes = ListedNodes
      BY DEF RegistryNodes
    <2>2. RegistryNodes' = [id \in ListedNodes \cup {n} |->
                                IF id = n THEN FirstRecord(c) ELSE RegistryNodes[id]]
      BY <1>1, <1>2, <1>3, <1>6, <1>8 DEF RegistryNodes
    <2>3. Registry!Register(n, c)
      BY <1>2, <1>7, <2>1, <2>2 DEF Registry!Register, FirstRecord
    <2> QED
      BY <1>1, <2>3 DEF RegistryStep, Registry!Next
  <1>10. \A id : Registry!Recorded(id)' = Registry!Recorded(id)
    BY <1>7, RecordedKept
  <1>11. Registry!Recorded(n) = 0
    <2>1. RecordedFor(n) = {}
      BY <1>2 DEF RecordedFor, RegistryDelegations, RegistrySound
    <2>2. Units(RecordedFor(n), AmountIn) = {}
      BY <2>1 DEF Units
    <2>3. Registry!Recorded(n) = Cardinality(Units(RecordedFor(n), AmountIn))
      BY RecordedCounts
    <2> QED
      BY <2>2, <2>3, FS_EmptySet
  <1>12. Counted'
    <2>1. Registry!Recorded(n) <= GetData(NodeKey(n)).votes
      BY <1>2, <1>11 DEF FirstRecord
    <2>2. \A id \in ListedNodes \cup {n} : Registry!Recorded(id) <= GetData(NodeKey(id)).votes
      BY <2>1 DEF RegistrySound
    <2>3. \A id \in ListedNodes \cup {n} : id \in Ids
      BY <1>1, <1>3
    <2> QED
      BY <1>6, <1>8, <1>10, <2>2, <2>3 DEF Counted
  <1>13. Placed'
    BY <1>1, <1>3, <1>6, <1>7, <1>8 DEF Placed, RegistrySound
  <1> QED
    BY <1>6, <1>9, <1>12, <1>13

\* A delegation's record changes nothing that is listed.
LEMMA MineDelegation ==
    ASSUME IInv, IInv', OneInFlight, RegistrySound, NEW c \in Clients, Mine(c),
           NEW mined \in Nat, Progress(c, mined), mempool[c][1] = DelegationTx(c), mined = 1,
           op[c].kind = "delegate"
    PROVE  /\ UNCHANGED <<RegistryNodes, RegistryDelegations, ListedNodes, ListedDelegations>>
           /\ Counted' /\ Placed'
           /\ (GetData(DelegationKey(op[c].id)) = Delegation(c))'
           /\ (Registry!Recorded(op[c].node) + op[c].amount <= GetData(NodeKey(op[c].node)).votes)'
  <1>1. op[c].node \in Ids /\ op[c].id \in Ids /\ op' = op /\ started' = started
    BY QueueAfterMine DEF OneInFlight, InFlight, Working, Unsettled, IInv, Mine
  <1>2. /\ op[c].id \notin ListedDelegations
        /\ Registry!Recorded(op[c].node) + op[c].amount <= GetData(NodeKey(op[c].node)).votes
    BY DEF Progress, Effects
  <1>3. ListedNodes \subseteq Ids /\ ListedDelegations \subseteq Ids
    BY EntryTypes
  <1>4. mempool[c][1].key = DelegationKey(op[c].id) /\ mempool[c][1].value = Delegation(c)
    BY DEF DelegationTx
  <1>5. UNCHANGED <<RegistryNodes, RegistryDelegations, ListedNodes, ListedDelegations>>
    BY <1>1, <1>2, <1>3, <1>4, KeysDiffer, RegistryAfterMine
  <1>6. \A key : GetData(key)' = IF key = DelegationKey(op[c].id) THEN Delegation(c) ELSE GetData(key)
    BY <1>4, DataAfterMine DEF IInv
  <1>7. /\ \A id \in Ids : GetData(NodeKey(id))' = GetData(NodeKey(id))
        /\ \A id \in ListedDelegations : GetData(DelegationKey(id))' = GetData(DelegationKey(id))
    BY <1>1, <1>2, <1>3, <1>6, KeysDiffer
  <1>8. \A id : Registry!Recorded(id)' = Registry!Recorded(id)
    BY <1>5, RecordedKept
  <1>9. Counted' /\ Placed'
    BY <1>1, <1>3, <1>5, <1>7, <1>8 DEF Counted, Placed, RegistrySound
  <1>10. (GetData(DelegationKey(op[c].id)) = Delegation(c))'
    BY <1>1, <1>6 DEF Delegation
  <1>11. (Registry!Recorded(op[c].node) + op[c].amount <= GetData(NodeKey(op[c].node)).votes)'
    BY <1>1, <1>2, <1>7, <1>8
  <1> QED
    BY <1>5, <1>9, <1>10, <1>11

\* The list that names the delegation is the registry's RecordDelegation.
LEMMA MineDelegationList ==
    ASSUME IInv, IInv', OneInFlight, RegistrySound, NEW c \in Clients, Mine(c),
           NEW mined \in Nat, Progress(c, mined), mempool[c][1] = DelegationListTx(c), mined = 2,
           op[c].kind = "delegate"
    PROVE  /\ RegistryStep
           /\ ListedNodes' = ListedNodes
           /\ Counted' /\ Placed'
  <1> DEFINE new == [id |-> op[c].id, delegator |-> c, node |-> op[c].node, amount |-> op[c].amount]
  <1>1. op[c].node \in Ids /\ op[c].id \in Ids /\ started' = started
    BY QueueAfterMine DEF OneInFlight, InFlight, Working, Unsettled, IInv, Mine
  <1>2. /\ op[c].id \notin ListedDelegations /\ op[c].amount \in Amounts /\ op[c].node \in ListedNodes
        /\ Registry!Recorded(op[c].node) + op[c].amount <= GetData(NodeKey(op[c].node)).votes
        /\ GetData(DelegationKey(op[c].id)) = Delegation(c)
    BY DEF Progress, Effects
  <1>3. ListedNodes \subseteq Ids /\ ListedDelegations \subseteq Ids
    BY EntryTypes
  <1>4. /\ mempool[c][1].key = DelegationListKey
        /\ mempool[c][1].value = Append(GetData(DelegationListKey), op[c].id)
    BY DEF DelegationListTx
  <1>5. \A key : key # DelegationListKey => GetData(key)' = GetData(key)
    BY <1>4, DataAfterMine DEF IInv
  <1>6. ListedDelegations' = ListedDelegations \cup {op[c].id}
    <2>1. GetData(DelegationListKey) \in Seq(Ids)
      BY ReadType DEF IInv, TypeOK
    <2>2. GetData(DelegationListKey)' = Append(GetData(DelegationListKey), op[c].id)
      BY <1>4, DataAfterMine DEF IInv
    <2>3. ListedDelegations' = Listed(Append(GetData(DelegationListKey), op[c].id))
      BY <2>2 DEF ListedDelegations, Listed
    <2> QED
      BY <1>1, <2>1, <2>3, ListedAppend DEF ListedDelegations
  <1>7. ListedNodes' = ListedNodes /\ RegistryNodes' = RegistryNodes
    BY <1>3, <1>4, KeysDiffer, RegistryAfterMine
  <1>8. \A id \in Ids : GetData(NodeKey(id))' = GetData(NodeKey(id))
                      /\ GetData(DelegationKey(id))' = GetData(DelegationKey(id))
    BY <1>5, KeysDiffer
  <1>9. RegistryDelegations' = RegistryDelegations \cup {new}
    BY <1>1, <1>2, <1>3, <1>6, <1>8 DEF RegistryDelegations, Delegation
  <1>10. new \notin RegistryDelegations /\ new \in DelegationEntry
    BY <1>1, <1>2, ClientAssumption DEF RegistryDelegations, DelegationEntry
  <1>11. RegistryStep
    <2>1. op[c].node \in DOMAIN RegistryNodes /\ RegistryNodes[op[c].node] = GetData(NodeKey(op[c].node))
      BY <1>2 DEF RegistryNodes
    <2>2. Registry!RecordDelegation(op[c].id, c, op[c].node, op[c].amount)
      BY <1>2, <1>7, <1>9, <2>1 DEF Registry!RecordDelegation
    <2> QED
      BY <1>1, <1>2, <2>2 DEF RegistryStep, Registry!Next
  <1>12. \A id : Registry!Recorded(id)' =
                     Registry!Recorded(id) + IF new.node = id THEN new.amount ELSE 0
    <2> HIDE DEF new
    <2> QED
      BY <1>9, <1>10, RecordedMore
  <1>13. Counted'
    <2>1. \A id \in ListedNodes : Registry!Recorded(id)' <= GetData(NodeKey(id)).votes
      <3> TAKE id \in ListedNodes
      <3>1. Registry!Recorded(id) \in Nat /\ Registry!Recorded(id) <= GetData(NodeKey(id)).votes
        BY RecordedCounts DEF RegistrySound
      <3>2. Registry!Recorded(id)' = Registry!Recorded(id) + IF op[c].node = id THEN op[c].amount ELSE 0
        BY <1>12
      <3> QED
        BY <1>2, <3>1, <3>2
    <2> QED
      BY <1>3, <1>7, <1>8, <2>1 DEF Counted
  <1>14. Placed'
    <2>1. op[c].id <= started
      BY DEF IInv, Control, ClientControl
    <2> QED
      BY <1>1, <1>2, <1>3, <1>6, <1>7, <1>8, <2>1 DEF Placed, RegistrySound, Delegation
  <1> QED
    BY <1>7, <1>11, <1>13, <1>14

\* What the operation in flight has made true once the next transaction is mined.
LEMMA MineEffects ==
    ASSUME IInv, IInv', OneInFlight, RegistrySound, NEW c \in Clients, Mine(c)
    PROVE  /\ RegistryStep
           /\ ListedNodes \subseteq ListedNodes'
           /\ Counted' /\ Placed'
           /\ \E mined \in 0 .. Len(Plan(c)) - 1 :
                  /\ Progress(c, mined)
                  /\ mempool[c][1] = Plan(c)[mined + 1]
                  /\ mined + 1 < Len(Plan(c)) => Effects(c, mined + 1)'
  <1>1. PICK mined \in 0 .. Len(Plan(c)) - 1 :
            /\ Progress(c, mined)
            /\ \/ mined = 0 /\ mempool[c][1] = RecordTx(c)
               \/ op[c].kind = "register" /\ mined = 1 /\ mempool[c][1] = NodeListTx(c)
               \/ op[c].kind = "delegate" /\ mined = 1 /\ mempool[c][1] = DelegationTx(c)
               \/ op[c].kind = "delegate" /\ mined = 2 /\ mempool[c][1] = DelegationListTx(c)
    BY NextMined
  <1>2. op' = op /\ op[c].kind \in Kinds
    BY DEF Mine, IInv, TypeOK, Operation
  <1>3. Effects(c, mined)
    BY <1>1 DEF Progress
  <1>4. CASE mined = 0 /\ op[c].kind = "register"
    <2>1. mempool[c][1] = Plan(c)[1]
      BY <1>1, <1>4, PlanOf
    <2>2. /\ UNCHANGED <<RegistryNodes, RegistryDelegations, ListedNodes, ListedDelegations>>
          /\ Counted' /\ Placed' /\ GetData(NodeKey(op[c].node))' = FirstRecord(c)
      BY <1>1, <1>4, MineFirstRecord
    <2>3. Effects(c, 1)'
      BY <1>2, <1>3, <1>4, <2>2 DEF Effects, FirstRecord
    <2> QED
      BY <1>1, <1>4, <2>1, <2>2, <2>3 DEF RegistryStep
  <1>5. CASE mined = 0 /\ op[c].kind # "register"
    <2>1. mempool[c][1] = Plan(c)[1]
      BY <1>1, <1>2, <1>5, PlanOf DEF Kinds
    <2>2. /\ RegistryStep /\ UNCHANGED <<RegistryDelegations, ListedNodes, ListedDelegations>>
          /\ Counted' /\ Placed'
          /\ op[c].kind = "delegate" =>
                 (Registry!Recorded(op[c].node) + op[c].amount <= GetData(NodeKey(op[c].node)).votes)'
      BY <1>1, <1>2, <1>5, MineRewrite DEF Kinds
    <2>3. Effects(c, 1)'
      BY <1>2, <1>3, <1>5, <2>2 DEF Effects
    <2> QED
      BY <1>1, <1>5, <2>1, <2>2, <2>3
  <1>6. CASE mined = 1 /\ op[c].kind = "register"
    <2>1. mempool[c][1] = Plan(c)[2] /\ Len(Plan(c)) = 2
      BY <1>1, <1>6, PlanOf
    <2>2. RegistryStep /\ ListedNodes \subseteq ListedNodes' /\ Counted' /\ Placed'
      BY <1>1, <1>6, MineNodeList
    <2> QED
      BY <1>1, <1>6, <2>1, <2>2
  <1>7. CASE mined = 1 /\ op[c].kind = "delegate"
    <2>1. mempool[c][1] = Plan(c)[2]
      BY <1>1, <1>7, PlanOf
    <2>2. /\ UNCHANGED <<RegistryNodes, RegistryDelegations, ListedNodes, ListedDelegations>>
          /\ Counted' /\ Placed'
          /\ (GetData(DelegationKey(op[c].id)) = Delegation(c))'
          /\ (Registry!Recorded(op[c].node) + op[c].amount <= GetData(NodeKey(op[c].node)).votes)'
      BY <1>1, <1>7, MineDelegation
    <2>3. Effects(c, 2)'
      BY <1>2, <1>3, <1>7, <2>2 DEF Effects
    <2> QED
      BY <1>1, <1>7, <2>1, <2>2, <2>3 DEF RegistryStep
  <1>8. CASE mined = 2 /\ op[c].kind = "delegate"
    <2>1. mempool[c][1] = Plan(c)[3] /\ Len(Plan(c)) = 3
      BY <1>1, <1>8, PlanOf
    <2>2. RegistryStep /\ ListedNodes' = ListedNodes /\ Counted' /\ Placed'
      BY <1>1, <1>8, MineDelegationList
    <2> QED
      BY <1>1, <1>8, <2>1, <2>2
  <1> QED
    BY <1>1, <1>4, <1>5, <1>6, <1>7, <1>8

\* Mining a transaction leaves the ones planned after it as they were.
LEMMA PlanAfterMine ==
    ASSUME IInv, OneInFlight, NEW c \in Clients, Mine(c), NEW mined \in 0 .. Len(Plan(c)) - 1,
           mempool[c][1] = Plan(c)[mined + 1]
    PROVE  /\ Len(Plan(c))' = Len(Plan(c))
           /\ \A i \in mined + 2 .. Len(Plan(c)) : Plan(c)'[i] = Plan(c)[i]
           /\ mined = 0 => mempool[c][1].key = NodeKey(op[c].node)
           /\ op[c].kind = "delegate" /\ mined < 2 => mempool[c][1].key # DelegationListKey
  <1>1. op' = op /\ op[c].kind \in Kinds /\ op[c].node \in Ids /\ op[c].id \in Ids
    BY QueueAfterMine DEF OneInFlight, InFlight, Working, Unsettled, IInv, Mine, TypeOK, Operation
  <1>2. \A key : key # mempool[c][1].key => GetData(key)' = GetData(key)
    BY DataAfterMine DEF IInv
  <1>3. CASE op[c].kind = "register"
    <2>1. Len(Plan(c)) = 2 /\ Plan(c)[1] = RecordTx(c) /\ Plan(c)[2] = NodeListTx(c)
      BY <1>3, PlanOf
    <2>2. Len(Plan(c))' = 2 /\ Plan(c)'[2] = NodeListTx(c)'
      BY <1>1, <1>3 DEF Plan
    <2>3. mined = 0 => mempool[c][1].key = NodeKey(op[c].node)
      BY <2>1 DEF RecordTx
    <2>4. mined = 0 => NodeListTx(c)' = NodeListTx(c)
      BY <1>1, <1>2, <2>3, KeysDiffer DEF NodeListTx
    <2> QED
      BY <1>3, <2>1, <2>2, <2>3, <2>4
  <1>4. CASE op[c].kind = "delegate"
    <2>1. /\ Len(Plan(c)) = 3 /\ Plan(c)[1] = RecordTx(c)
          /\ Plan(c)[2] = DelegationTx(c) /\ Plan(c)[3] = DelegationListTx(c)
      BY <1>4, PlanOf
    <2>2. Len(Plan(c))' = 3 /\ Plan(c)'[2] = DelegationTx(c)' /\ Plan(c)'[3] = DelegationListTx(c)'
      BY <1>1, <1>4 DEF Plan
    <2>3. /\ mined = 0 => mempool[c][1].key = NodeKey(op[c].node)
          /\ mined = 1 => mempool[c][1].key = DelegationKey(op[c].id)
      BY <2>1 DEF RecordTx, DelegationTx
    <2>4. DelegationTx(c)' = DelegationTx(c)
      BY <1>1 DEF DelegationTx, Delegation
    <2>5. mined < 2 => mempool[c][1].key # DelegationListKey
      BY <1>1, <2>1, <2>3, KeysDiffer
    <2>6. mined < 2 => DelegationListTx(c)' = DelegationListTx(c)
      BY <1>1, <1>2, <2>5 DEF DelegationListTx
    <2> QED
      BY <2>1, <2>2, <2>3, <2>4, <2>5, <2>6
  <1>5. CASE op[c].kind \in {"activate", "deactivate"}
    <2>1. Len(Plan(c)) = 1 /\ Plan(c)[1] = RecordTx(c)
      BY <1>5, PlanOf
    <2>2. Len(Plan(c))' = 1
      BY <1>1, <1>5 DEF Plan
    <2> QED
      BY <1>5, <2>1, <2>2 DEF RecordTx
  <1> QED
    BY <1>1, <1>3, <1>4, <1>5 DEF Kinds

\* Mining the next transaction of the plan keeps the order.
LEMMA MineKeepsOrder ==
    ASSUME IInv, IInv', OneInFlight, RegistrySound, NEW c \in Clients, Mine(c)
    PROVE  OneInFlight' /\ RegistrySound'
  <1>1. /\ ListedNodes \subseteq ListedNodes' /\ Counted' /\ Placed'
        /\ \E mined \in 0 .. Len(Plan(c)) - 1 :
                  /\ Progress(c, mined)
                  /\ mempool[c][1] = Plan(c)[mined + 1]
                  /\ mined + 1 < Len(Plan(c)) => Effects(c, mined + 1)'
    BY MineEffects
  <1>2. RegistrySound'
    <2>1. \A card \in shown' : card.node \in ListedNodes'
      <3> TAKE card \in shown'
      <3>1. CASE card \in shown
        BY <1>1, <3>1 DEF RegistrySound
      <3>2. CASE card \notin shown
        <4>1. PICK id \in DisplayedNodes' \cup {k.node : k \in shown} : card = Card(id)'
          BY <3>2 DEF Mine
        <4>2. card.node = id
          BY <4>1 DEF Card
        <4>3. DisplayedNodes' \subseteq ListedNodes'
          BY DEF DisplayedNodes
        <4> QED
          BY <1>1, <4>1, <4>2, <4>3 DEF RegistrySound
      <3> QED
        BY <3>1, <3>2
    <2> QED
      BY <1>1, <2>1 DEF RegistrySound, Counted, Placed
  <1>3. PICK mined \in 0 .. Len(Plan(c)) - 1 :
            /\ Progress(c, mined)
            /\ mempool[c][1] = Plan(c)[mined + 1]
            /\ mined + 1 < Len(Plan(c)) => Effects(c, mined + 1)'
    BY <1>1
  <1>4. /\ mempool[c] # <<>> /\ Len(mempool[c]) \in Nat /\ Len(mempool'[c]) = Len(mempool[c]) - 1
        /\ DOMAIN mempool'[c] = 1 .. Len(mempool[c]) - 1
        /\ \A i \in DOMAIN mempool'[c] : i + 1 \in DOMAIN mempool[c] /\ mempool'[c][i] = mempool[c][i + 1]
        /\ \A d \in Clients \ {c} : mempool'[d] = mempool[d]
        /\ DOMAIN mempool[c] = 1 .. Len(mempool[c])
        /\ mempool'[c] \in Seq(Transaction)
    BY QueueAfterMine DEF IInv
  <1>5. op' = op /\ pc' = pc /\ op[c].kind \in Kinds
    BY DEF Mine, IInv, TypeOK, Operation
  <1>6. /\ InFlight(c) /\ HoldsStored(c) /\ op[c].node \in Ids /\ op[c].id \in Ids
        /\ \A d \in Clients \ {c} : ~ InFlight(d)
    BY <1>4 DEF OneInFlight, InFlight, Unsettled
  <1>7. \A d \in Clients \ {c} : ~ InFlight(d)'
    BY <1>4, <1>5, <1>6 DEF InFlight
  <1>8. /\ Len(Plan(c))' = Len(Plan(c)) /\ Len(Plan(c)) \in Nat
        /\ \A i \in mined + 2 .. Len(Plan(c)) : Plan(c)'[i] = Plan(c)[i]
    <2>1. Len(Plan(c)) \in Nat
      BY <1>5, PlanOf DEF Kinds
    <2> QED
      BY <1>3, <2>1, PlanAfterMine
  <1>9. HoldsStored(c)'
    <2>1. Working(c) => mined + Len(mempool[c]) = SubmittedAt(pc[c])
      BY <1>3 DEF Progress
    <2>2. ~ HoldsRecord(c)
      BY <1>4, <2>1 DEF HoldsRecord, SubmittedAt, Working
    <2>3. \A key : key # mempool[c][1].key => GetData(key)' = GetData(key)
      BY DataAfterMine DEF IInv
    <2>4. CASE pc[c] = "sendNodeList"
      <3>1. mined = 0
        BY <1>4, <2>1, <2>4 DEF SubmittedAt, Working
      <3>2. mempool[c][1].key = NodeKey(op[c].node)
        BY <1>3, <3>1, PlanAfterMine
      <3> QED
        BY <1>5, <1>6, <2>3, <2>4, <3>2, KeysDiffer DEF HoldsStored, HoldsRecord
    <2>5. CASE pc[c] = "sendDelegationList"
      <3>1. mined < 2 /\ op[c].kind = "delegate"
        BY <1>4, <2>1, <2>5 DEF SubmittedAt, Working, IInv, Control, ClientControl, Delegating
      <3>2. mempool[c][1].key # DelegationListKey
        BY <1>3, <3>1, PlanAfterMine
      <3> QED
        BY <1>5, <1>6, <2>3, <2>5, <3>2 DEF HoldsStored, HoldsRecord
    <2> QED
      BY <1>5, <2>2, <2>4, <2>5 DEF HoldsStored, HoldsRecord
  <1>10. ASSUME Unsettled(c)' PROVE mined + 1 \in 0 .. Len(Plan(c))' - 1 /\ Progress(c, mined + 1)'
    <2>1. mined + Len(mempool[c]) <= Len(Plan(c))
      BY <1>3 DEF Progress
    <2>2. Working(c) => /\ mined + Len(mempool[c]) = SubmittedAt(pc[c])
                        /\ SubmittedAt(pc[c]) < Len(Plan(c))
      BY <1>3, <1>5, HandlerHasMore DEF Progress, IInv
    <2>3. mempool'[c] # <<>> => Len(mempool[c]) >= 2
      <3>1. \A q \in Seq(Transaction) : q # <<>> => Len(q) >= 1
        OBVIOUS
      <3>2. mempool'[c] # <<>> => Len(mempool'[c]) >= 1
        BY <1>4, <3>1
      <3> QED
        BY <1>4, <3>2
    <2>4. mined + 1 < Len(Plan(c))
      BY <1>4, <1>5, <1>8, <1>10, <2>1, <2>2, <2>3 DEF Unsettled, Working
    <2>5. (mined + 1) + Len(mempool'[c]) = mined + Len(mempool[c])
      <3>1. \A m, n \in Int : (m + 1) + (n - 1) = m + n
        OBVIOUS
      <3>2. mined \in Int /\ Len(mempool[c]) \in Int /\ Len(mempool'[c]) = Len(mempool[c]) - 1
        BY <1>4, <1>8
      <3> QED
        BY <3>1, <3>2, Zenon
    <2>6. \A i \in 1 .. Len(mempool'[c]) : mempool'[c][i] = Plan(c)'[(mined + 1) + i]
      <3> TAKE i \in 1 .. Len(mempool'[c])
      <3>1. mempool'[c][i] = mempool[c][i + 1] /\ i + 1 \in 1 .. Len(mempool[c])
        BY <1>4
      <3>2. mempool[c][i + 1] = Plan(c)[mined + (i + 1)]
        BY <1>3, <3>1 DEF Progress
      <3>3. mined + (i + 1) = (mined + 1) + i /\ (mined + 1) + i \in mined + 2 .. Len(Plan(c))
        BY <1>4, <1>8, <2>1
      <3> QED
        BY <1>8, <3>1, <3>2, <3>3
    <2>7. Effects(c, mined + 1)'
      BY <1>3, <2>4
    <2>8. Progress(c, mined + 1)'
      BY <1>5, <1>8, <2>1, <2>2, <2>5, <2>6, <2>7 DEF Progress, Working
    <2> QED
      BY <1>8, <2>4, <2>8
  <1>11. OneInFlight'
    BY <1>5, <1>6, <1>7, <1>9, <1>10, OthersSettled DEF OneInFlight
  <1> QED
    BY <1>2, <1>11

----------------------------------------------------------------------------
\* The steps that leave the store alone

\* If nothing is mined, the registry stays as it is.
LEMMA RegistryStays ==
    ASSUME IInv, IInv', UNCHANGED store
    PROVE  /\ \A key : GetData(key)' = GetData(key)
           /\ UNCHANGED <<RegistryNodes, RegistryDelegations, ListedNodes, ListedDelegations>>
           /\ \A id : Registry!Recorded(id)' = Registry!Recorded(id)
  <1>1. \A key : GetData(key)' = GetData(key)
    BY DEF GetData
  <1>2. UNCHANGED <<ListedNodes, ListedDelegations>>
    BY <1>1 DEF ListedNodes, ListedDelegations
  <1>3. UNCHANGED <<RegistryNodes, RegistryDelegations>>
    BY <1>1, <1>2 DEF RegistryNodes, RegistryDelegations
  <1> QED
    BY <1>1, <1>2, <1>3, RecordedKept

\* A step that mines nothing leaves the registry as sound as it was.
LEMMA SoundStays ==
    ASSUME IInv, IInv', RegistrySound, UNCHANGED <<store, shown>>, started <= started'
    PROVE  RegistrySound'
  <1>1. started \in Nat /\ started' \in Nat /\ ListedDelegations \subseteq Nat
    BY EntryTypes, ClientAssumption DEF IInv, TypeOK, Ids
  <1>2. /\ \A key : GetData(key)' = GetData(key)
        /\ UNCHANGED <<ListedNodes, ListedDelegations, shown>>
        /\ \A id : Registry!Recorded(id)' = Registry!Recorded(id)
    BY RegistryStays
  <1>3. \A id \in ListedDelegations : id <= started'
    <2> TAKE id \in ListedDelegations
    <2>1. id \in Nat /\ id <= started
      BY <1>1 DEF RegistrySound
    <2> QED
      BY <1>1, <2>1
  <1> QED
    BY <1>2, <1>3 DEF RegistrySound

\* An operation starts when nothing is in flight, on a new id or a node shown.
LEMMA StartKeepsOrder ==
    ASSUME Serialised, IInv, IInv', RegistrySound, NEW c \in Clients, Starts(c)
    PROVE  OneInFlight'
  <1>1. PICK kind \in Kinds, node \in Ids, amount \in Nat, next \in {"sendNode", "readNode"} :
            /\ Start(c, kind, node, amount, next)
            /\ next = "sendNode" => kind = "register" /\ node = started + 1
            /\ next = "readNode" => kind # "register" /\ \E card \in shown : card.node = node
            /\ kind = "delegate" => amount \in Amounts
    BY StartsOperation DEF IInv
  <1>2. /\ Quiescent /\ mempool' = mempool
        /\ pc' = [pc EXCEPT ![c] = next] /\ store' = store
        /\ op'[c].kind = kind /\ op'[c].node = node /\ op'[c].id = started + 1 /\ op'[c].amount = amount
    BY <1>1 DEF Start, IInv, TypeOK
  <1>3. \A d \in Clients \ {c} : ~ InFlight(d)'
    BY <1>2 DEF Quiescent, InFlight, IInv, TypeOK
  <1>4. pc'[c] = next /\ mempool'[c] = <<>>
    BY <1>2 DEF Quiescent, InFlight, IInv, TypeOK
  <1>5. HoldsStored(c)'
    BY <1>4 DEF HoldsStored, HoldsRecord
  <1>6. started + 1 \in Ids /\ started \in Nat
    BY <1>1, ClientAssumption DEF Start, IInv, TypeOK, Ids
  <1>7. /\ UNCHANGED <<ListedNodes, ListedDelegations>>
        /\ started + 1 \notin ListedNodes /\ started + 1 \notin ListedDelegations
    <2>1. \A id \in ListedNodes : id <= started
      <3>1. \A id \in ListedNodes : id \in Ids /\ IsStored(NodeKey(id))
        BY EntryTypes DEF IInv, Pointers, ListsPoint
      <3>2. \A id \in ListedNodes : NodeVersions(id) # {}
        BY <3>1, SentValues, VersionMember
      <3> QED
        BY <3>1, <3>2 DEF IInv, FreshNodes
    <2> QED
      BY <1>2, <1>6, <2>1, RegistryStays DEF RegistrySound
  <1>8. Effects(c, 0)'
    BY <1>1, <1>2, <1>7 DEF Effects, RegistrySound
  <1>9. Len(Plan(c))' \in Nat /\ Len(Plan(c))' >= 1
    BY <1>2 DEF Plan, Kinds
  <1>10. Progress(c, 0)'
    BY <1>4, <1>8, <1>9 DEF Progress, SubmittedAt, Working
  <1>11. \A d \in Clients : InFlight(d)' => d = c
    BY <1>3
  <1> QED
    BY <1>2, <1>3, <1>5, <1>6, <1>9, <1>10, <1>11, OthersSettled DEF OneInFlight

\* The plan and its effects depend on the store and on what the operation is.
LEMMA PlanStays ==
    ASSUME IInv, IInv', NEW c \in Clients, UNCHANGED store,
           op'[c].kind = op[c].kind, op'[c].node = op[c].node,
           op'[c].amount = op[c].amount, op'[c].id = op[c].id
    PROVE  /\ Plan(c)' = Plan(c)
           /\ \A mined : Effects(c, mined)' <=> Effects(c, mined)
  <1>1. /\ \A key : GetData(key)' = GetData(key)
        /\ UNCHANGED <<ListedNodes, ListedDelegations>>
        /\ \A id : Registry!Recorded(id)' = Registry!Recorded(id)
    BY RegistryStays
  <1>2. /\ RecordTx(c)' = RecordTx(c) /\ NodeListTx(c)' = NodeListTx(c)
        /\ DelegationTx(c)' = DelegationTx(c) /\ DelegationListTx(c)' = DelegationListTx(c)
        /\ Delegation(c)' = Delegation(c)
    BY <1>1 DEF RecordTx, NodeListTx, DelegationTx, DelegationListTx, Delegation, FirstRecord
  <1>3. Plan(c)' = Plan(c)
    BY <1>2 DEF Plan
  <1>4. ASSUME NEW mined PROVE Effects(c, mined)' <=> Effects(c, mined)
    BY <1>1, <1>2 DEF Effects, FirstRecord
  <1> QED
    BY <1>3, <1>4

\* A handler submits the next transaction of its plan.
LEMMA SubmitKeepsOrder ==
    ASSUME IInv, IInv', OneInFlight, NEW c \in Clients, NEW key, NEW value, NEW next,
           Working(c), Submits(c, key, value), Goto(c, next), UNCHANGED <<store, op>>,
           [key |-> key, value |-> value] = Plan(c)[SubmittedAt(pc[c]) + 1],
           \/ next = "succeed"
           \/ /\ next \in {"readNodeList", "sendDelegation", "readDelegationList"}
              /\ SubmittedAt(next) = SubmittedAt(pc[c]) + 1
    PROVE  OneInFlight'
  <1>1. /\ mempool' \in [Clients -> Seq(Transaction)]
        /\ \A d \in Clients \ {c} : mempool'[d] = mempool[d] /\ pc'[d] = pc[d]
        /\ pc'[c] = next
    BY QueueAfterSubmit DEF IInv, TypeOK, Submits, Goto
  <1> DEFINE n == Len(mempool[c])
  <1>2. /\ n \in Nat /\ Len(mempool'[c]) = n + 1
        /\ \A i \in 1 .. n : mempool'[c][i] = mempool[c][i]
        /\ mempool'[c][n + 1] = [key |-> key, value |-> value]
    BY QueueAfterSubmit DEF IInv, Submits
  <1>3. InFlight(c) /\ op[c].node \in Ids /\ op[c].id \in Ids /\ \A d \in Clients \ {c} : ~ InFlight(d)
    BY DEF OneInFlight, InFlight, Unsettled, Working
  <1>4. PICK mined \in 0 .. Len(Plan(c)) - 1 : Progress(c, mined)
    BY DEF OneInFlight, Unsettled
  <1>5. /\ op[c].kind \in Kinds /\ SubmittedAt(pc[c]) < Len(Plan(c)) /\ SubmittedAt(pc[c]) \in Nat
        /\ Len(Plan(c)) \in Nat
    BY HandlerHasMore, PlanOf DEF IInv, TypeOK, Operation, Kinds
  <1>6. Plan(c)' = Plan(c) /\ Effects(c, mined)'
    BY <1>4, PlanStays DEF Progress
  <1>7. mined + n = SubmittedAt(pc[c]) /\ mined \in Nat
    BY <1>4, <1>5 DEF Progress
  <1> HIDE DEF n
  <1>8. \A i \in 1 .. n + 1 : mempool'[c][i] = Plan(c)[mined + i]
    <2>1. \A i \in 1 .. n : mempool'[c][i] = Plan(c)[mined + i]
      BY <1>2, <1>4 DEF Progress, n
    <2>2. mempool'[c][n + 1] = Plan(c)[mined + (n + 1)]
      <3>1. mined + (n + 1) = SubmittedAt(pc[c]) + 1
        BY <1>2, <1>5, <1>7
      <3> QED
        BY <1>2, <3>1
    <2> QED
      BY <1>2, <2>1, <2>2
  <1>9. Progress(c, mined)'
    <2>1. mined + Len(mempool'[c]) = SubmittedAt(pc[c]) + 1
      BY <1>2, <1>5, <1>7
    <2>2. mined + Len(mempool'[c]) <= Len(Plan(c))
      BY <1>5, <2>1
    <2>3. \A i \in 1 .. Len(mempool'[c]) : mempool'[c][i] = Plan(c)'[mined + i]
      BY <1>2, <1>6, <1>8
    <2> QED
      BY <1>1, <1>6, <2>1, <2>2, <2>3 DEF Progress, Working
  <1>10. HoldsStored(c)'
    BY <1>1 DEF HoldsStored, HoldsRecord
  <1>11. \A d \in Clients \ {c} : ~ InFlight(d)'
    BY <1>1, <1>3 DEF InFlight
  <1> QED
    BY <1>3, <1>4, <1>6, <1>9, <1>10, <1>11, OthersSettled DEF OneInFlight

\* A handler reads, or ends: nothing is submitted.
LEMMA LocalKeepsOrder ==
    ASSUME IInv, IInv', OneInFlight, NEW c \in Clients, NEW next,
           pc[c] # "idle", Goto(c, next), UNCHANGED <<store, mempool>>,
           op'[c].kind = op[c].kind, op'[c].node = op[c].node,
           op'[c].amount = op[c].amount, op'[c].id = op[c].id,
           next = "idle" \/ (Working(c) /\ SubmittedAt(next) = SubmittedAt(pc[c])),
           HoldsStored(c)'
    PROVE  OneInFlight'
  <1>1. /\ \A d \in Clients \ {c} : mempool'[d] = mempool[d] /\ pc'[d] = pc[d]
        /\ pc'[c] = next
    BY DEF IInv, TypeOK, Goto
  <1>2. InFlight(c) /\ \A d \in Clients \ {c} : ~ InFlight(d)
    BY DEF OneInFlight, InFlight
  <1>3. ASSUME Unsettled(c)'
        PROVE  /\ op'[c].node \in Ids /\ op'[c].id \in Ids
               /\ \E mined \in 0 .. Len(Plan(c))' - 1 : Progress(c, mined)'
    <2>1. Unsettled(c)
      BY <1>1, <1>3 DEF Unsettled, Working
    <2>2. op[c].node \in Ids /\ op[c].id \in Ids
      BY <2>1 DEF OneInFlight
    <2>3. PICK mined \in 0 .. Len(Plan(c)) - 1 : Progress(c, mined)
      BY <2>1 DEF OneInFlight
    <2>4. Plan(c)' = Plan(c) /\ Effects(c, mined)'
      BY <2>3, PlanStays DEF Progress
    <2>5. Progress(c, mined)'
      BY <1>1, <2>3, <2>4 DEF Progress, Working
    <2> QED
      BY <2>2, <2>3, <2>4, <2>5
  <1>4. \A d \in Clients \ {c} : ~ InFlight(d)'
    BY <1>1, <1>2 DEF InFlight
  <1> QED
    BY <1>2, <1>3, <1>4, OthersSettled DEF OneInFlight

\* Each handler submits what its plan says, because what it holds is stored.
LEMMA PlannedSubmissions ==
    ASSUME IInv, OneInFlight, NEW c \in Clients
    PROVE  /\ SendNode(c) =>
                  [key |-> NodeKey(op[c].node), value |-> FirstRecord(c)] = Plan(c)[1]
           /\ SendNodeList(c) =>
                  [key |-> NodeListKey, value |-> Append(op[c].list, op[c].node)] = Plan(c)[2]
           /\ SendVotes(c) =>
                  [key |-> NodeKey(op[c].node), value |-> WithVotes(op[c].record, op[c].amount)] = Plan(c)[1]
           /\ SendDelegation(c) =>
                  [key |-> DelegationKey(op[c].id), value |-> Delegation(c)] = Plan(c)[2]
           /\ SendDelegationList(c) =>
                  [key |-> DelegationListKey, value |-> Append(op[c].list, op[c].id)] = Plan(c)[3]
           /\ SendStatus(c) =>
                  [key |-> NodeKey(op[c].node), value |-> WithStatus(op[c].record, op[c].kind)] = Plan(c)[1]
  <1>1. Working(c) => HoldsStored(c)
    BY DEF OneInFlight, Unsettled
  <1>2. ClientControl(c)
    BY DEF IInv, Control
  <1>3. SendNode(c) \/ SendNodeList(c) => op[c].kind = "register"
    BY <1>2 DEF SendNode, SendNodeList, ClientControl, Registering
  <1>4. SendVotes(c) \/ SendDelegation(c) \/ SendDelegationList(c) => op[c].kind = "delegate"
    BY <1>2 DEF SendVotes, SendDelegation, SendDelegationList, ClientControl, Delegating
  <1>5. SendStatus(c) => op[c].kind \in {"activate", "deactivate"}
    BY <1>2 DEF SendStatus, ClientControl
  <1>6. /\ op[c].kind = "register" => RecordTx(c).value = FirstRecord(c)
        /\ op[c].kind = "delegate" =>
               RecordTx(c).value = WithVotes(GetData(NodeKey(op[c].node)), op[c].amount)
        /\ op[c].kind \in {"activate", "deactivate"} =>
               RecordTx(c).value = WithStatus(GetData(NodeKey(op[c].node)), op[c].kind)
        /\ RecordTx(c) = [key |-> NodeKey(op[c].node), value |-> RecordTx(c).value]
    BY DEF RecordTx
  <1>7. SendVotes(c) \/ SendStatus(c) => op[c].record = GetData(NodeKey(op[c].node))
    BY <1>1 DEF SendVotes, SendStatus, HoldsStored, HoldsRecord, Working
  <1>8. /\ SendNodeList(c) => op[c].list = GetData(NodeListKey)
        /\ SendDelegationList(c) => op[c].list = GetData(DelegationListKey)
    BY <1>1 DEF SendNodeList, SendDelegationList, HoldsStored, Working
  <1> QED
    BY <1>3, <1>4, <1>5, <1>6, <1>7, <1>8, PlanOf DEF NodeListTx, DelegationTx, DelegationListTx

\* Every step of a client is a step of the registry, or leaves it alone, and
\* keeps the order.
LEMMA SerialStep ==
    ASSUME Serialised, SerialInv, IInv', NEW c \in Clients, ClientNext(c)
    PROVE  SerialInv' /\ RegistryStep
  <1>1. IInv /\ OneInFlight /\ RegistrySound
    BY DEF SerialInv
  <1>2. ASSUME OneInFlight', UNCHANGED <<store, shown>> PROVE SerialInv' /\ RegistryStep
    <2>1. started <= started'
      BY <1>1, NothingIsForgotten DEF IInv
    <2> QED
      BY <1>1, <1>2, <2>1, SoundStays, RegistryStays DEF SerialInv, RegistryStep
  <1>3. CASE Starts(c)
    <2>1. UNCHANGED <<store, shown>>
      BY <1>3 DEF Starts, RegisterNode, DelegateVotes, ActivateNode, DeactivateNode, Start
    <2> QED
      BY <1>1, <1>2, <1>3, <2>1, StartKeepsOrder
  <1>4. CASE Mine(c)
    BY <1>1, <1>4, MineKeepsOrder, MineEffects DEF SerialInv
  <1>5. CASE SendNode(c)
    <2>1. /\ pc[c] = "sendNode" /\ Goto(c, "readNodeList") /\ UNCHANGED <<store, op, shown>>
          /\ Submits(c, NodeKey(op[c].node), FirstRecord(c))
      BY <1>1, <1>5, Submissions DEF SendNode, IInv
    <2>2. SubmittedAt(pc[c]) + 1 = 1 /\ SubmittedAt("readNodeList") = 1
      BY <2>1 DEF SubmittedAt
    <2>3. [key |-> NodeKey(op[c].node), value |-> FirstRecord(c)] = Plan(c)[SubmittedAt(pc[c]) + 1]
      BY <1>1, <1>5, <2>2, PlannedSubmissions
    <2>4. OneInFlight'
      BY <1>1, <2>1, <2>2, <2>3, SubmitKeepsOrder DEF Working
    <2> QED
      BY <1>2, <2>1, <2>4
  <1>6. CASE SendNodeList(c)
    <2>1. /\ pc[c] = "sendNodeList" /\ Goto(c, "succeed") /\ UNCHANGED <<store, op, shown>>
          /\ Submits(c, NodeListKey, Append(op[c].list, op[c].node))
      BY <1>1, <1>6, Submissions DEF SendNodeList, IInv
    <2>2. SubmittedAt(pc[c]) + 1 = 2
      BY <2>1 DEF SubmittedAt
    <2>3. [key |-> NodeListKey, value |-> Append(op[c].list, op[c].node)] = Plan(c)[SubmittedAt(pc[c]) + 1]
      BY <1>1, <1>6, <2>2, PlannedSubmissions
    <2>4. OneInFlight'
      BY <1>1, <2>1, <2>2, <2>3, SubmitKeepsOrder DEF Working
    <2> QED
      BY <1>2, <2>1, <2>4
  <1>7. CASE SendVotes(c)
    <2>1. /\ pc[c] = "sendVotes" /\ Goto(c, "sendDelegation") /\ UNCHANGED <<store, op, shown>>
          /\ Submits(c, NodeKey(op[c].node), WithVotes(op[c].record, op[c].amount))
      BY <1>1, <1>7, Submissions DEF SendVotes, IInv
    <2>2. SubmittedAt(pc[c]) + 1 = 1 /\ SubmittedAt("sendDelegation") = 1
      BY <2>1 DEF SubmittedAt
    <2>3. [key |-> NodeKey(op[c].node), value |-> WithVotes(op[c].record, op[c].amount)] = Plan(c)[SubmittedAt(pc[c]) + 1]
      BY <1>1, <1>7, <2>2, PlannedSubmissions
    <2>4. OneInFlight'
      BY <1>1, <2>1, <2>2, <2>3, SubmitKeepsOrder DEF Working
    <2> QED
      BY <1>2, <2>1, <2>4
  <1>8. CASE SendDelegation(c)
    <2>1. /\ pc[c] = "sendDelegation" /\ Goto(c, "readDelegationList") /\ UNCHANGED <<store, op, shown>>
          /\ Submits(c, DelegationKey(op[c].id), Delegation(c))
      BY <1>1, <1>8, Submissions DEF SendDelegation, IInv
    <2>2. SubmittedAt(pc[c]) + 1 = 2 /\ SubmittedAt("readDelegationList") = 2
      BY <2>1 DEF SubmittedAt
    <2>3. [key |-> DelegationKey(op[c].id), value |-> Delegation(c)] = Plan(c)[SubmittedAt(pc[c]) + 1]
      BY <1>1, <1>8, <2>2, PlannedSubmissions
    <2>4. OneInFlight'
      BY <1>1, <2>1, <2>2, <2>3, SubmitKeepsOrder DEF Working
    <2> QED
      BY <1>2, <2>1, <2>4
  <1>9. CASE SendDelegationList(c)
    <2>1. /\ pc[c] = "sendDelegationList" /\ Goto(c, "succeed") /\ UNCHANGED <<store, op, shown>>
          /\ Submits(c, DelegationListKey, Append(op[c].list, op[c].id))
      BY <1>1, <1>9, Submissions DEF SendDelegationList, IInv
    <2>2. SubmittedAt(pc[c]) + 1 = 3
      BY <2>1 DEF SubmittedAt
    <2>3. [key |-> DelegationListKey, value |-> Append(op[c].list, op[c].id)] = Plan(c)[SubmittedAt(pc[c]) + 1]
      BY <1>1, <1>9, <2>2, PlannedSubmissions
    <2>4. OneInFlight'
      BY <1>1, <2>1, <2>2, <2>3, SubmitKeepsOrder DEF Working
    <2> QED
      BY <1>2, <2>1, <2>4
  <1>10. CASE SendStatus(c)
    <2>1. /\ pc[c] = "sendStatus" /\ Goto(c, "succeed") /\ UNCHANGED <<store, op, shown>>
          /\ Submits(c, NodeKey(op[c].node), WithStatus(op[c].record, op[c].kind))
      BY <1>1, <1>10, Submissions DEF SendStatus, IInv
    <2>2. SubmittedAt(pc[c]) + 1 = 1
      BY <2>1 DEF SubmittedAt
    <2>3. [key |-> NodeKey(op[c].node), value |-> WithStatus(op[c].record, op[c].kind)] = Plan(c)[SubmittedAt(pc[c]) + 1]
      BY <1>1, <1>10, <2>2, PlannedSubmissions
    <2>4. OneInFlight'
      BY <1>1, <2>1, <2>2, <2>3, SubmitKeepsOrder DEF Working
    <2> QED
      BY <1>2, <2>1, <2>4
  <1>11. ASSUME UNCHANGED <<store, mempool>>,
                op'[c].kind = op[c].kind, op'[c].node = op[c].node
         PROVE  /\ GetData(NodeListKey)' = GetData(NodeListKey)
                /\ GetData(DelegationListKey)' = GetData(DelegationListKey)
                /\ GetData(NodeKey(op[c].node))' = GetData(NodeKey(op[c].node))
    BY <1>11 DEF GetData, NodeKey
  <1>12. CASE ReadNodeList(c)
    <2>1. /\ pc[c] = "readNodeList" /\ Goto(c, "sendNodeList") /\ UNCHANGED <<store, mempool, shown>>
          /\ ReadsInto(c, "list") /\ op'[c].list = GetData(NodeListKey)
      BY <1>1, <1>12, ReadsLocal DEF ReadNodeList, IInv
    <2>2. pc'[c] = "sendNodeList"
      BY <1>1, <2>1 DEF Goto, IInv, TypeOK
    <2>3. HoldsStored(c)'
      BY <1>11, <2>1, <2>2 DEF HoldsStored, HoldsRecord, ReadsInto
    <2> QED
      BY <1>1, <1>2, <2>1, <2>3, LocalKeepsOrder DEF Working, SubmittedAt, ReadsInto
  <1>13. CASE ReadDelegationList(c)
    <2>1. /\ pc[c] = "readDelegationList" /\ Goto(c, "sendDelegationList")
          /\ UNCHANGED <<store, mempool, shown>>
          /\ ReadsInto(c, "list") /\ op'[c].list = GetData(DelegationListKey)
      BY <1>1, <1>13, ReadsLocal DEF ReadDelegationList, IInv
    <2>2. pc'[c] = "sendDelegationList"
      BY <1>1, <2>1 DEF Goto, IInv, TypeOK
    <2>3. HoldsStored(c)'
      BY <1>11, <2>1, <2>2 DEF HoldsStored, HoldsRecord, ReadsInto
    <2> QED
      BY <1>1, <1>2, <2>1, <2>3, LocalKeepsOrder DEF Working, SubmittedAt, ReadsInto
  <1>14. CASE ReadNode(c)
    <2>1. PICK next \in {"idle", "sendVotes", "sendStatus"} :
              /\ pc[c] = "readNode" /\ Goto(c, next) /\ UNCHANGED <<store, mempool, shown>>
              /\ ReadsInto(c, "record") /\ op'[c].record = GetData(NodeKey(op[c].node))
      BY <1>1, <1>14, ReadsLocal DEF ReadNode, IInv
    <2>2. pc'[c] = next
      BY <1>1, <2>1 DEF Goto, IInv, TypeOK
    <2>3. HoldsStored(c)'
      BY <1>11, <2>1, <2>2 DEF HoldsStored, HoldsRecord, ReadsInto
    <2> QED
      BY <1>1, <1>2, <2>1, <2>3, LocalKeepsOrder DEF Working, SubmittedAt, ReadsInto
  <1>15. CASE Fail(c) \/ Succeed(c)
    <2>1. pc[c] # "idle" /\ Goto(c, "idle") /\ UNCHANGED <<store, mempool, op, shown>>
      BY <1>15 DEF Fail, Succeed
    <2>2. pc'[c] = "idle"
      BY <1>1, <2>1 DEF Goto, IInv, TypeOK
    <2>3. HoldsStored(c)'
      BY <2>2 DEF HoldsStored, HoldsRecord
    <2> QED
      BY <1>1, <1>2, <2>1, <2>3, LocalKeepsOrder
  <1> QED
    BY <1>3, <1>4, <1>5, <1>6, <1>7, <1>8, <1>9, <1>10, <1>12, <1>13, <1>14, <1>15
       DEF ClientNext, Starts

\* Nor does a stutter disturb the order.
LEMMA SerialStutter == SerialInv /\ IInv' /\ UNCHANGED vars => SerialInv' /\ RegistryStep
  <1> SUFFICES ASSUME SerialInv, IInv', UNCHANGED vars PROVE SerialInv' /\ RegistryStep
    OBVIOUS
  <1> USE DEF vars, appVars
  <1>1. IInv /\ OneInFlight /\ RegistrySound /\ started <= started'
    BY ClientAssumption DEF SerialInv, IInv, TypeOK
  <1>2. RegistrySound' /\ RegistryStep
    BY <1>1, SoundStays, RegistryStays DEF RegistryStep
  <1>3. ASSUME NEW c \in Clients
        PROVE  /\ Plan(c)' = Plan(c) /\ \A mined : Effects(c, mined)' <=> Effects(c, mined)
               /\ HoldsStored(c)' <=> HoldsStored(c)
               /\ (InFlight(c)' <=> InFlight(c)) /\ (Unsettled(c)' <=> Unsettled(c))
               /\ \A mined : Progress(c, mined)' <=> Progress(c, mined)
    <2>1. Plan(c)' = Plan(c) /\ \A mined : Effects(c, mined)' <=> Effects(c, mined)
      BY <1>1, PlanStays
    <2>2. \A mined : Progress(c, mined)' <=> Progress(c, mined)
      BY <2>1 DEF Progress, Working
    <2>3. HoldsStored(c)' <=> HoldsStored(c)
      BY DEF HoldsStored, HoldsRecord, GetData
    <2> QED
      BY <2>1, <2>2, <2>3 DEF InFlight, Unsettled, Working
  <1>4. OneInFlight'
    BY <1>1, <1>3 DEF OneInFlight
  <1> QED
    BY <1>2, <1>4 DEF SerialInv

\* At first nothing is listed and nobody is at work.
LEMMA SerialInit == Init => OneInFlight /\ RegistrySound /\ Registry!Init
  <1> SUFFICES ASSUME Init PROVE OneInFlight /\ RegistrySound /\ Registry!Init
    OBVIOUS
  <1>1. ListedNodes = {} /\ ListedDelegations = {} /\ shown = {}
    BY DEF Init, AdapterInit, ListedNodes, ListedDelegations, Listed, GetData, EmptyBytes
  <1>2. RegistrySound
    BY <1>1 DEF RegistrySound
  <1>3. RegistryDelegations = {}
    BY <1>1 DEF RegistryDelegations
  <1>4. RegistryNodes = <<>>
    BY <1>1 DEF RegistryNodes
  <1>5. OneInFlight
    BY DEF Init, OneInFlight, InFlight, Unsettled, Working
  <1> QED
    BY <1>2, <1>3, <1>4, <1>5 DEF Registry!Init

\* As long as operations do not overlap, wherever they are interrupted, what
\* the pages display changes only as the abstract registry may (App.tsx,
\* registerNode, delegateVotes, activateNode, deactivateNode).
THEOREM RegistryImplemented == Serialised => (Spec => ImplementsRegistry)
  <1> SUFFICES ASSUME Serialised PROVE Spec => ImplementsRegistry
    OBVIOUS
  <1>1. Init => SerialInv /\ Registry!Init
    BY InitInvariant, SerialInit DEF SerialInv
  <1>2. SerialInv /\ IInv' /\ [Next]_vars => SerialInv' /\ RegistryStep
    BY SerialStep, SerialStutter DEF Next
  <1>3. RegistryStep => [Registry!Next]_<<RegistryNodes, RegistryDelegations>>
    BY DEF RegistryStep
  <1> QED
    BY <1>1, <1>2, <1>3, InvariantHolds, PTL DEF Spec, ImplementsRegistry, Registry!Spec
=============================================================================

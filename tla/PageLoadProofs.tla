---------------------------- MODULE PageLoadProofs ----------------------------
(***************************************************************************)
(* Machine-checked proofs about PageLoad: for any number of users, loads,  *)
(* nodes and delegations, whatever is written between the reads of a load. *)
(***************************************************************************)
EXTENDS PageLoad, GovernanceAppProofs, FiniteSetTheorems

----------------------------------------------------------------------------
\* What the page relies on: the lists of nodes and the cards of GovernanceApp

\* All lists of nodes, stored, on their way, or read by a handler
NodeLists ==
    Sent(NodeListKey) \cup {op[c].list : c \in {d \in Clients : pc[d] = "sendNodeList"}}

\* A page load can display every listed node, and every displayed node as it is
ShownIsCurrent ==
    /\ \A id \in ListedNodes : \E card \in shown : card.node = id
    /\ \A card \in shown : Card(card.node) \in shown

\* No list of nodes, wherever it is, has an id twice, or one that a handler has
\* yet to add to the list
NodesAreListedOnce ==
    /\ \A l \in NodeLists : \A i, j \in DOMAIN l : l[i] = l[j] => i = j
    /\ \A l \in NodeLists : \A id \in Listed(l) : id <= started
    /\ \A c \in Clients : Registering(c) => \A l \in NodeLists : op[c].node \notin Listed(l)

----------------------------------------------------------------------------
\* The invariant of a load

Entry == [id : Ids, address : Clients, votes : Nat, status : Statuses]
Stages == {"none", "connect", "nodeList", "node", "delegationList", "delegation", "ended"}
VotesByNode == UNION {[known -> Nat] : known \in SUBSET Ids}
Load == [at : Stages, todo : Seq(Ids), nodes : Seq(Entry), delegations : Seq(DelegationRecord),
         awaited : BOOLEAN, before : VotesByNode]

PageTypeOK ==
    /\ loads \in [Loads -> Load]
    /\ nodes \in Seq(Entry)
    /\ delegations \in Seq(DelegationRecord)
    /\ isRefreshing \in BOOLEAN /\ loading \in BOOLEAN
    /\ knownBefore \in VotesByNode

CardOf(entry) == [node |-> entry.id, address |-> entry.address, status |-> entry.status]
Genuine(list) == \A i \in DOMAIN list : CardOf(list[i]) \in shown
DistinctIds(list) == \A i, j \in DOMAIN list : list[i].id = list[j].id => i = j

\* What a load has collected can be displayed, and the ids it has yet to read
\* are of nodes that can be displayed and that it has not collected
LoadIsGenuine(load) ==
    /\ Genuine(load.nodes) /\ DistinctIds(load.nodes)
    /\ load.at \in {"none", "connect", "nodeList", "ended"} => load.nodes = <<>>
    /\ load.at \in {"node", "delegation"} => load.todo # <<>>
    /\ load.at = "node" =>
           /\ \A i \in DOMAIN load.todo :
                  /\ \E card \in shown : card.node = load.todo[i]
                  /\ \A k \in DOMAIN load.nodes : load.nodes[k].id # load.todo[i]
           /\ \A i, j \in DOMAIN load.todo : load.todo[i] = load.todo[j] => i = j

AppPart == IInv /\ ShownIsCurrent /\ NodesAreListedOnce
PagePart ==
    /\ PageTypeOK /\ ViewsAreGenuine /\ IdlePageIsUsable
    /\ \A l \in Loads : LoadIsGenuine(loads[l])

PageIInv == AppPart /\ PagePart

----------------------------------------------------------------------------
\* Sorting: nodeList.sort shows every node that was read, once

Permutes(p, n) ==
    /\ p \in [1 .. n -> 1 .. n]
    /\ \A j, k \in 1 .. n : p[j] = p[k] => j = k
    /\ \A i \in 1 .. n : \E k \in 1 .. n : p[k] = i

\* Ranked permutes its argument: the place of an entry is one more than the
\* number of entries before it, and no two entries have the same place.
LEMMA RankedPermutes ==
    ASSUME NEW list \in Seq(Entry)
    PROVE  /\ DOMAIN Ranked(list) = DOMAIN list
           /\ \E p : Permutes(p, Len(list)) /\ \A k \in DOMAIN list : Ranked(list)[k] = list[p[k]]
  <1> DEFINE n == Len(list)
  <1>0. n \in Nat /\ DOMAIN list = 1 .. n /\ \A i \in 1 .. n : list[i].votes \in Nat
    <2>1. n \in Nat /\ DOMAIN list = 1 .. n /\ \A i \in 1 .. n : list[i] \in Entry
      OBVIOUS
    <2> QED
      BY <2>1 DEF Entry
  <1> HIDE DEF n
  <1> DEFINE Before(i, j) == list[i].votes > list[j].votes \/ (list[i].votes = list[j].votes /\ i < j)
             Earlier(i) == {j \in 1 .. n : Before(j, i)}
             Place(i) == 1 + Cardinality(Earlier(i))
             From(k) == CHOOSE i \in 1 .. n : Place(i) = k
             place == [i \in 1 .. n |-> Place(i)]
  <1>1. Ranked(list) = [k \in 1 .. n |-> list[From(k)]]
    BY <1>0 DEF Ranked
  <1>2. IsFiniteSet(1 .. n) /\ Cardinality(1 .. n) = n
    BY <1>0, FS_Interval
  <1>3. \A i, j, k \in 1 .. n : Before(i, j) /\ Before(j, k) => Before(i, k)
    BY <1>0
  <1>4. \A i, j \in 1 .. n : i # j => Before(i, j) \/ Before(j, i)
    BY <1>0
  <1>5. \A i \in 1 .. n : ~ Before(i, i)
    BY <1>0
  <1> HIDE DEF Before
  <1>6. \A i \in 1 .. n : IsFiniteSet(Earlier(i)) /\ Cardinality(Earlier(i)) \in Nat
    BY <1>2, FS_Subset, FS_CardinalityType
  <1> HIDE DEF Earlier
  <1>7. ASSUME NEW i \in 1 .. n PROVE Place(i) \in 1 .. n
    <2>1. IsFiniteSet((1 .. n) \ {i}) /\ Cardinality((1 .. n) \ {i}) = n - 1
      BY <1>2, FS_RemoveElement
    <2>2. Earlier(i) \subseteq (1 .. n) \ {i}
      BY <1>5 DEF Earlier
    <2>3. Cardinality(Earlier(i)) <= n - 1
      BY <2>1, <2>2, FS_Subset
    <2> QED
      BY <1>0, <1>6, <2>3
  <1>8. ASSUME NEW i \in 1 .. n, NEW j \in 1 .. n, Before(i, j) PROVE Place(i) < Place(j)
    <2>1. Earlier(i) \subseteq Earlier(j) /\ i \in Earlier(j) /\ i \notin Earlier(i)
      BY <1>3, <1>5, <1>8 DEF Earlier
    <2>2. Cardinality(Earlier(i)) <= Cardinality(Earlier(j)) /\ Cardinality(Earlier(i)) # Cardinality(Earlier(j))
      BY <1>6, <2>1, FS_Subset
    <2> QED
      BY <1>0, <1>6, <2>2
  <1>9. \A i, j \in 1 .. n : Place(i) = Place(j) => i = j
    <2> SUFFICES ASSUME NEW i \in 1 .. n, NEW j \in 1 .. n, Place(i) = Place(j), i # j PROVE FALSE
      OBVIOUS
    <2>1. Place(i) \in 1 .. n /\ Place(j) \in 1 .. n
      BY <1>7
    <2>2. Place(i) < Place(j) \/ Place(j) < Place(i)
      BY <1>4, <1>8
    <2> HIDE DEF Place
    <2> QED
      BY <2>1, <2>2
  <1>10. \A k \in 1 .. n : \E i \in 1 .. n : Place(i) = k
    <2> HIDE DEF Place
    <2>1. place \in Injection(1 .. n, 1 .. n)
      BY <1>7, <1>9 DEF Injection, IsInjective
    <2>2. place \in Surjection(1 .. n, 1 .. n)
      BY <1>2, <2>1, FS_Injection
    <2> QED
      BY <2>2 DEF Surjection
  <1> HIDE DEF Place
  <1>11. \A k \in 1 .. n : From(k) \in 1 .. n /\ Place(From(k)) = k
    BY <1>10
  <1>12. \A i \in 1 .. n : From(Place(i)) = i
    BY <1>7, <1>9, <1>11
  <1> HIDE DEF From
  <1> DEFINE p == [k \in 1 .. n |-> From(k)]
  <1>13. p \in [1 .. n -> 1 .. n] /\ \A k \in 1 .. n : Ranked(list)[k] = list[p[k]]
    BY <1>1, <1>11
  <1>14. \A j, k \in 1 .. n : p[j] = p[k] => j = k
    BY <1>11
  <1>15. \A i \in 1 .. n : \E k \in 1 .. n : p[k] = i
    BY <1>7, <1>12
  <1>16. Permutes(p, n)
    BY <1>13, <1>14, <1>15 DEF Permutes
  <1> HIDE DEF p
  <1> QED
    BY <1>0, <1>1, <1>13, <1>16 DEF n

----------------------------------------------------------------------------
\* The application's lists and cards, whatever page is looked at

\* A list of nodes was sent, or is held by a handler.
LEMMA ListMember ==
    \A list : list \in NodeLists <=>
        \/ list \in Sent(NodeListKey)
        \/ \E d \in Clients : pc[d] = "sendNodeList" /\ list = op[d].list
  BY DEF NodeLists

\* A step makes one new list of nodes, by adding the node of a registration.
LEMMA ListsAfterStep ==
    ASSUME TypeOK, Control, NEW c \in Clients, ClientNext(c)
    PROVE  \A list \in NodeLists' : \/ list \in NodeLists
                                    \/ list = <<>>
                                    \/ SendNodeList(c) /\ list = Append(op[c].list, op[c].node)
  <1>1. (\A list : list \in NodeLists <=>
             \/ list \in Sent(NodeListKey)
             \/ \E d \in Clients : pc[d] = "sendNodeList" /\ list = op[d].list)'
    BY ListMember, PTL
  <1>2. pc[c] # "idle" => op[c].node \in Ids /\ op[c].id \in Ids
    BY DEF Control, ClientControl
  <1>3. ASSUME NEW key, NEW value, Submits(c, key, value), UNCHANGED store
        PROVE  \A list \in Sent(NodeListKey)' :
                   list \in Sent(NodeListKey) \/ (key = NodeListKey /\ list = value)
    BY <1>3, SentAfterSubmit DEF Submits
  <1>4. ASSUME NEW list \in Sent(NodeListKey)'
        PROVE  list \in NodeLists \/ (SendNodeList(c) /\ list = Append(op[c].list, op[c].node))
    <2>1. CASE SendNodeList(c)
      <3>1. Submits(c, NodeListKey, Append(op[c].list, op[c].node)) /\ UNCHANGED store
        BY <2>1, Submissions DEF SendNodeList
      <3>2. list \in Sent(NodeListKey) \/ list = Append(op[c].list, op[c].node)
        BY <1>3, <1>4, <3>1
      <3> QED
        BY <2>1, <3>2, ListMember
    <2>2. CASE ~ SendNodeList(c)
      <3>1. Sent(NodeListKey)' \subseteq Sent(NodeListKey)
        <4>1. CASE UNCHANGED <<store, mempool>>
          BY <4>1, SentUnchanged
        <4>2. CASE Mine(c)
          BY <4>2, SentAfterMine
        <4>3. CASE SendNode(c)
          BY <1>2, <1>3, <4>3, Submissions, KeysDiffer DEF SendNode
        <4>4. CASE SendVotes(c)
          <5>1. /\ Submits(c, NodeKey(op[c].node), WithVotes(op[c].record, op[c].amount))
                /\ UNCHANGED store /\ op[c].node \in Ids
            BY <1>2, <4>4, Submissions DEF SendVotes
          <5> QED
            BY <1>3, <5>1, KeysDiffer
        <4>5. CASE SendDelegation(c)
          BY <1>2, <1>3, <4>5, Submissions, KeysDiffer DEF SendDelegation
        <4>6. CASE SendDelegationList(c)
          BY <1>3, <4>6, Submissions, KeysDiffer DEF SendDelegationList
        <4>7. CASE SendStatus(c)
          BY <1>2, <1>3, <4>7, Submissions, KeysDiffer DEF SendStatus
        <4>8. CASE ReadNodeList(c) \/ ReadNode(c) \/ ReadDelegationList(c) \/ Fail(c) \/ Succeed(c)
          BY <4>1, <4>8 DEF ReadNodeList, ReadNode, ReadDelegationList, Fail, Succeed
        <4>9. CASE Starts(c)
          BY <4>1, <4>9, StartsOperation DEF Start
        <4> QED
          BY <2>2, <4>2, <4>3, <4>4, <4>5, <4>6, <4>7, <4>8, <4>9 DEF ClientNext, Starts
      <3> QED
        BY <1>4, <3>1, ListMember
    <2> QED
      BY <2>1, <2>2
  <1>5. ASSUME NEW d \in Clients, pc'[d] = "sendNodeList"
        PROVE  \/ pc[d] = "sendNodeList" /\ op'[d].list = op[d].list
               \/ op'[d].list = GetData(NodeListKey)
    <2>1. CASE d # c
      BY <1>5, <2>1, OneClientSteps
    <2>2. CASE d = c /\ ReadNodeList(c)
      BY <2>2, ReadsLocal DEF ReadNodeList
    <2>3. CASE d = c /\ Mine(c)
      BY <1>5, <2>3 DEF Mine
    <2>4. CASE d = c /\ Starts(c)
      <3>1. \E next \in {"sendNode", "readNode"} : pc' = [pc EXCEPT ![c] = next]
        BY <2>4, StartsOperation DEF Start
      <3> QED
        BY <1>5, <2>4, <3>1 DEF TypeOK
    <2>5. CASE d = c /\ ~ ReadNodeList(c) /\ ~ Mine(c) /\ ~ Starts(c)
      BY <1>5, <2>5 DEF ClientNext, Starts, SendNode, SendNodeList, ReadNode, SendVotes, SendDelegation,
         ReadDelegationList, SendDelegationList, SendStatus, Fail, Succeed, Goto, TypeOK
    <2> QED
      BY <2>1, <2>2, <2>3, <2>4, <2>5
  <1>6. GetData(NodeListKey) = <<>> \/ GetData(NodeListKey) \in NodeLists
    BY SentValues, ListMember DEF GetData, EmptyBytes, IsStored
  <1>7. ASSUME NEW d \in Clients, pc'[d] = "sendNodeList" PROVE op'[d].list \in NodeLists \/ op'[d].list = <<>>
    BY <1>5, <1>6, <1>7, ListMember
  <1> QED
    BY <1>1, <1>4, <1>7

\* Every step keeps every list of nodes without repetition.
LEMMA NodesAreListedOnceStep ==
    ASSUME TypeOK, Control, NodesAreListedOnce, NEW c \in Clients, ClientNext(c), TypeOK', Control'
    PROVE  NodesAreListedOnce'
  <1>1. \A list \in NodeLists : list \in Seq(Ids)
    <2>1. Sent(NodeListKey) \subseteq Seq(Ids)
      BY SentType DEF ListKeys
    <2>2. \A d \in Clients : op[d].list \in Seq(Ids)
      BY DEF TypeOK, Operation
    <2> QED
      BY <2>1, <2>2, ListMember
  <1>2. \A list \in NodeLists' : \/ list \in NodeLists
                                 \/ list = <<>>
                                 \/ SendNodeList(c) /\ list = Append(op[c].list, op[c].node)
    BY ListsAfterStep
  <1>3. started <= started' /\ started \in Nat /\ started' \in Nat
    BY NothingIsForgotten, ClientAssumption DEF TypeOK
  <1>4. ASSUME SendNodeList(c)
        PROVE  /\ op[c].list \in NodeLists /\ op[c].list \in Seq(Ids) /\ op[c].node \in Ids
               /\ Registering(c) /\ op[c].node = op[c].id /\ op[c].node <= started
               /\ op[c].node \notin Listed(op[c].list) /\ pc'[c] = "succeed"
               /\ Listed(Append(op[c].list, op[c].node)) = Listed(op[c].list) \cup {op[c].node}
    <2>1. pc[c] = "sendNodeList" /\ pc'[c] = "succeed"
      BY <1>4 DEF SendNodeList, Goto, TypeOK
    <2>2. op[c].list \in NodeLists /\ op[c].node \in Ids /\ Registering(c)
      BY <2>1, ListMember DEF Control, ClientControl, Registering
    <2>3. op[c].node = op[c].id /\ op[c].node <= started
      BY <2>2 DEF Control, ClientControl
    <2> QED
      BY <1>1, <2>1, <2>2, <2>3, ListedAppend DEF NodesAreListedOnce
  <1>5. ASSUME NEW list \in NodeLists' PROVE \A i, j \in DOMAIN list : list[i] = list[j] => i = j
    <2>1. CASE list \in NodeLists \/ list = <<>>
      BY <2>1 DEF NodesAreListedOnce
    <2>2. CASE SendNodeList(c) /\ list = Append(op[c].list, op[c].node)
      <3> DEFINE old == op[c].list
      <3>1. /\ old \in Seq(Ids) /\ \A i \in DOMAIN old : old[i] # op[c].node
            /\ \A i, j \in DOMAIN old : old[i] = old[j] => i = j
        BY <1>4, <2>2 DEF Listed, NodesAreListedOnce
      <3> HIDE DEF old
      <3>2. list = Append(old, op[c].node)
        BY <2>2 DEF old
      <3>3. /\ Len(old) \in Nat /\ DOMAIN old = 1 .. Len(old) /\ DOMAIN list = 1 .. Len(old) + 1
            /\ \A i \in 1 .. Len(old) : list[i] = old[i]
            /\ list[Len(old) + 1] = op[c].node
        BY <3>1, <3>2
      <3> QED
        BY <3>1, <3>3
    <2> QED
      BY <1>2, <2>1, <2>2
  <1>6. ASSUME NEW list \in NodeLists', NEW id \in Listed(list) PROVE id <= started'
    <2>1. CASE list \in NodeLists \/ list = <<>>
      <3>1. id \in Ids /\ id <= started
        BY <1>1, <1>6, <2>1, ListedType DEF NodesAreListedOnce, Listed
      <3> QED
        BY <1>3, <3>1 DEF Ids
    <2>2. CASE SendNodeList(c) /\ list = Append(op[c].list, op[c].node)
      <3>1. id \in Ids /\ id <= started
        BY <1>1, <1>4, <1>6, <2>2, ListedType DEF NodesAreListedOnce
      <3> QED
        BY <1>3, <3>1 DEF Ids
    <2> QED
      BY <1>2, <2>1, <2>2
  <1>7. ASSUME NEW d \in Clients, Registering(d)', NEW list \in NodeLists', op'[d].node \in Listed(list)
        PROVE  FALSE
    <2> DEFINE id == op'[d].node
    <2>1. \/ Registering(d) /\ id = op[d].node
          \/ id = started + 1 /\ Starts(c)
      <3>1. CASE d # c
        BY <1>7, <3>1, OneClientSteps DEF Registering
      <3>2. CASE d = c /\ Starts(c)
        <4>1. \E kind \in Kinds, node \in Ids, amount \in Nat, next \in {"sendNode", "readNode"} :
                  Start(c, kind, node, amount, next) /\ (next = "sendNode" => node = started + 1)
          BY <3>2, StartsOperation
        <4> QED
          BY <1>7, <3>2, <4>1 DEF Start, TypeOK, Registering
      <3>3. CASE d = c /\ ReadNodeList(c)
        BY <3>3, ReadsLocal DEF ReadNodeList, ReadsInto, Registering
      <3>4. CASE d = c /\ Mine(c)
        BY <1>7, <3>4 DEF Mine, Registering
      <3>5. CASE d = c /\ SendNode(c)
        BY <3>5 DEF SendNode, Registering
      <3>6. CASE d = c /\ ~ ReadNodeList(c) /\ ~ Mine(c) /\ ~ Starts(c) /\ ~ SendNode(c)
        <4>1. pc'[c] \notin {"sendNode", "readNodeList", "sendNodeList"}
          BY <3>6 DEF ClientNext, Starts, SendNodeList, ReadNode, SendVotes, SendDelegation,
             ReadDelegationList, SendDelegationList, SendStatus, Fail, Succeed, Goto, TypeOK
        <4> QED
          BY <1>7, <3>6, <4>1 DEF Registering
      <3> QED
        BY <3>1, <3>2, <3>3, <3>4, <3>5, <3>6
    <2>2. CASE Registering(d) /\ id = op[d].node
      <3>1. CASE list \in NodeLists \/ list = <<>>
        BY <1>7, <2>2, <3>1 DEF NodesAreListedOnce, Listed
      <3>2. CASE SendNodeList(c) /\ list = Append(op[c].list, op[c].node)
        <4>1. d # c
          BY <1>4, <1>7, <3>2 DEF Registering
        <4>2. op[d].node = op[d].id /\ op[d].id \in Ids
          BY <2>2 DEF Control, ClientControl, Registering
        <4>3. op[d].node # op[c].node
          BY <1>4, <3>2, <4>1, <4>2 DEF Control, Ids
        <4> QED
          BY <1>4, <1>7, <2>2, <3>2, <4>3 DEF NodesAreListedOnce
      <3> QED
        BY <1>2, <3>1, <3>2
    <2>3. CASE id = started + 1 /\ Starts(c)
      <3>1. list \in NodeLists \/ list = <<>>
        <4>1. CASE SendNodeList(c)
          <5>1. started' = started + 1
            BY <2>3, StartsOperation DEF Start
          <5> QED
            BY <1>3, <4>1, <5>1 DEF SendNodeList
        <4> QED
          BY <1>2, <4>1
      <3>2. id \in Ids /\ id <= started
        BY <1>1, <1>7, <3>1, ListedType DEF NodesAreListedOnce, Listed
      <3> QED
        BY <1>3, <2>3, <3>2
    <2> QED
      BY <2>1, <2>2, <2>3
  <1> QED
    BY <1>5, <1>6, <1>7 DEF NodesAreListedOnce

\* Every step keeps the current cards among those that can be displayed.
LEMMA ShownIsCurrentStep ==
    ASSUME IInv, ShownIsCurrent, NEW c \in Clients, ClientNext(c), IInv'
    PROVE  ShownIsCurrent' /\ shown \subseteq shown'
  <1>1. CASE ~ Mine(c)
    <2>1. UNCHANGED <<store, shown>>
      BY <1>1 DEF ClientNext, RegisterNode, DelegateVotes, ActivateNode, DeactivateNode, Start,
         SendNode, ReadNodeList, SendNodeList, ReadNode, SendVotes, SendDelegation, ReadDelegationList,
         SendDelegationList, SendStatus, Fail, Succeed
    <2> QED
      BY <2>1 DEF ShownIsCurrent, ListedNodes, Card, GetData
  <1>2. CASE Mine(c)
    <2> DEFINE Ns == DisplayedNodes' \cup {card.node : card \in shown}
    <2>1. shown' = shown \cup {Card(id)' : id \in Ns}
      BY <1>2 DEF Mine
    <2>2. \A id : Card(id)'.node = id
      BY DEF Card
    <2>3. ListedNodes' \subseteq DisplayedNodes'
      <3>1. ListedRecordsAreStored'
        BY ListedAreStored, PTL
      <3> QED
        BY <3>1 DEF ListedRecordsAreStored, DisplayedNodes
    <2>4. \A id \in ListedNodes' : \E card \in shown' : card.node = id
      BY <2>1, <2>2, <2>3
    <2>5. \A card \in shown' : card.node \in Ns
      BY <2>1, <2>2
    <2>6. \A card \in shown' : Card(card.node)' \in shown'
      BY <2>1, <2>5
    <2> QED
      BY <2>1, <2>4, <2>6 DEF ShownIsCurrent
  <1> QED
    BY <1>1, <1>2

----------------------------------------------------------------------------
\* One load

LoadOK(load) == load \in Load /\ LoadIsGenuine(load)

\* More cards do not make a load less genuine.
LEMMA GenuineKept ==
    ASSUME shown \subseteq shown'
    PROVE  /\ \A load : LoadIsGenuine(load) => LoadIsGenuine(load)'
           /\ \A list : Genuine(list) => Genuine(list)'
  <1>1. \A list : Genuine(list) => Genuine(list)'
    BY DEF Genuine
  <1>2. \A load : LoadIsGenuine(load) => LoadIsGenuine(load)'
    BY <1>1 DEF LoadIsGenuine
  <1> QED
    BY <1>1, <1>2

\* An empty page is genuine.
LEMMA EmptyIsGenuine ==
    /\ <<>> \in VotesByNode /\ <<>> \in Seq(Entry) /\ <<>> \in Seq(Ids) /\ <<>> \in Seq(DelegationRecord)
    /\ Genuine(<<>>) /\ DistinctIds(<<>>)
  <1>1. <<>> \in [{} -> Nat] /\ {} \in SUBSET Ids
    OBVIOUS
  <1>2. <<>> \in VotesByNode
    BY <1>1, Zenon DEF VotesByNode
  <1> QED
    BY <1>2 DEF Genuine, DistinctIds

\* The votes a load remembers when it begins.
LEMMA StoredVotesType == TypeOK => StoredVotes \in VotesByNode
  <1> SUFFICES ASSUME TypeOK PROVE StoredVotes \in VotesByNode
    OBVIOUS
  <1>1. \A id \in DisplayedNodes : id \in Ids /\ GetData(NodeKey(id)).votes \in Nat
    BY ReadType, DisplayedType DEF TypeOK, NodeRecord
  <1>2. StoredVotes \in [DisplayedNodes -> Nat] /\ DisplayedNodes \in SUBSET Ids
    BY <1>1 DEF StoredVotes
  <1> QED
    BY <1>2, Zenon DEF VotesByNode

\* So are the locals of a load that begins, or ended.
LEMMA BegunIsOK ==
    ASSUME TypeOK, NEW awaited \in BOOLEAN
    PROVE  LoadOK(Begun(awaited)) /\ Begun(awaited).at = "connect" /\ LoadOK(Unused) /\ LoadOK(Ended)
           /\ Unused.at = "none" /\ Ended.at = "ended"
  BY StoredVotesType, EmptyIsGenuine DEF LoadOK, Begun, Unused, Ended, Load, Stages, LoadIsGenuine

\* After the next id of the list: the locals are again genuine if what was
\* collected is, and is not about an id that remains.
LEMMA AfterNode ==
    ASSUME NEW load, LoadOK(load), load.at = "node", NEW next \in Load,
           next.todo = Tail(load.todo),
           next.at = IF Len(load.todo) = 1 THEN "delegationList" ELSE "node",
           Genuine(next.nodes), DistinctIds(next.nodes),
           \A k \in DOMAIN next.nodes : \A i \in DOMAIN load.todo :
               i # 1 => next.nodes[k].id # load.todo[i]
    PROVE  LoadOK(next)
  <1>1. load.todo \in Seq(Ids) /\ load.todo # <<>>
    BY DEF LoadOK, Load, LoadIsGenuine
  <1>2. /\ DOMAIN next.todo = 1 .. Len(load.todo) - 1 /\ DOMAIN load.todo = 1 .. Len(load.todo)
        /\ Len(load.todo) \in Nat /\ \A i \in DOMAIN next.todo : next.todo[i] = load.todo[i + 1]
    BY <1>1
  <1>3. next.at = "node" => next.todo # <<>>
    <2>1. next.at = "node" => Len(load.todo) # 1 /\ Len(load.todo) # 0
      BY <1>1
    <2>2. Len(next.todo) = Len(load.todo) - 1
      BY <1>1
    <2>3. Len(<<>>) = 0
      OBVIOUS
    <2>4. next.at = "node" => Len(next.todo) # 0
      BY <1>2, <2>1, <2>2
    <2> QED
      BY <2>3, <2>4
  <1>4. ASSUME next.at = "node"
        PROVE  /\ \A i \in DOMAIN next.todo :
                      /\ \E card \in shown : card.node = next.todo[i]
                      /\ \A k \in DOMAIN next.nodes : next.nodes[k].id # next.todo[i]
               /\ \A i, j \in DOMAIN next.todo : next.todo[i] = next.todo[j] => i = j
    <2>1. \A i \in DOMAIN next.todo : i \in Nat /\ i + 1 \in DOMAIN load.todo /\ i + 1 # 1
      BY <1>2
    <2>2. /\ \A i \in DOMAIN load.todo : \E card \in shown : card.node = load.todo[i]
          /\ \A i, j \in DOMAIN load.todo : load.todo[i] = load.todo[j] => i = j
      BY DEF LoadOK, LoadIsGenuine
    <2>3. \A i \in DOMAIN next.todo :
              /\ \E card \in shown : card.node = next.todo[i]
              /\ \A k \in DOMAIN next.nodes : next.nodes[k].id # next.todo[i]
      BY <1>2, <2>1, <2>2
    <2>4. \A i, j \in DOMAIN next.todo : next.todo[i] = next.todo[j] => i = j
      BY <1>2, <2>1, <2>2
    <2> QED
      BY <2>3, <2>4
  <1> QED
    BY <1>3, <1>4 DEF LoadOK, LoadIsGenuine

\* The fields that going to the next id changes.
LEMMA NextNodeFields ==
    ASSUME NEW load \in Load, load.todo # <<>>
    PROVE  /\ NextNode(load) \in Load
           /\ NextNode(load).todo = Tail(load.todo) /\ NextNode(load).nodes = load.nodes
           /\ NextNode(load).at = IF Len(load.todo) = 1 THEN "delegationList" ELSE "node"
  <1>1. Tail(load.todo) \in Seq(Ids)
    BY DEF Load
  <1> DEFINE stage == IF Len(load.todo) = 1 THEN "delegationList" ELSE "node"
  <1>2. stage \in Stages
    BY DEF Stages
  <1>3. NextNode(load) = [load EXCEPT !.todo = Tail(load.todo), !.at = stage]
    BY DEF NextNode, Load
  <1> HIDE DEF stage
  <1>4. /\ NextNode(load) \in Load /\ NextNode(load).todo = Tail(load.todo)
        /\ NextNode(load).nodes = load.nodes /\ NextNode(load).at = stage
    BY <1>1, <1>2, <1>3 DEF Load
  <1> QED
    BY <1>4 DEF stage

\* The collected nodes when a record has been read.
LEMMA CollectedNode ==
    ASSUME TypeOK, ShownIsCurrent, NEW load, LoadOK(load), load.at = "node"
    PROVE  LoadOK(NextNode(WithNode(load, Head(load.todo), GetData(NodeKey(Head(load.todo))))))
  <1> DEFINE id == Head(load.todo)
             record == GetData(NodeKey(id))
             next == NextNode(WithNode(load, id, record))
  <1>1. /\ load \in Load /\ load.todo \in Seq(Ids) /\ load.todo # <<>> /\ load.nodes \in Seq(Entry)
        /\ id \in Ids /\ id = load.todo[1] /\ 1 \in DOMAIN load.todo
    BY DEF LoadOK, Load, LoadIsGenuine
  <1>2. /\ Genuine(load.nodes) /\ DistinctIds(load.nodes)
        /\ \A i \in DOMAIN load.todo : \A k \in DOMAIN load.nodes : load.nodes[k].id # load.todo[i]
        /\ \A i \in DOMAIN load.todo : load.todo[i] = id => i = 1
        /\ \E card \in shown : card.node = id
    BY <1>1 DEF LoadOK, LoadIsGenuine
  <1>3. Card(id) \in shown
    BY <1>2 DEF ShownIsCurrent
  <1> SUFFICES LoadOK(next)
    OBVIOUS
  <1>4. CASE record = EmptyBytes
    <2>1. next = NextNode(load)
      BY <1>4 DEF WithNode
    <2> HIDE DEF next
    <2>2. /\ next \in Load /\ next.todo = Tail(load.todo) /\ next.nodes = load.nodes
          /\ next.at = IF Len(load.todo) = 1 THEN "delegationList" ELSE "node"
      BY <1>1, <2>1, NextNodeFields
    <2> QED
      BY <1>2, <2>2, AfterNode
  <1>5. CASE record # EmptyBytes
    <2> DEFINE entry == [id |-> id, address |-> record.address, votes |-> record.votes,
                         status |-> record.status]
               longer == [load EXCEPT !.nodes = Append(@, entry)]
    <2>1. record \in NodeRecord
      BY <1>1, <1>5, ReadType DEF TypeOK
    <2>2. entry \in Entry /\ entry.id = id /\ CardOf(entry) = Card(id)
      BY <1>1, <2>1 DEF NodeRecord, Entry, CardOf, Card
    <2>3. next = NextNode(longer)
      BY <1>5 DEF WithNode
    <2> HIDE DEF next, entry, record, id
    <2>4. longer \in Load /\ longer.todo = load.todo /\ longer.nodes = Append(load.nodes, entry)
      <3>1. Append(load.nodes, entry) \in Seq(Entry)
        BY <1>1, <2>2
      <3> QED
        BY <1>1, <3>1 DEF Load
    <2> HIDE DEF longer
    <2>5. /\ next \in Load /\ next.todo = Tail(load.todo) /\ next.nodes = Append(load.nodes, entry)
          /\ next.at = IF Len(load.todo) = 1 THEN "delegationList" ELSE "node"
      BY <1>1, <2>3, <2>4, NextNodeFields
    <2>6. /\ DOMAIN load.nodes = 1 .. Len(load.nodes) /\ Len(load.nodes) \in Nat
          /\ DOMAIN next.nodes = 1 .. Len(load.nodes) + 1
          /\ \A k \in DOMAIN load.nodes : next.nodes[k] = load.nodes[k]
          /\ next.nodes[Len(load.nodes) + 1] = entry
      BY <1>1, <2>2, <2>5
    <2>7. \A k \in DOMAIN next.nodes : k \in DOMAIN load.nodes \/ k = Len(load.nodes) + 1
      BY <2>6
    <2>8. Genuine(next.nodes)
      BY <1>2, <1>3, <2>2, <2>6, <2>7 DEF Genuine
    <2>9. DistinctIds(next.nodes)
      <3>1. \A k \in DOMAIN load.nodes : load.nodes[k].id # entry.id
        BY <1>1, <1>2, <2>2
      <3>2. \A j, k \in DOMAIN load.nodes : load.nodes[j].id = load.nodes[k].id => j = k
        BY <1>2 DEF DistinctIds
      <3> QED
        BY <2>6, <2>7, <3>1, <3>2 DEF DistinctIds
    <2>10. \A k \in DOMAIN next.nodes : \A i \in DOMAIN load.todo : i # 1 => next.nodes[k].id # load.todo[i]
      BY <1>2, <2>2, <2>6, <2>7
    <2> QED
      BY <2>5, <2>8, <2>9, <2>10, AfterNode
  <1> QED
    BY <1>4, <1>5

\* ... and when its read has thrown.
LEMMA SkippedNode ==
    ASSUME NEW load, LoadOK(load), load.at = "node"
    PROVE  LoadOK([NextNode(load) EXCEPT !.before = <<>>])
  <1> DEFINE next == [NextNode(load) EXCEPT !.before = <<>>]
  <1> SUFFICES LoadOK(next)
    OBVIOUS
  <1>1. load \in Load /\ load.todo # <<>>
    BY DEF LoadOK, LoadIsGenuine
  <1>2. /\ NextNode(load) \in Load
        /\ NextNode(load).todo = Tail(load.todo) /\ NextNode(load).nodes = load.nodes
        /\ NextNode(load).at = IF Len(load.todo) = 1 THEN "delegationList" ELSE "node"
    BY <1>1, NextNodeFields
  <1>3. /\ next \in Load /\ next.todo = NextNode(load).todo /\ next.nodes = NextNode(load).nodes
        /\ next.at = NextNode(load).at
    BY <1>2, EmptyIsGenuine DEF Load
  <1>4. /\ Genuine(load.nodes) /\ DistinctIds(load.nodes)
        /\ \A i \in DOMAIN load.todo : \A k \in DOMAIN load.nodes : load.nodes[k].id # load.todo[i]
    BY DEF LoadOK, LoadIsGenuine
  <1> HIDE DEF next
  <1> QED
    BY <1>2, <1>3, <1>4, AfterNode

----------------------------------------------------------------------------
\* The page

\* A step of the page that keeps what can be displayed keeps the displayed.
LEMMA PageKept ==
    ASSUME PagePart, shown \subseteq shown', UNCHANGED pageVars
    PROVE  PagePart'
  <1> USE DEF pageVars
  <1>1. PageTypeOK' /\ IdlePageIsUsable'
    BY DEF PagePart, PageTypeOK, IdlePageIsUsable, Running
  <1>2. ViewsAreGenuine'
    BY DEF PagePart, ViewsAreGenuine
  <1>3. \A l \in Loads : LoadIsGenuine(loads[l])'
    BY GenuineKept DEF PagePart
  <1> QED
    BY <1>1, <1>2, <1>3 DEF PagePart

\* A step of any client keeps what the page relies on,
LEMMA AppPartStep ==
    ASSUME AppPart, NEW c \in Clients, ClientNext(c)
    PROVE  AppPart' /\ shown \subseteq shown'
  <1>1. IInv'
    BY ClientInvariant DEF AppPart
  <1>2. ShownIsCurrent' /\ shown \subseteq shown'
    BY <1>1, ShownIsCurrentStep DEF AppPart
  <1>3. NodesAreListedOnce'
    BY <1>1, NodesAreListedOnceStep DEF AppPart, IInv
  <1> QED
    BY <1>1, <1>2, <1>3 DEF AppPart

\* and so does a stutter.
LEMMA AppPartStutter == AppPart /\ UNCHANGED vars => AppPart'
  <1> SUFFICES ASSUME AppPart, UNCHANGED vars PROVE AppPart'
    OBVIOUS
  <1>1. IInv'
    BY StutterInvariant DEF AppPart
  <1>2. ShownIsCurrent'
    BY DEF AppPart, vars, appVars, ShownIsCurrent, ListedNodes, Card, GetData
  <1>3. NodeLists' = NodeLists
    BY SentUnchanged DEF vars, appVars, NodeLists
  <1>4. NodesAreListedOnce'
    BY <1>3 DEF AppPart, vars, appVars, NodesAreListedOnce, Registering
  <1> QED
    BY <1>1, <1>2, <1>4 DEF AppPart

\* A load begins: by the Refresh button, or awaited by a handler at its end.
LEMMA BeginLoadStep ==
    ASSUME AppPart, PagePart, shown \subseteq shown', NEW awaited \in BOOLEAN, BeginLoad(awaited)
    PROVE  PagePart'
  <1>1. PICK l \in Loads : /\ loads' = [loads EXCEPT ![l] = Begun(awaited)] /\ isRefreshing' = TRUE
                           /\ UNCHANGED <<nodes, delegations, loading, knownBefore>>
    BY DEF BeginLoad
  <1>2. loads \in [Loads -> Load]
    BY DEF PagePart, PageTypeOK
  <1>3. LoadOK(Begun(awaited)) /\ Begun(awaited).at = "connect"
    BY BegunIsOK DEF AppPart, IInv
  <1>4. loads' \in [Loads -> Load] /\ loads'[l] = Begun(awaited) /\ \A k \in Loads \ {l} : loads'[k] = loads[k]
    BY <1>1, <1>2, <1>3 DEF LoadOK
  <1>5. PageTypeOK'
    BY <1>1, <1>4 DEF PagePart, PageTypeOK
  <1>6. ViewsAreGenuine'
    BY <1>1 DEF PagePart, ViewsAreGenuine
  <1>7. IdlePageIsUsable'
    BY <1>3, <1>4 DEF IdlePageIsUsable, Running
  <1>8. \A k \in Loads : LoadIsGenuine(loads[k])'
    BY <1>3, <1>4, GenuineKept DEF PagePart, LoadOK
  <1> QED
    BY <1>5, <1>6, <1>7, <1>8 DEF PagePart

\* A load goes on, with locals that are genuine.
LEMMA AdvanceStep ==
    ASSUME PagePart, UNCHANGED vars, NEW l \in Loads, Running(l),
           NEW load, LoadOK(load), load.at \notin {"none", "ended"}, Advance(l, load)
    PROVE  PagePart'
  <1>1. loads \in [Loads -> Load] /\ load \in Load /\ LoadIsGenuine(load) /\ shown' = shown
    BY DEF PagePart, PageTypeOK, LoadOK, vars, appVars
  <1>2. loads' \in [Loads -> Load] /\ loads'[l] = load /\ \A k \in Loads \ {l} : loads'[k] = loads[k]
    BY <1>1 DEF Advance
  <1>3. UNCHANGED <<nodes, delegations, isRefreshing, loading, knownBefore>>
    BY DEF Advance
  <1>4. PageTypeOK' /\ ViewsAreGenuine'
    BY <1>1, <1>2, <1>3 DEF PagePart, PageTypeOK, ViewsAreGenuine
  <1>5. IdlePageIsUsable'
    BY <1>2, <1>3 DEF PagePart, IdlePageIsUsable, Running
  <1>6. \A k \in Loads : LoadIsGenuine(loads[k])'
    BY <1>1, <1>2, GenuineKept DEF PagePart
  <1> QED
    BY <1>4, <1>5, <1>6 DEF PagePart

\* A load ends: its locals are gone, and the page can be used.
LEMMA EndLoadStep ==
    ASSUME AppPart, PagePart, UNCHANGED vars, NEW l \in Loads, EndLoad(l),
           nodes' \in Seq(Entry), delegations' \in Seq(DelegationRecord), knownBefore' \in VotesByNode,
           Genuine(nodes)', DistinctIds(nodes)'
    PROVE  PagePart'
  <1>1. loads \in [Loads -> Load] /\ LoadOK(Ended) /\ shown' = shown
    BY BegunIsOK DEF AppPart, IInv, PagePart, PageTypeOK, vars, appVars
  <1>2. loads' \in [Loads -> Load] /\ loads'[l] = Ended /\ \A k \in Loads \ {l} : loads'[k] = loads[k]
    BY <1>1 DEF EndLoad, LoadOK
  <1>3. isRefreshing' = FALSE /\ loading' = FALSE
    BY DEF EndLoad
  <1>4. PageTypeOK'
    BY <1>2, <1>3 DEF PageTypeOK
  <1>5. ViewsAreGenuine'
    BY <1>1 DEF ViewsAreGenuine, Genuine, DistinctIds, CardOf
  <1>6. IdlePageIsUsable'
    BY <1>3 DEF IdlePageIsUsable
  <1>7. \A k \in Loads : LoadIsGenuine(loads[k])'
    BY <1>1, <1>2, GenuineKept DEF PagePart, LoadOK
  <1> QED
    BY <1>4, <1>5, <1>6, <1>7 DEF PagePart

\* Sorting keeps a list of nodes genuine.
LEMMA RankedIsGenuine ==
    ASSUME NEW list \in Seq(Entry), Genuine(list), DistinctIds(list)
    PROVE  Ranked(list) \in Seq(Entry) /\ Genuine(Ranked(list)) /\ DistinctIds(Ranked(list))
  <1> DEFINE n == Len(list)
             ranked == Ranked(list)
  <1>1. n \in Nat /\ DOMAIN list = 1 .. n /\ \A i \in 1 .. n : list[i] \in Entry
    OBVIOUS
  <1>3. PICK p : Permutes(p, n) /\ \A k \in 1 .. n : ranked[k] = list[p[k]]
    BY <1>1, RankedPermutes
  <1> HIDE DEF n
  <1>4. ranked = [k \in 1 .. n |-> ranked[k]]
    BY <1>1 DEF Ranked
  <1> HIDE DEF ranked
  <1>5. DOMAIN ranked = 1 .. n /\ \A k \in 1 .. n : p[k] \in 1 .. n /\ ranked[k] \in Entry
    BY <1>1, <1>3, <1>4 DEF Permutes
  <1>6. ranked \in Seq(Entry)
    BY <1>1, <1>4, <1>5
  <1>7. Genuine(ranked)
    BY <1>1, <1>3, <1>5 DEF Genuine
  <1>8. DistinctIds(ranked)
    <2> SUFFICES ASSUME NEW j \in 1 .. n, NEW k \in 1 .. n, ranked[j].id = ranked[k].id PROVE j = k
      BY <1>5 DEF DistinctIds
    <2>1. list[p[j]].id = list[p[k]].id /\ p[j] \in 1 .. n /\ p[k] \in 1 .. n
      BY <1>3, <1>5
    <2>2. p[j] = p[k]
      BY <1>1, <2>1 DEF DistinctIds
    <2> QED
      BY <1>3, <2>2 DEF Permutes
  <1> QED
    BY <1>6, <1>7, <1>8 DEF ranked

\* A load displays what it collected.
LEMMA DisplayStep ==
    ASSUME AppPart, PagePart, UNCHANGED vars, NEW l \in Loads, NEW load, LoadOK(load), Display(l, load)
    PROVE  PagePart'
  <1>1. /\ load.nodes \in Seq(Entry) /\ load.delegations \in Seq(DelegationRecord)
        /\ load.before \in VotesByNode /\ Genuine(load.nodes) /\ DistinctIds(load.nodes)
    BY DEF LoadOK, Load, LoadIsGenuine
  <1>2. /\ nodes' \in Seq(Entry) /\ Genuine(nodes)' /\ DistinctIds(nodes)'
        /\ delegations' \in Seq(DelegationRecord) /\ knownBefore' \in VotesByNode /\ EndLoad(l)
    <2>1. /\ Ranked(load.nodes) \in Seq(Entry) /\ Genuine(Ranked(load.nodes))
          /\ DistinctIds(Ranked(load.nodes))
      BY <1>1, RankedIsGenuine
    <2> QED
      BY <1>1, <2>1 DEF Display, Genuine, vars, appVars
  <1> QED
    BY <1>2, EndLoadStep

\* Every step of a load keeps the page genuine and usable.
LEMMA LoadStepKeeps ==
    ASSUME AppPart, PagePart, UNCHANGED vars, NEW l \in Loads, LoadStep(l)
    PROVE  PagePart'
  <1> DEFINE load == loads[l]
  <1>1. LoadOK(load) /\ loads \in [Loads -> Load] /\ nodes \in Seq(Entry)
        /\ delegations \in Seq(DelegationRecord) /\ knownBefore \in VotesByNode
    BY DEF PagePart, PageTypeOK, LoadOK
  <1>2. TypeOK /\ ShownIsCurrent /\ NodesAreListedOnce
    BY DEF AppPart, IInv
  <1>3. load \in Load /\ load.todo \in Seq(Ids) /\ load.nodes \in Seq(Entry)
        /\ load.delegations \in Seq(DelegationRecord)
    BY <1>1 DEF LoadOK, Load
  <1>4. GetData(NodeListKey) \in Seq(Ids) /\ GetData(DelegationListKey) \in Seq(Ids)
    BY <1>2, ReadType DEF TypeOK
  <1>10. CASE Connect(l)
    <2> DEFINE next == [load EXCEPT !.at = "nodeList"]
    <2>1. LoadOK(next) /\ next.at = "nodeList" /\ Running(l)
      BY <1>1, <1>3, <1>10 DEF Connect, LoadOK, Load, Stages, LoadIsGenuine, Running
    <2> QED
      BY <1>10, <2>1, AdvanceStep DEF Connect
  <1>11. CASE AbandonLoad(l)
    <2>1. Genuine(nodes)' /\ DistinctIds(nodes)'
      BY <1>11 DEF AbandonLoad, PagePart, ViewsAreGenuine, Genuine, DistinctIds, CardOf, vars, appVars
    <2> QED
      BY <1>1, <1>11, <2>1, EndLoadStep DEF AbandonLoad
  <1>12. CASE LoadNodeList(l)
    <2> DEFINE list == GetData(NodeListKey)
               stage == IF list = <<>> THEN "delegationList" ELSE "node"
               next == [load EXCEPT !.todo = list, !.at = stage]
    <2>1. load.at = "nodeList" /\ Advance(l, next) /\ load.nodes = <<>> /\ Running(l)
      BY <1>1, <1>12 DEF LoadNodeList, LoadOK, LoadIsGenuine, Running
    <2>2. \A i \in DOMAIN list : \E card \in shown : card.node = list[i]
      BY <1>2 DEF ShownIsCurrent, ListedNodes, Listed
    <2>3. \A i, j \in DOMAIN list : list[i] = list[j] => i = j
      BY <1>2, SentValues, ListMember DEF NodesAreListedOnce, GetData, EmptyBytes, IsStored
    <2>4. stage \in Stages /\ (list = <<>> => stage = "delegationList") /\ (list # <<>> => stage = "node")
      BY DEF Stages
    <2> HIDE DEF stage, list
    <2>5. /\ next \in Load /\ next.todo = list /\ next.at = stage /\ next.nodes = <<>>
      BY <1>3, <1>4, <2>1, <2>4 DEF Load, list
    <2> HIDE DEF next
    <2>6. LoadOK(next)
      BY <2>2, <2>3, <2>4, <2>5, EmptyIsGenuine DEF LoadOK, LoadIsGenuine
    <2> QED
      BY <2>1, <2>4, <2>5, <2>6, AdvanceStep
  <1>13. CASE LoadNode(l)
    <2> DEFINE next == NextNode(WithNode(load, Head(load.todo), GetData(NodeKey(Head(load.todo)))))
    <2>1. load.at = "node" /\ Advance(l, next) /\ Running(l)
      BY <1>13 DEF LoadNode, Running
    <2>2. LoadOK(next)
      BY <1>1, <1>2, <2>1, CollectedNode
    <2>3. next.at \notin {"none", "ended"}
      BY <1>3 DEF NextNode, WithNode, Load
    <2> QED
      BY <2>1, <2>2, <2>3, AdvanceStep
  <1>14. CASE SkipNode(l)
    <2> DEFINE next == [NextNode(load) EXCEPT !.before = <<>>]
    <2>1. load.at = "node" /\ Advance(l, next) /\ Running(l)
      BY <1>14 DEF SkipNode, Running
    <2>2. LoadOK(next)
      BY <1>1, <2>1, SkippedNode
    <2>3. next.at \notin {"none", "ended"}
      BY <1>3 DEF NextNode, Load
    <2> QED
      BY <2>1, <2>2, <2>3, AdvanceStep
  <1>15. CASE LoadDelegationList(l)
    <2> DEFINE list == GetData(DelegationListKey)
               next == [load EXCEPT !.todo = list, !.at = "delegation"]
    <2>1. CASE list = <<>>
      BY <1>1, <1>15, <2>1, DisplayStep DEF LoadDelegationList
    <2>2. CASE list # <<>>
      <3>1. Advance(l, next) /\ Running(l) /\ LoadIsGenuine(load)
        BY <1>1, <1>15, <2>2 DEF LoadDelegationList, Running, LoadOK
      <3>2. LoadOK(next) /\ next.at = "delegation"
        <4> HIDE DEF list
        <4>1. next \in Load /\ next.todo = list /\ next.at = "delegation" /\ next.nodes = load.nodes
          BY <1>3, <1>4 DEF Load, Stages, list
        <4> HIDE DEF next
        <4> QED
          BY <2>2, <3>1, <4>1 DEF LoadOK, LoadIsGenuine
      <3> QED
        BY <3>1, <3>2, AdvanceStep
    <2> QED
      BY <2>1, <2>2
  <1>16. ASSUME NEW next, LoadOK(next), next.at = "delegation", load.at = "delegation", NextDelegation(l, next)
         PROVE  PagePart'
    <2>1. CASE Len(next.todo) = 1
      BY <1>16, <2>1, DisplayStep DEF NextDelegation
    <2>2. CASE Len(next.todo) # 1
      <3> DEFINE rest == [next EXCEPT !.todo = Tail(@)]
      <3>1. Advance(l, rest) /\ Running(l)
        BY <1>16, <2>2 DEF NextDelegation, Running
      <3>2. next \in Load /\ next.todo \in Seq(Ids) /\ next.todo # <<>> /\ LoadIsGenuine(next)
        BY <1>16 DEF LoadOK, Load, LoadIsGenuine
      <3>3. Tail(next.todo) \in Seq(Ids) /\ Tail(next.todo) # <<>>
        <4>1. Tail(next.todo) \in Seq(Ids) /\ Len(Tail(next.todo)) # 0
          BY <2>2, <3>2
        <4>2. Len(<<>>) = 0
          OBVIOUS
        <4> QED
          BY <4>1, <4>2
      <3>4. rest \in Load /\ rest.todo = Tail(next.todo) /\ rest.at = "delegation" /\ rest.nodes = next.nodes
        BY <1>16, <3>2, <3>3 DEF Load
      <3> HIDE DEF rest
      <3>5. LoadOK(rest)
        BY <3>2, <3>3, <3>4 DEF LoadOK, LoadIsGenuine
      <3> QED
        BY <3>1, <3>4, <3>5, AdvanceStep
    <2> QED
      BY <2>1, <2>2
  <1>17. CASE LoadDelegation(l)
    <2> DEFINE id == Head(load.todo)
               record == GetData(DelegationKey(id))
               next == WithDelegation(load, record)
    <2>1. load.at = "delegation" /\ NextDelegation(l, next) /\ LoadIsGenuine(load) /\ load.todo # <<>>
      BY <1>1, <1>17 DEF LoadDelegation, LoadOK, LoadIsGenuine
    <2>2. record = EmptyBytes \/ record \in DelegationRecord
      BY <1>2, <1>3, <2>1, StoreType DEF TypeOK, GetData, IsStored
    <2> HIDE DEF record
    <2>3. CASE record = EmptyBytes
      BY <1>1, <1>16, <2>1, <2>3 DEF WithDelegation
    <2>4. CASE record # EmptyBytes
      <3>1. Append(load.delegations, record) \in Seq(DelegationRecord)
        BY <1>3, <2>2, <2>4
      <3>2. next = [load EXCEPT !.delegations = Append(load.delegations, record)]
        BY <2>4 DEF WithDelegation
      <3> HIDE DEF next
      <3>3. next \in Load /\ next.at = "delegation" /\ next.todo = load.todo /\ next.nodes = load.nodes
        BY <1>3, <2>1, <3>1, <3>2 DEF Load
      <3>4. LoadOK(next)
        BY <2>1, <3>3 DEF LoadOK, LoadIsGenuine
      <3> QED
        BY <1>16, <2>1, <3>3, <3>4
    <2> QED
      BY <2>3, <2>4
  <1>18. CASE SkipDelegation(l)
    BY <1>1, <1>16, <1>18 DEF SkipDelegation
  <1> QED
    BY <1>10, <1>11, <1>12, <1>13, <1>14, <1>15, <1>17, <1>18 DEF LoadStep

\* The viewer's buttons are buttons of the application: a displayed node is one
\* a page load can display.
LEMMA ViewerStartsOperation ==
    ASSUME AppPart, PagePart, ViewerStarts
    PROVE  ClientNext(Viewer)
  <1>1. \A i \in DOMAIN nodes : nodes[i].id \in Ids
    <2>1. nodes \in Seq(Entry)
      BY DEF PagePart, PageTypeOK
    <2>2. \A i \in DOMAIN nodes : nodes[i] \in Entry
      BY <2>1
    <2> QED
      BY <2>2 DEF Entry
  <1> QED
    BY <1>1 DEF ViewerStarts, ClientNext

\* A step of the page is a step of one client, or none of the application's.
LEMMA PageNextIsNext ==
    ASSUME PageIInv, PageNext
    PROVE  \/ \E c \in Clients : ClientNext(c)
           \/ UNCHANGED vars
  <1>1. CASE ViewerStarts
    BY <1>1, ViewerStartsOperation, ViewerAssumption DEF PageIInv
  <1>2. CASE ViewerContinues \/ Succeed(Viewer)
    BY <1>2, ViewerAssumption DEF ViewerContinues, ClientNext
  <1> QED
    BY <1>1, <1>2 DEF PageNext

\* The invariant of the page holds at first,
LEMMA PageInitInvariant == PageInit => PageIInv
  <1> SUFFICES ASSUME PageInit PROVE PageIInv
    OBVIOUS
  <1>1. IInv
    BY InitInvariant DEF PageInit
  <1>2. ListedNodes = {} /\ NodeLists = {} /\ shown = {}
    <2>1. Sent(NodeListKey) = {}
      BY SentMember DEF PageInit, Init, AdapterInit, IsStored
    <2>2. NodeLists = {}
      BY <2>1, ListMember DEF PageInit, Init
    <2> QED
      BY <2>2 DEF PageInit, Init, AdapterInit, ListedNodes, Listed, GetData, EmptyBytes
  <1>3. ShownIsCurrent /\ NodesAreListedOnce
    BY <1>2 DEF ShownIsCurrent, NodesAreListedOnce
  <1>4. /\ LoadOK(Begun(FALSE)) /\ Begun(FALSE).at = "connect" /\ LoadOK(Unused)
    BY <1>1, BegunIsOK DEF IInv
  <1>5. /\ loads \in [Loads -> Load] /\ \A l \in Loads : LoadIsGenuine(loads[l])
        /\ 1 \in Loads /\ loads[1] = Begun(FALSE)
    <2>1. 1 \in Loads /\ 1 <= MountLoads
      BY LoadAssumption DEF Loads
    <2>2. loads = [l \in Loads |-> IF l <= MountLoads THEN Begun(FALSE) ELSE Unused]
      BY DEF PageInit
    <2>3. \A l \in Loads : LoadOK(loads[l])
      BY <1>4, <2>2
    <2> QED
      BY <2>1, <2>2, <2>3 DEF LoadOK
  <1>6. PageTypeOK
    BY <1>5, EmptyIsGenuine DEF PageInit, PageTypeOK
  <1>7. ViewsAreGenuine
    BY DEF PageInit, ViewsAreGenuine
  <1>8. IdlePageIsUsable
    BY <1>4, <1>5 DEF IdlePageIsUsable, Running
  <1> QED
    BY <1>1, <1>3, <1>5, <1>6, <1>7, <1>8 DEF PageIInv, AppPart, PagePart

\* every step keeps it,
LEMMA PageStepInvariant == PageIInv /\ [PageNext]_allVars => PageIInv'
  <1> SUFFICES ASSUME AppPart, PagePart, [PageNext]_allVars PROVE AppPart' /\ PagePart'
    BY DEF PageIInv
  <1>1. CASE (ViewerStarts \/ ViewerContinues) /\ UNCHANGED pageVars
    <2>1. ClientNext(Viewer)
      BY <1>1, ViewerStartsOperation DEF ViewerContinues, ClientNext
    <2> QED
      BY <1>1, <2>1, ViewerAssumption, AppPartStep, PageKept
  <1>2. CASE Succeed(Viewer) /\ BeginLoad(TRUE)
    <2>1. ClientNext(Viewer)
      BY <1>2 DEF ClientNext
    <2>2. AppPart' /\ shown \subseteq shown'
      BY <2>1, ViewerAssumption, AppPartStep
    <2> QED
      BY <1>2, <2>2, BeginLoadStep
  <1>3. CASE \E c \in Clients \ {Viewer} : ClientNext(c) /\ UNCHANGED pageVars
    BY <1>3, AppPartStep, PageKept
  <1>4. ASSUME UNCHANGED vars PROVE AppPart' /\ shown \subseteq shown'
    BY <1>4, AppPartStutter DEF vars, appVars
  <1>5. CASE Refresh /\ UNCHANGED vars
    BY <1>4, <1>5, BeginLoadStep DEF Refresh
  <1>6. CASE (\E l \in Loads : LoadStep(l)) /\ UNCHANGED vars
    BY <1>4, <1>6, LoadStepKeeps
  <1>7. CASE UNCHANGED allVars
    BY <1>4, <1>7, PageKept DEF allVars
  <1> QED
    BY <1>1, <1>2, <1>3, <1>5, <1>6, <1>7 DEF PageNext

\* and so it holds, whatever is written while the loads run.
THEOREM PageInvariantHolds == PageSpec => []PageIInv
  BY PageInitInvariant, PageStepInvariant, PTL DEF PageSpec

\* Whatever was written between its reads, a load displays a node only with an
\* owner and a status it had, and each node once (App.tsx, loadData).
THEOREM ViewsCorrect == PageSpec => []ViewsAreGenuine
  BY PageInvariantHolds, PTL DEF PageIInv, PagePart

\* When no load is running the page is displayed and can be refreshed, however
\* the loads overlapped and failed (App.tsx, the finally block of loadData).
THEOREM IdlePageCorrect == PageSpec => []IdlePageIsUsable
  BY PageInvariantHolds, PTL DEF PageIInv, PagePart

\* The page with its loads is an instance of the application: the viewer can do
\* what any user can, so what holds of Spec holds behind the page.
THEOREM PageImplementsApp == PageSpec => Spec
  <1>1. PageInit => Init
    BY DEF PageInit
  <1>2. PageIInv /\ [PageNext]_allVars => [Next]_vars
    BY PageNextIsNext DEF Next, allVars
  <1> QED
    BY <1>1, <1>2, PageInvariantHolds, PTL DEF PageSpec, Spec

----------------------------------------------------------------------------
\* Operations that do not overlap: a load knows the votes it will display

Votes(id) == GetData(NodeKey(id)).votes

\* Votes that were stored when they were read, and have only grown since
KnownVotes(before) == \A id \in DOMAIN before : id \in ListedNodes /\ before[id] <= Votes(id)
StoredEntries(list) == \A i \in DOMAIN list : list[i].id \in ListedNodes /\ list[i].votes <= Votes(list[i].id)

Covers(list, before, id) == \E i \in DOMAIN list : list[i].id = id /\ list[i].votes >= before[id]

\* What was listed when a load began is collected, or still to be read
LoadKnows(load) ==
    /\ KnownVotes(load.before) /\ StoredEntries(load.nodes)
    /\ load.at = "node" =>
           /\ Listed(load.todo) \subseteq ListedNodes
           /\ \A id \in DOMAIN load.before : id \in Listed(load.todo) \/ Covers(load.nodes, load.before, id)
    /\ load.at \in {"delegationList", "delegation"} =>
           \A id \in DOMAIN load.before : Covers(load.nodes, load.before, id)

PageKnows ==
    /\ \A id \in DOMAIN knownBefore : Covers(nodes, knownBefore, id)
    /\ StoredEntries(nodes)
    /\ \A l \in Loads : LoadKnows(loads[l])

VotesGrow ==
    /\ ListedNodes \subseteq ListedNodes'
    /\ \A id \in ListedNodes : Votes(id) <= Votes(id)'

\* No step of the registry forgets a node or takes votes from one.
LEMMA RegistryVotesGrow ==
    ASSUME IInv, IInv', RegistryStep
    PROVE  VotesGrow
  <1>1. ListedNodes \subseteq Ids /\ \A id \in ListedNodes : GetData(NodeKey(id)) \in NodeRecord
    BY EntryTypes
  <1>2. /\ RegistryNodes = [id \in ListedNodes |-> GetData(NodeKey(id))]
        /\ RegistryNodes' = [id \in ListedNodes' |-> GetData(NodeKey(id))']
    BY DEF RegistryNodes
  <1>3. /\ DOMAIN RegistryNodes = ListedNodes /\ DOMAIN RegistryNodes' = ListedNodes'
        /\ \A id \in ListedNodes : RegistryNodes[id] = GetData(NodeKey(id)) /\ RegistryNodes[id] \in NodeRecord
        /\ \A id \in ListedNodes' : RegistryNodes'[id].votes = Votes(id)'
    BY <1>1, <1>2 DEF Votes
  <1>4. ASSUME DOMAIN RegistryNodes \subseteq DOMAIN RegistryNodes',
               \A id \in DOMAIN RegistryNodes : RegistryNodes[id].votes <= RegistryNodes'[id].votes
        PROVE  VotesGrow
    BY <1>3, <1>4 DEF VotesGrow, Votes
  <1>5. \A id \in DOMAIN RegistryNodes : RegistryNodes[id].votes \in Nat
    BY <1>3 DEF NodeRecord
  <1>6. CASE RegistryNodes' = RegistryNodes
    BY <1>4, <1>5, <1>6
  <1>7. ASSUME NEW id \in Ids, NEW owner \in Clients, Registry!Register(id, owner) PROVE VotesGrow
    <2>1. /\ DOMAIN RegistryNodes' = DOMAIN RegistryNodes \cup {id} /\ id \notin DOMAIN RegistryNodes
          /\ \A n \in DOMAIN RegistryNodes : RegistryNodes'[n] = RegistryNodes[n]
      BY <1>7 DEF Registry!Register
    <2> QED
      BY <1>4, <1>5, <2>1
  <1>8. ASSUME NEW id \in Ids, NEW amount \in Amounts, Registry!AddVotes(id, amount) PROVE VotesGrow
    <2>1. /\ DOMAIN RegistryNodes' = DOMAIN RegistryNodes /\ amount \in Nat
          /\ \A n \in DOMAIN RegistryNodes : \/ RegistryNodes'[n] = RegistryNodes[n]
                                             \/ RegistryNodes'[n].votes = RegistryNodes[n].votes + amount
      BY <1>3, <1>8, ClientAssumption DEF Registry!AddVotes, NodeRecord
    <2> QED
      BY <1>4, <1>5, <2>1
  <1>9. ASSUME NEW id \in Ids, NEW status \in {"active", "inactive"}, Registry!SetStatus(id, status)
        PROVE  VotesGrow
    <2>1. /\ DOMAIN RegistryNodes' = DOMAIN RegistryNodes
          /\ \A n \in DOMAIN RegistryNodes : RegistryNodes'[n].votes = RegistryNodes[n].votes
      BY <1>3, <1>9 DEF Registry!SetStatus, NodeRecord
    <2> QED
      BY <1>4, <1>5, <2>1
  <1> QED
    BY <1>6, <1>7, <1>8, <1>9 DEF RegistryStep, Registry!Next, Registry!RecordDelegation

\* A listed node has a record, and so a number of votes.
LEMMA ListedVotes == IInv => \A id \in ListedNodes : Votes(id) \in Nat
  BY EntryTypes DEF Votes, NodeRecord

\* What is known stays known while votes grow.
LEMMA KnowsKept ==
    ASSUME IInv, IInv', VotesGrow
    PROVE  /\ \A list \in Seq(Entry) : StoredEntries(list) => StoredEntries(list)'
           /\ \A load \in Load : LoadKnows(load) => LoadKnows(load)'
  <1>1. \A id \in ListedNodes : Votes(id) \in Nat /\ Votes(id)' \in Nat /\ Votes(id) <= Votes(id)' /\ id \in ListedNodes'
    <2>1. IInv' => (\A id \in ListedNodes : Votes(id) \in Nat)'
      BY ListedVotes, PTL
    <2> QED
      BY <2>1, ListedVotes DEF VotesGrow
  <1>2. ASSUME NEW list \in Seq(Entry), StoredEntries(list) PROVE StoredEntries(list)'
    <2>1. \A i \in DOMAIN list : list[i] \in Entry
      OBVIOUS
    <2>2. \A i \in DOMAIN list : list[i].votes \in Nat
      BY <2>1 DEF Entry
    <2> QED
      BY <1>1, <1>2, <2>2 DEF StoredEntries
  <1>3. ASSUME NEW before \in VotesByNode, KnownVotes(before) PROVE KnownVotes(before)'
    <2>1. \A id \in DOMAIN before : before[id] \in Nat
      BY DEF VotesByNode
    <2> QED
      BY <1>1, <1>3, <2>1 DEF KnownVotes
  <1>4. ASSUME NEW load \in Load, LoadKnows(load) PROVE LoadKnows(load)'
    <2>1. load.nodes \in Seq(Entry) /\ load.before \in VotesByNode
      BY DEF Load
    <2>2. KnownVotes(load.before)' /\ StoredEntries(load.nodes)'
      BY <1>2, <1>3, <1>4, <2>1 DEF LoadKnows
    <2> QED
      BY <1>4, <2>2 DEF LoadKnows, VotesGrow
  <1> QED
    BY <1>2, <1>4

----------------------------------------------------------------------------
\* What the steps of a load do to what it knows

\* A load begins with the votes that are stored, and ends with nothing.
LEMMA BegunKnows ==
    ASSUME IInv, NEW awaited
    PROVE  LoadKnows(Begun(awaited)) /\ LoadKnows(Unused) /\ LoadKnows(Ended)
  <1>1. /\ Begun(awaited).at = "connect" /\ Begun(awaited).nodes = <<>> /\ Begun(awaited).before = StoredVotes
        /\ Unused.at = "none" /\ Unused.nodes = <<>> /\ Unused.before = <<>>
        /\ Ended.at = "ended" /\ Ended.nodes = <<>> /\ Ended.before = <<>>
    BY DEF Begun, Unused, Ended
  <1>2. \A id \in DisplayedNodes : id \in ListedNodes /\ Votes(id) \in Nat
    BY DisplayedType, ListedVotes DEF IInv, TypeOK
  <1>3. KnownVotes(StoredVotes) /\ KnownVotes(<<>>) /\ StoredEntries(<<>>)
    BY <1>2 DEF KnownVotes, StoredEntries, StoredVotes, Votes
  <1> QED
    BY <1>1, <1>3 DEF LoadKnows

\* A list is its first id and the rest.
LEMMA ListedTail ==
    ASSUME NEW list \in Seq(Ids), list # <<>>
    PROVE  /\ Head(list) \in Listed(list) /\ Listed(Tail(list)) \subseteq Listed(list)
           /\ \A id \in Listed(list) : id = Head(list) \/ id \in Listed(Tail(list))
           /\ Len(list) = 1 => Listed(Tail(list)) = {}
  <1>1. /\ Len(list) \in Nat /\ Len(list) >= 1 /\ DOMAIN list = 1 .. Len(list) /\ Head(list) = list[1]
        /\ DOMAIN Tail(list) = 1 .. Len(list) - 1
        /\ \A i \in 1 .. Len(list) - 1 : Tail(list)[i] = list[i + 1]
    OBVIOUS
  <1>2. Head(list) \in Listed(list) /\ Listed(Tail(list)) \subseteq Listed(list)
    BY <1>1 DEF Listed
  <1>3. ASSUME NEW id \in Listed(list), id # Head(list) PROVE id \in Listed(Tail(list))
    <2>1. PICK i \in 1 .. Len(list) : list[i] = id
      BY <1>1 DEF Listed
    <2>2. i - 1 \in 1 .. Len(list) - 1 /\ Tail(list)[i - 1] = id
      BY <1>1, <1>3, <2>1
    <2> QED
      BY <1>1, <2>2 DEF Listed
  <1> QED
    BY <1>1, <1>2, <1>3 DEF Listed

\* After the next id of the list, if what it told is collected or given up.
LEMMA KnowsNext ==
    ASSUME NEW load \in Load, load.at = "node", load.todo # <<>>, LoadKnows(load), NEW next,
           next.todo = Tail(load.todo), next.at = IF Len(load.todo) = 1 THEN "delegationList" ELSE "node",
           KnownVotes(next.before), StoredEntries(next.nodes),
           \A id \in DOMAIN next.before :
               \/ Covers(next.nodes, next.before, id)
               \/ id \in Listed(load.todo) /\ id # Head(load.todo)
    PROVE  LoadKnows(next)
  <1>1. load.todo \in Seq(Ids)
    BY DEF Load
  <1>2. Listed(next.todo) \subseteq ListedNodes
    BY <1>1, ListedTail DEF LoadKnows
  <1>3. \A id \in DOMAIN next.before : id \in Listed(next.todo) \/ Covers(next.nodes, next.before, id)
    BY <1>1, ListedTail
  <1>4. Len(load.todo) = 1 => Listed(next.todo) = {}
    BY <1>1, ListedTail
  <1> QED
    BY <1>2, <1>3, <1>4 DEF LoadKnows

\* The record of a listed node is collected with the votes it has.
LEMMA CollectedKnows ==
    ASSUME IInv, NEW load, LoadOK(load), load.at = "node", LoadKnows(load)
    PROVE  LoadKnows(NextNode(WithNode(load, Head(load.todo), GetData(NodeKey(Head(load.todo))))))
  <1> DEFINE id == Head(load.todo)
             record == GetData(NodeKey(id))
             entry == [id |-> id, address |-> record.address, votes |-> record.votes, status |-> record.status]
             longer == [load EXCEPT !.nodes = Append(@, entry)]
             next == NextNode(WithNode(load, id, record))
  <1> SUFFICES LoadKnows(next)
    OBVIOUS
  <1>1. /\ load \in Load /\ load.todo \in Seq(Ids) /\ load.todo # <<>> /\ load.nodes \in Seq(Entry)
        /\ load.before \in VotesByNode
    BY DEF LoadOK, Load, LoadIsGenuine
  <1>2. id \in Listed(load.todo) /\ id \in ListedNodes /\ id \in Ids
    BY <1>1, ListedTail, EntryTypes DEF LoadKnows
  <1>3. record \in NodeRecord /\ record # EmptyBytes
    BY <1>2, ListedAreStored, EntryTypes DEF ListedRecordsAreStored
  <1>4. entry \in Entry /\ entry.id = id /\ entry.votes = Votes(id)
    BY <1>2, <1>3 DEF NodeRecord, Entry, Votes
  <1>5. next = NextNode(longer)
    BY <1>3 DEF WithNode
  <1> HIDE DEF entry, record, id, next
  <1>6. longer \in Load /\ longer.todo = load.todo /\ longer.before = load.before
        /\ longer.nodes = Append(load.nodes, entry)
    <2>1. Append(load.nodes, entry) \in Seq(Entry)
      BY <1>1, <1>4
    <2> QED
      BY <1>1, <2>1 DEF Load
  <1> HIDE DEF longer
  <1>7. /\ next.todo = Tail(load.todo) /\ next.nodes = Append(load.nodes, entry)
        /\ next.at = IF Len(load.todo) = 1 THEN "delegationList" ELSE "node"
    BY <1>1, <1>5, <1>6, NextNodeFields
  <1>8. next.before = load.before
    BY <1>5, <1>6 DEF NextNode, Load
  <1>9. /\ DOMAIN load.nodes = 1 .. Len(load.nodes) /\ Len(load.nodes) \in Nat
        /\ DOMAIN next.nodes = 1 .. Len(load.nodes) + 1
        /\ \A k \in DOMAIN load.nodes : next.nodes[k] = load.nodes[k]
        /\ next.nodes[Len(load.nodes) + 1] = entry
    BY <1>1, <1>4, <1>7
  <1>10. \A k \in DOMAIN next.nodes : k \in DOMAIN load.nodes \/ k = Len(load.nodes) + 1
    BY <1>9
  <1>11. Votes(id) \in Nat
    BY <1>2, ListedVotes
  <1>12. StoredEntries(next.nodes)
    BY <1>2, <1>4, <1>9, <1>10, <1>11 DEF StoredEntries, LoadKnows
  <1>13. ASSUME NEW n \in DOMAIN load.before
         PROVE  \/ Covers(next.nodes, next.before, n)
                \/ n \in Listed(load.todo) /\ n # id
    <2>1. CASE n = id
      <3>1. load.before[id] <= Votes(id) /\ load.before[id] \in Nat
        BY <1>1, <2>1 DEF LoadKnows, KnownVotes, VotesByNode
      <3>2. entry.votes >= load.before[id]
        BY <1>4, <1>11, <3>1
      <3>3. Len(load.nodes) + 1 \in DOMAIN next.nodes
        BY <1>9
      <3> QED
        BY <1>4, <1>8, <1>9, <2>1, <3>2, <3>3 DEF Covers
    <2>2. CASE n # id
      BY <1>8, <1>9, <1>10, <2>2 DEF LoadKnows, Covers
    <2> QED
      BY <2>1, <2>2
  <1>14. KnownVotes(next.before)
    BY <1>8 DEF LoadKnows
  <1> QED
    BY <1>1, <1>7, <1>8, <1>12, <1>13, <1>14, KnowsNext DEF id

\* The read of a record throws: the load remembers no votes any more.
LEMMA SkippedKnows ==
    ASSUME NEW load, LoadOK(load), load.at = "node", LoadKnows(load)
    PROVE  LoadKnows([NextNode(load) EXCEPT !.before = <<>>])
  <1> DEFINE next == [NextNode(load) EXCEPT !.before = <<>>]
  <1>1. load \in Load /\ load.todo # <<>>
    BY DEF LoadOK, LoadIsGenuine
  <1>2. /\ NextNode(load) \in Load
        /\ NextNode(load).todo = Tail(load.todo) /\ NextNode(load).nodes = load.nodes
        /\ NextNode(load).at = IF Len(load.todo) = 1 THEN "delegationList" ELSE "node"
    BY <1>1, NextNodeFields
  <1>3. /\ next.todo = Tail(load.todo) /\ next.nodes = load.nodes /\ next.before = <<>>
        /\ next.at = IF Len(load.todo) = 1 THEN "delegationList" ELSE "node"
    BY <1>2 DEF Load
  <1> HIDE DEF next
  <1>4. KnownVotes(next.before) /\ StoredEntries(next.nodes) /\ DOMAIN next.before = {}
    BY <1>3 DEF LoadKnows, KnownVotes
  <1>5. LoadKnows(next)
    BY <1>1, <1>3, <1>4, KnowsNext
  <1> QED
    BY <1>5 DEF next

\* Sorting loses nothing.
LEMMA RankedKnows ==
    ASSUME NEW list \in Seq(Entry), StoredEntries(list)
    PROVE  /\ StoredEntries(Ranked(list))
           /\ \A before, id : Covers(list, before, id) => Covers(Ranked(list), before, id)
  <1> DEFINE n == Len(list)
  <1>1. n \in Nat /\ DOMAIN list = 1 .. n
    OBVIOUS
  <1>2. PICK p : Permutes(p, n) /\ \A k \in 1 .. n : Ranked(list)[k] = list[p[k]]
    BY <1>1, RankedPermutes
  <1>3. DOMAIN Ranked(list) = 1 .. n
    BY <1>1, RankedPermutes
  <1> HIDE DEF n
  <1>4. StoredEntries(Ranked(list))
    BY <1>1, <1>2, <1>3 DEF StoredEntries, Permutes
  <1>5. ASSUME NEW before, NEW id, Covers(list, before, id) PROVE Covers(Ranked(list), before, id)
    <2>1. PICK i \in 1 .. n : list[i].id = id /\ list[i].votes >= before[id]
      BY <1>1, <1>5 DEF Covers
    <2>2. PICK k \in 1 .. n : p[k] = i
      BY <1>2, <2>1 DEF Permutes
    <2> QED
      BY <1>2, <1>3, <2>1, <2>2 DEF Covers
  <1> QED
    BY <1>4, <1>5

----------------------------------------------------------------------------
\* What the steps of the page do to what it knows

\* While nothing is mined, what is known of the store stays known.
LEMMA KnowsStutter ==
    ASSUME UNCHANGED vars
    PROVE  /\ \A load : LoadKnows(load) => LoadKnows(load)'
           /\ \A list : StoredEntries(list) => StoredEntries(list)'
  <1>1. ListedNodes' = ListedNodes /\ \A id : Votes(id)' = Votes(id)
    BY DEF vars, appVars, ListedNodes, Votes, GetData
  <1>2. \A list : StoredEntries(list) => StoredEntries(list)'
    BY <1>1 DEF StoredEntries
  <1>3. \A before : KnownVotes(before) => KnownVotes(before)'
    BY <1>1 DEF KnownVotes
  <1> QED
    BY <1>1, <1>2, <1>3 DEF LoadKnows

\* An operation of the application keeps what the page knows.
LEMMA PageKnowsKept ==
    ASSUME IInv, IInv', PagePart, PageKnows, VotesGrow, UNCHANGED pageVars
    PROVE  PageKnows'
  <1>1. nodes \in Seq(Entry) /\ loads \in [Loads -> Load]
    BY DEF PagePart, PageTypeOK
  <1>2. UNCHANGED <<nodes, loads, knownBefore>>
    BY DEF pageVars
  <1>3. StoredEntries(nodes)'
    BY <1>1, <1>2, KnowsKept DEF PageKnows
  <1>4. \A l \in Loads : LoadKnows(loads[l])'
    BY <1>1, <1>2, KnowsKept DEF PageKnows
  <1> QED
    BY <1>2, <1>3, <1>4 DEF PageKnows

\* A load begins, maybe with the last step of an operation.
LEMMA BeginKnows ==
    ASSUME IInv, IInv', PagePart, PageKnows, VotesGrow, NEW awaited \in BOOLEAN, BeginLoad(awaited)
    PROVE  PageKnows'
  <1>1. nodes \in Seq(Entry) /\ loads \in [Loads -> Load]
    BY DEF PagePart, PageTypeOK
  <1>2. PICK l \in Loads : loads' = [loads EXCEPT ![l] = Begun(awaited)] /\ UNCHANGED <<nodes, knownBefore>>
    BY DEF BeginLoad
  <1>3. Begun(awaited) \in Load /\ LoadKnows(Begun(awaited))
    BY BegunIsOK, BegunKnows DEF IInv, LoadOK
  <1>4. \A k \in Loads : loads'[k] = IF k = l THEN Begun(awaited) ELSE loads[k]
    BY <1>1, <1>2
  <1>5. \A k \in Loads : loads'[k] \in Load /\ LoadKnows(loads'[k])
    BY <1>1, <1>3, <1>4 DEF PageKnows
  <1>6. \A k \in Loads : LoadKnows(loads[k])'
    BY <1>5, KnowsKept
  <1>7. StoredEntries(nodes)'
    BY <1>1, <1>2, KnowsKept DEF PageKnows
  <1> QED
    BY <1>2, <1>6, <1>7 DEF PageKnows

\* A load goes on with what it knows.
LEMMA AdvanceKnows ==
    ASSUME PagePart, PageKnows, UNCHANGED vars, NEW l \in Loads, NEW load, LoadKnows(load), Advance(l, load)
    PROVE  PageKnows'
  <1>1. loads \in [Loads -> Load]
    BY DEF PagePart, PageTypeOK
  <1>2. \A k \in Loads : loads'[k] = IF k = l THEN load ELSE loads[k]
    BY <1>1 DEF Advance
  <1>3. \A k \in Loads : LoadKnows(loads[k])'
    BY <1>2, KnowsStutter DEF PageKnows
  <1>4. UNCHANGED <<nodes, knownBefore>>
    BY DEF Advance
  <1>5. StoredEntries(nodes)'
    BY <1>4, KnowsStutter DEF PageKnows
  <1> QED
    BY <1>3, <1>4, <1>5 DEF PageKnows

\* A load ends with the page it found, or replaces it with one that misses
\* nothing.
LEMMA EndKnows ==
    ASSUME IInv, PagePart, PageKnows, UNCHANGED vars, NEW l \in Loads, EndLoad(l),
           StoredEntries(nodes'), \A id \in DOMAIN knownBefore' : Covers(nodes', knownBefore', id)
    PROVE  PageKnows'
  <1>1. loads \in [Loads -> Load] /\ LoadKnows(Ended)
    BY BegunKnows DEF PagePart, PageTypeOK
  <1>2. \A k \in Loads : loads'[k] = IF k = l THEN Ended ELSE loads[k]
    BY <1>1 DEF EndLoad
  <1>3. \A k \in Loads : LoadKnows(loads[k])'
    BY <1>1, <1>2, KnowsStutter DEF PageKnows
  <1>4. StoredEntries(nodes)'
    BY KnowsStutter
  <1> QED
    BY <1>3, <1>4 DEF PageKnows

\* All it collected is displayed at once.
LEMMA DisplayKnows ==
    ASSUME IInv, PagePart, PageKnows, UNCHANGED vars, NEW l \in Loads, NEW load, load \in Load,
           LoadKnows(load), load.at \in {"delegationList", "delegation"}, Display(l, load)
    PROVE  PageKnows'
  <1>1. load.nodes \in Seq(Entry) /\ StoredEntries(load.nodes)
    BY DEF Load, LoadKnows
  <1>2. nodes' = Ranked(load.nodes) /\ knownBefore' = load.before /\ EndLoad(l)
    BY DEF Display
  <1>3. StoredEntries(nodes') /\ \A id \in DOMAIN knownBefore' : Covers(nodes', knownBefore', id)
    BY <1>1, <1>2, RankedKnows DEF LoadKnows
  <1> QED
    BY <1>2, <1>3, EndKnows

\* Every step of a load.
LEMMA LoadStepKnows ==
    ASSUME IInv, PagePart, PageKnows, UNCHANGED vars, NEW l \in Loads, LoadStep(l)
    PROVE  PageKnows'
  <1> DEFINE load == loads[l]
  <1>1. LoadOK(load) /\ load \in Load /\ load.todo \in Seq(Ids) /\ LoadKnows(load)
    BY DEF PagePart, PageTypeOK, LoadOK, Load, PageKnows
  <1>2. ASSUME NEW next, next.nodes = load.nodes, next.before = load.before,
               load.at \in {"delegationList", "delegation"},
               next.at \in {"delegationList", "delegation"}
        PROVE  LoadKnows(next)
    BY <1>1, <1>2 DEF LoadKnows
  <1>3. CASE Connect(l)
    <2> DEFINE next == [load EXCEPT !.at = "nodeList"]
    <2>1. next.at = "nodeList" /\ next.nodes = load.nodes /\ next.before = load.before
      BY <1>1 DEF Load
    <2>2. LoadKnows(next)
      BY <1>1, <2>1 DEF LoadKnows
    <2> QED
      BY <1>3, <2>2, AdvanceKnows DEF Connect
  <1>4. CASE AbandonLoad(l)
    BY <1>4, EndKnows DEF AbandonLoad, PageKnows
  <1>5. CASE LoadNodeList(l)
    <2> DEFINE list == GetData(NodeListKey)
               stage == IF list = <<>> THEN "delegationList" ELSE "node"
               next == [load EXCEPT !.todo = list, !.at = stage]
    <2>1. Advance(l, next)
      BY <1>5 DEF LoadNodeList
    <2>2. /\ next.todo = list /\ next.at = stage /\ next.nodes = load.nodes /\ next.before = load.before
      BY <1>1 DEF Load
    <2>3. ListedNodes = Listed(list) /\ (list = <<>> => Listed(list) = {})
      BY DEF ListedNodes, Listed
    <2>4. DOMAIN load.before \subseteq ListedNodes /\ KnownVotes(load.before) /\ StoredEntries(load.nodes)
      BY <1>1 DEF LoadKnows, KnownVotes
    <2>5. LoadKnows(next)
      <3> HIDE DEF next, list
      <3> QED
        BY <2>2, <2>3, <2>4 DEF LoadKnows
    <2> QED
      BY <2>1, <2>5, AdvanceKnows
  <1>6. CASE LoadNode(l)
    BY <1>1, <1>6, CollectedKnows, AdvanceKnows DEF LoadNode
  <1>7. CASE SkipNode(l)
    BY <1>1, <1>7, SkippedKnows, AdvanceKnows DEF SkipNode
  <1>8. CASE LoadDelegationList(l)
    <2> DEFINE list == GetData(DelegationListKey)
               next == [load EXCEPT !.todo = list, !.at = "delegation"]
    <2>1. load.at = "delegationList"
      BY <1>8 DEF LoadDelegationList
    <2>2. CASE list = <<>>
      BY <1>1, <1>8, <2>1, <2>2, DisplayKnows DEF LoadDelegationList
    <2>3. CASE list # <<>>
      <3>1. next.nodes = load.nodes /\ next.before = load.before /\ next.at = "delegation"
        BY <1>1 DEF Load
      <3>2. LoadKnows(next)
        BY <1>2, <2>1, <3>1
      <3> QED
        BY <1>8, <2>3, <3>2, AdvanceKnows DEF LoadDelegationList
    <2> QED
      BY <2>2, <2>3
  <1>9. ASSUME NEW next, next \in Load, next.nodes = load.nodes, next.before = load.before,
               load.at = "delegation", next.at = "delegation", NextDelegation(l, next)
        PROVE  PageKnows'
    <2>1. LoadKnows(next)
      BY <1>2, <1>9
    <2>2. CASE Len(next.todo) = 1
      BY <1>9, <2>1, <2>2, DisplayKnows DEF NextDelegation
    <2>3. CASE Len(next.todo) # 1
      <3> DEFINE rest == [next EXCEPT !.todo = Tail(@)]
      <3>1. rest.nodes = load.nodes /\ rest.before = load.before /\ rest.at = "delegation"
        BY <1>9 DEF Load
      <3>2. LoadKnows(rest)
        BY <1>2, <1>9, <3>1
      <3> QED
        BY <1>9, <2>3, <3>2, AdvanceKnows DEF NextDelegation
    <2> QED
      BY <2>2, <2>3
  <1>10. CASE LoadDelegation(l)
    <2> DEFINE id == Head(load.todo)
               record == GetData(DelegationKey(id))
               next == WithDelegation(load, record)
    <2>1. load.at = "delegation" /\ NextDelegation(l, next) /\ load.todo # <<>>
      BY <1>1, <1>10 DEF LoadDelegation, LoadOK, LoadIsGenuine
    <2>2. record = EmptyBytes \/ record \in DelegationRecord
      BY <1>1, <2>1, StoreType DEF IInv, TypeOK, GetData, IsStored
    <2> HIDE DEF record
    <2>3. next \in Load /\ next.nodes = load.nodes /\ next.before = load.before /\ next.at = "delegation"
      <3>1. CASE record = EmptyBytes
        BY <1>1, <2>1, <3>1 DEF WithDelegation
      <3>2. CASE record # EmptyBytes
        <4>1. Append(load.delegations, record) \in Seq(DelegationRecord)
          BY <1>1, <2>2, <3>2 DEF Load
        <4>2. next = [load EXCEPT !.delegations = Append(load.delegations, record)]
          BY <3>2 DEF WithDelegation
        <4> HIDE DEF next
        <4> QED
          BY <1>1, <2>1, <4>1, <4>2 DEF Load
      <3> QED
        BY <3>1, <3>2
    <2> HIDE DEF next
    <2> QED
      BY <1>9, <2>1, <2>3
  <1>11. CASE SkipDelegation(l)
    BY <1>1, <1>9, <1>11 DEF SkipDelegation
  <1> QED
    BY <1>3, <1>4, <1>5, <1>6, <1>7, <1>8, <1>10, <1>11 DEF LoadStep

\* At first nothing is displayed, and the first loads begin.
LEMMA KnowsInit == PageInit => SerialInv /\ PageKnows
  <1> SUFFICES ASSUME PageInit PROVE SerialInv /\ PageKnows
    OBVIOUS
  <1>1. SerialInv
    BY InitInvariant, SerialInit DEF PageInit, SerialInv
  <1>2. LoadKnows(Begun(FALSE)) /\ LoadKnows(Unused)
    BY <1>1, BegunKnows DEF SerialInv
  <1>3. \A l \in Loads : LoadKnows(loads[l])
    BY <1>2 DEF PageInit
  <1>4. nodes = <<>> /\ knownBefore = <<>> /\ DOMAIN <<>> = {}
    BY DEF PageInit
  <1> QED
    BY <1>1, <1>3, <1>4 DEF PageKnows, StoredEntries

\* Every step keeps the order of the application and what the page knows.
LEMMA KnowsStep ==
    ASSUME Serialised, SerialInv, PageIInv, PageIInv', PageKnows, [PageNext]_allVars
    PROVE  SerialInv' /\ PageKnows'
  <1>1. IInv /\ IInv' /\ PagePart /\ AppPart
    BY DEF PageIInv, AppPart
  <1>2. ASSUME NEW c \in Clients, ClientNext(c) PROVE SerialInv' /\ VotesGrow
    BY <1>1, <1>2, SerialStep, RegistryVotesGrow
  <1>3. ASSUME UNCHANGED vars PROVE SerialInv' /\ VotesGrow
    BY <1>1, <1>3, SerialStutter, RegistryVotesGrow
  <1>4. CASE (ViewerStarts \/ ViewerContinues) /\ UNCHANGED pageVars
    <2>1. ClientNext(Viewer)
      BY <1>1, <1>4, ViewerStartsOperation DEF ViewerContinues, ClientNext
    <2> QED
      BY <1>1, <1>2, <1>4, <2>1, ViewerAssumption, PageKnowsKept
  <1>5. CASE Succeed(Viewer) /\ BeginLoad(TRUE)
    <2>1. ClientNext(Viewer)
      BY <1>5 DEF ClientNext
    <2> QED
      BY <1>1, <1>2, <1>5, <2>1, ViewerAssumption, BeginKnows
  <1>6. CASE \E c \in Clients \ {Viewer} : ClientNext(c) /\ UNCHANGED pageVars
    BY <1>1, <1>2, <1>6, PageKnowsKept
  <1>7. CASE Refresh /\ UNCHANGED vars
    BY <1>1, <1>3, <1>7, BeginKnows DEF Refresh
  <1>8. CASE (\E l \in Loads : LoadStep(l)) /\ UNCHANGED vars
    BY <1>1, <1>3, <1>8, LoadStepKnows
  <1>9. CASE UNCHANGED allVars
    BY <1>1, <1>3, <1>9, PageKnowsKept DEF allVars
  <1> QED
    BY <1>4, <1>5, <1>6, <1>7, <1>8, <1>9 DEF PageNext

\* If operations do not overlap, a load that met no error displays every node
\* that was listed when it began, with at least the votes it had then, and no
\* load displays more votes than are stored (App.tsx, loadData).
THEOREM LoadsCorrect == Serialised => (PageSpec => []LoadsMissNothing)
  <1> SUFFICES ASSUME Serialised PROVE PageSpec => []LoadsMissNothing
    OBVIOUS
  <1>1. SerialInv /\ PageIInv /\ PageIInv' /\ PageKnows /\ [PageNext]_allVars => SerialInv' /\ PageKnows'
    BY KnowsStep
  <1>2. PageKnows => LoadsMissNothing
    BY DEF PageKnows, Covers, StoredEntries, Votes, LoadsMissNothing
  <1> QED
    BY <1>1, <1>2, KnowsInit, PageInvariantHolds, PTL DEF PageSpec

\* The displayed registry behind the page is the abstract one as well.
THEOREM PageImplementsRegistry == Serialised => (PageSpec => ImplementsRegistry)
  BY PageImplementsApp, RegistryImplemented, PTL
=============================================================================

------------------------------ MODULE PageLoad ------------------------------
(***************************************************************************)
(* The read side of the web application: loadData of App.tsx in the tab of *)
(* one user, the viewer, while this and other users' operations write.     *)
(*                                                                         *)
(* A load reads a list, then each record it names, one await after the     *)
(* other, and replaces the displayed nodes and delegations at its end.     *)
(* Loads may overlap: nothing stops a load when another one begins.        *)
(***************************************************************************)
EXTENDS GovernanceApp, FiniteSets

CONSTANTS
    Viewer,      \* the client whose page is modelled
    MountLoads,  \* loads begun when the page is mounted: 2 in React's StrictMode
    MaxLoads     \* bound on the loads of the page

ASSUME ViewerAssumption == Viewer \in Clients
ASSUME LoadAssumption == MaxLoads \in Nat /\ MountLoads \in 1 .. MaxLoads

VARIABLES
    loads,        \* the calls of loadData, by number: where each is, and its locals
    nodes,        \* the displayed nodes, ranked
    delegations,  \* the displayed delegations
    isRefreshing, \* the Refresh button shows "Refreshing..." and is disabled
    loading,      \* the loading screen is displayed instead of the page
    knownBefore   \* node id -> votes, when the displaying load began; all of
                  \* them only if that load met no error

pageVars == <<loads, nodes, delegations, isRefreshing, loading, knownBefore>>
allVars == <<vars, pageVars>>

Loads == 1 .. MaxLoads
Running(l) == loads[l].at \notin {"none", "ended"}

StoredVotes == [id \in DisplayedNodes |-> GetData(NodeKey(id)).votes]

Unused == [at |-> "none", todo |-> <<>>, nodes |-> <<>>, delegations |-> <<>>,
           awaited |-> FALSE, before |-> <<>>]
Ended == [Unused EXCEPT !.at = "ended"]
Begun(awaited) == [Unused EXCEPT !.at = "connect", !.awaited = awaited, !.before = StoredVotes]

PageInit ==
    /\ Init
    /\ loads = [l \in Loads |-> IF l <= MountLoads THEN Begun(FALSE) ELSE Unused]
    /\ nodes = <<>> /\ delegations = <<>>
    /\ isRefreshing = TRUE
    /\ loading = TRUE
    /\ knownBefore = <<>>

----------------------------------------------------------------------------
\* The steps of one load

\* The next unused call begins; a handler awaits the load it begins
BeginLoad(awaited) ==
    \E l \in Loads :
        /\ loads[l].at = "none" /\ \A k \in 1 .. l - 1 : loads[k].at # "none"
        /\ loads' = [loads EXCEPT ![l] = Begun(awaited)]
        /\ isRefreshing' = TRUE
        /\ UNCHANGED <<nodes, delegations, loading, knownBefore>>

\* The finally block, in whichever way the load ends
\* Mutant: setIsRefreshing(false) is missing
EndShowingRefresh(l) ==
    /\ loads' = [loads EXCEPT ![l] = Ended]
    /\ isRefreshing' = isRefreshing
    /\ loading' = FALSE
EndLoad(l) ==
    /\ loads' = [loads EXCEPT ![l] = Ended]
    /\ isRefreshing' = FALSE
    /\ loading' = FALSE

\* nodeList.sort by votes, most first; Array.prototype.sort is stable
Ranked(list) ==
    LET Before(i, j) == list[i].votes > list[j].votes \/ (list[i].votes = list[j].votes /\ i < j)
        Place(i) == 1 + Cardinality({j \in DOMAIN list : Before(j, i)})
    IN  [k \in DOMAIN list |-> list[CHOOSE i \in DOMAIN list : Place(i) = k]]

Advance(l, load) ==
    /\ loads' = [loads EXCEPT ![l] = load]
    /\ UNCHANGED <<nodes, delegations, isRefreshing, loading, knownBefore>>

\* After the last record: everything read is displayed at once
Display(l, load) ==
    /\ nodes' = Ranked(load.nodes)
    /\ delegations' = load.delegations
    /\ knownBefore' = load.before
    /\ EndLoad(l)

\* getContractReadOnly returns a contract; isAvailable answers
Connect(l) ==
    /\ loads[l].at = "connect"
    /\ Advance(l, [loads[l] EXCEPT !.at = "nodeList"])

\* Mutant: the early returns come before the try block
LeaveLoad(l) ==
    /\ loads[l].at \in {"connect", "nodeList", "delegationList"}
    /\ loads' = [loads EXCEPT ![l] = Ended]
    /\ UNCHANGED <<nodes, delegations, isRefreshing, loading, knownBefore>>
\* getContractReadOnly returns null, or isAvailable or the read of a list
\* throws: the load ends and the page stays as it is
AbandonLoad(l) ==
    /\ loads[l].at \in {"connect", "nodeList", "delegationList"}
    /\ EndLoad(l)
    /\ UNCHANGED <<nodes, delegations, knownBefore>>

LoadNodeList(l) ==
    /\ loads[l].at = "nodeList"
    /\ LET list == GetData(NodeListKey)
       IN  Advance(l, [loads[l] EXCEPT !.todo = list,
                                       !.at = IF list = <<>> THEN "delegationList" ELSE "node"])

\* A record that was read is appended to the load's locals, unless it is empty
\* Mutant: the address is the account's, as in registerNode
WithAccountAddress(load, id, record) ==
    [load EXCEPT !.nodes = Append(@, [id |-> id, address |-> Viewer,
                                      votes |-> record.votes, status |-> record.status])]
WithNode(load, id, record) ==
    IF record = EmptyBytes THEN load
    ELSE [load EXCEPT !.nodes = Append(@, [id |-> id, address |-> record.address,
                                           votes |-> record.votes, status |-> record.status])]
WithDelegation(load, record) ==
    IF record = EmptyBytes THEN load ELSE [load EXCEPT !.delegations = Append(@, record)]

\* Mutant: the loop stops before the last id
NextNodeButLast(load) ==
    [load EXCEPT !.todo = Tail(@), !.at = IF Len(load.todo) <= 2 THEN "delegationList" ELSE "node"]
NextNode(load) ==
    [load EXCEPT !.todo = Tail(@), !.at = IF Len(load.todo) = 1 THEN "delegationList" ELSE "node"]

LoadNode(l) ==
    /\ loads[l].at = "node"
    /\ LET id == Head(loads[l].todo)
       IN  Advance(l, NextNode(WithNode(loads[l], id, GetData(NodeKey(id)))))

\* The read of one record throws: the record is skipped, the load goes on
SkipNode(l) ==
    /\ loads[l].at = "node"
    /\ Advance(l, [NextNode(loads[l]) EXCEPT !.before = <<>>])

LoadDelegationList(l) ==
    /\ loads[l].at = "delegationList"
    /\ LET list == GetData(DelegationListKey)
       IN  IF list = <<>> THEN Display(l, loads[l])
           ELSE Advance(l, [loads[l] EXCEPT !.todo = list, !.at = "delegation"])

NextDelegation(l, load) ==
    IF Len(load.todo) = 1 THEN Display(l, load)
    ELSE Advance(l, [load EXCEPT !.todo = Tail(@)])

LoadDelegation(l) ==
    /\ loads[l].at = "delegation"
    /\ LET id == Head(loads[l].todo)
       IN  NextDelegation(l, WithDelegation(loads[l], GetData(DelegationKey(id))))

SkipDelegation(l) ==
    /\ loads[l].at = "delegation"
    /\ NextDelegation(l, loads[l])

LoadStep(l) ==
    \/ Connect(l) \/ AbandonLoad(l)
    \/ LoadNodeList(l) \/ LoadNode(l) \/ SkipNode(l)
    \/ LoadDelegationList(l) \/ LoadDelegation(l) \/ SkipDelegation(l)

----------------------------------------------------------------------------
\* The page and its user

\* The page is displayed and no overlay of a handler covers it
Usable ==
    /\ ~ loading
    /\ pc[Viewer] = "idle"
    /\ \A l \in Loads : Running(l) => ~ loads[l].awaited

Refresh ==
    /\ Usable /\ ~ isRefreshing
    /\ BeginLoad(FALSE)

\* The viewer's buttons are those of the displayed nodes
ViewerStarts ==
    /\ Usable
    /\ \/ RegisterNode(Viewer)
       \/ \E i \in DOMAIN nodes, amount \in Amounts : DelegateVotes(Viewer, nodes[i].id, amount)
       \/ \E i \in DOMAIN nodes :
              /\ nodes[i].status = "pending" /\ IsNodeOwner(Viewer, nodes[i].address)
              /\ ActivateNode(Viewer, nodes[i].id)
       \/ \E i \in DOMAIN nodes :
              /\ nodes[i].status = "active" /\ IsNodeOwner(Viewer, nodes[i].address)
              /\ DeactivateNode(Viewer, nodes[i].id)

ViewerContinues ==
    \/ SendNode(Viewer) \/ ReadNodeList(Viewer) \/ SendNodeList(Viewer)
    \/ ReadNode(Viewer) \/ SendVotes(Viewer) \/ SendDelegation(Viewer)
    \/ ReadDelegationList(Viewer) \/ SendDelegationList(Viewer) \/ SendStatus(Viewer)
    \/ Fail(Viewer) \/ Mine(Viewer)

PageNext ==
    \/ (ViewerStarts \/ ViewerContinues) /\ UNCHANGED pageVars
    \/ Succeed(Viewer) /\ BeginLoad(TRUE)   \* "await loadData()"
    \/ \E c \in Clients \ {Viewer} : ClientNext(c) /\ UNCHANGED pageVars
    \/ (Refresh \/ \E l \in Loads : LoadStep(l)) /\ UNCHANGED vars

PageSpec == PageInit /\ [][PageNext]_allVars

\* A call to the chain's RPC node answers or throws
LoadFairness == \A l \in Loads : WF_pageVars(LoadStep(l))

FairPageSpec == PageSpec /\ LoadFairness

----------------------------------------------------------------------------
\* Properties

\* Whatever was written between its reads, a load displays a node only with an
\* owner and a status that node had, and at most once: the page never offers a
\* button for a combination that no record held.
ViewsAreGenuine ==
    /\ \A i \in DOMAIN nodes :
           [node |-> nodes[i].id, address |-> nodes[i].address, status |-> nodes[i].status] \in shown
    /\ \A i, j \in DOMAIN nodes : nodes[i].id = nodes[j].id => i = j

\* However loads overlap and fail, once none is running the page is displayed
\* and can be refreshed.
IdlePageIsUsable ==
    (\A l \in Loads : ~ Running(l)) => ~ isRefreshing /\ ~ loading

\* If operations do not overlap, a load that met no error displays every node
\* that was listed when it began, with at least the votes it had then, and no
\* load displays more votes than are stored.
LoadsMissNothing ==
    /\ \A id \in DOMAIN knownBefore :
           \E i \in DOMAIN nodes : nodes[i].id = id /\ nodes[i].votes >= knownBefore[id]
    /\ \A i \in DOMAIN nodes : nodes[i].votes <= GetData(NodeKey(nodes[i].id)).votes

\* The page never shows "Refreshing..." for ever.
RefreshingEnds == isRefreshing ~> ~ isRefreshing
=============================================================================

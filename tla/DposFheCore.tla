---------------------------- MODULE DposFheCore ----------------------------
(***************************************************************************)
(* The governance contract contracts/DposFheCore.sol.  Every public        *)
(* function that changes storage is one action: a transaction runs alone   *)
(* and either commits as a whole or reverts, and a revert is a stutter.    *)
(* The FHE library, the decryption oracle and the KMS that answers it are  *)
(* outside the repository and are modelled from how the contract uses      *)
(* them.                                                                   *)
(*                                                                         *)
(* A ciphertext handle of type euint64 is a record: "terms" identifies the *)
(* handle by the delegations added into it, "value" is what the ciphertext *)
(* decrypts to.  The contract itself never looks at "value".               *)
(***************************************************************************)
EXTENDS Integers, Sequences, FiniteSets, FiniteSetsExt

CONSTANTS
    Hashes,         \* uint256 hashes that stand for accounts and validators
    Ciphertexts,    \* opaque handles clients submit (stake amounts, choices)
    Euint32Size,    \* 2^32 in the code
    Euint64Size,    \* 2^64 in the code
    NoHandle,       \* the zero handle of a never written mapping entry
    MaxStakes,      \* bound on submitted stakes
    MaxDelegations, \* bound on submitted delegations
    MaxVotes,       \* bound on submitted votes
    MaxProposals,   \* bound on created proposals
    MaxRequests,    \* bound on decryption requests
    MaxDeliveries,  \* bound on completions of one request (callbacks replay)
    MaxTime,        \* bound on block.timestamp
    MaxEther        \* bound on the ether sent to the contract

Euint32 == 0 .. Euint32Size - 1
Handle64 == [terms : SUBSET (1 .. MaxDelegations), value : 0 .. Euint64Size - 1]

ASSUME WidthAssumption ==
    /\ Euint32Size \in Nat \ {0}
    /\ Euint64Size = Euint32Size * Euint32Size

ASSUME BoundAssumption ==
    /\ {MaxStakes, MaxDelegations, MaxVotes, MaxProposals} \subseteq Nat
    /\ {MaxRequests, MaxDeliveries, MaxTime, MaxEther} \subseteq Nat

ASSUME HandleAssumption == NoHandle \notin Handle64

VARIABLES
    proposalCount, proposals,
    stakeEntryCount, encryptedStakes,
    delegationCount, encryptedDelegations,
    voteCount, encryptedVotes,
    encryptedValidatorWeight,
    decryptionRequestPurpose,  \* request id -> purpose, only where it is set
    counterRequest,            \* FHE library: next request id
    requestedHandles,          \* FHE library: request id -> list of handles
    kmsSigned,                 \* handle lists whose decryption the KMS signed
    log,                       \* the decryption events, in emission order
    now,                       \* block.timestamp
    balance                    \* the contract's ether

recordVars == <<proposalCount, proposals, stakeEntryCount, encryptedStakes,
                delegationCount, encryptedDelegations, voteCount, encryptedVotes>>
requestVars == <<decryptionRequestPurpose, counterRequest, requestedHandles, log>>
vars == <<recordVars, encryptedValidatorWeight, requestVars, kmsSigned, now, balance>>

----------------------------------------------------------------------------
\* Types

EncryptedStake == [ownerHash : Hashes, amount : Ciphertexts]
EncryptedDelegation == [delegatorHash : Hashes, delegateeHash : Hashes,
                        encryptedWeight : Euint32, timestamp : 0 .. MaxTime]
EncryptedVote == [voterHash : Hashes, proposalId : 1 .. MaxProposals,
                  encryptedChoice : Ciphertexts, timestamp : 0 .. MaxTime]
Proposal == [id : 1 .. MaxProposals, createdAt : 0 .. MaxTime, active : BOOLEAN]

\* keccak256 of the tag, the subject and the block's timestamp, as the triple
Purpose == [tag : {"validator_weight"}, subject : Hashes, time : 0 .. MaxTime]
           \cup
           [tag : {"proposal_votes"}, subject : 1 .. MaxProposals, time : 0 .. MaxTime]

\* A bytes32[] of handles is a function on indices, read in index order: the
\* index of the vote a choice was submitted with, or 1 for a single weight.
Partial(S, T) == UNION {[D -> T] : D \in SUBSET S}
HandleLists == Partial({1}, Handle64) \cup Partial(1 .. MaxVotes, Ciphertexts)

Event == [event : {"DecryptionRequested", "DecryptionCompleted"},
          requestId : 0 .. MaxRequests - 1, purpose : Purpose]

----------------------------------------------------------------------------
\* Helpers

\* Writing one entry of a mapping
Put(f, k, v) == [x \in DOMAIN f \cup {k} |-> IF x = k THEN v ELSE f[x]]

IsInitialized(handle) == handle # NoHandle
EncryptedZero == [terms |-> {}, value |-> 0]
PromoteEuint32(idx, weight) == [terms |-> {idx}, value |-> weight]
FheAdd(a, b) == [terms |-> a.terms \cup b.terms,
                 value |-> (a.value + b.value) % Euint64Size]

\* The validator's total once delegation idx is credited
\* Mutant: every delegation starts again from an encrypted zero
RestartedTotal(total, idx, weight) == FheAdd(EncryptedZero, PromoteEuint32(idx, weight))
\* Mutant: the addition is the else branch of the initialisation
FirstOnlyTotal(total, idx, weight) ==
    IF IsInitialized(total) THEN total ELSE FheAdd(EncryptedZero, PromoteEuint32(idx, weight))
\* Mutant: the addition is made in euint32, and its result is promoted
NarrowTotal(total, idx, weight) ==
    LET sum == FheAdd(IF IsInitialized(total) THEN total ELSE EncryptedZero, PromoteEuint32(idx, weight))
    IN  [sum EXCEPT !.value = @ % Euint32Size]
CreditedTotal(total, idx, weight) ==
    FheAdd(IF IsInitialized(total) THEN total ELSE EncryptedZero, PromoteEuint32(idx, weight))

\* Two lists hold the same handles in the same order
SameList(f, g) ==
    \E b \in [DOMAIN f -> DOMAIN g] :
        /\ \A j \in DOMAIN g : \E i \in DOMAIN f : b[i] = j
        /\ \A i, k \in DOMAIN f : i < k => b[i] < b[k]
        /\ \A i \in DOMAIN f : f[i] = g[b[i]]

\* Mutant: the bound of the require is off by one
NextProposalExists(proposalId) == proposalId # 0 /\ proposalId <= proposalCount + 1
ProposalExists(proposalId) == proposalId # 0 /\ proposalId <= proposalCount

\* Mutant: the loops stop before the last vote
VotesButLastFor(proposalId) ==
    {i \in 1 .. voteCount - 1 : encryptedVotes[i].proposalId = proposalId}
\* Mutant: to save gas the loops scan the last two votes only
RecentVotesFor(proposalId) ==
    {i \in 1 .. voteCount : i + 1 >= voteCount /\ encryptedVotes[i].proposalId = proposalId}
\* The votes the two loops of requestDecryptionForAggregatedVotes collect
VotesFor(proposalId) ==
    {i \in 1 .. voteCount : encryptedVotes[i].proposalId = proposalId}

HandlesSaved(requestId) ==
    requestId \in DOMAIN requestedHandles /\ DOMAIN requestedHandles[requestId] # {}

Completions(requestId) ==
    {k \in DOMAIN log : log[k].event = "DecryptionCompleted" /\ log[k].requestId = requestId}

----------------------------------------------------------------------------
Init ==
    /\ proposalCount = 0 /\ proposals = <<>>
    /\ stakeEntryCount = 0 /\ encryptedStakes = <<>>
    /\ delegationCount = 0 /\ encryptedDelegations = <<>>
    /\ voteCount = 0 /\ encryptedVotes = <<>>
    /\ encryptedValidatorWeight = [h \in Hashes |-> NoHandle]
    /\ decryptionRequestPurpose = <<>>
    /\ counterRequest = 0
    /\ requestedHandles = <<>>
    /\ kmsSigned = {}
    /\ log = <<>>
    /\ now = 0
    /\ balance = 0

SubmitEncryptedStake(encryptedAmount, ownerHash) ==
    /\ stakeEntryCount < MaxStakes
    /\ stakeEntryCount' = stakeEntryCount + 1
    /\ encryptedStakes' = Put(encryptedStakes, stakeEntryCount + 1,
                              [ownerHash |-> ownerHash, amount |-> encryptedAmount])
    /\ UNCHANGED <<proposalCount, proposals, delegationCount, encryptedDelegations,
                   voteCount, encryptedVotes, encryptedValidatorWeight,
                   requestVars, kmsSigned, now, balance>>

SubmitEncryptedDelegation(delegatorHash, delegateeHash, encryptedWeight) ==
    /\ delegationCount < MaxDelegations
    /\ delegationCount' = delegationCount + 1
    /\ encryptedDelegations' =
           Put(encryptedDelegations, delegationCount + 1,
               [delegatorHash |-> delegatorHash, delegateeHash |-> delegateeHash,
                encryptedWeight |-> encryptedWeight, timestamp |-> now])
    /\ encryptedValidatorWeight' =
           [encryptedValidatorWeight EXCEPT
               ![delegateeHash] = CreditedTotal(@, delegationCount + 1, encryptedWeight)]
    /\ UNCHANGED <<proposalCount, proposals, stakeEntryCount, encryptedStakes,
                   voteCount, encryptedVotes, requestVars, kmsSigned, now, balance>>

\* Mutant: a voter's second vote overwrites the first
OverwritingVote(voterHash, proposalId, encryptedChoice) ==
    /\ voteCount < MaxVotes
    /\ ProposalExists(proposalId)
    /\ LET own  == {i \in 1 .. voteCount : encryptedVotes[i].voterHash = voterHash}
           slot == IF own = {} THEN voteCount + 1 ELSE CHOOSE i \in own : TRUE
       IN  /\ voteCount' = IF own = {} THEN slot ELSE voteCount
           /\ encryptedVotes' = Put(encryptedVotes, slot,
                                    [voterHash |-> voterHash, proposalId |-> proposalId,
                                     encryptedChoice |-> encryptedChoice, timestamp |-> now])
    /\ UNCHANGED <<proposalCount, proposals, stakeEntryCount, encryptedStakes,
                   delegationCount, encryptedDelegations, encryptedValidatorWeight,
                   requestVars, kmsSigned, now, balance>>
SubmitEncryptedVote(voterHash, proposalId, encryptedChoice) ==
    /\ voteCount < MaxVotes
    /\ ProposalExists(proposalId)
    /\ voteCount' = voteCount + 1
    /\ encryptedVotes' = Put(encryptedVotes, voteCount + 1,
                             [voterHash |-> voterHash, proposalId |-> proposalId,
                              encryptedChoice |-> encryptedChoice, timestamp |-> now])
    /\ UNCHANGED <<proposalCount, proposals, stakeEntryCount, encryptedStakes,
                   delegationCount, encryptedDelegations, encryptedValidatorWeight,
                   requestVars, kmsSigned, now, balance>>

CreateProposal ==
    /\ proposalCount < MaxProposals
    /\ proposalCount' = proposalCount + 1
    /\ proposals' = Put(proposals, proposalCount + 1,
                        [id |-> proposalCount + 1, createdAt |-> now, active |-> TRUE])
    /\ UNCHANGED <<stakeEntryCount, encryptedStakes, delegationCount, encryptedDelegations,
                   voteCount, encryptedVotes, encryptedValidatorWeight,
                   requestVars, kmsSigned, now, balance>>

\* FHE.requestDecryption: the id is the counter, whose handles must be unsaved
FheRequestDecryption(handles) ==
    /\ counterRequest < MaxRequests
    /\ ~ HandlesSaved(counterRequest)
    /\ requestedHandles' = Put(requestedHandles, counterRequest, handles)
    /\ counterRequest' = counterRequest + 1

\* Mutant: the id is read after the library has moved its counter
PurposesWithNext(requestId, purpose) == Put(decryptionRequestPurpose, requestId + 1, purpose)
PurposesWith(requestId, purpose) == Put(decryptionRequestPurpose, requestId, purpose)

\* What both request functions do once the list and the purpose are built
FileRequest(handles, purpose) ==
    /\ FheRequestDecryption(handles)
    /\ decryptionRequestPurpose' = PurposesWith(counterRequest, purpose)
    /\ log' = Append(log, [event |-> "DecryptionRequested",
                           requestId |-> counterRequest, purpose |-> purpose])
    /\ UNCHANGED <<recordVars, encryptedValidatorWeight, kmsSigned, now, balance>>

RequestDecryptionForValidatorWeight(validatorHash) ==
    /\ IsInitialized(encryptedValidatorWeight[validatorHash])
    /\ FileRequest([j \in {1} |-> encryptedValidatorWeight[validatorHash]],
                   [tag |-> "validator_weight", subject |-> validatorHash, time |-> now])

\* Mutant: the require on found is missing
RequestEmptyTally(proposalId) ==
    /\ ProposalExists(proposalId)
    /\ FileRequest([i \in VotesFor(proposalId) |-> encryptedVotes[i].encryptedChoice],
                   [tag |-> "proposal_votes", subject |-> proposalId, time |-> now])
RequestDecryptionForAggregatedVotes(proposalId) ==
    /\ ProposalExists(proposalId)
    /\ VotesFor(proposalId) # {}
    /\ FileRequest([i \in VotesFor(proposalId) |-> encryptedVotes[i].encryptedChoice],
                   [tag |-> "proposal_votes", subject |-> proposalId, time |-> now])

\* The KMS decrypts a requested list and signs the cleartexts
KmsSign(requestId) ==
    /\ HandlesSaved(requestId)
    /\ requestedHandles[requestId] \notin kmsSigned
    /\ kmsSigned' = kmsSigned \cup {requestedHandles[requestId]}
    /\ UNCHANGED <<recordVars, encryptedValidatorWeight, requestVars, now, balance>>

\* FHE.checkSignatures verifies over the saved handles; the request id is not
\* part of what is signed
FheCheckSignatures(requestId) ==
    /\ HandlesSaved(requestId)
    /\ \E signed \in kmsSigned : SameList(signed, requestedHandles[requestId])

\* Mutant: the signatures are not checked before the purpose is looked up
UncheckedCallback(requestId) ==
    /\ requestId \in DOMAIN decryptionRequestPurpose
    /\ Cardinality(Completions(requestId)) < MaxDeliveries
    /\ log' = Append(log, [event |-> "DecryptionCompleted", requestId |-> requestId,
                           purpose |-> decryptionRequestPurpose[requestId]])
    /\ UNCHANGED <<recordVars, encryptedValidatorWeight, decryptionRequestPurpose,
                   counterRequest, requestedHandles, kmsSigned, now, balance>>
\* Anyone may call it, with any id, and again after it succeeded
OnDecryptCallback(requestId) ==
    /\ FheCheckSignatures(requestId)
    /\ requestId \in DOMAIN decryptionRequestPurpose
    /\ Cardinality(Completions(requestId)) < MaxDeliveries
    /\ log' = Append(log, [event |-> "DecryptionCompleted", requestId |-> requestId,
                           purpose |-> decryptionRequestPurpose[requestId]])
    /\ UNCHANGED <<recordVars, encryptedValidatorWeight, decryptionRequestPurpose,
                   counterRequest, requestedHandles, kmsSigned, now, balance>>

\* Mutant: the total is set to an encrypted zero instead of being deleted
ZeroingReset(validatorHashes) ==
    /\ encryptedValidatorWeight' =
           [h \in Hashes |-> IF h \in validatorHashes THEN EncryptedZero
                                                      ELSE encryptedValidatorWeight[h]]
    /\ UNCHANGED <<recordVars, requestVars, kmsSigned, now, balance>>
EmergencyResetWeights(validatorHashes) ==
    /\ encryptedValidatorWeight' =
           [h \in Hashes |-> IF h \in validatorHashes THEN NoHandle
                                                      ELSE encryptedValidatorWeight[h]]
    /\ UNCHANGED <<recordVars, requestVars, kmsSigned, now, balance>>

\* receive() and fallback(): ether is accepted and nothing else happens
AcceptEther ==
    /\ balance < MaxEther
    /\ balance' = balance + 1
    /\ UNCHANGED <<recordVars, encryptedValidatorWeight, requestVars, kmsSigned, now>>

\* A new block: block.timestamp grows
Tick ==
    /\ now < MaxTime
    /\ now' = now + 1
    /\ UNCHANGED <<recordVars, encryptedValidatorWeight, requestVars, kmsSigned, balance>>

Next ==
    \/ \E a \in Ciphertexts, h \in Hashes : SubmitEncryptedStake(a, h)
    \/ \E h, v \in Hashes, w \in Euint32 : SubmitEncryptedDelegation(h, v, w)
    \/ \E h \in Hashes, p \in 0 .. MaxProposals + 1, c \in Ciphertexts : SubmitEncryptedVote(h, p, c)
    \/ CreateProposal
    \/ \E v \in Hashes : RequestDecryptionForValidatorWeight(v)
    \/ \E p \in 0 .. MaxProposals + 1 : RequestDecryptionForAggregatedVotes(p)
    \/ \E r \in 0 .. MaxRequests : KmsSign(r)
    \/ \E r \in 0 .. MaxRequests : OnDecryptCallback(r)
    \/ \E S \in SUBSET Hashes : EmergencyResetWeights(S)
    \/ AcceptEther
    \/ Tick

Spec == Init /\ [][Next]_vars

\* The KMS signs what is asked and the relayer delivers it: the contract's
\* callback design assumes both.
RelayerFairness ==
    \A r \in 0 .. MaxRequests : WF_vars(KmsSign(r)) /\ WF_vars(OnDecryptCallback(r))

FairSpec == Spec /\ RelayerFairness

----------------------------------------------------------------------------
\* Properties

\* Every mapping is filled exactly up to its counter and holds records of its
\* type; no encrypted total leaves the range of euint64.
TypeOK ==
    /\ proposalCount \in 0 .. MaxProposals
    /\ proposals \in [1 .. proposalCount -> Proposal]
    /\ stakeEntryCount \in 0 .. MaxStakes
    /\ encryptedStakes \in [1 .. stakeEntryCount -> EncryptedStake]
    /\ delegationCount \in 0 .. MaxDelegations
    /\ encryptedDelegations \in [1 .. delegationCount -> EncryptedDelegation]
    /\ voteCount \in 0 .. MaxVotes
    /\ encryptedVotes \in [1 .. voteCount -> EncryptedVote]
    /\ encryptedValidatorWeight \in [Hashes -> Handle64 \cup {NoHandle}]
    /\ counterRequest \in 0 .. MaxRequests
    /\ decryptionRequestPurpose \in [0 .. counterRequest - 1 -> Purpose]
    /\ requestedHandles \in [0 .. counterRequest - 1 -> HandleLists]
    /\ kmsSigned \subseteq HandleLists
    /\ log \in Seq(Event)
    /\ now \in 0 .. MaxTime
    /\ balance \in 0 .. MaxEther

\* A vote names a proposal that had been created by the time the vote was cast
\* (submitEncryptedVote's require and createProposal's counter together).
VotesFollowProposals ==
    \A i \in 1 .. voteCount :
        LET p == encryptedVotes[i].proposalId
        IN  /\ p \in 1 .. proposalCount
            /\ proposals[p].createdAt <= encryptedVotes[i].timestamp

DelegationsTo(v) == {i \in 1 .. delegationCount : encryptedDelegations[i].delegateeHash = v}

\* The total of a validator counts delegations to that validator only, at
\* least one, and with one delegation every later one: an emergency reset cuts
\* off the past, never a delegation in between.
WeightCountsWholeSuffix ==
    \A v \in Hashes : IsInitialized(encryptedValidatorWeight[v]) =>
        LET terms == encryptedValidatorWeight[v].terms
        IN  /\ terms # {}
            /\ terms \subseteq DelegationsTo(v)
            /\ \A i \in terms, j \in DelegationsTo(v) : i < j => j \in terms

WeightOf(i) == encryptedDelegations[i].encryptedWeight

\* A validator's total decrypts to the sum of the weights it counts, modulo
\* 2^64; up to 2^32 + 1 delegations it cannot wrap, because a weight is
\* promoted from euint32 before it is added.
WeightDecryptsToSum ==
    \A v \in Hashes : IsInitialized(encryptedValidatorWeight[v]) =>
        LET total == encryptedValidatorWeight[v]
            sum   == MapThenSumSet(WeightOf, total.terms)
        IN  /\ total.value = sum % Euint64Size
            /\ Cardinality(total.terms) <= Euint32Size + 1 => total.value = sum

\* A total that stays recorded keeps all it had counted: only a reset takes a
\* delegation out, and it takes them all.
WeightOnlyGrowsOrIsErased ==
    [][\A v \in Hashes :
          IsInitialized(encryptedValidatorWeight[v]) =>
              \/ encryptedValidatorWeight'[v] = NoHandle
              \/ encryptedValidatorWeight[v].terms \subseteq encryptedValidatorWeight'[v].terms]_vars

\* A decryption request for a proposal's votes lists the proposal's ballots
\* only, each under its own handle, none cast after the block of the request,
\* and misses none cast before that block or before a ballot it lists.
BallotRequestIsComplete ==
    \A r \in DOMAIN decryptionRequestPurpose :
        LET purpose == decryptionRequestPurpose[r]
            list    == requestedHandles[r]
            cast    == {i \in 1 .. voteCount : encryptedVotes[i].proposalId = purpose.subject}
        IN  purpose.tag = "proposal_votes" =>
                /\ DOMAIN list # {} /\ DOMAIN list \subseteq cast
                /\ \A i \in DOMAIN list :
                       /\ list[i] = encryptedVotes[i].encryptedChoice
                       /\ encryptedVotes[i].timestamp <= purpose.time
                /\ \A i \in cast \ DOMAIN list :
                       /\ encryptedVotes[i].timestamp >= purpose.time
                       /\ \A j \in DOMAIN list : j < i

\* A decryption request for a validator's weight asks for one total, of
\* delegations to that validator made no later than the request's block, that
\* misses no delegation made in between.
WeightRequestIsComplete ==
    \A r \in DOMAIN decryptionRequestPurpose :
        LET purpose == decryptionRequestPurpose[r]
            list    == requestedHandles[r]
        IN  purpose.tag = "validator_weight" =>
                /\ DOMAIN list = {1}
                /\ list[1].terms # {} /\ list[1].terms \subseteq DelegationsTo(purpose.subject)
                /\ \A i \in list[1].terms :
                       /\ encryptedDelegations[i].timestamp <= purpose.time
                       /\ \A j \in DelegationsTo(purpose.subject) :
                              /\ i < j
                              /\ encryptedDelegations[j].timestamp < purpose.time
                              => j \in list[1].terms

\* Of two tally requests for the same proposal the later one lists every ballot
\* the earlier one lists, under the same handle.
LaterTallyExtendsEarlier ==
    \A r, s \in DOMAIN decryptionRequestPurpose :
        /\ r < s
        /\ decryptionRequestPurpose[r].tag = "proposal_votes"
        /\ decryptionRequestPurpose[s].tag = "proposal_votes"
        /\ decryptionRequestPurpose[r].subject = decryptionRequestPurpose[s].subject
        => \A i \in DOMAIN requestedHandles[r] :
               /\ i \in DOMAIN requestedHandles[s]
               /\ requestedHandles[s][i] = requestedHandles[r][i]

\* Each request id is announced once, in increasing order, and a completion
\* repeats the id and the purpose of a request announced before it.
CompletionsMatchRequests ==
    \A k \in DOMAIN log :
        LET earlier == {j \in DOMAIN log : j < k /\ log[j].event = "DecryptionRequested"}
        IN  IF log[k].event = "DecryptionRequested"
            THEN \A j \in earlier : log[j].requestId < log[k].requestId
            ELSE \E j \in earlier : /\ log[j].requestId = log[k].requestId
                                    /\ log[j].purpose = log[k].purpose

\* Nothing is announced as completed unless the KMS signed a decryption of
\* exactly the handles that were requested (comment at line 193: the function
\* must validate proofs before trusting cleartexts).
CompletionsAreSigned ==
    \A k \in DOMAIN log : log[k].event = "DecryptionCompleted" =>
        \E signed \in kmsSigned : SameList(signed, requestedHandles[log[k].requestId])

Extends(f, g) == \A x \in DOMAIN f : x \in DOMAIN g /\ g[x] = f[x]

\* Stakes, delegations, votes, proposals, and the handles and the purpose of a
\* request are written once: no transaction alters or removes one.
RecordsAreImmutable ==
    [][/\ Extends(proposals, proposals')
       /\ Extends(encryptedStakes, encryptedStakes')
       /\ Extends(encryptedDelegations, encryptedDelegations')
       /\ Extends(encryptedVotes, encryptedVotes')
       /\ Extends(decryptionRequestPurpose, decryptionRequestPurpose')
       /\ Extends(requestedHandles, requestedHandles')]_vars

\* With a fair KMS and relayer every request is answered by a completion: no
\* request is filed in a form the callback rejects.
EveryRequestAnswered ==
    \A r \in 0 .. MaxRequests - 1 : r < counterRequest ~> Completions(r) # {}

\* Documented, and false in the code: "Build homomorphic aggregation of votes
\* for the given proposal by summing encryptedChoice" (line 163) would make a
\* tally request ask for one ciphertext, the sum.
TallyRequestsOneSum ==
    \A r \in DOMAIN decryptionRequestPurpose :
        decryptionRequestPurpose[r].tag = "proposal_votes" =>
            Cardinality(DOMAIN requestedHandles[r]) = 1
=============================================================================

----------------------------- MODULE DposFheAcl -----------------------------
(***************************************************************************)
(* DposFheCore under the access-control list of the FHE executor, and with *)
(* the transactions the list depends on: a contract that calls DposFheCore *)
(* may make several calls in one transaction.                              *)
(*                                                                         *)
(* The executor computes only on handles the calling contract may use, and *)
(* allows it the result until the end of the transaction.  DposFheCore     *)
(* never makes such an allowance permanent (no FHE.allowThis follows the   *)
(* addition at line 104), so it may use a validator's total in the         *)
(* transaction that computed it and in no other.                           *)
(*                                                                         *)
(* A call the list refuses reverts and changes nothing: it is a stutter.   *)
(* So is a delegation whose own weight the contract may not use: the       *)
(* weights of SubmitAclDelegation are those that somebody let it use.      *)
(*                                                                         *)
(* A ballot may carry any handle, one this contract computes included:     *)
(* submitEncryptedVote takes what it is given, and encryptedValidatorWeight *)
(* is public.  So Ciphertexts may overlap Handle64, the handles the        *)
(* executor returns to this contract.  Each of its computations is taken   *)
(* to return a handle of its own.                                          *)
(***************************************************************************)
EXTENDS DposFheCore

CONSTANT MaxTransactions \* bound on transactions

ASSUME TransactionAssumption == MaxTransactions \in Nat \ {0}

\* Only who may use a handle may let others use it.  The contract lets nobody
\* use what it computes, so nobody can ever allow one of those handles.
ClientHandles == Ciphertexts \ Handle64

VARIABLES
    allowed,     \* ACL: handles the contract may use for ever
    transient,   \* ACL: handles it may use until the end of the transaction
    \* History
    tx,          \* number of the current transaction
    delegatedIn, \* the transaction of each delegation
    requestedIn, \* the transaction of each decryption request
    granted      \* handles whose owner ever let the contract use them

aclVars == <<allowed, transient, tx, delegatedIn, requestedIn, granted>>
allVars == <<vars, aclVars>>

AclInit ==
    /\ Init
    /\ allowed = {} /\ transient = {} /\ granted = {}
    /\ tx = 1
    /\ delegatedIn = <<>> /\ requestedIn = <<>>

----------------------------------------------------------------------------
MayUse(handle) == handle \in allowed \cup transient

\* The handles the executor returns while delegation idx is credited: an
\* encrypted zero if there is no total yet, the promoted weight and the sum
ResultsOf(total, idx, weight) ==
    {PromoteEuint32(idx, weight), CreditedTotal(total, idx, weight)}
    \cup IF IsInitialized(total) THEN {} ELSE {EncryptedZero}

\* ACL.allowForDecryption: refused as a whole if one handle may not be used
\* Mutant: only the first handle of the list is looked at
FirstMayBeDecrypted(handles) ==
    \E i \in DOMAIN handles : (\A j \in DOMAIN handles : i <= j) /\ MayUse(handles[i])
MayBeDecrypted(handles) == \A i \in DOMAIN handles : MayUse(handles[i])

\* FHE.add is let through: it uses the recorded total, if there is one
AdditionIsAllowed(delegateeHash) ==
    LET total == encryptedValidatorWeight[delegateeHash]
    IN  IsInitialized(total) => MayUse(total)

\* Mutant: FHE.allowThis follows the addition
DelegationAllowingThis(delegatorHash, delegateeHash, encryptedWeight) ==
    LET total   == encryptedValidatorWeight[delegateeHash]
        results == ResultsOf(total, delegationCount + 1, encryptedWeight)
    IN  /\ AdditionIsAllowed(delegateeHash)
        /\ SubmitEncryptedDelegation(delegatorHash, delegateeHash, encryptedWeight)
        /\ allowed' = allowed \cup {CreditedTotal(total, delegationCount + 1, encryptedWeight)}
        /\ transient' = transient \cup results
        /\ delegatedIn' = Put(delegatedIn, delegationCount + 1, tx)
        /\ UNCHANGED <<tx, requestedIn, granted>>
SubmitAclDelegation(delegatorHash, delegateeHash, encryptedWeight) ==
    /\ AdditionIsAllowed(delegateeHash)
    /\ SubmitEncryptedDelegation(delegatorHash, delegateeHash, encryptedWeight)
    /\ transient' = transient \cup ResultsOf(encryptedValidatorWeight[delegateeHash],
                                            delegationCount + 1, encryptedWeight)
    /\ delegatedIn' = Put(delegatedIn, delegationCount + 1, tx)
    /\ UNCHANGED <<allowed, tx, requestedIn, granted>>

RequestWeight(validatorHash) ==
    /\ MayBeDecrypted([j \in {1} |-> encryptedValidatorWeight[validatorHash]])
    /\ RequestDecryptionForValidatorWeight(validatorHash)
    /\ requestedIn' = Put(requestedIn, counterRequest, tx)
    /\ UNCHANGED <<allowed, transient, tx, delegatedIn, granted>>

RequestTally(proposalId) ==
    /\ MayBeDecrypted([i \in VotesFor(proposalId) |-> encryptedVotes[i].encryptedChoice])
    /\ RequestDecryptionForAggregatedVotes(proposalId)
    /\ requestedIn' = Put(requestedIn, counterRequest, tx)
    /\ UNCHANGED <<allowed, transient, tx, delegatedIn, granted>>

\* Calls for which the executor is not asked anything
OtherCall ==
    /\ \/ \E a \in Ciphertexts, h \in Hashes : SubmitEncryptedStake(a, h)
       \/ \E h \in Hashes, p \in 0 .. MaxProposals + 1, c \in Ciphertexts : SubmitEncryptedVote(h, p, c)
       \/ CreateProposal
       \/ \E r \in 0 .. MaxRequests : OnDecryptCallback(r)
       \/ \E S \in SUBSET Hashes : EmergencyResetWeights(S)
       \/ AcceptEther
    /\ UNCHANGED aclVars

\* The owner of a handle lets the contract use it, for ever or during the
\* current transaction
Allow(c) ==
    /\ allowed' = allowed \cup {c} /\ granted' = granted \cup {c}
    /\ UNCHANGED <<vars, transient, tx, delegatedIn, requestedIn>>
AllowTransient(c) ==
    /\ transient' = transient \cup {c} /\ granted' = granted \cup {c}
    /\ UNCHANGED <<vars, allowed, tx, delegatedIn, requestedIn>>

\* Mutant: what was allowed for the transaction stays allowed after it
EndKeepingAllowances ==
    /\ tx < MaxTransactions
    /\ tx' = tx + 1
    /\ UNCHANGED <<vars, allowed, transient, delegatedIn, requestedIn, granted>>
EndTransaction ==
    /\ tx < MaxTransactions
    /\ tx' = tx + 1 /\ transient' = {}
    /\ UNCHANGED <<vars, allowed, delegatedIn, requestedIn, granted>>

\* Blocks end, and the KMS reads the chain, between transactions only
BetweenTransactions ==
    /\ transient = {}
    /\ Tick \/ \E r \in 0 .. MaxRequests : KmsSign(r)
    /\ UNCHANGED aclVars

AclNext ==
    \/ \E h, v \in Hashes, w \in Euint32 : SubmitAclDelegation(h, v, w)
    \/ \E v \in Hashes : RequestWeight(v)
    \/ \E p \in 0 .. MaxProposals + 1 : RequestTally(p)
    \/ OtherCall
    \/ \E c \in ClientHandles : Allow(c) \/ AllowTransient(c)
    \/ EndTransaction
    \/ BetweenTransactions

AclSpec == AclInit /\ [][AclNext]_allVars

----------------------------------------------------------------------------
\* Properties

\* What the contract may use for ever is a client's, never a total, and the
\* histories cover every delegation and every request.
AclTypeOK ==
    /\ allowed \subseteq ClientHandles
    /\ transient \subseteq ClientHandles \cup Handle64
    /\ granted \subseteq ClientHandles
    /\ tx \in 1 .. MaxTransactions
    /\ delegatedIn \in [1 .. delegationCount -> 1 .. tx]
    /\ requestedIn \in [0 .. counterRequest - 1 -> 1 .. tx]

\* Documented, and false in the code: "The system updates total weights"
\* (README, line 119) and "Stake changes reflected instantly" (line 45) promise
\* that a delegation of a usable weight is added to whichever validator it
\* names.  The addition of line 104 is refused for every validator whose total
\* was computed in an earlier transaction, until somebody resets it.
DelegationsAreAdded == \A v \in Hashes : AdditionIsAllowed(v)

\* A request for a validator's weight gets through only in the transaction
\* that made the delegations it decrypts: a total that was granted to the
\* contract in no lasting way (line 104) cannot be decrypted later.
WeightRequestsAreImmediate ==
    \A r \in DOMAIN decryptionRequestPurpose :
        decryptionRequestPurpose[r].tag = "validator_weight" =>
            \A i \in requestedHandles[r][1].terms : delegatedIn[i] = requestedIn[r]

\* The handle was computed by the contract from delegations of transaction t
ComputedIn(handle, t) ==
    /\ handle \in Handle64
    /\ \A i \in handle.terms : i \in DOMAIN delegatedIn /\ delegatedIn[i] = t

\* One ballot the contract may not use blocks the tally of its proposal: when
\* requestDecryptionForAggregatedVotes succeeds, every ballot it lists, and
\* every ballot cast for the proposal in an earlier block, had been granted by
\* its owner or is a handle the contract computed in that very transaction.
TalliedBallotsWereUsable ==
    \A r \in DOMAIN decryptionRequestPurpose :
        LET purpose == decryptionRequestPurpose[r]
        IN  purpose.tag = "proposal_votes" =>
                \A i \in 1 .. voteCount :
                    \/ i \in DOMAIN requestedHandles[r]
                    \/ /\ encryptedVotes[i].proposalId = purpose.subject
                       /\ encryptedVotes[i].timestamp < purpose.time
                    => \/ encryptedVotes[i].encryptedChoice \in granted
                       \/ ComputedIn(encryptedVotes[i].encryptedChoice, requestedIn[r])
=============================================================================

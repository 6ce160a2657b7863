---------------------------- MODULE DposFheProofs ----------------------------
(***************************************************************************)
(* Machine-checked proofs about the contract: first DposFheCore, its       *)
(* requests and its totals, then DposFheAcl, which implements it, so that  *)
(* every theorem about the contract holds under the access-control list    *)
(* too.  They hold for every set of hashes and ciphertexts, every width    *)
(* and every bound.                                                        *)
(***************************************************************************)
EXTENDS DposFheAcl, SetSums

----------------------------------------------------------------------------
\* Lemmas about the helpers

\* Appending record n + 1 to a mapping filled up to n (the contract's
\* "count += 1; mapping[count] = record").
LEMMA PutNextRecord ==
    ASSUME NEW T, NEW n \in Nat, NEW f \in [1 .. n -> T], NEW v \in T
    PROVE  /\ Put(f, n + 1, v) \in [1 .. n + 1 -> T]
           /\ Put(f, n + 1, v)[n + 1] = v
           /\ \A i \in 1 .. n : Put(f, n + 1, v)[i] = f[i]
  <1>1. (1 .. n) \cup {n + 1} = 1 .. n + 1
    OBVIOUS
  <1> QED
    BY <1>1 DEF Put

\* Filing an entry under id n in a mapping filled below n (the library's
\* counterRequest).
LEMMA PutNextRequest ==
    ASSUME NEW T, NEW n \in Nat, NEW f \in [0 .. n - 1 -> T], NEW v \in T
    PROVE  /\ Put(f, n, v) \in [0 .. (n + 1) - 1 -> T]
           /\ Put(f, n, v)[n] = v
           /\ \A i \in 0 .. n - 1 : Put(f, n, v)[i] = f[i]
  <1>1. (0 .. n - 1) \cup {n} = 0 .. (n + 1) - 1
    OBVIOUS
  <1> QED
    BY <1>1 DEF Put

\* The modulus of euint64 arithmetic is positive.
LEMMA WidthPositive == Euint64Size \in Nat \ {0}
  <1>1. \A a, b \in Nat \ {0} : a * b \in Nat \ {0}
    OBVIOUS
  <1> QED
    BY <1>1, WidthAssumption

\* The bounds are natural numbers.
LEMMA BoundsAreNat ==
    /\ MaxStakes \in Nat /\ MaxDelegations \in Nat /\ MaxVotes \in Nat
    /\ MaxProposals \in Nat /\ MaxRequests \in Nat /\ MaxDeliveries \in Nat
    /\ MaxTime \in Nat /\ MaxEther \in Nat
  BY BoundAssumption

\* The homomorphic addition of two euint64 handles is a euint64 handle.
LEMMA FheAddType ==
    ASSUME NEW a \in Handle64, NEW b \in Handle64
    PROVE  FheAdd(a, b) \in Handle64
  <1>1. a.value + b.value \in Nat
    BY WidthPositive DEF Handle64
  <1>2. (a.value + b.value) % Euint64Size \in 0 .. Euint64Size - 1
    BY <1>1, WidthPositive
  <1> QED
    BY <1>2 DEF FheAdd, Handle64

\* Crediting one more delegation leaves a euint64 handle that counts it.
LEMMA CreditedTotalType ==
    ASSUME NEW total \in Handle64 \cup {NoHandle},
           NEW idx \in 1 .. MaxDelegations, NEW weight \in Euint32
    PROVE  /\ CreditedTotal(total, idx, weight) \in Handle64
           /\ CreditedTotal(total, idx, weight) # NoHandle
           /\ CreditedTotal(total, idx, weight).terms =
                  (IF total = NoHandle THEN {} ELSE total.terms) \cup {idx}
  <1> DEFINE base == IF IsInitialized(total) THEN total ELSE EncryptedZero
  <1>1. EncryptedZero \in Handle64
    BY WidthPositive DEF EncryptedZero, Handle64
  <1>2. weight \in 0 .. Euint64Size - 1
    <2>1. \A a \in Nat \ {0} : a <= a * a
      OBVIOUS
    <2> QED
      BY <2>1, WidthAssumption DEF Euint32
  <1>3. PromoteEuint32(idx, weight) \in Handle64
    BY <1>2 DEF PromoteEuint32, Handle64
  <1>4. base \in Handle64
    BY <1>1 DEF IsInitialized
  <1>5. CreditedTotal(total, idx, weight) = FheAdd(base, PromoteEuint32(idx, weight))
    BY DEF CreditedTotal
  <1>6. FheAdd(base, PromoteEuint32(idx, weight)) \in Handle64
    BY <1>3, <1>4, FheAddType
  <1>7. FheAdd(base, PromoteEuint32(idx, weight)).terms = base.terms \cup {idx}
    BY DEF FheAdd, PromoteEuint32
  <1>8. base.terms = IF total = NoHandle THEN {} ELSE total.terms
    BY DEF IsInitialized, EncryptedZero
  <1> QED
    BY <1>5, <1>6, <1>7, <1>8, HandleAssumption

\* A function on a set of indices is a list of handles.
LEMMA PartialType ==
    ASSUME NEW S, NEW T, NEW D \in SUBSET S, NEW f \in [D -> T]
    PROVE  f \in Partial(S, T)
  BY DEF Partial

----------------------------------------------------------------------------
\* Type correctness

USE DEF recordVars, requestVars

\* A request of either kind keeps the types of the request state, provided its
\* list and its purpose have theirs.
LEMMA FileRequestType ==
    ASSUME TypeOK, NEW handles \in HandleLists, NEW purpose \in Purpose,
           FileRequest(handles, purpose)
    PROVE  TypeOK'
  <1>1. counterRequest \in Nat /\ counterRequest < MaxRequests /\ counterRequest' = counterRequest + 1
    BY BoundsAreNat DEF FileRequest, FheRequestDecryption, TypeOK
  <1>2. requestedHandles' \in [0 .. counterRequest' - 1 -> HandleLists]
    BY <1>1, PutNextRequest DEF FileRequest, FheRequestDecryption, TypeOK
  <1>3. decryptionRequestPurpose' \in [0 .. counterRequest' - 1 -> Purpose]
    BY <1>1, PutNextRequest DEF FileRequest, PurposesWith, TypeOK
  <1>4. [event |-> "DecryptionRequested", requestId |-> counterRequest, purpose |-> purpose] \in Event
    BY <1>1, BoundsAreNat DEF Event
  <1>5. log' \in Seq(Event)
    BY <1>4 DEF FileRequest, TypeOK
  <1>6. counterRequest' \in 0 .. MaxRequests
    BY <1>1, BoundsAreNat
  <1> QED
    BY <1>2, <1>3, <1>5, <1>6 DEF FileRequest, TypeOK

\* The lists and the purposes the two request functions file are of those types.
LEMMA WeightRequestType ==
    ASSUME TypeOK, NEW v \in Hashes, RequestDecryptionForValidatorWeight(v)
    PROVE  /\ [j \in {1} |-> encryptedValidatorWeight[v]] \in HandleLists
           /\ [tag |-> "validator_weight", subject |-> v, time |-> now] \in Purpose
  <1>1. encryptedValidatorWeight[v] \in Handle64
    BY DEF RequestDecryptionForValidatorWeight, IsInitialized, TypeOK
  <1>2. [j \in {1} |-> encryptedValidatorWeight[v]] \in HandleLists
    BY <1>1, PartialType DEF HandleLists
  <1> QED
    BY <1>2 DEF Purpose, TypeOK

\* Likewise the list and the purpose of a tally request.
LEMMA BallotRequestType ==
    ASSUME TypeOK, NEW p \in 0 .. MaxProposals + 1, RequestDecryptionForAggregatedVotes(p)
    PROVE  /\ [i \in VotesFor(p) |-> encryptedVotes[i].encryptedChoice] \in HandleLists
           /\ [tag |-> "proposal_votes", subject |-> p, time |-> now] \in Purpose
  <1> DEFINE list == [i \in VotesFor(p) |-> encryptedVotes[i].encryptedChoice]
  <1>1. VotesFor(p) \subseteq 1 .. voteCount
    BY DEF VotesFor
  <1>2. VotesFor(p) \in SUBSET (1 .. MaxVotes)
    BY <1>1, BoundsAreNat DEF TypeOK
  <1>3. list \in [VotesFor(p) -> Ciphertexts]
    BY <1>1 DEF TypeOK, EncryptedVote
  <1>4. list \in HandleLists
    BY <1>2, <1>3, PartialType DEF HandleLists
  <1>5. p \in 1 .. MaxProposals
    BY BoundsAreNat DEF RequestDecryptionForAggregatedVotes, ProposalExists, TypeOK
  <1> QED
    BY <1>4, <1>5 DEF Purpose, TypeOK

\* Freshly deployed, every mapping is empty and every counter zero.
LEMMA TypeInit == Init => TypeOK
  <1> SUFFICES ASSUME Init PROVE TypeOK
    OBVIOUS
  <1>1. \A T : <<>> \in [1 .. 0 -> T] /\ <<>> \in [0 .. 0 - 1 -> T]
    OBVIOUS
  <1> QED
    BY <1>1, BoundsAreNat DEF Init, TypeOK

\* Every transaction, and every step of the KMS and the clock, keeps the types.
LEMMA TypeStep == TypeOK /\ [Next]_vars => TypeOK'
  <1> SUFFICES ASSUME TypeOK, [Next]_vars PROVE TypeOK'
    OBVIOUS
  <1>1. ASSUME NEW a \in Ciphertexts, NEW h \in Hashes, SubmitEncryptedStake(a, h)
        PROVE  TypeOK'
    <2>1. [ownerHash |-> h, amount |-> a] \in EncryptedStake
      BY DEF EncryptedStake
    <2>2. stakeEntryCount \in Nat /\ stakeEntryCount' \in 0 .. MaxStakes
      BY <1>1, BoundsAreNat DEF SubmitEncryptedStake, TypeOK
    <2>3. encryptedStakes' \in [1 .. stakeEntryCount' -> EncryptedStake]
      BY <1>1, <2>1, <2>2, PutNextRecord DEF SubmitEncryptedStake, TypeOK
    <2> QED
      BY <1>1, <2>2, <2>3 DEF SubmitEncryptedStake, TypeOK
  <1>2. ASSUME NEW h \in Hashes, NEW v \in Hashes, NEW w \in Euint32,
               SubmitEncryptedDelegation(h, v, w)
        PROVE  TypeOK'
    <2>1. [delegatorHash |-> h, delegateeHash |-> v, encryptedWeight |-> w,
           timestamp |-> now] \in EncryptedDelegation
      BY DEF EncryptedDelegation, TypeOK
    <2>2. delegationCount \in Nat /\ delegationCount' \in 0 .. MaxDelegations
      BY <1>2, BoundsAreNat DEF SubmitEncryptedDelegation, TypeOK
    <2>3. encryptedDelegations' \in [1 .. delegationCount' -> EncryptedDelegation]
      BY <1>2, <2>1, <2>2, PutNextRecord DEF SubmitEncryptedDelegation, TypeOK
    <2>4. delegationCount + 1 \in 1 .. MaxDelegations
      BY <1>2, <2>2, BoundsAreNat DEF SubmitEncryptedDelegation
    <2>5. encryptedValidatorWeight[v] \in Handle64 \cup {NoHandle}
      BY DEF TypeOK
    <2>6. CreditedTotal(encryptedValidatorWeight[v], delegationCount + 1, w) \in Handle64
      BY <2>4, <2>5, CreditedTotalType
    <2>7. encryptedValidatorWeight' \in [Hashes -> Handle64 \cup {NoHandle}]
      BY <1>2, <2>6 DEF SubmitEncryptedDelegation, TypeOK
    <2> QED
      BY <1>2, <2>2, <2>3, <2>7 DEF SubmitEncryptedDelegation, TypeOK
  <1>3. ASSUME NEW h \in Hashes, NEW p \in 0 .. MaxProposals + 1, NEW c \in Ciphertexts,
               SubmitEncryptedVote(h, p, c)
        PROVE  TypeOK'
    <2>1. p \in 1 .. MaxProposals
      BY <1>3, BoundsAreNat DEF SubmitEncryptedVote, ProposalExists, TypeOK
    <2>2. [voterHash |-> h, proposalId |-> p, encryptedChoice |-> c,
           timestamp |-> now] \in EncryptedVote
      BY <2>1 DEF EncryptedVote, TypeOK
    <2>3. voteCount \in Nat /\ voteCount' \in 0 .. MaxVotes
      BY <1>3, BoundsAreNat DEF SubmitEncryptedVote, TypeOK
    <2>4. encryptedVotes' \in [1 .. voteCount' -> EncryptedVote]
      BY <1>3, <2>2, <2>3, PutNextRecord DEF SubmitEncryptedVote, TypeOK
    <2> QED
      BY <1>3, <2>3, <2>4 DEF SubmitEncryptedVote, TypeOK
  <1>4. ASSUME CreateProposal PROVE TypeOK'
    <2>1. proposalCount \in Nat /\ proposalCount' \in 0 .. MaxProposals
          /\ proposalCount + 1 \in 1 .. MaxProposals
      BY <1>4, BoundsAreNat DEF CreateProposal, TypeOK
    <2>2. [id |-> proposalCount + 1, createdAt |-> now, active |-> TRUE] \in Proposal
      BY <2>1 DEF Proposal, TypeOK
    <2>3. proposals' \in [1 .. proposalCount' -> Proposal]
      BY <1>4, <2>1, <2>2, PutNextRecord DEF CreateProposal, TypeOK
    <2> QED
      BY <1>4, <2>1, <2>3 DEF CreateProposal, TypeOK
  <1>5. ASSUME NEW v \in Hashes, RequestDecryptionForValidatorWeight(v)
        PROVE  TypeOK'
    BY <1>5, WeightRequestType, FileRequestType DEF RequestDecryptionForValidatorWeight
  <1>6. ASSUME NEW p \in 0 .. MaxProposals + 1, RequestDecryptionForAggregatedVotes(p)
        PROVE  TypeOK'
    BY <1>6, BallotRequestType, FileRequestType DEF RequestDecryptionForAggregatedVotes
  <1>7. ASSUME NEW r \in 0 .. MaxRequests, KmsSign(r) PROVE TypeOK'
    <2>1. requestedHandles[r] \in HandleLists
      BY <1>7 DEF KmsSign, HandlesSaved, TypeOK
    <2>2. kmsSigned' \subseteq HandleLists
      BY <1>7, <2>1 DEF KmsSign, TypeOK
    <2> QED
      BY <1>7, <2>2 DEF KmsSign, TypeOK
  <1>8. ASSUME NEW r \in 0 .. MaxRequests, OnDecryptCallback(r) PROVE TypeOK'
    <2>1. r \in 0 .. counterRequest - 1 /\ decryptionRequestPurpose[r] \in Purpose
      BY <1>8 DEF OnDecryptCallback, TypeOK
    <2>2. [event |-> "DecryptionCompleted", requestId |-> r,
           purpose |-> decryptionRequestPurpose[r]] \in Event
      BY <2>1, BoundsAreNat DEF Event, TypeOK
    <2>3. log' \in Seq(Event)
      BY <1>8, <2>2 DEF OnDecryptCallback, TypeOK
    <2> QED
      BY <1>8, <2>3 DEF OnDecryptCallback, TypeOK
  <1>9. ASSUME NEW S \in SUBSET Hashes, EmergencyResetWeights(S) PROVE TypeOK'
    BY <1>9 DEF EmergencyResetWeights, TypeOK
  <1>10. ASSUME AcceptEther PROVE TypeOK'
    BY <1>10, BoundsAreNat DEF AcceptEther, TypeOK
  <1>11. ASSUME Tick PROVE TypeOK'
    BY <1>11, BoundsAreNat DEF Tick, TypeOK
  <1>12. ASSUME UNCHANGED vars PROVE TypeOK'
    BY <1>12 DEF vars, TypeOK
  <1> QED
    BY <1>1, <1>2, <1>3, <1>4, <1>5, <1>6, <1>7, <1>8, <1>9, <1>10, <1>11, <1>12 DEF Next

\* Every mapping is filled exactly up to its counter with records of its type,
\* no total leaves euint64, and every request id below the library's counter
\* has a purpose and a list, in every reachable state.
THEOREM TypeCorrect == Spec => []TypeOK
  BY TypeInit, TypeStep, PTL DEF Spec

----------------------------------------------------------------------------
\* What each kind of step does to the mappings

\* A step that leaves the proposals, the delegations, the votes, the totals and
\* the requests alone: a stake, an answer, ether or a new block.
Quiet ==
    /\ now <= now'
    /\ UNCHANGED <<proposalCount, proposals, delegationCount, encryptedDelegations,
                   voteCount, encryptedVotes, encryptedValidatorWeight,
                   decryptionRequestPurpose, counterRequest, requestedHandles>>

\* Every step is one of six transactions or leaves all they touch alone.
LEMMA StepCases ==
    ASSUME TypeOK, [Next]_vars
    PROVE  \/ \E h, v \in Hashes, w \in Euint32 : SubmitEncryptedDelegation(h, v, w)
           \/ \E h \in Hashes, p \in 0 .. MaxProposals + 1, c \in Ciphertexts :
                  SubmitEncryptedVote(h, p, c)
           \/ CreateProposal
           \/ \E v \in Hashes : RequestDecryptionForValidatorWeight(v)
           \/ \E p \in 0 .. MaxProposals + 1 : RequestDecryptionForAggregatedVotes(p)
           \/ \E S \in SUBSET Hashes : EmergencyResetWeights(S)
           \/ Quiet
  <1>1. now \in Int
    BY BoundsAreNat DEF TypeOK
  <1>2. ASSUME NEW a \in Ciphertexts, NEW h \in Hashes, SubmitEncryptedStake(a, h)
        PROVE  Quiet
    BY <1>1, <1>2 DEF SubmitEncryptedStake, Quiet
  <1>3. ASSUME NEW r \in 0 .. MaxRequests, KmsSign(r) \/ OnDecryptCallback(r)
        PROVE  Quiet
    BY <1>1, <1>3 DEF KmsSign, OnDecryptCallback, Quiet
  <1>4. ASSUME AcceptEther \/ Tick \/ UNCHANGED vars
        PROVE  Quiet
    BY <1>1, <1>4 DEF AcceptEther, Tick, vars, Quiet
  <1> QED
    BY <1>2, <1>3, <1>4 DEF Next

\* Storing a proposal, a delegation or a vote keeps the earlier ones.
LEMMA ProposalEffect ==
    ASSUME TypeOK, CreateProposal
    PROVE  /\ proposalCount \in Nat /\ proposalCount' = proposalCount + 1
           /\ \A i \in 1 .. proposalCount : proposals'[i] = proposals[i]
           /\ proposals'[proposalCount + 1].createdAt = now
  <1> DEFINE new == [id |-> proposalCount + 1, createdAt |-> now, active |-> TRUE]
  <1>1. proposalCount \in Nat /\ proposalCount + 1 \in 1 .. MaxProposals
    BY BoundsAreNat DEF CreateProposal, TypeOK
  <1>2. new \in Proposal
    BY <1>1 DEF Proposal, TypeOK
  <1> HIDE DEF new
  <1>3. proposals' = Put(proposals, proposalCount + 1, new)
    BY DEF CreateProposal, new
  <1>4. /\ proposals'[proposalCount + 1] = new
        /\ \A i \in 1 .. proposalCount : proposals'[i] = proposals[i]
    <2>1. DOMAIN proposals = 1 .. proposalCount
      BY DEF TypeOK
    <2> QED
      BY <1>1, <1>3, <2>1 DEF Put
  <1> QED
    <2>1. proposalCount' = proposalCount + 1
      BY DEF CreateProposal
    <2>2. new.createdAt = now
      BY DEF new
    <2> QED
      BY <1>1, <1>4, <2>1, <2>2

\* The new delegation names its validator and the current block.
LEMMA DelegationEffect ==
    ASSUME TypeOK, NEW h \in Hashes, NEW v \in Hashes, NEW w \in Euint32,
           SubmitEncryptedDelegation(h, v, w)
    PROVE  /\ delegationCount \in Nat /\ delegationCount' = delegationCount + 1
           /\ \A i \in 1 .. delegationCount : encryptedDelegations'[i] = encryptedDelegations[i]
           /\ encryptedDelegations'[delegationCount + 1].delegateeHash = v
           /\ encryptedDelegations'[delegationCount + 1].timestamp = now
  <1> DEFINE new == [delegatorHash |-> h, delegateeHash |-> v, encryptedWeight |-> w,
                     timestamp |-> now]
  <1>1. delegationCount \in Nat
    BY BoundsAreNat DEF TypeOK
  <1>2. new \in EncryptedDelegation
    BY DEF EncryptedDelegation, TypeOK
  <1> HIDE DEF new
  <1>3. encryptedDelegations' = Put(encryptedDelegations, delegationCount + 1, new)
    BY DEF SubmitEncryptedDelegation, new
  <1>4. /\ encryptedDelegations'[delegationCount + 1] = new
        /\ \A i \in 1 .. delegationCount : encryptedDelegations'[i] = encryptedDelegations[i]
    <2>1. DOMAIN encryptedDelegations = 1 .. delegationCount
      BY DEF TypeOK
    <2> QED
      BY <1>1, <1>3, <2>1 DEF Put
  <1> QED
    BY <1>1, <1>4 DEF new, SubmitEncryptedDelegation

\* The new vote names an existing proposal and the current block.
LEMMA VoteEffect ==
    ASSUME TypeOK, NEW h \in Hashes, NEW p \in 0 .. MaxProposals + 1, NEW c \in Ciphertexts,
           SubmitEncryptedVote(h, p, c)
    PROVE  /\ voteCount \in Nat /\ voteCount' = voteCount + 1
           /\ p \in 1 .. proposalCount
           /\ \A i \in 1 .. voteCount : encryptedVotes'[i] = encryptedVotes[i]
           /\ encryptedVotes'[voteCount + 1].proposalId = p
           /\ encryptedVotes'[voteCount + 1].timestamp = now
  <1> DEFINE new == [voterHash |-> h, proposalId |-> p, encryptedChoice |-> c,
                     timestamp |-> now]
  <1>1. voteCount \in Nat /\ p \in 1 .. proposalCount /\ p \in 1 .. MaxProposals
    BY BoundsAreNat DEF SubmitEncryptedVote, ProposalExists, TypeOK
  <1>2. new \in EncryptedVote
    BY <1>1 DEF EncryptedVote, TypeOK
  <1> HIDE DEF new
  <1>3. encryptedVotes' = Put(encryptedVotes, voteCount + 1, new)
    BY DEF SubmitEncryptedVote, new
  <1>4. /\ encryptedVotes'[voteCount + 1] = new
        /\ \A i \in 1 .. voteCount : encryptedVotes'[i] = encryptedVotes[i]
    <2>1. DOMAIN encryptedVotes = 1 .. voteCount
      BY DEF TypeOK
    <2> QED
      BY <1>1, <1>3, <2>1 DEF Put
  <1> QED
    BY <1>1, <1>4 DEF new, SubmitEncryptedVote

\* Filing a request keeps the lists and the purposes of the earlier ones.
LEMMA RequestEffect ==
    ASSUME TypeOK, NEW handles \in HandleLists, NEW purpose \in Purpose,
           FileRequest(handles, purpose)
    PROVE  /\ counterRequest \in Nat /\ counterRequest' = counterRequest + 1
           /\ DOMAIN decryptionRequestPurpose = 0 .. counterRequest - 1
           /\ DOMAIN decryptionRequestPurpose' = 0 .. counterRequest
           /\ \A r \in 0 .. counterRequest - 1 :
                  /\ decryptionRequestPurpose'[r] = decryptionRequestPurpose[r]
                  /\ requestedHandles'[r] = requestedHandles[r]
           /\ decryptionRequestPurpose'[counterRequest] = purpose
           /\ requestedHandles'[counterRequest] = handles
  <1>1. counterRequest \in Nat /\ counterRequest' = counterRequest + 1
    BY BoundsAreNat DEF FileRequest, FheRequestDecryption, TypeOK
  <1>2. /\ DOMAIN decryptionRequestPurpose' = 0 .. counterRequest
        /\ decryptionRequestPurpose'[counterRequest] = purpose
        /\ \A r \in 0 .. counterRequest - 1 :
               decryptionRequestPurpose'[r] = decryptionRequestPurpose[r]
    <2>1. DOMAIN decryptionRequestPurpose = 0 .. counterRequest - 1
      BY DEF TypeOK
    <2>2. decryptionRequestPurpose' = Put(decryptionRequestPurpose, counterRequest, purpose)
      BY DEF FileRequest, PurposesWith
    <2> QED
      BY <1>1, <2>1, <2>2 DEF Put
  <1>3. /\ requestedHandles'[counterRequest] = handles
        /\ \A r \in 0 .. counterRequest - 1 : requestedHandles'[r] = requestedHandles[r]
    <2>1. DOMAIN requestedHandles = 0 .. counterRequest - 1
      BY DEF TypeOK
    <2>2. requestedHandles' = Put(requestedHandles, counterRequest, handles)
      BY DEF FileRequest, FheRequestDecryption
    <2> QED
      BY <1>1, <2>1, <2>2 DEF Put
  <1> QED
    BY <1>1, <1>2, <1>3 DEF TypeOK

----------------------------------------------------------------------------
\* No record is dated after the current block.  Not inductive without the
\* types, and the fact every property that compares timestamps rests on.

ClockBounds ==
    /\ \A i \in 1 .. proposalCount : proposals[i].createdAt <= now
    /\ \A i \in 1 .. delegationCount : encryptedDelegations[i].timestamp <= now
    /\ \A i \in 1 .. voteCount : encryptedVotes[i].timestamp <= now
    /\ \A r \in 0 .. counterRequest - 1 : decryptionRequestPurpose[r].time <= now

\* Timestamps and the clock are integers.
LEMMA ClockTypes ==
    ASSUME TypeOK
    PROVE  /\ now \in Int
           /\ \A i \in 1 .. proposalCount : proposals[i].createdAt \in Int
           /\ \A i \in 1 .. delegationCount : encryptedDelegations[i].timestamp \in Int
           /\ \A i \in 1 .. voteCount : encryptedVotes[i].timestamp \in Int
           /\ \A r \in 0 .. counterRequest - 1 : decryptionRequestPurpose[r].time \in Int
  <1>1. 0 .. MaxTime \subseteq Int
    BY BoundsAreNat
  <1>2. \A i \in 1 .. proposalCount : proposals[i].createdAt \in Int
    BY <1>1 DEF TypeOK, Proposal
  <1>3. \A i \in 1 .. delegationCount : encryptedDelegations[i].timestamp \in Int
    BY <1>1 DEF TypeOK, EncryptedDelegation
  <1>4. \A i \in 1 .. voteCount : encryptedVotes[i].timestamp \in Int
    BY <1>1 DEF TypeOK, EncryptedVote
  <1>5. \A r \in 0 .. counterRequest - 1 : decryptionRequestPurpose[r].time \in Int
    BY <1>1 DEF TypeOK, Purpose
  <1> QED
    BY <1>1, <1>2, <1>3, <1>4, <1>5 DEF TypeOK

\* New records are dated with the current block, and the clock never goes back.
LEMMA ClockStep == TypeOK /\ ClockBounds /\ [Next]_vars => ClockBounds'
  <1> SUFFICES ASSUME TypeOK, ClockBounds, [Next]_vars PROVE ClockBounds'
    OBVIOUS
  <1> USE ClockTypes
  <1>1. ASSUME NEW h \in Hashes, NEW v \in Hashes, NEW w \in Euint32,
               SubmitEncryptedDelegation(h, v, w)
        PROVE  ClockBounds'
    <2>1. \A i \in 1 .. delegationCount' : encryptedDelegations'[i].timestamp <= now
      BY <1>1, DelegationEffect DEF ClockBounds
    <2> QED
      BY <1>1, <2>1 DEF SubmitEncryptedDelegation, ClockBounds
  <1>2. ASSUME NEW h \in Hashes, NEW p \in 0 .. MaxProposals + 1, NEW c \in Ciphertexts,
               SubmitEncryptedVote(h, p, c)
        PROVE  ClockBounds'
    <2>1. \A i \in 1 .. voteCount' : encryptedVotes'[i].timestamp <= now
      BY <1>2, VoteEffect DEF ClockBounds
    <2> QED
      BY <1>2, <2>1 DEF SubmitEncryptedVote, ClockBounds
  <1>3. ASSUME CreateProposal PROVE ClockBounds'
    <2>1. \A i \in 1 .. proposalCount' : proposals'[i].createdAt <= now
      BY <1>3, ProposalEffect DEF ClockBounds
    <2> QED
      BY <1>3, <2>1 DEF CreateProposal, ClockBounds
  <1>4. ASSUME NEW handles \in HandleLists, NEW purpose \in Purpose,
               FileRequest(handles, purpose), purpose.time = now
        PROVE  ClockBounds'
    <2>1. \A r \in 0 .. counterRequest' - 1 : decryptionRequestPurpose'[r].time <= now
      <3>1. /\ counterRequest \in Nat /\ counterRequest' = counterRequest + 1
            /\ DOMAIN decryptionRequestPurpose = 0 .. counterRequest - 1
            /\ \A r \in 0 .. counterRequest - 1 :
                   decryptionRequestPurpose'[r] = decryptionRequestPurpose[r]
            /\ decryptionRequestPurpose'[counterRequest] = purpose
        BY <1>4, RequestEffect
      <3>2. now <= now
        OBVIOUS
      <3> QED
        BY <1>4, <3>1, <3>2 DEF ClockBounds
    <2> QED
      BY <1>4, <2>1 DEF FileRequest, ClockBounds
  <1>5. ASSUME NEW v \in Hashes, RequestDecryptionForValidatorWeight(v) PROVE ClockBounds'
    BY <1>4, <1>5, WeightRequestType DEF RequestDecryptionForValidatorWeight
  <1>6. ASSUME NEW p \in 0 .. MaxProposals + 1, RequestDecryptionForAggregatedVotes(p)
        PROVE  ClockBounds'
    BY <1>4, <1>6, BallotRequestType DEF RequestDecryptionForAggregatedVotes
  <1>7. ASSUME NEW S \in SUBSET Hashes, EmergencyResetWeights(S) PROVE ClockBounds'
    BY <1>7 DEF EmergencyResetWeights, ClockBounds
  <1>8. ASSUME Quiet PROVE ClockBounds'
    <2>1. now' \in Int
      BY TypeStep, BoundsAreNat DEF TypeOK
    <2> QED
      BY <1>8, <2>1 DEF Quiet, ClockBounds
  <1> QED
    BY <1>1, <1>2, <1>3, <1>5, <1>6, <1>7, <1>8, StepCases

\* In every reachable state no record carries a timestamp from the future.
THEOREM ClockCorrect == Spec => []ClockBounds
  <1>1. Init => ClockBounds
    BY DEF Init, ClockBounds
  <1> QED
    BY <1>1, ClockStep, TypeCorrect, PTL DEF Spec

----------------------------------------------------------------------------
\* Votes follow proposals

\* A vote names an existing proposal, and proposals are never dated anew.
LEMMA VotesStep ==
    TypeOK /\ ClockBounds /\ VotesFollowProposals /\ [Next]_vars => VotesFollowProposals'
  <1> SUFFICES ASSUME TypeOK, ClockBounds, VotesFollowProposals, [Next]_vars
               PROVE  VotesFollowProposals'
    OBVIOUS
  <1> USE ClockTypes
  <1>1. ASSUME NEW h \in Hashes, NEW p \in 0 .. MaxProposals + 1, NEW c \in Ciphertexts,
               SubmitEncryptedVote(h, p, c)
        PROVE  VotesFollowProposals'
    <2>1. UNCHANGED <<proposalCount, proposals>>
      BY <1>1 DEF SubmitEncryptedVote
    <2>2. proposals[p].createdAt <= now
      BY <1>1, VoteEffect DEF ClockBounds
    <2> QED
      BY <1>1, <2>1, <2>2, VoteEffect DEF VotesFollowProposals
  <1>2. ASSUME CreateProposal PROVE VotesFollowProposals'
    <2>1. UNCHANGED <<voteCount, encryptedVotes>>
      BY <1>2 DEF CreateProposal
    <2> QED
      BY <1>2, <2>1, ProposalEffect DEF VotesFollowProposals
  <1>3. ASSUME UNCHANGED <<proposalCount, proposals, voteCount, encryptedVotes>>
        PROVE  VotesFollowProposals'
    BY <1>3 DEF VotesFollowProposals
  <1>4. \/ \E h \in Hashes, p \in 0 .. MaxProposals + 1, c \in Ciphertexts :
               SubmitEncryptedVote(h, p, c)
        \/ CreateProposal
        \/ UNCHANGED <<proposalCount, proposals, voteCount, encryptedVotes>>
    BY StepCases DEF SubmitEncryptedDelegation, RequestDecryptionForValidatorWeight,
                     RequestDecryptionForAggregatedVotes, FileRequest,
                     EmergencyResetWeights, Quiet
  <1> QED
    BY <1>1, <1>2, <1>3, <1>4

\* Every stored vote names a proposal created no later than the vote.
THEOREM VotesCorrect == Spec => []VotesFollowProposals
  <1>1. Init => VotesFollowProposals
    BY DEF Init, VotesFollowProposals
  <1> QED
    BY <1>1, VotesStep, TypeCorrect, ClockCorrect, PTL DEF Spec

----------------------------------------------------------------------------
\* Totals count a suffix of the delegations to their validator

\* A delegation is added to its validator's total; a reset drops the total.
LEMMA WeightStep ==
    TypeOK /\ WeightCountsWholeSuffix /\ [Next]_vars => WeightCountsWholeSuffix'
  <1> SUFFICES ASSUME TypeOK, WeightCountsWholeSuffix, [Next]_vars
               PROVE  WeightCountsWholeSuffix'
    OBVIOUS
  <1>1. ASSUME NEW h \in Hashes, NEW d \in Hashes, NEW w \in Euint32,
               SubmitEncryptedDelegation(h, d, w)
        PROVE  WeightCountsWholeSuffix'
    <2> DEFINE new   == delegationCount + 1
               total == encryptedValidatorWeight[d]
               after == encryptedValidatorWeight'[d]
    <2>1. delegationCount \in Nat /\ new \in 1 .. MaxDelegations
      BY <1>1, BoundsAreNat DEF SubmitEncryptedDelegation, TypeOK
    <2>2. total \in Handle64 \cup {NoHandle}
      BY DEF TypeOK
    <2>3. after = CreditedTotal(total, new, w)
      BY <1>1 DEF SubmitEncryptedDelegation, TypeOK
    <2>4. after.terms = (IF total = NoHandle THEN {} ELSE total.terms) \cup {new}
      <3> HIDE DEF new, total, after
      <3>1. CreditedTotal(total, new, w).terms =
                (IF total = NoHandle THEN {} ELSE total.terms) \cup {new}
        BY <2>1, <2>2, CreditedTotalType
      <3> QED
        BY <2>3, <3>1
    <2>5. DelegationsTo(d)' = DelegationsTo(d) \cup {new}
      BY <1>1, <2>1, DelegationEffect DEF DelegationsTo
    <2>6. \A v \in Hashes \ {d} : DelegationsTo(v)' = DelegationsTo(v)
      BY <1>1, <2>1, DelegationEffect DEF DelegationsTo
    <2>7. \A v \in Hashes \ {d} : encryptedValidatorWeight'[v] = encryptedValidatorWeight[v]
      BY <1>1 DEF SubmitEncryptedDelegation, TypeOK
    <2>8. \A i \in DelegationsTo(d) : i \in Int /\ i < new
      BY <2>1 DEF DelegationsTo
    <2> HIDE DEF new, total, after
    <2>9. ASSUME NEW v \in Hashes, v # d, IsInitialized(encryptedValidatorWeight'[v])
          PROVE  /\ encryptedValidatorWeight'[v].terms # {}
                 /\ encryptedValidatorWeight'[v].terms \subseteq DelegationsTo(v)'
                 /\ \A i \in encryptedValidatorWeight'[v].terms, j \in DelegationsTo(v)' :
                        i < j => j \in encryptedValidatorWeight'[v].terms
      BY <2>6, <2>7, <2>9 DEF WeightCountsWholeSuffix
    <2>10. after.terms # {} /\ after.terms \subseteq DelegationsTo(d)'
      BY <2>4, <2>5 DEF WeightCountsWholeSuffix, IsInitialized, total
    <2>11. ASSUME NEW i \in after.terms, NEW j \in DelegationsTo(d)', i < j
           PROVE  j \in after.terms
      <3>1. CASE j = new
        BY <2>4, <3>1
      <3>2. CASE j # new
        <4>1. j \in DelegationsTo(d) /\ j < new /\ j \in Int
          BY <2>5, <2>8, <3>2
        <4>2. i # new
          <5>1. new \in Int
            BY <2>1
          <5> QED
            BY <2>11, <4>1, <5>1
        <4>3. total # NoHandle /\ i \in total.terms
          BY <2>4, <4>2
        <4> QED
          BY <2>4, <2>11, <4>1, <4>3 DEF WeightCountsWholeSuffix, IsInitialized, total
      <3> QED
        BY <3>1, <3>2
    <2> QED
      BY <2>9, <2>10, <2>11 DEF WeightCountsWholeSuffix, after
  <1>2. ASSUME NEW S \in SUBSET Hashes, EmergencyResetWeights(S)
        PROVE  WeightCountsWholeSuffix'
    <2>1. \A v \in Hashes : encryptedValidatorWeight'[v] \in {NoHandle, encryptedValidatorWeight[v]}
      BY <1>2 DEF EmergencyResetWeights
    <2>2. \A v \in Hashes : DelegationsTo(v)' = DelegationsTo(v)
      BY <1>2 DEF EmergencyResetWeights, DelegationsTo
    <2> QED
      BY <2>1, <2>2 DEF WeightCountsWholeSuffix, IsInitialized
  <1>3. ASSUME UNCHANGED <<delegationCount, encryptedDelegations, encryptedValidatorWeight>>
        PROVE  WeightCountsWholeSuffix'
    BY <1>3 DEF WeightCountsWholeSuffix, DelegationsTo
  <1>4. \/ \E h, v \in Hashes, w \in Euint32 : SubmitEncryptedDelegation(h, v, w)
        \/ \E S \in SUBSET Hashes : EmergencyResetWeights(S)
        \/ UNCHANGED <<delegationCount, encryptedDelegations, encryptedValidatorWeight>>
    BY StepCases DEF SubmitEncryptedVote, CreateProposal, RequestDecryptionForValidatorWeight,
                     RequestDecryptionForAggregatedVotes, FileRequest, Quiet
  <1> QED
    BY <1>1, <1>2, <1>3, <1>4

\* Whatever the order of delegations and resets, a validator's total counts
\* delegations to that validator only and, with one, every later one.
THEOREM WeightCorrect == Spec => []WeightCountsWholeSuffix
  <1>1. Init => WeightCountsWholeSuffix
    BY DEF Init, WeightCountsWholeSuffix, IsInitialized
  <1> QED
    BY <1>1, WeightStep, TypeCorrect, PTL DEF Spec

\* No step takes a delegation out of a total it does not erase.
THEOREM WeightGrowth == Spec => WeightOnlyGrowsOrIsErased
  <1> DEFINE Kept(v) == IsInitialized(encryptedValidatorWeight[v]) =>
                 \/ encryptedValidatorWeight'[v] = NoHandle
                 \/ encryptedValidatorWeight[v].terms \subseteq encryptedValidatorWeight'[v].terms
  <1>1. ASSUME TypeOK, [Next]_vars, NEW v \in Hashes PROVE Kept(v)
    <2>1. ASSUME NEW h \in Hashes, NEW d \in Hashes, NEW w \in Euint32,
                 SubmitEncryptedDelegation(h, d, w)
          PROVE  Kept(v)
      <3>1. CASE v = d
        <4>1. delegationCount + 1 \in 1 .. MaxDelegations
          BY <1>1, <2>1, BoundsAreNat DEF SubmitEncryptedDelegation, TypeOK
        <4>2. encryptedValidatorWeight[v] \in Handle64 \cup {NoHandle}
          BY <1>1 DEF TypeOK
        <4>3. encryptedValidatorWeight'[v] =
                  CreditedTotal(encryptedValidatorWeight[v], delegationCount + 1, w)
          BY <1>1, <2>1, <3>1 DEF SubmitEncryptedDelegation, TypeOK
        <4> QED
          BY <4>1, <4>2, <4>3, CreditedTotalType DEF IsInitialized
      <3>2. CASE v # d
        BY <1>1, <2>1, <3>2 DEF SubmitEncryptedDelegation, TypeOK
      <3> QED
        BY <3>1, <3>2
    <2>2. ASSUME NEW S \in SUBSET Hashes, EmergencyResetWeights(S) PROVE Kept(v)
      BY <2>2 DEF EmergencyResetWeights
    <2>3. ASSUME UNCHANGED encryptedValidatorWeight PROVE Kept(v)
      BY <2>3
    <2>4. \/ \E h, d \in Hashes, w \in Euint32 : SubmitEncryptedDelegation(h, d, w)
          \/ \E S \in SUBSET Hashes : EmergencyResetWeights(S)
          \/ UNCHANGED encryptedValidatorWeight
      BY <1>1, StepCases DEF SubmitEncryptedVote, CreateProposal,
             RequestDecryptionForValidatorWeight, RequestDecryptionForAggregatedVotes,
             FileRequest, Quiet
    <2> QED
      BY <2>1, <2>2, <2>3, <2>4
  <1>2. TypeOK /\ [Next]_vars => [\A v \in Hashes : Kept(v)]_vars
    BY <1>1
  <1> QED
    BY <1>2, TypeCorrect, PTL DEF Spec, WeightOnlyGrowsOrIsErased

----------------------------------------------------------------------------
\* Totals decrypt to the sum of the weights they count

\* The weights by index, and what a total's ciphertext holds of their sum: all
\* but some whole turns of the 64-bit range.
Weights == [i \in 1 .. delegationCount |-> encryptedDelegations[i].encryptedWeight]

AddsUp(total) ==
    /\ total.terms \subseteq 1 .. delegationCount
    /\ \E turns \in Nat :
           Cardinality(Units(total.terms, Weights)) = total.value + turns * Euint64Size

TotalsAddUp ==
    \A v \in Hashes : IsInitialized(encryptedValidatorWeight[v]) => AddsUp(encryptedValidatorWeight[v])

\* Whole turns do not change a remainder.
LEMMA TurnsVanish ==
    ASSUME NEW n \in Nat, NEW size \in Nat \ {0}, NEW value \in 0 .. size - 1,
           NEW turns \in Nat, n = value + turns * size
    PROVE  n % size = value
  <1> DEFINE q == n \div size
             r == n % size
  <1>1. q \in Int /\ r \in 0 .. size - 1 /\ n = q * size + r
    OBVIOUS
  <1> HIDE DEF q, r
  <1>2. \A a, b \in Int : a < b => a * size + size <= b * size
    <2> SUFFICES ASSUME NEW a \in Int, NEW b \in Int, a < b PROVE a * size + size <= b * size
      OBVIOUS
    <2>1. a + 1 <= b
      OBVIOUS
    <2>2. (a + 1) * size <= b * size
      BY <2>1
    <2> QED
      BY <2>2
  <1>3. q = turns
    BY <1>1, <1>2
  <1> QED
    BY <1>1, <1>3 DEF r

\* A set of delegations is finite, and its weights are numbers below 2^32.
LEMMA WeightTypes ==
    ASSUME TypeOK, NEW S \in SUBSET (1 .. delegationCount)
    PROVE  /\ IsFiniteSet(S)
           /\ \A i \in S : Weights[i] = encryptedDelegations[i].encryptedWeight
           /\ \A i \in S : Weights[i] \in Nat /\ Weights[i] <= Euint32Size - 1
           /\ Cardinality(Units(S, Weights)) \in Nat
  <1>1. delegationCount \in Nat
    BY BoundsAreNat DEF TypeOK
  <1>2. IsFiniteSet(S)
    <2>1. IsFiniteSet(1 .. delegationCount)
      BY <1>1, FS_Interval
    <2> QED
      BY <2>1, FS_Subset
  <1>3. \A i \in S : Weights[i] = encryptedDelegations[i].encryptedWeight
    BY DEF Weights
  <1>4. \A i \in S : encryptedDelegations[i].encryptedWeight \in Euint32
    BY DEF TypeOK, EncryptedDelegation
  <1>5. \A i \in S : Weights[i] \in Nat /\ Weights[i] <= Euint32Size - 1
    BY <1>3, <1>4, WidthAssumption DEF Euint32
  <1> QED
    BY <1>2, <1>3, <1>5, UnitsFinite

\* A credited total adds up if the total before it did.
LEMMA CreditAddsUp ==
    ASSUME TypeOK, TotalsAddUp,
           NEW h \in Hashes, NEW d \in Hashes, NEW w \in Euint32, SubmitEncryptedDelegation(h, d, w)
    PROVE  AddsUp(encryptedValidatorWeight[d])'
  <1> DEFINE new   == delegationCount + 1
             total == encryptedValidatorWeight[d]
             T     == IF total = NoHandle THEN {} ELSE total.terms
             value == IF total = NoHandle THEN 0 ELSE total.value
             after == encryptedValidatorWeight'[d]
             sum   == value + w
  <1>1. delegationCount \in Nat /\ delegationCount' = new /\ T \subseteq 1 .. delegationCount
    BY DelegationEffect DEF TotalsAddUp, AddsUp, IsInitialized
  <1>2. after.terms = T \cup {new} /\ after.value = sum % Euint64Size
    BY DEF SubmitEncryptedDelegation, TypeOK, CreditedTotal, FheAdd, PromoteEuint32,
           EncryptedZero, IsInitialized
  <1>3. w \in Nat /\ value \in Nat /\ Euint64Size \in Nat \ {0}
    BY WidthPositive, WidthAssumption DEF Euint32, TypeOK, Handle64
  <1>4. PICK turns \in Nat : Cardinality(Units(T, Weights)) = value + turns * Euint64Size
    <2>1. CASE total = NoHandle
      <3>1. Units(T, Weights) = {}
        BY <2>1 DEF Units
      <3>2. Cardinality(Units(T, Weights)) = 0 + 0 * Euint64Size
        BY <1>3, <3>1, FS_EmptySet
      <3> QED
        BY <2>1, <3>2
    <2>2. CASE total # NoHandle
      BY <2>2 DEF TotalsAddUp, AddsUp, IsInitialized
    <2> QED
      BY <2>1, <2>2
  <1>5. /\ \A i \in T : Weights'[i] = Weights[i]
        /\ Weights'[new] = w
    <2>1. /\ \A i \in 1 .. delegationCount : encryptedDelegations'[i] = encryptedDelegations[i]
          /\ encryptedDelegations'[new].encryptedWeight = w
      BY <1>1, DelegationEffect DEF SubmitEncryptedDelegation, Put
    <2> QED
      BY <1>1, <2>1 DEF Weights
  <1>6. /\ IsFiniteSet(Units(T, Weights'))
        /\ Cardinality(Units(T, Weights')) = value + turns * Euint64Size
    <2>1. Units(T, Weights') = Units(T, Weights)
      BY <1>5 DEF Units
    <2>2. IsFiniteSet(T) /\ \A i \in T : Weights[i] \in Nat
      BY <1>1, WeightTypes
    <2> QED
      BY <1>4, <2>1, <2>2, UnitsFinite
  <1> HIDE DEF new, total, T, value, after
  <1>7. Cardinality(Units(T \cup {new}, Weights')) = value + turns * Euint64Size + w
    <2> DEFINE S == T \cup {new}
               W == Weights'
    <2>1. S \ {new} = T /\ new \in S
      BY <1>1 DEF new
    <2>2. W[new] = w /\ W[new] \in Nat
      BY <1>3, <1>5
    <2>3. IsFiniteSet(Units(S \ {new}, W))
      BY <1>6, <2>1
    <2> HIDE DEF S, W
    <2>4. Cardinality(Units(S, W)) = Cardinality(Units(S \ {new}, W)) + W[new]
      BY <2>1, <2>2, <2>3, UnitsAdd
    <2> QED
      BY <1>6, <2>1, <2>2, <2>4 DEF S, W
  <1>8. PICK more \in Nat : sum = after.value + more * Euint64Size
    <2>1. sum \in Nat
      BY <1>3
    <2> HIDE DEF sum
    <2>2. sum = (sum % Euint64Size) + (sum \div Euint64Size) * Euint64Size /\ sum \div Euint64Size \in Nat
      BY <1>3, <2>1
    <2> QED
      BY <1>2, <2>2
  <1>9. Cardinality(Units(after.terms, Weights')) = after.value + (turns + more) * Euint64Size
    <2>1. after.value \in Nat
      BY <1>2, <1>3
    <2>2. \A m, n, k \in Nat : (m + n) * k = m * k + n * k
      OBVIOUS
    <2>3. (turns + more) * Euint64Size = turns * Euint64Size + more * Euint64Size
      BY <1>3, <2>2
    <2>4. turns * Euint64Size \in Nat /\ more * Euint64Size \in Nat
      BY <1>3
    <2> QED
      BY <1>2, <1>3, <1>7, <1>8, <2>1, <2>3, <2>4
  <1>10. after.terms \subseteq 1 .. delegationCount'
    BY <1>1, <1>2 DEF new
  <1> QED
    BY <1>9, <1>10 DEF AddsUp, after

\* Every step keeps the totals the sums of what they were made of.
LEMMA AddsUpStep == TypeOK /\ TotalsAddUp /\ [Next]_vars => TotalsAddUp'
  <1> SUFFICES ASSUME TypeOK, TotalsAddUp, [Next]_vars PROVE TotalsAddUp'
    OBVIOUS
  <1>1. ASSUME NEW h \in Hashes, NEW d \in Hashes, NEW w \in Euint32,
               SubmitEncryptedDelegation(h, d, w)
        PROVE  TotalsAddUp'
    <2> SUFFICES ASSUME NEW v \in Hashes, IsInitialized(encryptedValidatorWeight'[v])
                 PROVE  AddsUp(encryptedValidatorWeight[v])'
      BY DEF TotalsAddUp
    <2>1. CASE v = d
      BY <1>1, <2>1, CreditAddsUp
    <2>2. CASE v # d
      <3> DEFINE T == encryptedValidatorWeight[v].terms
      <3>1. encryptedValidatorWeight'[v] = encryptedValidatorWeight[v]
        BY <1>1, <2>2 DEF SubmitEncryptedDelegation, TypeOK
      <3>2. AddsUp(encryptedValidatorWeight[v])
        BY <3>1 DEF TotalsAddUp
      <3>3. /\ delegationCount \in Nat /\ delegationCount' = delegationCount + 1
            /\ \A i \in 1 .. delegationCount : encryptedDelegations'[i] = encryptedDelegations[i]
        BY <1>1, DelegationEffect
      <3>4. \A i \in T : Weights'[i] = Weights[i]
        BY <3>2, <3>3 DEF Weights, AddsUp
      <3>5. Units(T, Weights') = Units(T, Weights)
        BY <3>4 DEF Units
      <3>6. T \subseteq 1 .. delegationCount'
        BY <3>2, <3>3 DEF AddsUp
      <3> QED
        BY <3>1, <3>2, <3>5, <3>6 DEF AddsUp
    <2> QED
      BY <2>1, <2>2
  <1>2. ASSUME NEW S \in SUBSET Hashes, EmergencyResetWeights(S) PROVE TotalsAddUp'
    <2>1. \A v \in Hashes : encryptedValidatorWeight'[v] \in {NoHandle, encryptedValidatorWeight[v]}
      BY <1>2 DEF EmergencyResetWeights
    <2>2. UNCHANGED <<delegationCount, encryptedDelegations>>
      BY <1>2 DEF EmergencyResetWeights, recordVars
    <2> QED
      BY <2>1, <2>2 DEF TotalsAddUp, AddsUp, Weights, IsInitialized
  <1>3. ASSUME UNCHANGED <<delegationCount, encryptedDelegations, encryptedValidatorWeight>>
        PROVE  TotalsAddUp'
    BY <1>3 DEF TotalsAddUp, AddsUp, Weights
  <1>4. \/ \E h, v \in Hashes, w \in Euint32 : SubmitEncryptedDelegation(h, v, w)
        \/ \E S \in SUBSET Hashes : EmergencyResetWeights(S)
        \/ UNCHANGED <<delegationCount, encryptedDelegations, encryptedValidatorWeight>>
    BY StepCases DEF SubmitEncryptedVote, CreateProposal, RequestDecryptionForValidatorWeight,
                     RequestDecryptionForAggregatedVotes, FileRequest, Quiet
  <1> QED
    BY <1>1, <1>2, <1>3, <1>4

\* The sum that the property speaks of counts units.
LEMMA WeightSum ==
    ASSUME TypeOK, NEW S \in SUBSET (1 .. delegationCount)
    PROVE  MapThenSumSet(WeightOf, S) = Cardinality(Units(S, Weights))
  <1> DEFINE Solves(g) == g = [T \in SUBSET S |-> IF T = {} THEN 0 ELSE WeightOf(Pick(T)) + g[T \ {Pick(T)}]]
             f == CHOOSE g : Solves(g)
  <1>1. IsFiniteSet(S) /\ \A i \in S : Weights[i] \in Nat /\ Weights[i] = WeightOf(i)
    BY WeightTypes DEF WeightOf
  <1>2. \A T \in SUBSET S : T # {} => WeightOf(Pick(T)) = Weights[Pick(T)]
    BY <1>1 DEF Pick
  <1>3. ASSUME NEW g PROVE Solves(g) <=> IsSum(g, S, Weights)
    BY <1>2 DEF IsSum
  <1>4. \E g : Solves(g)
    BY <1>1, <1>3, CountIsSum
  <1>5. MapThenSumSet(WeightOf, S) = f[S]
    BY DEF MapThenSumSet, MapThenFoldSet, Pick
  <1>6. Solves(f)
    BY <1>4
  <1> HIDE DEF f, Solves
  <1>7. IsSum(f, S, Weights)
    BY <1>3, <1>6
  <1> QED
    BY <1>1, <1>5, <1>7, SumIsCount

\* The weight a validator's total decrypts to is the sum of the weights it
\* counts, modulo 2^64, and exactly that sum for up to 2^32 + 1 of them: the
\* addition of submitEncryptedDelegation is made in 64 bits.
THEOREM SumCorrect == Spec => []WeightDecryptsToSum
  <1>1. Init => TotalsAddUp
    BY DEF Init, TotalsAddUp, IsInitialized
  <1>2. TypeOK /\ TotalsAddUp => WeightDecryptsToSum
    <2> SUFFICES ASSUME TypeOK, TotalsAddUp,
                        NEW v \in Hashes, IsInitialized(encryptedValidatorWeight[v])
                 PROVE  LET total == encryptedValidatorWeight[v]
                            sum   == MapThenSumSet(WeightOf, total.terms)
                        IN  /\ total.value = sum % Euint64Size
                            /\ Cardinality(total.terms) <= Euint32Size + 1 => total.value = sum
      BY DEF WeightDecryptsToSum
    <2> DEFINE total == encryptedValidatorWeight[v]
               sum   == MapThenSumSet(WeightOf, total.terms)
               many  == Cardinality(total.terms)
    <2>1. AddsUp(total) /\ total.value \in 0 .. Euint64Size - 1
      BY DEF TotalsAddUp, TypeOK, Handle64, IsInitialized
    <2>2. total.terms \in SUBSET (1 .. delegationCount)
      BY <2>1 DEF AddsUp
    <2>3. sum \in Nat /\ sum = Cardinality(Units(total.terms, Weights))
      BY <2>2, WeightSum, WeightTypes
    <2>4. PICK turns \in Nat : sum = total.value + turns * Euint64Size
      BY <2>1, <2>3 DEF AddsUp
    <2>5. sum % Euint64Size = total.value
      BY <2>1, <2>3, <2>4, WidthPositive, TurnsVanish
    <2>6. many \in Nat /\ sum <= many * (Euint32Size - 1)
      <3>1. IsFiniteSet(total.terms)
        BY <2>2, WeightTypes
      <3>2. \A i \in total.terms : Weights[i] \in Nat /\ Weights[i] <= Euint32Size - 1
        BY <2>2, WeightTypes
      <3>3. Euint32Size - 1 \in Nat
        BY WidthAssumption
      <3> QED
        BY <2>3, <3>1, <3>2, <3>3, UnitsBound, FS_CardinalityType
    <2> HIDE DEF total, sum, many
    <2>7. ASSUME many <= Euint32Size + 1 PROVE turns = 0
      <3>1. many * (Euint32Size - 1) <= (Euint32Size + 1) * (Euint32Size - 1)
        <4>1. \A a, b, c \in Nat : a <= b => a * c <= b * c
          OBVIOUS
        <4>2. Euint32Size - 1 \in Nat /\ Euint32Size + 1 \in Nat
          BY WidthAssumption
        <4> QED
          BY <2>6, <2>7, <4>1, <4>2
      <3>2. (Euint32Size + 1) * (Euint32Size - 1) = Euint64Size - 1
        BY WidthAssumption
      <3>3. sum < Euint64Size
        BY <2>3, <2>6, <3>1, <3>2, WidthPositive, WidthAssumption
      <3>4. \A a, b \in Nat : a # 0 => b <= a * b
        OBVIOUS
      <3> QED
        BY <2>1, <2>3, <2>4, <3>3, <3>4, WidthPositive
    <2> QED
      BY <2>1, <2>4, <2>5, <2>7, WidthPositive DEF total, sum, many
  <1> QED
    BY <1>1, <1>2, AddsUpStep, TypeCorrect, PTL DEF Spec

----------------------------------------------------------------------------
\* Tally requests list exactly the ballots cast so far

\* What BallotRequestIsComplete says of one request, with its purpose and list.
BallotsComplete(purpose, list, votes, count) ==
    LET cast == {i \in 1 .. count : votes[i].proposalId = purpose.subject}
    IN  purpose.tag = "proposal_votes" =>
            /\ DOMAIN list # {} /\ DOMAIN list \subseteq cast
            /\ \A i \in DOMAIN list :
                   /\ list[i] = votes[i].encryptedChoice
                   /\ votes[i].timestamp <= purpose.time
            /\ \A i \in cast \ DOMAIN list :
                   /\ votes[i].timestamp >= purpose.time
                   /\ \A j \in DOMAIN list : j < i

\* The property says BallotsComplete of every request id handed out.
LEMMA BallotsCompleteEquiv ==
    ASSUME TypeOK
    PROVE  BallotRequestIsComplete <=>
               \A r \in 0 .. counterRequest - 1 :
                   BallotsComplete(decryptionRequestPurpose[r], requestedHandles[r],
                                   encryptedVotes, voteCount)
  <1>1. DOMAIN decryptionRequestPurpose = 0 .. counterRequest - 1
    BY DEF TypeOK
  <1> QED
    BY <1>1 DEF BallotRequestIsComplete, BallotsComplete

\* A vote cast after a request, in its block or later, does not spoil it.
LEMMA LaterVoteKeepsBallots ==
    ASSUME NEW purpose, NEW list, NEW votes, NEW votes2, NEW count \in Nat,
           BallotsComplete(purpose, list, votes, count),
           \A i \in 1 .. count : votes2[i] = votes[i],
           votes2[count + 1].timestamp >= purpose.time
    PROVE  BallotsComplete(purpose, list, votes2, count + 1)
  <1> SUFFICES ASSUME purpose.tag = "proposal_votes"
               PROVE  BallotsComplete(purpose, list, votes2, count + 1)
    BY DEF BallotsComplete
  <1> DEFINE cast  == {i \in 1 .. count : votes[i].proposalId = purpose.subject}
             cast2 == {i \in 1 .. count + 1 : votes2[i].proposalId = purpose.subject}
  <1>1. cast \subseteq cast2 /\ cast2 \subseteq cast \cup {count + 1}
    OBVIOUS
  <1>2. cast \subseteq 1 .. count
    OBVIOUS
  <1>3. /\ DOMAIN list # {} /\ DOMAIN list \subseteq cast
        /\ \A i \in DOMAIN list : /\ list[i] = votes[i].encryptedChoice
                                  /\ votes[i].timestamp <= purpose.time
        /\ \A i \in cast \ DOMAIN list : /\ votes[i].timestamp >= purpose.time
                                         /\ \A j \in DOMAIN list : j < i
    BY DEF BallotsComplete
  <1>4. \A i \in cast : votes2[i] = votes[i]
    OBVIOUS
  <1> HIDE DEF cast
  <1>5. \A i \in DOMAIN list : /\ list[i] = votes2[i].encryptedChoice
                               /\ votes2[i].timestamp <= purpose.time
    BY <1>3, <1>4
  <1>6. ASSUME NEW i \in cast2, i \notin DOMAIN list
        PROVE  votes2[i].timestamp >= purpose.time /\ \A j \in DOMAIN list : j < i
    <2>1. CASE i \in cast
      BY <1>3, <1>4, <1>6, <2>1
    <2>2. CASE i = count + 1
      <3>1. \A j \in DOMAIN list : j \in 1 .. count
        BY <1>2, <1>3
      <3>2. \A j \in DOMAIN list : j < i
        BY <2>2, <3>1
      <3>3. votes2[i].timestamp >= purpose.time
        BY <2>2
      <3> QED
        BY <3>2, <3>3
    <2> QED
      BY <1>1, <2>1, <2>2
  <1>7. DOMAIN list # {} /\ DOMAIN list \subseteq cast2
    BY <1>1, <1>3
  <1> QED
    BY <1>5, <1>6, <1>7 DEF BallotsComplete

\* A new request is complete, and no step spoils an earlier one.
LEMMA BallotStep ==
    TypeOK /\ ClockBounds /\ BallotRequestIsComplete /\ [Next]_vars => BallotRequestIsComplete'
  <1> SUFFICES ASSUME TypeOK, ClockBounds, BallotRequestIsComplete, [Next]_vars
               PROVE  BallotRequestIsComplete'
    OBVIOUS
  <1> DEFINE Complete(r) == BallotsComplete(decryptionRequestPurpose[r], requestedHandles[r],
                                            encryptedVotes, voteCount)
  <1>1. \A r \in 0 .. counterRequest - 1 : Complete(r)
    BY BallotsCompleteEquiv
  <1>2. TypeOK'
    BY TypeStep
  <1>3. SUFFICES \A r \in 0 .. counterRequest' - 1 :
                     BallotsComplete(decryptionRequestPurpose'[r], requestedHandles'[r],
                                     encryptedVotes', voteCount')
    <2>1. TypeOK' => (BallotRequestIsComplete' <=>
               \A r \in 0 .. counterRequest' - 1 :
                   BallotsComplete(decryptionRequestPurpose'[r], requestedHandles'[r],
                                   encryptedVotes', voteCount'))
      <3>1. TypeOK' => DOMAIN decryptionRequestPurpose' = 0 .. counterRequest' - 1
        BY DEF TypeOK
      <3> QED
        BY <3>1 DEF BallotRequestIsComplete, BallotsComplete
    <2> QED
      BY <1>2, <2>1
  <1>4. ASSUME NEW h \in Hashes, NEW p \in 0 .. MaxProposals + 1, NEW c \in Ciphertexts,
               SubmitEncryptedVote(h, p, c), NEW r \in 0 .. counterRequest' - 1
        PROVE  BallotsComplete(decryptionRequestPurpose'[r], requestedHandles'[r],
                               encryptedVotes', voteCount')
    <2>1. UNCHANGED <<decryptionRequestPurpose, requestedHandles, counterRequest>>
      BY <1>4 DEF SubmitEncryptedVote
    <2>2. Complete(r) /\ decryptionRequestPurpose[r].time <= now
      BY <1>1, <2>1, <1>4 DEF ClockBounds
    <2>3. /\ voteCount \in Nat /\ voteCount' = voteCount + 1
          /\ \A i \in 1 .. voteCount : encryptedVotes'[i] = encryptedVotes[i]
          /\ encryptedVotes'[voteCount + 1].timestamp = now
      BY <1>4, VoteEffect
    <2>4. encryptedVotes'[voteCount + 1].timestamp >= decryptionRequestPurpose[r].time
      BY <1>4, <2>1, <2>2, <2>3, ClockTypes
    <2> QED
      BY <2>1, <2>2, <2>3, <2>4, LaterVoteKeepsBallots
  <1>5. ASSUME NEW handles \in HandleLists, NEW purpose \in Purpose,
               FileRequest(handles, purpose),
               BallotsComplete(purpose, handles, encryptedVotes, voteCount),
               NEW r \in 0 .. counterRequest' - 1
        PROVE  BallotsComplete(decryptionRequestPurpose'[r], requestedHandles'[r],
                               encryptedVotes', voteCount')
    <2>1. UNCHANGED <<encryptedVotes, voteCount>>
      BY <1>5 DEF FileRequest
    <2>2. counterRequest \in Nat /\ (r \in 0 .. counterRequest - 1 \/ r = counterRequest)
      BY <1>5, RequestEffect
    <2> QED
      BY <1>1, <1>5, <2>1, <2>2, RequestEffect
  <1>6. ASSUME NEW v \in Hashes, RequestDecryptionForValidatorWeight(v),
               NEW r \in 0 .. counterRequest' - 1
        PROVE  BallotsComplete(decryptionRequestPurpose'[r], requestedHandles'[r],
                               encryptedVotes', voteCount')
    <2> DEFINE list    == [j \in {1} |-> encryptedValidatorWeight[v]]
               purpose == [tag |-> "validator_weight", subject |-> v, time |-> now]
    <2>1. BallotsComplete(purpose, list, encryptedVotes, voteCount)
      BY DEF BallotsComplete
    <2>2. list \in HandleLists /\ purpose \in Purpose
      BY <1>6, WeightRequestType
    <2>3. FileRequest(list, purpose)
      BY <1>6 DEF RequestDecryptionForValidatorWeight
    <2> QED
      BY <1>5, <1>6, <2>1, <2>2, <2>3
  <1>7. ASSUME NEW p \in 0 .. MaxProposals + 1, RequestDecryptionForAggregatedVotes(p),
               NEW r \in 0 .. counterRequest' - 1
        PROVE  BallotsComplete(decryptionRequestPurpose'[r], requestedHandles'[r],
                               encryptedVotes', voteCount')
    <2> DEFINE list    == [i \in VotesFor(p) |-> encryptedVotes[i].encryptedChoice]
               purpose == [tag |-> "proposal_votes", subject |-> p, time |-> now]
    <2>1. VotesFor(p) # {}
      BY <1>7 DEF RequestDecryptionForAggregatedVotes
    <2>2. \A i \in VotesFor(p) : encryptedVotes[i].timestamp <= now
      BY DEF ClockBounds, VotesFor
    <2>3. BallotsComplete(purpose, list, encryptedVotes, voteCount)
      BY <2>1, <2>2 DEF BallotsComplete, VotesFor
    <2>4. list \in HandleLists /\ purpose \in Purpose
      BY <1>7, BallotRequestType
    <2>5. FileRequest(list, purpose)
      BY <1>7 DEF RequestDecryptionForAggregatedVotes
    <2> QED
      BY <1>5, <1>7, <2>3, <2>4, <2>5
  <1>8. ASSUME UNCHANGED <<decryptionRequestPurpose, requestedHandles, counterRequest,
                           encryptedVotes, voteCount>>
        PROVE  \A r \in 0 .. counterRequest' - 1 :
                   BallotsComplete(decryptionRequestPurpose'[r], requestedHandles'[r],
                                   encryptedVotes', voteCount')
    BY <1>1, <1>8
  <1>9. \/ \E h \in Hashes, p \in 0 .. MaxProposals + 1, c \in Ciphertexts :
               SubmitEncryptedVote(h, p, c)
        \/ \E v \in Hashes : RequestDecryptionForValidatorWeight(v)
        \/ \E p \in 0 .. MaxProposals + 1 : RequestDecryptionForAggregatedVotes(p)
        \/ UNCHANGED <<decryptionRequestPurpose, requestedHandles, counterRequest,
                       encryptedVotes, voteCount>>
    BY StepCases DEF SubmitEncryptedDelegation, CreateProposal, EmergencyResetWeights, Quiet
  <1> QED
    BY <1>4, <1>6, <1>7, <1>8, <1>9

\* A tally request is a consistent snapshot in every reachable state: only the
\* proposal's ballots, all those cast before the request's block, and no gap.
THEOREM BallotsCorrect == Spec => []BallotRequestIsComplete
  <1>1. Init => BallotRequestIsComplete
    BY DEF Init, BallotRequestIsComplete
  <1> QED
    BY <1>1, BallotStep, TypeCorrect, ClockCorrect, PTL DEF Spec

----------------------------------------------------------------------------
\* Requests and their answers

USE DEF recordVars, requestVars

----------------------------------------------------------------------------
\* Written once

\* Filling the next free entry of a mapping extends it.
LEMMA PutExtends ==
    ASSUME NEW f, NEW k, NEW v, k \notin DOMAIN f
    PROVE  Extends(f, Put(f, k, v))
  BY DEF Extends, Put

\* The entries both counters point at are free: none is written a second time.
LEMMA NextEntriesAreFree ==
    ASSUME TypeOK
    PROVE  /\ proposalCount + 1 \notin DOMAIN proposals
           /\ stakeEntryCount + 1 \notin DOMAIN encryptedStakes
           /\ delegationCount + 1 \notin DOMAIN encryptedDelegations
           /\ voteCount + 1 \notin DOMAIN encryptedVotes
           /\ counterRequest \notin DOMAIN decryptionRequestPurpose
           /\ counterRequest \notin DOMAIN requestedHandles
  <1>1. \A n \in Nat : n + 1 \notin 1 .. n /\ n \notin 0 .. n - 1
    OBVIOUS
  <1>2. /\ proposalCount \in Nat /\ stakeEntryCount \in Nat /\ delegationCount \in Nat
        /\ voteCount \in Nat /\ counterRequest \in Nat
    BY BoundsAreNat DEF TypeOK
  <1>3. /\ DOMAIN proposals = 1 .. proposalCount
        /\ DOMAIN encryptedStakes = 1 .. stakeEntryCount
        /\ DOMAIN encryptedDelegations = 1 .. delegationCount
        /\ DOMAIN encryptedVotes = 1 .. voteCount
        /\ DOMAIN decryptionRequestPurpose = 0 .. counterRequest - 1
        /\ DOMAIN requestedHandles = 0 .. counterRequest - 1
    BY DEF TypeOK
  <1> QED
    BY <1>1, <1>2, <1>3

\* No transaction alters or removes a stake, a delegation, a vote, a proposal,
\* or what a request asked for.
THEOREM RecordsStay == Spec => RecordsAreImmutable
  <1> DEFINE Kept == /\ Extends(proposals, proposals')
                     /\ Extends(encryptedStakes, encryptedStakes')
                     /\ Extends(encryptedDelegations, encryptedDelegations')
                     /\ Extends(encryptedVotes, encryptedVotes')
                     /\ Extends(decryptionRequestPurpose, decryptionRequestPurpose')
                     /\ Extends(requestedHandles, requestedHandles')
  <1>1. \A f : Extends(f, f)
    BY DEF Extends
  <1>2. ASSUME TypeOK, [Next]_vars PROVE Kept
    <2> USE <1>1, <1>2, NextEntriesAreFree, PutExtends
    <2>1. ASSUME NEW a \in Ciphertexts, NEW h \in Hashes, SubmitEncryptedStake(a, h) PROVE Kept
      BY <2>1 DEF SubmitEncryptedStake
    <2>2. ASSUME NEW h \in Hashes, NEW v \in Hashes, NEW w \in Euint32,
                 SubmitEncryptedDelegation(h, v, w)
          PROVE  Kept
      BY <2>2 DEF SubmitEncryptedDelegation
    <2>3. ASSUME NEW h \in Hashes, NEW p \in 0 .. MaxProposals + 1, NEW c \in Ciphertexts,
                 SubmitEncryptedVote(h, p, c)
          PROVE  Kept
      BY <2>3 DEF SubmitEncryptedVote
    <2>4. ASSUME CreateProposal PROVE Kept
      BY <2>4 DEF CreateProposal
    <2>5. ASSUME NEW handles, NEW purpose, FileRequest(handles, purpose) PROVE Kept
      BY <2>5 DEF FileRequest, FheRequestDecryption, PurposesWith
    <2>6. ASSUME NEW v \in Hashes, RequestDecryptionForValidatorWeight(v) PROVE Kept
      BY <2>5, <2>6 DEF RequestDecryptionForValidatorWeight
    <2>7. ASSUME NEW p \in 0 .. MaxProposals + 1, RequestDecryptionForAggregatedVotes(p) PROVE Kept
      BY <2>5, <2>7 DEF RequestDecryptionForAggregatedVotes
    <2>8. ASSUME NEW r \in 0 .. MaxRequests, KmsSign(r) \/ OnDecryptCallback(r) PROVE Kept
      BY <2>8 DEF KmsSign, OnDecryptCallback
    <2>9. ASSUME NEW S \in SUBSET Hashes, EmergencyResetWeights(S) PROVE Kept
      BY <2>9 DEF EmergencyResetWeights
    <2>10. ASSUME AcceptEther \/ Tick \/ UNCHANGED vars PROVE Kept
      BY <2>10 DEF AcceptEther, Tick, vars
    <2> QED
      BY <2>1, <2>2, <2>3, <2>4, <2>6, <2>7, <2>8, <2>9, <2>10 DEF Next
  <1>3. TypeOK /\ [Next]_vars => [Kept]_vars
    BY <1>2
  <1> QED
    BY <1>3, TypeCorrect, PTL DEF Spec, RecordsAreImmutable
----------------------------------------------------------------------------
\* Later tallies extend earlier ones

\* A step files a weight request, files a tally request, or leaves all requests
\* as they are.
LEMMA RequestCases ==
    ASSUME TypeOK, [Next]_vars
    PROVE  \/ \E v \in Hashes : RequestDecryptionForValidatorWeight(v)
           \/ \E p \in 0 .. MaxProposals + 1 : RequestDecryptionForAggregatedVotes(p)
           \/ UNCHANGED <<decryptionRequestPurpose, counterRequest, requestedHandles>>
  BY StepCases DEF SubmitEncryptedDelegation, SubmitEncryptedVote, CreateProposal,
                   EmergencyResetWeights, Quiet

\* A new tally lists all ballots cast, so all that an earlier one lists.
LEMMA LaterTallyStep ==
    TypeOK /\ BallotRequestIsComplete /\ LaterTallyExtendsEarlier /\ [Next]_vars
        => LaterTallyExtendsEarlier'
  <1> SUFFICES ASSUME TypeOK, BallotRequestIsComplete, LaterTallyExtendsEarlier, [Next]_vars
               PROVE  LaterTallyExtendsEarlier'
    OBVIOUS
  <1>1. ASSUME NEW handles \in HandleLists, NEW purpose \in Purpose,
               FileRequest(handles, purpose),
               purpose.tag = "proposal_votes" =>
                   handles = [i \in VotesFor(purpose.subject) |-> encryptedVotes[i].encryptedChoice]
        PROVE  LaterTallyExtendsEarlier'
    <2> SUFFICES ASSUME NEW r \in DOMAIN decryptionRequestPurpose',
                        NEW s \in DOMAIN decryptionRequestPurpose', r < s,
                        decryptionRequestPurpose'[r].tag = "proposal_votes",
                        decryptionRequestPurpose'[s].tag = "proposal_votes",
                        decryptionRequestPurpose'[r].subject = decryptionRequestPurpose'[s].subject,
                        NEW i \in DOMAIN requestedHandles'[r]
                 PROVE  /\ i \in DOMAIN requestedHandles'[s]
                        /\ requestedHandles'[s][i] = requestedHandles'[r][i]
      BY DEF LaterTallyExtendsEarlier
    <2>1. counterRequest \in Nat /\ r \in 0 .. counterRequest /\ s \in 0 .. counterRequest
      BY <1>1, RequestEffect
    <2>2. /\ r \in DOMAIN decryptionRequestPurpose
          /\ decryptionRequestPurpose'[r] = decryptionRequestPurpose[r]
          /\ requestedHandles'[r] = requestedHandles[r]
      BY <1>1, <2>1, RequestEffect
    <2>3. CASE s = counterRequest
      <3>1. purpose.tag = "proposal_votes" /\ purpose.subject = decryptionRequestPurpose[r].subject
        BY <1>1, <2>2, <2>3, RequestEffect
      <3>2. /\ requestedHandles'[s] =
                   [j \in VotesFor(purpose.subject) |-> encryptedVotes[j].encryptedChoice]
        BY <1>1, <2>3, <3>1, RequestEffect
      <3>3. /\ i \in VotesFor(purpose.subject)
            /\ requestedHandles[r][i] = encryptedVotes[i].encryptedChoice
        BY <2>2, <3>1 DEF BallotRequestIsComplete, VotesFor
      <3> QED
        BY <2>2, <3>2, <3>3
    <2>4. CASE s # counterRequest
      <3>1. /\ s \in DOMAIN decryptionRequestPurpose
            /\ decryptionRequestPurpose'[s] = decryptionRequestPurpose[s]
            /\ requestedHandles'[s] = requestedHandles[s]
        BY <1>1, <2>1, <2>4, RequestEffect
      <3> QED
        BY <2>2, <3>1 DEF LaterTallyExtendsEarlier
    <2> QED
      BY <2>3, <2>4
  <1>2. ASSUME NEW v \in Hashes, RequestDecryptionForValidatorWeight(v)
        PROVE  LaterTallyExtendsEarlier'
    <2> DEFINE list    == [j \in {1} |-> encryptedValidatorWeight[v]]
               purpose == [tag |-> "validator_weight", subject |-> v, time |-> now]
    <2>1. list \in HandleLists /\ purpose \in Purpose
      BY <1>2, WeightRequestType
    <2>2. FileRequest(list, purpose) /\ purpose.tag # "proposal_votes"
      BY <1>2 DEF RequestDecryptionForValidatorWeight
    <2> HIDE DEF list, purpose
    <2> QED
      BY <1>1, <2>1, <2>2
  <1>3. ASSUME NEW p \in 0 .. MaxProposals + 1, RequestDecryptionForAggregatedVotes(p)
        PROVE  LaterTallyExtendsEarlier'
    <2> DEFINE list    == [i \in VotesFor(p) |-> encryptedVotes[i].encryptedChoice]
               purpose == [tag |-> "proposal_votes", subject |-> p, time |-> now]
    <2>1. list \in HandleLists /\ purpose \in Purpose
      BY <1>3, BallotRequestType
    <2>2. FileRequest(list, purpose)
      BY <1>3 DEF RequestDecryptionForAggregatedVotes
    <2>3. list = [i \in VotesFor(purpose.subject) |-> encryptedVotes[i].encryptedChoice]
      OBVIOUS
    <2> HIDE DEF list, purpose
    <2> QED
      BY <1>1, <2>1, <2>2, <2>3
  <1>4. ASSUME UNCHANGED <<decryptionRequestPurpose, requestedHandles>>
        PROVE  LaterTallyExtendsEarlier'
    BY <1>4 DEF LaterTallyExtendsEarlier
  <1> QED
    BY <1>2, <1>3, <1>4, RequestCases

\* Of two tally requests for a proposal the later lists all the earlier lists.
THEOREM LaterTallyCorrect == Spec => []LaterTallyExtendsEarlier
  <1>1. Init => LaterTallyExtendsEarlier
    BY DEF Init, LaterTallyExtendsEarlier
  <1> QED
    BY <1>1, LaterTallyStep, TypeCorrect, BallotsCorrect, PTL DEF Spec
----------------------------------------------------------------------------
\* Weight requests ask for the total of a moment

\* What WeightRequestIsComplete says of one request, given its purpose, its list
\* and the first count delegations.
WeightComplete(purpose, list, dels, count) ==
    LET made == {i \in 1 .. count : dels[i].delegateeHash = purpose.subject}
    IN  purpose.tag = "validator_weight" =>
            /\ DOMAIN list = {1}
            /\ list[1].terms # {} /\ list[1].terms \subseteq made
            /\ \A i \in list[1].terms :
                   /\ dels[i].timestamp <= purpose.time
                   /\ \A j \in made : i < j /\ dels[j].timestamp < purpose.time
                                         => j \in list[1].terms

\* The property says WeightComplete of every request.
LEMMA WeightCompleteEquiv ==
    WeightRequestIsComplete <=>
        \A r \in DOMAIN decryptionRequestPurpose :
            WeightComplete(decryptionRequestPurpose[r], requestedHandles[r],
                           encryptedDelegations, delegationCount)
  BY DEF WeightRequestIsComplete, WeightComplete, DelegationsTo

\* A delegation made after a request, in its block or later, does not spoil it.
LEMMA LaterDelegationKeepsWeight ==
    ASSUME NEW purpose, NEW list, NEW dels, NEW dels2, NEW count \in Nat,
           WeightComplete(purpose, list, dels, count),
           \A i \in 1 .. count : dels2[i] = dels[i],
           ~ (dels2[count + 1].timestamp < purpose.time)
    PROVE  WeightComplete(purpose, list, dels2, count + 1)
  <1> SUFFICES ASSUME purpose.tag = "validator_weight"
               PROVE  WeightComplete(purpose, list, dels2, count + 1)
    BY DEF WeightComplete
  <1> DEFINE made  == {i \in 1 .. count : dels[i].delegateeHash = purpose.subject}
             made2 == {i \in 1 .. count + 1 : dels2[i].delegateeHash = purpose.subject}
  <1>1. made \subseteq made2 /\ made2 \subseteq made \cup {count + 1}
    OBVIOUS
  <1>2. \A i \in made : dels2[i] = dels[i]
    OBVIOUS
  <1>3. /\ DOMAIN list = {1}
        /\ list[1].terms # {} /\ list[1].terms \subseteq made
        /\ \A i \in list[1].terms :
               /\ dels[i].timestamp <= purpose.time
               /\ \A j \in made : i < j /\ dels[j].timestamp < purpose.time
                                     => j \in list[1].terms
    BY DEF WeightComplete
  <1> HIDE DEF made
  <1>4. list[1].terms \subseteq made2
    BY <1>1, <1>3
  <1>5. ASSUME NEW i \in list[1].terms
        PROVE  /\ dels2[i].timestamp <= purpose.time
               /\ \A j \in made2 : i < j /\ dels2[j].timestamp < purpose.time
                                      => j \in list[1].terms
    BY <1>1, <1>2, <1>3, <1>5
  <1> QED
    BY <1>3, <1>4, <1>5 DEF WeightComplete

\* A new weight request asks for a total that counts a suffix of the
\* delegations so far; later delegations are not dated before its block.
LEMMA WeightRequestStep ==
    TypeOK /\ ClockBounds /\ WeightCountsWholeSuffix /\ WeightRequestIsComplete /\ [Next]_vars
        => WeightRequestIsComplete'
  <1> SUFFICES ASSUME TypeOK, ClockBounds, WeightCountsWholeSuffix, WeightRequestIsComplete,
                      [Next]_vars
               PROVE  WeightRequestIsComplete'
    OBVIOUS
  <1>1. \A r \in DOMAIN decryptionRequestPurpose :
            WeightComplete(decryptionRequestPurpose[r], requestedHandles[r],
                           encryptedDelegations, delegationCount)
    BY WeightCompleteEquiv
  <1>2. SUFFICES \A r \in DOMAIN decryptionRequestPurpose' :
                     WeightComplete(decryptionRequestPurpose'[r], requestedHandles'[r],
                                    encryptedDelegations', delegationCount')
    BY DEF WeightRequestIsComplete, WeightComplete, DelegationsTo
  <1>3. ASSUME NEW h \in Hashes, NEW v \in Hashes, NEW w \in Euint32,
               SubmitEncryptedDelegation(h, v, w), NEW r \in DOMAIN decryptionRequestPurpose'
        PROVE  WeightComplete(decryptionRequestPurpose'[r], requestedHandles'[r],
                              encryptedDelegations', delegationCount')
    <2>1. UNCHANGED <<decryptionRequestPurpose, requestedHandles>>
      BY <1>3 DEF SubmitEncryptedDelegation
    <2>2. r \in 0 .. counterRequest - 1
      BY <1>3, <2>1 DEF TypeOK
    <2>3. /\ now \in Int /\ decryptionRequestPurpose[r].time \in Int
          /\ decryptionRequestPurpose[r].time <= now
      BY <2>2, ClockTypes DEF ClockBounds
    <2>4. ~ (encryptedDelegations'[delegationCount + 1].timestamp < decryptionRequestPurpose[r].time)
      BY <1>3, <2>3, DelegationEffect
    <2> QED
      BY <1>1, <1>3, <2>1, <2>4, DelegationEffect, LaterDelegationKeepsWeight
  <1>4. ASSUME NEW handles \in HandleLists, NEW purpose \in Purpose,
               FileRequest(handles, purpose),
               WeightComplete(purpose, handles, encryptedDelegations, delegationCount),
               NEW r \in DOMAIN decryptionRequestPurpose'
        PROVE  WeightComplete(decryptionRequestPurpose'[r], requestedHandles'[r],
                              encryptedDelegations', delegationCount')
    <2>1. UNCHANGED <<encryptedDelegations, delegationCount>>
      BY <1>4 DEF FileRequest
    <2>2. counterRequest \in Nat /\ r \in 0 .. counterRequest
      BY <1>4, RequestEffect
    <2>3. CASE r = counterRequest
      BY <1>4, <2>1, <2>3, RequestEffect
    <2>4. CASE r \in 0 .. counterRequest - 1
      BY <1>1, <1>4, <2>1, <2>4, RequestEffect
    <2> QED
      BY <2>2, <2>3, <2>4
  <1>5. ASSUME NEW v \in Hashes, RequestDecryptionForValidatorWeight(v),
               NEW r \in DOMAIN decryptionRequestPurpose'
        PROVE  WeightComplete(decryptionRequestPurpose'[r], requestedHandles'[r],
                              encryptedDelegations', delegationCount')
    <2> DEFINE list    == [j \in {1} |-> encryptedValidatorWeight[v]]
               purpose == [tag |-> "validator_weight", subject |-> v, time |-> now]
               terms   == encryptedValidatorWeight[v].terms
    <2>1. /\ terms # {} /\ terms \subseteq DelegationsTo(v)
          /\ \A i \in terms, j \in DelegationsTo(v) : i < j => j \in terms
      BY <1>5 DEF WeightCountsWholeSuffix, RequestDecryptionForValidatorWeight
    <2>2. \A i \in terms : encryptedDelegations[i].timestamp <= now
      BY <2>1 DEF ClockBounds, DelegationsTo
    <2>3. WeightComplete(purpose, list, encryptedDelegations, delegationCount)
      BY <2>1, <2>2 DEF WeightComplete, DelegationsTo
    <2>4. list \in HandleLists /\ purpose \in Purpose
      BY <1>5, WeightRequestType
    <2>5. FileRequest(list, purpose)
      BY <1>5 DEF RequestDecryptionForValidatorWeight
    <2> HIDE DEF list, purpose
    <2> QED
      BY <1>4, <1>5, <2>3, <2>4, <2>5
  <1>6. ASSUME NEW p \in 0 .. MaxProposals + 1, RequestDecryptionForAggregatedVotes(p),
               NEW r \in DOMAIN decryptionRequestPurpose'
        PROVE  WeightComplete(decryptionRequestPurpose'[r], requestedHandles'[r],
                              encryptedDelegations', delegationCount')
    <2> DEFINE list    == [i \in VotesFor(p) |-> encryptedVotes[i].encryptedChoice]
               purpose == [tag |-> "proposal_votes", subject |-> p, time |-> now]
    <2>1. WeightComplete(purpose, list, encryptedDelegations, delegationCount)
      BY DEF WeightComplete
    <2>2. list \in HandleLists /\ purpose \in Purpose
      BY <1>6, BallotRequestType
    <2>3. FileRequest(list, purpose)
      BY <1>6 DEF RequestDecryptionForAggregatedVotes
    <2> HIDE DEF list, purpose
    <2> QED
      BY <1>4, <1>6, <2>1, <2>2, <2>3
  <1>7. ASSUME UNCHANGED <<decryptionRequestPurpose, requestedHandles,
                           encryptedDelegations, delegationCount>>
        PROVE  \A r \in DOMAIN decryptionRequestPurpose' :
                   WeightComplete(decryptionRequestPurpose'[r], requestedHandles'[r],
                                  encryptedDelegations', delegationCount')
    BY <1>1, <1>7
  <1>8. \/ \E h, v \in Hashes, w \in Euint32 : SubmitEncryptedDelegation(h, v, w)
        \/ \E v \in Hashes : RequestDecryptionForValidatorWeight(v)
        \/ \E p \in 0 .. MaxProposals + 1 : RequestDecryptionForAggregatedVotes(p)
        \/ UNCHANGED <<decryptionRequestPurpose, requestedHandles,
                       encryptedDelegations, delegationCount>>
    BY StepCases DEF SubmitEncryptedVote, CreateProposal, EmergencyResetWeights, Quiet
  <1> QED
    BY <1>3, <1>5, <1>6, <1>7, <1>8

\* A weight request asks for one total of delegations to its validator, made no
\* later than its block, and misses none made in between.
THEOREM WeightRequestCorrect == Spec => []WeightRequestIsComplete
  <1>1. Init => WeightRequestIsComplete
    BY DEF Init, WeightRequestIsComplete
  <1> QED
    BY <1>1, WeightRequestStep, TypeCorrect, ClockCorrect, WeightCorrect, PTL DEF Spec
----------------------------------------------------------------------------
\* Completions match requests and are signed

\* Emitting an event keeps the earlier ones in their places.
LEMMA EmitEffect ==
    ASSUME NEW L \in Seq(Event), NEW e \in Event
    PROVE  /\ Len(L) \in Nat
           /\ DOMAIN L = 1 .. Len(L) /\ DOMAIN Append(L, e) = 1 .. Len(L) + 1
           /\ \A k \in 1 .. Len(L) : Append(L, e)[k] = L[k]
           /\ Append(L, e)[Len(L) + 1] = e
  OBVIOUS

\* The log up to the latest event: all its ids were handed out by the library,
\* and every id handed out was announced with the purpose recorded for it.
LogBounds ==
    /\ \A k \in DOMAIN log : log[k].requestId \in 0 .. counterRequest - 1
    /\ \A r \in 0 .. counterRequest - 1 :
           \E j \in DOMAIN log : /\ log[j].event = "DecryptionRequested"
                                 /\ log[j].requestId = r
                                 /\ log[j].purpose = decryptionRequestPurpose[r]

\* A step files a request, delivers an answer, or leaves the log and the
\* requests as they are; only the KMS adds signatures.
LEMMA LogCases ==
    ASSUME TypeOK, [Next]_vars
    PROVE  \/ \E handles \in HandleLists, purpose \in Purpose : FileRequest(handles, purpose)
           \/ \E r \in 0 .. MaxRequests : OnDecryptCallback(r)
           \/ /\ UNCHANGED <<log, decryptionRequestPurpose, counterRequest, requestedHandles>>
              /\ kmsSigned \subseteq kmsSigned'
  <1>1. ASSUME NEW v \in Hashes, RequestDecryptionForValidatorWeight(v)
        PROVE  \E handles \in HandleLists, purpose \in Purpose : FileRequest(handles, purpose)
    BY <1>1, WeightRequestType DEF RequestDecryptionForValidatorWeight
  <1>2. ASSUME NEW p \in 0 .. MaxProposals + 1, RequestDecryptionForAggregatedVotes(p)
        PROVE  \E handles \in HandleLists, purpose \in Purpose : FileRequest(handles, purpose)
    BY <1>2, BallotRequestType DEF RequestDecryptionForAggregatedVotes
  <1> DEFINE Same == /\ UNCHANGED <<log, decryptionRequestPurpose, counterRequest, requestedHandles>>
                     /\ kmsSigned \subseteq kmsSigned'
  <1>3. ASSUME NEW r \in 0 .. MaxRequests, KmsSign(r) PROVE Same
    BY <1>3 DEF KmsSign
  <1>4. ASSUME NEW a \in Ciphertexts, NEW h \in Hashes, SubmitEncryptedStake(a, h) PROVE Same
    BY <1>4 DEF SubmitEncryptedStake
  <1>5. ASSUME NEW h \in Hashes, NEW v \in Hashes, NEW w \in Euint32,
               SubmitEncryptedDelegation(h, v, w)
        PROVE  Same
    BY <1>5 DEF SubmitEncryptedDelegation
  <1>6. ASSUME NEW h \in Hashes, NEW p \in 0 .. MaxProposals + 1, NEW c \in Ciphertexts,
               SubmitEncryptedVote(h, p, c)
        PROVE  Same
    BY <1>6 DEF SubmitEncryptedVote
  <1>7. ASSUME NEW S \in SUBSET Hashes, EmergencyResetWeights(S) PROVE Same
    BY <1>7 DEF EmergencyResetWeights
  <1>8. ASSUME CreateProposal \/ AcceptEther \/ Tick \/ UNCHANGED vars PROVE Same
    BY <1>8 DEF CreateProposal, AcceptEther, Tick, vars
  <1> QED
    BY <1>1, <1>2, <1>3, <1>4, <1>5, <1>6, <1>7, <1>8 DEF Next

\* A request appends its announcement to the log.
LEMMA RequestEvent ==
    ASSUME TypeOK, NEW handles \in HandleLists, NEW purpose \in Purpose,
           FileRequest(handles, purpose)
    PROVE  \E e \in Event : /\ log' = Append(log, e) /\ e.event = "DecryptionRequested"
                            /\ e.requestId = counterRequest /\ e.purpose = purpose
  <1> DEFINE e == [event |-> "DecryptionRequested", requestId |-> counterRequest,
                   purpose |-> purpose]
  <1>1. counterRequest \in 0 .. MaxRequests - 1
    BY BoundsAreNat DEF FileRequest, FheRequestDecryption, TypeOK
  <1>2. e \in Event
    BY <1>1 DEF Event
  <1>3. log' = Append(log, e)
    BY DEF FileRequest
  <1> QED
    BY <1>2, <1>3

\* An accepted answer appends a completion of a request that was filed.
LEMMA AnswerEvent ==
    ASSUME TypeOK, NEW r \in 0 .. MaxRequests, OnDecryptCallback(r)
    PROVE  /\ r \in 0 .. counterRequest - 1
           /\ \E e \in Event : /\ log' = Append(log, e) /\ e.event = "DecryptionCompleted"
                               /\ e.requestId = r /\ e.purpose = decryptionRequestPurpose[r]
  <1> DEFINE e == [event |-> "DecryptionCompleted", requestId |-> r,
                   purpose |-> decryptionRequestPurpose[r]]
  <1>1. r \in 0 .. counterRequest - 1 /\ decryptionRequestPurpose[r] \in Purpose
    BY DEF OnDecryptCallback, TypeOK
  <1>2. r \in 0 .. MaxRequests - 1
    BY <1>1, BoundsAreNat DEF TypeOK
  <1>3. e \in Event
    BY <1>1, <1>2 DEF Event
  <1>4. log' = Append(log, e)
    BY DEF OnDecryptCallback
  <1> QED
    BY <1>1, <1>3, <1>4

\* Both parts of the log's invariant are kept together.
LEMMA LogStep ==
    TypeOK /\ LogBounds /\ CompletionsMatchRequests /\ [Next]_vars
        => LogBounds' /\ CompletionsMatchRequests'
  <1> SUFFICES ASSUME TypeOK, LogBounds, CompletionsMatchRequests, [Next]_vars
               PROVE  LogBounds' /\ CompletionsMatchRequests'
    OBVIOUS
  <1>1. log \in Seq(Event) /\ counterRequest \in Nat
    BY BoundsAreNat DEF TypeOK
  <1>2. ASSUME NEW handles \in HandleLists, NEW purpose \in Purpose, FileRequest(handles, purpose)
        PROVE  LogBounds' /\ CompletionsMatchRequests'
    <2>1. PICK e \in Event : /\ log' = Append(log, e) /\ e.event = "DecryptionRequested"
                             /\ e.requestId = counterRequest /\ e.purpose = purpose
      BY <1>2, RequestEvent
    <2>2. /\ Len(log) \in Nat /\ DOMAIN log = 1 .. Len(log)
          /\ DOMAIN log' = 1 .. Len(log) + 1
          /\ \A k \in 1 .. Len(log) : log'[k] = log[k]
          /\ log'[Len(log) + 1] = e
      BY <1>1, <2>1, EmitEffect
    <2>3. \A k \in DOMAIN log' : log'[k].requestId \in 0 .. counterRequest' - 1
      BY <1>1, <1>2, <2>1, <2>2, RequestEffect DEF LogBounds
    <2>4. ASSUME NEW r \in 0 .. counterRequest' - 1
          PROVE  \E j \in DOMAIN log' : /\ log'[j].event = "DecryptionRequested"
                                        /\ log'[j].requestId = r
                                        /\ log'[j].purpose = decryptionRequestPurpose'[r]
      <3>1. CASE r = counterRequest
        <4>1. Len(log) + 1 \in DOMAIN log' /\ log'[Len(log) + 1] = e
          BY <2>2
        <4>2. decryptionRequestPurpose'[r] = purpose
          BY <1>2, <3>1, RequestEffect
        <4> QED
          BY <2>1, <3>1, <4>1, <4>2
      <3>2. CASE r \in 0 .. counterRequest - 1
        <4>1. PICK j \in DOMAIN log : /\ log[j].event = "DecryptionRequested"
                                      /\ log[j].requestId = r
                                      /\ log[j].purpose = decryptionRequestPurpose[r]
          BY <3>2 DEF LogBounds
        <4>2. j \in DOMAIN log' /\ log'[j] = log[j]
          BY <2>2
        <4>3. decryptionRequestPurpose'[r] = decryptionRequestPurpose[r]
          BY <1>2, <3>2, RequestEffect
        <4> QED
          BY <4>1, <4>2, <4>3
      <3> QED
        BY <1>2, <3>1, <3>2, RequestEffect
    <2>5. ASSUME NEW k \in DOMAIN log'
          PROVE  LET earlier == {j \in DOMAIN log' : j < k /\ log'[j].event = "DecryptionRequested"}
                 IN  IF log'[k].event = "DecryptionRequested"
                     THEN \A j \in earlier : log'[j].requestId < log'[k].requestId
                     ELSE \E j \in earlier : /\ log'[j].requestId = log'[k].requestId
                                             /\ log'[j].purpose = log'[k].purpose
      <3>1. CASE k = Len(log) + 1
        BY <1>1, <2>1, <2>2, <3>1 DEF LogBounds
      <3>2. CASE k \in 1 .. Len(log)
        BY <2>2, <3>2 DEF CompletionsMatchRequests
      <3> QED
        BY <2>2, <3>1, <3>2
    <2> QED
      BY <2>3, <2>4, <2>5 DEF LogBounds, CompletionsMatchRequests
  <1>3. ASSUME NEW r \in 0 .. MaxRequests, OnDecryptCallback(r)
        PROVE  LogBounds' /\ CompletionsMatchRequests'
    <2>1. r \in 0 .. counterRequest - 1
      BY <1>3, AnswerEvent
    <2>2. PICK e \in Event : /\ log' = Append(log, e) /\ e.event = "DecryptionCompleted"
                             /\ e.requestId = r /\ e.purpose = decryptionRequestPurpose[r]
      BY <1>3, AnswerEvent
    <2>3. /\ Len(log) \in Nat /\ DOMAIN log = 1 .. Len(log)
          /\ DOMAIN log' = 1 .. Len(log) + 1
          /\ \A k \in 1 .. Len(log) : log'[k] = log[k]
          /\ log'[Len(log) + 1] = e
      BY <1>1, <2>2, EmitEffect
    <2>4. UNCHANGED <<counterRequest, decryptionRequestPurpose>>
      BY <1>3 DEF OnDecryptCallback
    <2>5. LogBounds'
      BY <2>1, <2>2, <2>3, <2>4 DEF LogBounds
    <2>6. ASSUME NEW k \in DOMAIN log'
          PROVE  LET earlier == {j \in DOMAIN log' : j < k /\ log'[j].event = "DecryptionRequested"}
                 IN  IF log'[k].event = "DecryptionRequested"
                     THEN \A j \in earlier : log'[j].requestId < log'[k].requestId
                     ELSE \E j \in earlier : /\ log'[j].requestId = log'[k].requestId
                                             /\ log'[j].purpose = log'[k].purpose
      <3>1. CASE k = Len(log) + 1
        BY <2>1, <2>2, <2>3, <3>1 DEF LogBounds
      <3>2. CASE k \in 1 .. Len(log)
        BY <2>3, <3>2 DEF CompletionsMatchRequests
      <3> QED
        BY <2>3, <3>1, <3>2
    <2> QED
      BY <2>5, <2>6 DEF CompletionsMatchRequests
  <1>4. ASSUME UNCHANGED <<log, decryptionRequestPurpose, counterRequest>>
        PROVE  LogBounds' /\ CompletionsMatchRequests'
    BY <1>4 DEF LogBounds, CompletionsMatchRequests
  <1> QED
    BY <1>2, <1>3, <1>4, LogCases

\* The whole invariant of the log holds in every reachable state.
LEMMA LogCorrect == Spec => [](LogBounds /\ CompletionsMatchRequests)
  <1>1. Init => LogBounds /\ CompletionsMatchRequests
    BY DEF Init, LogBounds, CompletionsMatchRequests
  <1> QED
    BY <1>1, LogStep, TypeCorrect, PTL DEF Spec

\* Ids are announced once, in increasing order, and a completion repeats the id
\* and the purpose of a request announced before it.
THEOREM CompletionsCorrect == Spec => []CompletionsMatchRequests
  BY LogCorrect, PTL

\* A completion is announced only after the signatures over the request's own
\* list were checked, and neither the list nor a signature goes away.
LEMMA SignedStep ==
    TypeOK /\ LogBounds /\ CompletionsAreSigned /\ [Next]_vars => CompletionsAreSigned'
  <1> SUFFICES ASSUME TypeOK, LogBounds, CompletionsAreSigned, [Next]_vars
               PROVE  CompletionsAreSigned'
    OBVIOUS
  <1> DEFINE Signed(r) == \E signed \in kmsSigned : SameList(signed, requestedHandles[r])
  <1>1. log \in Seq(Event) /\ counterRequest \in Nat
    BY BoundsAreNat DEF TypeOK
  <1>2. ASSUME NEW handles \in HandleLists, NEW purpose \in Purpose, FileRequest(handles, purpose)
        PROVE  CompletionsAreSigned'
    <2>1. PICK e \in Event : log' = Append(log, e) /\ e.event = "DecryptionRequested"
      BY <1>2, RequestEvent
    <2>2. UNCHANGED kmsSigned
      BY <1>2 DEF FileRequest
    <2> SUFFICES ASSUME NEW k \in DOMAIN log', log'[k].event = "DecryptionCompleted"
                 PROVE  \E signed \in kmsSigned' :
                            SameList(signed, requestedHandles'[log'[k].requestId])
      BY DEF CompletionsAreSigned, SameList
    <2>3. k \in DOMAIN log /\ log'[k] = log[k]
      BY <1>1, <2>1, EmitEffect
    <2>4. requestedHandles'[log[k].requestId] = requestedHandles[log[k].requestId]
      BY <1>2, <2>3, RequestEffect DEF LogBounds
    <2> QED
      BY <2>2, <2>3, <2>4 DEF CompletionsAreSigned
  <1>3. ASSUME NEW r \in 0 .. MaxRequests, OnDecryptCallback(r)
        PROVE  CompletionsAreSigned'
    <2>1. PICK e \in Event : log' = Append(log, e) /\ e.requestId = r
      BY <1>3, AnswerEvent
    <2>2. UNCHANGED <<kmsSigned, requestedHandles>>
      BY <1>3 DEF OnDecryptCallback
    <2>3. Signed(r)
      BY <1>3 DEF OnDecryptCallback, FheCheckSignatures
    <2> SUFFICES ASSUME NEW k \in DOMAIN log', log'[k].event = "DecryptionCompleted"
                 PROVE  \E signed \in kmsSigned' :
                            SameList(signed, requestedHandles'[log'[k].requestId])
      BY DEF CompletionsAreSigned, SameList
    <2>4. CASE k \in DOMAIN log /\ log'[k] = log[k]
      BY <2>2, <2>4 DEF CompletionsAreSigned
    <2>5. CASE log'[k] = e
      BY <2>1, <2>2, <2>3, <2>5
    <2> QED
      BY <1>1, <2>1, <2>4, <2>5, EmitEffect
  <1>4. ASSUME UNCHANGED <<log, requestedHandles>>, kmsSigned \subseteq kmsSigned'
        PROVE  CompletionsAreSigned'
    <2> SUFFICES ASSUME NEW k \in DOMAIN log', log'[k].event = "DecryptionCompleted"
                 PROVE  \E signed \in kmsSigned' :
                            SameList(signed, requestedHandles'[log'[k].requestId])
      BY DEF CompletionsAreSigned, SameList
    <2> QED
      BY <1>4 DEF CompletionsAreSigned
  <1> QED
    BY <1>2, <1>3, <1>4, LogCases

\* No completion is announced unless the KMS signed a decryption of exactly the
\* handles the request asked for.
THEOREM SignedCorrect == Spec => []CompletionsAreSigned
  <1>1. Init => CompletionsAreSigned
    BY DEF Init, CompletionsAreSigned
  <1> QED
    BY <1>1, SignedStep, TypeCorrect, LogCorrect, PTL DEF Spec

----------------------------------------------------------------------------
\* The refinement

\* A call the access-control list lets through is a call of the contract, and
\* whatever else happens to the list is a stutter of it.
LEMMA AclStepImplements == [AclNext]_allVars => [Next]_vars
  <1> SUFFICES ASSUME [AclNext]_allVars PROVE [Next]_vars
    OBVIOUS
  <1>1. CASE UNCHANGED allVars
    BY <1>1 DEF allVars
  <1>2. ASSUME NEW h \in Hashes, NEW v \in Hashes, NEW w \in Euint32, SubmitAclDelegation(h, v, w)
        PROVE  Next
    BY <1>2 DEF SubmitAclDelegation, Next
  <1>3. ASSUME NEW v \in Hashes, RequestWeight(v) PROVE Next
    BY <1>3 DEF RequestWeight, Next
  <1>4. ASSUME NEW p \in 0 .. MaxProposals + 1, RequestTally(p) PROVE Next
    BY <1>4 DEF RequestTally, Next
  <1>5. CASE OtherCall
    BY <1>5 DEF OtherCall, Next
  <1>6. CASE \E c \in ClientHandles : Allow(c) \/ AllowTransient(c)
    BY <1>6 DEF Allow, AllowTransient
  <1>7. CASE EndTransaction
    BY <1>7 DEF EndTransaction
  <1>8. CASE BetweenTransactions
    BY <1>8 DEF BetweenTransactions, Next
  <1> QED
    BY <1>1, <1>2, <1>3, <1>4, <1>5, <1>6, <1>7, <1>8 DEF AclNext

\* DposFheAcl implements DposFheCore: what the contract promises without the
\* list it promises with it.
THEOREM AclImplementsCore == AclSpec => Spec
  <1>1. AclInit => Init
    BY DEF AclInit
  <1> QED
    BY <1>1, AclStepImplements, PTL DEF AclSpec, Spec

----------------------------------------------------------------------------
\* The kinds of step

\* A step that makes no delegation and no request: it may cast a vote, reset
\* totals, allow the contract a client's handle, or end the transaction
QuietStep ==
    /\ \/ UNCHANGED <<voteCount, encryptedVotes>>
       \/ \E h \in Hashes, p \in 0 .. MaxProposals + 1, c \in Ciphertexts : SubmitEncryptedVote(h, p, c)
    /\ granted \subseteq granted'
    /\ allowed' \subseteq allowed \cup granted' /\ transient' \subseteq transient \cup granted'
    /\ granted' \subseteq granted \cup ClientHandles
    /\ UNCHANGED <<delegationCount, encryptedDelegations,
                   counterRequest, requestedHandles, decryptionRequestPurpose,
                   delegatedIn, requestedIn>>
    /\ \/ tx' = tx
       \/ tx < MaxTransactions /\ tx' = tx + 1 /\ transient' = {}

\* The steps of DposFheAcl, one by one.
LEMMA AclStepCases ==
    ASSUME [AclNext]_allVars
    PROVE  \/ \E h, v \in Hashes, w \in Euint32 : SubmitAclDelegation(h, v, w)
           \/ \E v \in Hashes : RequestWeight(v)
           \/ \E p \in 0 .. MaxProposals + 1 : RequestTally(p)
           \/ QuietStep
  <1>1. CASE UNCHANGED allVars
    BY <1>1 DEF allVars, vars, aclVars, recordVars, requestVars, QuietStep
  <1>2. CASE OtherCall
    BY <1>2 DEF OtherCall, aclVars, QuietStep, SubmitEncryptedStake, SubmitEncryptedVote,
                CreateProposal, OnDecryptCallback, EmergencyResetWeights, AcceptEther,
                recordVars, requestVars
  <1>3. CASE \E c \in ClientHandles : Allow(c) \/ AllowTransient(c)
    BY <1>3 DEF Allow, AllowTransient, QuietStep, vars, recordVars, requestVars
  <1>4. CASE EndTransaction
    BY <1>4 DEF EndTransaction, QuietStep, vars, recordVars, requestVars
  <1>5. CASE BetweenTransactions
    BY <1>5 DEF BetweenTransactions, Tick, KmsSign, QuietStep, aclVars, recordVars, requestVars
  <1> QED
    BY <1>1, <1>2, <1>3, <1>4, <1>5 DEF AclNext

\* A request files the list and its purpose with the number of the transaction.
LEMMA RequestNumbered ==
    ASSUME TypeOK, AclTypeOK, NEW handles \in HandleLists, NEW purpose \in Purpose,
           FileRequest(handles, purpose),
           requestedIn' = Put(requestedIn, counterRequest, tx), tx' = tx
    PROVE  /\ requestedIn' \in [0 .. counterRequest' - 1 -> 1 .. tx']
           /\ requestedIn'[counterRequest] = tx
           /\ \A r \in 0 .. counterRequest - 1 : requestedIn'[r] = requestedIn[r]
  <1>1. counterRequest \in Nat /\ counterRequest' = counterRequest + 1
    BY RequestEffect
  <1> DEFINE T == 1 .. tx
  <1>2. tx \in T
    BY TransactionAssumption DEF AclTypeOK
  <1>3. requestedIn \in [0 .. counterRequest - 1 -> T]
    BY DEF AclTypeOK
  <1> HIDE DEF T
  <1>4. Put(requestedIn, counterRequest, tx) \in [0 .. (counterRequest + 1) - 1 -> T]
    BY <1>1, <1>2, <1>3, PutNextRequest
  <1>5. /\ Put(requestedIn, counterRequest, tx)[counterRequest] = tx
        /\ \A r \in 0 .. counterRequest - 1 : Put(requestedIn, counterRequest, tx)[r] = requestedIn[r]
    BY <1>1, <1>3 DEF Put
  <1> QED
    BY <1>1, <1>4, <1>5 DEF T

----------------------------------------------------------------------------
\* Type correctness

\* The handles the executor returns are euint64 handles.
LEMMA ResultsType ==
    ASSUME NEW total \in Handle64 \cup {NoHandle}, NEW idx \in 1 .. MaxDelegations,
           NEW weight \in Euint32
    PROVE  ResultsOf(total, idx, weight) \subseteq Handle64
  <1>1. EncryptedZero \in Handle64
    BY WidthPositive DEF EncryptedZero, Handle64
  <1>2. PromoteEuint32(idx, weight) \in Handle64
    <2>1. \A a \in Nat \ {0} : a <= a * a
      OBVIOUS
    <2>2. weight \in 0 .. Euint64Size - 1
      BY <2>1, WidthAssumption DEF Euint32
    <2> QED
      BY <2>2 DEF PromoteEuint32, Handle64
  <1>3. CreditedTotal(total, idx, weight) \in Handle64
    BY CreditedTotalType
  <1> QED
    BY <1>1, <1>2, <1>3 DEF ResultsOf

\* A delegation is numbered with its transaction.
LEMMA DelegationNumbered ==
    ASSUME TypeOK, AclTypeOK, NEW h \in Hashes, NEW v \in Hashes, NEW w \in Euint32,
           SubmitAclDelegation(h, v, w)
    PROVE  /\ delegationCount + 1 \in 1 .. MaxDelegations
           /\ delegatedIn' \in [1 .. delegationCount' -> 1 .. tx']
           /\ delegatedIn'[delegationCount + 1] = tx
           /\ \A i \in 1 .. delegationCount : delegatedIn'[i] = delegatedIn[i]
  <1>1. delegationCount \in Nat /\ delegationCount' = delegationCount + 1
    BY DelegationEffect DEF SubmitAclDelegation
  <1> DEFINE T == 1 .. tx
  <1>2. tx \in T
    BY TransactionAssumption DEF AclTypeOK
  <1>3. delegationCount + 1 \in 1 .. MaxDelegations
    BY <1>1, BoundsAreNat DEF SubmitAclDelegation, SubmitEncryptedDelegation
  <1>4. delegatedIn \in [1 .. delegationCount -> T]
    BY DEF AclTypeOK
  <1> HIDE DEF T
  <1>5. Put(delegatedIn, delegationCount + 1, tx) \in [1 .. delegationCount + 1 -> T]
    BY <1>1, <1>2, <1>4, PutNextRecord
  <1>6. /\ Put(delegatedIn, delegationCount + 1, tx)[delegationCount + 1] = tx
        /\ \A i \in 1 .. delegationCount : Put(delegatedIn, delegationCount + 1, tx)[i] = delegatedIn[i]
    BY <1>1, <1>4 DEF Put
  <1>7. delegatedIn' = Put(delegatedIn, delegationCount + 1, tx) /\ tx' = tx
    BY DEF SubmitAclDelegation
  <1> QED
    BY <1>1, <1>3, <1>5, <1>6, <1>7 DEF T

\* Every step keeps the types.
LEMMA AclTypeStep == TypeOK /\ AclTypeOK /\ [AclNext]_allVars => AclTypeOK'
  <1> SUFFICES ASSUME TypeOK, AclTypeOK, [AclNext]_allVars PROVE AclTypeOK'
    OBVIOUS
  <1>1. ASSUME NEW h \in Hashes, NEW v \in Hashes, NEW w \in Euint32, SubmitAclDelegation(h, v, w)
        PROVE  AclTypeOK'
    <2>1. transient' \subseteq ClientHandles \cup Handle64
      <3>1. encryptedValidatorWeight[v] \in Handle64 \cup {NoHandle}
        BY DEF TypeOK
      <3> QED
        BY <1>1, <3>1, DelegationNumbered, ResultsType DEF SubmitAclDelegation, AclTypeOK
    <2>2. requestedIn' \in [0 .. counterRequest' - 1 -> 1 .. tx']
      BY <1>1 DEF SubmitAclDelegation, SubmitEncryptedDelegation, requestVars, AclTypeOK
    <2> QED
      BY <1>1, <2>1, <2>2, DelegationNumbered DEF SubmitAclDelegation, AclTypeOK
  <1>2. ASSUME NEW v \in Hashes, RequestWeight(v) PROVE AclTypeOK'
    <2> DEFINE list    == [j \in {1} |-> encryptedValidatorWeight[v]]
               purpose == [tag |-> "validator_weight", subject |-> v, time |-> now]
    <2>1. list \in HandleLists /\ purpose \in Purpose
      BY <1>2, WeightRequestType DEF RequestWeight
    <2>2. FileRequest(list, purpose)
      BY <1>2 DEF RequestWeight, RequestDecryptionForValidatorWeight
    <2> HIDE DEF list, purpose
    <2>3. requestedIn' \in [0 .. counterRequest' - 1 -> 1 .. tx']
      BY <1>2, <2>1, <2>2, RequestNumbered DEF RequestWeight
    <2> QED
      BY <1>2, <2>2, <2>3 DEF RequestWeight, FileRequest, recordVars, AclTypeOK
  <1>3. ASSUME NEW p \in 0 .. MaxProposals + 1, RequestTally(p) PROVE AclTypeOK'
    <2> DEFINE list    == [i \in VotesFor(p) |-> encryptedVotes[i].encryptedChoice]
               purpose == [tag |-> "proposal_votes", subject |-> p, time |-> now]
    <2>1. list \in HandleLists /\ purpose \in Purpose
      BY <1>3, BallotRequestType DEF RequestTally
    <2>2. FileRequest(list, purpose)
      BY <1>3 DEF RequestTally, RequestDecryptionForAggregatedVotes
    <2> HIDE DEF list, purpose
    <2>3. requestedIn' \in [0 .. counterRequest' - 1 -> 1 .. tx']
      BY <1>3, <2>1, <2>2, RequestNumbered DEF RequestTally
    <2> QED
      BY <1>3, <2>2, <2>3 DEF RequestTally, FileRequest, recordVars, AclTypeOK
  <1>4. CASE QuietStep
    <2>1. tx' \in 1 .. MaxTransactions /\ 1 .. tx \subseteq 1 .. tx'
      BY <1>4, TransactionAssumption DEF QuietStep, AclTypeOK
    <2> QED
      BY <1>4, <2>1 DEF QuietStep, AclTypeOK
  <1> QED
    BY <1>1, <1>2, <1>3, <1>4, AclStepCases

\* The access-control list and the histories are well typed.
THEOREM AclTypeCorrect == AclSpec => []AclTypeOK
  <1>1. AclInit => AclTypeOK
    <2> SUFFICES ASSUME AclInit PROVE AclTypeOK
      OBVIOUS
    <2>1. \A T : <<>> \in [1 .. 0 -> T] /\ <<>> \in [0 .. 0 - 1 -> T]
      OBVIOUS
    <2> QED
      BY <2>1, TransactionAssumption DEF AclInit, Init, AclTypeOK
  <1> QED
    BY <1>1, AclTypeStep, AclImplementsCore, TypeCorrect, PTL DEF AclSpec
----------------------------------------------------------------------------
\* What the contract computed is of the current transaction

\* The strengthening: a handle of its own that the contract may use was
\* computed in the current transaction, and every other handle was granted.
UsedIsRecentOrGranted ==
    /\ allowed \subseteq granted
    /\ \A handle \in transient : handle \in granted \/ ComputedIn(handle, tx)

\* What a delegation computes, it computes in the current transaction,
LEMMA ResultsAreRecent ==
    ASSUME TypeOK, AclTypeOK, UsedIsRecentOrGranted,
           NEW h \in Hashes, NEW v \in Hashes, NEW w \in Euint32, SubmitAclDelegation(h, v, w),
           NEW handle \in ResultsOf(encryptedValidatorWeight[v], delegationCount + 1, w)
    PROVE  ComputedIn(handle, tx)'
  <1> DEFINE d     == delegationCount + 1
             total == encryptedValidatorWeight[v]
  <1>1. /\ d \in 1 .. MaxDelegations /\ d \in DOMAIN delegatedIn' /\ delegatedIn'[d] = tx
        /\ \A i \in DOMAIN delegatedIn : i \in DOMAIN delegatedIn' /\ delegatedIn'[i] = delegatedIn[i]
        /\ tx' = tx
    <2>1. delegationCount \in Nat /\ delegationCount' = delegationCount + 1
      BY DelegationEffect DEF SubmitAclDelegation
    <2> QED
      BY <2>1, DelegationNumbered DEF SubmitAclDelegation, AclTypeOK
  <1>2. total \in Handle64 \cup {NoHandle}
    BY DEF TypeOK
  <1>3. handle \in Handle64
    BY <1>1, <1>2, ResultsType
  <1>4. CASE ~ IsInitialized(total)
    <2>1. CreditedTotal(total, d, w).terms = {d}
      BY <1>1, <1>2, <1>4, CreditedTotalType DEF IsInitialized
    <2>2. PromoteEuint32(d, w).terms = {d} /\ EncryptedZero.terms = {}
      BY DEF EncryptedZero, PromoteEuint32
    <2>3. \/ handle = CreditedTotal(total, d, w) \/ handle = PromoteEuint32(d, w)
          \/ handle = EncryptedZero
      BY DEF ResultsOf
    <2>4. handle.terms \subseteq {d}
      BY <2>1, <2>2, <2>3
    <2> QED
      BY <1>1, <1>3, <2>4 DEF ComputedIn
  <1>5. CASE IsInitialized(total)
    <2>1. ComputedIn(total, tx)
      <3>1. MayUse(total) /\ total \in Handle64
        BY <1>2, <1>5 DEF SubmitAclDelegation, AdditionIsAllowed, IsInitialized
      <3> QED
        BY <3>1 DEF MayUse, AclTypeOK, ClientHandles, UsedIsRecentOrGranted
    <2>2. handle.terms \subseteq total.terms \cup {d}
      BY <1>1, <1>2, <1>5, CreditedTotalType
      DEF ResultsOf, PromoteEuint32, IsInitialized
    <2> QED
      BY <1>1, <1>3, <2>1, <2>2 DEF ComputedIn
  <1> QED
    BY <1>4, <1>5

\* every step keeps it so,
LEMMA UsedStep ==
    TypeOK /\ AclTypeOK /\ UsedIsRecentOrGranted /\ [AclNext]_allVars => UsedIsRecentOrGranted'
  <1> SUFFICES ASSUME TypeOK, AclTypeOK, UsedIsRecentOrGranted, [AclNext]_allVars
               PROVE  UsedIsRecentOrGranted'
    OBVIOUS
  <1>1. ASSUME NEW h \in Hashes, NEW v \in Hashes, NEW w \in Euint32, SubmitAclDelegation(h, v, w)
        PROVE  UsedIsRecentOrGranted'
    <2>1. ASSUME NEW handle \in transient, ComputedIn(handle, tx) PROVE ComputedIn(handle, tx)'
      <3>1. delegationCount \in Nat /\ delegationCount' = delegationCount + 1
        BY <1>1, DelegationEffect DEF SubmitAclDelegation
      <3> QED
        BY <1>1, <2>1, <3>1, DelegationNumbered DEF ComputedIn, SubmitAclDelegation, AclTypeOK
    <2>2. \A handle \in ResultsOf(encryptedValidatorWeight[v], delegationCount + 1, w) :
              ComputedIn(handle, tx)'
      BY <1>1, ResultsAreRecent
    <2>3. /\ transient' = transient \cup
                           ResultsOf(encryptedValidatorWeight[v], delegationCount + 1, w)
          /\ allowed' = allowed /\ granted' = granted
      BY <1>1 DEF SubmitAclDelegation
    <2> QED
      BY <2>1, <2>2, <2>3 DEF UsedIsRecentOrGranted
  <1>2. CASE QuietStep
    BY <1>2 DEF QuietStep, UsedIsRecentOrGranted, ComputedIn
  <1> QED
    BY <1>1, <1>2, AclStepCases DEF RequestWeight, RequestTally, UsedIsRecentOrGranted, ComputedIn

\* from the beginning.
LEMMA UsedAlways == AclSpec => []UsedIsRecentOrGranted
  <1>1. AclInit => UsedIsRecentOrGranted
    BY DEF AclInit, UsedIsRecentOrGranted
  <1> QED
    BY <1>1, UsedStep, AclImplementsCore, AclTypeCorrect, TypeCorrect, PTL DEF AclSpec

----------------------------------------------------------------------------
\* Weight requests are immediate

\* Every step keeps requests for a weight in the transaction of their grant.
LEMMA WeightRequestIsImmediate ==
    TypeOK /\ AclTypeOK /\ UsedIsRecentOrGranted /\ WeightRequestIsComplete /\ WeightRequestsAreImmediate
    /\ [AclNext]_allVars => WeightRequestsAreImmediate'
  <1> SUFFICES ASSUME TypeOK, AclTypeOK, UsedIsRecentOrGranted, WeightRequestIsComplete,
                      WeightRequestsAreImmediate, [AclNext]_allVars
               PROVE  WeightRequestsAreImmediate'
    OBVIOUS
  <1>1. ASSUME NEW h \in Hashes, NEW v \in Hashes, NEW w \in Euint32, SubmitAclDelegation(h, v, w)
        PROVE  WeightRequestsAreImmediate'
    <2>1. UNCHANGED <<decryptionRequestPurpose, requestedHandles, requestedIn>>
      BY <1>1 DEF SubmitAclDelegation, SubmitEncryptedDelegation, requestVars
    <2>2. \A i \in 1 .. delegationCount : delegatedIn'[i] = delegatedIn[i]
      BY <1>1, DelegationNumbered
    <2>3. \A r \in DOMAIN decryptionRequestPurpose :
              decryptionRequestPurpose[r].tag = "validator_weight" =>
                  requestedHandles[r][1].terms \subseteq 1 .. delegationCount
      BY DEF WeightRequestIsComplete, DelegationsTo
    <2> QED
      BY <2>1, <2>2, <2>3 DEF WeightRequestsAreImmediate
  <1>2. ASSUME NEW v \in Hashes, RequestWeight(v) PROVE WeightRequestsAreImmediate'
    <2> DEFINE list    == [j \in {1} |-> encryptedValidatorWeight[v]]
               purpose == [tag |-> "validator_weight", subject |-> v, time |-> now]
    <2>1. list \in HandleLists /\ purpose \in Purpose
      BY <1>2, WeightRequestType DEF RequestWeight
    <2>2. FileRequest(list, purpose)
      BY <1>2 DEF RequestWeight, RequestDecryptionForValidatorWeight
    <2>3. list[1] = encryptedValidatorWeight[v]
      OBVIOUS
    <2>4. \A i \in list[1].terms : delegatedIn[i] = tx
      <3>1. IsInitialized(encryptedValidatorWeight[v]) /\ MayUse(encryptedValidatorWeight[v])
        BY <1>2 DEF RequestWeight, RequestDecryptionForValidatorWeight, MayBeDecrypted
      <3>2. encryptedValidatorWeight[v] \in Handle64
        BY <3>1 DEF TypeOK, IsInitialized
      <3>3. ComputedIn(encryptedValidatorWeight[v], tx)
        BY <3>1, <3>2 DEF MayUse, AclTypeOK, ClientHandles, UsedIsRecentOrGranted
      <3> QED
        BY <2>3, <3>3 DEF ComputedIn
    <2> HIDE DEF list, purpose
    <2>5. /\ requestedIn' = Put(requestedIn, counterRequest, tx)
          /\ delegatedIn' = delegatedIn /\ tx' = tx
      BY <1>2 DEF RequestWeight
    <2>6. /\ requestedIn'[counterRequest] = tx
          /\ \A r \in 0 .. counterRequest - 1 : requestedIn'[r] = requestedIn[r]
      BY <2>1, <2>2, <2>5, RequestNumbered
    <2> QED
      BY <2>1, <2>2, <2>4, <2>5, <2>6, RequestEffect DEF WeightRequestsAreImmediate
  <1>3. ASSUME NEW p \in 0 .. MaxProposals + 1, RequestTally(p) PROVE WeightRequestsAreImmediate'
    <2> DEFINE list    == [i \in VotesFor(p) |-> encryptedVotes[i].encryptedChoice]
               purpose == [tag |-> "proposal_votes", subject |-> p, time |-> now]
    <2>1. list \in HandleLists /\ purpose \in Purpose
      BY <1>3, BallotRequestType DEF RequestTally
    <2>2. FileRequest(list, purpose)
      BY <1>3 DEF RequestTally, RequestDecryptionForAggregatedVotes
    <2>3. purpose.tag # "validator_weight"
      OBVIOUS
    <2> HIDE DEF list, purpose
    <2>4. /\ requestedIn' = Put(requestedIn, counterRequest, tx)
          /\ delegatedIn' = delegatedIn /\ tx' = tx
      BY <1>3 DEF RequestTally
    <2>5. \A r \in 0 .. counterRequest - 1 : requestedIn'[r] = requestedIn[r]
      BY <2>1, <2>2, <2>4, RequestNumbered
    <2> QED
      BY <2>1, <2>2, <2>3, <2>4, <2>5, RequestEffect DEF WeightRequestsAreImmediate
  <1>4. CASE QuietStep
    BY <1>4 DEF QuietStep, WeightRequestsAreImmediate
  <1> QED
    BY <1>1, <1>2, <1>3, <1>4, AclStepCases

\* requestDecryptionForValidatorWeight can only follow the delegations it
\* decrypts in their own transaction.
THEOREM ImmediateCorrect == AclSpec => []WeightRequestsAreImmediate
  <1>1. AclInit => WeightRequestsAreImmediate
    BY DEF AclInit, Init, WeightRequestsAreImmediate
  <1> QED
    BY <1>1, WeightRequestIsImmediate, UsedAlways, AclImplementsCore, AclTypeCorrect,
       TypeCorrect, WeightRequestCorrect, PTL DEF AclSpec
----------------------------------------------------------------------------
\* One ballot the contract may not use blocks the tally

\* Every step keeps the tallied ballots among those granted.
LEMMA TalliedStep ==
    TypeOK /\ AclTypeOK /\ ClockBounds /\ BallotRequestIsComplete /\ UsedIsRecentOrGranted
    /\ TalliedBallotsWereUsable /\ [AclNext]_allVars => TalliedBallotsWereUsable'
  <1> SUFFICES ASSUME TypeOK, AclTypeOK, ClockBounds, BallotRequestIsComplete,
                      UsedIsRecentOrGranted, TalliedBallotsWereUsable, [AclNext]_allVars
               PROVE  TalliedBallotsWereUsable'
    OBVIOUS
  <1>1. ASSUME NEW h \in Hashes, NEW v \in Hashes, NEW w \in Euint32, SubmitAclDelegation(h, v, w)
        PROVE  TalliedBallotsWereUsable'
    <2>1. UNCHANGED <<decryptionRequestPurpose, requestedHandles, requestedIn,
                      voteCount, encryptedVotes, granted>>
      BY <1>1 DEF SubmitAclDelegation, SubmitEncryptedDelegation, requestVars
    <2>2. \A handle, t : ComputedIn(handle, t) => ComputedIn(handle, t)'
      <3>1. delegationCount \in Nat /\ delegationCount' = delegationCount + 1
        BY <1>1, DelegationEffect DEF SubmitAclDelegation
      <3> QED
        BY <1>1, <3>1, DelegationNumbered DEF ComputedIn, AclTypeOK
    <2> QED
      BY <2>1, <2>2 DEF TalliedBallotsWereUsable
  <1>2. ASSUME NEW v \in Hashes, RequestWeight(v) PROVE TalliedBallotsWereUsable'
    <2> DEFINE list    == [j \in {1} |-> encryptedValidatorWeight[v]]
               purpose == [tag |-> "validator_weight", subject |-> v, time |-> now]
    <2>1. list \in HandleLists /\ purpose \in Purpose
      BY <1>2, WeightRequestType DEF RequestWeight
    <2>2. FileRequest(list, purpose) /\ purpose.tag # "proposal_votes"
      BY <1>2 DEF RequestWeight, RequestDecryptionForValidatorWeight
    <2> HIDE DEF list, purpose
    <2>3. UNCHANGED <<voteCount, encryptedVotes, granted>>
      BY <1>2, <2>2 DEF RequestWeight, FileRequest, recordVars
    <2>4. /\ DOMAIN decryptionRequestPurpose = 0 .. counterRequest - 1
          /\ DOMAIN decryptionRequestPurpose' = 0 .. counterRequest /\ counterRequest \in Nat
          /\ \A r \in 0 .. counterRequest - 1 :
                 /\ decryptionRequestPurpose'[r] = decryptionRequestPurpose[r]
                 /\ requestedHandles'[r] = requestedHandles[r]
          /\ decryptionRequestPurpose'[counterRequest] = purpose
      BY <2>1, <2>2, RequestEffect
    <2>5. delegatedIn' = delegatedIn /\ tx' = tx /\ requestedIn' = Put(requestedIn, counterRequest, tx)
      BY <1>2 DEF RequestWeight
    <2>6. \A r \in 0 .. counterRequest - 1 : requestedIn'[r] = requestedIn[r]
      BY <2>1, <2>2, <2>5, RequestNumbered
    <2>7. \A handle, t : ComputedIn(handle, t)' <=> ComputedIn(handle, t)
      BY <2>5 DEF ComputedIn
    <2> QED
      BY <2>2, <2>3, <2>4, <2>6, <2>7 DEF TalliedBallotsWereUsable
  <1>3. ASSUME NEW p \in 0 .. MaxProposals + 1, RequestTally(p) PROVE TalliedBallotsWereUsable'
    <2> DEFINE list    == [i \in VotesFor(p) |-> encryptedVotes[i].encryptedChoice]
               purpose == [tag |-> "proposal_votes", subject |-> p, time |-> now]
    <2>1. list \in HandleLists /\ purpose \in Purpose
      BY <1>3, BallotRequestType DEF RequestTally
    <2>2. FileRequest(list, purpose) /\ purpose.subject = p /\ DOMAIN list = VotesFor(p)
      BY <1>3 DEF RequestTally, RequestDecryptionForAggregatedVotes
    <2>3. \A i \in VotesFor(p) : \/ encryptedVotes[i].encryptedChoice \in granted
                                  \/ ComputedIn(encryptedVotes[i].encryptedChoice, tx)
      BY <1>3 DEF RequestTally, MayBeDecrypted, MayUse, UsedIsRecentOrGranted
    <2> HIDE DEF list, purpose
    <2>4. UNCHANGED <<voteCount, encryptedVotes, granted>>
      BY <1>3, <2>2 DEF RequestTally, FileRequest, recordVars
    <2>5. \A i \in 1 .. voteCount : encryptedVotes[i].proposalId = p => i \in VotesFor(p)
      BY DEF VotesFor
    <2>6. /\ DOMAIN decryptionRequestPurpose = 0 .. counterRequest - 1
          /\ DOMAIN decryptionRequestPurpose' = 0 .. counterRequest /\ counterRequest \in Nat
          /\ \A r \in 0 .. counterRequest - 1 :
                 /\ decryptionRequestPurpose'[r] = decryptionRequestPurpose[r]
                 /\ requestedHandles'[r] = requestedHandles[r]
          /\ decryptionRequestPurpose'[counterRequest] = purpose
          /\ requestedHandles'[counterRequest] = list
      BY <2>1, <2>2, RequestEffect
    <2>7. delegatedIn' = delegatedIn /\ tx' = tx /\ requestedIn' = Put(requestedIn, counterRequest, tx)
      BY <1>3 DEF RequestTally
    <2>8. /\ \A r \in 0 .. counterRequest - 1 : requestedIn'[r] = requestedIn[r]
          /\ requestedIn'[counterRequest] = tx
      BY <2>1, <2>2, <2>7, RequestNumbered
    <2>9. \A handle, t : ComputedIn(handle, t)' <=> ComputedIn(handle, t)
      BY <2>7 DEF ComputedIn
    <2> QED
      BY <2>2, <2>3, <2>4, <2>5, <2>6, <2>8, <2>9 DEF TalliedBallotsWereUsable
  <1>4. CASE QuietStep
    <2>1. /\ UNCHANGED <<decryptionRequestPurpose, requestedHandles, requestedIn>>
          /\ granted \subseteq granted'
          /\ \A handle, t : ComputedIn(handle, t)' <=> ComputedIn(handle, t)
      BY <1>4 DEF QuietStep, ComputedIn
    <2>2. ASSUME NEW h \in Hashes, NEW p \in 0 .. MaxProposals + 1, NEW c \in Ciphertexts,
                 SubmitEncryptedVote(h, p, c)
          PROVE  TalliedBallotsWereUsable'
      <3>1. /\ voteCount \in Nat /\ voteCount' = voteCount + 1
            /\ \A i \in 1 .. voteCount : encryptedVotes'[i] = encryptedVotes[i]
            /\ encryptedVotes'[voteCount + 1].timestamp = now
        BY <2>2, VoteEffect
      <3>2. \A r \in DOMAIN decryptionRequestPurpose :
                decryptionRequestPurpose[r].tag = "proposal_votes" =>
                    /\ voteCount + 1 \notin DOMAIN requestedHandles[r]
                    /\ ~ (encryptedVotes'[voteCount + 1].timestamp < decryptionRequestPurpose[r].time)
        <4> SUFFICES ASSUME NEW r \in DOMAIN decryptionRequestPurpose,
                            decryptionRequestPurpose[r].tag = "proposal_votes"
                     PROVE  /\ voteCount + 1 \notin DOMAIN requestedHandles[r]
                            /\ ~ (now < decryptionRequestPurpose[r].time)
          BY <3>1
        <4>1. DOMAIN requestedHandles[r] \subseteq 1 .. voteCount
          BY DEF BallotRequestIsComplete
        <4>2. decryptionRequestPurpose[r].time <= now
          BY DEF ClockBounds, TypeOK
        <4>3. decryptionRequestPurpose[r].time \in Nat /\ now \in Nat
          BY BoundsAreNat DEF TypeOK, Purpose
        <4> QED
          BY <3>1, <4>1, <4>2, <4>3
      <3> QED
        BY <2>1, <3>1, <3>2 DEF TalliedBallotsWereUsable
    <2> QED
      BY <1>4, <2>1, <2>2 DEF QuietStep, TalliedBallotsWereUsable
  <1> QED
    BY <1>1, <1>2, <1>3, <1>4, AclStepCases

\* requestDecryptionForAggregatedVotes succeeds only if the contract may use
\* every ballot of the proposal: its owner granted it, or the contract itself
\* computed it a moment ago.
THEOREM TalliedCorrect == AclSpec => []TalliedBallotsWereUsable
  <1>1. AclInit => TalliedBallotsWereUsable
    BY DEF AclInit, Init, TalliedBallotsWereUsable
  <1> QED
    BY <1>1, TalliedStep, UsedAlways, AclImplementsCore, AclTypeCorrect, TypeCorrect,
       ClockCorrect, BallotsCorrect, PTL DEF AclSpec
=============================================================================

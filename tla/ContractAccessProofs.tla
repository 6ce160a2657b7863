------------------------ MODULE ContractAccessProofs ------------------------
(***************************************************************************)
(* Machine-checked proofs about ContractAccess, for any number of URLs and *)
(* of retries and any delays.                                              *)
(***************************************************************************)
EXTENDS ContractAccess, FiniteSetTheorems, TLAPS

----------------------------------------------------------------------------
\* Powers of two.  The provers know of them only that they count subsets.

\* A power of two is a positive number.
LEMMA PowerType == \A n \in Nat : 2 ^ n \in Nat \ {0}
  <1> TAKE n \in Nat
  <1>1. IsFiniteSet(1 .. n) /\ Cardinality(1 .. n) = n
    BY FS_Interval
  <1>2. IsFiniteSet(SUBSET (1 .. n)) /\ Cardinality(SUBSET (1 .. n)) = 2 ^ n
    BY <1>1, FS_SUBSET
  <1>3. Cardinality(SUBSET (1 .. n)) \in Nat
    BY <1>2, FS_CardinalityType
  <1>4. Cardinality(SUBSET (1 .. n)) # 0
    BY <1>2, FS_EmptySet
  <1> QED
    BY <1>2, <1>3, <1>4

\* The exponent one higher, the power twice as high: a set of n + 1 elements has
\* as many subsets with its last element as without.
LEMMA PowerDoubles == \A n \in Nat : 2 ^ (n + 1) = 2 * 2 ^ n
  <1> TAKE n \in Nat
  <1> DEFINE Without == SUBSET (1 .. n)
             Full    == SUBSET (1 .. n + 1)
             With    == {T \cup {n + 1} : T \in Without}
             f       == [T \in Without |-> T \cup {n + 1}]
  <1>1. IsFiniteSet(Without) /\ Cardinality(Without) = 2 ^ n
    <2>1. IsFiniteSet(1 .. n) /\ Cardinality(1 .. n) = n
      BY FS_Interval
    <2> QED
      BY <2>1, FS_SUBSET
  <1>2. IsFiniteSet(Full) /\ Cardinality(Full) = 2 ^ (n + 1)
    <2>1. IsFiniteSet(1 .. n + 1) /\ Cardinality(1 .. n + 1) = n + 1
      BY FS_Interval
    <2> QED
      BY <2>1, FS_SUBSET
  <1>3. ASSUME NEW T \in Without PROVE n + 1 \notin T
    OBVIOUS
  <1>4. f \in Bijection(Without, With)
    <2>1. f \in Surjection(Without, With)
      BY DEF Surjection
    <2>2. ASSUME NEW S \in Without, NEW T \in Without, f[S] = f[T] PROVE S = T
      <3>1. S \cup {n + 1} = T \cup {n + 1} /\ n + 1 \notin S /\ n + 1 \notin T
        BY <1>3, <2>2
      <3>2. S = (S \cup {n + 1}) \ {n + 1} /\ T = (T \cup {n + 1}) \ {n + 1}
        BY <3>1
      <3> QED
        BY <3>1, <3>2, Zenon
    <2> HIDE DEF f
    <2>3. f \in [Without -> With]
      BY <2>1 DEF Surjection
    <2>4. f \in Injection(Without, With)
      <3>1. \A S, T \in Without : f[S] = f[T] => S = T
        BY <2>2
      <3> HIDE DEF Without, With
      <3> QED
        BY <3>1, <2>3, Zenon DEF Injection, IsInjective
    <2> QED
      BY <2>1, <2>4 DEF Bijection
  <1>5. IsFiniteSet(With) /\ Cardinality(With) = 2 ^ n
    BY <1>1, <1>4, FS_Bijection DEF ExistsBijection
  <1>6. Full = Without \cup With
    <2>1. ASSUME NEW T \in Without \cup With PROVE T \in Full
      <3>1. 1 .. n \subseteq 1 .. n + 1 /\ n + 1 \in 1 .. n + 1
        OBVIOUS
      <3> QED
        BY <3>1
    <2>2. ASSUME NEW T \in Full, T \notin Without PROVE T \in With
      <3>1. n + 1 \in T /\ T \ {n + 1} \in Without
        BY <2>2
      <3>2. T = (T \ {n + 1}) \cup {n + 1}
        BY <3>1
      <3> QED
        BY <3>1, <3>2, Zenon
    <2> QED
      BY <2>1, <2>2
  <1>7. Without \cap With = {}
    BY <1>3
  <1> HIDE DEF Without, Full, With, f
  <1>8. Cardinality(Full) = Cardinality(Without) + Cardinality(With) - Cardinality({})
    BY <1>1, <1>5, <1>6, <1>7, FS_Union
  <1> QED
    BY <1>1, <1>2, <1>5, <1>8, FS_EmptySet, PowerType

----------------------------------------------------------------------------
\* The inductive invariant

TypeOK ==
    /\ deployed \in BOOLEAN
    /\ pc \in {"probing", "coding", "waiting", "returned"}
    /\ url \in Urls
    /\ probe \in [Urls -> {"untried", "answered", "failed", "late"}]
    /\ late \in SUBSET Urls
    /\ retries \in 0 .. Retries
    /\ delay \in Nat /\ asked \in Nat /\ waited \in Nat
    /\ result \in 0 .. NumUrls

\* The URLs are tried in order, and the one an answer comes from is the last
ProbesInOrder ==
    /\ \A u \in Urls : u < url => probe[u] \in {"failed", "late"}
    /\ \A u \in Urls : u > url => probe[u] = "untried"
    /\ pc = "probing" => probe[url] = "untried"
    /\ pc \in {"coding", "waiting"} => probe[url] = "answered"
    /\ pc = "returned" /\ probe[url] # "answered" =>
           url = NumUrls /\ probe[url] \in {"failed", "late"}

\* getCode is called only after an answer, each retry uses one up, and the code
\* is looked at, or the last retry has failed, before the call returns
CallsCounted ==
    /\ asked = 0 => retries = Retries
    /\ asked # 0 => asked + retries = Retries + 1
    /\ asked = 0 <=> probe[url] # "answered"
    /\ pc = "waiting" => retries > 0
    /\ result # 0 => pc = "returned" /\ deployed /\ result = url /\ probe[url] = "answered"
    /\ pc = "returned" /\ result = 0 /\ probe[url] = "answered" => ~ deployed \/ retries = 0

\* Each URL before the current one, and this one after its probe, has cost at
\* most one full wait, and the retries the sum of the delays so far
WaitsCounted ==
    /\ pc = "probing" => waited <= (url - 1) * ProbeLimit
    /\ waited <= url * ProbeLimit + delay - FirstDelay
    /\ delay >= FirstDelay
    /\ delay * 2 ^ retries = FirstDelay * 2 ^ Retries

IInv == TypeOK /\ ProbesInOrder /\ CallsCounted /\ WaitsCounted

\* Time for the probes so far and one more is time for that many probes.
LEMMA OneMoreWait ==
    \A u \in Nat : (u + 1) * ProbeLimit = u * ProbeLimit + ProbeLimit /\ u * ProbeLimit \in Nat
  <1> TAKE u \in Nat
  <1> QED
    BY AccessAssumption

\* The invariant holds at first.
LEMMA InitInvariant == Init => IInv
  <1> SUFFICES ASSUME Init PROVE IInv
    OBVIOUS
  <1> USE AccessAssumption DEF Init, Urls
  <1>1. TypeOK
    BY DEF TypeOK
  <1>2. ProbesInOrder
    BY DEF ProbesInOrder
  <1>3. CallsCounted
    BY DEF CallsCounted
  <1>4. WaitsCounted
    BY DEF WaitsCounted
  <1> QED
    BY <1>1, <1>2, <1>3, <1>4 DEF IInv

\* Every step keeps the types.
LEMMA StepType == TypeOK /\ CallsCounted /\ [Next]_vars => TypeOK'
  <1> SUFFICES ASSUME TypeOK, CallsCounted, [Next]_vars PROVE TypeOK'
    OBVIOUS
  <1> USE AccessAssumption DEF TypeOK, Urls
  <1>1. CASE ProbeAnswers
    BY <1>1 DEF ProbeAnswers
  <1>2. CASE ProbeFails
    BY <1>2 DEF ProbeFails, NextUrl
  <1>3. CASE ProbeTimesOut
    BY <1>3 DEF ProbeTimesOut, NextUrl
  <1>4. ASSUME NEW u \in Urls, LateSettles(u) PROVE TypeOK'
    BY <1>4 DEF LateSettles
  <1>5. CASE CodeAnswers
    BY <1>5 DEF CodeAnswers
  <1>6. CASE CodeFails
    BY <1>6 DEF CodeFails
  <1>7. CASE Retry
    BY <1>7 DEF Retry, CallsCounted
  <1>8. CASE UNCHANGED vars
    BY <1>8 DEF vars, accessVars
  <1> QED
    BY <1>1, <1>2, <1>3, <1>4, <1>5, <1>6, <1>7, <1>8 DEF Next, Returned

\* A delay is waited for, and the next is twice as long.
LEMMA Later ==
    \A w, p, d, f \in Nat : w <= p + d - f /\ d >= f => w + d <= p + 2 * d - f /\ 2 * d >= f
  OBVIOUS

\* A delay twice as long with half the retries' weight.
LEMMA Regroup == \A d, k, m \in Nat : k = 2 * m => (2 * d) * m = d * k
  OBVIOUS

\* A probe that ended without an answer, whatever it took of its ten seconds,
\* keeps the account of the waits.
LEMMA AfterProbe ==
    ASSUME TypeOK, WaitsCounted, TypeOK',
           waited <= (url - 1) * ProbeLimit, waited' \in waited .. waited + ProbeLimit,
           url' \in {url, url + 1}, pc' = "probing" => url' = url + 1,
           UNCHANGED <<delay, retries>>
    PROVE  WaitsCounted'
  <1>1. /\ {url, url', waited, waited', delay, ProbeLimit, FirstDelay} \subseteq Nat
        /\ url - 1 \in Nat
    BY AccessAssumption DEF TypeOK, Urls
  <1>2. /\ url * ProbeLimit = (url - 1) * ProbeLimit + ProbeLimit
        /\ (url + 1) * ProbeLimit = url * ProbeLimit + ProbeLimit
        /\ {(url - 1) * ProbeLimit, url * ProbeLimit, url' * ProbeLimit} \subseteq Nat
    BY <1>1, OneMoreWait
  <1>3. waited' <= url * ProbeLimit
    BY <1>1, <1>2
  <1>4. url * ProbeLimit <= url' * ProbeLimit
    BY <1>1, <1>2
  <1>5. pc' = "probing" => (url' - 1) * ProbeLimit = url * ProbeLimit
    BY <1>1
  <1>6. delay' >= FirstDelay /\ delay' * 2 ^ retries' = FirstDelay * 2 ^ Retries
    BY DEF WaitsCounted
  <1>7. waited' <= url' * ProbeLimit + delay' - FirstDelay
    BY <1>1, <1>2, <1>3, <1>4, <1>6
  <1> QED
    BY <1>3, <1>5, <1>6, <1>7 DEF WaitsCounted

\* A step keeps the invariant.
LEMMA StepInvariant == IInv /\ [Next]_vars => IInv'
  <1> SUFFICES ASSUME IInv, [Next]_vars PROVE IInv'
    OBVIOUS
  <1> TypeOK /\ TypeOK' /\ ProbesInOrder /\ CallsCounted /\ WaitsCounted
    BY StepType DEF IInv
  <1> HIDE DEF IInv
  <1> SUFFICES (ProbesInOrder /\ CallsCounted /\ WaitsCounted)'
    BY DEF IInv
  <1> USE AccessAssumption DEF TypeOK, Urls
  <1>1. CASE ProbeAnswers
    <2>1. ProbesInOrder'
      BY <1>1 DEF ProbeAnswers, ProbesInOrder
    <2>2. CallsCounted'
      BY <1>1 DEF ProbeAnswers, ProbesInOrder, CallsCounted
    <2>3. WaitsCounted'
      BY <1>1 DEF ProbeAnswers, WaitsCounted
    <2> QED
      BY <2>1, <2>2, <2>3
  <1>2. CASE ProbeFails
    <2>1. ProbesInOrder'
      BY <1>2 DEF ProbeFails, NextUrl, ProbesInOrder
    <2>2. CallsCounted'
      BY <1>2 DEF ProbeFails, NextUrl, ProbesInOrder, CallsCounted
    <2>3. WaitsCounted'
      <3>1. /\ waited' \in waited .. waited + ProbeLimit
            /\ url' \in {url, url + 1} /\ (pc' = "probing" => url' = url + 1)
        BY <1>2 DEF ProbeFails, NextUrl
      <3>2. waited <= (url - 1) * ProbeLimit /\ UNCHANGED <<delay, retries>>
        BY <1>2 DEF ProbeFails, WaitsCounted
      <3> QED
        BY <3>1, <3>2, AfterProbe
    <2> QED
      BY <2>1, <2>2, <2>3
  <1>3. CASE ProbeTimesOut
    <2>1. ProbesInOrder'
      BY <1>3 DEF ProbeTimesOut, NextUrl, ProbesInOrder
    <2>2. CallsCounted'
      BY <1>3 DEF ProbeTimesOut, NextUrl, ProbesInOrder, CallsCounted
    <2>3. WaitsCounted'
      <3>1. /\ waited' \in waited .. waited + ProbeLimit
            /\ url' \in {url, url + 1} /\ (pc' = "probing" => url' = url + 1)
        BY <1>3 DEF ProbeTimesOut, NextUrl
      <3>2. waited <= (url - 1) * ProbeLimit /\ UNCHANGED <<delay, retries>>
        BY <1>3 DEF ProbeTimesOut, WaitsCounted
      <3> QED
        BY <3>1, <3>2, AfterProbe
    <2> QED
      BY <2>1, <2>2, <2>3
  <1>4. ASSUME NEW u \in Urls, LateSettles(u)
        PROVE  (ProbesInOrder /\ CallsCounted /\ WaitsCounted)'
    BY <1>4 DEF LateSettles, ProbesInOrder, CallsCounted, WaitsCounted
  <1>5. CASE CodeAnswers
    BY <1>5 DEF CodeAnswers, ProbesInOrder, CallsCounted, WaitsCounted
  <1>6. CASE CodeFails
    BY <1>6 DEF CodeFails, ProbesInOrder, CallsCounted, WaitsCounted
  <1>7. CASE Retry
    <2>1. ProbesInOrder'
      BY <1>7 DEF Retry, ProbesInOrder
    <2>2. CallsCounted'
      <3>1. pc = "waiting" /\ UNCHANGED <<probe, url, result>> /\ pc' = "coding"
            /\ retries' = retries - 1 /\ asked' = asked + 1
        BY <1>7 DEF Retry
      <3>2. probe[url] = "answered" /\ result = 0 /\ asked # 0 /\ asked + retries = Retries + 1
        BY <3>1 DEF CallsCounted, ProbesInOrder
      <3> QED
        BY <3>1, <3>2 DEF CallsCounted
    <2>3. WaitsCounted'
      <3>1. retries > 0 /\ retries' = retries - 1 /\ delay' = 2 * delay
            /\ waited' = waited + delay /\ UNCHANGED url /\ pc' # "probing"
        BY <1>7 DEF Retry, CallsCounted
      <3>2. 2 ^ retries = 2 * 2 ^ retries' /\ 2 ^ retries' \in Nat
        BY <3>1, PowerDoubles, PowerType
      <3>3. delay' * 2 ^ retries' = delay * 2 ^ retries
        BY <3>1, <3>2, Regroup
      <3>4. pc' # "probing" /\ url' * ProbeLimit = url * ProbeLimit /\ url * ProbeLimit \in Nat
        BY <3>1, OneMoreWait
      <3>5. waited <= url * ProbeLimit + delay - FirstDelay /\ delay >= FirstDelay
            /\ delay * 2 ^ retries = FirstDelay * 2 ^ Retries
        BY DEF WaitsCounted
      <3>6. waited' <= url' * ProbeLimit + delay' - FirstDelay /\ delay' >= FirstDelay
        BY <3>1, <3>4, <3>5, Later
      <3> QED
        BY <3>3, <3>4, <3>5, <3>6 DEF WaitsCounted
    <2> QED
      BY <2>1, <2>2, <2>3
  <1>8. CASE UNCHANGED vars
    BY <1>8 DEF vars, accessVars, ProbesInOrder, CallsCounted, WaitsCounted
  <1> QED
    BY <1>1, <1>2, <1>3, <1>4, <1>5, <1>6, <1>7, <1>8 DEF Next, Returned

\* The invariant holds for every number of URLs and callers.
LEMMA InvariantHolds == Spec => []IInv
  BY InitInvariant, StepInvariant, PTL DEF Spec

----------------------------------------------------------------------------
\* The theorems

\* getContractReadOnly returns a contract only with the first URL that answered
\* in time: a probe that settles after its timeout never becomes the provider.
THEOREM ProviderCorrect == Spec => []ProviderIsFirstInTime
  <1>1. IInv => ProviderIsFirstInTime
    BY AccessAssumption DEF IInv, TypeOK, ProbesInOrder, CallsCounted, ProviderIsFirstInTime, Urls
  <1> QED
    BY <1>1, InvariantHolds, PTL

\* It returns null only if no URL answered, there is no code, or the first call
\* of getCode and every retry failed.
THEOREM NullCorrect == Spec => []NullIsExplained
  <1>1. IInv => NullIsExplained
    BY AccessAssumption DEF IInv, TypeOK, ProbesInOrder, CallsCounted, NullIsExplained, Urls
  <1> QED
    BY <1>1, InvariantHolds, PTL

\* The timers of one call add up to at most a full wait for every probe and the
\* doubling delays of all retries, however many URLs and retries there are.
THEOREM WaitCorrect == Spec => []WaitIsBounded
  <1>1. ASSUME IInv PROVE WaitIsBounded
    <2> USE <1>1, AccessAssumption DEF IInv, TypeOK, Urls
    <2>1. asked <= Retries + 1
      BY DEF CallsCounted
    <2>2. url * ProbeLimit <= NumUrls * ProbeLimit
      OBVIOUS
    <2>3. delay <= FirstDelay * 2 ^ Retries
      <3>1. 2 ^ retries >= 1 /\ 2 ^ retries \in Nat /\ 2 ^ Retries \in Nat
        BY PowerType
      <3>2. delay <= delay * 2 ^ retries
        BY <3>1
      <3> QED
        BY <3>2 DEF WaitsCounted
    <2>4. FirstDelay * (2 ^ Retries - 1) = FirstDelay * 2 ^ Retries - FirstDelay
      BY PowerType
    <2>5. url * ProbeLimit \in Nat /\ NumUrls * ProbeLimit \in Nat /\ FirstDelay * 2 ^ Retries \in Nat
      BY PowerType
    <2>6. waited <= url * ProbeLimit + delay - FirstDelay
      BY DEF WaitsCounted
    <2>7. waited <= NumUrls * ProbeLimit + FirstDelay * 2 ^ Retries - FirstDelay
      <3>1. \A p, q, e \in Nat : p <= q /\ delay <= e /\ waited <= p + delay - FirstDelay
                                   => waited <= q + e - FirstDelay
        OBVIOUS
      <3> HIDE <1>1, AccessAssumption DEF IInv, TypeOK, Urls
      <3> QED
        BY <2>2, <2>3, <2>5, <2>6, <3>1, Zenon
    <2> QED
      BY <2>1, <2>4, <2>5, <2>7 DEF WaitIsBounded
  <1> QED
    BY <1>1, InvariantHolds, PTL
=============================================================================

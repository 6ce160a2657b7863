--------------------------- MODULE ContractAccess ---------------------------
(***************************************************************************)
(* getContractReadOnly of frontend/web/src/contract.ts: the RPC URLs are   *)
(* probed in order, each with ten seconds to answer, and the first to      *)
(* answer is asked, with retries, for the code at the configured address.  *)
(* A probe that timed out is not cancelled: its answer may come later.     *)
(***************************************************************************)
EXTENDS Integers

CONSTANTS
    NumUrls,     \* length of rpcUrls: 4 in the code
    Retries,     \* retries of getCode: 3 in the code
    FirstDelay,  \* seconds before the first retry: 1 in the code
    ProbeLimit   \* seconds a probe may take: 10 in the code

ASSUME AccessAssumption ==
    /\ {NumUrls, Retries, FirstDelay, ProbeLimit} \subseteq Nat
    /\ NumUrls > 0 /\ FirstDelay > 0

VARIABLES
    deployed,   \* there is code at config.contractAddress
    pc,         \* the await getContractReadOnly is at
    url,        \* index of the URL being probed, or of the chosen provider
    probe,      \* per URL: how its getBlockNumber ended in the race
    late,       \* probes that lost the race and have not settled
    retries,    \* retries left
    delay,      \* seconds before the next retry
    asked,      \* getCode calls so far
    waited,     \* seconds spent in timers
    result      \* what getContractReadOnly returned: 0 for null, else the provider

accessVars == <<pc, url, probe, late, retries, delay, asked, waited, result>>
vars == <<deployed, accessVars>>

Urls == 1 .. NumUrls

Init ==
    /\ deployed \in BOOLEAN
    /\ pc = "probing"
    /\ url = 1
    /\ probe = [u \in Urls |-> "untried"]
    /\ late = {}
    /\ retries = Retries /\ delay = FirstDelay
    /\ asked = 0 /\ waited = 0
    /\ result = 0

\* The catch block of the loop: the next URL, or "All RPC providers failed",
\* which getContractReadOnly turns into null
NextUrl ==
    IF url < NumUrls THEN url' = url + 1 /\ pc' = "probing"
                     ELSE url' = url /\ pc' = "returned"

ProbeAnswers ==
    /\ pc = "probing"
    /\ probe' = [probe EXCEPT ![url] = "answered"]
    /\ pc' = "coding"
    /\ asked' = asked + 1
    /\ UNCHANGED <<deployed, url, late, retries, delay, waited, result>>

ProbeFails ==
    /\ pc = "probing"
    /\ probe' = [probe EXCEPT ![url] = "failed"]
    /\ NextUrl
    /\ UNCHANGED <<deployed, late, retries, delay, asked, waited, result>>

\* The timer wins the race
\* Mutant: the timeout is taken for an answer
TimeoutAccepted ==
    /\ pc = "probing"
    /\ probe' = [probe EXCEPT ![url] = "late"]
    /\ late' = late \cup {url}
    /\ waited' = waited + ProbeLimit
    /\ pc' = "coding" /\ asked' = asked + 1
    /\ UNCHANGED <<deployed, url, retries, delay, result>>
\* Mutant: the probe is awaited without a timer
ProbeWithoutTimer == pc = "probing" /\ UNCHANGED vars
ProbeTimesOut ==
    /\ pc = "probing"
    /\ probe' = [probe EXCEPT ![url] = "late"]
    /\ late' = late \cup {url}
    /\ waited' = waited + ProbeLimit
    /\ NextUrl
    /\ UNCHANGED <<deployed, retries, delay, asked, result>>

\* The race is settled: the value or the error is dropped
LateSettles(u) ==
    /\ u \in late
    /\ late' = late \ {u}
    /\ UNCHANGED <<deployed, pc, url, probe, retries, delay, asked, waited, result>>

CodeAnswers ==
    /\ pc = "coding"
    /\ result' = IF deployed THEN url ELSE 0
    /\ pc' = "returned"
    /\ UNCHANGED <<deployed, url, probe, late, retries, delay, asked, waited>>

\* Mutant: the last retry is not made
CodeFailsOneRetryEarly ==
    /\ pc = "coding"
    /\ pc' = IF retries > 1 THEN "waiting" ELSE "returned"
    /\ UNCHANGED <<deployed, url, probe, late, retries, delay, asked, waited, result>>
\* The catch block of retry: a timer is set, or the error is thrown and
\* getContractReadOnly returns null
CodeFails ==
    /\ pc = "coding"
    /\ pc' = IF retries > 0 THEN "waiting" ELSE "returned"
    /\ UNCHANGED <<deployed, url, probe, late, retries, delay, asked, waited, result>>

\* The timer of retry fires, and retry calls itself
\* Mutant: the retries are handed on as they are
RetryForEver ==
    /\ pc = "waiting" /\ asked < 2 * Retries
    /\ waited' = waited + delay
    /\ delay' = 2 * delay
    /\ asked' = asked + 1
    /\ pc' = "coding"
    /\ UNCHANGED <<deployed, url, probe, late, retries, result>>
Retry ==
    /\ pc = "waiting"
    /\ waited' = waited + delay
    /\ retries' = retries - 1
    /\ delay' = 2 * delay
    /\ asked' = asked + 1
    /\ pc' = "coding"
    /\ UNCHANGED <<deployed, url, probe, late, result>>

\* A caller that got its answer stops here
Returned == pc = "returned" /\ late = {} /\ UNCHANGED vars

Next ==
    \/ ProbeAnswers \/ ProbeFails \/ ProbeTimesOut
    \/ \E u \in Urls : LateSettles(u)
    \/ CodeAnswers \/ CodeFails \/ Retry
    \/ Returned

Spec == Init /\ [][Next]_vars

\* Timers fire, and getCode, which has no timer of its own, answers or throws.
\* Nothing is assumed of the probes.
AccessFairness == WF_vars(ProbeTimesOut) /\ WF_vars(Retry) /\ WF_vars(CodeAnswers \/ CodeFails)

FairSpec == Spec /\ AccessFairness

----------------------------------------------------------------------------
\* Properties

\* A contract is returned only with the first URL that answered its probe in
\* time, and only if there is code at the address; a probe that settles late
\* never becomes the provider.
ProviderIsFirstInTime ==
    result # 0 =>
        /\ deployed /\ probe[result] = "answered"
        /\ \A u \in 1 .. result - 1 : probe[u] \in {"failed", "late"}
        /\ \A u \in result + 1 .. NumUrls : probe[u] = "untried"

\* Null is returned only if no URL answered in time, if there is no code, or if
\* every call of getCode, the first and all retries, failed.
NullIsExplained ==
    pc = "returned" /\ result = 0 =>
        \/ \A u \in Urls : probe[u] \in {"failed", "late"}
        \/ ~ deployed
        \/ asked = Retries + 1

\* The timers of one call never add up to more than a full wait for every probe
\* and the doubling delays of all retries: 47 seconds in the code.
WaitIsBounded ==
    /\ asked <= Retries + 1
    /\ waited <= NumUrls * ProbeLimit + FirstDelay * (2 ^ Retries - 1)

\* Every call returns, even if no probe ever settles.
AccessReturns == <>(pc = "returned")
=============================================================================

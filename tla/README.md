# Verification of DposFhe

DposFhe is a governance demonstrator for delegated proof of stake: a Solidity
contract that keeps encrypted stakes, delegations and votes
(`contracts/DposFheCore.sol`), and a web application that keeps a public list
of nodes and delegations in a second, generic contract
(`frontend/web/src/App.tsx` over `UniversalAdapter`). This directory holds
TLA+ modules of both and of the script that deploys the second, the TLC
configurations that check them, and proofs that TLAPS checks.

Paths below are relative to the repository. `PROJECT.json` maps every
definition to the lines it models.

## 1. The system

| Component | State | Operations | Talks to |
|---|---|---|---|
| **DposFheCore** (`contracts/DposFheCore.sol`) | counters and mappings of stakes, delegations, votes, proposals; an encrypted total per validator; the purpose of each decryption request | `submitEncryptedStake`, `submitEncryptedDelegation`, `submitEncryptedVote`, `createProposal`, two `requestDecryption...`, `_onDecryptCallback`, `emergencyResetWeights`, `receive`, `fallback` | the FHE library (calls), the decryption oracle (event out, callback in) |
| **FHE library, oracle, KMS** (npm packages) | next request id, saved handles per request, ciphertexts, access-control list | `add`, `asEuint64`, `requestDecryption`, `checkSignatures` | called by DposFheCore, calls back |
| **UniversalAdapter** (source embedded in `artifacts/build-info`) | one mapping from keys to bytes | `setData`, `getData`, `isAvailable` | called by the web application |
| **Web: operations** (`App.tsx` 172-478) | locals of the running handler, React state, the wallet's pending transactions | `registerNode`, `delegateVotes`, `activateNode`, `deactivateNode` | `setData`/`getData` over RPC, the wallet |
| **Web: page load** (`App.tsx` 52-54, 80-170) | `nodes`, `delegations`, `isRefreshing`, `loading` | `loadData`, from the mount effect, the Refresh button and every handler | `getContractReadOnly`, `getData` |
| **Contract access** (`frontend/web/src/contract.ts`) | locals | `getTestnetProvider`, `retry`, `getContractReadOnly`, `getContractWithSigner` | RPC nodes, the wallet |
| **Web: wallet session** (`App.tsx` 56-78, `WalletSelector.tsx`, `WalletManager.tsx`) | `account`, `provider`, listeners on wallets | connect, disconnect, `accountsChanged`, network switch | injected wallets |
| **Web: view state** (`App.tsx` 46-50, 484-489, 877-961) | tab, search, dialog, status overlay and its timers | clicks, timers | none |
| **Theme maths** (`WalletManager.tsx`) | the theme, the last background colour, the style attribute | observe, update, render; colour conversions | the document |
| **Deployment script** (`deploy/deploy.ts`) | the file system, `.diffcache`, `config.json` | scan, clean, generate, deploy, write the configuration | the file system, the chain |

Bindings and artifacts, build settings, styles, documentation and the filler
files the deployment script generates have no behaviour to model.

### What is hard here

* **Concurrency of users.** The web application reads a JSON value, changes it
  and writes it back, in several transactions with a wallet confirmation
  between them, and nothing on the chain checks that the value is still the one
  that was read. `await contract.setData(...)` returns when the transaction
  is *submitted*, so a handler's own later read does not see its earlier write
  and the success message comes before anything is mined.
* **Partial failure.** A user may reject the second of four transactions.
* **Concurrency of reads.** A page load is a sequence of reads with writes in
  between, and loads overlap.
* **Requests and callbacks.** A tally is requested, answered by a relayer
  later, answered again, or answered with a proof made for another request,
  while votes, delegations and resets go on.
* **Numeric edges.** 64-bit totals that wrap; 32-bit weights that must be
  promoted before they are added.
* **Timeouts and retries** in front of every load.
* **State outside the contract.** The access-control list of the FHE executor
  decides which calls go through, and forgets at the end of each transaction.
* **Two wallets and one page.** The page shows the account of the wallet that was
  selected; `window.ethereum` signs. Selections overlap, listeners are never
  removed, timers are never cancelled.
* **A script without undo.** The deployment script deletes files by a list it
  wrote in an earlier run, which may have died at any point.
* **Feedback.** The wallet's theme derives from a colour the theme itself may set.

`PROJECT.json` lists the hazards line by line with the properties aimed at them.

### What makes each component correct

* DposFheCore: a total counts what was delegated since the last reset, once
  each, and decrypts to its sum; a request asks for exactly what the state held
  when it was made; a completion belongs to a request and to a signature;
  every request can be answered; records are never altered.
* Web operations: nothing displayed dangles, changes owner, gains votes nobody
  gave or a status the owner never chose, however operations race; and as long
  as operations do not overlap the data behave as an atomic registry.
* Page load: what is displayed was true of each node at some time; no node is
  missed; the page is always left usable.
* Contract access: the provider is the first to answer in time; null has a
  reason; the wait is bounded.
* Access-control list: what the contract can still do with a total or a ballot
  is exactly what somebody allowed, or what it computed in this transaction.
* Wallet session: the account shown is the one of the wallet in use, and what is
  stored names the account that signed it, as far as the code can ensure it; the
  page is never covered for good; one operation's timers spare the next one.
* Deployment: no file of the project is lost but at a path the script drew, also
  in the folder it was copied from; what a clean-up leaves is the trace of a
  failure; the frontend is told an address something is deployed at.
* Theme: colours are named rightly, and the theme comes to rest on the colour it
  should fit.

## 2. Modules

```
DposFheCore ---- MCDposFheCore            (TLC)
     \-- DposFheAcl --|-- MCDposFheAcl   (TLC)
                       \-- DposFheProofs  (TLAPS), with SetSums

UniversalAdapter
     \-- GovernanceApp --INSTANCE--> GovernanceRegistry
              |\-- MCGovernanceApp
              |\-- GovernanceAppProofs    (TLAPS), with SetSums
              \-- PageLoad --|-- MCPageLoad
                              \-- PageLoadProofs

ContractAccess -- ContractAccessProofs
WalletSession --- MCWalletSession, WalletSessionProofs
DeployScript ---- MCDeployScript, DeployScriptProofs
WalletTheme ----- MCWalletTheme, WalletThemeProofs
```

### DposFheCore

One action per external function. A transaction runs alone and commits or
reverts as a whole; a revert is a stutter, so a `require` is a guard. Variables
have the contract's names; `requestedHandles` and `counterRequest` are the FHE
library's storage, `kmsSigned` is what the KMS has signed, `log` is the list of
emitted `DecryptionRequested` and `DecryptionCompleted` events, `now` is the
block timestamp.

* A `euint64` handle is a record of the set of delegations added into it
  (`terms`) and the number it decrypts to (`value`). The contract reads neither;
  `terms` gives every handle its identity.
* `bytes32` hashes, ciphertexts and KMS-signed lists are model values, sets and
  functions. A hash of a tuple is the tuple, that is, keccak256 is taken as
  injective.
* A request's handle list is indexed by the index of the vote it came from.
  Signatures are compared as the library does it, handle by handle
  (`SameList`), so a signature for one request can complete another one with
  the same handles. Anyone may deliver a callback, to any id, again and again.
* `FHE.promoteEuint32ToEuint64`, which line 106 calls, is not in the library
  version the artifacts embed (there the cast is `asEuint64`); it is modelled
  as the cast its name announces.
* Access-control grants (`FHE.allow`, `FHE.allowThis`) are left to `DposFheAcl`.
  A call the list refuses reverts, which is a stutter here.
* Getters change nothing. `sumEncryptedChoices` and `addEncryptedWeights`
  change nothing either and nothing calls them. (Both are declared `pure` and
  call library functions that are not, so they do not compile against the
  library the artifacts embed.)
* Ether only raises `balance`.

### DposFheAcl

The contract under the executor's access-control list. `allowed` is permanent,
`transient` lasts until `EndTransaction`; a calling contract may make several
calls in one transaction. Each action is the one of `DposFheCore` with the
list's guard: an addition needs the recorded total (`AdditionIsAllowed`), a
decryption request needs every handle it lists. Owners grant their handles at any
time (`Allow`, `AllowTransient`). The histories `tx`, `delegatedIn`,
`requestedIn` and `granted` are what the properties speak about.

`submitEncryptedVote` checks no handle and `encryptedValidatorWeight` is public,
so a ballot may carry a total of the contract itself: `Ciphertexts` may overlap
`Handle64`, and nothing is assumed of the two. Only who may use a handle may let
others use it, and the contract lets nobody use what it computes, so a grant is
always of a client's handle (`ClientHandles`). Each computation is taken to return
a handle of its own: the executor mixes the handles and operation it was given
into the new handle, and the model's handles are told apart by the delegations
added.

What this shows of the code: no `FHE.allowThis` follows the addition at line
104, so a validator takes delegations in one transaction and is refused them in
all later ones until `emergencyResetWeights` (a finding), and its weight can be
requested in that one transaction only. `requestDecryptionForAggregatedVotes`
reverts for ever once one voter of the proposal grants nothing, or voted with a
total of an earlier transaction.

### UniversalAdapter and GovernanceApp

`UniversalAdapter` is the key-value store. In `GovernanceApp` each client is a
user with one browser tab and one account. Each client's `pc` is the await its
handler stands at, so one step is the code between two awaits. `Submit` puts a
transaction in the account's queue, `Mine` applies the head of a queue: order
by nonce within an account, any order between accounts. After its last write is
submitted a handler is `completed`, and `Succeed`, a step of its own, displays the
success. `Fail` is the catch block: it may happen at every await, also between
those two. `shown` over-approximates what some page
load has displayed: the buttons of a page are those of a node in `shown`.

JSON text is the record it encodes; a name, a description and the time a
record was made are left out. Status messages are not state: that a tab is idle
and no await threw says that its last message was a success. Ids made from the
time and the account are taken as unique.

A tab runs one handler at a time. The status overlay gives that to the pointer,
but a button behind it can still be pressed by keyboard. `WalletSession` has that
second handler, with its timers and its text; its writes are not modelled. They
would race with the first one's as those of another account do, except that
both are in one queue, in nonce order.

ethers v6 returns the string `"0x"` for empty bytes, so `length > 0` is true
even for a key never written; `JSON.parse` then throws and the inner `catch`
gives the result the test was written for: an empty list, a skipped record,
"Node not found" becoming another error message. The model has the outcome.

### GovernanceRegistry

The abstract registry of nodes and delegations, with atomic operations. It
splits a delegation into counting its votes and recording it, as the application
must, and promises that recorded delegations never exceed counted votes.
`GovernanceApp` maps the listed records of the store to it (`RegistryNodes`,
`RegistryDelegations`).

### PageLoad

`loadData` in the tab of one client, the *viewer*, composed with
`GovernanceApp`. Each call is a process of its own with its `todo` list of ids
and its locals, since calls overlap: React's StrictMode mounts twice (`MountLoads`), the Refresh
button starts one, and a handler that succeeded (`Succeed`) ends in one. The viewer
starts operations only from the buttons of the nodes displayed; other clients use
`shown`.
`ViewsAreGenuine` checks that a page's nodes are always in `shown`, so the
over-approximation in `GovernanceApp` is one. Reads return the latest mined state.

### WalletSession

One tab, without the chain: the wallets of the selector, `window.ethereum`,
`provider`, `account`, the selector, the dialog, the overlay with its timers,
and the handlers as far as they use these (`op`). `handleWalletSelect` and
`onWalletSelect` are a process per selection, since the selector stays open
while a wallet is asked. A listener on a wallet is registered by each grant and
never removed. A handler keeps the account it was rendered with; its signer is
whatever `window.ethereum` has selected when `getContractWithSigner` asks.

What covers a button takes the pointer only: the overlay is a `z-index`, nothing
takes the focus or is disabled but the dialog's submit button while a registration
runs. So every button can also be pressed behind what covers it (`Press`), during any operation and in the seconds its timer runs, and
text can be typed into the dialog at any time (`TypeText`).

Some of what the code does is not what its user expects, and the properties say
how far it goes instead of excluding it:

* `AccountFollowsWallet`: a listener is never removed, so with listeners on two
  wallets either of them sets the account, and after a disconnect a leftover one
  shows an account while `provider` is null. Whatever is shown is then still an
  account that is selected, now, in a wallet the page listens to; and with no
  other listener left it is that of the page's wallet, also while overlapping
  selections have yet to answer.
* `RecordsNameTheirSigner`: the record names the displayed account although
  `window.ethereum` signs. They are the same when the handler began with
  `window.ethereum` as the page's wallet, no selection under way and no listener on
  another wallet, and the user changed no account while it ran (`agreed`). What
  is then left are two failures of that very wallet: it gave no account
  (`refused`), or was not switched to Sepolia (`unswitched`). Both are set in the
  step where it happens, of `window.ethereum` only: nothing another wallet
  refused, and no other overlap, excuses a wrong record.
* `OneOperationAtATime`: holds until a button is pressed behind the overlay
  (`pressedBehind`); a dialog or the selector behind which one is pressed is no
  excuse. `CoverIsTemporary` has none.
* `TextIsKept`: the timer of a registration clears the form, whatever is in it. A
  text other than the registered one is newer, and was typed behind the overlay
  (`typedBehind`), or an operation was begun there. So text a user types during
  a registration is lost, and this is the only way to lose one.

`isConnecting`, which greys the connect button during a call that does not wait,
and the panel "Other Wallets", which offers no further wallet with a provider, are
not modelled.

### WalletTheme

`WalletManager.tsx`. The colour conversions are integer arithmetic: exact, where
the code's floats are off at most at ties (rgb(102, 102, 102) has luminance 0.4
and is dark to the code). The component is a loop: an observer sees a changed
style or class, `updateThemeFromBackground` reads the colour behind the wallet
and sets the theme, React writes the theme to the container's style, and the
observer sees that. With an account connected the container itself has the
theme's `--wallet-bg` as its background and is where the colour is looked for
first, so the theme follows its own colour and no longer the page.

### DeployScript

`deploy/deploy.ts` on a tree of files. A run scans, cleans what `.diffcache`
lists, generates, caches, deploys and writes `config.json` and the ABI. Every write
and every deletion is a step, a deleted file with the folders it leaves empty being
one; the process can die between any two, or within the write of the cache or of
`config.json`. What can fail by itself, and is caught by the script, has a name in
`causes`:

| Fault | Code | What the run does |
|---|---|---|
| `scan` | `readdirSync`, `statSync` of the scan (71, 79) | misses what comes after, cleans and generates |
| `read` | `existsSync`, `readFileSync` of the cache (200, 206) | cleans nothing, generates |
| `unlink` | `existsSync`, `unlinkSync` of a listed file (211, 212) | leaves it, goes on |
| `rmdir` | `readdirSync`, `rmdirSync` of a parent folder (218-222) | stops going up, goes on |
| `cache` | `unlinkSync` of the cache (237) | leaves the cache, generates |
| `collisions` | 50 draws that all exist (193) | uses the last one |
| `write` | `mkdirSync`, `writeFileSync` of a generated path (258-283) | goes on without it, a file perhaps written in part |
| `stat` | `existsSync` of a base folder or the frontend's (294, 350) | skips it |
| `copy` | reading or writing the ABI (364-384) | ends without it |

A failure of anything else is not caught within the run: it ends it, a `crash`.

Paths are sequences of names; names come from small sets that contain `config`,
which `generateFileName` really can draw, and a base folder is `frontend/web/src`.
`.diffcache` holds absolute paths, so a list belongs to the folder (`home`) it was
made in. `Clone` moves or copies the project: after a move the list names nothing
that exists, and after a copy the next run deletes the generated files of the
folder the project was copied from (`former`), because line 211 asks only whether
the absolute path exists. A folder the cache lists is never unlinked itself, but
goes with the last file in it.

### ContractAccess

One call of `getContractReadOnly` with the code's own constants: four URLs, ten
seconds for a probe, three retries of `getCode` after 1, 2 and 4 seconds. Each
call may answer, fail, or not answer; a probe that lost its race settles later
or never. `waited` adds up the timers.

## 3. Runs

| Run | What it checks | Bounds |
|---|---|---|
| `weights` | `TypeOK`, `WeightCountsWholeSuffix`, `WeightDecryptsToSum`, `WeightRequestIsComplete`, `WeightOnlyGrowsOrIsErased` | 2 validators, 4 delegations, 1 stake, 1 request, 2 blocks, `Euint32Size` 2, `Euint64Size` 4 |
| `ballots` | `VotesFollowProposals`, `BallotRequestIsComplete`, `LaterTallyExtendsEarlier`, `CompletionsAreSigned`, `CompletionsMatchRequests`, `RecordsAreImmutable`, `EveryRequestAnswered` (liveness) | 2 proposals, 3 votes, 2 choices, 2 requests, each completed up to twice, 2 blocks |
| `tally_sum` | finding: the comment at line 163 | as `ballots` |
| `acl` | `AclTypeOK`, `WeightRequestsAreImmediate`, `TalliedBallotsWereUsable` | 1 validator, 3 delegations, 2 votes for a client's ciphertext or for one of two totals, 1 request, 3 transactions, 2 blocks |
| `acl_refused` | finding: refused delegations | as `acl` |
| `app_register` | finding: lost nodes | 1 user with 2 operations |
| `page` | `ViewsAreGenuine`, `IdlePageIsUsable`, `ListedRecordsAreStored`, `VotesAreBacked`, `StatusIsOwnersChoice`, `OwnersNeverChange` | 2 users, 3 operations that overlap and may be interrupted, 3 loads, one of them at mount |
| `page_serial` | `ImplementsRegistry` (refinement), `LoadsMissNothing`, `RefreshingEnds` (liveness) | operations one at a time, possibly interrupted; 3 operations, 3 loads |
| `access` | `ProviderIsFirstInTime`, `NullIsExplained`, `WaitIsBounded`, `AccessReturns` (liveness) | the code's own constants |
| `session` | `AccountFollowsWallet`, `RecordsNameTheirSigner`, `CoverIsTemporary`, `OneOperationAtATime`, `TextIsKept` | 2 wallets, 2 accounts, 2 selections, 2 operations, 2 texts, 1 change made in a wallet or press behind a cover |
| `theme` | `HslNamesTheColour`, `SettledThemeFits`, `ThemeSettles` (liveness), `TypeOK` | 127 colours, 1 change of the page, any number of connects |
| `deploy` | `OwnFilesSurvive`, `CleanLeavesNothing`, `ConfigNamesDeployed` | 2 runs, 1 kind of fault per behaviour, 2 file names, 1 folder name, folders up to 2 deep |

**Why the bounds are enough.** With `Euint32Size` 2 the largest weight is 1 and
four delegations wrap a 64-bit total of size 4, while up to three stay exact:
both sides of the overflow are reached. Two blocks tell "in the same block"
from "later", which is all that timestamps are compared for. Two requests give
a replayed id, a second tally of the same proposal and a tally of another one;
three votes put a vote for the other proposal between two of the same. Under
the access-control list a transaction with two delegations, a reset and a
third, and two later transactions, all fit, and so does one that delegates, votes
with the new total and requests the tally. Three operations are a registration and
two that race on its node, or two registrations and what follows; the theorems
have any number. Three loads are two that overlap and one that follows: in the runs
the page is mounted once, as a production build does, and the overlap comes from
the Refresh button and the handlers; StrictMode's second load at mount is in the
theorems, which hold for every `MountLoads`. In a session two selections overlap, of the same or of
different wallets, and two operations let the timers of the first meet the
second, which one press behind the overlay starts early; a second text is one typed
while the first is registered. That one press and one change in a wallet do not
meet in a behaviour of the run is left to the theorems. The colours have greys, every order and tie of the channels, a hue that
rounds to 360, and both sides of the luminance threshold. Two deployment runs
are one that leaves files and a cache behind and one that cleans them; one kind
of fault per behaviour (as often as it likes) keeps what each kind alone can
break apart, and no property needs two. Symmetry is used in safety runs only.

**Deadlock** is checked in the runs of `DposFheCore`, where
`emergencyResetWeights` with an empty list is always possible, and of
`ContractAccess`. `CHECK_DEADLOCK FALSE` stands in the other runs, whose bounds
on operations, loads, transactions or runs of the script end the behaviours.

Types are checked in the runs of the contract, of the access-control list and of
the theme, where they say something the code could get wrong (a mapping filled
beyond its counter, a total allowed for ever, a lightness that is no percentage).
The other modules' properties would fail on an ill-typed value.

**Every property has a mutant**: a definition changed the way a plausible bug
would, commented `Mutant:` above the definition it replaces. Each makes its
property fail under the property's own run.

### Fairness

* `RelayerFairness`: the KMS signs what was requested and the relayer delivers
  it. Both are outside the repository; the contract's design of request and
  callback rests on them. Nothing is assumed of users.
* `LoadFairness`: an RPC call of a load answers or throws. ethers ends a request
  after its own default timeout. Nothing is assumed of users, of transactions
  being mined, or of a call succeeding.
* `AccessFairness`: timers fire, and `getCode`, for which the code sets no timer,
  answers or throws for the same reason. Nothing is assumed of the probes.
* The theme's: the browser runs an observer callback that is due, and React
  commits a state that was set. Nothing is assumed of the page and the user;
  `ThemeSettles` speaks of behaviours in which the account stops changing.

`EveryRequestAnswered` is checked with tally requests; weight requests are filed
by the same `FileRequest` and their list is never empty by
`WeightRequestIsComplete`.

## 4. Findings

* `tally_sum`: the comment at `contracts/DposFheCore.sol:163` announces a
  homomorphic sum of the choices; the code requests the decryption of each
  single ballot (line 176).
* `acl_refused`: `README.md` promises "Stake changes reflected instantly" (line 45)
  and that the system "updates total weights" (119), and the comment at
  `contracts/DposFheCore.sol:99` that a delegation is added to the validator's
  total. The second transaction that delegates to a validator reverts, because the
  contract may no longer use the total (line 104). The same missing
  `FHE.allowThis` makes a weight requestable only in the transaction that
  delegated (`WeightRequestsAreImmediate`).
* `app_register`: after two registrations announced as successful, `node_list`
  can hold one: it is rewritten from a read that is older than a pending write.
  One user alone can do this.

Two delegations that read the same node record leave one delegation's votes,
after both were announced, by the same race; the record is written back as a
whole, so the race also brings back the status from before a deactivation.
`VotesAreBacked` and `StatusIsOwnersChoice` say what remains true.

`ImplementsRegistry` shows the other side, and `RegistryImplemented` proves it:
without overlap, even with interrupted operations, none of this happens.

## 5. Proofs

Each module's theorems hold for every value of its constants that satisfies the
module's assumptions, which TLC evaluates on every run. The bounds can be as
large as one likes. The same pattern serves everywhere: an inductive invariant
(`IInv`, a conjunction of named parts), one lemma per part or action, and
theorems that draw the checked properties from it. Each inductive invariant was
checked with TLC on the module's run before it was proved.

The assumptions on the contract: `WidthAssumption` (the 64-bit range is the
square of the 32-bit range), and `HandleAssumption` (the zero handle is no
ciphertext's).

`SetSums`: `MapThenSumSet` adds in an order of its own, by recursion. The lemmas
say that a set of weighted elements has as many *units* (pairs of an element and
a number below its weight) as the weights sum up to, and what that gives for one
more element and for a bound on the weights. The induction is over a set of
subsets (`SubsetInduction`), which needs no operator as a parameter.

`DposFheProofs`, on the contract

* `TypeCorrect`: `TypeOK` is inductive. That each mapping is a function on
  exactly `1 .. count` is what later proofs lean on.
* `ClockCorrect`: no record or purpose is dated after `now` (`ClockBounds`).
  It is the strengthening the request invariants need.
* `VotesCorrect`, `WeightCorrect`, `WeightGrowth`.
* `SumCorrect`: from `TotalsAddUp`: the units of the delegations a total counts
  are its value and some whole turns of the 64-bit range. That up to 2^32 + 1
  weights do not wrap follows from `UnitsBound`, since a weight is promoted to 64
  bits before it is added.
* `BallotsCorrect`: inductive together with `TypeOK` and `ClockBounds`. A vote
  cast after a request has an index above every listed one and a timestamp not
  before the request's, which is why the unlisted ballots stay explained.
* `RecordsStay`: each step extends each mapping.
* `LaterTallyCorrect`: from `BallotRequestIsComplete`; a new request lists all
  ballots cast, and an old one lists only ballots cast.
* `WeightRequestCorrect`: from `WeightCountsWholeSuffix` at the time of the
  request and `ClockBounds` after it.
* `CompletionsCorrect`, `SignedCorrect`: strengthened by `LogBounds` (announced
  ids are below the counter, every filed purpose has been announced in the log).

`DposFheProofs`, on the access-control list

* `AclImplementsCore`: `AclSpec => Spec`. Every action of `DposFheAcl` is one of
  `DposFheCore` with more guards, or leaves the contract alone, so all theorems
  above hold under the list as well.
* `AclTypeCorrect`: no total is ever allowed for good, since the contract allows
  nobody a handle it computed.
* `ImmediateCorrect`, `TalliedCorrect`: from `UsedIsRecentOrGranted`, the
  strengthening: whatever the contract may use was granted, or was computed from
  delegations of the current transaction (`ComputedIn`). It is kept because a
  delegation computes from a total it may use, which counts the current
  transaction's delegations only, and because the end of a transaction empties
  `transient`. A ballot with a handle of the contract's own needs no exclusion: if
  it can be decrypted at all, it was computed in the transaction of the request.
  What later steps add is outside the list (`WeightRequestIsComplete`,
  `BallotRequestIsComplete`) and not dated before it (`ClockBounds`).

`GovernanceAppProofs`: any number of users, operations and votes. A handler may
stop for good at any of its awaits, since nothing is assumed of fairness.

* `InvariantHolds`. The parts of `IInv` speak of the transaction queues and of
  the handlers' locals, not of the store alone, because what is on its way will
  be stored:
  * `Control`: what a handler works on at each await; ids are used once.
  * `Pointers`: in each account's queue a list comes after the record of each id
    it adds (`QueuePoints`), and what a handler read or sent before is stored or
    ahead in its queue (`HandlerPoints`).
  * `Versions`: all versions of a node's record, stored, queued, or held by a
    handler that will write it back, agree on the owner; none has more votes than
    were requested, or a status the owner never chose.
  * `FreshNodes`: there is no version before the registration sends the first.
  * `OwnersAct`: a status handler is run by the owner of the stored record.
* `ListsCorrect` (from `Pointers`), `VotesCorrect` and `StatusCorrect` (from
  `Versions`), `OwnersCorrect` (an action property).
* `RegistryImplemented`: if operations do not overlap (`Serialised`), the
  application implements `GovernanceRegistry`. `SerialInv` adds to `IInv`:
  * `OneInFlight`: at most one account has a handler at work or a transaction
    waiting. It may also have submitted and mined everything and have yet to display
    its success, when nothing is left to say of it (`Unsettled`). What that operation submits, in order, is its `Plan`, read off the
    store as it is now; the queue is the stretch of the plan between what is mined
    and what is submitted (`Progress`), and what the handler holds is what is
    stored (`HoldsStored`). A write that is mined must not change the rest of the
    plan, which is where the order of `delegateVotes`'s three writes matters.
  * `Effects`: what is stored already of an operation under way. A node gets its
    record before its place in the list, and votes before the delegation: the
    votes counted exceed those recorded by what is yet to be recorded, also after
    an operation was interrupted for good.
  * `RegistrySound`: recorded delegations never exceed counted votes. The sum over
    a node's delegations is counted in units (`SetSums`).

  Every step of a client is then a step of the registry or leaves it alone: the
  record of a registration changes nothing (its id is not listed), the list is
  `Register`; `AddVotes`, nothing, `RecordDelegation`; `SetStatus`.

`PageLoadProofs`: any number of loads, overlapping, failing and interleaved with
the operations above.

* `PageIInv` adds to `IInv`: every listed node has a card that can be shown and
  every card that could ever be shown is still current up to votes
  (`ShownIsCurrent`); no version of the node list has an id twice or one that a
  handler has yet to add (`NodesAreListedOnce`); what a load has collected is
  genuine and disjoint from what it has yet to read (`LoadIsGenuine`).
* `ViewsCorrect`, `IdlePageCorrect`. That sorting loses and doubles no node
  (`Permutes`) is proved by counting, for lists of any length.
* `PageImplementsApp`: `PageSpec => Spec`, so the theorems about `GovernanceApp`
  hold behind the page; `PageImplementsRegistry` is one of them.
* `LoadsCorrect`: under `Serialised`, from `PageKnows`: what was listed when a load
  began has been collected with at least its votes of then, or is still to be read
  (`LoadKnows`), and all of this is listed with at most the votes now stored. It
  is kept because every step of the registry only adds nodes and votes
  (`RegistryVotesGrow`).

`ContractAccessProofs`: any number of URLs and retries, any delays.

* `ProviderCorrect`, `NullCorrect`: from `ProbesInOrder` and `CallsCounted`.
* `WaitCorrect`: from `WaitsCounted`, whose conserved quantity is
  `delay * 2 ^ retries`. The provers know nothing of powers; `PowerType` and the
  doubling lemma are derived from the number of subsets of a finite set.

`WalletSessionProofs`: any number of wallets, accounts, selections, operations.

* `SessionInvariantHolds`. `WalletInv` ties the account shown to what a listener
  has heard, and an empty one in `window.ethereum`'s wallet to a selection that has
  yet to answer, a refusal or another wallet's listener; `AgreedOpsAgree` says that
  what an operation kept of the wallet still holds while it runs; in `WorkInv`,
  `OneIsBusy` says that one operation owns the overlay and its timer, and
  `TextIsOlder` and `TextIsInForm` that the form has the text of the registration
  under way, or a newer one that was typed behind the overlay.
* `AccountCorrect`, `RecordsCorrect`, `CoverCorrect`, `OperationsCorrect`, and
  the action property `TextCorrect`.

`DeployScriptProofs`: any tree, names, number of runs and faults.
`DeployAssumption` says what the code's constants give: no drawn folder name is
a drawn file name or that of `config.json`, because `generateFolderName` adds no
extension; no drawn folder is the frontend's, because `web` is no word of
`WORD_LIBRARY`; the project's own tree is a tree of its own files.

* `DeployInvariantHolds`: the tree is one (`TreeOK`); what is listed, in memory
  or on disk, was returned by `generateUniquePath` (`ListsOK`), and own files are
  lost only there, here (`OwnOK`) and in the folders the project was copied from
  (`FormerOK`); a whole scan knows the disk (`ScanOK`); as long as nothing of
  `Clear` goes wrong, the list current in this phase has every generated file,
  also when an old cache could not be deleted (`TrackOK`), and every generated
  folder one, unless a removal failed or the user wrote into it (`FolderOK`);
  `ConfigOK`.
* `OwnFilesCorrect`, `CleanCorrect`, `ConfigCorrect`. For `CleanCorrect`: if
  nothing listed is on disk, nothing generated is, since a generated folder
  has a generated file in it. Of the failures in the clean-up, `cache` is no
  exception: a cache left behind lists what is gone, until it is overwritten.

`WalletThemeProofs`: all 2^24 colours.

* `TypeCorrect`. `RoundBetween` (rounding respects the integers on both sides of
  a quotient) bounds hue and saturation. `LightnessLeavesRoom` is why lightnesses
  that the code does not clamp stay percentages: a colour darker than luminance
  0.4 has a lightness of at most 78, any other one of at least 20.
* `SettledCorrect`: from `ThemeFollows`, that the theme is the one of the colour
  last looked at.
* `HslCorrect`: `HslNamesTheColour`, by an error budget. `ExactHue` shows that
  without rounding `hsl()` gives the colour back in every sector; `RoundError`
  bounds each of the three roundings by a half, and `WaveSlope` what a rounded hue
  moves a channel by. `ChannelError` multiplies out what they add up to, and
  `Budget` bounds that by 5 of 255. The worst of each would add up to 5.01, when
  the two extreme channels add up to 232 and the lesser is 0; but the saturation
  is then a whole percentage. The colour that comes closest is
  `rgb(3, 232, 234)`, at 4.71; it is one of those TLC checks.

**Only model-checked.**

* The liveness properties: the provers do not do `ENABLED`.

## 6. Plan

All components with behaviour of their own are modelled, and all safety
properties are proved. What is left is to keep the project true to the code.

## 7. Not modelled

* Gas, block limits, reorganisations and dropped or replaced transactions.
* Collisions of hashes and of ids made from the time.
* More than one tab per account, and the writes of a second handler that the
  keyboard starts behind the overlay of the first.
* That two of the executor's computations can return the same handle, when the
  same operation is repeated on the same operands in one block.
* Other events than those of decryption; nothing in the repository reads them.
* Encrypted proposals, rewards and threshold decryption, which `README.md`
  describes and no code implements.
* What is drawn: markup, tabs, search, the statistics and the wallet selector's
  colour table (`WalletSelector.tsx` 12-240 and its markup), which compute the
  page from state the modules have and change none of it.
* `types/`, about two thirds of the repository's lines of code: typechain output,
  interfaces and constant tables generated from the contracts, most of them from
  contracts that are not in the repository. There is no behaviour in it to model,
  nor in the filler files that `deploy.ts` writes with random content.

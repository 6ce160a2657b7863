--------------------------- MODULE WalletSession ----------------------------
(***************************************************************************)
(* One browser tab: frontend/web/src/App.tsx, WalletManager.tsx and        *)
(* WalletSelector.tsx without what they read and write on the chain.  The  *)
(* user chooses wallets and accounts, the page keeps "provider" and        *)
(* "account", and the handlers store "account" in records that            *)
(* window.ethereum signs (getContractWithSigner in contract.ts).           *)
(*                                                                         *)
(* An operation is one run of registerNode, or of delegateVotes,           *)
(* activateNode or deactivateNode, which start from a button of the page.  *)
(* The status overlay, the selector and the dialog lie over the page, but  *)
(* take the pointer only: whatever is drawn can be reached by the keyboard *)
(* and pressed behind them, which Press counts.                            *)
(***************************************************************************)
EXTENDS Integers

CONSTANTS
    Wallets,        \* the wallets of the selector that have a provider
    MetaMask,       \* the one that is offered when window.ethereum is its own
    Accounts,
    NoWallet,       \* null
    NoAccount,      \* the empty string
    MaxSelections,  \* bound on wallet selections
    MaxOps,         \* bound on operations
    MaxTexts,       \* bound on texts typed into the dialog
    MaxExtras       \* bound on changes the user makes in the wallets and presses
                    \* behind what covers a button, together

ASSUME SentinelAssumption ==
    MetaMask \in Wallets /\ NoWallet \notin Wallets /\ NoAccount \notin Accounts

Selections == 1 .. MaxSelections
Ops == 1 .. MaxOps
Timers == {"registered", "succeeded", "failed"}

VARIABLES
    installed, ethereum,      \* the providers in the window; window.ethereum
    selected, network,        \* what each wallet has selected
    provider, account,        \* App's state
    walletSelectorOpen,
    selection,                \* handleWalletSelect and onWalletSelect, running
    listeners,                \* accountsChanged listeners registered per wallet
    showNodeModal, form,      \* the dialog and the text typed in it, 0 if none
    creatingNode,
    status,                   \* the status overlay
    op,                       \* the operations
    timer,                    \* timeouts set and not fired yet
    \* History variables
    texts, changes,           \* texts typed, changes made in the wallets
    refused, unswitched,      \* window.ethereum gave no account, was not on Sepolia
    behind,                   \* presses of buttons that something covered
    pressedBehind,            \* an operation was begun behind the overlay
    typedBehind               \* the text in the dialog was typed there

browser == <<installed, ethereum>>
dialog  == <<showNodeModal, form, creatingNode>>
work    == <<status, op, timer>>
record  == <<refused, unswitched, pressedBehind, typedBehind>>
history == <<texts, changes, behind, record>>
vars == <<browser, selected, network, provider, account, walletSelectorOpen, selection,
          listeners, dialog, work, history>>

NoSelection == [wallet |-> NoWallet, at |-> "none"]
NoOp == [at |-> "none", kind |-> "none", address |-> NoAccount, signer |-> NoAccount,
         network |-> "none", text |-> 0, agreed |-> FALSE]

InFlight(i) == selection[i].at \in {"switching", "adding", "requesting"}
Running(o) == op[o].at \in {"signing", "storing", "submitted", "loading"}
FinishedOp(text) == [NoOp EXCEPT !.at = "done", !.text = text]

Init ==
    /\ installed \in SUBSET Wallets
    /\ IF MetaMask \in installed THEN ethereum = MetaMask
                                 ELSE ethereum \in installed \cup {NoWallet}
    /\ \E a \in [installed -> Accounts] :
           selected = [w \in Wallets |-> IF w \in installed THEN a[w] ELSE NoAccount]
    /\ network = [w \in Wallets |-> "other"]
    /\ provider = NoWallet /\ account = NoAccount
    /\ walletSelectorOpen = FALSE
    /\ selection = [i \in Selections |-> NoSelection]
    /\ listeners = [w \in Wallets |-> 0]
    /\ showNodeModal = FALSE /\ form = 0 /\ creatingNode = FALSE
    /\ status = "hidden"
    /\ op = [o \in Ops |-> NoOp]
    /\ timer = [o \in Ops |-> "none"]
    /\ texts = 0 /\ changes = 0 /\ refused = FALSE /\ unswitched = FALSE
    /\ behind = 0 /\ pressedBehind = FALSE /\ typedBehind = FALSE

\* The overlay covers the page and both dialogs, a dialog covers the page
Uncovered == status = "hidden"
PageClickable == Uncovered /\ ~ walletSelectorOpen /\ ~ showNodeModal

ExtraIsLeft == changes + behind < MaxExtras

\* A button is pressed, by the pointer or, behind what covers it, by the keyboard
Press(clickable) ==
    IF clickable THEN UNCHANGED behind ELSE ExtraIsLeft /\ behind' = behind + 1

----------------------------------------------------------------------------
\* The wallet selector

\* The connect button, and the refresh button beside the account: onConnect
OpenSelector ==
    /\ Press(PageClickable)
    /\ walletSelectorOpen' = TRUE
    /\ UNCHANGED <<browser, selected, network, provider, account, selection, listeners,
                   dialog, work, texts, changes, record>>

CloseSelector ==
    /\ Press(Uncovered) /\ walletSelectorOpen
    /\ walletSelectorOpen' = FALSE
    /\ UNCHANGED <<browser, selected, network, provider, account, selection, listeners,
                   dialog, work, texts, changes, record>>

\* detectWallets: MetaMask only behind window.ethereum, the others by name
Offered == installed

\* handleWalletSelect up to its await.  The selector stays open, so another
\* wallet, or the same one, can be selected before the first answers.
SelectWallet(i, w) ==
    /\ Press(Uncovered) /\ walletSelectorOpen
    /\ selection[i].at = "none" /\ \A j \in Selections : j < i => selection[j].at # "none"
    /\ w \in Offered
    /\ selection' = [selection EXCEPT ![i] = [wallet |-> w, at |-> "switching"]]
    /\ UNCHANGED <<browser, selected, network, provider, account, walletSelectorOpen, listeners,
                   dialog, work, texts, changes, record>>

\* onWalletSelect up to its await: the provider is set before the wallet is
\* asked, and the selector closes, also one opened again meanwhile
CallOnWalletSelect(i) ==
    /\ provider' = selection[i].wallet
    /\ walletSelectorOpen' = FALSE
    /\ selection' = [selection EXCEPT ![i].at = "requesting"]

\* switchToSepolia, wallet_switchEthereumChain: done, unknown chain, refused
SwitchAnswers(i) ==
    /\ selection[i].at = "switching"
    /\ LET w == selection[i].wallet
       IN  \/ /\ network' = [network EXCEPT ![w] = "sepolia"]
              /\ CallOnWalletSelect(i)
              /\ UNCHANGED unswitched
           \/ /\ selection' = [selection EXCEPT ![i].at = "adding"]
              /\ UNCHANGED <<network, provider, walletSelectorOpen, unswitched>>
           \/ /\ CallOnWalletSelect(i)
              /\ unswitched' = (unswitched \/ w = ethereum)
              /\ UNCHANGED network
    /\ UNCHANGED <<browser, selected, account, listeners, dialog, work, texts, changes,
                   refused, behind, pressedBehind, typedBehind>>

\* wallet_addEthereumChain: wallets switch to a chain they add; or refused
AddAnswers(i) ==
    /\ selection[i].at = "adding"
    /\ LET w == selection[i].wallet
       IN  \/ network' = [network EXCEPT ![w] = "sepolia"] /\ UNCHANGED unswitched
           \/ unswitched' = (unswitched \/ w = ethereum) /\ UNCHANGED network
    /\ CallOnWalletSelect(i)
    /\ UNCHANGED <<browser, selected, account, listeners, dialog, work, texts, changes,
                   refused, behind, pressedBehind, typedBehind>>

\* Mutant: the account is shown, but nothing follows the wallet
GrantUnheard(i) ==
    /\ selection[i].at = "requesting" /\ selected[selection[i].wallet] # NoAccount
    /\ account' = selected[selection[i].wallet]
    /\ selection' = [selection EXCEPT ![i] = [NoSelection EXCEPT !.at = "done"]]
    /\ UNCHANGED <<browser, selected, network, provider, walletSelectorOpen, listeners, dialog, work, history>>
\* eth_requestAccounts is granted: the account is shown, and one more listener
\* follows the wallet for as long as the tab lives
Grant(i) ==
    /\ selection[i].at = "requesting" /\ selected[selection[i].wallet] # NoAccount
    /\ account' = selected[selection[i].wallet]
    /\ listeners' = [listeners EXCEPT ![selection[i].wallet] = @ + 1]
    /\ selection' = [selection EXCEPT ![i] = [NoSelection EXCEPT !.at = "done"]]
    /\ UNCHANGED <<browser, selected, network, provider, walletSelectorOpen, dialog, work, history>>

\* It is rejected: an alert, and the provider stays set
Reject(i) ==
    /\ selection[i].at = "requesting"
    /\ selection' = [selection EXCEPT ![i] = [NoSelection EXCEPT !.at = "done"]]
    /\ refused' = (refused \/ selection[i].wallet = ethereum)
    /\ UNCHANGED <<browser, selected, network, provider, account, walletSelectorOpen, listeners,
                   dialog, work, texts, changes, unswitched, behind, pressedBehind, typedBehind>>

Disconnect ==
    /\ Press(PageClickable) /\ account # NoAccount
    /\ account' = NoAccount
    /\ provider' = NoWallet
    /\ UNCHANGED <<browser, selected, network, walletSelectorOpen, selection, listeners, dialog,
                   work, texts, changes, record>>

----------------------------------------------------------------------------
\* The user in the wallets

\* Another account is selected, or the wallet is locked: every listener ever
\* registered with it shows the account, whatever wallet the page is using
ChangeAccount(w, a) ==
    /\ ExtraIsLeft /\ changes' = changes + 1
    /\ w \in installed /\ a # selected[w]
    /\ selected' = [selected EXCEPT ![w] = a]
    /\ account' = IF listeners[w] > 0 THEN a ELSE account
    /\ op' = IF w # ethereum THEN op
             ELSE [o \in Ops |-> IF op[o].at = "signing" THEN [op[o] EXCEPT !.agreed = FALSE]
                                                         ELSE op[o]]
    /\ refused' = (refused \/ (w = ethereum /\ a = NoAccount))
    /\ UNCHANGED <<browser, network, provider, walletSelectorOpen, selection, listeners, dialog,
                   status, timer, texts, unswitched, behind, pressedBehind, typedBehind>>

ChangeNetwork(w) ==
    /\ ExtraIsLeft /\ changes' = changes + 1
    /\ w \in installed /\ network[w] = "sepolia"
    /\ network' = [network EXCEPT ![w] = "other"]
    /\ unswitched' = (unswitched \/ w = ethereum)
    /\ UNCHANGED <<browser, selected, provider, account, walletSelectorOpen, selection, listeners,
                   dialog, work, texts, refused, behind, pressedBehind, typedBehind>>

----------------------------------------------------------------------------
\* The registration dialog

OpenDialog ==
    /\ Press(PageClickable)
    /\ showNodeModal' = TRUE
    /\ UNCHANGED <<browser, selected, network, provider, account, walletSelectorOpen, selection,
                   listeners, form, creatingNode, work, texts, changes, record>>

\* The text survives a closed dialog
CloseDialog ==
    /\ Press(Uncovered) /\ showNodeModal
    /\ showNodeModal' = FALSE
    /\ UNCHANGED <<browser, selected, network, provider, account, walletSelectorOpen, selection,
                   listeners, form, creatingNode, work, texts, changes, record>>

\* handleChange: the fields are enabled and keep the focus while an operation runs
TypeText ==
    /\ showNodeModal /\ texts < MaxTexts
    /\ texts' = texts + 1
    /\ form' = texts + 1
    /\ typedBehind' = ~ Uncovered
    /\ UNCHANGED <<browser, selected, network, provider, account, walletSelectorOpen, selection,
                   listeners, showNodeModal, creatingNode, work, changes, refused, unswitched,
                   behind, pressedBehind>>

----------------------------------------------------------------------------
\* The operations

\* The page uses the wallet that signs, and no other wallet can change it
Agreement ==
    /\ provider = ethereum
    /\ \A i \in Selections : ~ InFlight(i)
    /\ \A w \in Wallets \ {provider} : listeners[w] = 0

\* A handler up to its await: it returns if there is no provider, and keeps the
\* account and the text of the rendering whose button was pressed
Begin(o, kind, text) ==
    /\ op[o].at = "none" /\ \A p \in Ops : p < o => op[p].at # "none"
    /\ provider # NoWallet
    /\ op' = [op EXCEPT ![o] = [NoOp EXCEPT !.at = "signing", !.kind = kind,
                                            !.address = account, !.text = text,
                                            !.agreed = Agreement]]
    /\ status' = "pending"
    /\ pressedBehind' = (pressedBehind \/ ~ Uncovered)
    /\ UNCHANGED <<browser, selected, network, provider, account, walletSelectorOpen, selection,
                   listeners, showNodeModal, form, timer, texts, changes, refused, unswitched,
                   typedBehind>>

\* The submit button, disabled while a registration runs: handleSubmit and
\* registerNode
BeginRegister(o) ==
    /\ Press(Uncovered) /\ showNodeModal /\ ~ creatingNode
    /\ form # 0
    /\ creatingNode' = TRUE
    /\ Begin(o, "register", form)

\* The buttons on the node cards, never disabled
BeginOther(o) ==
    /\ Press(PageClickable)
    /\ Begin(o, "other", 0)
    /\ UNCHANGED creatingNode

\* Mutant: any provider in the window is asked
GetAnySigner(o) ==
    /\ op[o].at = "signing"
    /\ \E w \in installed :
           /\ selected[w] # NoAccount
           /\ op' = [op EXCEPT ![o] = [@ EXCEPT !.at = "storing", !.signer = selected[w],
                                                !.network = network[w]]]
    /\ UNCHANGED <<browser, selected, network, provider, account, walletSelectorOpen, selection,
                   listeners, dialog, status, timer, history>>
\* getContractWithSigner asks window.ethereum, whichever wallet was selected
GetSigner(o) ==
    /\ op[o].at = "signing"
    /\ ethereum # NoWallet /\ selected[ethereum] # NoAccount
    /\ op' = [op EXCEPT ![o] = [@ EXCEPT !.at = "storing", !.signer = selected[ethereum],
                                         !.network = network[ethereum]]]
    /\ UNCHANGED <<browser, selected, network, provider, account, walletSelectorOpen, selection,
                   listeners, dialog, status, timer, history>>

\* The wallet confirms and the first write is submitted
Submit(o) ==
    /\ op[o].at = "storing"
    /\ op' = [op EXCEPT ![o].at = "submitted"]
    /\ UNCHANGED <<browser, selected, network, provider, account, walletSelectorOpen, selection,
                   listeners, dialog, status, timer, history>>

\* Mutant: the timer is set before the page is loaded
SucceedTimed(o) ==
    /\ op[o].at = "submitted"
    /\ op' = [op EXCEPT ![o].at = "loading"]
    /\ status' = "success"
    /\ timer' = [timer EXCEPT ![o] = "succeeded"]
    /\ UNCHANGED <<browser, selected, network, provider, account, walletSelectorOpen, selection,
                   listeners, dialog, history>>
\* So are the others: the handler reports success and loads the page
Succeed(o) ==
    /\ op[o].at = "submitted"
    /\ op' = [op EXCEPT ![o].at = "loading"]
    /\ status' = "success"
    /\ UNCHANGED <<browser, selected, network, provider, account, walletSelectorOpen, selection,
                   listeners, dialog, timer, history>>

\* Only registerNode has a finally block
Finished(o) == creatingNode' = IF op[o].kind = "register" THEN FALSE ELSE creatingNode

\* loadData has returned: the overlay is to be hidden after two seconds
Finish(o) ==
    /\ op[o].at = "loading"
    /\ op' = [op EXCEPT ![o] = FinishedOp(op[o].text)]
    /\ timer' = [timer EXCEPT ![o] = IF op[o].kind = "register" THEN "registered" ELSE "succeeded"]
    /\ Finished(o)
    /\ UNCHANGED <<browser, selected, network, provider, account, walletSelectorOpen, selection,
                   listeners, showNodeModal, form, status, history>>

\* Mutant: an error is left for the user to read
FailForGood(o) ==
    /\ op[o].at \in {"signing", "storing", "submitted"}
    /\ op' = [op EXCEPT ![o] = FinishedOp(0)]
    /\ status' = "error"
    /\ UNCHANGED timer
    /\ Finished(o)
    /\ UNCHANGED <<browser, selected, network, provider, account, walletSelectorOpen, selection,
                   listeners, showNodeModal, form, history>>
\* No signer, a rejected transaction, a failed read: hidden after three seconds
Fail(o) ==
    /\ op[o].at \in {"signing", "storing", "submitted"}
    /\ op' = [op EXCEPT ![o] = FinishedOp(0)]
    /\ status' = "error"
    /\ timer' = [timer EXCEPT ![o] = "failed"]
    /\ Finished(o)
    /\ UNCHANGED <<browser, selected, network, provider, account, walletSelectorOpen, selection,
                   listeners, showNodeModal, form, history>>

\* Mutant: the form is cleared after a failure too
TimerClearsForm(o) ==
    /\ timer[o] # "none"
    /\ timer' = [timer EXCEPT ![o] = "none"]
    /\ status' = "hidden"
    /\ IF timer[o] \in {"registered", "failed"}
       THEN showNodeModal' = FALSE /\ form' = 0 /\ typedBehind' = FALSE
       ELSE UNCHANGED <<showNodeModal, form, typedBehind>>
    /\ UNCHANGED <<browser, selected, network, provider, account, walletSelectorOpen, selection,
                   listeners, creatingNode, op, texts, changes, behind, refused, unswitched,
                   pressedBehind>>
\* The overlay is hidden; after a registration the dialog closes, its text cleared
TimerFires(o) ==
    /\ timer[o] # "none"
    /\ timer' = [timer EXCEPT ![o] = "none"]
    /\ status' = "hidden"
    /\ IF timer[o] = "registered"
       THEN showNodeModal' = FALSE /\ form' = 0 /\ typedBehind' = FALSE
       ELSE UNCHANGED <<showNodeModal, form, typedBehind>>
    /\ UNCHANGED <<browser, selected, network, provider, account, walletSelectorOpen, selection,
                   listeners, creatingNode, op, texts, changes, behind, refused, unswitched,
                   pressedBehind>>

Next ==
    \/ OpenSelector \/ CloseSelector
    \/ \E i \in Selections, w \in Wallets : SelectWallet(i, w)
    \/ \E i \in Selections : SwitchAnswers(i) \/ AddAnswers(i) \/ Grant(i) \/ Reject(i)
    \/ Disconnect
    \/ \E w \in Wallets, a \in Accounts \cup {NoAccount} : ChangeAccount(w, a)
    \/ \E w \in Wallets : ChangeNetwork(w)
    \/ OpenDialog \/ CloseDialog \/ TypeText
    \/ \E o \in Ops : BeginRegister(o) \/ BeginOther(o)
    \/ \E o \in Ops : GetSigner(o) \/ Submit(o) \/ Succeed(o) \/ Finish(o) \/ Fail(o) \/ TimerFires(o)

Spec == Init /\ [][Next]_vars

----------------------------------------------------------------------------
\* Properties

\* The account shown is one that is selected, now, in a wallet the page listens
\* to; and once no other wallet than the page's has a listener left, in that one,
\* also while a wallet has yet to answer.
AccountFollowsWallet ==
    \/ account = NoAccount
    \/ /\ \E w \in Wallets : listeners[w] > 0 /\ account = selected[w]
       /\ provider # NoWallet /\ (\A w \in Wallets \ {provider} : listeners[w] = 0)
              => account = selected[provider]

Stored(o) == op[o].at \in {"submitted", "loading"}

\* What is stored names the account that signed it, unless another wallet than
\* window.ethereum was or had been in use, the user changed accounts while the
\* handler ran, or that wallet once gave no account; and it is stored on Sepolia,
\* unless that wallet was not switched there or the user switched it back.  What
\* any other wallet answered is no excuse.
RecordsNameTheirSigner ==
    \A o \in Ops : Stored(o) /\ op[o].agreed =>
        /\ \/ op[o].address = op[o].signer
           \/ op[o].address = NoAccount /\ refused
        /\ op[o].network = "sepolia" \/ unswitched

\* The page is never covered for good: behind the overlay an operation runs or a
\* timer waits to hide it.
CoverIsTemporary ==
    Uncovered \/ \E o \in Ops : Running(o) \/ timer[o] # "none"

\* Unless a button was pressed behind the overlay, operations do not overlap,
\* the overlay is there as long as one runs, and no timer of an earlier one is
\* left when one starts.
OneOperationAtATime ==
    ~ pressedBehind =>
        \A o, p \in Ops :
            /\ Running(o) => ~ Uncovered
            /\ Running(o) /\ o # p => ~ Running(p) /\ timer[p] = "none"

\* A text is cleared only by the timer of a registration and after that one has
\* taken its own: if it was not the text it registered, it was typed or an
\* operation begun behind the overlay.
TextIsKept ==
    [][form # 0 /\ form' = 0 =>
          \E o \in Ops :
              /\ timer[o] = "registered" /\ timer'[o] = "none"
              /\ op[o].text # 0
              /\ op[o].text # form => op[o].text < form /\ (typedBehind \/ pressedBehind)]_vars
=============================================================================

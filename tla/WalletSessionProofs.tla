------------------------- MODULE WalletSessionProofs -------------------------
(***************************************************************************)
(* Machine-checked proofs about WalletSession: for any number of wallets,  *)
(* accounts, selections, operations and changes the user makes, in every   *)
(* order the browser can run them.                                         *)
(***************************************************************************)
EXTENDS WalletSession, TLAPS

----------------------------------------------------------------------------
\* The inductive invariant

Selected == Accounts \cup {NoAccount}
Selection == [wallet : Wallets \cup {NoWallet}, at : {"none", "switching", "adding", "requesting", "done"}]
Stages == {"none", "signing", "storing", "submitted", "loading", "done"}
Operation == [at : Stages, kind : {"none", "register", "other"}, address : Selected, signer : Selected,
              network : {"none", "other", "sepolia"}, text : Nat, agreed : BOOLEAN]

TypeOK ==
    /\ installed \in SUBSET Wallets /\ ethereum \in Wallets \cup {NoWallet}
    /\ selected \in [Wallets -> Selected] /\ network \in [Wallets -> {"other", "sepolia"}]
    /\ provider \in Wallets \cup {NoWallet} /\ account \in Selected
    /\ walletSelectorOpen \in BOOLEAN
    /\ selection \in [Selections -> Selection]
    /\ \A i \in Selections : InFlight(i) => selection[i].wallet \in Wallets
    /\ listeners \in [Wallets -> Nat]
    /\ showNodeModal \in BOOLEAN /\ creatingNode \in BOOLEAN /\ form \in Nat
    /\ status \in {"hidden", "pending", "success", "error"}
    /\ op \in [Ops -> Operation] /\ timer \in [Ops -> Timers \cup {"none"}]
    /\ texts \in Nat /\ changes \in Nat /\ behind \in Nat
    /\ refused \in BOOLEAN /\ unswitched \in BOOLEAN
    /\ pressedBehind \in BOOLEAN /\ typedBehind \in BOOLEAN

\* No step forgets what the wallets refused and what was pressed
Monotone ==
    (refused => refused') /\ (unswitched => unswitched') /\ (pressedBehind => pressedBehind')

\* The account shown is one that a listener has reported or would report; with
\* window.ethereum's wallet there is none only if that wallet has yet to answer
\* or gave none, or another one reported that; and it is on Sepolia unless it was
\* not switched
AccountIsHeard ==
    account # NoAccount => \E w \in Wallets : listeners[w] > 0 /\ account = selected[w]

AccountIsAsked ==
    provider = ethereum /\ ethereum # NoWallet /\ account = NoAccount =>
        \/ refused
        \/ \E i \in Selections : selection[i].at = "requesting" /\ selection[i].wallet = ethereum
        \/ \E w \in Wallets \ {ethereum} : listeners[w] > 0

NetworkIsSwitched ==
    provider = ethereum /\ ethereum # NoWallet => network[ethereum] = "sepolia" \/ unswitched

\* What a handler that signs with the page's wallet has kept of it still holds,
\* and what it stored names the account that signed
AgreedOpsAgree ==
    \A o \in Ops : op[o].agreed =>
        /\ op[o].at = "signing" =>
               /\ ethereum # NoWallet
               /\ op[o].address = selected[ethereum] \/ (op[o].address = NoAccount /\ refused)
               /\ network[ethereum] = "sepolia" \/ unswitched
        /\ op[o].at \in {"storing", "submitted", "loading"} =>
               /\ op[o].address = op[o].signer \/ (op[o].address = NoAccount /\ refused)
               /\ op[o].network = "sepolia" \/ unswitched

\* An operation keeps the overlay until its timer hides it
Busy(o) == Running(o) \/ timer[o] # "none"

TimersFollow == \A o \in Ops : timer[o] # "none" => op[o].at = "done"

OneIsBusy ==
    ~ pressedBehind =>
        /\ \A o \in Ops : Busy(o) => ~ Uncovered
        /\ \A o, p \in Ops : Busy(o) /\ Busy(p) => o = p

\* The text of a registration under way, until its timer clears the form, is not
\* newer than the one in the form, which is newer only if it was typed behind
Registers(o) == (Running(o) /\ op[o].kind = "register") \/ timer[o] = "registered"

TextIsOlder ==
    /\ form <= texts
    /\ \A o \in Ops : Registers(o) =>
           op[o].text # 0 /\ op[o].text <= texts /\ (form = 0 \/ op[o].text <= form)

TextIsInForm ==
    ~ pressedBehind => \A o \in Ops : Registers(o) => op[o].text = form \/ typedBehind

WalletInv == AccountIsHeard /\ AccountIsAsked /\ NetworkIsSwitched
WorkInv == CoverIsTemporary /\ TimersFollow /\ OneIsBusy /\ TextIsOlder /\ TextIsInForm
IInv == TypeOK /\ WalletInv /\ AgreedOpsAgree /\ WorkInv

----------------------------------------------------------------------------
\* It holds at first and in every step

\* The invariant holds at first.
LEMMA InitInvariant == Init => IInv
<1> SUFFICES ASSUME Init PROVE IInv
  OBVIOUS
<1> USE SentinelAssumption
<1>1. TypeOK
  BY DEF Init, TypeOK, Selected, Selection, Operation, Stages, NoSelection, NoOp, InFlight, Timers
<1>2. WalletInv
  BY DEF Init, WalletInv, AccountIsHeard, AccountIsAsked, NetworkIsSwitched
<1>3. AgreedOpsAgree
  BY DEF Init, AgreedOpsAgree, NoOp
<1>4. WorkInv
  BY DEF Init, WorkInv, CoverIsTemporary, Uncovered, TimersFollow, OneIsBusy, Busy, Running,
     Registers, TextIsOlder, TextIsInForm, NoOp
<1> QED  BY <1>1, <1>2, <1>3, <1>4 DEF IInv

\* A handler that begins, whatever button began it
LEMMA BeginTypeStep ==
    ASSUME TypeOK, NEW o \in Ops, NEW kind \in {"register", "other"}, NEW text \in Nat,
           Begin(o, kind, text), creatingNode' \in BOOLEAN, behind' \in Nat
    PROVE  TypeOK'
<1>1. Agreement \in BOOLEAN
  BY DEF Agreement
<1>2. op' \in [Ops -> Operation]
  BY <1>1, SentinelAssumption DEF TypeOK, Begin, NoOp, Operation, Stages, Selected
<1>3. pressedBehind' \in BOOLEAN
  BY DEF Begin
<1> QED  BY <1>2, <1>3 DEF TypeOK, Begin, browser, InFlight

\* Every step keeps the types,
LEMMA TypeStep == ASSUME TypeOK, Next PROVE TypeOK'
<1> USE SentinelAssumption
<1> USE DEF browser, dialog, work, record, history, InFlight
<1>0. \/ UNCHANGED behind
      \/ behind' = behind + 1
  BY DEF Next, Press, OpenSelector, CloseSelector, Disconnect, OpenDialog, CloseDialog, SelectWallet,
     SwitchAnswers, AddAnswers, Grant, Reject, ChangeAccount, ChangeNetwork, TypeText, BeginRegister,
     BeginOther, GetSigner, Submit, Succeed, Finish, Fail, TimerFires
<1>18. behind' \in Nat
  BY <1>0 DEF TypeOK
<1>1. CASE OpenSelector \/ CloseSelector
  <2>1. CASE OpenSelector
    BY <1>18, <2>1 DEF TypeOK, OpenSelector
  <2>2. CASE CloseSelector
    <3>1. /\ walletSelectorOpen' \in BOOLEAN
          /\ UNCHANGED <<browser, selected, network, provider, account, selection, listeners,
                         dialog, work, texts, changes, record>>
      BY <2>2 DEF CloseSelector
    <3> QED  BY <1>18, <3>1 DEF TypeOK
  <2> QED  BY <1>1, <2>1, <2>2
<1>2. ASSUME NEW i \in Selections, NEW w \in Wallets, SelectWallet(i, w) PROVE TypeOK'
  BY <1>2, <1>18 DEF TypeOK, SelectWallet, Selection
<1>3. ASSUME NEW i \in Selections, SwitchAnswers(i) PROVE TypeOK'
  <2>1. selection' \in [Selections -> Selection] /\ network' \in [Wallets -> {"other", "sepolia"}]
    BY <1>3 DEF TypeOK, SwitchAnswers, CallOnWalletSelect, Selection
  <2>2. \A j \in Selections : InFlight(j)' => selection'[j].wallet \in Wallets
    BY <1>3 DEF TypeOK, SwitchAnswers, CallOnWalletSelect, Selection
  <2>3. provider' \in Wallets \cup {NoWallet}
    BY <1>3 DEF TypeOK, SwitchAnswers, CallOnWalletSelect
  <2>4. walletSelectorOpen' \in BOOLEAN /\ unswitched' \in BOOLEAN
    BY <1>3 DEF TypeOK, SwitchAnswers, CallOnWalletSelect
  <2> QED  BY <1>18, <1>3, <2>1, <2>2, <2>3, <2>4 DEF TypeOK, SwitchAnswers
<1>4. ASSUME NEW i \in Selections, AddAnswers(i) PROVE TypeOK'
  <2>1. selection' \in [Selections -> Selection] /\ network' \in [Wallets -> {"other", "sepolia"}]
    BY <1>4 DEF TypeOK, AddAnswers, CallOnWalletSelect, Selection
  <2>2. \A j \in Selections : InFlight(j)' => selection'[j].wallet \in Wallets
    BY <1>4 DEF TypeOK, AddAnswers, CallOnWalletSelect, Selection
  <2>3. provider' \in Wallets \cup {NoWallet}
    BY <1>4 DEF TypeOK, AddAnswers, CallOnWalletSelect
  <2>4. walletSelectorOpen' \in BOOLEAN /\ unswitched' \in BOOLEAN
    BY <1>4 DEF TypeOK, AddAnswers, CallOnWalletSelect
  <2> QED  BY <1>18, <1>4, <2>1, <2>2, <2>3, <2>4 DEF TypeOK, AddAnswers
<1>5. ASSUME NEW i \in Selections, Grant(i) PROVE TypeOK'
  BY <1>5, <1>18 DEF TypeOK, Grant, Selection, NoSelection
<1>6. ASSUME NEW i \in Selections, Reject(i) PROVE TypeOK'
  BY <1>6, <1>18 DEF TypeOK, Reject, Selection, NoSelection
<1>7. CASE Disconnect
  BY <1>7, <1>18 DEF TypeOK, Disconnect, Selected
<1>8. ASSUME NEW w \in Wallets, NEW a \in Selected, ChangeAccount(w, a) PROVE TypeOK'
  <2>1. op' \in [Ops -> Operation]
    <3>1. op \in [Ops -> Operation]
      BY DEF TypeOK
    <3>2. \A x \in Operation : [x EXCEPT !.agreed = FALSE] \in Operation
      BY DEF Operation
    <3>3. op' = op \/ op' = [o \in Ops |-> IF op[o].at = "signing" THEN [op[o] EXCEPT !.agreed = FALSE]
                                                               ELSE op[o]]
      BY <1>8 DEF ChangeAccount
    <3> QED  BY <3>1, <3>2, <3>3
  <2> QED  BY <1>18, <1>8, <2>1 DEF TypeOK, ChangeAccount
<1>9. ASSUME NEW w \in Wallets, ChangeNetwork(w) PROVE TypeOK'
  BY <1>9, <1>18 DEF TypeOK, ChangeNetwork
<1>10. CASE OpenDialog \/ CloseDialog
  <2>1. CASE OpenDialog
    BY <1>18, <2>1 DEF TypeOK, OpenDialog
  <2>2. CASE CloseDialog
    <3>1. /\ showNodeModal' \in BOOLEAN
          /\ UNCHANGED <<browser, selected, network, provider, account, walletSelectorOpen,
                         selection, listeners, form, creatingNode, work, texts, changes, record>>
      BY <2>2 DEF CloseDialog
    <3> QED  BY <1>18, <3>1 DEF TypeOK
  <2> QED  BY <1>10, <2>1, <2>2
<1>17. CASE TypeText
  BY <1>17, <1>18 DEF TypeOK, TypeText
<1>11. ASSUME NEW o \in Ops, BeginRegister(o) \/ BeginOther(o) PROVE TypeOK'
  BY <1>11, <1>18, BeginTypeStep DEF TypeOK, BeginRegister, BeginOther
<1>12. ASSUME NEW o \in Ops, GetSigner(o) PROVE TypeOK'
  <2>0. selected[ethereum] \in Selected /\ network[ethereum] \in {"none", "other", "sepolia"}
    BY <1>12 DEF TypeOK, GetSigner
  <2>1. op' \in [Ops -> Operation]
    <3>1. op \in [Ops -> Operation] /\ op[o] \in Operation
      BY <1>12 DEF TypeOK
    <3>2. op' = [op EXCEPT ![o] = [op[o] EXCEPT !.at = "storing", !.signer = selected[ethereum],
                                                !.network = network[ethereum]]]
      BY <1>12 DEF GetSigner
    <3>3. \A x \in Operation, a \in Selected, n \in {"none", "other", "sepolia"} :
              [x EXCEPT !.at = "storing", !.signer = a, !.network = n] \in Operation
      BY DEF Operation, Stages, Selected
    <3>4. [op[o] EXCEPT !.at = "storing", !.signer = selected[ethereum],
                        !.network = network[ethereum]] \in Operation
      BY <2>0, <3>1, <3>3
    <3> QED  BY <3>1, <3>2, <3>4
  <2> QED  BY <1>18, <1>12, <2>1 DEF TypeOK, GetSigner
<1>13. ASSUME NEW o \in Ops, Submit(o) \/ Succeed(o) PROVE TypeOK'
  <2>1. op' \in [Ops -> Operation]
    <3>1. PICK stage \in {"submitted", "loading"} : op' = [op EXCEPT ![o].at = stage]
      BY <1>13 DEF Submit, Succeed
    <3>2. \A x \in Operation : [x EXCEPT !.at = stage] \in Operation
      BY DEF Operation, Stages
    <3>3. op \in [Ops -> Operation]
      BY DEF TypeOK
    <3> QED  BY <3>1, <3>2, <3>3
  <2>2. status' \in {"hidden", "pending", "success", "error"}
    BY <1>13 DEF TypeOK, Submit, Succeed
  <2> QED  BY <1>13, <1>18, <2>1, <2>2 DEF TypeOK, Submit, Succeed
<1>14. ASSUME NEW o \in Ops, Finish(o) PROVE TypeOK'
  <2>1. op' \in [Ops -> Operation]
    BY <1>14 DEF TypeOK, Finish, FinishedOp, NoOp, Operation, Stages, Selected
  <2>2. timer' \in [Ops -> Timers \cup {"none"}]
    BY <1>14 DEF TypeOK, Finish, Timers
  <2>3. creatingNode' \in BOOLEAN
    BY <1>14 DEF TypeOK, Finish, Finished
  <2>4. UNCHANGED <<browser, selected, network, provider, account, walletSelectorOpen, selection,
                    listeners, showNodeModal, form, status, history>>
    BY <1>14 DEF Finish
  <2> QED  BY <1>18, <2>1, <2>2, <2>3, <2>4 DEF TypeOK
<1>15. ASSUME NEW o \in Ops, Fail(o) PROVE TypeOK'
  <2>1. op' \in [Ops -> Operation]
    BY <1>15 DEF TypeOK, Fail, FinishedOp, NoOp, Operation, Stages, Selected
  <2>2. timer' \in [Ops -> Timers \cup {"none"}]
    BY <1>15 DEF TypeOK, Fail, Timers
  <2>3. creatingNode' \in BOOLEAN /\ status' \in {"hidden", "pending", "success", "error"}
    BY <1>15 DEF TypeOK, Fail, Finished
  <2>4. UNCHANGED <<browser, selected, network, provider, account, walletSelectorOpen, selection,
                    listeners, showNodeModal, form, history>>
    BY <1>15 DEF Fail
  <2> QED  BY <1>18, <2>1, <2>2, <2>3, <2>4 DEF TypeOK
<1>16. ASSUME NEW o \in Ops, TimerFires(o) PROVE TypeOK'
  <2>1. timer' \in [Ops -> Timers \cup {"none"}]
    BY <1>16 DEF TypeOK, TimerFires
  <2>3. showNodeModal' \in BOOLEAN /\ form' \in Nat
    <3>1. CASE timer[o] = "registered"
      <4>1. showNodeModal' = FALSE /\ form' = 0
        BY <1>16, <3>1 DEF TimerFires
      <4> QED  BY <4>1
    <3>2. CASE timer[o] # "registered"
      BY <1>16, <3>2 DEF TypeOK, TimerFires
    <3> QED  BY <3>1, <3>2
  <2>2. status' \in {"hidden", "pending", "success", "error"}
    BY <1>16 DEF TimerFires
  <2> QED  BY <1>18, <1>16, <2>1, <2>2, <2>3 DEF TypeOK, TimerFires
<1> QED
  BY <1>1, <1>2, <1>3, <1>4, <1>5, <1>6, <1>7, <1>8, <1>9, <1>10, <1>11, <1>12, <1>13, <1>14,
     <1>15, <1>16, <1>17 DEF Next, Selected

\* The steps that leave alone all that the wallets and the page agree on
LEMMA PageSteps ==
    ASSUME Next,
           ~ \E i \in Selections : SwitchAnswers(i) \/ AddAnswers(i) \/ Grant(i) \/ Reject(i),
           ~ \E i \in Selections, w \in Wallets : SelectWallet(i, w),
           ~ \E w \in Wallets, a \in Selected : ChangeAccount(w, a),
           ~ \E w \in Wallets : ChangeNetwork(w),
           ~ Disconnect
    PROVE  UNCHANGED <<ethereum, selected, network, provider, account, selection, listeners,
                       refused, unswitched>>
  BY DEF Next, Selected, browser, dialog, work, record, history, OpenSelector, CloseSelector,
     OpenDialog, CloseDialog, TypeText, BeginRegister, BeginOther,
     Begin, GetSigner, Submit, Succeed, Finish, Fail, TimerFires

\* what the page knows of the wallets,
LEMMA WalletStep == ASSUME TypeOK, WalletInv, Next PROVE WalletInv'
<1> USE SentinelAssumption
<1> USE DEF browser, dialog, work, record, history, Monotone, TypeOK, WalletInv, AccountIsHeard,
            AccountIsAsked, NetworkIsSwitched
<1>1. ASSUME NEW i \in Selections, NEW w \in Wallets, SelectWallet(i, w) PROVE WalletInv'
  BY <1>1 DEF SelectWallet, Selection
<1>2. ASSUME NEW i \in Selections, SwitchAnswers(i) PROVE WalletInv'
  <2>1. AccountIsHeard'
    BY <1>2 DEF SwitchAnswers
  <2>2. AccountIsAsked'
    BY <1>2 DEF SwitchAnswers, CallOnWalletSelect, Selection, InFlight
  <2>3. NetworkIsSwitched'
    BY <1>2 DEF SwitchAnswers, CallOnWalletSelect, Selection, InFlight
  <2> QED  BY <2>1, <2>2, <2>3
<1>3. ASSUME NEW i \in Selections, AddAnswers(i) PROVE WalletInv'
  <2>1. AccountIsHeard'
    BY <1>3 DEF AddAnswers
  <2>2. AccountIsAsked'
    BY <1>3 DEF AddAnswers, CallOnWalletSelect, Selection, InFlight
  <2>3. NetworkIsSwitched'
    BY <1>3 DEF AddAnswers, CallOnWalletSelect, Selection, InFlight
  <2> QED  BY <2>1, <2>2, <2>3
<1>4. ASSUME NEW i \in Selections, Grant(i) PROVE WalletInv'
  BY <1>4 DEF Grant, Selection, InFlight
<1>5. ASSUME NEW i \in Selections, Reject(i) PROVE WalletInv'
  BY <1>5 DEF Reject
<1>6. CASE Disconnect
  BY <1>6 DEF Disconnect
<1>7. ASSUME NEW w \in Wallets, NEW a \in Selected, ChangeAccount(w, a) PROVE WalletInv'
  BY <1>7 DEF ChangeAccount, Selected
<1>8. ASSUME NEW w \in Wallets, ChangeNetwork(w) PROVE WalletInv'
  BY <1>8 DEF ChangeNetwork
<1>9. ASSUME UNCHANGED <<ethereum, selected, network, provider, account, selection, listeners,
                         refused, unswitched>>
      PROVE  WalletInv'
  BY <1>9
<1> QED
  BY <1>1, <1>2, <1>3, <1>4, <1>5, <1>6, <1>7, <1>8, <1>9, PageSteps

\* the agreement of the operations under way,
LEMMA AgreedStep == ASSUME TypeOK, WalletInv, AgreedOpsAgree, Next PROVE AgreedOpsAgree'
<1> USE SentinelAssumption
<1> USE DEF browser, dialog, work, record, history, Monotone, TypeOK, AgreedOpsAgree
<1>1. ASSUME NEW i \in Selections, SwitchAnswers(i) PROVE AgreedOpsAgree'
  BY <1>1 DEF SwitchAnswers, CallOnWalletSelect, Selection, InFlight
<1>2. ASSUME NEW i \in Selections, AddAnswers(i) PROVE AgreedOpsAgree'
  BY <1>2 DEF AddAnswers, CallOnWalletSelect, Selection, InFlight
<1>3. ASSUME NEW w \in Wallets, NEW a \in Selected, ChangeAccount(w, a) PROVE AgreedOpsAgree'
  BY <1>3 DEF ChangeAccount, Selected, Operation
<1>4. ASSUME NEW w \in Wallets, ChangeNetwork(w) PROVE AgreedOpsAgree'
  BY <1>4 DEF ChangeNetwork
<1>5. ASSUME NEW o \in Ops, NEW kind \in {"register", "other"}, NEW text \in Nat, Begin(o, kind, text)
      PROVE  AgreedOpsAgree'
  <2>1. Agreement => /\ ethereum # NoWallet
                     /\ account \in {selected[ethereum], NoAccount}
                     /\ account = NoAccount => refused
                     /\ network[ethereum] = "sepolia" \/ unswitched
    BY <1>5 DEF Agreement, Begin, WalletInv, AccountIsHeard, AccountIsAsked, NetworkIsSwitched, InFlight
  <2> QED  BY <1>5, <2>1 DEF Begin, NoOp, Operation
<1>6. ASSUME NEW o \in Ops, GetSigner(o) PROVE AgreedOpsAgree'
  BY <1>6 DEF GetSigner, Operation
<1>7. ASSUME NEW o \in Ops, Submit(o) \/ Succeed(o) PROVE AgreedOpsAgree'
  <2>1. UNCHANGED <<browser, selected, network, refused, unswitched>>
    BY <1>7 DEF Submit, Succeed
  <2>2. PICK stage \in {"submitted", "loading"} :
            op[o].at \in {"storing", "submitted"} /\ op' = [op EXCEPT ![o].at = stage]
    BY <1>7 DEF Submit, Succeed
  <2>3. \A p \in Ops \ {o} : op'[p] = op[p]
    BY <2>2
  <2>4. op'[o] = [op[o] EXCEPT !.at = stage] /\ op[o] \in Operation
    BY <1>7, <2>2
  <2> QED  BY <2>1, <2>2, <2>3, <2>4 DEF Operation
<1>8. ASSUME NEW o \in Ops, Finish(o) \/ Fail(o) PROVE AgreedOpsAgree'
  <2>1. \A p \in Ops \ {o} : op'[p] = op[p]
    BY <1>8 DEF Finish, Fail
  <2>2. op'[o].agreed = FALSE
    <3>1. \A t \in Nat : FinishedOp(t).agreed = FALSE
      BY DEF FinishedOp, NoOp
    <3>2. op'[o] \in {FinishedOp(op[o].text), FinishedOp(0)}
      BY <1>8 DEF Finish, Fail
    <3> QED  BY <3>1, <3>2 DEF Operation
  <2>3. UNCHANGED <<ethereum, selected, network, refused, unswitched>>
    BY <1>8 DEF Finish, Fail
  <2> QED  BY <2>1, <2>2, <2>3
<1>9. ASSUME NEW o \in Ops, BeginRegister(o) \/ BeginOther(o) PROVE AgreedOpsAgree'
  <2>1. \E kind \in {"register", "other"}, text \in Nat : Begin(o, kind, text)
    BY <1>9 DEF BeginRegister, BeginOther
  <2> QED  BY <2>1, <1>5
<1>10. ASSUME UNCHANGED <<ethereum, selected, network, op>>, Monotone
       PROVE  AgreedOpsAgree'
  BY <1>10
<1>11. ASSUME \/ OpenSelector \/ CloseSelector \/ Disconnect
              \/ OpenDialog \/ CloseDialog \/ TypeText
              \/ \E i \in Selections, w \in Wallets : SelectWallet(i, w)
              \/ \E i \in Selections : Grant(i) \/ Reject(i)
              \/ \E o \in Ops : TimerFires(o)
       PROVE  AgreedOpsAgree'
  BY <1>11, <1>10 DEF OpenSelector, CloseSelector, Disconnect, OpenDialog,
     CloseDialog, TypeText, SelectWallet, Grant, Reject, TimerFires
<1> QED
  BY <1>1, <1>2, <1>3, <1>4, <1>6, <1>7, <1>8, <1>9, <1>11 DEF Next, Selected

\* What the steps of the wallets and the selector leave alone: op keeps its
\* stages, kinds and texts when an account changes
LEMMA SelectorSteps ==
    ASSUME WorkInv, TypeOK, UNCHANGED <<status, timer, form>>, Monotone,
           op' \in [Ops -> Operation], UNCHANGED <<texts, typedBehind>>,
           \A o \in Ops : op'[o].at = op[o].at /\ op'[o].kind = op[o].kind /\ op'[o].text = op[o].text
    PROVE  WorkInv'
  BY DEF Monotone, WorkInv, CoverIsTemporary, TimersFollow, OneIsBusy, Registers, TextIsOlder, TextIsInForm, Busy, Running, Uncovered

\* the order of their work and its cover,
LEMMA WorkStep == ASSUME TypeOK, WorkInv, Next PROVE WorkInv'
<1> USE SentinelAssumption
<1> USE DEF browser, dialog, work, record, history, Monotone, TypeOK
<1>0. TypeOK'
  BY TypeStep
<1>1. ASSUME \/ OpenSelector \/ CloseSelector \/ Disconnect
             \/ OpenDialog \/ CloseDialog
             \/ \E i \in Selections, w \in Wallets : SelectWallet(i, w)
             \/ \E i \in Selections : SwitchAnswers(i) \/ AddAnswers(i) \/ Grant(i) \/ Reject(i)
             \/ \E w \in Wallets : ChangeNetwork(w)
      PROVE  WorkInv'
  <2>1. UNCHANGED <<status, timer, form, op, texts, typedBehind>> /\ Monotone
    BY <1>1 DEF OpenSelector, CloseSelector, Disconnect, OpenDialog, CloseDialog,
       SelectWallet, SwitchAnswers, AddAnswers, Grant, Reject, ChangeNetwork
  <2> QED  BY <1>0, <2>1, SelectorSteps
<1>2. ASSUME NEW w \in Wallets, NEW a \in Selected, ChangeAccount(w, a) PROVE WorkInv'
  <2>1. /\ UNCHANGED <<status, timer, form, texts, typedBehind>> /\ Monotone
        /\ \A o \in Ops : op'[o].at = op[o].at /\ op'[o].kind = op[o].kind /\ op'[o].text = op[o].text
    BY <1>2 DEF ChangeAccount, Operation
  <2> QED  BY <1>0, <2>1, SelectorSteps
<1> USE DEF WorkInv, CoverIsTemporary, TimersFollow, OneIsBusy, Registers, TextIsOlder, TextIsInForm, Busy, Running, Uncovered
<1>3. CASE TypeText
  <2>1. CoverIsTemporary' /\ TimersFollow' /\ OneIsBusy'
    BY <1>3 DEF TypeText
  <2>2. TextIsOlder'
    <3>1. \A o \in Ops : op[o].text \in Nat
      BY DEF Operation
    <3>2. form' = texts + 1 /\ texts' = texts + 1 /\ UNCHANGED <<op, timer>>
      BY <1>3 DEF TypeText
    <3> QED  BY <3>1, <3>2
  <2>3. TextIsInForm'
    <3>1. CASE Uncovered
      BY <1>3, <3>1 DEF TypeText
    <3>2. CASE ~ Uncovered
      <4>1. typedBehind'
        BY <1>3, <3>2 DEF TypeText
      <4> QED  BY <4>1
    <3> QED  BY <3>1, <3>2
  <2> QED  BY <2>1, <2>2, <2>3
<1>5. ASSUME NEW o \in Ops, BeginOther(o) \/ BeginRegister(o) PROVE WorkInv'
  <2>1. PICK kind \in {"register", "other"}, text \in Nat :
            Begin(o, kind, text) /\ (kind = "register" => text = form /\ form # 0)
    BY <1>5 DEF BeginOther, BeginRegister
  <2>2. /\ op'[o].at = "signing" /\ op'[o].kind = kind /\ op'[o].text = text
        /\ op[o].at = "none" /\ \A p \in Ops \ {o} : op'[p] = op[p]
    BY <2>1 DEF Begin, NoOp
  <2>3. UNCHANGED <<form, timer, texts, typedBehind>> /\ status' = "pending"
    BY <2>1 DEF Begin
  <2>4. pressedBehind' = (pressedBehind \/ ~ Uncovered)
    BY <2>1 DEF Begin
  <2>5. CoverIsTemporary' /\ TimersFollow'
    BY <2>2, <2>3
  <2>6. TextIsOlder'
    <3>1. \A p \in Ops : op[p].text \in Nat
      BY DEF Operation
    <3> QED  BY <3>1, <2>1, <2>2, <2>3
  <2>7. OneIsBusy' /\ TextIsInForm'
    <3>1. SUFFICES ASSUME ~ pressedBehind' PROVE OneIsBusy' /\ TextIsInForm'
      OBVIOUS
    <3>2. Uncovered /\ ~ pressedBehind
      BY <3>1, <2>4
    <3> QED  BY <3>2, <2>1, <2>2, <2>3
  <2> QED  BY <2>5, <2>6, <2>7
<1>7. ASSUME NEW o \in Ops, GetSigner(o) PROVE WorkInv'
  BY <1>7 DEF GetSigner, Operation
<1>8. ASSUME NEW o \in Ops, Submit(o) PROVE WorkInv'
  BY <1>8 DEF Submit, Operation
<1>9. ASSUME NEW o \in Ops, Succeed(o) PROVE WorkInv'
  BY <1>9 DEF Succeed, Operation
<1>10. ASSUME NEW o \in Ops, Finish(o) PROVE WorkInv'
  BY <1>10 DEF Finish, FinishedOp, NoOp, Operation
<1>11. ASSUME NEW o \in Ops, Fail(o) PROVE WorkInv'
  BY <1>11 DEF Fail, FinishedOp, NoOp, Operation
<1>12. ASSUME NEW o \in Ops, TimerFires(o) PROVE WorkInv'
  BY <1>12 DEF TimerFires
<1> QED
  BY <1>1, <1>2, <1>3, <1>5, <1>7, <1>8, <1>9, <1>10, <1>11, <1>12 DEF Next, Selected

\* and so the invariant.
LEMMA StepInvariant == IInv /\ [Next]_vars => IInv'
<1> SUFFICES ASSUME IInv, [Next]_vars PROVE IInv'
  OBVIOUS
<1>1. CASE Next
  BY <1>1, TypeStep, WalletStep, AgreedStep, WorkStep DEF IInv
<1>2. CASE UNCHANGED vars
  <2> USE DEF vars, browser, dialog, work, record, history
  <2>1. TypeOK'
    BY <1>2 DEF IInv, TypeOK, InFlight
  <2>2. WalletInv'
    BY <1>2 DEF IInv, WalletInv, AccountIsHeard, AccountIsAsked, NetworkIsSwitched
  <2>3. AgreedOpsAgree'
    BY <1>2 DEF IInv, AgreedOpsAgree
  <2>4. WorkInv'
    BY <1>2 DEF IInv, WorkInv, CoverIsTemporary, TimersFollow, OneIsBusy, Registers, TextIsOlder, TextIsInForm, Busy,
       Running, Uncovered
  <2> QED  BY <2>1, <2>2, <2>3, <2>4 DEF IInv
<1> QED  BY <1>1, <1>2

----------------------------------------------------------------------------
\* The theorems

\* The invariant of the page's session holds in every reachable state: the
\* account is one a listener has heard, handlers keep what the wallets said,
\* and at most one operation owns the overlay.
THEOREM SessionInvariantHolds == Spec => []IInv
BY InitInvariant, StepInvariant, PTL DEF Spec

\* The account shown is one selected in a wallet the page listens to; in its own,
\* once no other has a listener (accountsChanged in App.tsx).
THEOREM AccountCorrect == Spec => []AccountFollowsWallet
<1>1. IInv => AccountFollowsWallet
  BY SentinelAssumption DEF IInv, TypeOK, WalletInv, AccountIsHeard, AccountFollowsWallet
<1> QED  BY <1>1, SessionInvariantHolds, PTL

\* What is stored names the account that signed it, on Sepolia, unless the user
\* changed that account meanwhile or window.ethereum's wallet refused.
THEOREM RecordsCorrect == Spec => []RecordsNameTheirSigner
<1>1. IInv => RecordsNameTheirSigner
  BY DEF IInv, AgreedOpsAgree, RecordsNameTheirSigner, Stored
<1> QED  BY <1>1, SessionInvariantHolds, PTL

\* Behind the overlay an operation runs or a timer waits to hide it.
THEOREM CoverCorrect == Spec => []CoverIsTemporary
<1>1. IInv => CoverIsTemporary
  BY DEF IInv, WorkInv
<1> QED  BY <1>1, SessionInvariantHolds, PTL

\* Unless a button was pressed behind the overlay, operations do not
\* overlap and no earlier timer can hide a later operation's overlay.
THEOREM OperationsCorrect == Spec => []OneOperationAtATime
<1>1. IInv => OneOperationAtATime
  BY DEF IInv, WorkInv, OneIsBusy, Busy, OneOperationAtATime
<1> QED  BY <1>1, SessionInvariantHolds, PTL

\* A text is cleared from the form by the timer of a registration only, and if
\* it is not the text that one took, it is newer, and it was typed or an operation
\* begun behind the overlay (the timeout of registerNode in App.tsx).
THEOREM TextCorrect == Spec => TextIsKept
<1> DEFINE Cleared == form # 0 /\ form' = 0
           Taken(o) == /\ timer[o] = "registered" /\ timer'[o] = "none"
                       /\ op[o].text # 0
                       /\ op[o].text # form => op[o].text < form /\ (typedBehind \/ pressedBehind)
<1>1. IInv /\ [Next]_vars => [Cleared => \E o \in Ops : Taken(o)]_vars
  <2> SUFFICES ASSUME IInv, Next, Cleared PROVE \E o \in Ops : Taken(o)
    OBVIOUS
  <2>1. PICK o \in Ops : TimerFires(o)
    <3>1. ~ TypeText
      BY DEF TypeText, IInv, TypeOK
    <3> QED
      BY <3>1 DEF Next, browser, dialog, work, record, history, OpenSelector, CloseSelector,
         Disconnect, OpenDialog, CloseDialog, SelectWallet, SwitchAnswers, AddAnswers, Grant,
         Reject, ChangeAccount, ChangeNetwork, BeginRegister, BeginOther, Begin, GetSigner,
         Submit, Succeed, Finish, Fail
  <2>2. timer[o] = "registered" /\ timer'[o] = "none"
    BY <2>1 DEF TimerFires, IInv, TypeOK
  <2>3. op[o].text # 0 /\ op[o].text <= form
    BY <2>2 DEF IInv, WorkInv, TextIsOlder, Registers
  <2>4. op[o].text = form \/ typedBehind \/ pressedBehind
    BY <2>2 DEF IInv, WorkInv, TextIsInForm, Registers
  <2>5. op[o].text \in Nat /\ form \in Nat
    BY DEF IInv, TypeOK, Operation
  <2> QED  BY <2>2, <2>3, <2>4, <2>5
<1> QED  BY <1>1, SessionInvariantHolds, PTL DEF Spec, TextIsKept
=============================================================================

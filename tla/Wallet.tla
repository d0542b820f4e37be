------------------------------- MODULE Wallet -------------------------------
(***************************************************************************)
(* The whole wallet: payouts, deposits and transfers on the same accounts. *)
(* What the three share is the accounts table and its row locks; everything*)
(* else is a component's own.  Transfers is extended, because the commits  *)
(* of the other two show in it: they outdate what a transfer has read.     *)
(***************************************************************************)
EXTENDS Transfers

CONSTANTS
  Key, NoKey, Unset, Rates,
  Payout, PayoutCallback, Payer, PayoutAmount, PayoutForeign, PayoutKey,
  PayoutStripe, PayoutFaults,
  Deposit, DepositCallback, Payee, DepositAmount, DepositForeign, DepositKey,
  DepositStripe, DepositFaults,
  OtherCrashes  \* bound on the payouts' and on the deposits' sessions that die

VARIABLES
  payoutStatus, converted, debit, credit, payoutDraft, payoutPc, payoutHook,
  payoutAbout, payoutGateway, payoutOwed, payoutMishap, payoutCrashes,
  depositStatus, credited, depositDraft, depositPc, depositHook,
  depositAbout, depositGateway, depositOwed, depositMishap, depositCrashes

PayoutSession == Payout \cup PayoutCallback

P == INSTANCE Payouts WITH
  Request <- Payout, Delivery <- PayoutCallback, Amount <- PayoutAmount,
  Foreign <- PayoutForeign, KeyOf <- PayoutKey, Stripe <- PayoutStripe,
  Faults <- PayoutFaults, MaxCrashes <- OtherCrashes,
  Others <- Transfer \cup DepositCallback, status <- payoutStatus,
  draft <- payoutDraft, pc <- payoutPc, hook <- payoutHook, about <- payoutAbout,
  gateway <- payoutGateway, owed <- payoutOwed, mishap <- payoutMishap,
  crashes <- payoutCrashes

D == INSTANCE Deposits WITH
  Request <- Deposit, Delivery <- DepositCallback, Amount <- DepositAmount,
  Foreign <- DepositForeign, KeyOf <- DepositKey, Stripe <- DepositStripe,
  Faults <- DepositFaults, MaxCrashes <- OtherCrashes,
  Others <- Transfer \cup PayoutSession, status <- depositStatus,
  draft <- depositDraft, pc <- depositPc, hook <- depositHook, about <- depositAbout,
  gateway <- depositGateway, owed <- depositOwed, mishap <- depositMishap,
  crashes <- depositCrashes

ASSUME WalletConstants ==
  /\ P!PayoutConstants /\ D!DepositConstants
  /\ Others = PayoutSession \cup DepositCallback
  /\ Deposit \cap (Transfer \cup Others \cup {NoOne}) = {}

payouts == <<payoutStatus, converted, debit, credit, payoutDraft, payoutPc, payoutHook,
             payoutAbout, payoutGateway, payoutOwed, payoutMishap, payoutCrashes>>
deposits == <<depositStatus, credited, depositDraft, depositPc, depositHook,
              depositAbout, depositGateway, depositOwed, depositMishap, depositCrashes>>
accounts == <<balance, ledger, lock>>
transfers == <<copy, pc, stale, crashes>>

(* A commit of another component outdates what transfers have read of the  *)
(* accounts it changes, as a commit of another transfer does.              *)
Outdate ==
  stale' = [t \in Transfer |-> stale[t] \cup {a \in ReadBy(t) : balance'[a] # balance[a]}]

(* Every request and callback gets a session of its own (get_db), and the  *)
(* objects of other sessions do not change with it.                        *)
PayoutsStep ==
  /\ P!Next /\ ~ P!Rest
  /\ Outdate
  /\ UNCHANGED <<deposits, copy, pc, crashes>>

DepositsStep ==
  /\ D!Next /\ ~ D!Rest
  /\ Outdate
  /\ UNCHANGED <<payouts, copy, pc, crashes>>

TransfersStep ==
  /\ \E t \in Transfer : Step(t) \/ Crash(t)
  /\ UNCHANGED <<payouts, deposits>>

WalletInit == Init /\ P!Init /\ D!Init

WalletNext ==
  \/ PayoutsStep \/ DepositsStep \/ TransfersStep
  \/ Rest /\ P!Rest /\ D!Rest

wallet == <<accounts, transfers, payouts, deposits>>

WalletSpec == WalletInit /\ [][WalletNext]_wallet

----------------------------------------------------------------------------
(* Properties. *)

WalletTypeOK == TypeOK /\ P!TypeOK /\ D!TypeOK

(* Session s waits for the row of account a.                               *)
Awaits(s, a) ==
  \/ s \in Transfer /\ Waiting(s) /\ a = Wanted(s)
  \/ s \in Payout /\ payoutPc[s] = "deduct" /\ a = Payer[s]
  \/ s \in PayoutCallback /\ payoutHook[s] = "reverse" /\ a = Payer[payoutAbout[s]]
  \/ s \in Deposit /\ depositPc[s] = "insert" /\ a = Payee[s]
  \/ s \in DepositCallback /\ depositHook[s] = "credit" /\ a = Payee[depositAbout[s]]

Waiters == {s \in Transfer \cup Others \cup Deposit : \E a \in Account : Awaits(s, a)}

(* No set of sessions, of whichever components, waits in a circle: each    *)
(* for a row that another of them holds.                                   *)
NoCircle ==
  \A S \in SUBSET Waiters :
    S # {} => \E s \in S : \A a \in Account : Awaits(s, a) => lock[a] \notin S

(* Three components write the same balances, each by its own rules, and    *)
(* never at the same time: a balance changes only when the session that    *)
(* holds its row commits, which lets the row go, and nobody takes a row    *)
(* from the session that holds it.                                         *)
HoldersPost ==
  [][\A a \in Account :
       /\ balance'[a] # balance[a] => lock[a] # NoOne /\ lock'[a] = NoOne
       /\ lock[a] # NoOne => lock'[a] \in {lock[a], NoOne}]_wallet
=============================================================================

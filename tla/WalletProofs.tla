---------------------------- MODULE WalletProofs ----------------------------
(***************************************************************************)
(* The components together.  Each was proved safe among any other code that*)
(* takes the row locks (AmongOthers in its own proofs); here it is proved  *)
(* that the other two are such code, so that what each promises holds of   *)
(* the whole.  The argument is circular as it should be: a component keeps *)
(* its promises in a step because the others kept theirs before it.        *)
(***************************************************************************)
EXTENDS Wallet, TransfersProofs

(* P and D once more, with what was proved about them.                     *)
PP == INSTANCE PayoutsProofs WITH
  Request <- Payout, Delivery <- PayoutCallback, Amount <- PayoutAmount,
  Foreign <- PayoutForeign, KeyOf <- PayoutKey, Stripe <- PayoutStripe,
  Faults <- PayoutFaults, MaxCrashes <- OtherCrashes,
  Others <- Transfer \cup DepositCallback, status <- payoutStatus,
  draft <- payoutDraft, pc <- payoutPc, hook <- payoutHook, about <- payoutAbout,
  gateway <- payoutGateway, owed <- payoutOwed, mishap <- payoutMishap,
  crashes <- payoutCrashes

DP == INSTANCE DepositsProofs WITH
  Request <- Deposit, Delivery <- DepositCallback, Amount <- DepositAmount,
  Foreign <- DepositForeign, KeyOf <- DepositKey, Stripe <- DepositStripe,
  Faults <- DepositFaults, MaxCrashes <- OtherCrashes,
  Others <- Transfer \cup PayoutSession, status <- depositStatus,
  draft <- depositDraft, pc <- depositPc, hook <- depositHook, about <- depositAbout,
  gateway <- depositGateway, owed <- depositOwed, mishap <- depositMishap,
  crashes <- depositCrashes

LInv == IInv /\ PP!IInv /\ DP!IInv

----------------------------------------------------------------------------
(* P and PP say the same, and so do D and DP. *)

LEMMA Constants == PP!PayoutConstants /\ DP!DepositConstants
  BY WalletConstants DEF P!PayoutConstants, PP!PayoutConstants, D!DepositConstants,
     DP!DepositConstants, P!Session, PP!Session, P!FaultKinds, PP!FaultKinds,
     D!FaultKinds, DP!FaultKinds

LEMMA SamePayouts == (P!Next <=> PP!Next) /\ P!vars = PP!vars
  BY DEF P!vars, PP!vars, P!rows, PP!rows, P!requests, PP!requests, P!hooks,
         PP!hooks, P!Finished, PP!Finished, P!Holding, PP!Holding, P!Hit,
         PP!Hit, P!NoDraft, PP!NoDraft, P!SameKey, PP!SameKey, P!Existing,
         PP!Existing, P!Conversions, PP!Conversions, P!Covers, PP!Covers,
         P!AmountToCredit, PP!AmountToCredit, P!Awaited, PP!Awaited,
         P!Accepted, PP!Accepted, P!Handled, PP!Handled, P!LockAccount,
         PP!LockAccount, P!Unlock, PP!Unlock, P!CommitDraft, PP!CommitDraft,
         P!ReverseDeduction, PP!ReverseDeduction, P!Tapped, PP!Tapped, P!Sent,
         PP!Sent, P!LookUpKey, PP!LookUpKey, P!RejectInput, PP!RejectInput,
         P!DeductBalanceAndRecord, PP!DeductBalanceAndRecord,
         P!RejectDeduction, PP!RejectDeduction, P!SubmitAccepted,
         PP!SubmitAccepted, P!SubmitFailed, PP!SubmitFailed,
         P!SubmitFailedAtOnce, PP!SubmitFailedAtOnce, P!SubmitLost,
         PP!SubmitLost, P!CommitRequest, PP!CommitRequest, P!CrashRequest,
         PP!CrashRequest, P!Decide, PP!Decide, P!QueueTimeout, PP!QueueTimeout,
         P!Acknowledge, PP!Acknowledge, P!CanDeliver, PP!CanDeliver, P!Ignored,
         PP!Ignored, P!Outcome, PP!Outcome, P!IgnoreCallback,
         PP!IgnoreCallback, P!ReceiveCallback, PP!ReceiveCallback,
         P!CommitCompletion, PP!CommitCompletion, P!LockForReversal,
         PP!LockForReversal, P!CommitReversal, PP!CommitReversal,
         P!CrashCallback, PP!CrashCallback, P!RequestStep, PP!RequestStep,
         P!CallbackStep, PP!CallbackStep, P!Deliver, PP!Deliver, P!Next,
         PP!Next, P!Rest, PP!Rest

LEMMA SameDeposits == (D!Next <=> DP!Next) /\ D!vars = DP!vars
  BY DEF D!vars, DP!vars, D!rows, DP!rows, D!Finished, DP!Finished, D!Hit,
         DP!Hit, D!NoDraft, DP!NoDraft, D!SameKey, DP!SameKey, D!Existing,
         DP!Existing, D!Conversions, DP!Conversions, D!Confirms, DP!Confirms,
         D!Ignored, DP!Ignored, D!Handled, DP!Handled, D!Tapped, DP!Tapped,
         D!Sent, DP!Sent, D!CreditAccountAndRecord, DP!CreditAccountAndRecord,
         D!LookUpKey, DP!LookUpKey, D!RejectCharge, DP!RejectCharge,
         D!ChargeAccepted, DP!ChargeAccepted, D!ChargeLost, DP!ChargeLost,
         D!InsertDeposit, DP!InsertDeposit, D!CrashRequest, DP!CrashRequest,
         D!Decide, DP!Decide, D!PayAgain, DP!PayAgain, D!Acknowledge,
         DP!Acknowledge, D!CanDeliver, DP!CanDeliver, D!IgnoreCallback,
         DP!IgnoreCallback, D!ReceiveCallback, DP!ReceiveCallback,
         D!LockAccount, DP!LockAccount, D!Unlock, DP!Unlock, D!LockAndCredit,
         DP!LockAndCredit, D!LockWithoutRate, DP!LockWithoutRate, D!Release,
         DP!Release, D!CommitCallback, DP!CommitCallback, D!CommitFailure,
         DP!CommitFailure, D!CrashCallback, DP!CrashCallback, D!RequestStep,
         DP!RequestStep, D!CallbackStep, DP!CallbackStep, D!Deliver,
         DP!Deliver, D!Next, DP!Next, D!Rest, DP!Rest

LEMMA SamePayoutPromises ==
  /\ P!Init <=> PP!Init
  /\ P!TypeOK <=> PP!TypeOK
  /\ P!Solvent <=> PP!Solvent
  /\ P!RowTellsLedger <=> PP!RowTellsLedger
  /\ P!PaidIsDeducted <=> PP!PaidIsDeducted
  /\ P!OneRowPerKey <=> PP!OneRowPerKey
  BY DEF P!FaultKinds, PP!FaultKinds, P!Session, PP!Session, P!Status,
         PP!Status, P!Finished, PP!Finished, P!Holding, PP!Holding, P!Draft,
         PP!Draft, P!NoDraft, PP!NoDraft, P!SameKey, PP!SameKey, P!Init,
         PP!Init, P!TypeOK, PP!TypeOK, P!Solvent, PP!Solvent, P!RowTellsLedger,
         PP!RowTellsLedger, P!OneRowPerKey, PP!OneRowPerKey, P!PaidIsDeducted,
         PP!PaidIsDeducted

LEMMA SameDepositPromises ==
  /\ D!Init <=> DP!Init
  /\ D!TypeOK <=> DP!TypeOK
  /\ D!CreditedOnlyIfPaid <=> DP!CreditedOnlyIfPaid
  /\ D!RowTellsLedger <=> DP!RowTellsLedger
  /\ D!FailedIsUnpaid <=> DP!FailedIsUnpaid
  /\ D!OneChargePerKey <=> DP!OneChargePerKey
  BY DEF D!FaultKinds, DP!FaultKinds, D!Status, DP!Status, D!Finished,
         DP!Finished, D!NoDraft, DP!NoDraft, D!SameKey, DP!SameKey,
         D!Conversions, DP!Conversions, D!Init, DP!Init, D!TypeOK, DP!TypeOK,
         D!CreditedOnlyIfPaid, DP!CreditedOnlyIfPaid, D!RowTellsLedger,
         DP!RowTellsLedger, D!OneChargePerKey, DP!OneChargePerKey,
         D!FailedIsUnpaid, DP!FailedIsUnpaid

----------------------------------------------------------------------------
(* What each component's step is to the others. *)

LEMMA Sessions ==
  /\ PP!Session = PayoutSession /\ Others = PayoutSession \cup DepositCallback
  /\ Transfer \cap Others = {} /\ PayoutSession \cap DepositCallback = {}
  /\ Deposit \cap (Transfer \cup Others \cup {NoOne}) = {}
  /\ NoOne \notin Transfer \cup Others
  BY WalletConstants, TransferConstants, Constants DEF PP!PayoutConstants, PP!Session,
     DP!DepositConstants, PayoutSession

LEMMA TransfersAmongOthers ==
  ASSUME IInv, TransfersStep
  PROVE  IInv' /\ Next /\ PP!Elsewhere /\ DP!Elsewhere
<1>1. Next
  BY DEF TransfersStep, Next
<1>2. IInv' /\ \A a \in Account : Writes(a)
  BY <1>1, IInvNext, StepWrites
<1>3. /\ balance' \in [Account -> Nat] /\ ledger' \in [Account -> Int]
      /\ lock' \in [Account -> Transfer \cup Others \cup {NoOne}]
  BY <1>2 DEF IInv, TypeOK
<1>4. UNCHANGED <<payouts, deposits>>
  BY DEF TransfersStep
<1>5. PP!Elsewhere
  BY <1>2, <1>3, <1>4, Sessions DEF Writes, PP!Elsewhere, PP!requests, PP!hooks, payouts
<1>6. DP!Elsewhere
  BY <1>2, <1>3, <1>4, Sessions DEF Writes, DP!Elsewhere, deposits
<1> QED  BY <1>1, <1>2, <1>5, <1>6

LEMMA PayoutsAmongOthers ==
  ASSUME LInv, PayoutsStep
  PROVE  PP!IInv' /\ PP!Next /\ Elsewhere /\ DP!Elsewhere
<1>1. PP!Next
  BY SamePayouts DEF PayoutsStep
<1>2. PP!IInv' /\ \A a \in Account : PP!Posts(a) /\ PP!Grants(a)
  BY <1>1, Constants, PP!IInvNext, PP!StepPosts, PP!StepGrants DEF LInv, PP!IInv
<1>3. /\ balance' \in [Account -> Nat] /\ ledger' \in [Account -> Int]
      /\ lock' \in [Account -> Transfer \cup Others \cup {NoOne}]
  BY <1>2, Sessions DEF PP!IInv, PP!TypeOK, PP!Solvent
<1>4. Outdate /\ UNCHANGED <<deposits, copy, pc, crashes>>
  BY DEF PayoutsStep
<1>5. Elsewhere
  BY <1>2, <1>3, <1>4, Sessions DEF PP!Posts, PP!Grants, Elsewhere, Outdate
<1>6. DP!Elsewhere
  BY <1>2, <1>3, <1>4, Sessions DEF PP!Posts, PP!Grants, DP!Elsewhere, deposits
<1> QED  BY <1>1, <1>2, <1>5, <1>6

LEMMA DepositsAmongOthers ==
  ASSUME LInv, DepositsStep
  PROVE  DP!IInv' /\ DP!Next /\ Elsewhere /\ PP!Elsewhere
<1>1. DP!Next
  BY SameDeposits DEF DepositsStep
<1>2. DP!IInv' /\ \A a \in Account : DP!Posts(a) /\ DP!Grants(a)
  BY <1>1, Constants, DP!IInvNext, DP!StepPosts, DP!StepGrants
     DEF LInv, DP!IInv, DP!Locking
<1>3. /\ balance' \in [Account -> Nat] /\ ledger' \in [Account -> Int]
      /\ lock' \in [Account -> Transfer \cup Others \cup {NoOne}]
  BY <1>2, Sessions DEF DP!IInv, DP!Locking, DP!TypeOK
<1>4. Outdate /\ UNCHANGED <<payouts, copy, pc, crashes>>
  BY DEF DepositsStep
<1>5. Elsewhere
  BY <1>2, <1>3, <1>4, Sessions DEF DP!Posts, DP!Grants, Elsewhere, Outdate
<1>6. PP!Elsewhere
  BY <1>2, <1>3, <1>4, Sessions DEF DP!Posts, DP!Grants, PP!Elsewhere, PP!requests, PP!hooks,
     payouts
<1> QED  BY <1>1, <1>2, <1>5, <1>6

----------------------------------------------------------------------------
(* The whole. *)

LEMMA LInvInit == WalletInit => LInv
  BY IInvInit, Constants, PP!IInvInit, DP!IInvInit, SamePayoutPromises, SameDepositPromises
     DEF WalletInit, LInv

LEMMA StandsStill ==
  ASSUME UNCHANGED wallet
  PROVE  UNCHANGED vars /\ UNCHANGED PP!vars /\ UNCHANGED DP!vars
  BY DEF wallet, accounts, transfers, payouts, deposits, vars, PP!vars, DP!vars

(* A step of the whole is for each component a step of its own, or one it  *)
(* tolerates, or none.                                                     *)
LEMMA StepsOfAll ==
  ASSUME LInv, [WalletNext]_wallet
  PROVE  /\ LInv'
         /\ [Next \/ Elsewhere]_vars
         /\ [PP!Next \/ PP!Elsewhere]_(PP!vars)
         /\ [DP!Next \/ DP!Elsewhere]_(DP!vars)
<1>1. CASE TransfersStep
  <2>1. IInv' /\ Next /\ PP!Elsewhere /\ DP!Elsewhere
    BY <1>1, TransfersAmongOthers DEF LInv
  <2>2. PP!IInv' /\ DP!IInv'
    BY <2>1, Constants, PP!ElsewhereLocks, DP!ElsewhereKeeps DEF LInv
  <2> QED  BY <2>1, <2>2 DEF LInv
<1>2. CASE PayoutsStep
  <2>1. PP!IInv' /\ PP!Next /\ Elsewhere /\ DP!Elsewhere
    BY <1>2, PayoutsAmongOthers
  <2>2. IInv' /\ DP!IInv'
    BY <2>1, Constants, ElsewhereKeeps, DP!ElsewhereKeeps DEF LInv
  <2> QED  BY <2>1, <2>2 DEF LInv
<1>3. CASE DepositsStep
  <2>1. DP!IInv' /\ DP!Next /\ Elsewhere /\ PP!Elsewhere
    BY <1>3, DepositsAmongOthers
  <2>2. IInv' /\ PP!IInv'
    BY <2>1, Constants, ElsewhereKeeps, PP!ElsewhereLocks DEF LInv
  <2> QED  BY <2>1, <2>2 DEF LInv
<1>4. CASE UNCHANGED vars /\ UNCHANGED PP!vars /\ UNCHANGED DP!vars
  <2>1. LInv'
    BY <1>4, Constants, IInvNext, PP!IInvNext, DP!IInvNext DEF LInv
  <2> QED  BY <1>4, <2>1
<1>5. CASE Rest /\ P!Rest /\ D!Rest
  BY <1>4, <1>5 DEF Rest, P!Rest, D!Rest, P!vars, PP!vars, D!vars, DP!vars
<1> QED  BY <1>1, <1>2, <1>3, <1>4, <1>5, StandsStill DEF WalletNext

LEMMA LInvAlways == WalletSpec => []LInv
  BY LInvInit, StepsOfAll, PTL DEF WalletSpec

(* The wallet is an implementation of each component among others.         *)
THEOREM ComponentsAmongOthers ==
  WalletSpec => AmongOthers /\ PP!AmongOthers /\ DP!AmongOthers
<1>1. WalletInit => Init /\ PP!Init /\ DP!Init
  BY SamePayoutPromises, SameDepositPromises DEF WalletInit
<1> QED
  BY <1>1, StepsOfAll, LInvAlways, PTL DEF WalletSpec, AmongOthers, PP!AmongOthers,
     DP!AmongOthers

(* Every reachable state of the whole is well typed for each component: no *)
(* mixture of the three brings a balance below zero.                       *)
THEOREM WalletTypeCorrect == WalletSpec => []WalletTypeOK
<1>1. LInv => WalletTypeOK
  BY SamePayoutPromises, SameDepositPromises
     DEF LInv, IInv, PP!IInv, DP!IInv, DP!Locking, WalletTypeOK
<1> QED  BY <1>1, LInvAlways, PTL

(* With payouts and deposits on the same accounts, the mirror of balance   *)
(* and ledger is still broken by outdated transfers only.                  *)
THEOREM WalletBackedUnlessStale == WalletSpec => []LedgerBackedUnlessStale
<1>1. LInv => LedgerBackedUnlessStale
  BY DEF LInv, IInv
<1> QED  BY <1>1, LInvAlways, PTL

(* And so is the limit on what an account can have sent, all three ways of *)
(* spending taken together.                                                *)
THEOREM WalletNeverOverdrawn == WalletSpec => []NoOverdraft
<1>1. LInv => NoOverdraft
  BY OverdraftHolds DEF LInv
<1> QED  BY <1>1, LInvAlways, PTL

(* The row locks serialise the writers of the three components.            *)
THEOREM OneWriterAtATime == WalletSpec => HoldersPost
<1> DEFINE Posted(a) ==
      /\ balance'[a] # balance[a] => lock[a] # NoOne /\ lock'[a] = NoOne
      /\ lock[a] # NoOne => lock'[a] \in {lock[a], NoOne}
<1>1. LInv /\ [WalletNext]_wallet => [\A a \in Account : Posted(a)]_wallet
  <2> SUFFICES ASSUME LInv, WalletNext, NEW a \in Account PROVE Posted(a) \/ UNCHANGED wallet
    BY Zenon
  <2> HIDE DEF Posted
  <2>1. CASE TransfersStep
    <3>1. Writes(a)
      BY <2>1, TransfersAmongOthers, StepWrites DEF LInv
    <3> QED  BY <3>1, Sessions DEF Posted, Writes
  <2>2. CASE PayoutsStep
    <3>1. PP!Posts(a) /\ PP!Grants(a)
      BY <2>2, PayoutsAmongOthers, Constants, PP!StepPosts, PP!StepGrants DEF LInv, PP!IInv
    <3> QED  BY <3>1, Sessions DEF Posted, PP!Posts, PP!Grants
  <2>3. CASE DepositsStep
    <3>1. DP!Posts(a) /\ DP!Grants(a)
      BY <2>3, DepositsAmongOthers, Constants, DP!StepPosts, DP!StepGrants
         DEF LInv, DP!IInv, DP!Locking
    <3> QED  BY <3>1, Sessions DEF Posted, DP!Posts, DP!Grants
  <2>4. CASE Rest /\ P!Rest /\ D!Rest
    BY <2>4 DEF Posted, Rest, vars
  <2> QED  BY <2>1, <2>2, <2>3, <2>4 DEF WalletNext
<1> QED  BY <1>1, LInvAlways, PTL DEF WalletSpec, HoldersPost

(* Of a circle of sessions, those that hold a row and wait for another are *)
(* transfers, and those would be a circle of transfers.                    *)
LEMMA CircleHolds == LInv => NoCircle
<1> SUFFICES ASSUME LInv, NEW S \in SUBSET Waiters, S # {},
                    \A s \in S : \E a \in Account : Awaits(s, a) /\ lock[a] \in S
             PROVE  FALSE
  BY DEF NoCircle
<1>1. ASSUME NEW s \in S, NEW a \in Account, lock[a] = s PROVE s \in Transfer
  <2>1. PICK b \in Account : Awaits(s, b)
    OBVIOUS
  <2>2. s \in Transfer \cup Others
    BY <1>1, Sessions DEF LInv, IInv, TypeOK, Waiters
  <2>3. CASE s \in PayoutSession
    <3>1. PP!WorksOn(s, a)
      BY <1>1, <2>3, Sessions DEF LInv, PP!IInv, PP!LockEarned
    <3> QED
      BY <2>1, <2>3, <3>1, Constants, Sessions DEF PP!WorksOn, PP!Holding, Awaits,
         PP!PayoutConstants, PayoutSession
  <2>4. CASE s \in DepositCallback
    <3>1. depositHook[s] = "commit"
      BY <1>1, <2>4 DEF LInv, DP!IInv, DP!Locking, DP!LockEarned
    <3> QED  BY <2>1, <2>4, <3>1, Sessions DEF Awaits, PayoutSession
  <2> QED  BY <2>2, <2>3, <2>4, Sessions
<1> DEFINE Ring == S \cap Transfer
<1>2. PICK s \in S, a \in Account : lock[a] \in S
  OBVIOUS
<1>3. Ring # {} /\ Ring \in SUBSET Transfer
  BY <1>1, <1>2
<1>4. PICK t \in Ring : ~ (Waiting(t) /\ lock[Wanted(t)] \in Ring)
  BY <1>3, WaitsEnd DEF LInv, NoDeadlock
<1>5. PICK b \in Account : Awaits(t, b) /\ lock[b] \in S
  BY <1>4
<1>6. Waiting(t) /\ b = Wanted(t)
  BY <1>4, <1>5, Sessions DEF Awaits, PayoutSession
<1> QED  BY <1>1, <1>4, <1>5, <1>6

(* Nobody waits in a circle, transfers, payouts and deposits together.     *)
THEOREM WalletNeverDeadlocks == WalletSpec => []NoCircle
  BY CircleHolds, LInvAlways, PTL

(* What a payout promises by itself it promises next to deposits and       *)
(* transfers, with the same exemptions: the row tells the ledger unless    *)
(* deliveries overlap, what the gateway sent stays deducted once its       *)
(* request has committed and unless the answer to it was lost, and a key   *)
(* makes one row unless two requests carried it at once.                   *)
THEOREM PayoutsKeepTheirPromises ==
  WalletSpec => []P!RowTellsLedger /\ []P!PaidIsDeducted /\ []P!OneRowPerKey
  BY ComponentsAmongOthers, SamePayoutPromises, Constants, PP!SafeAmongOthers, PTL

(* And a deposit: credited only if paid, without exemption; once, and      *)
(* exactly when it is completed, unless deliveries overlap; failed only if *)
(* unpaid, unless a rate was missing or a declined intent was paid again;  *)
(* one charge per key, unless two requests carried it at once or one died  *)
(* or lost the gateway's answer.                                           *)
THEOREM DepositsKeepTheirPromises ==
  WalletSpec => /\ []D!CreditedOnlyIfPaid /\ []D!RowTellsLedger
                /\ []D!FailedIsUnpaid /\ []D!OneChargePerKey
  BY ComponentsAmongOthers, SameDepositPromises, Constants, DP!SafeAmongOthers, PTL
=============================================================================

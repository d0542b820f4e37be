--------------------------- MODULE PayoutsProofs ---------------------------
(***************************************************************************)
(* Proofs about Payouts, for any number of requests, callbacks, accounts   *)
(* and keys, and under every fault: first the locks and the money, then    *)
(* what the rows say, the keys, and that Payouts implements Books.         *)
(***************************************************************************)
EXTENDS Payouts, FiniteSetTheorems, TLAPS

(* A callback in the making is about a payout.                             *)
InUse == \A d \in Delivery : hook[d] # "idle" => about[d] \in Request

(* Session s has written on account a and not committed.                   *)
WorksOn(s, a) ==
  \/ s \in Request /\ pc[s] \in Holding /\ a = Payer[s]
  \/ s \in Delivery /\ hook[s] = "commit" /\ a = Payer[about[s]]

(* Whoever works on an account holds its row.                              *)
HoldsRow == \A s \in Session, a \in Account : WorksOn(s, a) => lock[a] = s

(* Only they hold one: no path leaves a row locked behind it.              *)
LockEarned == \A s \in Session, a \in Account : lock[a] = s => WorksOn(s, a)

(* What such a session has in its Account object is the committed balance  *)
(* with the session's own Transactions applied, and no less than zero.     *)
Mirrors(s, a) ==
  /\ draft[s].balance = balance[a] + draft[s].credit - draft[s].debit
  /\ draft[s].balance >= 0

DraftsMirror == \A s \in Session, a \in Account : WorksOn(s, a) => Mirrors(s, a)

IInv == TypeOK /\ InUse /\ HoldsRow /\ LockEarned /\ DraftsMirror /\ Solvent

USE PayoutConstants DEF Session, FaultKinds, Finished, Holding, Status

----------------------------------------------------------------------------
(* The rules. *)

LEMMA DraftRecord ==
  ASSUME NEW b \in Int, NEW out \in Nat, NEW in \in Nat,
         NEW conv \in Nat \cup {Unset}, NEW st \in Status
  PROVE  [balance |-> b, debit |-> out, credit |-> in, converted |-> conv, status |-> st]
           \in Draft
  BY DEF Draft

LEMMA DraftFields ==
  ASSUME NEW work \in Draft
  PROVE  /\ work.balance \in Int /\ work.debit \in Nat /\ work.credit \in Nat
         /\ work.converted \in Nat \cup {Unset} /\ work.status \in Status
         /\ work = [balance |-> work.balance, debit |-> work.debit, credit |-> work.credit,
                    converted |-> work.converted, status |-> work.status]
  BY DEF Draft

LEMMA FreshDraft ==
  ASSUME NEW b \in Int, NEW conv \in Nat \cup {Unset}
  PROVE  LET work == [NoDraft EXCEPT !.balance = b, !.converted = conv] IN
         work \in Draft /\ work.balance = b /\ work.debit = 0 /\ work.credit = 0
  BY DEF NoDraft, Draft

LEMMA ReverseType ==
  ASSUME NEW r \in Request, NEW work \in Draft
  PROVE  LET rev == ReverseDeduction(work, r) IN
         /\ rev \in Draft
         /\ rev.balance - work.balance = rev.credit - work.credit
         /\ rev.balance >= work.balance
         /\ rev.debit = work.debit
<1> DEFINE back == AmountToCredit(r, work.converted)
           rev == ReverseDeduction(work, r)
<1>1. back \in Nat
  BY DraftFields DEF AmountToCredit
<1>2. work = [balance |-> work.balance, debit |-> work.debit, credit |-> work.credit,
              converted |-> work.converted, status |-> work.status]
  BY DraftFields
<1>3. rev = [work EXCEPT !.balance = work.balance + back, !.credit = work.credit + back,
                         !.status = "reversed"]
  BY <1>2 DEF ReverseDeduction
<1> HIDE DEF back, rev
<1>4. rev = [balance |-> work.balance + back, debit |-> work.debit,
             credit |-> work.credit + back, converted |-> work.converted,
             status |-> "reversed"]
  BY <1>2, <1>3, Zenon
<1>5. rev \in Draft
  <2>1. work.balance + back \in Int /\ work.credit + back \in Nat /\ "reversed" \in Status
    BY <1>1, DraftFields
  <2> QED  BY <1>4, <2>1, DraftFields, DraftRecord
<1>6. /\ rev.balance - work.balance = rev.credit - work.credit
      /\ rev.balance >= work.balance /\ rev.debit = work.debit
  BY <1>1, <1>4, DraftFields
<1> QED  BY <1>5, <1>6 DEF rev

LEMMA ConversionType == ASSUME NEW r \in Request PROVE Conversions(r) \subseteq Nat
<1>1. Amount[r] \in Nat
  BY PayoutConstants
<1>2. \A rate \in Rates : rate \in Nat
  BY PayoutConstants
<1>3. ASSUME NEW rate \in Rates PROVE Amount[r] * rate \in Nat
  <2>1. rate \in Nat
    BY <1>2
  <2>2. \A i, j \in Nat : i * j \in Nat
    OBVIOUS
  <2> QED BY <1>1, <2>1, <2>2
<1>4. {Amount[r] * rate : rate \in Rates} \subseteq Nat
  BY <1>3
<1> QED BY <1>1, <1>4 DEF Conversions

LEMMA UnlockType == ASSUME NEW s, TypeOK, Unlock(s)
                    PROVE lock' \in [Account -> Session \cup Others \cup {NoOne}]
  BY DEF Unlock, TypeOK

LEMMA CommitType ==
  ASSUME NEW s \in Session, NEW r \in Request, TypeOK, CommitDraft(s, r)
  PROVE  /\ balance' \in [Account -> Int] /\ ledger' \in [Account -> Int]
         /\ status' \in [Request -> Status]
         /\ converted' \in [Request -> Nat \cup {Unset}]
         /\ debit' \in [Request -> Nat] /\ credit' \in [Request -> Nat]
         /\ lock' \in [Account -> Session \cup Others \cup {NoOne}]
         /\ draft' \in [Session -> Draft]
<1>1. draft[s] \in Draft /\ NoDraft \in Draft /\ Payer[r] \in Account
  BY DEF TypeOK, Draft, NoDraft
<1>2. /\ draft[s].balance \in Int /\ draft[s].debit \in Nat /\ draft[s].credit \in Nat
      /\ draft[s].converted \in Nat \cup {Unset} /\ draft[s].status \in Status
  BY <1>1 DEF Draft
<1>3. draft \in [Session -> Draft]
  BY DEF TypeOK, Draft
<1>4. balance' \in [Account -> Int]
  BY <1>1, <1>2 DEF TypeOK, CommitDraft
<1>5. ledger' \in [Account -> Int]
  BY <1>1, <1>2 DEF TypeOK, CommitDraft
<1>6. /\ status' \in [Request -> Status]
      /\ converted' \in [Request -> Nat \cup {Unset}]
      /\ debit' \in [Request -> Nat] /\ credit' \in [Request -> Nat]
  BY <1>2 DEF TypeOK, CommitDraft
<1>7. lock' \in [Account -> Session \cup Others \cup {NoOne}]
  BY UnlockType DEF CommitDraft
<1>8. draft' \in [Session -> Draft]
  BY <1>1, <1>3 DEF CommitDraft
<1> QED  BY <1>4, <1>5, <1>6, <1>7, <1>8

----------------------------------------------------------------------------
(* Type correctness. *)

LEMMA HitType ==
  ASSUME NEW r \in Request, NEW fault \in FaultKinds, TypeOK, Hit(r, fault)
  PROVE  mishap' \in [Request -> SUBSET FaultKinds]
<1> HIDE DEF FaultKinds
<1> QED  BY DEF Hit, TypeOK

LEMMA NoDraftType == NoDraft \in Draft
  BY DEF NoDraft, Draft

LEMMA TypeInit == Init => TypeOK
<1> SUFFICES ASSUME Init PROVE TypeOK
  OBVIOUS
<1>1. draft \in [Session -> Draft]
  BY NoDraftType DEF Init
<1>2. /\ balance \in [Account -> Int] /\ ledger \in [Account -> Int]
      /\ status \in [Request -> Status] /\ converted \in [Request -> Nat \cup {Unset}]
      /\ debit \in [Request -> Nat] /\ credit \in [Request -> Nat]
  BY DEF Init
<1> QED  BY <1>1, <1>2 DEF Init, TypeOK

LEMMA TypeNext == TypeOK /\ InUse /\ [Next]_vars => TypeOK'
<1> SUFFICES ASSUME TypeOK, InUse, [Next]_vars PROVE TypeOK'
  OBVIOUS
<1> USE DEF TypeOK, rows, requests, hooks
<1>0. draft \in [Session -> Draft] /\ NoDraft \in Draft
  BY NoDraftType
<1>1. ASSUME NEW r \in Request, LookUpKey(r) PROVE TypeOK'
  BY <1>1 DEF LookUpKey, Hit
<1>2. ASSUME NEW r \in Request, RejectInput(r) \/ RejectDeduction(r) PROVE TypeOK'
  <2>1. CASE RejectInput(r)
    BY <2>1 DEF RejectInput
  <2>2. CASE RejectDeduction(r)
    BY <2>2 DEF RejectDeduction
  <2> QED  BY <1>2, <2>1, <2>2
<1>3. ASSUME NEW r \in Request, DeductBalanceAndRecord(r) PROVE TypeOK'
  <2>1. PICK amt \in Conversions(r) :
          draft' = [draft EXCEPT ![r] =
            [balance |-> balance[Payer[r]] - amt, debit |-> amt, credit |-> 0,
             converted |-> IF r \in Foreign THEN amt ELSE Unset, status |-> "pending"]]
    BY <1>3 DEF DeductBalanceAndRecord
  <2>2. draft' \in [Session -> Draft]
    BY <1>0, <2>1, ConversionType DEF Draft
  <2>3. lock' \in [Account -> Session \cup Others \cup {NoOne}]
    BY <1>3 DEF DeductBalanceAndRecord, LockAccount
  <2> QED  BY <1>3, <2>2, <2>3 DEF DeductBalanceAndRecord
<1>4. ASSUME NEW r \in Request, SubmitAccepted(r) PROVE TypeOK'
  <2> DEFINE work == draft[r]
  <2>1. work \in Draft /\ Accepted(r) \in Status
    BY DEF Accepted
  <2>2. draft' = [draft EXCEPT ![r] = [work EXCEPT !.status = Accepted(r)]]
    BY <1>4 DEF SubmitAccepted
  <2>3. [work EXCEPT !.status = Accepted(r)] \in Draft
    BY <2>1 DEF Draft
  <2>4. draft' \in [Session -> Draft]
    BY <1>0, <2>2, <2>3
  <2> QED  BY <1>4, <2>4 DEF SubmitAccepted
<1>5. ASSUME NEW r \in Request, SubmitFailed(r) \/ SubmitFailedAtOnce(r) \/ SubmitLost(r)
      PROVE  TypeOK'
  <2>1. draft' = [draft EXCEPT ![r] = ReverseDeduction(draft[r], r)]
    BY <1>5 DEF SubmitFailed, SubmitFailedAtOnce, SubmitLost
  <2>2. ReverseDeduction(draft[r], r) \in Draft
    BY <1>0, ReverseType
  <2>3. draft' \in [Session -> Draft]
    BY <1>0, <2>1, <2>2
  <2>4. gateway' \in [Request -> {"idle", "accepted", "paid", "refused", "timed_out"}]
    BY <1>5 DEF SubmitFailed, SubmitFailedAtOnce, SubmitLost
  <2>5. owed' \in [Request -> BOOLEAN]
    BY <1>5 DEF SubmitFailed, SubmitFailedAtOnce, SubmitLost
  <2>8. mishap' \in [Request -> SUBSET FaultKinds]
    BY <1>5, HitType DEF SubmitFailed, SubmitFailedAtOnce, SubmitLost
  <2>6. pc' \in [Request -> {"new", "deduct"} \cup Holding \cup Finished]
    BY <1>5 DEF SubmitFailed, SubmitFailedAtOnce, SubmitLost
  <2>7. UNCHANGED <<rows, lock, hook, about, crashes>>
    BY <1>5 DEF SubmitFailed, SubmitFailedAtOnce, SubmitLost
  <2> QED  BY <2>3, <2>4, <2>5, <2>6, <2>7, <2>8
<1>6. ASSUME NEW r \in Request, CommitRequest(r) PROVE TypeOK'
  <2>1. CommitDraft(r, r) /\ pc' \in [Request -> {"new", "deduct"} \cup Holding \cup Finished]
    BY <1>6 DEF CommitRequest
  <2>2. UNCHANGED <<gateway, hooks, mishap, crashes>>
    BY <1>6 DEF CommitRequest
  <2> QED  BY <2>1, <2>2, CommitType
<1>7. ASSUME NEW r \in Request, CrashRequest(r) PROVE TypeOK'
  <2>1. draft' \in [Session -> Draft]
    BY <1>0, <1>7 DEF CrashRequest
  <2>2. lock' \in [Account -> Session \cup Others \cup {NoOne}]
    BY <1>7, UnlockType DEF CrashRequest
  <2> QED  BY <1>7, <2>1, <2>2 DEF CrashRequest
<1>8. ASSUME NEW r \in Request, Decide(r) \/ QueueTimeout(r) PROVE TypeOK'
  <2>1. gateway' \in [Request -> {"idle", "accepted", "paid", "refused", "timed_out"}]
    BY <1>8 DEF Decide, QueueTimeout
  <2>2. owed' \in [Request -> BOOLEAN]
    BY <1>8 DEF Decide, QueueTimeout
  <2>3. mishap' \in [Request -> SUBSET FaultKinds]
    BY <1>8, HitType DEF Decide, QueueTimeout
  <2> QED  BY <1>8, <2>1, <2>2, <2>3 DEF Decide, QueueTimeout
<1>9. ASSUME NEW r \in Request, NEW d \in Delivery,
             IgnoreCallback(d, r) \/ ReceiveCallback(d, r)
      PROVE  TypeOK'
  BY <1>9, SMTT(20) DEF IgnoreCallback, ReceiveCallback, Acknowledge, Outcome, Hit
<1>10. ASSUME NEW d \in Delivery, CommitCompletion(d) PROVE TypeOK'
  BY <1>10, ZenonT(60) DEF CommitCompletion, Acknowledge
<1>11. ASSUME NEW d \in Delivery, LockForReversal(d) PROVE TypeOK'
  <2> DEFINE r == about[d]
             work == [NoDraft EXCEPT !.balance = balance[Payer[r]], !.converted = converted[r]]
  <2>1. r \in Request
    BY <1>11 DEF LockForReversal, InUse
  <2>2. work \in Draft
    BY <2>1 DEF NoDraft, Draft
  <2>3. draft' \in [Session -> Draft]
    BY <1>0, <1>11, <2>1, <2>2, ReverseType DEF LockForReversal
  <2>4. lock' \in [Account -> Session \cup Others \cup {NoOne}]
    BY <1>11 DEF LockForReversal, LockAccount
  <2> QED  BY <1>11, <2>3, <2>4 DEF LockForReversal
<1>12. ASSUME NEW d \in Delivery, CommitReversal(d) PROVE TypeOK'
  <2>1. about[d] \in Request
    BY <1>12 DEF CommitReversal, InUse
  <2>2. CommitDraft(d, about[d]) /\ owed' \in [Request -> BOOLEAN]
    BY <1>12, ZenonT(60) DEF CommitReversal, Acknowledge
  <2>3. /\ hook' \in [Delivery -> {"idle", "complete", "reverse", "commit"}]
        /\ about' \in [Delivery -> Request \cup {Unset}]
        /\ UNCHANGED <<requests, mishap, crashes>>
    BY <1>12 DEF CommitReversal
  <2> QED  BY <2>1, <2>2, <2>3, CommitType
<1>13. ASSUME NEW d \in Delivery, CrashCallback(d) PROVE TypeOK'
  <2>1. draft' \in [Session -> Draft]
    BY <1>0, <1>13 DEF CrashCallback
  <2>2. lock' \in [Account -> Session \cup Others \cup {NoOne}]
    BY <1>13, UnlockType DEF CrashCallback
  <2> QED  BY <1>13, <2>1, <2>2 DEF CrashCallback
<1>14. ASSUME UNCHANGED vars PROVE TypeOK'
  BY <1>14 DEF vars
<1> QED  BY <1>1, <1>2, <1>3, <1>4, <1>5, <1>6, <1>7, <1>8, <1>9, <1>10, <1>11, <1>12,
            <1>13, <1>14 DEF Next, RequestStep, CallbackStep, Deliver, Rest

----------------------------------------------------------------------------
(* The row locks. *)

LEMMA InUseNext == TypeOK /\ InUse /\ [Next]_vars => InUse'
<1> SUFFICES ASSUME TypeOK, InUse, [Next]_vars PROVE InUse'
  OBVIOUS
<1> USE DEF TypeOK, InUse, requests, hooks
<1>1. CASE UNCHANGED <<hook, about>>
  BY <1>1
<1>2. ASSUME NEW d \in Delivery, NEW r \in Request, ReceiveCallback(d, r) PROVE InUse'
  BY <1>2 DEF ReceiveCallback
<1>3. ASSUME NEW d \in Delivery, CommitCompletion(d) \/ CommitReversal(d) \/ CrashCallback(d)
      PROVE  InUse'
  BY <1>3 DEF CommitCompletion, CommitReversal, CrashCallback
<1>4. ASSUME NEW d \in Delivery, LockForReversal(d) PROVE InUse'
  BY <1>4 DEF LockForReversal
<1> QED
  BY <1>1, <1>2, <1>3, <1>4 DEF Next, RequestStep, CallbackStep, Deliver, Rest, vars,
     LookUpKey, RejectInput, DeductBalanceAndRecord, RejectDeduction, SubmitAccepted,
     SubmitFailed, SubmitFailedAtOnce, SubmitLost, CommitRequest, CrashRequest, Decide,
     QueueTimeout, IgnoreCallback

LEMMA HoldsRowNext == TypeOK /\ InUse /\ HoldsRow /\ [Next]_vars => HoldsRow'
<1> SUFFICES ASSUME TypeOK, InUse, HoldsRow, [Next]_vars,
                    NEW s \in Session, NEW a \in Account, WorksOn(s, a)'
             PROVE  lock'[a] = s
  BY DEF HoldsRow
<1> USE DEF TypeOK, WorksOn, requests, hooks
<1>0. WorksOn(s, a) => lock[a] = s
  BY DEF HoldsRow
<1>1. CASE UNCHANGED <<pc, hook, about, lock>>
  BY <1>0, <1>1
<1>2. ASSUME NEW r \in Request,
             \/ LookUpKey(r) \/ RejectInput(r) \/ RejectDeduction(r)
             \/ SubmitAccepted(r) \/ SubmitFailed(r) \/ SubmitFailedAtOnce(r) \/ SubmitLost(r)
      PROVE  lock'[a] = s
  BY <1>0, <1>2 DEF LookUpKey, RejectInput, RejectDeduction, SubmitAccepted, SubmitFailed,
                    SubmitFailedAtOnce, SubmitLost
<1>3. ASSUME NEW r \in Request, DeductBalanceAndRecord(r) PROVE lock'[a] = s
  BY <1>0, <1>3 DEF DeductBalanceAndRecord, LockAccount
<1>4. ASSUME NEW r \in Request, CommitRequest(r) \/ CrashRequest(r) PROVE lock'[a] = s
  <2>1. s # r /\ WorksOn(s, a)
    BY <1>4 DEF CommitRequest, CrashRequest
  <2> QED  BY <1>0, <1>4, <2>1 DEF CommitRequest, CrashRequest, CommitDraft, Unlock
<1>5. ASSUME NEW d \in Delivery, NEW r \in Request, ReceiveCallback(d, r)
      PROVE  lock'[a] = s
  BY <1>0, <1>5 DEF ReceiveCallback, CanDeliver, Outcome
<1>6. ASSUME NEW d \in Delivery, CommitCompletion(d) PROVE lock'[a] = s
  BY <1>0, <1>6 DEF CommitCompletion
<1>7. ASSUME NEW d \in Delivery, LockForReversal(d) PROVE lock'[a] = s
  BY <1>0, <1>7 DEF LockForReversal, LockAccount
<1>8. ASSUME NEW d \in Delivery, CommitReversal(d) \/ CrashCallback(d) PROVE lock'[a] = s
  <2>1. s # d /\ WorksOn(s, a)
    BY <1>8 DEF CommitReversal, CrashCallback
  <2> QED  BY <1>0, <1>8, <2>1 DEF CommitReversal, CrashCallback, CommitDraft, Unlock
<1> QED
  BY <1>1, <1>2, <1>3, <1>4, <1>5, <1>6, <1>7, <1>8 DEF Next, RequestStep, CallbackStep,
     Deliver, Rest, vars, Decide, QueueTimeout, IgnoreCallback

LEMMA LockEarnedNext == TypeOK /\ InUse /\ LockEarned /\ [Next]_vars => LockEarned'
<1> SUFFICES ASSUME TypeOK, InUse, LockEarned, [Next]_vars,
                    NEW s \in Session, NEW a \in Account, lock'[a] = s
             PROVE  WorksOn(s, a)'
  BY DEF LockEarned
<1> USE DEF TypeOK, WorksOn, requests, hooks
<1>0. lock[a] = s => WorksOn(s, a)
  BY DEF LockEarned
<1>1. CASE UNCHANGED <<pc, hook, about, lock>>
  BY <1>0, <1>1
<1>2. ASSUME NEW r \in Request,
             \/ LookUpKey(r) \/ RejectInput(r) \/ RejectDeduction(r)
             \/ SubmitAccepted(r) \/ SubmitFailed(r) \/ SubmitFailedAtOnce(r) \/ SubmitLost(r)
      PROVE  WorksOn(s, a)'
  BY <1>0, <1>2 DEF LookUpKey, RejectInput, RejectDeduction, SubmitAccepted, SubmitFailed,
                    SubmitFailedAtOnce, SubmitLost
<1>3. ASSUME NEW r \in Request, DeductBalanceAndRecord(r) PROVE WorksOn(s, a)'
  BY <1>0, <1>3 DEF DeductBalanceAndRecord, LockAccount
<1>4. ASSUME NEW r \in Request, CommitRequest(r) \/ CrashRequest(r) PROVE WorksOn(s, a)'
  <2>1. s # r /\ lock[a] = s
    BY <1>4 DEF CommitRequest, CrashRequest, CommitDraft, Unlock
  <2> QED  BY <1>0, <1>4, <2>1 DEF CommitRequest, CrashRequest
<1>5. ASSUME NEW d \in Delivery, NEW r \in Request, ReceiveCallback(d, r)
      PROVE  WorksOn(s, a)'
  BY <1>0, <1>5 DEF ReceiveCallback, CanDeliver
<1>6. ASSUME NEW d \in Delivery, CommitCompletion(d) PROVE WorksOn(s, a)'
  BY <1>0, <1>6 DEF CommitCompletion
<1>7. ASSUME NEW d \in Delivery, LockForReversal(d) PROVE WorksOn(s, a)'
  BY <1>0, <1>7 DEF LockForReversal, LockAccount, InUse
<1>8. ASSUME NEW d \in Delivery, CommitReversal(d) \/ CrashCallback(d) PROVE WorksOn(s, a)'
  <2>1. s # d /\ lock[a] = s
    BY <1>8 DEF CommitReversal, CrashCallback, CommitDraft, Unlock
  <2> QED  BY <1>0, <1>8, <2>1 DEF CommitReversal, CrashCallback
<1> QED
  BY <1>1, <1>2, <1>3, <1>4, <1>5, <1>6, <1>7, <1>8 DEF Next, RequestStep, CallbackStep,
     Deliver, Rest, vars, Decide, QueueTimeout, IgnoreCallback

----------------------------------------------------------------------------
(* Balances and the ledger. *)

(* A commit moves the balance by what it adds to the ledger.               *)
LEMMA CommitMoves ==
  ASSUME NEW s \in Session, NEW r \in Request, TypeOK, CommitDraft(s, r),
         Mirrors(s, Payer[r]), NEW a \in Account
  PROVE  /\ balance'[a] - balance[a] = ledger'[a] - ledger[a]
         /\ a # Payer[r] => balance'[a] = balance[a]
         /\ balance[a] >= 0 => balance'[a] >= 0
<1>1. draft[s] \in Draft /\ Payer[r] \in Account
  BY DEF TypeOK
<1>2. draft[s].balance \in Int /\ draft[s].debit \in Nat /\ draft[s].credit \in Nat
  BY <1>1, DraftFields
<1>3. balance[a] \in Int /\ ledger[a] \in Int
  BY DEF TypeOK
<1>4. CASE a = Payer[r]
  <2>1. balance'[a] = draft[s].balance
    BY <1>4 DEF CommitDraft, TypeOK
  <2>2. ledger'[a] = ledger[a] + draft[s].credit - draft[s].debit
    BY <1>4 DEF CommitDraft, TypeOK
  <2> QED  BY <1>2, <1>3, <1>4, <2>1, <2>2 DEF Mirrors
<1>5. CASE a # Payer[r]
  <2>1. balance'[a] = balance[a] /\ ledger'[a] = ledger[a]
    BY <1>5 DEF CommitDraft, TypeOK
  <2> QED  BY <1>3, <1>5, <2>1
<1> QED  BY <1>4, <1>5

(* So the others' drafts still mirror their accounts: they hold other rows. *)
LEMMA CommitSpares ==
  ASSUME NEW s \in Session, NEW r \in Request, TypeOK, HoldsRow, DraftsMirror,
         CommitDraft(s, r), WorksOn(s, Payer[r]),
         NEW q \in Session, q # s, NEW a \in Account, WorksOn(q, a)
  PROVE  Mirrors(q, a)'
<1>1. Payer[r] \in Account
  BY DEF TypeOK
<1>2. a # Payer[r]
  BY <1>1 DEF HoldsRow
<1>3. Mirrors(s, Payer[r]) /\ Mirrors(q, a)
  BY <1>1 DEF DraftsMirror
<1>4. balance'[a] = balance[a]
  BY <1>2, <1>3, CommitMoves
<1>5. draft'[q] = draft[q]
  BY DEF CommitDraft, TypeOK
<1> QED  BY <1>3, <1>4, <1>5 DEF Mirrors

LEMMA MirrorNext ==
  TypeOK /\ InUse /\ HoldsRow /\ DraftsMirror /\ Solvent /\ [Next]_vars => DraftsMirror'
<1> SUFFICES ASSUME TypeOK, InUse, HoldsRow, DraftsMirror, Solvent, [Next]_vars,
                    NEW s \in Session, NEW a \in Account, WorksOn(s, a)'
             PROVE  Mirrors(s, a)'
  BY DEF DraftsMirror
<1> USE DEF rows, requests, hooks
<1>0. WorksOn(s, a) => Mirrors(s, a)
  BY DEF DraftsMirror
<1>1. ASSUME WorksOn(s, a), UNCHANGED <<balance, draft>> PROVE Mirrors(s, a)'
  BY <1>0, <1>1 DEF Mirrors
<1>2. CASE UNCHANGED <<pc, hook, about, balance, draft>>
  BY <1>1, <1>2 DEF WorksOn
<1>3. ASSUME NEW r \in Request, LookUpKey(r) \/ RejectInput(r) \/ RejectDeduction(r)
      PROVE  Mirrors(s, a)'
  BY <1>1, <1>3 DEF LookUpKey, RejectInput, RejectDeduction, WorksOn, TypeOK
<1>4. ASSUME NEW r \in Request, DeductBalanceAndRecord(r) PROVE Mirrors(s, a)'
  <2>1. CASE s = r
    <3>1. PICK amt \in Conversions(r) :
            /\ Covers(balance[Payer[r]], amt)
            /\ draft' = [draft EXCEPT ![r] =
                 [balance |-> balance[Payer[r]] - amt, debit |-> amt, credit |-> 0,
                  converted |-> IF r \in Foreign THEN amt ELSE Unset, status |-> "pending"]]
      BY <1>4 DEF DeductBalanceAndRecord
    <3>2. a = Payer[r]
      BY <2>1 DEF WorksOn
    <3>3. draft'[s].balance = balance[a] - amt /\ draft'[s].debit = amt /\ draft'[s].credit = 0
      BY <2>1, <3>1, <3>2 DEF TypeOK
    <3>4. amt \in Nat /\ balance[a] \in Int /\ balance[a] >= amt
      BY <3>1, <3>2, ConversionType DEF Covers, TypeOK
    <3>5. balance' = balance
      BY <1>4 DEF DeductBalanceAndRecord
    <3> QED  BY <3>3, <3>4, <3>5 DEF Mirrors
  <2>2. CASE s # r
    <3>1. WorksOn(s, a) /\ draft'[s] = draft[s] /\ balance' = balance
      BY <1>4, <2>2 DEF DeductBalanceAndRecord, WorksOn, TypeOK
    <3> QED  BY <1>0, <3>1 DEF Mirrors
  <2> QED  BY <2>1, <2>2
<1>5. ASSUME NEW r \in Request, SubmitAccepted(r) PROVE Mirrors(s, a)'
  <2>1. WorksOn(s, a)
    BY <1>5 DEF SubmitAccepted, WorksOn, TypeOK
  <2>2. draft' = [draft EXCEPT ![r] = [draft[r] EXCEPT !.status = Accepted(r)]]
    BY <1>5 DEF SubmitAccepted
  <2>3. draft[r] \in Draft /\ draft \in [Session -> Draft]
    BY DEF TypeOK
  <2>4. /\ draft'[s].balance = draft[s].balance /\ draft'[s].debit = draft[s].debit
        /\ draft'[s].credit = draft[s].credit
    <3>1. CASE s = r
      <4>1. draft'[s] = [draft[s] EXCEPT !.status = Accepted(r)]
        BY <2>2, <2>3, <3>1
      <4> QED  BY <2>3, <3>1, <4>1 DEF Draft
    <3>2. CASE s # r
      BY <2>2, <2>3, <3>2
    <3> QED  BY <3>1, <3>2
  <2>5. balance' = balance
    BY <1>5 DEF SubmitAccepted
  <2> QED  BY <1>0, <2>1, <2>4, <2>5 DEF Mirrors
<1>6. ASSUME NEW r \in Request, SubmitFailed(r) \/ SubmitFailedAtOnce(r) \/ SubmitLost(r)
      PROVE  Mirrors(s, a)'
  <2>1. WorksOn(s, a) /\ balance' = balance
    BY <1>6 DEF SubmitFailed, SubmitFailedAtOnce, SubmitLost, WorksOn, TypeOK
  <2>2. draft' = [draft EXCEPT ![r] = ReverseDeduction(draft[r], r)]
    BY <1>6 DEF SubmitFailed, SubmitFailedAtOnce, SubmitLost
  <2>3. draft[r] \in Draft /\ draft \in [Session -> Draft] /\ balance[a] \in Int
    BY DEF TypeOK
  <2>4. CASE s = r
    <3> DEFINE rev == ReverseDeduction(draft[r], r)
    <3>1. /\ rev \in Draft /\ rev.balance - draft[r].balance = rev.credit - draft[r].credit
          /\ rev.balance >= draft[r].balance /\ rev.debit = draft[r].debit
      BY <2>3, ReverseType
    <3>2. draft'[s] = rev
      BY <2>2, <2>3, <2>4
    <3>3. /\ rev.balance \in Int /\ rev.credit \in Nat /\ rev.debit \in Nat
          /\ draft[r].balance \in Int /\ draft[r].credit \in Nat /\ draft[r].debit \in Nat
      BY <2>3, <3>1, DraftFields
    <3> HIDE DEF rev
    <3> QED  BY <1>0, <2>1, <2>3, <2>4, <3>1, <3>2, <3>3 DEF Mirrors
  <2>5. CASE s # r
    <3>1. draft'[s] = draft[s]
      BY <2>2, <2>3, <2>5
    <3> QED  BY <1>0, <2>1, <3>1 DEF Mirrors
  <2> QED  BY <2>4, <2>5
<1>7. ASSUME NEW r \in Request, CommitRequest(r) PROVE Mirrors(s, a)'
  <2>1. CommitDraft(r, r) /\ WorksOn(r, Payer[r])
    BY <1>7 DEF CommitRequest, WorksOn
  <2>2. s # r /\ WorksOn(s, a)
    BY <1>7 DEF CommitRequest, WorksOn, TypeOK
  <2> QED  BY <2>1, <2>2, CommitSpares
<1>8. ASSUME NEW r \in Request, CrashRequest(r) PROVE Mirrors(s, a)'
  <2>1. s # r /\ WorksOn(s, a)
    BY <1>8 DEF CrashRequest, WorksOn, TypeOK
  <2>2. draft'[s] = draft[s] /\ balance' = balance
    BY <1>8, <2>1 DEF CrashRequest, TypeOK
  <2> QED  BY <1>0, <2>1, <2>2 DEF Mirrors
<1>9. ASSUME NEW d \in Delivery, NEW r \in Request, ReceiveCallback(d, r)
      PROVE  Mirrors(s, a)'
  <2>1. WorksOn(s, a)
    BY <1>9 DEF ReceiveCallback, CanDeliver, Outcome, WorksOn, TypeOK
  <2> QED  BY <1>1, <1>9, <2>1 DEF ReceiveCallback
<1>10. ASSUME NEW d \in Delivery, CommitCompletion(d) PROVE Mirrors(s, a)'
  <2>1. WorksOn(s, a)
    BY <1>10 DEF CommitCompletion, WorksOn, TypeOK
  <2> QED  BY <1>1, <1>10, <2>1 DEF CommitCompletion
<1>11. ASSUME NEW d \in Delivery, LockForReversal(d) PROVE Mirrors(s, a)'
  <2> DEFINE r == about[d]
             work == [NoDraft EXCEPT !.balance = balance[Payer[r]], !.converted = converted[r]]
             rev == ReverseDeduction(work, r)
  <2>1. r \in Request /\ draft' = [draft EXCEPT ![d] = rev] /\ balance' = balance
    BY <1>11 DEF LockForReversal, InUse
  <2>2. CASE s = d
    <3>1. a = Payer[r] /\ balance[a] \in Int /\ balance[a] >= 0
      BY <1>11, <2>2 DEF LockForReversal, WorksOn, Solvent, TypeOK
    <3>2. balance[a] \in Int /\ converted[r] \in Nat \cup {Unset}
      BY <2>1, <3>1 DEF TypeOK
    <3>3. work \in Draft
      BY <3>1, <3>2, FreshDraft
    <3>4. work.balance = balance[a] /\ work.debit = 0 /\ work.credit = 0
      BY <3>1, <3>2, FreshDraft, ZenonT(60)
    <3> HIDE DEF work
    <3>5. /\ rev \in Draft /\ rev.balance - work.balance = rev.credit - work.credit
          /\ rev.balance >= work.balance /\ rev.debit = work.debit
      BY <2>1, <3>3, ReverseType
    <3>6. rev.balance \in Int /\ rev.credit \in Nat
      BY <3>5, DraftFields
    <3>7. draft'[s] = rev
      BY <2>1, <2>2 DEF TypeOK
    <3> HIDE DEF rev
    <3> QED  BY <2>1, <3>1, <3>4, <3>5, <3>6, <3>7 DEF Mirrors
  <2>3. CASE s # d
    <3>1. WorksOn(s, a) /\ draft'[s] = draft[s]
      BY <1>11, <2>1, <2>3 DEF LockForReversal, WorksOn, TypeOK
    <3> QED  BY <1>0, <2>1, <3>1 DEF Mirrors
  <2> QED  BY <2>2, <2>3
<1>12. ASSUME NEW d \in Delivery, CommitReversal(d) PROVE Mirrors(s, a)'
  <2>1. CommitDraft(d, about[d]) /\ WorksOn(d, Payer[about[d]]) /\ about[d] \in Request
    BY <1>12 DEF CommitReversal, WorksOn, InUse
  <2>2. s # d /\ WorksOn(s, a)
    BY <1>12 DEF CommitReversal, WorksOn, TypeOK
  <2> QED  BY <2>1, <2>2, CommitSpares
<1>13. ASSUME NEW d \in Delivery, CrashCallback(d) PROVE Mirrors(s, a)'
  <2>1. s # d /\ WorksOn(s, a)
    BY <1>13 DEF CrashCallback, WorksOn, TypeOK
  <2>2. draft'[s] = draft[s] /\ balance' = balance
    BY <1>13, <2>1 DEF CrashCallback, TypeOK
  <2> QED  BY <1>0, <2>1, <2>2 DEF Mirrors
<1> QED
  BY <1>2, <1>3, <1>4, <1>5, <1>6, <1>7, <1>8, <1>9, <1>10, <1>11, <1>12, <1>13
  DEF Next, RequestStep, CallbackStep, Deliver, Rest, vars, Decide, QueueTimeout, IgnoreCallback

(* Only a commit touches a balance or the ledger, and both alike, and only *)
(* the session that holds the row makes it, which lets the row go.  A row  *)
(* is never taken from a session that holds it.                            *)
Posts(a) ==
  /\ balance'[a] - balance[a] = ledger'[a] - ledger[a]
  /\ balance'[a] # balance[a] => lock[a] \in Session /\ lock'[a] = NoOne
  /\ balance[a] >= 0 => balance'[a] >= 0

Grants(a) ==
  \/ lock'[a] = lock[a]
  \/ lock[a] = NoOne /\ lock'[a] \in Session
  \/ lock[a] \in Session /\ lock'[a] = NoOne

LEMMA StepGrants == TypeOK /\ [Next]_vars => \A a \in Account : Grants(a)
<1> SUFFICES ASSUME TypeOK, [Next]_vars, NEW a \in Account PROVE Grants(a)
  OBVIOUS
<1> USE DEF Grants, requests, hooks
<1>1. CASE UNCHANGED lock
  BY <1>1
<1>2. ASSUME NEW s \in Session, NEW b \in Account, LockAccount(s, b) PROVE Grants(a)
  BY <1>2 DEF LockAccount, TypeOK
<1>3. ASSUME NEW s \in Session, Unlock(s) PROVE Grants(a)
  BY <1>3 DEF Unlock
<1>4. ASSUME NEW r \in Request, DeductBalanceAndRecord(r) PROVE Grants(a)
  BY <1>2, <1>4 DEF DeductBalanceAndRecord
<1>5. ASSUME NEW d \in Delivery, LockForReversal(d) PROVE Grants(a)
  BY <1>5 DEF LockForReversal, LockAccount, TypeOK
<1>6. ASSUME NEW r \in Request, CommitRequest(r) \/ CrashRequest(r) PROVE Grants(a)
  BY <1>3, <1>6 DEF CommitRequest, CrashRequest, CommitDraft
<1>7. ASSUME NEW d \in Delivery, CommitReversal(d) \/ CrashCallback(d) PROVE Grants(a)
  BY <1>3, <1>7 DEF CommitReversal, CrashCallback, CommitDraft
<1> HIDE DEF Grants
<1> QED
  BY <1>1, <1>4, <1>5, <1>6, <1>7, ZenonT(60) DEF Next, RequestStep, CallbackStep, Deliver, Rest,
     vars, LookUpKey, RejectInput, RejectDeduction, SubmitAccepted, SubmitFailed,
     SubmitFailedAtOnce, SubmitLost, Decide, QueueTimeout, IgnoreCallback, ReceiveCallback,
     CommitCompletion

LEMMA StepPosts ==
  TypeOK /\ InUse /\ HoldsRow /\ DraftsMirror /\ [Next]_vars => \A a \in Account : Posts(a)
<1> SUFFICES ASSUME TypeOK, InUse, HoldsRow, DraftsMirror, [Next]_vars, NEW a \in Account
             PROVE  Posts(a)
  OBVIOUS
<1> USE DEF rows, requests
<1>0. balance[a] \in Int /\ ledger[a] \in Int
  BY DEF TypeOK
<1>1. CASE UNCHANGED <<balance, ledger>>
  BY <1>0, <1>1 DEF Posts
<1>2. ASSUME NEW s \in Session, NEW r \in Request, CommitDraft(s, r), WorksOn(s, Payer[r])
      PROVE  Posts(a)
  <2>1. Payer[r] \in Account
    OBVIOUS
  <2>2. Mirrors(s, Payer[r]) /\ lock[Payer[r]] = s
    BY <1>2, <2>1 DEF DraftsMirror, HoldsRow
  <2>3. /\ balance'[a] - balance[a] = ledger'[a] - ledger[a]
        /\ a # Payer[r] => balance'[a] = balance[a]
        /\ balance[a] >= 0 => balance'[a] >= 0
    BY <1>2, <2>2, CommitMoves
  <2>4. lock'[Payer[r]] = NoOne
    BY <1>2, <2>1, <2>2 DEF CommitDraft, Unlock
  <2> QED  BY <2>2, <2>3, <2>4 DEF Posts
<1>3. ASSUME NEW r \in Request, CommitRequest(r) PROVE Posts(a)
  <2>1. CommitDraft(r, r) /\ WorksOn(r, Payer[r])
    BY <1>3 DEF CommitRequest, WorksOn
  <2> QED  BY <1>2, <2>1
<1>4. ASSUME NEW d \in Delivery, CommitReversal(d) PROVE Posts(a)
  <2>1. about[d] \in Request
    BY <1>4 DEF CommitReversal, InUse
  <2>2. CommitDraft(d, about[d]) /\ WorksOn(d, Payer[about[d]])
    BY <1>4, <2>1 DEF CommitReversal, WorksOn
  <2> QED  BY <1>2, <2>1, <2>2
<1> QED
  BY <1>1, <1>3, <1>4, ZenonT(60) DEF Next, RequestStep, CallbackStep, Deliver, Rest, vars,
     LookUpKey, RejectInput, DeductBalanceAndRecord, RejectDeduction, SubmitAccepted,
     SubmitFailed, SubmitFailedAtOnce, SubmitLost, CrashRequest, Decide, QueueTimeout,
     IgnoreCallback, ReceiveCallback, CommitCompletion, LockForReversal, CrashCallback

LEMMA SolventNext ==
  TypeOK /\ InUse /\ HoldsRow /\ DraftsMirror /\ Solvent /\ [Next]_vars => Solvent'
  BY StepPosts DEF Posts, Solvent

----------------------------------------------------------------------------
(* The theorems. *)

LEMMA IInvInit == Init => IInv
  BY TypeInit DEF Init, IInv, InUse, HoldsRow, LockEarned, DraftsMirror, WorksOn, Solvent

LEMMA IInvNext == IInv /\ [Next]_vars => IInv'
  BY TypeNext, InUseNext, HoldsRowNext, LockEarnedNext, MirrorNext, SolventNext DEF IInv

LEMMA IInvAlways == Spec => []IInv
  BY IInvInit, IInvNext, PTL DEF Spec

(* Every reachable state is well typed; the draft of a dead session is gone *)
(* with it and every status is one the code has a name for.                *)
THEOREM TypeCorrect == Spec => []TypeOK
<1>1. IInv => TypeOK
  BY DEF IInv
<1> QED  BY <1>1, IInvAlways, PTL

(* A step changes a balance only by what it adds to the ledger, and only   *)
(* at the commit of the session that holds the row FOR UPDATE.  This is    *)
(* what other components may rely on.                                      *)
PostsUnderLock == [][\A a \in Account : Posts(a) /\ Grants(a)]_vars

THEOREM EveryStepPosts == Spec => PostsUnderLock
<1>1. IInv /\ [Next]_vars => [\A a \in Account : Posts(a) /\ Grants(a)]_vars
  BY StepPosts, StepGrants DEF IInv
<1> QED  BY <1>1, IInvAlways, PTL DEF Spec, PostsUnderLock

(* The balance is the opening balance plus the ledger, under any number of *)
(* concurrent payouts, callbacks, crashes and gateway faults: the payout   *)
(* side has no counterpart of the lost update of Transfers.                *)
THEOREM LedgerAlwaysBacked == Spec => []LedgerBacked
<1>1. Init => LedgerBacked
  BY DEF Init, LedgerBacked
<1>2. IInv /\ IInv' /\ LedgerBacked /\ [Next]_vars => LedgerBacked'
  <2> SUFFICES ASSUME IInv, IInv', LedgerBacked, [Next]_vars, NEW a \in Account
               PROVE  balance'[a] = Opening[a] + ledger'[a]
    BY DEF LedgerBacked
  <2>1. /\ balance[a] \in Int /\ ledger[a] \in Int /\ balance'[a] \in Int /\ ledger'[a] \in Int
        /\ Opening[a] \in Int
    BY DEF IInv, TypeOK
  <2>2. balance[a] = Opening[a] + ledger[a]
    BY DEF LedgerBacked
  <2>3. balance'[a] - balance[a] = ledger'[a] - ledger[a]
    BY StepPosts DEF IInv, Posts
  <2> QED  BY <2>1, <2>2, <2>3
<1> QED  BY <1>1, <1>2, IInvAlways, PTL DEF Spec

(* A row is locked only by a session between its lock and its commit: a    *)
(* rejection, a failure or a death on the way never leaves it locked.      *)
THEOREM LocksAreEarned == Spec => []LockEarned
<1>1. IInv => LockEarned
  BY DEF IInv
<1> QED  BY <1>1, IInvAlways, PTL

(* No account is ever overdrawn by payouts.                                *)
THEOREM NeverInsolvent == Spec => []Solvent
<1>1. IInv => Solvent
  BY DEF IInv
<1> QED  BY <1>1, IInvAlways, PTL

----------------------------------------------------------------------------
(* What the rows say. *)

(* The committed row of a payout: none before its request is done, and     *)
(* from then on one deduction, of the amount a reversal would return.      *)
Entry(r) ==
  /\ pc[r] # "done" => status[r] = "none"
  /\ status[r] = "none" => debit[r] = 0 /\ credit[r] = 0
  /\ status[r] # "none" =>
       debit[r] \in Conversions(r) /\ debit[r] = AmountToCredit(r, converted[r])

(* What a request has written and not committed: one covered deduction,    *)
(* and its whole reversal or none.                                         *)
Placed(r) ==
  pc[r] \in Holding =>
    /\ draft[r].debit \in Conversions(r)
    /\ draft[r].debit = AmountToCredit(r, draft[r].converted)
    /\ balance[Payer[r]] >= draft[r].debit
    /\ IF draft[r].status = "reversed"
       THEN pc[r] = "commit" /\ draft[r].credit = draft[r].debit
       ELSE draft[r].status # "none" /\ draft[r].credit = 0

(* What a callback has written and not committed: the payout's deduction   *)
(* given back.                                                             *)
Returned(d) ==
  hook[d] = "commit" =>
    /\ draft[d].debit = 0 /\ draft[d].credit = debit[about[d]]
    /\ draft[d].converted = converted[about[d]]
    /\ draft[d].status = "reversed"

(* A callback in the making has found a committed row.                     *)
Handles(d) ==
  IF hook[d] = "idle" THEN about[d] = Unset
  ELSE about[d] \in Request /\ status[about[d]] # "none"

(* One that no other has overlapped finds it awaiting a verdict till the   *)
(* end, and is the only one about it.                                      *)
Alone(d) ==
  hook[d] # "idle" /\ "overlap" \notin mishap[about[d]] =>
    /\ status[about[d]] = Awaited(about[d])
    /\ \A e \in Delivery : about[e] = about[d] => e = d

Entries == \A r \in Request : Entry(r)
Drafts == (\A r \in Request : Placed(r)) /\ (\A d \in Delivery : Returned(d))
Callbacks == \A d \in Delivery : Handles(d)
Alones == \A d \in Delivery : Alone(d)

RInv == IInv /\ Entries /\ Drafts /\ Callbacks /\ Alones /\ RowTellsLedger

----------------------------------------------------------------------------
(* The steps, sorted by what they change. *)

LEMMA Steps ==
  ASSUME [Next]_vars
  PROVE  \/ UNCHANGED vars
         \/ \E r \in Request :
              \/ LookUpKey(r) \/ RejectInput(r) \/ DeductBalanceAndRecord(r)
              \/ RejectDeduction(r) \/ SubmitAccepted(r) \/ SubmitFailed(r)
              \/ SubmitFailedAtOnce(r) \/ SubmitLost(r) \/ CommitRequest(r)
              \/ CrashRequest(r) \/ Decide(r) \/ QueueTimeout(r)
         \/ \E r \in Request, d \in Delivery : IgnoreCallback(d, r) \/ ReceiveCallback(d, r)
         \/ \E d \in Delivery :
              \/ CommitCompletion(d) \/ LockForReversal(d) \/ CommitReversal(d)
              \/ CrashCallback(d)
  BY DEF Next, RequestStep, CallbackStep, Deliver, Rest

(* Three steps write rows.                                                 *)
LEMMA RowsChange ==
  ASSUME [Next]_vars
  PROVE  \/ UNCHANGED rows
         \/ \E r \in Request : CommitRequest(r)
         \/ \E d \in Delivery : CommitCompletion(d) \/ CommitReversal(d)
  BY Steps, ZenonT(60) DEF vars, rows, LookUpKey, RejectInput, DeductBalanceAndRecord, RejectDeduction,
     SubmitAccepted, SubmitFailed, SubmitFailedAtOnce, SubmitLost, CrashRequest, Decide,
     QueueTimeout, IgnoreCallback, ReceiveCallback, LockForReversal, CrashCallback

(* A request's own steps move it, and nothing else does.                   *)
Submits(r) ==
  SubmitAccepted(r) \/ SubmitFailed(r) \/ SubmitFailedAtOnce(r) \/ SubmitLost(r)

LEMMA RequestMoves ==
  ASSUME TypeOK, [Next]_vars, NEW r \in Request
  PROVE  \/ pc'[r] = pc[r] /\ draft'[r] = draft[r]
         \/ LookUpKey(r) \/ RejectInput(r) \/ DeductBalanceAndRecord(r)
         \/ RejectDeduction(r) \/ Submits(r) \/ CommitRequest(r) \/ CrashRequest(r)
<1> USE DEF TypeOK, requests, hooks
<1>1. ASSUME NEW q \in Request, q # r,
             \/ LookUpKey(q) \/ RejectInput(q) \/ DeductBalanceAndRecord(q)
             \/ RejectDeduction(q) \/ SubmitAccepted(q) \/ SubmitFailed(q)
             \/ SubmitFailedAtOnce(q) \/ SubmitLost(q) \/ CommitRequest(q) \/ CrashRequest(q)
      PROVE  pc'[r] = pc[r] /\ draft'[r] = draft[r]
  BY <1>1 DEF LookUpKey, RejectInput, DeductBalanceAndRecord, RejectDeduction,
     SubmitAccepted, SubmitFailed, SubmitFailedAtOnce, SubmitLost, CommitRequest, CrashRequest,
     CommitDraft
<1>2. ASSUME NEW q \in Request, Decide(q) \/ QueueTimeout(q)
      PROVE  pc'[r] = pc[r] /\ draft'[r] = draft[r]
  BY <1>2 DEF Decide, QueueTimeout
<1>3. ASSUME NEW q \in Request, NEW d \in Delivery, IgnoreCallback(d, q) \/ ReceiveCallback(d, q)
      PROVE  pc'[r] = pc[r] /\ draft'[r] = draft[r]
  BY <1>3 DEF IgnoreCallback, ReceiveCallback
<1>4. ASSUME NEW d \in Delivery,
             CommitCompletion(d) \/ LockForReversal(d) \/ CommitReversal(d) \/ CrashCallback(d)
      PROVE  pc'[r] = pc[r] /\ draft'[r] = draft[r]
  <2>1. d # r
    OBVIOUS
  <2> QED  BY <1>4, <2>1 DEF CommitCompletion, LockForReversal, CommitReversal, CrashCallback,
           CommitDraft
<1> QED  BY <1>1, <1>2, <1>3, <1>4, Steps DEF vars, Submits

(* History only grows.                                                     *)
LEMMA MishapsStay ==
  TypeOK /\ [Next]_vars => \A r \in Request : mishap[r] \subseteq mishap'[r]
<1> SUFFICES ASSUME TypeOK, [Next]_vars PROVE \A r \in Request : mishap[r] \subseteq mishap'[r]
  OBVIOUS
<1>1. CASE UNCHANGED mishap
  BY <1>1
<1>2. ASSUME NEW q, NEW fault, Hit(q, fault)
      PROVE  \A r \in Request : mishap[r] \subseteq mishap'[r]
  BY <1>2 DEF Hit, TypeOK
<1> QED
  BY <1>1, <1>2, Steps DEF vars, LookUpKey, RejectInput, DeductBalanceAndRecord,
     RejectDeduction, SubmitAccepted, SubmitFailed, SubmitFailedAtOnce, SubmitLost,
     CommitRequest, CrashRequest, Decide, QueueTimeout, IgnoreCallback, ReceiveCallback,
     CommitCompletion, LockForReversal, CommitReversal, CrashCallback

LEMMA ConversionPositive ==
  ASSUME NEW r \in Request PROVE Conversions(r) \subseteq Nat \ {0}
<1>1. Amount[r] \in Nat \ {0} /\ \A rate \in Rates : rate \in Nat \ {0}
  OBVIOUS
<1>2. \A i, j \in Nat \ {0} : i * j \in Nat \ {0}
  OBVIOUS
<1>3. \A rate \in Rates : Amount[r] * rate \in Nat \ {0}
  BY <1>1, <1>2
<1> QED  BY <1>1, <1>3 DEF Conversions

----------------------------------------------------------------------------
(* Who writes what. *)

(* The row of a payout changes when its request commits and when a         *)
(* callback about it does.                                                 *)
LEMMA RowStays ==
  ASSUME TypeOK, [Next]_vars, NEW r \in Request
  PROVE  \/ /\ status'[r] = status[r] /\ converted'[r] = converted[r]
            /\ debit'[r] = debit[r] /\ credit'[r] = credit[r]
         \/ CommitRequest(r)
         \/ \E d \in Delivery : about[d] = r /\ (CommitCompletion(d) \/ CommitReversal(d))
<1>1. CASE UNCHANGED rows
  BY <1>1 DEF rows
<1>2. ASSUME NEW q \in Request, q # r, CommitRequest(q)
      PROVE  /\ status'[r] = status[r] /\ converted'[r] = converted[r]
             /\ debit'[r] = debit[r] /\ credit'[r] = credit[r]
  BY <1>2 DEF CommitRequest, CommitDraft, TypeOK
<1>3. ASSUME NEW d \in Delivery, about[d] # r, CommitCompletion(d) \/ CommitReversal(d)
      PROVE  /\ status'[r] = status[r] /\ converted'[r] = converted[r]
             /\ debit'[r] = debit[r] /\ credit'[r] = credit[r]
  BY <1>3 DEF CommitCompletion, CommitReversal, CommitDraft, TypeOK
<1> QED  BY <1>1, <1>2, <1>3, RowsChange

(* A request that holds its account's row is the only one to change the    *)
(* balance.                                                                *)
LEMMA BalanceStays ==
  ASSUME IInv, [Next]_vars, NEW r \in Request, pc[r] \in Holding
  PROVE  balance'[Payer[r]] = balance[Payer[r]] \/ CommitRequest(r)
<1> DEFINE a == Payer[r]
<1>0. TypeOK /\ InUse /\ HoldsRow /\ DraftsMirror /\ a \in Account
  BY DEF IInv
<1>1. lock[a] = r
  BY <1>0 DEF HoldsRow, WorksOn
<1>2. ASSUME NEW s \in Session, NEW q \in Request, s # r, WorksOn(s, Payer[q]),
             CommitDraft(s, q)
      PROVE  balance'[a] = balance[a]
  <2>1. lock[Payer[q]] = s /\ Mirrors(s, Payer[q])
    BY <1>0, <1>2 DEF HoldsRow, DraftsMirror
  <2>2. a # Payer[q]
    BY <1>1, <1>2, <2>1
  <2> QED  BY <1>0, <1>2, <2>1, <2>2, CommitMoves
<1>3. ASSUME NEW q \in Request, q # r, CommitRequest(q) PROVE balance'[a] = balance[a]
  <2>1. q \in Session /\ CommitDraft(q, q) /\ WorksOn(q, Payer[q])
    BY <1>3 DEF CommitRequest, WorksOn
  <2> QED  BY <1>2, <1>3, <2>1
<1>4. ASSUME NEW d \in Delivery, CommitCompletion(d) PROVE balance'[a] = balance[a]
  BY <1>4 DEF CommitCompletion
<1>5. ASSUME NEW d \in Delivery, CommitReversal(d) PROVE balance'[a] = balance[a]
  <2>1. d \in Session /\ d # r /\ about[d] \in Request
    BY <1>0, <1>5 DEF CommitReversal, InUse
  <2>2. CommitDraft(d, about[d]) /\ WorksOn(d, Payer[about[d]])
    BY <1>5, <2>1 DEF CommitReversal, WorksOn
  <2> QED  BY <1>2, <2>1, <2>2
<1> QED  BY <1>3, <1>4, <1>5, RowsChange DEF rows

(* A callback's own steps move it.                                         *)
LEMMA CallbackMoves ==
  ASSUME TypeOK, [Next]_vars, NEW d \in Delivery
  PROVE  \/ hook'[d] = hook[d] /\ about'[d] = about[d] /\ draft'[d] = draft[d]
         \/ \E r \in Request : ReceiveCallback(d, r)
         \/ CommitCompletion(d) \/ LockForReversal(d) \/ CommitReversal(d)
         \/ CrashCallback(d)
<1> USE DEF TypeOK, requests, hooks
<1>1. ASSUME NEW q \in Request,
             \/ LookUpKey(q) \/ RejectInput(q) \/ DeductBalanceAndRecord(q)
             \/ RejectDeduction(q) \/ SubmitAccepted(q) \/ SubmitFailed(q)
             \/ SubmitFailedAtOnce(q) \/ SubmitLost(q) \/ CommitRequest(q) \/ CrashRequest(q)
             \/ Decide(q) \/ QueueTimeout(q)
      PROVE  hook'[d] = hook[d] /\ about'[d] = about[d] /\ draft'[d] = draft[d]
  <2>1. d # q
    OBVIOUS
  <2> QED  BY <1>1, <2>1 DEF LookUpKey, RejectInput, DeductBalanceAndRecord,
           RejectDeduction, SubmitAccepted, SubmitFailed, SubmitFailedAtOnce, SubmitLost,
           CommitRequest, CrashRequest, CommitDraft, Decide, QueueTimeout
<1>2. ASSUME NEW q \in Request, NEW e \in Delivery,
             IgnoreCallback(e, q) \/ (e # d /\ ReceiveCallback(e, q))
      PROVE  hook'[d] = hook[d] /\ about'[d] = about[d] /\ draft'[d] = draft[d]
  BY <1>2 DEF IgnoreCallback, ReceiveCallback
<1>3. ASSUME NEW e \in Delivery, e # d,
             CommitCompletion(e) \/ LockForReversal(e) \/ CommitReversal(e) \/ CrashCallback(e)
      PROVE  hook'[d] = hook[d] /\ about'[d] = about[d] /\ draft'[d] = draft[d]
  BY <1>3 DEF CommitCompletion, LockForReversal, CommitReversal, CrashCallback, CommitDraft
<1> QED  BY <1>1, <1>2, <1>3, Steps DEF vars

----------------------------------------------------------------------------
(* The rows and the drafts. *)

LEMMA EntryNext == RInv /\ [Next]_vars => Entries'
<1> SUFFICES ASSUME RInv, [Next]_vars, NEW r \in Request PROVE Entry(r)'
  BY DEF Entries
<1>0. TypeOK /\ InUse /\ TypeOK'
  BY IInvNext DEF RInv, IInv
<1>1. Entry(r) /\ Placed(r)
  BY DEF RInv, Entries, Drafts
<1>2. CASE CommitRequest(r)
  <2>1. /\ status'[r] = draft[r].status /\ converted'[r] = draft[r].converted
        /\ debit'[r] = debit[r] + draft[r].debit /\ pc[r] = "commit" /\ pc'[r] = "done"
    BY <1>0, <1>2 DEF CommitRequest, CommitDraft, TypeOK
  <2>2. debit[r] = 0 /\ draft[r].debit \in Nat
    BY <1>1, <2>1, ConversionType DEF Entry, Placed
  <2>3. debit'[r] = draft[r].debit /\ status'[r] # "none"
    BY <1>1, <2>1, <2>2 DEF Placed
  <2> QED  BY <1>1, <2>1, <2>3 DEF Entry, Placed, AmountToCredit
<1>3. ASSUME ~ CommitRequest(r) PROVE pc'[r] = "done" <=> pc[r] = "done"
  BY <1>0, <1>3, RequestMoves, SMTT(30) DEF LookUpKey, RejectInput, DeductBalanceAndRecord,
     RejectDeduction, Submits, SubmitAccepted, SubmitFailed, SubmitFailedAtOnce, SubmitLost,
     CrashRequest, TypeOK
<1>4. CASE /\ ~ CommitRequest(r)
           /\ status'[r] = status[r] /\ converted'[r] = converted[r]
           /\ debit'[r] = debit[r] /\ credit'[r] = credit[r]
  BY <1>1, <1>3, <1>4 DEF Entry, AmountToCredit
<1>5. ASSUME ~ CommitRequest(r), NEW d \in Delivery, about[d] = r,
             CommitCompletion(d) \/ CommitReversal(d)
      PROVE  Entry(r)'
  <2>1. hook[d] # "idle" /\ status[r] # "none"
    BY <1>5 DEF RInv, Callbacks, Handles, CommitCompletion, CommitReversal
  <2>2. pc[r] = "done" /\ pc'[r] = "done"
    BY <1>1, <1>3, <1>5, <2>1 DEF Entry
  <2>3. CASE CommitCompletion(d)
    BY <1>0, <1>1, <1>5, <2>1, <2>2, <2>3 DEF CommitCompletion, Entry, AmountToCredit, TypeOK
  <2>4. CASE CommitReversal(d)
    <3>1. /\ hook[d] = "commit" /\ status'[r] = draft[d].status
          /\ converted'[r] = draft[d].converted /\ debit'[r] = debit[r] + draft[d].debit
      BY <1>0, <1>5, <2>4 DEF CommitReversal, CommitDraft, TypeOK
    <3>2. /\ draft[d].debit = 0 /\ draft[d].converted = converted[r]
          /\ draft[d].status = "reversed"
      BY <1>5, <3>1 DEF RInv, Drafts, Returned
    <3>3. debit'[r] = debit[r]
      BY <1>0, <3>1, <3>2 DEF TypeOK
    <3> QED  BY <1>1, <2>1, <2>2, <3>1, <3>2, <3>3 DEF Entry, AmountToCredit
  <2> QED  BY <1>5, <2>3, <2>4
<1> QED  BY <1>0, <1>2, <1>4, <1>5, RowStays

(* A reversal gives back what was deducted.                                *)
LEMMA ReverseGives ==
  ASSUME NEW r \in Request, NEW work \in Draft
  PROVE  LET rev == ReverseDeduction(work, r) IN
         /\ rev.debit = work.debit /\ rev.converted = work.converted
         /\ rev.credit = work.credit + AmountToCredit(r, work.converted)
         /\ rev.status = "reversed"
<1>1. work = [balance |-> work.balance, debit |-> work.debit, credit |-> work.credit,
              converted |-> work.converted, status |-> work.status]
  BY DraftFields
<1> QED  BY <1>1 DEF ReverseDeduction

LEMMA PlacedNext == RInv /\ [Next]_vars => \A r \in Request : Placed(r)'
<1> SUFFICES ASSUME RInv, [Next]_vars, NEW r \in Request, pc'[r] \in Holding
             PROVE  Placed(r)'
  BY DEF Placed
<1>0. TypeOK /\ TypeOK' /\ Placed(r) /\ draft[r] \in Draft /\ Payer[r] \in Account
  BY IInvNext DEF RInv, IInv, Drafts, TypeOK
<1>1. CASE DeductBalanceAndRecord(r)
  <2>1. PICK amt \in Conversions(r) :
          /\ Covers(balance[Payer[r]], amt)
          /\ draft' = [draft EXCEPT ![r] =
               [balance |-> balance[Payer[r]] - amt, debit |-> amt, credit |-> 0,
                converted |-> IF r \in Foreign THEN amt ELSE Unset, status |-> "pending"]]
    BY <1>1 DEF DeductBalanceAndRecord
  <2>2. /\ draft'[r].debit = amt /\ draft'[r].credit = 0 /\ draft'[r].status = "pending"
        /\ draft'[r].converted = (IF r \in Foreign THEN amt ELSE Unset)
    BY <1>0, <2>1 DEF TypeOK
  <2>3. amt \in Nat /\ amt = AmountToCredit(r, IF r \in Foreign THEN amt ELSE Unset)
    BY <2>1, ConversionType DEF AmountToCredit, Conversions
  <2>4. balance' = balance
    BY <1>1 DEF DeductBalanceAndRecord, rows
  <2> QED  BY <2>1, <2>2, <2>3, <2>4 DEF Placed, Covers, AmountToCredit
<1>2. CASE ~ DeductBalanceAndRecord(r)
  <2>1. \/ pc'[r] = pc[r] /\ draft'[r] = draft[r]
        \/ Submits(r)
    BY <1>0, <1>2, RequestMoves, SMTT(30) DEF LookUpKey, RejectInput, RejectDeduction, CommitRequest,
       CrashRequest, TypeOK
  <2>2. pc[r] \in Holding
    BY <2>1 DEF Submits, SubmitAccepted, SubmitFailed, SubmitFailedAtOnce, SubmitLost
  <2>3. balance'[Payer[r]] = balance[Payer[r]]
    BY <1>0, <2>2, BalanceStays DEF RInv, CommitRequest, TypeOK
  <2>4. CASE pc'[r] = pc[r] /\ draft'[r] = draft[r]
    BY <1>0, <2>3, <2>4 DEF Placed, AmountToCredit
  <2>5. CASE SubmitAccepted(r)
    <3>1. pc[r] = "submit" /\ draft[r].status # "reversed" /\ draft[r].credit = 0
      BY <1>0, <2>5 DEF Placed, SubmitAccepted
    <3>2. draft' = [draft EXCEPT ![r] = [draft[r] EXCEPT !.status = Accepted(r)]]
      BY <2>5 DEF SubmitAccepted
    <3>3. draft'[r] = [draft[r] EXCEPT !.status = Accepted(r)]
      BY <1>0, <3>2 DEF TypeOK
    <3>4. /\ draft'[r].debit = draft[r].debit /\ draft'[r].credit = draft[r].credit
          /\ draft'[r].converted = draft[r].converted /\ draft'[r].status = Accepted(r)
      BY <1>0, <3>3 DEF Draft
    <3> QED  BY <1>0, <2>3, <3>1, <3>4 DEF Placed, AmountToCredit, Accepted
  <2>6. CASE SubmitFailed(r) \/ SubmitFailedAtOnce(r) \/ SubmitLost(r)
    <3>1. pc[r] = "submit" /\ draft[r].credit = 0 /\ pc'[r] = "commit"
      BY <1>0, <2>6 DEF Placed, SubmitFailed, SubmitFailedAtOnce, SubmitLost, TypeOK
    <3>2. draft'[r] = ReverseDeduction(draft[r], r)
      BY <1>0, <2>6 DEF SubmitFailed, SubmitFailedAtOnce, SubmitLost, TypeOK
    <3>3. /\ draft'[r].debit = draft[r].debit /\ draft'[r].converted = draft[r].converted
          /\ draft'[r].credit = draft[r].credit + AmountToCredit(r, draft[r].converted)
          /\ draft'[r].status = "reversed"
      BY <1>0, <3>2, ReverseGives
    <3>4. draft[r].debit \in Nat
      BY <1>0, DraftFields
    <3> QED  BY <1>0, <2>2, <2>3, <3>1, <3>3, <3>4 DEF Placed, AmountToCredit
  <2> QED  BY <2>1, <2>4, <2>5, <2>6 DEF Submits
<1> QED  BY <1>1, <1>2

(* Once committed, a row keeps its deduction.                              *)
LEMMA Settled ==
  ASSUME RInv, [Next]_vars, NEW r \in Request, status[r] # "none"
  PROVE  /\ pc[r] = "done" /\ ~ CommitRequest(r)
         /\ status'[r] # "none" /\ converted'[r] = converted[r] /\ debit'[r] = debit[r]
<1>0. TypeOK /\ Entry(r)
  BY DEF RInv, IInv, Entries
<1>1. pc[r] = "done" /\ ~ CommitRequest(r)
  BY <1>0 DEF Entry, CommitRequest
<1>2. ASSUME NEW d \in Delivery, about[d] = r, CommitCompletion(d)
      PROVE  status'[r] # "none" /\ converted'[r] = converted[r] /\ debit'[r] = debit[r]
  BY <1>0, <1>2 DEF CommitCompletion, TypeOK
<1>3. ASSUME NEW d \in Delivery, about[d] = r, CommitReversal(d)
      PROVE  status'[r] # "none" /\ converted'[r] = converted[r] /\ debit'[r] = debit[r]
  <2>1. /\ hook[d] = "commit" /\ status'[r] = draft[d].status
        /\ converted'[r] = draft[d].converted /\ debit'[r] = debit[r] + draft[d].debit
    BY <1>0, <1>3 DEF CommitReversal, CommitDraft, TypeOK
  <2>2. /\ draft[d].debit = 0 /\ draft[d].converted = converted[r]
        /\ draft[d].status = "reversed"
    BY <1>3, <2>1 DEF RInv, Drafts, Returned
  <2> QED  BY <1>0, <2>1, <2>2 DEF TypeOK
<1> QED  BY <1>0, <1>1, <1>2, <1>3, RowStays

LEMMA ReturnedNext == RInv /\ [Next]_vars => \A d \in Delivery : Returned(d)'
<1> SUFFICES ASSUME RInv, [Next]_vars, NEW d \in Delivery, hook'[d] = "commit"
             PROVE  Returned(d)'
  BY DEF Returned
<1>0. TypeOK /\ InUse /\ Returned(d) /\ Handles(d)
  BY DEF RInv, IInv, Drafts, Callbacks
<1>1. CASE LockForReversal(d)
  <2> DEFINE r == about[d]
             work == [NoDraft EXCEPT !.balance = balance[Payer[r]], !.converted = converted[r]]
  <2>1. r \in Request /\ status[r] # "none"
    BY <1>0, <1>1 DEF LockForReversal, Handles
  <2>2. work \in Draft /\ work.debit = 0 /\ work.credit = 0 /\ work.converted = converted[r]
    <3>1. balance[Payer[r]] \in Int /\ converted[r] \in Nat \cup {Unset}
      BY <1>0, <2>1 DEF TypeOK
    <3> QED  BY <3>1, FreshDraft DEF NoDraft
  <2>3. draft'[d] = ReverseDeduction(work, r) /\ about'[d] = r /\ UNCHANGED rows
    BY <1>0, <1>1 DEF LockForReversal, TypeOK
  <2> HIDE DEF work
  <2>4. /\ draft'[d].debit = 0 /\ draft'[d].converted = converted[r]
        /\ draft'[d].credit = 0 + AmountToCredit(r, converted[r])
        /\ draft'[d].status = "reversed"
    BY <2>1, <2>2, <2>3, ReverseGives
  <2>5. debit[r] = AmountToCredit(r, converted[r]) /\ debit[r] \in Nat
    BY <1>0, <2>1 DEF RInv, Entries, Entry, TypeOK
  <2> QED  BY <2>3, <2>4, <2>5 DEF Returned, rows
<1>2. CASE hook'[d] = hook[d] /\ about'[d] = about[d] /\ draft'[d] = draft[d]
  <2>1. about[d] \in Request /\ status[about[d]] # "none"
    BY <1>0, <1>2 DEF Handles
  <2> QED  BY <1>0, <1>2, <2>1, Settled DEF Returned
<1>3. ASSUME \/ \E r \in Request : ReceiveCallback(d, r)
             \/ CommitCompletion(d) \/ CommitReversal(d) \/ CrashCallback(d)
      PROVE  hook'[d] # "commit"
  BY <1>0, <1>3 DEF ReceiveCallback, CommitCompletion, CommitReversal, CrashCallback,
     Outcome, TypeOK
<1> QED  BY <1>0, <1>1, <1>2, <1>3, CallbackMoves

LEMMA HandlesNext == RInv /\ [Next]_vars => Callbacks'
<1> SUFFICES ASSUME RInv, [Next]_vars, NEW d \in Delivery PROVE Handles(d)'
  BY DEF Callbacks
<1>0. TypeOK /\ InUse /\ Handles(d)
  BY DEF RInv, IInv, Callbacks
<1>1. CASE hook'[d] = hook[d] /\ about'[d] = about[d] /\ draft'[d] = draft[d]
  BY <1>0, <1>1, Settled DEF Handles
<1>2. ASSUME NEW r \in Request, ReceiveCallback(d, r) PROVE Handles(d)'
  <2>1. status[r] # "none" /\ UNCHANGED status
    BY <1>2 DEF ReceiveCallback, Ignored, Awaited, rows
  <2>2. about'[d] = r /\ hook'[d] # "idle"
    BY <1>0, <1>2 DEF ReceiveCallback, Outcome, TypeOK
  <2> QED  BY <2>1, <2>2 DEF Handles
<1>3. CASE CommitCompletion(d) \/ CommitReversal(d) \/ CrashCallback(d)
  BY <1>0, <1>3 DEF CommitCompletion, CommitReversal, CrashCallback, Handles, TypeOK
<1>4. CASE LockForReversal(d)
  BY <1>0, <1>4 DEF LockForReversal, Handles, rows, TypeOK
<1> QED  BY <1>0, <1>1, <1>2, <1>3, <1>4, CallbackMoves

LEMMA AlonesNext == RInv /\ [Next]_vars => Alones'
<1> SUFFICES ASSUME RInv, [Next]_vars,
                    NEW d \in Delivery, hook'[d] # "idle", "overlap" \notin mishap'[about'[d]]
             PROVE  /\ status'[about'[d]] = Awaited(about'[d])
                    /\ \A e \in Delivery : about'[e] = about'[d] => e = d
  BY DEF Alones, Alone, Awaited
<1>0. TypeOK /\ InUse /\ InUse' /\ Callbacks
  BY InUseNext DEF RInv, IInv
<1> DEFINE Kept == hook[d] # "idle" /\ about'[d] = about[d]
<1>1. ASSUME Kept
      PROVE  /\ about[d] \in Request /\ status[about[d]] = Awaited(about[d])
             /\ status[about[d]] # "none"
             /\ \A e \in Delivery : about[e] = about[d] => e = d
  <2>1. about[d] \in Request /\ "overlap" \notin mishap[about[d]]
    BY <1>0, <1>1, MishapsStay DEF InUse
  <2> QED  BY <1>1, <2>1 DEF RInv, Alones, Alone, Awaited
<1>2. ASSUME Kept, \A e \in Delivery : about'[e] \in {about[e], Unset},
             status'[about[d]] = status[about[d]]
      PROVE  /\ status'[about'[d]] = Awaited(about'[d])
             /\ \A e \in Delivery : about'[e] = about'[d] => e = d
  BY <1>1, <1>2
<1>3. CASE UNCHANGED <<status, hook, about>>
  BY <1>2, <1>3
<1>4. ASSUME NEW r \in Request, CommitRequest(r)
      PROVE  /\ status'[about'[d]] = Awaited(about'[d])
             /\ \A e \in Delivery : about'[e] = about'[d] => e = d
  <2>1. Kept /\ UNCHANGED about
    BY <1>4 DEF CommitRequest, hooks
  <2>2. about[d] # r
    BY <1>1, <1>4, <2>1, Settled
  <2>3. status'[about[d]] = status[about[d]]
    BY <1>0, <1>1, <1>4, <2>1, <2>2 DEF CommitRequest, CommitDraft, TypeOK
  <2> QED  BY <1>2, <2>1, <2>3
<1>5. ASSUME NEW e \in Delivery, NEW r \in Request, ReceiveCallback(e, r)
      PROVE  /\ status'[about'[d]] = Awaited(about'[d])
             /\ \A f \in Delivery : about'[f] = about'[d] => f = d
  <2>0. /\ status[r] = Awaited(r) /\ UNCHANGED status /\ hook[e] = "idle"
        /\ about' = [about EXCEPT ![e] = r] /\ hook'[e] # "idle"
        /\ \A f \in Delivery \ {e} : hook'[f] = hook[f]
    BY <1>0, <1>5 DEF ReceiveCallback, CanDeliver, Ignored, Outcome, rows, TypeOK
  <2>1. Handled(r) = {} \/ "overlap" \in mishap'[r]
    BY <1>0, <1>5 DEF ReceiveCallback, Hit, TypeOK
  <2>2. CASE d = e
    <3>1. about'[d] = r /\ Handled(r) = {}
      BY <1>0, <2>0, <2>1, <2>2 DEF TypeOK
    <3> QED  BY <1>0, <2>0, <2>2, <3>1 DEF Handled, TypeOK
  <2>3. CASE d # e
    <3>1. Kept
      BY <1>0, <2>0, <2>3 DEF TypeOK
    <3>2. about[d] # r
      BY <2>1, <3>1 DEF Handled
    <3> QED  BY <1>0, <1>1, <2>0, <2>3, <3>1, <3>2 DEF TypeOK
  <2> QED  BY <2>2, <2>3
<1>6. ASSUME NEW e \in Delivery, LockForReversal(e) PROVE Kept /\ UNCHANGED <<status, about>>
  BY <1>0, <1>6 DEF LockForReversal, rows, TypeOK
<1>7. ASSUME NEW e \in Delivery, CommitCompletion(e) \/ CommitReversal(e) \/ CrashCallback(e)
      PROVE  /\ status'[about'[d]] = Awaited(about'[d])
             /\ \A f \in Delivery : about'[f] = about'[d] => f = d
  <2>1. /\ e # d /\ Kept /\ hook[e] # "idle"
        /\ \A f \in Delivery : about'[f] \in {about[f], Unset}
    BY <1>0, <1>7 DEF CommitCompletion, CommitReversal, CrashCallback, TypeOK
  <2>2. about[d] # about[e]
    BY <1>1, <2>1
  <2>3. status'[about[d]] = status[about[d]]
    BY <1>0, <1>1, <1>7, <2>1, <2>2 DEF CommitCompletion, CommitReversal, CommitDraft,
       CrashCallback, rows, TypeOK
  <2> QED  BY <1>2, <2>1, <2>3
<1>8. ASSUME UNCHANGED <<status, about>>, Kept
      PROVE  /\ status'[about'[d]] = Awaited(about'[d])
             /\ \A f \in Delivery : about'[f] = about'[d] => f = d
  BY <1>1, <1>8
<1>9. ASSUME NEW r \in Request,
             \/ LookUpKey(r) \/ RejectInput(r) \/ DeductBalanceAndRecord(r)
             \/ RejectDeduction(r) \/ SubmitAccepted(r) \/ SubmitFailed(r)
             \/ SubmitFailedAtOnce(r) \/ SubmitLost(r) \/ CrashRequest(r) \/ Decide(r)
             \/ QueueTimeout(r)
      PROVE  UNCHANGED <<status, hook, about>>
  BY <1>9 DEF rows, hooks, LookUpKey, RejectInput, DeductBalanceAndRecord, RejectDeduction,
     SubmitAccepted, SubmitFailed, SubmitFailedAtOnce, SubmitLost, CrashRequest, Decide,
     QueueTimeout
<1> HIDE DEF Kept
<1> QED
  BY <1>3, <1>4, <1>5, <1>6, <1>7, <1>8, <1>9, Steps DEF vars, rows, IgnoreCallback

----------------------------------------------------------------------------
(* The ledger. *)

LEMMA RowTellsNext == RInv /\ [Next]_vars => RowTellsLedger'
<1> DEFINE Tells(st, out, in) ==
      CASE st = "none" -> out = 0 /\ in = 0
        [] st = "reversed" -> out > 0 /\ in = out
        [] OTHER -> out > 0 /\ in = 0
<1> SUFFICES ASSUME RInv, [Next]_vars, NEW r \in Request, "overlap" \notin mishap'[r]
             PROVE  Tells(status'[r], debit'[r], credit'[r])
  BY DEF RowTellsLedger
<1>0. TypeOK /\ InUse /\ Entry(r) /\ Placed(r)
  BY DEF RInv, IInv, Entries, Drafts
<1>1. "overlap" \notin mishap[r] /\ Tells(status[r], debit[r], credit[r])
  BY <1>0, MishapsStay DEF RInv, RowTellsLedger
<1>2. CASE CommitRequest(r)
  <2>1. /\ status'[r] = draft[r].status /\ pc[r] = "commit"
        /\ debit'[r] = debit[r] + draft[r].debit /\ credit'[r] = credit[r] + draft[r].credit
    BY <1>0, <1>2 DEF CommitRequest, CommitDraft, TypeOK
  <2>2. debit[r] = 0 /\ credit[r] = 0
    BY <1>0, <2>1 DEF Entry
  <2>3. draft[r].debit \in Nat \ {0} /\ draft[r].credit \in Nat
    BY <1>0, <2>1, ConversionPositive DEF Placed
  <2>4. debit'[r] = draft[r].debit /\ credit'[r] = draft[r].credit
    BY <2>1, <2>2, <2>3
  <2>5. CASE draft[r].status = "reversed"
    BY <1>0, <2>1, <2>3, <2>4, <2>5 DEF Placed
  <2>6. CASE draft[r].status # "reversed"
    BY <1>0, <2>1, <2>3, <2>4, <2>6 DEF Placed
  <2> QED  BY <2>5, <2>6
<1>3. ASSUME NEW d \in Delivery, about[d] = r, CommitCompletion(d)
      PROVE  Tells(status'[r], debit'[r], credit'[r])
  <2>1. status[r] = Awaited(r)
    BY <1>1, <1>3 DEF CommitCompletion, RInv, Alones, Alone
  <2> QED  BY <1>0, <1>1, <1>3, <2>1 DEF CommitCompletion, Awaited, TypeOK
<1>4. ASSUME NEW d \in Delivery, about[d] = r, CommitReversal(d)
      PROVE  Tells(status'[r], debit'[r], credit'[r])
  <2>1. status[r] = Awaited(r) /\ hook[d] = "commit"
    BY <1>1, <1>4 DEF CommitReversal, RInv, Alones, Alone
  <2>2. debit[r] > 0 /\ credit[r] = 0 /\ debit[r] \in Nat
    BY <1>0, <1>1, <2>1 DEF Awaited, TypeOK
  <2>3. /\ status'[r] = draft[d].status
        /\ debit'[r] = debit[r] + draft[d].debit /\ credit'[r] = credit[r] + draft[d].credit
    BY <1>0, <1>4 DEF CommitReversal, CommitDraft, TypeOK
  <2>4. /\ draft[d].debit = 0 /\ draft[d].credit = debit[r]
        /\ draft[d].status = "reversed"
    BY <1>4, <2>1 DEF RInv, Drafts, Returned
  <2> QED  BY <2>2, <2>3, <2>4
<1>5. CASE status'[r] = status[r] /\ debit'[r] = debit[r] /\ credit'[r] = credit[r]
  BY <1>1, <1>5
<1> HIDE DEF Tells
<1> QED  BY <1>0, <1>2, <1>3, <1>4, <1>5, RowStays

LEMMA RInvInit == Init => RInv
<1> SUFFICES ASSUME Init PROVE RInv
  OBVIOUS
<1>1. Entries
  BY DEF Init, Entries, Entry
<1>2. Drafts /\ Callbacks /\ Alones
  BY DEF Init, Drafts, Placed, Returned, Callbacks, Handles, Alones, Alone
<1>3. RowTellsLedger
  BY DEF Init, RowTellsLedger
<1> QED  BY <1>1, <1>2, <1>3, IInvInit DEF RInv

LEMMA RInvNext == RInv /\ [Next]_vars => RInv'
<1>1. RInv /\ [Next]_vars => Drafts'
  BY PlacedNext, ReturnedNext DEF Drafts
<1> QED  BY <1>1, IInvNext, EntryNext, HandlesNext, AlonesNext, RowTellsNext DEF RInv

LEMMA RInvAlways == Spec => []RInv
  BY RInvInit, RInvNext, PTL DEF Spec

(* A payout whose callbacks never overlap was deducted once and whole if   *)
(* it has a row, and given back once and whole exactly if it is reversed,  *)
(* at the rate it was deducted at: the status check of the handlers and    *)
(* the row lock suffice for any number of redeliveries in sequence.        *)
THEOREM RowsTellTheLedger == Spec => []RowTellsLedger
<1>1. RInv => RowTellsLedger
  BY DEF RInv
<1> QED  BY <1>1, RInvAlways, PTL

----------------------------------------------------------------------------
(* What the gateway did, against what was given back. *)

(* An order that was not submitted did not reach the gateway; a verdict    *)
(* owed was given; a reversal drafted or committed follows a refusal or a  *)
(* lost answer; a request that is done has a row.                          *)
Judged(r) ==
  /\ pc[r] \in {"new", "deduct", "submit"} => gateway[r] = "idle"
  /\ owed[r] => gateway[r] \in {"paid", "refused"}
  /\ pc[r] = "commit" /\ draft[r].credit # 0
       => gateway[r] = "refused" \/ "lost_response" \in mishap[r]
  /\ credit[r] # 0 => gateway[r] = "refused" \/ "lost_response" \in mishap[r]
  /\ pc[r] = "done" => status[r] # "none"

(* A handler does what the verdict says.                                   *)
Obeys(d) ==
  /\ hook[d] = "complete" => gateway[about[d]] = "paid"
  /\ hook[d] \in {"reverse", "commit"} => gateway[about[d]] = "refused"

Verdicts == (\A r \in Request : Judged(r)) /\ (\A d \in Delivery : Obeys(d))

(* A verdict is final.                                                     *)
LEMMA VerdictStays ==
  ASSUME TypeOK, [Next]_vars, NEW r \in Request, gateway[r] \in {"paid", "refused"},
         pc[r] # "submit"
  PROVE  gateway'[r] = gateway[r]
<1> USE DEF TypeOK, requests
<1>1. ASSUME NEW q \in Request,
             \/ LookUpKey(q) \/ RejectInput(q) \/ DeductBalanceAndRecord(q)
             \/ RejectDeduction(q) \/ CommitRequest(q) \/ CrashRequest(q)
      PROVE  gateway'[r] = gateway[r]
  BY <1>1 DEF LookUpKey, RejectInput, DeductBalanceAndRecord, RejectDeduction, CommitRequest,
     CrashRequest
<1>2. ASSUME NEW q \in Request,
             \/ SubmitAccepted(q) \/ SubmitFailed(q) \/ SubmitFailedAtOnce(q) \/ SubmitLost(q)
      PROVE  gateway'[r] = gateway[r]
  <2>1. q # r
    BY <1>2 DEF SubmitAccepted, SubmitFailed, SubmitFailedAtOnce, SubmitLost
  <2> QED  BY <1>2, <2>1 DEF SubmitAccepted, SubmitFailed, SubmitFailedAtOnce, SubmitLost
<1>3. ASSUME NEW q \in Request, Decide(q) \/ QueueTimeout(q) PROVE gateway'[r] = gateway[r]
  <2>1. q # r
    BY <1>3 DEF Decide, QueueTimeout
  <2> QED  BY <1>3, <2>1 DEF Decide, QueueTimeout
<1>4. ASSUME NEW q \in Request, NEW d \in Delivery, IgnoreCallback(d, q) \/ ReceiveCallback(d, q)
      PROVE  gateway'[r] = gateway[r]
  BY <1>4 DEF IgnoreCallback, ReceiveCallback
<1>5. ASSUME NEW d \in Delivery,
             CommitCompletion(d) \/ LockForReversal(d) \/ CommitReversal(d) \/ CrashCallback(d)
      PROVE  gateway'[r] = gateway[r]
  BY <1>5 DEF CommitCompletion, LockForReversal, CommitReversal, CrashCallback
<1> QED  BY <1>1, <1>2, <1>3, <1>4, <1>5, Steps DEF vars

LEMMA ObeysNext == RInv /\ Verdicts /\ [Next]_vars => \A d \in Delivery : Obeys(d)'
<1> SUFFICES ASSUME RInv, Verdicts, [Next]_vars, NEW d \in Delivery PROVE Obeys(d)'
  OBVIOUS
<1>0. TypeOK /\ Obeys(d) /\ Handles(d)
  BY DEF RInv, IInv, Verdicts, Callbacks
<1>1. ASSUME hook[d] # "idle"
      PROVE  /\ about[d] \in Request
             /\ gateway[about[d]] \in {"paid", "refused"}
             /\ gateway'[about[d]] = gateway[about[d]]
  <2>1. about[d] \in Request /\ pc[about[d]] # "submit"
    BY <1>0, <1>1, Settled DEF Handles
  <2>2. gateway[about[d]] \in {"paid", "refused"}
    BY <1>0, <1>1 DEF Obeys, TypeOK
  <2> QED  BY <1>0, <2>1, <2>2, VerdictStays
<1>2. CASE hook'[d] = hook[d] /\ about'[d] = about[d] /\ draft'[d] = draft[d]
  BY <1>0, <1>1, <1>2 DEF Obeys
<1>3. ASSUME NEW r \in Request, ReceiveCallback(d, r) PROVE Obeys(d)'
  <2>1. /\ owed[r] /\ gateway' = gateway /\ about'[d] = r
        /\ hook'[d] = (IF gateway[r] = "paid" THEN "complete" ELSE "reverse")
    BY <1>0, <1>3 DEF ReceiveCallback, CanDeliver, Outcome, requests, TypeOK
  <2> QED  BY <2>1 DEF Obeys, Verdicts, Judged
<1>4. CASE LockForReversal(d)
  <2>1. hook[d] = "reverse" /\ hook'[d] = "commit" /\ about' = about
    BY <1>0, <1>4 DEF LockForReversal, TypeOK
  <2> QED  BY <1>0, <1>1, <2>1 DEF Obeys
<1>5. CASE CommitCompletion(d) \/ CommitReversal(d) \/ CrashCallback(d)
  <2>1. hook'[d] = "idle"
    BY <1>0, <1>5 DEF CommitCompletion, CommitReversal, CrashCallback, TypeOK
  <2> QED  BY <2>1 DEF Obeys
<1> QED  BY <1>0, <1>2, <1>3, <1>4, <1>5, CallbackMoves

(* The verdict of r changes when r is submitted, when the gateway decides, *)
(* and a verdict is owed again when one of its callbacks ends.             *)
LEMMA GatewayMoves ==
  ASSUME TypeOK, [Next]_vars, NEW r \in Request
  PROVE  \/ gateway'[r] = gateway[r] /\ owed'[r] = owed[r]
         \/ Submits(r) \/ Decide(r) \/ QueueTimeout(r)
         \/ gateway'[r] = gateway[r] /\ owed[r]
         \/ /\ gateway'[r] = gateway[r]
            /\ \E d \in Delivery : hook[d] # "idle" /\ about[d] = r
<1> USE DEF TypeOK, requests, hooks
<1>1. ASSUME NEW q \in Request,
             \/ LookUpKey(q) \/ RejectInput(q) \/ DeductBalanceAndRecord(q)
             \/ RejectDeduction(q) \/ CommitRequest(q) \/ CrashRequest(q)
      PROVE  gateway'[r] = gateway[r] /\ owed'[r] = owed[r]
  BY <1>1 DEF LookUpKey, RejectInput, DeductBalanceAndRecord, RejectDeduction, CommitRequest,
     CrashRequest
<1>2. ASSUME NEW q \in Request, q # r,
             \/ SubmitAccepted(q) \/ SubmitFailed(q) \/ SubmitFailedAtOnce(q) \/ SubmitLost(q)
             \/ Decide(q) \/ QueueTimeout(q)
      PROVE  gateway'[r] = gateway[r] /\ owed'[r] = owed[r]
  BY <1>2 DEF SubmitAccepted, SubmitFailed, SubmitFailedAtOnce, SubmitLost, Decide,
     QueueTimeout
<1>3. ASSUME NEW q \in Request, NEW d \in Delivery, IgnoreCallback(d, q) \/ ReceiveCallback(d, q)
      PROVE  gateway'[r] = gateway[r] /\ (owed'[r] = owed[r] \/ owed[r])
  BY <1>3 DEF IgnoreCallback, ReceiveCallback, CanDeliver, Acknowledge
<1>4. ASSUME NEW d \in Delivery,
             CommitCompletion(d) \/ LockForReversal(d) \/ CommitReversal(d) \/ CrashCallback(d)
      PROVE  /\ gateway'[r] = gateway[r]
             /\ owed'[r] = owed[r] \/ (hook[d] # "idle" /\ about[d] = r)
  BY <1>4 DEF CommitCompletion, LockForReversal, CommitReversal, CrashCallback, Acknowledge
<1> QED  BY <1>1, <1>2, <1>3, <1>4, Steps DEF vars, Submits

LEMMA JudgedNext == RInv /\ Verdicts /\ [Next]_vars => \A r \in Request : Judged(r)'
<1> SUFFICES ASSUME RInv, Verdicts, [Next]_vars, NEW r \in Request PROVE Judged(r)'
  OBVIOUS
<1>0. TypeOK /\ Judged(r) /\ Entry(r) /\ Placed(r) /\ mishap[r] \subseteq mishap'[r]
  BY MishapsStay DEF RInv, IInv, Verdicts, Entries, Drafts
<1>a. TypeOK'
  BY IInvNext DEF RInv, IInv
<1>1. pc'[r] \in {"new", "deduct", "submit"} => gateway'[r] = "idle"
  <2>1. CASE Submits(r) \/ Decide(r) \/ QueueTimeout(r)
    BY <1>0, <2>1 DEF Submits, SubmitAccepted, SubmitFailed, SubmitFailedAtOnce, SubmitLost,
       Decide, QueueTimeout, Judged, TypeOK
  <2>2. CASE gateway'[r] = gateway[r] /\ ~ Submits(r)
    <3>1. pc'[r] \in {"new", "deduct", "submit"} => pc[r] \in {"new", "deduct", "submit"}
      BY <1>0, <2>2, RequestMoves DEF LookUpKey, RejectInput, DeductBalanceAndRecord,
         RejectDeduction, CommitRequest, CrashRequest, TypeOK
    <3> QED  BY <1>0, <2>2, <3>1 DEF Judged
  <2> QED  BY <1>0, <2>1, <2>2, GatewayMoves
<1>2. owed'[r] => gateway'[r] \in {"paid", "refused"}
  <2>1. CASE Submits(r)
    BY <1>0, <2>1 DEF Submits, SubmitAccepted, SubmitFailed, SubmitFailedAtOnce, SubmitLost,
       hooks, Judged, TypeOK
  <2>2. CASE Decide(r)
    BY <1>0, <2>2 DEF Decide, TypeOK
  <2>3. CASE QueueTimeout(r)
    BY <1>0, <2>3 DEF QueueTimeout, hooks, Judged, TypeOK
  <2>4. ASSUME gateway'[r] = gateway[r], NEW d \in Delivery, hook[d] # "idle", about[d] = r
        PROVE  gateway'[r] \in {"paid", "refused"}
    BY <1>0, <2>4 DEF Verdicts, Obeys, TypeOK
  <2> QED  BY <1>0, <2>1, <2>2, <2>3, <2>4, GatewayMoves DEF Judged
<1>3. ASSUME gateway[r] = "refused" \/ "lost_response" \in mishap[r], pc[r] # "submit"
      PROVE  gateway'[r] = "refused" \/ "lost_response" \in mishap'[r]
  BY <1>0, <1>3, VerdictStays
<1>4. ASSUME pc'[r] = "commit", draft'[r].credit # 0
      PROVE  gateway'[r] = "refused" \/ "lost_response" \in mishap'[r]
  <2>1. CASE pc'[r] = pc[r] /\ draft'[r] = draft[r]
    BY <1>0, <1>3, <1>4, <2>1 DEF Judged
  <2>2. CASE SubmitAccepted(r)
    <3>1. draft'[r] = [draft[r] EXCEPT !.status = Accepted(r)] /\ draft[r] \in Draft
      BY <1>0, <2>2 DEF SubmitAccepted, TypeOK
    <3>2. draft'[r].credit = draft[r].credit
      BY <3>1 DEF Draft
    <3>3. pc[r] = "submit"
      BY <2>2 DEF SubmitAccepted
    <3>4. draft[r].credit = 0
      BY <1>0, <3>3 DEF Placed
    <3> QED  BY <1>4, <3>2, <3>4
  <2>3. CASE SubmitFailed(r) \/ SubmitFailedAtOnce(r) \/ SubmitLost(r)
    BY <1>0, <2>3 DEF SubmitFailed, SubmitFailedAtOnce, SubmitLost, Hit, TypeOK
  <2> QED  BY <1>0, <1>4, <2>1, <2>2, <2>3, RequestMoves DEF Submits, LookUpKey, RejectInput,
           DeductBalanceAndRecord, RejectDeduction, CommitRequest, CrashRequest, TypeOK
<1>5. ASSUME credit'[r] # 0
      PROVE  gateway'[r] = "refused" \/ "lost_response" \in mishap'[r]
  <2>1. CASE credit'[r] = credit[r]
    <3>1. pc[r] = "done"
      BY <1>0, <1>5, <2>1 DEF Entry
    <3> QED  BY <1>0, <1>3, <1>5, <2>1, <3>1 DEF Judged
  <2>2. CASE CommitRequest(r)
    <3>1. /\ pc[r] = "commit" /\ credit'[r] = credit[r] + draft[r].credit
          /\ UNCHANGED <<gateway, mishap>>
      BY <1>0, <2>2 DEF CommitRequest, CommitDraft, TypeOK
    <3>2. credit[r] = 0
      BY <1>0, <3>1 DEF Entry
    <3>3. draft[r].credit # 0
      BY <1>5, <3>1, <3>2
    <3> QED  BY <1>0, <3>1, <3>3 DEF Judged
  <2>3. ASSUME NEW d \in Delivery, about[d] = r, CommitReversal(d)
        PROVE  gateway'[r] = "refused"
    BY <2>3 DEF CommitReversal, requests, Verdicts, Obeys
  <2>4. ASSUME NEW d \in Delivery, CommitCompletion(d) PROVE credit'[r] = credit[r]
    BY <2>4 DEF CommitCompletion
  <2> QED  BY <1>0, <2>1, <2>2, <2>3, <2>4, RowStays
<1>6. pc'[r] = "done" => status'[r] # "none"
  <2>1. CASE CommitRequest(r)
    BY <1>0, <2>1 DEF CommitRequest, CommitDraft, Placed, TypeOK
  <2>2. CASE ~ CommitRequest(r)
    <3>1. pc'[r] = "done" => pc[r] = "done"
      BY <1>0, <2>2, RequestMoves DEF LookUpKey, RejectInput, DeductBalanceAndRecord,
         RejectDeduction, Submits, SubmitAccepted, SubmitFailed, SubmitFailedAtOnce,
         SubmitLost, CrashRequest, TypeOK
    <3> QED  BY <1>0, <3>1, Settled DEF Judged
  <2> QED  BY <2>1, <2>2
<1> QED  BY <1>1, <1>2, <1>4, <1>5, <1>6 DEF Judged

LEMMA VerdictsAlways == Spec => [](RInv /\ Verdicts)
<1>1. Init => Verdicts
  BY DEF Init, Verdicts, Judged, Obeys
<1>2. RInv /\ Verdicts /\ [Next]_vars => Verdicts'
  BY ObeysNext, JudgedNext DEF Verdicts
<1> QED  BY <1>1, <1>2, RInvInit, RInvNext, PTL DEF Spec

LEMMA PaidHolds == RInv /\ Verdicts => PaidIsDeducted
<1> SUFFICES ASSUME RInv, Verdicts, NEW r \in Request, gateway[r] = "paid",
                    pc[r] = "done", "lost_response" \notin mishap[r]
             PROVE  debit[r] > 0 /\ credit[r] = 0
  BY DEF PaidIsDeducted
<1>1. Judged(r) /\ Entry(r)
  BY DEF RInv, Verdicts, Entries
<1>2. debit[r] \in Nat \ {0}
  BY <1>1, ConversionPositive DEF Judged, Entry
<1> QED  BY <1>1, <1>2 DEF Judged

(* Money the gateway sent stays deducted under any repetition, overlap or  *)
(* death of handlers, unless the gateway's answer was lost.                *)
THEOREM PaidStaysDeducted == Spec => []PaidIsDeducted
  BY PaidHolds, VerdictsAlways, PTL

----------------------------------------------------------------------------
(* The idempotency keys. *)

(* A request whose key found nothing may leave a row.                      *)
Passed(r) == pc[r] \in {"deduct", "done"} \cup Holding

KeysApart ==
  \A r, q \in Request :
    r # q /\ SameKey(r, q) /\ Passed(r) /\ Passed(q)
    => "double_tap" \in mishap[r] \cup mishap[q]

LEMMA KeysApartNext == RInv /\ Verdicts /\ KeysApart /\ [Next]_vars => KeysApart'
<1> SUFFICES ASSUME RInv, Verdicts, KeysApart, [Next]_vars,
                    NEW r \in Request, NEW q \in Request,
                    r # q, SameKey(r, q), Passed(r)', Passed(q)'
             PROVE  "double_tap" \in mishap'[r] \cup mishap'[q]
  BY DEF KeysApart, SameKey
<1>0. TypeOK
  BY DEF RInv, IInv
<1>1. ASSUME NEW s \in Request, ~ LookUpKey(s), Passed(s)' PROVE Passed(s)
  BY <1>0, <1>1, RequestMoves DEF Passed, RejectInput, DeductBalanceAndRecord,
     RejectDeduction, Submits, SubmitAccepted, SubmitFailed, SubmitFailedAtOnce, SubmitLost,
     CommitRequest, CrashRequest, TypeOK
<1>2. CASE Passed(r) /\ Passed(q)
  BY <1>0, <1>2, MishapsStay DEF KeysApart
<1>3. ASSUME NEW s \in Request, NEW t \in Request, s # t, SameKey(s, t), Passed(s)',
             Passed(t)', LookUpKey(s)
      PROVE  "double_tap" \in mishap'[s]
  <2>1. pc[s] = "new" /\ pc' = [pc EXCEPT ![s] = pc'[s]] /\ Existing(s) = {}
    <3>1. pc'[s] = (CASE Existing(s) = {} -> "deduct"
                      [] \E p \in Request : Existing(s) = {p} -> "replayed"
                      [] OTHER -> "failed")
      BY <1>0, <1>3 DEF LookUpKey, TypeOK
    <3>2. pc'[s] \notin {"replayed", "failed"}
      BY <1>3 DEF Passed
    <3>3. Existing(s) = {}
      BY <3>1, <3>2
    <3> QED  BY <1>0, <1>3, <3>3 DEF LookUpKey, TypeOK
  <2>2. Passed(t) /\ status[t] = "none"
    BY <1>0, <1>3, <2>1 DEF Passed, Existing, TypeOK
  <2>3. pc[t] # "done"
    BY <2>2 DEF Verdicts, Judged
  <2>4. t \in Tapped(s)
    BY <1>3, <2>2, <2>3 DEF Tapped, Passed
  <2>5. Hit(s, "double_tap")
    BY <1>3, <2>4 DEF LookUpKey
  <2> QED  BY <1>0, <2>5 DEF Hit, TypeOK
<1> QED
  BY <1>1, <1>2, <1>3 DEF SameKey

LEMMA KeysHold == RInv /\ KeysApart => OneRowPerKey
  BY DEF RInv, Entries, Entry, KeysApart, Passed, OneRowPerKey

(* A key that is not sent twice at the same time makes one row, however    *)
(* often it is sent and whatever became of the requests.                   *)
THEOREM KeysMakeOneRow == Spec => []OneRowPerKey
<1>1. Init => KeysApart
  BY DEF Init, KeysApart, Passed
<1> QED  BY <1>1, KeysHold, KeysApartNext, VerdictsAlways, PTL DEF Spec

----------------------------------------------------------------------------
(* Payouts among other components. *)

(* What the rest of the application may do: change any balance, as long as *)
(* it is not below zero, and take or give back any lock, but not touch a   *)
(* row that a payout's session has locked, nor anything else of payouts.   *)
Elsewhere ==
  /\ balance' \in [Account -> Nat] /\ ledger' \in [Account -> Int]
  /\ lock' \in [Account -> Session \cup Others \cup {NoOne}]
  /\ \A a \in Account :
       /\ lock[a] \in Session \/ lock'[a] \in Session => lock'[a] = lock[a]
       /\ lock[a] \in Session => balance'[a] = balance[a]
  /\ UNCHANGED <<status, converted, debit, credit, draft, requests, hooks, mishap, crashes>>

AmongOthers == Init /\ [][Next \/ Elsewhere]_vars

LEMMA ElsewhereLocks == IInv /\ Elsewhere => IInv'
<1> SUFFICES ASSUME IInv, Elsewhere PROVE IInv'
  OBVIOUS
<1> USE DEF IInv, Elsewhere, requests, hooks
<1>1. TypeOK'
  BY DEF TypeOK
<1>2. InUse'
  BY DEF InUse
<1>3. ASSUME NEW s \in Session, NEW a \in Account, WorksOn(s, a)'
      PROVE  lock'[a] = s /\ Mirrors(s, a)'
  <2>1. WorksOn(s, a)
    BY <1>3 DEF WorksOn
  <2>2. lock[a] = s /\ Mirrors(s, a)
    BY <2>1 DEF HoldsRow, DraftsMirror
  <2> QED  BY <2>2 DEF Mirrors
<1>4. Solvent'
  BY DEF Solvent
<1>5. LockEarned'
  BY DEF LockEarned, WorksOn
<1> QED  BY <1>1, <1>2, <1>3, <1>4, <1>5 DEF HoldsRow, DraftsMirror

LEMMA ElsewhereRows == RInv /\ Elsewhere => RInv'
<1> SUFFICES ASSUME RInv, Elsewhere PROVE RInv'
  OBVIOUS
<1> USE DEF Elsewhere, requests, hooks
<1>1. IInv'
  BY ElsewhereLocks DEF RInv
<1>2. Entries' /\ Callbacks' /\ Alones' /\ RowTellsLedger'
  BY DEF RInv, Entries, Entry, Conversions, AmountToCredit, Callbacks, Handles, Alones, Alone,
         RowTellsLedger
<1>3. ASSUME NEW r \in Request PROVE Placed(r)'
  <2>1. Placed(r)
    BY DEF RInv, Drafts
  <2>2. pc[r] \in Holding => lock[Payer[r]] = r
    BY DEF RInv, IInv, HoldsRow, WorksOn
  <2> QED  BY <2>1, <2>2 DEF Placed, Conversions, AmountToCredit
<1>4. ASSUME NEW d \in Delivery PROVE Returned(d)'
  BY DEF RInv, Drafts, Returned
<1> QED  BY <1>1, <1>2, <1>3, <1>4 DEF RInv, Drafts

LEMMA ElsewhereVerdicts == Verdicts /\ KeysApart /\ Elsewhere => Verdicts' /\ KeysApart'
  BY DEF Verdicts, Judged, Obeys, KeysApart, Passed, SameKey, Elsewhere, requests, hooks

LEMMA SafeAlways == AmongOthers => [](RInv /\ Verdicts /\ KeysApart)
<1> DEFINE I == RInv /\ Verdicts /\ KeysApart
<1>1. Init => I
  BY RInvInit DEF Init, Verdicts, Judged, Obeys, KeysApart, Passed
<1>2. I /\ [Next \/ Elsewhere]_vars => I'
  <2>1. I /\ [Next]_vars => I'
    BY RInvNext, ObeysNext, JudgedNext, KeysApartNext DEF Verdicts
  <2>2. I /\ Elsewhere => I'
    BY ElsewhereRows, ElsewhereVerdicts
  <2> QED  BY <2>1, <2>2
<1> QED  BY <1>1, <1>2, PTL DEF AmongOthers

(* What payouts promise does not depend on being alone with the accounts:  *)
(* any other code may post to them, if it takes the row locks.             *)
THEOREM SafeAmongOthers ==
  AmongOthers => /\ [](TypeOK /\ Solvent) /\ []RowTellsLedger
                 /\ []PaidIsDeducted /\ []OneRowPerKey
<1>1. RInv => TypeOK /\ Solvent /\ RowTellsLedger
  BY DEF RInv, IInv
<1>2. RInv /\ Verdicts => PaidIsDeducted
  BY PaidHolds
<1>3. RInv /\ KeysApart => OneRowPerKey
  BY KeysHold
<1> QED  BY <1>1, <1>2, <1>3, SafeAlways, PTL

----------------------------------------------------------------------------
(* The refinement of Books. *)

(* One deduction is one move of its negative.                              *)
LEMMA DebitMoves ==
  ASSUME TypeOK, NEW r \in Request, NEW amt \in Nat, debit[r] = 0,
         debit' = [debit EXCEPT ![r] = amt]
  PROVE  Moved' = [Moved EXCEPT ![r] = Moved[r] + (- amt)]
<1>1. \A q \in Request : debit[q] \in Nat
  BY DEF TypeOK
<1>2. ASSUME NEW q \in Request
      PROVE  Moved'[q] = IF q = r THEN Moved[r] + (- amt) ELSE Moved[q]
  <2>1. Moved'[q] = - debit'[q] /\ Moved[q] = - debit[q] /\ Moved[r] = - debit[r]
    BY DEF Moved
  <2>2. debit'[q] = IF q = r THEN amt ELSE debit[q]
    BY DEF TypeOK
  <2> QED  BY <1>1, <2>1, <2>2
<1>3. Moved' = [q \in Request |-> Moved'[q]] /\ DOMAIN Moved = Request
  BY DEF Moved
<1> HIDE DEF Moved
<1> QED  BY <1>2, <1>3

LEMMA CommitWrites ==
  ASSUME TypeOK, NEW s \in Session, NEW r \in Request, CommitDraft(s, r),
         Mirrors(s, Payer[r])
  PROVE  /\ balance' = [balance EXCEPT ![Payer[r]] =
                          balance[Payer[r]] + draft[s].credit - draft[s].debit]
         /\ debit' = [debit EXCEPT ![r] = debit[r] + draft[s].debit]
         /\ credit' = [credit EXCEPT ![r] = credit[r] + draft[s].credit]
  BY DEF CommitDraft, Mirrors

(* The commit of a request posts its deduction, and a reversal with it or  *)
(* none.                                                                   *)
LEMMA RequestPosts ==
  ASSUME RInv, NEW r \in Request, CommitRequest(r)
  PROVE  Abstract!Next
<1> DEFINE a == Payer[r]  amt == draft[r].debit
<1>0. TypeOK /\ Entry(r) /\ Placed(r) /\ r \in Session /\ a \in Account
  BY DEF RInv, IInv, Entries, Drafts
<1>1. pc[r] = "commit" /\ Mirrors(r, a)
  BY <1>0 DEF CommitRequest, RInv, IInv, DraftsMirror, WorksOn
<1>2. debit[r] = 0 /\ credit[r] = 0 /\ balance[a] \in Int
  BY <1>0, <1>1 DEF Entry, TypeOK
<1>3. amt \in Nat /\ draft[r].credit \in Nat /\ draft[r].balance \in Int
  BY <1>0, DraftFields DEF TypeOK
<1>4. /\ balance' = [balance EXCEPT ![a] = balance[a] + draft[r].credit - amt]
      /\ debit' = [debit EXCEPT ![r] = amt] /\ credit' = [credit EXCEPT ![r] = draft[r].credit]
      /\ UNCHANGED mishap
  <2>1. CommitDraft(r, r) /\ UNCHANGED mishap
    BY DEF CommitRequest
  <2>2. debit[r] + amt = amt /\ credit[r] + draft[r].credit = draft[r].credit
    BY <1>2, <1>3
  <2> QED  BY <1>0, <1>1, <2>1, <2>2, CommitWrites
<1>5. - amt \in Movable[r] /\ balance[a] >= amt
  BY <1>0, <1>1 DEF Placed, Movable
<1>6. Moved' = [Moved EXCEPT ![r] = Moved[r] + (- amt)] /\ Moved[r] = 0
  <2>1. Moved' = [Moved EXCEPT ![r] = Moved[r] + (- amt)]
    BY <1>0, <1>2, <1>3, <1>4, DebitMoves
  <2>2. \A q \in Request : Moved[q] = - debit[q] /\ debit[q] \in Nat
    BY <1>0 DEF Moved, TypeOK
  <2>3. \A i \in Nat : - i = 0 - i
    OBVIOUS
  <2>4. Moved[r] = 0
    BY <1>2, <2>2, <2>3
  <2> QED  BY <2>1, <2>4
<1>7. Abstract!Fits(r, - amt) /\ Excused' = Excused
  BY <1>2, <1>3, <1>4, <1>5 DEF Abstract!Fits, Excused
<1>8. CASE draft[r].status = "reversed"
  <2>1. draft[r].credit = amt
    BY <1>0, <1>1, <1>8 DEF Placed
  <2>2. balance' = balance
    <3>1. balance[a] + draft[r].credit - amt = balance[a]
      BY <1>2, <1>3, <2>1
    <3> QED  BY <1>0, <1>4, <3>1 DEF TypeOK
  <2>3. credit' = [credit EXCEPT ![r] = credit[r] + - (- amt)]
    <3>1. credit[r] + - (- amt) = draft[r].credit
      BY <1>2, <1>3, <2>1
    <3> QED  BY <1>4, <3>1
  <2>4. Abstract!MoveAndGiveBack(r, - amt)
    BY <1>2, <1>6, <1>7, <2>2, <2>3
       DEF Abstract!MoveAndGiveBack, Abstract!Add
  <2> QED  BY <1>5, <2>4 DEF Abstract!Next
<1>9. CASE draft[r].status # "reversed"
  <2>1. draft[r].credit = 0
    BY <1>0, <1>1, <1>9 DEF Placed
  <2>2. balance' = [balance EXCEPT ![a] = balance[a] + (- amt)]
    <3>1. balance[a] + draft[r].credit - amt = balance[a] + (- amt)
      BY <1>2, <1>3, <2>1
    <3> QED  BY <1>4, <3>1
  <2>3. credit' = credit
    BY <1>0, <1>2, <1>4, <2>1 DEF TypeOK
  <2>4. Abstract!Move(r, - amt)
    BY <1>6, <1>7, <2>2, <2>3 DEF Abstract!Move, Abstract!Add
  <2> QED  BY <1>5, <2>4 DEF Abstract!Next
<1> QED  BY <1>8, <1>9

(* The commit of a callback gives the deduction back, and to no payout     *)
(* twice unless its callbacks overlap.                                     *)
LEMMA ReversalPosts ==
  ASSUME RInv, NEW d \in Delivery, CommitReversal(d)
  PROVE  Abstract!Next
<1> DEFINE r == about[d]  a == Payer[r]
<1>0. TypeOK /\ Handles(d) /\ Returned(d) /\ hook[d] = "commit" /\ d \in Session
  BY DEF RInv, IInv, Callbacks, Drafts, CommitReversal
<1>1. r \in Request /\ status[r] # "none" /\ a \in Account
  BY <1>0 DEF Handles
<1>2. /\ debit[r] \in Nat \ {0} /\ credit[r] \in Nat /\ balance[a] \in Int
      /\ Mirrors(d, a)
  <2>1. debit[r] \in Nat \ {0}
    BY <1>1, ConversionPositive DEF RInv, Entries, Entry
  <2>2. Mirrors(d, a)
    BY <1>0, <1>1 DEF RInv, IInv, DraftsMirror, WorksOn
  <2> QED  BY <1>0, <1>1, <2>1, <2>2 DEF TypeOK
<1>3. draft[d].debit = 0 /\ draft[d].credit = debit[r]
  BY <1>0 DEF Returned
<1>4. /\ balance' = [balance EXCEPT ![a] = balance[a] + - Moved[r]]
      /\ credit' = [credit EXCEPT ![r] = credit[r] + - Moved[r]]
      /\ Moved' = Moved /\ Excused' = Excused
  <2>1. CommitDraft(d, r) /\ UNCHANGED mishap
    BY DEF CommitReversal
  <2>2. - Moved[r] = debit[r]
    BY <1>1, <1>2 DEF Moved
  <2>3. /\ balance[a] + draft[d].credit - draft[d].debit = balance[a] + - Moved[r]
        /\ credit[r] + draft[d].credit = credit[r] + - Moved[r]
        /\ debit[r] + draft[d].debit = debit[r]
    BY <1>2, <1>3, <2>2
  <2>4. debit' = debit
    BY <1>0, <1>1, <1>2, <2>1, <2>3, CommitWrites DEF TypeOK
  <2>5. /\ balance' = [balance EXCEPT ![a] = balance[a] + - Moved[r]]
        /\ credit' = [credit EXCEPT ![r] = credit[r] + - Moved[r]]
    <3> HIDE DEF a, r
    <3>1. /\ balance' = [balance EXCEPT ![a] = balance[a] + draft[d].credit - draft[d].debit]
          /\ credit' = [credit EXCEPT ![r] = credit[r] + draft[d].credit]
      BY <1>0, <1>1, <1>2, <2>1, CommitWrites DEF a
    <3> QED  BY <2>3, <3>1
  <2> QED  BY <2>1, <2>4, <2>5 DEF Moved, Excused
<1>5. credit[r] = 0 \/ r \in Excused
  <2>1. CASE "overlap" \notin mishap[r]
    <3>1. status[r] = Awaited(r)
      BY <1>0, <2>1 DEF RInv, Alones, Alone
    <3> QED  BY <1>1, <2>1, <3>1 DEF RInv, RowTellsLedger, Awaited
  <2> QED  BY <1>1, <2>1 DEF Excused
<1>6. Moved[r] # 0
  BY <1>1, <1>2 DEF Moved
<1>7. Abstract!GiveBack(r)
  BY <1>4, <1>5, <1>6 DEF Abstract!GiveBack, Abstract!Add
<1> QED  BY <1>1, <1>7 DEF Abstract!Next

(* A fault other than an overlap does not show in the books.               *)
LEMMA HitsUnseen ==
  ASSUME TypeOK, NEW r \in Request, NEW fault \in FaultKinds, Hit(r, fault),
         UNCHANGED <<balance, debit, credit>>
  PROVE  [Abstract!Next]_(Abstract!vars)
<1>1. CASE fault = "overlap"
  <2>1. Excused' = Excused \cup {r}
    BY <1>1 DEF Excused, Hit, TypeOK
  <2>2. Abstract!Excuse(r)
    BY <2>1 DEF Abstract!Excuse, Moved
  <2> QED  BY <2>2 DEF Abstract!Next
<1>2. CASE fault # "overlap"
  <2>1. Excused' = Excused
    BY <1>2 DEF Excused, Hit, TypeOK
  <2> QED  BY <2>1 DEF Abstract!vars, Moved
<1> QED  BY <1>1, <1>2

LEMMA StepsPost == RInv /\ [Next]_vars => [Abstract!Next]_(Abstract!vars)
<1> SUFFICES ASSUME RInv, [Next]_vars PROVE [Abstract!Next]_(Abstract!vars)
  OBVIOUS
<1>0. TypeOK
  BY DEF RInv, IInv
<1>1. CASE UNCHANGED <<balance, debit, credit, mishap>>
  BY <1>1 DEF Abstract!vars, Moved, Excused
<1>2. ASSUME NEW r \in Request, NEW fault \in FaultKinds, Hit(r, fault),
             UNCHANGED <<balance, debit, credit>>
      PROVE  [Abstract!Next]_(Abstract!vars)
  BY <1>0, <1>2, HitsUnseen
<1>3. ASSUME NEW r \in Request,
             \/ LookUpKey(r) \/ RejectInput(r) \/ DeductBalanceAndRecord(r)
             \/ RejectDeduction(r) \/ SubmitAccepted(r) \/ SubmitFailed(r)
             \/ SubmitFailedAtOnce(r) \/ SubmitLost(r) \/ CrashRequest(r) \/ Decide(r)
             \/ QueueTimeout(r)
      PROVE  /\ UNCHANGED <<balance, debit, credit>>
             /\ UNCHANGED mishap \/ \E fault \in FaultKinds : Hit(r, fault)
  BY <1>3 DEF rows, LookUpKey, RejectInput, DeductBalanceAndRecord, RejectDeduction,
     SubmitAccepted, SubmitFailed, SubmitFailedAtOnce, SubmitLost, CrashRequest, Decide,
     QueueTimeout
<1>4. ASSUME NEW r \in Request, NEW d \in Delivery, IgnoreCallback(d, r) \/ ReceiveCallback(d, r)
      PROVE  /\ UNCHANGED <<balance, debit, credit>>
             /\ UNCHANGED mishap \/ \E fault \in FaultKinds : Hit(r, fault)
  BY <1>4 DEF rows, IgnoreCallback, ReceiveCallback
<1>5. ASSUME NEW d \in Delivery, CommitCompletion(d) \/ LockForReversal(d) \/ CrashCallback(d)
      PROVE  UNCHANGED <<balance, debit, credit, mishap>>
  BY <1>5 DEF rows, CommitCompletion, LockForReversal, CrashCallback
<1>6. ASSUME NEW r \in Request, CommitRequest(r) PROVE [Abstract!Next]_(Abstract!vars)
  BY <1>6, RequestPosts
<1>7. ASSUME NEW d \in Delivery, CommitReversal(d) PROVE [Abstract!Next]_(Abstract!vars)
  BY <1>7, ReversalPosts
<1> QED  BY <1>1, <1>2, <1>3, <1>4, <1>5, <1>6, <1>7, Steps DEF vars

(* Payouts implement the books: seen from the account each payout is one   *)
(* covered deduction and at most one return of exactly that, whatever is   *)
(* lost, repeated or dies, except where callbacks about it overlap.        *)
THEOREM RefinesBooks == Spec => ImplementsBooks
<1>1. Init => Abstract!Init
  <2> SUFFICES ASSUME Init PROVE Abstract!Init
    OBVIOUS
  <2>1. Moved = [p \in Request |-> 0]
    <3>0. \A p \in Request : debit[p] = 0
      BY DEF Init
    <3>1. \A i \in Nat : - i = 0 - i
      OBVIOUS
    <3>2. ASSUME NEW p \in Request PROVE - debit[p] = 0
      <4>1. debit[p] = 0 /\ debit[p] \in Nat
        BY <3>0
      <4>2. - debit[p] = 0 - debit[p]
        BY <3>1, <4>1, Zenon
      <4>3. 0 - debit[p] = 0
        BY <4>1
      <4> QED  BY <4>2, <4>3, Zenon
    <3> QED  BY <3>2 DEF Moved
  <2>2. Excused = {}
    BY DEF Init, Excused
  <2> QED  BY <2>1, <2>2 DEF Init, Abstract!Init
<1> QED  BY <1>1, StepsPost, RInvAlways, PTL DEF Spec, ImplementsBooks, Abstract!Spec

----------------------------------------------------------------------------
(* Final statuses. *)

(* Whatever a handler in the making has overlapped with, it finds the      *)
(* payout awaiting its verdict or already as that verdict leaves it.       *)
Agrees(d) ==
  hook[d] # "idle" =>
    \/ status[about[d]] = Awaited(about[d])
    \/ status[about[d]] = (IF hook[d] = "complete" THEN "completed" ELSE "reversed")

Agreed == \A d \in Delivery : Agrees(d)

LEMMA AgreesNext == RInv /\ Verdicts /\ Agreed /\ [Next]_vars => Agreed'
<1> SUFFICES ASSUME RInv, Verdicts, Agreed, [Next]_vars, NEW d \in Delivery PROVE Agrees(d)'
  BY DEF Agreed
<1>0. TypeOK /\ Agrees(d) /\ Handles(d) /\ Obeys(d)
  BY DEF RInv, IInv, Agreed, Callbacks, Verdicts
<1> DEFINE r == about[d]
<1>1. ASSUME hook[d] # "idle", NEW st \in Status, status'[r] = st, hook'[d] # "idle",
             \/ st = status[r]
             \/ st = (IF hook[d] = "complete" THEN "completed" ELSE "reversed"),
             about'[d] = about[d],
             hook'[d] = hook[d] \/ (hook[d] = "reverse" /\ hook'[d] = "commit")
      PROVE  Agrees(d)'
  BY <1>0, <1>1 DEF Agrees, Awaited
<1>2. ASSUME hook[d] # "idle"
      PROVE  \/ status'[r] = status[r]
             \/ status'[r] = (IF hook[d] = "complete" THEN "completed" ELSE "reversed")
  <2>1. r \in Request /\ status[r] # "none"
    BY <1>0, <1>2 DEF Handles
  <2>2. ~ CommitRequest(r)
    BY <2>1, Settled
  <2>3. ASSUME NEW e \in Delivery, about[e] = r, CommitCompletion(e) \/ CommitReversal(e)
        PROVE  status'[r] = (IF hook[d] = "complete" THEN "completed" ELSE "reversed")
    <3>1. Obeys(e) /\ Returned(e)
      BY DEF Verdicts, RInv, Drafts
    <3>2. CASE CommitCompletion(e)
      <4>1. hook[d] = "complete"
        BY <1>0, <1>2, <2>3, <3>1, <3>2 DEF CommitCompletion, Obeys, TypeOK
      <4> QED  BY <1>0, <2>1, <2>3, <3>2, <4>1 DEF CommitCompletion, TypeOK
    <3>3. CASE CommitReversal(e)
      <4>1. hook[d] # "complete"
        BY <1>0, <1>2, <2>3, <3>1, <3>3 DEF CommitReversal, Obeys, TypeOK
      <4>2. draft[e].status = "reversed"
        BY <3>1, <3>3 DEF CommitReversal, Returned
      <4> QED  BY <1>0, <2>1, <2>3, <3>3, <4>1, <4>2 DEF CommitReversal, CommitDraft, TypeOK
    <3> QED  BY <2>3, <3>2, <3>3
  <2> QED  BY <1>0, <2>1, <2>2, <2>3, RowStays
<1>3. ASSUME NEW q \in Request, ReceiveCallback(d, q) PROVE Agrees(d)'
  <2>1. about'[d] = q /\ status'[q] = Awaited(q)
    BY <1>0, <1>3 DEF ReceiveCallback, Ignored, rows, TypeOK
  <2> QED  BY <2>1 DEF Agrees, Awaited
<1>4. CASE CommitCompletion(d) \/ CommitReversal(d) \/ CrashCallback(d)
  <2>1. hook'[d] = "idle"
    BY <1>0, <1>4 DEF CommitCompletion, CommitReversal, CrashCallback, TypeOK
  <2> QED  BY <2>1 DEF Agrees
<1>5. CASE (hook'[d] = hook[d] /\ about'[d] = about[d]) \/ LockForReversal(d)
  <2>4. LockForReversal(d) => about' = about /\ hook[d] = "reverse" /\ hook'[d] = "commit"
    BY <1>0 DEF LockForReversal, TypeOK
  <2>1. /\ about'[d] = about[d]
        /\ hook'[d] = hook[d] \/ (hook[d] = "reverse" /\ hook'[d] = "commit")
    BY <1>5, <2>4
  <2>2. CASE hook[d] = "idle"
    BY <2>1, <2>2 DEF Agrees
  <2>3. CASE hook[d] # "idle"
    <3>1. status'[r] \in Status
      BY <1>0, <2>3, RInvNext DEF RInv, IInv, TypeOK, Handles
    <3> QED  BY <1>1, <1>2, <2>1, <2>3, <3>1
  <2> QED  BY <2>2, <2>3
<1> QED  BY <1>0, <1>3, <1>4, <1>5, CallbackMoves

(* No repeated, late or overlapping callback undoes a verdict.             *)
THEOREM VerdictsAreFinal == Spec => SettledIsFinal
<1>1. Init => Agreed
  BY DEF Init, Agreed, Agrees
<1>2. RInv /\ Verdicts /\ Agreed /\ [Next]_vars => [\A r \in Request : Settles(r)]_vars
  <2> SUFFICES ASSUME RInv, Verdicts, Agreed, [Next]_vars, NEW r \in Request,
                      \/ status[r] = "reversed"
                      \/ status[r] = "completed" /\ r \notin Stripe
               PROVE  status'[r] = status[r]
    BY DEF Settles
  <2>0. TypeOK /\ ~ CommitRequest(r)
    BY Settled DEF RInv, IInv
  <2>1. ASSUME NEW d \in Delivery, about[d] = r, CommitCompletion(d)
        PROVE  status'[r] = status[r]
    <3>1. Agrees(d) /\ hook[d] = "complete" /\ status'[r] = "completed"
      BY <2>0, <2>1 DEF Agreed, CommitCompletion, TypeOK
    <3> QED  BY <2>1, <3>1 DEF Agrees, Awaited
  <2>2. ASSUME NEW d \in Delivery, about[d] = r, CommitReversal(d)
        PROVE  status'[r] = status[r]
    <3>1. Agrees(d) /\ hook[d] = "commit" /\ status'[r] = "reversed"
      BY <2>0, <2>2 DEF Agreed, CommitReversal, CommitDraft, RInv, Drafts, Returned, TypeOK
    <3> QED  BY <2>2, <3>1 DEF Agrees, Awaited
  <2> QED  BY <2>0, <2>1, <2>2, RowStays
<1> QED  BY <1>1, <1>2, AgreesNext, VerdictsAlways, PTL DEF Spec, SettledIsFinal

----------------------------------------------------------------------------
(* What overlapping deliveries cost at most. *)

(* Every callback still in the making may give a payout back once more.    *)
Refund(r) == \E times \in Nat :
  /\ credit[r] = times * debit[r]
  /\ times > 0 <=> status[r] = "reversed"
  /\ times > 0 => times + Cardinality(Handled(r)) <= Cardinality(Delivery)

Refunds == \A r \in Request : Refund(r)

LEMMA HandledCounts ==
  ASSUME IsFiniteSet(Delivery), NEW r \in Request
  PROVE  /\ IsFiniteSet(Handled(r))
         /\ Cardinality(Handled(r)) \in Nat /\ Cardinality(Delivery) \in Nat
         /\ Cardinality(Handled(r)) <= Cardinality(Delivery)
<1>1. Handled(r) \in SUBSET Delivery
  BY DEF Handled
<1> QED  BY <1>1, FS_Subset, FS_CardinalityType

(* Only the receipt of a callback adds one.                                *)
LEMMA HandledStays ==
  ASSUME TypeOK, [Next]_vars, NEW r \in Request
  PROVE  Handled(r)' \subseteq Handled(r) \/ \E d \in Delivery : ReceiveCallback(d, r)
<1> SUFFICES ASSUME NEW d \in Delivery, about'[d] = r, about[d] # r
             PROVE  ReceiveCallback(d, r)
  BY DEF Handled
<1>1. ASSUME NEW q \in Request, ReceiveCallback(d, q) PROVE q = r
  BY <1>1 DEF ReceiveCallback, TypeOK
<1>2. CommitCompletion(d) \/ CommitReversal(d) \/ CrashCallback(d) => about'[d] = Unset
  BY DEF CommitCompletion, CommitReversal, CrashCallback, TypeOK
<1>3. LockForReversal(d) => about'[d] = about[d]
  BY DEF LockForReversal
<1> QED  BY <1>1, <1>2, <1>3, CallbackMoves

LEMMA OneMore ==
  ASSUME NEW times \in Nat, NEW amount \in Nat
  PROVE  times * amount + amount = (times + 1) * amount
OBVIOUS

LEMMA RefundsNext ==
  ASSUME IsFiniteSet(Delivery), Delivery # {}
  PROVE  RInv /\ Verdicts /\ Agreed /\ Refunds /\ [Next]_vars => Refunds'
<1> SUFFICES ASSUME RInv, Verdicts, Agreed, Refunds, [Next]_vars, NEW r \in Request
             PROVE  \E times \in Nat :
                      /\ credit'[r] = times * debit'[r]
                      /\ times > 0 <=> status'[r] = "reversed"
                      /\ times > 0 => times + Cardinality(Handled(r)') <= Cardinality(Delivery)
  BY DEF Refunds, Refund
<1>0. TypeOK /\ Entry(r) /\ Placed(r) /\ debit[r] \in Nat
  BY DEF RInv, IInv, Entries, Drafts, TypeOK
<1> PICK times \in Nat :
      /\ credit[r] = times * debit[r]
      /\ times > 0 <=> status[r] = "reversed"
      /\ times > 0 => times + Cardinality(Handled(r)) <= Cardinality(Delivery)
  BY DEF Refunds, Refund
<1>1. CASE CommitRequest(r)
  <2>1. /\ status'[r] = draft[r].status /\ pc[r] = "commit"
        /\ debit'[r] = debit[r] + draft[r].debit /\ credit'[r] = credit[r] + draft[r].credit
        /\ about' = about
    BY <1>0, <1>1 DEF CommitRequest, CommitDraft, hooks, TypeOK
  <2>2. status[r] = "none" /\ debit[r] = 0 /\ credit[r] = 0
    BY <1>0, <2>1 DEF Entry
  <2>3. draft[r].debit \in Nat /\ draft[r].credit \in Nat
    <3>1. draft[r].debit \in Conversions(r)
      BY <1>0, <2>1 DEF Placed
    <3>2. draft[r].credit \in {0, draft[r].debit}
      BY <1>0, <2>1 DEF Placed
    <3> QED  BY <3>1, <3>2, ConversionType
  <2>4. debit'[r] = draft[r].debit /\ credit'[r] = draft[r].credit
    BY <2>1, <2>2, <2>3
  <2>5. Cardinality(Handled(r)') = 0
    <3>1. Handled(r)' = {}
      BY <2>1, <2>2 DEF Handled, RInv, Callbacks, Handles
    <3> QED  BY <3>1, FS_EmptySet
  <2>6. 1 <= Cardinality(Delivery)
    BY HandledCounts, FS_EmptySet
  <2>7. CASE draft[r].status = "reversed"
    <3>1. credit'[r] = 1 * debit'[r]
      BY <1>0, <2>1, <2>3, <2>4, <2>7 DEF Placed
    <3> QED  BY <2>1, <2>5, <2>6, <2>7, <3>1
  <2>8. CASE draft[r].status # "reversed"
    <3>1. credit'[r] = 0 * debit'[r]
      BY <1>0, <2>1, <2>3, <2>4, <2>8 DEF Placed
    <3> QED  BY <2>1, <2>8, <3>1
  <2> QED  BY <2>7, <2>8
<1>2. CASE status'[r] = status[r] /\ debit'[r] = debit[r] /\ credit'[r] = credit[r]
  <2>1. CASE times = 0
    BY <1>2, <2>1
  <2>2. CASE times > 0
    <3>1. ~ \E d \in Delivery : ReceiveCallback(d, r)
      BY <2>2 DEF ReceiveCallback, Ignored, Awaited
    <3>2. Handled(r)' \in SUBSET Handled(r)
      BY <1>0, <3>1, HandledStays
    <3>3. Cardinality(Handled(r)') \in Nat /\ Cardinality(Handled(r)') <= Cardinality(Handled(r))
      BY <3>2, HandledCounts, FS_Subset, FS_CardinalityType
    <3> QED  BY <1>2, <2>2, <3>3, HandledCounts
  <2> QED  BY <2>1, <2>2
<1>3. ASSUME NEW d \in Delivery, about[d] = r, CommitCompletion(d)
      PROVE  /\ credit'[r] = times * debit'[r]
             /\ times = 0 /\ status'[r] # "reversed"
  <2>1. status[r] # "reversed"
    BY <1>3 DEF Agreed, Agrees, Awaited, CommitCompletion
  <2> QED  BY <1>0, <1>3, <2>1 DEF CommitCompletion, TypeOK
<1>4. ASSUME NEW d \in Delivery, about[d] = r, CommitReversal(d)
      PROVE  /\ credit'[r] = (times + 1) * debit'[r]
             /\ status'[r] = "reversed"
             /\ times + 1 + Cardinality(Handled(r)') <= Cardinality(Delivery)
  <2>1. /\ hook[d] = "commit" /\ status'[r] = draft[d].status
        /\ debit'[r] = debit[r] + draft[d].debit /\ credit'[r] = credit[r] + draft[d].credit
        /\ about' = [about EXCEPT ![d] = Unset]
    BY <1>0, <1>4 DEF CommitReversal, CommitDraft, TypeOK
  <2>2. draft[d].debit = 0 /\ draft[d].credit = debit[r] /\ draft[d].status = "reversed"
    BY <1>4, <2>1 DEF RInv, Drafts, Returned
  <2>3. debit'[r] = debit[r] /\ credit'[r] = times * debit[r] + debit[r]
    BY <1>0, <2>1, <2>2
  <2>4. Handled(r)' = Handled(r) \ {d} /\ d \in Handled(r)
    BY <1>0, <1>4, <2>1 DEF Handled, TypeOK
  <2>5. Cardinality(Handled(r)') = Cardinality(Handled(r)) - 1
    BY <2>4, HandledCounts, FS_RemoveElement
  <2>6. times + Cardinality(Handled(r)) <= Cardinality(Delivery)
    BY HandledCounts
  <2>7. credit'[r] = (times + 1) * debit'[r]
    BY <1>0, <2>3, OneMore
  <2>8. times + 1 + Cardinality(Handled(r)') <= Cardinality(Delivery)
    BY <2>5, <2>6, HandledCounts
  <2> QED  BY <2>1, <2>2, <2>7, <2>8
<1>5. ASSUME NEW d \in Delivery, about[d] = r, CommitReversal(d)
      PROVE  \E n \in Nat :
               /\ credit'[r] = n * debit'[r]
               /\ n > 0 <=> status'[r] = "reversed"
               /\ n > 0 => n + Cardinality(Handled(r)') <= Cardinality(Delivery)
  <2>1. times + 1 \in Nat /\ times + 1 > 0
    OBVIOUS
  <2> QED  BY <1>4, <1>5, <2>1
<1>6. ASSUME NEW d \in Delivery, about[d] = r, CommitCompletion(d)
      PROVE  \E n \in Nat :
               /\ credit'[r] = n * debit'[r]
               /\ n > 0 <=> status'[r] = "reversed"
               /\ n > 0 => n + Cardinality(Handled(r)') <= Cardinality(Delivery)
  BY <1>3, <1>6
<1>7. \/ status'[r] = status[r] /\ debit'[r] = debit[r] /\ credit'[r] = credit[r]
      \/ CommitRequest(r)
      \/ \E d \in Delivery : about[d] = r /\ CommitCompletion(d)
      \/ \E d \in Delivery : about[d] = r /\ CommitReversal(d)
  BY <1>0, RowStays
<1> QED  BY <1>1, <1>2, <1>5, <1>6, <1>7

(* A payout that overlapping callbacks have reversed more than once (there *)
(* is no guard against it) was given back a whole number of times, and no  *)
(* oftener than callbacks can be in the making at once.                    *)
THEOREM RefundsAreBounded ==
  ASSUME IsFiniteSet(Delivery), Delivery # {}
  PROVE  Spec => []GivenBackPerDelivery
<1>1. Init => Agreed /\ Refunds
  <2> SUFFICES ASSUME Init, NEW r \in Request PROVE Refund(r)
    BY DEF Init, Agreed, Agrees, Refunds
  <2>1. credit[r] = 0 * debit[r] /\ status[r] # "reversed"
    BY DEF Init
  <2> QED  BY <2>1 DEF Refund
<1>2. RInv /\ Verdicts /\ Agreed /\ Refunds /\ [Next]_vars => Agreed' /\ Refunds'
  BY AgreesNext, RefundsNext
<1>3. Refunds => GivenBackPerDelivery
  <2> SUFFICES ASSUME Refunds, NEW r \in Request
               PROVE  \E times \in 0..Cardinality(Delivery) :
                        /\ credit[r] = times * debit[r]
                        /\ times > 0 <=> status[r] = "reversed"
    BY DEF GivenBackPerDelivery
  <2>1. PICK times \in Nat :
          /\ credit[r] = times * debit[r]
          /\ times > 0 <=> status[r] = "reversed"
          /\ times > 0 => times + Cardinality(Handled(r)) <= Cardinality(Delivery)
    BY DEF Refunds, Refund
  <2>2. times \in 0..Cardinality(Delivery)
    BY <2>1, HandledCounts
  <2> QED  BY <2>1, <2>2
<1> QED  BY <1>1, <1>2, <1>3, VerdictsAlways, PTL DEF Spec

----------------------------------------------------------------------------
(* No verdict is forgotten. *)

(* What the row of a payout says, or will say at the request's commit.     *)
Shown(r) == IF pc[r] = "done" THEN status[r] ELSE draft[r].status

(* Until it says what the gateway decided it is such that the callback will*)
(* be acted on, and the callback is owed once there is a verdict.          *)
Remembers(r) ==
  /\ pc[r] \in {"commit", "done"}
  /\ mishap[r] \cap {"lost_response", "early_verdict"} = {}
  => /\ gateway[r] \in {"accepted", "paid", "refused", "timed_out"}
     /\ gateway[r] = "accepted" => Shown(r) = Awaited(r)
     /\ gateway[r] \in {"paid", "refused"} =>
          Shown(r) = Verdict(r) \/ (Shown(r) = Awaited(r) /\ owed[r])

(* The answer to a delivery stops the gateway only after the commit.       *)
LEMMA OwedStays ==
  ASSUME RInv, Verdicts, [Next]_vars, NEW r \in Request, owed[r]
  PROVE  \/ owed'[r]
         \/ \E d \in Delivery : IgnoreCallback(d, r)
         \/ \E d \in Delivery : about[d] = r /\ (CommitCompletion(d) \/ CommitReversal(d))
<1>0. TypeOK
  BY DEF RInv, IInv
<1> USE <1>0 DEF TypeOK, requests, hooks
<1>1. ASSUME NEW q \in Request,
             \/ LookUpKey(q) \/ RejectInput(q) \/ DeductBalanceAndRecord(q)
             \/ RejectDeduction(q) \/ CommitRequest(q) \/ CrashRequest(q) \/ QueueTimeout(q)
      PROVE  owed'[r]
  BY <1>1 DEF LookUpKey, RejectInput, DeductBalanceAndRecord, RejectDeduction, CommitRequest,
     CrashRequest, QueueTimeout
<1>2. ASSUME NEW q \in Request, Submits(q) PROVE owed'[r]
  BY <1>2 DEF Submits, SubmitAccepted, SubmitFailed, SubmitFailedAtOnce, SubmitLost
<1>3. ASSUME NEW q \in Request, Decide(q) PROVE owed'[r]
  <2>1. q # r
    BY <1>3 DEF Decide, Verdicts, Judged
  <2> QED  BY <1>3, <2>1 DEF Decide
<1>4. ASSUME NEW q \in Request, NEW d \in Delivery,
             ReceiveCallback(d, q) \/ (q # r /\ IgnoreCallback(d, q))
      PROVE  owed'[r]
  BY <1>4 DEF ReceiveCallback, IgnoreCallback, Acknowledge
<1>5. ASSUME NEW d \in Delivery, LockForReversal(d) \/ CrashCallback(d) PROVE owed'[r]
  BY <1>5 DEF LockForReversal, CrashCallback
<1>6. ASSUME NEW d \in Delivery, about[d] # r, CommitCompletion(d) \/ CommitReversal(d)
      PROVE  owed'[r]
  BY <1>6 DEF CommitCompletion, CommitReversal, Acknowledge
<1> QED  BY <1>1, <1>2, <1>3, <1>4, <1>5, <1>6, Steps DEF vars, Submits

Remembered == \A r \in Request : Remembers(r)

LEMMA RemembersNext == RInv /\ Verdicts /\ Remembered /\ [Next]_vars => Remembered'
<1> SUFFICES ASSUME RInv, Verdicts, [Next]_vars, NEW r \in Request, Remembers(r),
                    pc'[r] \in {"commit", "done"},
                    mishap'[r] \cap {"lost_response", "early_verdict"} = {}
             PROVE  /\ gateway'[r] \in {"accepted", "paid", "refused", "timed_out"}
                    /\ gateway'[r] = "accepted" => Shown(r)' = Awaited(r)
                    /\ gateway'[r] \in {"paid", "refused"} =>
                         \/ Shown(r)' = Verdict(r)'
                         \/ Shown(r)' = Awaited(r) /\ owed'[r]
  BY DEF Remembered, Remembers, Awaited
<1>0. TypeOK /\ TypeOK'
  BY IInvNext DEF RInv, IInv
<1>1. mishap[r] \cap {"lost_response", "early_verdict"} = {}
  BY <1>0, MishapsStay
<1> DEFINE Kept ==
      /\ gateway[r] \in {"accepted", "paid", "refused", "timed_out"}
      /\ gateway[r] = "accepted" => Shown(r) = Awaited(r)
      /\ gateway[r] \in {"paid", "refused"} =>
           Shown(r) = Verdict(r) \/ (Shown(r) = Awaited(r) /\ owed[r])
<1>2. pc[r] \in {"commit", "done"} => Kept
  BY <1>1 DEF Remembers
<1>3. CASE Submits(r)
  <2>1. pc'[r] = "commit" /\ draft[r] \in Draft
    BY <1>0, <1>3 DEF Submits, SubmitAccepted, SubmitFailed, SubmitFailedAtOnce, SubmitLost,
       TypeOK
  <2>2. CASE SubmitAccepted(r)
    <3>1. gateway'[r] = "accepted" /\ draft'[r] = [draft[r] EXCEPT !.status = Accepted(r)]
      BY <1>0, <2>2 DEF SubmitAccepted, TypeOK
    <3>2. draft'[r].status = Awaited(r)
      BY <2>1, <3>1 DEF Draft, Accepted, Awaited
    <3> QED  BY <2>1, <3>1, <3>2 DEF Shown
  <2>3. CASE SubmitFailed(r) \/ SubmitFailedAtOnce(r)
    <3>1. gateway'[r] = "refused" /\ draft'[r] = ReverseDeduction(draft[r], r)
      BY <1>0, <2>3 DEF SubmitFailed, SubmitFailedAtOnce, TypeOK
    <3>2. draft'[r].status = "reversed"
      BY <2>1, <3>1, ReverseGives
    <3> QED  BY <2>1, <3>1, <3>2 DEF Shown, Verdict
  <2>4. ~ SubmitLost(r)
    <3>1. SubmitLost(r) => "lost_response" \in mishap'[r]
      BY <1>0 DEF SubmitLost, Hit, TypeOK
    <3> QED  BY <3>1
  <2> QED  BY <1>3, <2>2, <2>3, <2>4 DEF Submits
<1>4. CASE CommitRequest(r)
  <2>1. /\ pc[r] = "commit" /\ pc'[r] = "done" /\ status'[r] = draft[r].status
        /\ UNCHANGED <<gateway, owed>>
    BY <1>0, <1>4 DEF CommitRequest, CommitDraft, hooks, TypeOK
  <2> QED  BY <1>2, <2>1 DEF Shown, Verdict
<1>5. CASE ~ Submits(r) /\ ~ CommitRequest(r)
  <2>1. pc'[r] = pc[r] /\ draft'[r] = draft[r]
    <3>1. LookUpKey(r) => pc'[r] \in {"deduct", "replayed", "failed"}
      BY <1>0 DEF LookUpKey, TypeOK
    <3>2. RejectInput(r) \/ DeductBalanceAndRecord(r) \/ RejectDeduction(r) \/ CrashRequest(r)
          => pc'[r] \in {"rejected", "submit", "failed"}
      BY <1>0 DEF RejectInput, DeductBalanceAndRecord, RejectDeduction, CrashRequest, TypeOK
    <3> QED  BY <1>0, <1>5, <3>1, <3>2, RequestMoves
  <2>2. Kept
    BY <1>2, <2>1
  <2>3. \/ Shown(r)' = Shown(r)
        \/ /\ gateway[r] \in {"paid", "refused"} /\ gateway'[r] = gateway[r]
           /\ Shown(r)' = Verdict(r)
    <3>1. CASE status'[r] = status[r]
      BY <2>1, <3>1 DEF Shown
    <3>2. ASSUME NEW d \in Delivery, about[d] = r, CommitCompletion(d) \/ CommitReversal(d)
          PROVE  /\ gateway[r] \in {"paid", "refused"} /\ gateway'[r] = gateway[r]
                 /\ status'[r] = Verdict(r) /\ pc[r] = "done"
      <4>1. Handles(d) /\ Obeys(d) /\ Returned(d)
        BY DEF RInv, Callbacks, Drafts, Verdicts
      <4>2. pc[r] = "done"
        BY <3>2, <4>1, Settled DEF Handles, CommitCompletion, CommitReversal
      <4>3. CASE CommitCompletion(d)
        BY <1>0, <3>2, <4>1, <4>2, <4>3
           DEF CommitCompletion, Obeys, Verdict, requests, TypeOK
      <4>4. CASE CommitReversal(d)
        BY <1>0, <3>2, <4>1, <4>2, <4>4
           DEF CommitReversal, CommitDraft, Obeys, Returned, Verdict, requests, TypeOK
      <4> QED  BY <3>2, <4>3, <4>4
    <3> QED  BY <1>0, <1>5, <2>1, <3>1, <3>2, RowStays DEF Shown
  <2>4. CASE Decide(r)
    <3>1. /\ gateway[r] = "accepted" /\ gateway'[r] \in {"paid", "refused"}
          /\ owed'[r] = (gateway'[r] = "refused" \/ r \notin Stripe)
      BY <1>0, <2>4 DEF Decide, TypeOK
    <3>2. Shown(r)' = Awaited(r)
      BY <2>2, <2>3, <3>1
    <3> QED  BY <3>1, <3>2 DEF Awaited, Verdict
  <2>5. CASE QueueTimeout(r)
    BY <1>0, <2>5 DEF QueueTimeout, TypeOK
  <2>6. CASE gateway'[r] = gateway[r]
    <3>1. CASE Shown(r)' = Shown(r) /\ owed[r] /\ ~ owed'[r] /\ gateway[r] \in {"paid", "refused"}
      <4>1. ASSUME NEW d \in Delivery, IgnoreCallback(d, r) PROVE Shown(r) = Verdict(r)
        <5>1. pc[r] \in Finished
          <6>1. Hit(r, "early_verdict") => "early_verdict" \in mishap'[r]
            BY <1>0 DEF Hit, TypeOK
          <6> QED  BY <4>1, <6>1 DEF IgnoreCallback
        <5>2. Shown(r) # Awaited(r)
          BY <2>1, <4>1, <5>1 DEF IgnoreCallback, Ignored, Shown, Finished
        <5> QED  BY <2>2, <3>1, <5>2
      <4>2. ASSUME NEW d \in Delivery, about[d] = r, CommitCompletion(d) \/ CommitReversal(d)
            PROVE  Shown(r)' = Verdict(r)
        <5>1. Handles(d) /\ Obeys(d) /\ Returned(d)
          BY DEF RInv, Callbacks, Drafts, Verdicts
        <5>2. pc[r] = "done"
          BY <4>2, <5>1, Settled DEF Handles, CommitCompletion, CommitReversal
        <5>3. status'[r] = Verdict(r)
          BY <1>0, <4>2, <5>1 DEF CommitCompletion, CommitReversal, CommitDraft, Obeys, Returned,
             Verdict, TypeOK
        <5> QED  BY <2>1, <5>2, <5>3 DEF Shown
      <4> QED  BY <2>6, <3>1, <4>1, <4>2, OwedStays DEF Verdict
    <3> QED  BY <2>2, <2>3, <2>6, <3>1 DEF Verdict
  <2> QED  BY <1>0, <1>5, <2>4, <2>5, <2>6, GatewayMoves
<1> QED  BY <1>3, <1>4, <1>5

(* A verdict whose callback died on the way is owed until a delivery of it *)
(* has been committed: the safety side of VerdictsApplied.                 *)
THEOREM VerdictsAreRemembered == Spec => []NoVerdictForgotten
<1>1. Init => Remembered
  BY DEF Init, Remembered, Remembers
<1>2. Remembered => NoVerdictForgotten
  BY DEF Remembered, Remembers, Shown, NoVerdictForgotten
<1> QED  BY <1>1, <1>2, RemembersNext, VerdictsAlways, PTL DEF Spec

----------------------------------------------------------------------------
(* The exemption of PaidIsDeducted is the fault. *)

(* A request that was not carried out did not reach the gateway; nor did   *)
(* the answer of one that was get lost.                                    *)
AnswersHeard ==
  \A r \in Request :
    /\ pc[r] \in {"replayed", "rejected", "failed"} => gateway[r] = "idle"
    /\ "lost_response" \notin mishap[r]

LEMMA AnswersHeardNext ==
  ASSUME "lost_response" \notin Faults, MaxCrashes = 0
  PROVE  RInv /\ Verdicts /\ AnswersHeard /\ [Next]_vars => AnswersHeard'
<1> SUFFICES ASSUME RInv, Verdicts, AnswersHeard, [Next]_vars PROVE AnswersHeard'
  OBVIOUS
<1>0. TypeOK /\ crashes = 0
  BY DEF RInv, IInv, TypeOK
<1>1. ASSUME NEW r \in Request PROVE ~ SubmitLost(r) /\ ~ CrashRequest(r)
  BY <1>0 DEF SubmitLost, CrashRequest
<1>2. ASSUME NEW r \in Request, pc'[r] \in {"replayed", "rejected", "failed"}
      PROVE  gateway'[r] = "idle"
  <2>1. CASE pc'[r] = pc[r]
    <3>1. gateway[r] = "idle"
      BY <1>2, <2>1 DEF AnswersHeard
    <3>2. ASSUME NEW q \in Request, Submits(q) \/ Decide(q) \/ QueueTimeout(q)
          PROVE  gateway'[r] = gateway[r]
      BY <1>0, <1>2, <2>1, <3>1, <3>2 DEF Submits, SubmitAccepted, SubmitFailed,
         SubmitFailedAtOnce, SubmitLost, Decide, QueueTimeout, TypeOK
    <3>3. gateway'[r] = gateway[r]
      BY <3>2, Steps DEF vars, requests, Submits, LookUpKey, RejectInput,
         DeductBalanceAndRecord, RejectDeduction, CommitRequest, CrashRequest, IgnoreCallback,
         ReceiveCallback, CommitCompletion, LockForReversal, CommitReversal, CrashCallback
    <3> QED  BY <3>1, <3>3
  <2>2. CASE LookUpKey(r) \/ RejectInput(r) \/ RejectDeduction(r)
    <3>1. pc[r] \in {"new", "deduct"} /\ gateway' = gateway
      BY <2>2 DEF LookUpKey, RejectInput, RejectDeduction
    <3> QED  BY <3>1 DEF Verdicts, Judged
  <2>3. CASE DeductBalanceAndRecord(r) \/ Submits(r) \/ CommitRequest(r)
    BY <1>0, <1>2, <2>3 DEF DeductBalanceAndRecord, Submits, SubmitAccepted, SubmitFailed,
       SubmitFailedAtOnce, SubmitLost, CommitRequest, TypeOK
  <2> QED  BY <1>0, <1>1, <2>1, <2>2, <2>3, RequestMoves
<1>3. ASSUME NEW r \in Request PROVE "lost_response" \notin mishap'[r]
  <2>1. ASSUME NEW q \in Request, NEW fault \in FaultKinds \ {"lost_response"}, Hit(q, fault)
        PROVE  "lost_response" \notin mishap'[r]
    BY <1>0, <2>1 DEF AnswersHeard, Hit, TypeOK
  <2>2. CASE UNCHANGED mishap
    BY <2>2 DEF AnswersHeard
  <2> QED
    BY <1>1, <2>1, <2>2, Steps DEF vars, LookUpKey, RejectInput, DeductBalanceAndRecord,
       RejectDeduction, SubmitAccepted, SubmitFailed, SubmitFailedAtOnce, CommitRequest,
       Decide, QueueTimeout, IgnoreCallback, ReceiveCallback, CommitCompletion,
       LockForReversal, CommitReversal, CrashCallback
<1> QED  BY <1>2, <1>3 DEF AnswersHeard

(* As long as every request lives to commit what it ordered and hears the  *)
(* gateway's answer, all money the gateway sends is deducted.              *)
THEOREM SentIsDeductedIfHeard ==
  ASSUME "lost_response" \notin Faults, MaxCrashes = 0
  PROVE  Spec => []SentIsDeducted
<1>1. Init => AnswersHeard
  BY DEF Init, AnswersHeard
<1>2. RInv /\ Verdicts /\ AnswersHeard => SentIsDeducted
  BY PaidHolds DEF AnswersHeard, PaidIsDeducted, SentIsDeducted
<1> QED  BY <1>1, <1>2, AnswersHeardNext, VerdictsAlways, PTL DEF Spec
=============================================================================

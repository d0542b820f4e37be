--------------------------- MODULE DepositsProofs ---------------------------
(***************************************************************************)
(* Proofs about Deposits, for any number of requests, callbacks, accounts  *)
(* and keys, and under every fault.                                        *)
(***************************************************************************)
EXTENDS Deposits, TLAPS

(* A callback in the making is about a deposit, an unused slot about none. *)
InUse == \A d \in Delivery : IF hook[d] = "idle" THEN about[d] = Unset
                             ELSE about[d] \in Request

(* A callback that has written and not committed holds the account's row,  *)
(* and its draft is the committed balance plus what it credits.            *)
HoldsRow == \A d \in Delivery : hook[d] = "commit" => lock[Payee[about[d]]] = d

(* Only such callbacks hold one: no path leaves a row locked behind it.    *)
LockEarned ==
  \A d \in Delivery, a \in Account :
    lock[a] = d => hook[d] = "commit" /\ a = Payee[about[d]]

DraftsMirror ==
  \A d \in Delivery :
    hook[d] = "commit" => draft[d].balance = balance[Payee[about[d]]] + draft[d].credit

(* What such a draft says of the deposit: one credit, or a missing rate.   *)
DraftsTell ==
  \A d \in Delivery : hook[d] = "commit" =>
    \/ draft[d].status = "completed" /\ draft[d].credit \in Conversions(about[d])
    \/ /\ draft[d].status = "failed" /\ draft[d].credit = 0
       /\ "no_rate" \in mishap[about[d]]

(* Nothing is asked of the gateway before its turn, and there is no row    *)
(* before the request is done.                                             *)
InTurn ==
  \A r \in Request : /\ pc[r] \in {"new", "charge"} => gateway[r] = "idle"
                     /\ pc[r] # "done" => status[r] = "none"

(* The verdicts on their way and in the handlers' hands are true, and a    *)
(* handler has found a committed row.                                      *)
Refused(r) == gateway[r] = "unpaid" \/ "pay_again" \in mishap[r]

VerdictsTrue ==
  \A r \in Request : /\ "paid" \in owed[r] => gateway[r] = "paid"
                     /\ "unpaid" \in owed[r] => Refused(r)

HooksTrue ==
  \A d \in Delivery : /\ hook[d] # "idle" => pc[about[d]] = "done"
                      /\ hook[d] \in {"credit", "commit"} => gateway[about[d]] = "paid"
                      /\ hook[d] = "fail" => Refused(about[d])

(* A callback that no other has overlapped finds its deposit pending till  *)
(* the end, and is the only one about it.                                  *)
Alone ==
  \A d \in Delivery : hook[d] # "idle" /\ "overlap" \notin mishap[about[d]] =>
    /\ status[about[d]] = "pending"
    /\ \A e \in Delivery : about[e] = about[d] => e = d

Locking == TypeOK /\ InUse /\ HoldsRow /\ LockEarned /\ DraftsMirror
Verdicts == InTurn /\ VerdictsTrue /\ HooksTrue /\ CreditedOnlyIfPaid
Rows == DraftsTell /\ Alone /\ RowTellsLedger /\ FailedIsUnpaid

IInv == Locking /\ Verdicts /\ Rows

USE DepositConstants DEF Finished, Status

----------------------------------------------------------------------------
(* Type correctness. *)

LEMMA ConversionType == ASSUME NEW r \in Request PROVE Conversions(r) \subseteq Nat \ {0}
<1>1. Amount[r] \in Nat \ {0} /\ \A rate \in Rates : rate \in Nat \ {0}
  OBVIOUS
<1>2. \A i, j \in Nat \ {0} : i * j \in Nat \ {0}
  OBVIOUS
<1>3. \A rate \in Rates : Amount[r] * rate \in Nat \ {0}
  BY <1>1, <1>2
<1> QED  BY <1>1, <1>3 DEF Conversions

LEMMA HitType ==
  ASSUME NEW r \in Request, NEW fault \in FaultKinds, TypeOK, Hit(r, fault)
  PROVE  mishap' \in [Request -> SUBSET FaultKinds]
  BY DEF Hit, TypeOK

LEMMA FaultNames ==
  {"lost_response", "early_verdict", "overlap", "double_tap", "no_rate", "pay_again"}
  \subseteq FaultKinds
  BY DEF FaultKinds

LEMMA AcknowledgeType ==
  ASSUME NEW r \in Request, NEW verdict \in {"paid", "unpaid"}, TypeOK,
         Acknowledge(r, verdict)
  PROVE  owed' \in [Request -> SUBSET {"paid", "unpaid"}]
  BY DEF Acknowledge, TypeOK

LEMMA UnlockType == ASSUME NEW d, TypeOK, Unlock(d)
                    PROVE  lock' \in [Account -> Delivery \cup Others \cup {NoOne}]
  BY DEF Unlock, TypeOK

LEMMA DraftRecord ==
  ASSUME NEW have \in Nat, NEW amt \in Nat, NEW st \in Status
  PROVE  [balance |-> have, credit |-> amt, status |-> st]
           \in [balance : Nat, credit : Nat, status : Status]
  OBVIOUS

LEMMA TypeInit == Init => TypeOK
<1> SUFFICES ASSUME Init PROVE TypeOK
  OBVIOUS
<1>1. draft \in [Delivery -> [balance : Nat, credit : Nat, status : Status]]
  BY DraftRecord DEF Init, NoDraft
<1> QED  BY <1>1 DEF Init, TypeOK

LEMMA TypeNext == TypeOK /\ InUse /\ [Next]_vars => TypeOK'
<1> SUFFICES ASSUME TypeOK, InUse, [Next]_vars PROVE TypeOK'
  OBVIOUS
<1> USE DEF TypeOK, rows
<1>0. NoDraft \in [balance : Nat, credit : Nat, status : Status]
  BY DEF NoDraft
<1>1. ASSUME NEW r \in Request, LookUpKey(r) \/ ChargeLost(r) PROVE TypeOK'
  <2>1. mishap' \in [Request -> SUBSET FaultKinds]
    BY <1>1, HitType, FaultNames DEF LookUpKey, ChargeLost
  <2>2. pc' \in [Request -> {"new", "charge", "insert"} \cup Finished]
    BY <1>1 DEF LookUpKey, ChargeLost
  <2>3. gateway' \in [Request -> {"idle", "asked", "paid", "unpaid"}]
    BY <1>1 DEF LookUpKey, ChargeLost
  <2> QED  BY <1>1, <2>1, <2>2, <2>3 DEF LookUpKey, ChargeLost
<1>2. ASSUME NEW r \in Request, RejectCharge(r) \/ ChargeAccepted(r) PROVE TypeOK'
  BY <1>2 DEF RejectCharge, ChargeAccepted
<1>3. ASSUME NEW r \in Request, InsertDeposit(r) \/ CrashRequest(r) PROVE TypeOK'
  BY <1>3, SMTT(30) DEF InsertDeposit, CrashRequest
<1>4. ASSUME NEW r \in Request, Decide(r) PROVE TypeOK'
  BY <1>4 DEF Decide
<1>5. ASSUME NEW r \in Request, PayAgain(r) PROVE TypeOK'
  <2>1. mishap' \in [Request -> SUBSET FaultKinds]
    BY <1>5, HitType, FaultNames DEF PayAgain
  <2> QED  BY <1>5, <2>1 DEF PayAgain
<1>6. ASSUME NEW r \in Request, NEW d \in Delivery, NEW verdict \in {"paid", "unpaid"},
             IgnoreCallback(d, r, verdict) \/ ReceiveCallback(d, r, verdict)
      PROVE  TypeOK'
  <2>1. mishap' \in [Request -> SUBSET FaultKinds]
    BY <1>6, HitType, FaultNames DEF IgnoreCallback, ReceiveCallback
  <2>2. owed' \in [Request -> SUBSET {"paid", "unpaid"}]
    BY <1>6, AcknowledgeType DEF IgnoreCallback, ReceiveCallback
  <2>3. /\ hook' \in [Delivery -> {"idle", "credit", "fail", "commit"}]
        /\ about' \in [Delivery -> Request \cup {Unset}]
    <3>1. CASE UNCHANGED <<hook, about>>
      BY <3>1
    <3>2. CASE ReceiveCallback(d, r, verdict)
      <4> DEFINE next == IF Confirms(verdict) THEN "credit" ELSE "fail"
      <4>1. next \in {"idle", "credit", "fail", "commit"}
        OBVIOUS
      <4>2. hook' = [hook EXCEPT ![d] = next] /\ about' = [about EXCEPT ![d] = r]
        BY <3>2 DEF ReceiveCallback
      <4> HIDE DEF next
      <4> QED  BY <4>1, <4>2
    <3> QED  BY <1>6, <3>1, <3>2 DEF IgnoreCallback
  <2>4. UNCHANGED <<balance, ledger, status, credited, lock, draft, pc, gateway, crashes>>
    BY <1>6 DEF IgnoreCallback, ReceiveCallback
  <2> QED  BY <2>1, <2>2, <2>3, <2>4
<1>7. ASSUME NEW d \in Delivery, LockAndCredit(d) PROVE TypeOK'
  <2>1. about[d] \in Request
    BY <1>7 DEF LockAndCredit, InUse
  <2>2. PICK amt \in Conversions(about[d]) : draft' = [draft EXCEPT ![d] =
          CreditAccountAndRecord(balance[Payee[about[d]]], amt, about[d])]
    BY <1>7 DEF LockAndCredit
  <2>3. amt \in Nat /\ balance[Payee[about[d]]] \in Nat
    BY <2>1, <2>2, ConversionType
  <2>4. CreditAccountAndRecord(balance[Payee[about[d]]], amt, about[d])
          \in [balance : Nat, credit : Nat, status : Status]
    BY <2>3 DEF CreditAccountAndRecord
  <2>5. lock' \in [Account -> Delivery \cup Others \cup {NoOne}]
    BY <1>7 DEF LockAndCredit, LockAccount
  <2> QED  BY <1>7, <2>2, <2>4, <2>5 DEF LockAndCredit
<1>8. ASSUME NEW d \in Delivery, LockWithoutRate(d) PROVE TypeOK'
  <2>1. about[d] \in Request
    BY <1>8 DEF LockWithoutRate, InUse
  <2>2. mishap' \in [Request -> SUBSET FaultKinds]
    BY <1>8, <2>1, HitType, FaultNames DEF LockWithoutRate
  <2>3. balance[Payee[about[d]]] \in Nat
    BY <2>1
  <2>4. draft' \in [Delivery -> [balance : Nat, credit : Nat, status : Status]]
    BY <1>8, <2>3 DEF LockWithoutRate
  <2>5. lock' \in [Account -> Delivery \cup Others \cup {NoOne}]
    BY <1>8 DEF LockWithoutRate, LockAccount
  <2> QED  BY <1>8, <2>2, <2>4, <2>5 DEF LockWithoutRate
<1>9. ASSUME NEW d \in Delivery, CommitCallback(d) PROVE TypeOK'
  <2>1. about[d] \in Request
    BY <1>9 DEF CommitCallback, InUse
  <2>2. draft[d].balance \in Nat /\ draft[d].credit \in Nat /\ draft[d].status \in Status
    OBVIOUS
  <2>3. /\ balance' \in [Account -> Nat] /\ ledger' \in [Account -> Int]
        /\ credited' \in [Request -> Nat] /\ status' \in [Request -> Status]
    <3>1. balance' \in [Account -> Nat] /\ status' \in [Request -> Status]
      BY <1>9, <2>2 DEF CommitCallback
    <3>2. \A a \in Account : ledger[a] + draft[d].credit \in Int
      BY <2>2
    <3>3. ledger' \in [Account -> Int]
      BY <1>9, <2>1, <3>2 DEF CommitCallback
    <3>4. credited[about[d]] + draft[d].credit \in Nat
      BY <2>1, <2>2
    <3>5. credited' \in [Request -> Nat]
      BY <1>9, <3>4 DEF CommitCallback
    <3> QED  BY <3>1, <3>3, <3>5
  <2>4. draft' \in [Delivery -> [balance : Nat, credit : Nat, status : Status]]
    BY <1>0, <1>9 DEF CommitCallback
  <2>5. lock' \in [Account -> Delivery \cup Others \cup {NoOne}]
    BY <1>9, UnlockType DEF CommitCallback
  <2>6. owed' \in [Request -> SUBSET {"paid", "unpaid"}]
    BY <1>9, <2>1, AcknowledgeType DEF CommitCallback
  <2>7. /\ hook' \in [Delivery -> {"idle", "credit", "fail", "commit"}]
        /\ about' \in [Delivery -> Request \cup {Unset}]
        /\ UNCHANGED <<pc, gateway, mishap, crashes>>
    BY <1>9 DEF CommitCallback, Release
  <2> QED  BY <2>3, <2>4, <2>5, <2>6, <2>7
<1>10. ASSUME NEW d \in Delivery, CommitFailure(d) PROVE TypeOK'
  <2>1. about[d] \in Request
    BY <1>10 DEF CommitFailure, InUse
  <2>2. owed' \in [Request -> SUBSET {"paid", "unpaid"}]
    BY <1>10, <2>1, AcknowledgeType DEF CommitFailure
  <2> QED  BY <1>10, <2>2 DEF CommitFailure, Release
<1>11. ASSUME NEW d \in Delivery, CrashCallback(d) PROVE TypeOK'
  <2>1. lock' \in [Account -> Delivery \cup Others \cup {NoOne}]
    BY <1>11, UnlockType DEF CrashCallback
  <2>2. draft' \in [Delivery -> [balance : Nat, credit : Nat, status : Status]]
    BY <1>0, <1>11 DEF CrashCallback
  <2> QED  BY <1>11, <2>1, <2>2 DEF CrashCallback, Release
<1>12. ASSUME UNCHANGED vars PROVE TypeOK'
  BY <1>12 DEF vars
<1> QED  BY <1>1, <1>2, <1>3, <1>4, <1>5, <1>6, <1>7, <1>8, <1>9, <1>10, <1>11, <1>12
         DEF Next, RequestStep, CallbackStep, Deliver, Rest

----------------------------------------------------------------------------
(* The steps, sorted by what they leave alone. *)

(* Neither the rows nor the callbacks: what requests and payers do, and    *)
(* the requests' deaths.                                                   *)
LEMMA QuietSteps ==
  ASSUME NEW r \in Request,
         \/ LookUpKey(r) \/ RejectCharge(r) \/ ChargeAccepted(r) \/ ChargeLost(r)
         \/ CrashRequest(r) \/ Decide(r) \/ PayAgain(r)
  PROVE  UNCHANGED <<balance, ledger, status, credited, lock, draft, hook, about>>
  BY DEF rows, LookUpKey, RejectCharge, ChargeAccepted, ChargeLost, CrashRequest, Decide,
         PayAgain

(* Every step is one of these. *)
LEMMA Steps ==
  ASSUME [Next]_vars
  PROVE  \/ UNCHANGED vars
         \/ \E r \in Request :
              \/ LookUpKey(r) \/ RejectCharge(r) \/ ChargeAccepted(r) \/ ChargeLost(r)
              \/ InsertDeposit(r) \/ CrashRequest(r) \/ Decide(r) \/ PayAgain(r)
         \/ \E r \in Request, d \in Delivery, verdict \in {"paid", "unpaid"} :
              IgnoreCallback(d, r, verdict) \/ ReceiveCallback(d, r, verdict)
         \/ \E d \in Delivery :
              \/ LockAndCredit(d) \/ LockWithoutRate(d) \/ CommitCallback(d)
              \/ CommitFailure(d) \/ CrashCallback(d)
  BY DEF Next, RequestStep, CallbackStep, Deliver, Rest

----------------------------------------------------------------------------
(* The row locks and the ledger. *)

LEMMA InUseNext == TypeOK /\ InUse /\ [Next]_vars => InUse'
<1> SUFFICES ASSUME TypeOK, InUse, [Next]_vars PROVE InUse'
  OBVIOUS
<1> USE DEF TypeOK, InUse
<1>1. CASE UNCHANGED <<hook, about>>
  BY <1>1
<1>2. ASSUME NEW d \in Delivery, NEW r \in Request, NEW verdict \in {"paid", "unpaid"},
             ReceiveCallback(d, r, verdict)
      PROVE  InUse'
  BY <1>2 DEF ReceiveCallback
<1>3. ASSUME NEW d \in Delivery, CommitCallback(d) \/ CommitFailure(d) \/ CrashCallback(d)
      PROVE  InUse'
  BY <1>3 DEF CommitCallback, CommitFailure, CrashCallback, Release
<1>4. ASSUME NEW d \in Delivery, LockAndCredit(d) \/ LockWithoutRate(d) PROVE InUse'
  BY <1>4 DEF LockAndCredit, LockWithoutRate
<1> QED
  BY <1>1, <1>2, <1>3, <1>4, Steps, QuietSteps DEF vars, InsertDeposit, IgnoreCallback

(* Who holds the row of an account whose draft is not committed, and what  *)
(* the draft is: the same for every callback d, before and after a step.   *)
LEMMA LockEarnedNext == TypeOK /\ InUse /\ LockEarned /\ [Next]_vars => LockEarned'
<1> SUFFICES ASSUME TypeOK, InUse, LockEarned, [Next]_vars,
                    NEW e \in Delivery, NEW a \in Account, lock'[a] = e
             PROVE  hook'[e] = "commit" /\ a = Payee[about'[e]]
  BY DEF LockEarned
<1> USE DEF TypeOK
<1>0. lock[a] = e => hook[e] = "commit" /\ a = Payee[about[e]]
  BY DEF LockEarned
<1>1. CASE UNCHANGED <<lock, hook, about>>
  BY <1>0, <1>1
<1>2. ASSUME NEW d \in Delivery, NEW r \in Request, NEW verdict \in {"paid", "unpaid"},
             ReceiveCallback(d, r, verdict)
      PROVE  hook'[e] = "commit" /\ a = Payee[about'[e]]
  <2>1. hook[d] = "idle" /\ lock' = lock
    BY <1>2 DEF ReceiveCallback, CanDeliver
  <2>2. e # d
    BY <1>0, <2>1
  <2> QED  BY <1>0, <1>2, <2>1, <2>2 DEF ReceiveCallback
<1>3. ASSUME NEW d \in Delivery, LockAndCredit(d) \/ LockWithoutRate(d)
      PROVE  hook'[e] = "commit" /\ a = Payee[about'[e]]
  <2>1. /\ about' = about /\ hook' = [hook EXCEPT ![d] = "commit"]
        /\ lock' = [lock EXCEPT ![Payee[about[d]]] = d]
    BY <1>3 DEF LockAndCredit, LockWithoutRate, LockAccount
  <2> QED  BY <1>0, <2>1
<1>4. ASSUME NEW d \in Delivery, CommitCallback(d) \/ CrashCallback(d)
      PROVE  hook'[e] = "commit" /\ a = Payee[about'[e]]
  <2>1. e # d /\ lock[a] = e
    BY <1>4 DEF CommitCallback, CrashCallback, Unlock
  <2> QED  BY <1>0, <1>4, <2>1 DEF CommitCallback, CrashCallback, Release
<1>5. ASSUME NEW d \in Delivery, CommitFailure(d)
      PROVE  hook'[e] = "commit" /\ a = Payee[about'[e]]
  BY <1>0, <1>5 DEF CommitFailure, Release
<1> QED
  BY <1>1, <1>2, <1>3, <1>4, <1>5, Steps, QuietSteps DEF vars, InsertDeposit, IgnoreCallback

LEMMA LockingNext == Locking /\ [Next]_vars => Locking'
<1> SUFFICES ASSUME Locking, [Next]_vars PROVE Locking'
  OBVIOUS
<1>1. TypeOK /\ InUse /\ TypeOK' /\ InUse'
  BY TypeNext, InUseNext DEF Locking
<1>3. LockEarned'
  BY LockEarnedNext DEF Locking
<1> DEFINE Good(d) ==
      hook[d] = "commit" =>
        /\ lock[Payee[about[d]]] = d
        /\ draft[d].balance = balance[Payee[about[d]]] + draft[d].credit
<1>2. \A d \in Delivery : Good(d)
  BY DEF Locking, HoldsRow, DraftsMirror
<1>4. SUFFICES \A d \in Delivery : Good(d)'
  BY <1>1, <1>3 DEF Locking, HoldsRow, DraftsMirror
<1>5. CASE UNCHANGED <<balance, lock, draft, hook, about>>
  BY <1>2, <1>5
<1>6. ASSUME NEW d \in Delivery, NEW r \in Request, NEW verdict \in {"paid", "unpaid"},
             ReceiveCallback(d, r, verdict)
      PROVE  \A e \in Delivery : Good(e)'
  <2>1. UNCHANGED <<balance, lock, draft>> /\ hook'[d] # "commit"
    BY <1>1, <1>6 DEF ReceiveCallback, rows, TypeOK
  <2>2. \A e \in Delivery \ {d} : hook'[e] = hook[e] /\ about'[e] = about[e]
    BY <1>1, <1>6 DEF ReceiveCallback, TypeOK
  <2> QED  BY <1>2, <2>1, <2>2
<1>7. ASSUME NEW d \in Delivery, LockAndCredit(d) \/ LockWithoutRate(d)
      PROVE  \A e \in Delivery : Good(e)'
  <2> DEFINE a == Payee[about[d]]
  <2>1. about[d] \in Request /\ a \in Account /\ balance[a] \in Nat
    BY <1>1, <1>7 DEF LockAndCredit, LockWithoutRate, InUse, TypeOK
  <2>2. /\ UNCHANGED <<balance, about>> /\ lock[a] = NoOne
        /\ lock' = [lock EXCEPT ![a] = d] /\ hook' = [hook EXCEPT ![d] = "commit"]
    BY <1>7 DEF LockAndCredit, LockWithoutRate, LockAccount, rows
  <2>3. draft'[d].balance = balance[a] + draft'[d].credit
    <3>1. CASE LockAndCredit(d)
      <4>1. PICK amt \in Conversions(about[d]) :
              draft' = [draft EXCEPT ![d] = CreditAccountAndRecord(balance[a], amt, about[d])]
        BY <3>1 DEF LockAndCredit
      <4> QED  BY <1>1, <4>1 DEF CreditAccountAndRecord, TypeOK
    <3>2. CASE LockWithoutRate(d)
      <4>1. draft'[d].balance = balance[a] /\ draft'[d].credit = 0
        BY <1>1, <3>2 DEF LockWithoutRate, TypeOK
      <4> QED  BY <2>1, <4>1
    <3> QED  BY <1>7, <3>1, <3>2
  <2>4. \A e \in Delivery \ {d} : draft'[e] = draft[e] /\ hook'[e] = hook[e]
    BY <1>1, <1>7 DEF LockAndCredit, LockWithoutRate, TypeOK
  <2>5. Good(d)'
    BY <1>1, <2>1, <2>2, <2>3 DEF TypeOK
  <2>6. ASSUME NEW e \in Delivery \ {d} PROVE Good(e)'
    <3>1. SUFFICES ASSUME hook[e] = "commit"
                   PROVE  /\ lock'[Payee[about[e]]] = e
                          /\ draft[e].balance = balance[Payee[about[e]]] + draft[e].credit
      BY <2>2, <2>4
    <3>2. Payee[about[e]] # a
      BY <1>2, <2>2, <3>1
    <3> QED  BY <1>1, <1>2, <2>2, <3>1, <3>2 DEF TypeOK
  <2> QED  BY <2>2, <2>5, <2>6
<1>8. ASSUME NEW d \in Delivery, CommitCallback(d)
      PROVE  \A e \in Delivery : Good(e)'
  <2> DEFINE a == Payee[about[d]]
  <2>1. about[d] \in Request /\ a \in Account /\ hook[d] = "commit"
    BY <1>1, <1>8 DEF CommitCallback, InUse
  <2>2. /\ balance' = [balance EXCEPT ![a] = draft[d].balance]
        /\ draft' = [draft EXCEPT ![d] = NoDraft]
    BY <1>8 DEF CommitCallback
  <2>3. lock' = [b \in Account |-> IF lock[b] = d THEN NoOne ELSE lock[b]]
    BY <1>8 DEF CommitCallback, Unlock
  <2>4. hook' = [hook EXCEPT ![d] = "idle"] /\ about' = [about EXCEPT ![d] = Unset]
    BY <1>8 DEF CommitCallback, Release
  <2>5. lock[a] = d /\ draft[d].balance = balance[a] + draft[d].credit
    BY <1>2, <2>1
  <2>7. ASSUME NEW e \in Delivery PROVE Good(e)'
    <3>1. CASE e = d
      BY <1>1, <2>4, <3>1 DEF TypeOK
    <3>2. CASE e # d /\ hook[e] = "commit"
      <4>1. hook'[e] = hook[e] /\ about'[e] = about[e] /\ draft'[e] = draft[e]
        BY <1>1, <2>2, <2>4, <3>2 DEF TypeOK
      <4>2. about[e] \in Request /\ Payee[about[e]] \in Account
        BY <1>1, <3>2 DEF InUse
      <4>3. Payee[about[e]] # a /\ lock[Payee[about[e]]] = e
        BY <1>2, <2>5, <3>2
      <4> QED  BY <1>1, <1>2, <2>2, <2>3, <3>2, <4>1, <4>2, <4>3 DEF TypeOK
    <3>3. CASE e # d /\ hook[e] # "commit"
      BY <1>1, <2>4, <3>3 DEF TypeOK
    <3> QED  BY <3>1, <3>2, <3>3
  <2> QED  BY <2>7
<1>9. ASSUME NEW d \in Delivery, CommitFailure(d) \/ CrashCallback(d)
      PROVE  \A e \in Delivery : Good(e)'
  <2>1. /\ UNCHANGED balance /\ hook'[d] = "idle"
        /\ \A e \in Delivery \ {d} :
             hook'[e] = hook[e] /\ about'[e] = about[e] /\ draft'[e] = draft[e]
    BY <1>1, <1>9 DEF CommitFailure, CrashCallback, Release, rows, TypeOK
  <2>2. \A b \in Account : lock[b] # d => lock'[b] = lock[b]
    BY <1>9 DEF CommitFailure, CrashCallback, Unlock
  <2>3. ASSUME NEW e \in Delivery \ {d} PROVE Good(e)'
    <3>1. SUFFICES ASSUME hook[e] = "commit"
                   PROVE  /\ lock'[Payee[about[e]]] = e
                          /\ draft[e].balance = balance[Payee[about[e]]] + draft[e].credit
      BY <2>1
    <3>2. Payee[about[e]] \in Account
      BY <1>1, <3>1 DEF InUse
    <3> QED  BY <1>2, <2>2, <3>1, <3>2
  <2> QED  BY <2>1, <2>3
<1> QED
  BY <1>5, <1>6, <1>7, <1>8, <1>9, Steps, QuietSteps
     DEF vars, rows, InsertDeposit, IgnoreCallback

(* Only the commit of a callback touches a balance or the ledger, and both *)
(* alike; it holds the row, and lets it go.                                *)
Posts(a) ==
  /\ balance'[a] - balance[a] = ledger'[a] - ledger[a]
  /\ balance'[a] # balance[a] => lock[a] \in Delivery /\ lock'[a] = NoOne
  /\ balance'[a] >= balance[a]

Grants(a) ==
  \/ lock'[a] = lock[a]
  \/ lock[a] = NoOne /\ lock'[a] \in Delivery
  \/ lock[a] \in Delivery /\ lock'[a] = NoOne

LEMMA StepGrants == TypeOK /\ [Next]_vars => \A a \in Account : Grants(a)
<1> SUFFICES ASSUME TypeOK, [Next]_vars, NEW a \in Account PROVE Grants(a)
  OBVIOUS
<1> USE DEF Grants
<1>1. CASE UNCHANGED lock
  BY <1>1
<1>2. ASSUME NEW d \in Delivery, LockAndCredit(d) \/ LockWithoutRate(d) PROVE Grants(a)
  BY <1>2 DEF LockAndCredit, LockWithoutRate, LockAccount, TypeOK
<1>3. ASSUME NEW d \in Delivery, CommitCallback(d) \/ CrashCallback(d) PROVE Grants(a)
  BY <1>3 DEF CommitCallback, CrashCallback, Unlock
<1> HIDE DEF Grants
<1> QED
  BY <1>1, <1>2, <1>3, Steps, QuietSteps DEF vars, InsertDeposit, IgnoreCallback,
     ReceiveCallback, CommitFailure

LEMMA StepPosts == Locking /\ [Next]_vars => \A a \in Account : Posts(a)
<1> SUFFICES ASSUME Locking, [Next]_vars, NEW a \in Account PROVE Posts(a)
  OBVIOUS
<1>0. TypeOK /\ InUse /\ balance[a] \in Nat /\ ledger[a] \in Int
  BY DEF Locking, TypeOK
<1>1. CASE UNCHANGED <<balance, ledger>>
  BY <1>0, <1>1 DEF Posts
<1>2. ASSUME NEW d \in Delivery, CommitCallback(d) PROVE Posts(a)
  <2> DEFINE b == Payee[about[d]]
  <2>1. hook[d] = "commit" /\ b \in Account /\ draft[d].credit \in Nat
    BY <1>0, <1>2 DEF CommitCallback, InUse, TypeOK
  <2>2. lock[b] = d /\ draft[d].balance = balance[b] + draft[d].credit
    BY <2>1 DEF Locking, HoldsRow, DraftsMirror
  <2>3. /\ balance' = [balance EXCEPT ![b] = draft[d].balance]
        /\ ledger' = [ledger EXCEPT ![b] = @ + draft[d].credit]
        /\ lock' = [c \in Account |-> IF lock[c] = d THEN NoOne ELSE lock[c]]
    BY <1>2 DEF CommitCallback, Unlock
  <2>4. CASE a = b
    <3>1. balance'[a] = balance[a] + draft[d].credit /\ ledger'[a] = ledger[a] + draft[d].credit
      BY <1>0, <2>2, <2>3, <2>4 DEF TypeOK
    <3>2. lock[a] = d /\ lock'[a] = NoOne
      BY <2>1, <2>2, <2>3, <2>4
    <3> QED  BY <1>0, <2>1, <3>1, <3>2 DEF Posts
  <2>5. CASE a # b
    <3>1. balance'[a] = balance[a] /\ ledger'[a] = ledger[a]
      BY <1>0, <2>3, <2>5 DEF TypeOK
    <3> QED  BY <1>0, <3>1 DEF Posts
  <2> QED  BY <2>4, <2>5
<1> QED
  BY <1>1, <1>2, Steps, QuietSteps DEF vars, rows, InsertDeposit, IgnoreCallback, ReceiveCallback,
     LockAndCredit, LockWithoutRate, CommitFailure, CrashCallback

----------------------------------------------------------------------------
(* The verdicts. *)

(* History only grows. *)
LEMMA MishapsStay ==
  TypeOK /\ [Next]_vars => \A r \in Request : mishap[r] \subseteq mishap'[r]
<1> SUFFICES ASSUME TypeOK, [Next]_vars PROVE \A r \in Request : mishap[r] \subseteq mishap'[r]
  OBVIOUS
<1>1. CASE UNCHANGED mishap
  BY <1>1
<1>2. ASSUME NEW q, NEW fault, Hit(q, fault)
      PROVE  \A r \in Request : mishap[r] \subseteq mishap'[r]
  BY <1>2 DEF Hit, TypeOK
<1> QED
  BY <1>1, <1>2, Steps DEF vars, LookUpKey, RejectCharge, ChargeAccepted, ChargeLost,
     InsertDeposit, CrashRequest, Decide, PayAgain, IgnoreCallback, ReceiveCallback,
     LockAndCredit, LockWithoutRate, CommitCallback, CommitFailure, CrashCallback

(* What is paid stays paid, and a refusal is only taken back by paying     *)
(* again.                                                                  *)
LEMMA ChargesStay ==
  TypeOK /\ InTurn /\ [Next]_vars =>
    \A r \in Request : /\ gateway[r] = "paid" => gateway'[r] = "paid"
                       /\ Refused(r) => Refused(r)'
<1> SUFFICES ASSUME TypeOK, InTurn, [Next]_vars, NEW r \in Request
             PROVE  /\ gateway[r] = "paid" => gateway'[r] = "paid"
                    /\ Refused(r) => Refused(r)'
  OBVIOUS
<1>0. mishap[r] \subseteq mishap'[r]
  BY MishapsStay
<1>1. CASE gateway'[r] = gateway[r]
  BY <1>0, <1>1 DEF Refused
<1>2. ASSUME NEW q \in Request, ChargeAccepted(q) \/ ChargeLost(q)
      PROVE  gateway'[r] = gateway[r] \/ gateway[r] = "idle"
  BY <1>2 DEF ChargeAccepted, ChargeLost, InTurn, TypeOK
<1>3. ASSUME NEW q \in Request, Decide(q)
      PROVE  gateway'[r] = gateway[r] \/ gateway[r] = "asked"
  BY <1>3 DEF Decide, TypeOK
<1>4. ASSUME NEW q \in Request, PayAgain(q)
      PROVE  gateway'[r] = gateway[r] \/ (gateway[r] = "unpaid" /\ "pay_again" \in mishap'[r])
  BY <1>4 DEF PayAgain, Hit, TypeOK
<1>5. \/ gateway'[r] = gateway[r]
      \/ gateway[r] \in {"idle", "asked"}
      \/ gateway[r] = "unpaid" /\ "pay_again" \in mishap'[r]
  BY <1>2, <1>3, <1>4, Steps DEF vars, LookUpKey, RejectCharge,
     InsertDeposit, CrashRequest, IgnoreCallback, ReceiveCallback,
     LockAndCredit, LockWithoutRate, CommitCallback, CommitFailure, CrashCallback
<1> QED  BY <1>0, <1>1, <1>5 DEF Refused

LEMMA InTurnNext == TypeOK /\ InUse /\ InTurn /\ HooksTrue /\ [Next]_vars => InTurn'
<1> SUFFICES ASSUME TypeOK, InUse, InTurn, HooksTrue, [Next]_vars, NEW r \in Request
             PROVE  /\ pc'[r] \in {"new", "charge"} => gateway'[r] = "idle"
                    /\ pc'[r] # "done" => status'[r] = "none"
  BY DEF InTurn
<1> USE DEF TypeOK
<1>0. /\ pc[r] \in {"new", "charge"} => gateway[r] = "idle"
      /\ pc[r] # "done" => status[r] = "none"
  BY DEF InTurn
<1>1. CASE UNCHANGED <<pc, gateway, status>>
  BY <1>0, <1>1
<1>2. ASSUME NEW q \in Request, LookUpKey(q) \/ RejectCharge(q) \/ CrashRequest(q)
      PROVE  /\ pc'[r] \in {"new", "charge"} => pc[r] \in {"new", "charge"}
             /\ pc[r] = "done" => pc'[r] = "done"
             /\ UNCHANGED <<gateway, status>>
  BY <1>2 DEF LookUpKey, RejectCharge, CrashRequest, rows
<1>3. ASSUME NEW q \in Request, ChargeAccepted(q) \/ ChargeLost(q)
      PROVE  /\ pc'[r] \in {"new", "charge"} => gateway'[r] = gateway[r] /\ pc'[r] = pc[r]
             /\ pc[r] = "done" => pc'[r] = "done"
             /\ UNCHANGED status
  BY <1>3 DEF ChargeAccepted, ChargeLost, rows
<1>4. ASSUME NEW q \in Request, InsertDeposit(q)
      PROVE  /\ pc'[r] \in {"new", "charge"} => pc'[r] = pc[r]
             /\ pc'[r] # "done" => status'[r] = status[r] /\ pc'[r] = pc[r]
             /\ UNCHANGED gateway
  BY <1>4 DEF InsertDeposit
<1>5. ASSUME NEW q \in Request, Decide(q) \/ PayAgain(q)
      PROVE  /\ UNCHANGED <<pc, status>>
             /\ gateway'[r] = gateway[r] \/ gateway[r] # "idle"
  BY <1>5 DEF Decide, PayAgain, rows
<1>6. ASSUME NEW d \in Delivery, CommitCallback(d) \/ CommitFailure(d)
      PROVE  /\ UNCHANGED <<pc, gateway>>
             /\ status'[r] = status[r] \/ pc[r] = "done"
  <2>1. pc[about[d]] = "done"
    BY <1>6 DEF CommitCallback, CommitFailure, HooksTrue
  <2> QED  BY <1>6, <2>1 DEF CommitCallback, CommitFailure
<1> QED
  BY <1>0, <1>1, <1>2, <1>3, <1>4, <1>5, <1>6, Steps DEF vars, rows, IgnoreCallback,
     ReceiveCallback, LockAndCredit, LockWithoutRate, CrashCallback

(* An answered request stays answered. *)
LEMMA AnswersStay ==
  TypeOK /\ [Next]_vars => \A r \in Request : pc[r] = "done" => pc'[r] = "done"
  BY Steps DEF TypeOK, vars, rows, LookUpKey, RejectCharge, ChargeAccepted, ChargeLost,
     InsertDeposit, CrashRequest, Decide, PayAgain, IgnoreCallback, ReceiveCallback,
     LockAndCredit, LockWithoutRate, CommitCallback, CommitFailure, CrashCallback

LEMMA HooksTrueNext ==
  TypeOK /\ InUse /\ InTurn /\ VerdictsTrue /\ HooksTrue /\ [Next]_vars => HooksTrue'
<1> SUFFICES ASSUME TypeOK, InUse, InTurn, VerdictsTrue, HooksTrue, [Next]_vars,
                    NEW d \in Delivery, hook'[d] # "idle"
             PROVE  /\ pc'[about'[d]] = "done"
                    /\ hook'[d] \in {"credit", "commit"} => gateway'[about'[d]] = "paid"
                    /\ hook'[d] = "fail" => Refused(about[d])'
  BY DEF HooksTrue
<1> DEFINE Stays == /\ hook[d] # "idle" /\ about'[d] = about[d]
                    /\ hook'[d] = hook[d] \/ (hook[d] = "credit" /\ hook'[d] = "commit")
<1>1. ASSUME Stays
      PROVE  /\ pc'[about'[d]] = "done"
             /\ hook'[d] \in {"credit", "commit"} => gateway'[about'[d]] = "paid"
             /\ hook'[d] = "fail" => Refused(about[d])'
  <2>1. about[d] \in Request
    BY <1>1 DEF InUse
  <2> QED  BY <1>1, <2>1, AnswersStay, ChargesStay DEF HooksTrue, Refused
<1>2. ASSUME NEW e \in Delivery, NEW r \in Request, NEW verdict \in {"paid", "unpaid"},
             ReceiveCallback(e, r, verdict), e = d
      PROVE  /\ pc'[about'[d]] = "done"
             /\ hook'[d] \in {"credit", "commit"} => gateway'[about'[d]] = "paid"
             /\ hook'[d] = "fail" => Refused(about[d])'
  <2>1. about'[d] = r /\ hook'[d] = (IF verdict = "paid" THEN "credit" ELSE "fail")
    BY <1>2 DEF ReceiveCallback, Confirms, TypeOK
  <2>2. pc[r] = "done"
    BY <1>2 DEF ReceiveCallback, Ignored, InTurn
  <2>3. verdict \in owed[r]
    BY <1>2 DEF ReceiveCallback, CanDeliver
  <2>4. IF verdict = "paid" THEN gateway[r] = "paid" ELSE Refused(r)
    BY <2>3 DEF VerdictsTrue
  <2>5. IF verdict = "paid" THEN gateway'[r] = "paid" ELSE Refused(r)'
    BY <2>4, ChargesStay
  <2>6. pc'[r] = "done"
    BY <2>2, AnswersStay
  <2> QED  BY <2>1, <2>5, <2>6 DEF Refused
<1>3. ASSUME NEW e \in Delivery, NEW r \in Request, NEW verdict \in {"paid", "unpaid"},
             ReceiveCallback(e, r, verdict), e # d
      PROVE  Stays
  BY <1>3 DEF ReceiveCallback, TypeOK
<1>4. ASSUME NEW e \in Delivery,
             \/ LockAndCredit(e) \/ LockWithoutRate(e) \/ CommitCallback(e)
             \/ CommitFailure(e) \/ CrashCallback(e)
      PROVE  Stays
  BY <1>4 DEF LockAndCredit, LockWithoutRate, CommitCallback, CommitFailure, CrashCallback,
              Release, TypeOK
<1>5. CASE UNCHANGED <<hook, about>>
  BY <1>1, <1>5
<1> HIDE DEF Stays
<1> QED
  BY <1>1, <1>2, <1>3, <1>4, <1>5, Steps, QuietSteps DEF vars, InsertDeposit, IgnoreCallback

LEMMA AcknowledgeKeeps ==
  ASSUME NEW r, NEW verdict, TypeOK, Acknowledge(r, verdict), NEW q \in Request
  PROVE  owed'[q] \subseteq owed[q] \/ (q = r /\ owed'[q] \subseteq owed[q] \cup {verdict})
  BY DEF Acknowledge, TypeOK

LEMMA VerdictsTrueNext ==
  TypeOK /\ InUse /\ InTurn /\ VerdictsTrue /\ HooksTrue /\ [Next]_vars => VerdictsTrue'
<1> SUFFICES ASSUME TypeOK, InUse, InTurn, VerdictsTrue, HooksTrue, [Next]_vars,
                    NEW r \in Request
             PROVE  /\ "paid" \in owed'[r] => gateway'[r] = "paid"
                    /\ "unpaid" \in owed'[r] => Refused(r)'
  BY DEF VerdictsTrue
<1>0. /\ "paid" \in owed[r] => gateway'[r] = "paid"
      /\ "unpaid" \in owed[r] => Refused(r)'
  BY ChargesStay DEF VerdictsTrue
<1>1. CASE owed'[r] \subseteq owed[r]
  BY <1>0, <1>1
<1>2. ASSUME NEW q \in Request, Decide(q)
      PROVE  /\ "paid" \in owed'[r] => gateway'[r] = "paid"
             /\ "unpaid" \in owed'[r] => Refused(r)'
  <2>1. CASE q = r
    BY <1>2, <2>1 DEF Decide, Refused, TypeOK
  <2>2. CASE q # r
    BY <1>1, <1>2, <2>2 DEF Decide, TypeOK
  <2> QED  BY <2>1, <2>2
<1>3. ASSUME NEW q \in Request, PayAgain(q)
      PROVE  /\ "paid" \in owed'[r] => gateway'[r] = "paid"
             /\ "unpaid" \in owed'[r] => Refused(r)'
  <2>1. CASE q = r
    BY <1>0, <1>3, <2>1 DEF PayAgain, TypeOK
  <2>2. CASE q # r
    BY <1>1, <1>3, <2>2 DEF PayAgain, TypeOK
  <2> QED  BY <2>1, <2>2
<1>4. ASSUME NEW d \in Delivery, NEW q \in Request, NEW verdict \in {"paid", "unpaid"},
             IgnoreCallback(d, q, verdict)
      PROVE  owed'[r] \subseteq owed[r]
  <2>1. verdict \in owed[q] /\ Acknowledge(q, verdict)
    BY <1>4 DEF IgnoreCallback, CanDeliver
  <2> QED  BY <2>1, AcknowledgeKeeps
<1>5. ASSUME NEW d \in Delivery, CommitCallback(d)
      PROVE  /\ "paid" \in owed'[r] => gateway'[r] = "paid"
             /\ "unpaid" \in owed'[r] => Refused(r)'
  <2>1. gateway[about[d]] = "paid" /\ UNCHANGED gateway /\ Acknowledge(about[d], "paid")
    BY <1>5 DEF CommitCallback, HooksTrue
  <2>2. owed'[r] \subseteq owed[r] \/ (r = about[d] /\ owed'[r] \subseteq owed[r] \cup {"paid"})
    BY <2>1, AcknowledgeKeeps
  <2> QED  BY <1>0, <2>1, <2>2
<1>6. ASSUME NEW d \in Delivery, CommitFailure(d)
      PROVE  /\ "paid" \in owed'[r] => gateway'[r] = "paid"
             /\ "unpaid" \in owed'[r] => Refused(r)'
  <2>1. Refused(about[d]) /\ UNCHANGED <<gateway, mishap>> /\ Acknowledge(about[d], "unpaid")
    BY <1>6 DEF CommitFailure, HooksTrue
  <2>2. owed'[r] \subseteq owed[r] \/ (r = about[d] /\ owed'[r] \subseteq owed[r] \cup {"unpaid"})
    BY <2>1, AcknowledgeKeeps
  <2> QED  BY <1>0, <2>1, <2>2 DEF Refused
<1> QED
  BY <1>1, <1>2, <1>3, <1>4, <1>5, <1>6, Steps DEF vars, LookUpKey, RejectCharge,
     ChargeAccepted, ChargeLost, InsertDeposit, CrashRequest, ReceiveCallback, LockAndCredit,
     LockWithoutRate, CrashCallback

LEMMA VerdictsNext == Locking /\ Verdicts /\ [Next]_vars => Verdicts'
<1> SUFFICES ASSUME Locking, Verdicts, [Next]_vars PROVE Verdicts'
  OBVIOUS
<1>1. TypeOK /\ InUse /\ InTurn /\ VerdictsTrue /\ HooksTrue /\ CreditedOnlyIfPaid
  BY DEF Locking, Verdicts
<1>2. ASSUME NEW r \in Request, credited'[r] > 0 PROVE gateway'[r] = "paid"
  <2>1. CASE credited'[r] = credited[r]
    BY <1>1, <1>2, <2>1, ChargesStay DEF CreditedOnlyIfPaid
  <2>2. CASE credited'[r] # credited[r]
    <3>1. PICK d \in Delivery : CommitCallback(d)
      BY <2>2, Steps, QuietSteps DEF vars, rows, InsertDeposit, IgnoreCallback,
         ReceiveCallback, LockAndCredit, LockWithoutRate, CommitFailure, CrashCallback
    <3>2. r = about[d] /\ gateway[r] = "paid"
      BY <1>1, <2>2, <3>1 DEF CommitCallback, HooksTrue, TypeOK
    <3> QED  BY <1>1, <3>2, ChargesStay
  <2> QED  BY <2>1, <2>2
<1> QED  BY <1>1, <1>2, InTurnNext, HooksTrueNext, VerdictsTrueNext
         DEF Verdicts, CreditedOnlyIfPaid

----------------------------------------------------------------------------
(* The rows. *)

LEMMA DraftsTellNext == Locking /\ DraftsTell /\ [Next]_vars => DraftsTell'
<1> SUFFICES ASSUME Locking, DraftsTell, [Next]_vars,
                    NEW d \in Delivery, hook'[d] = "commit"
             PROVE  \/ /\ draft'[d].status = "completed"
                       /\ draft'[d].credit \in Conversions(about'[d])
                    \/ /\ draft'[d].status = "failed" /\ draft'[d].credit = 0
                       /\ "no_rate" \in mishap'[about'[d]]
  BY DEF DraftsTell, Conversions
<1>0. TypeOK /\ InUse
  BY DEF Locking
<1>1. ASSUME hook[d] = "commit", about'[d] = about[d], draft'[d] = draft[d]
      PROVE  \/ /\ draft'[d].status = "completed"
                /\ draft'[d].credit \in Conversions(about'[d])
             \/ /\ draft'[d].status = "failed" /\ draft'[d].credit = 0
                /\ "no_rate" \in mishap'[about'[d]]
  <2>1. about[d] \in Request
    BY <1>0, <1>1 DEF InUse
  <2> QED  BY <1>0, <1>1, <2>1, MishapsStay DEF DraftsTell
<1>2. CASE LockAndCredit(d)
  <2>1. PICK amt \in Conversions(about[d]) : draft' = [draft EXCEPT ![d] =
          CreditAccountAndRecord(balance[Payee[about[d]]], amt, about[d])]
    BY <1>2 DEF LockAndCredit
  <2>2. draft'[d].status = "completed" /\ draft'[d].credit = amt /\ about'[d] = about[d]
    BY <1>0, <1>2, <2>1 DEF LockAndCredit, CreditAccountAndRecord, TypeOK
  <2> QED  BY <2>1, <2>2
<1>3. CASE LockWithoutRate(d)
  <2>1. about[d] \in Request /\ about'[d] = about[d]
    BY <1>0, <1>3 DEF LockWithoutRate, InUse
  <2>2. draft'[d].status = "failed" /\ draft'[d].credit = 0
    BY <1>0, <1>3 DEF LockWithoutRate, TypeOK
  <2>3. "no_rate" \in mishap'[about[d]]
    BY <1>0, <1>3, <2>1 DEF LockWithoutRate, Hit, TypeOK
  <2> QED  BY <2>1, <2>2, <2>3
<1>4. ASSUME NEW e \in Delivery, e # d,
             \/ LockAndCredit(e) \/ LockWithoutRate(e) \/ CommitCallback(e)
             \/ CommitFailure(e) \/ CrashCallback(e)
      PROVE  hook[d] = "commit" /\ about'[d] = about[d] /\ draft'[d] = draft[d]
  BY <1>0, <1>4 DEF LockAndCredit, LockWithoutRate, CommitCallback, CommitFailure,
                    CrashCallback, Release, TypeOK
<1>5. ASSUME NEW e \in Delivery, NEW r \in Request, NEW verdict \in {"paid", "unpaid"},
             ReceiveCallback(e, r, verdict)
      PROVE  hook[d] = "commit" /\ about'[d] = about[d] /\ draft'[d] = draft[d]
  BY <1>0, <1>5 DEF ReceiveCallback, TypeOK
<1>6. ~ (CommitCallback(d) \/ CommitFailure(d) \/ CrashCallback(d))
  BY <1>0 DEF CommitCallback, CommitFailure, CrashCallback, Release, TypeOK
<1>7. CASE UNCHANGED <<hook, about, draft>>
  BY <1>1, <1>7
<1> QED
  BY <1>1, <1>2, <1>3, <1>4, <1>5, <1>6, <1>7, Steps, QuietSteps
     DEF vars, InsertDeposit, IgnoreCallback

LEMMA AloneNext == Locking /\ Verdicts /\ Alone /\ [Next]_vars => Alone'
<1> SUFFICES ASSUME Locking, Verdicts, Alone, [Next]_vars,
                    NEW d \in Delivery, hook'[d] # "idle",
                    "overlap" \notin mishap'[about'[d]]
             PROVE  /\ status'[about'[d]] = "pending"
                    /\ \A e \in Delivery : about'[e] = about'[d] => e = d
  BY DEF Alone
<1>0. TypeOK /\ InUse /\ HooksTrue /\ InUse'
  BY InUseNext DEF Locking, Verdicts
<1> DEFINE Kept == hook[d] # "idle" /\ about'[d] = about[d]
<1>1. ASSUME Kept
      PROVE  /\ about[d] \in Request /\ status[about[d]] = "pending"
             /\ \A e \in Delivery : about[e] = about[d] => e = d
  <2>1. about[d] \in Request /\ "overlap" \notin mishap[about[d]]
    BY <1>0, <1>1, MishapsStay DEF InUse
  <2> QED  BY <1>1, <2>1 DEF Alone
<1>2. ASSUME Kept, \A e \in Delivery : about'[e] \in {about[e], Unset},
             status'[about[d]] = status[about[d]]
      PROVE  /\ status'[about'[d]] = "pending"
             /\ \A e \in Delivery : about'[e] = about'[d] => e = d
  BY <1>1, <1>2
<1>3. CASE UNCHANGED <<status, hook, about>>
  BY <1>2, <1>3
<1>4. ASSUME NEW r \in Request, InsertDeposit(r)
      PROVE  /\ status'[about'[d]] = "pending"
             /\ \A e \in Delivery : about'[e] = about'[d] => e = d
  <2>1. Kept /\ UNCHANGED about
    BY <1>4 DEF InsertDeposit
  <2>2. about[d] # r
    BY <1>0, <1>4, <2>1 DEF InsertDeposit, HooksTrue
  <2>3. status'[about[d]] = status[about[d]]
    BY <1>0, <1>1, <1>4, <2>1, <2>2 DEF InsertDeposit, TypeOK
  <2> QED  BY <1>2, <2>1, <2>3
<1>5. ASSUME NEW e \in Delivery, NEW r \in Request, NEW verdict \in {"paid", "unpaid"},
             ReceiveCallback(e, r, verdict)
      PROVE  /\ status'[about'[d]] = "pending"
             /\ \A f \in Delivery : about'[f] = about'[d] => f = d
  <2>0. /\ status[r] = "pending" /\ UNCHANGED status /\ hook[e] = "idle"
        /\ about' = [about EXCEPT ![e] = r] /\ hook'[e] # "idle"
        /\ \A f \in Delivery \ {e} : hook'[f] = hook[f]
    BY <1>0, <1>5 DEF ReceiveCallback, CanDeliver, Ignored, rows, TypeOK
  <2>1. Handled(r) = {} \/ "overlap" \in mishap'[r]
    BY <1>0, <1>5 DEF ReceiveCallback, Hit, TypeOK
  <2>2. CASE d = e
    <3>1. about'[d] = r /\ Handled(r) = {}
      BY <1>0, <2>0, <2>1, <2>2 DEF TypeOK
    <3> QED  BY <1>0, <2>0, <2>2, <3>1 DEF Handled, TypeOK
  <2>3. CASE d # e
    <3>1. Kept
      BY <1>0, <2>0, <2>3 DEF TypeOK
    <3>2. about[d] # r
      BY <2>1, <3>1 DEF Handled
    <3> QED  BY <1>0, <1>1, <2>0, <2>3, <3>1, <3>2 DEF TypeOK
  <2> QED  BY <2>2, <2>3
<1>6. ASSUME NEW e \in Delivery, LockAndCredit(e) \/ LockWithoutRate(e)
      PROVE  Kept /\ UNCHANGED <<status, about>>
  BY <1>0, <1>6 DEF LockAndCredit, LockWithoutRate, rows, TypeOK
<1>7. ASSUME NEW e \in Delivery, CommitCallback(e) \/ CommitFailure(e) \/ CrashCallback(e)
      PROVE  /\ status'[about'[d]] = "pending"
             /\ \A f \in Delivery : about'[f] = about'[d] => f = d
  <2>1. /\ e # d /\ Kept /\ hook[e] # "idle"
        /\ \A f \in Delivery : about'[f] \in {about[f], Unset}
    BY <1>0, <1>7 DEF CommitCallback, CommitFailure, CrashCallback, Release, TypeOK
  <2>2. about[d] # about[e]
    BY <1>1, <2>1
  <2>3. status'[about[d]] = status[about[d]]
    BY <1>0, <1>1, <1>7, <2>1, <2>2 DEF CommitCallback, CommitFailure, CrashCallback, rows,
       TypeOK
  <2> QED  BY <1>2, <2>1, <2>3
<1>8. ASSUME UNCHANGED <<status, about>>, Kept
      PROVE  /\ status'[about'[d]] = "pending"
             /\ \A f \in Delivery : about'[f] = about'[d] => f = d
  BY <1>1, <1>8
<1> HIDE DEF Kept
<1> QED
  BY <1>3, <1>4, <1>5, <1>6, <1>7, <1>8, Steps, QuietSteps DEF vars, rows, IgnoreCallback

LEMMA RowTellsNext ==
  Locking /\ Verdicts /\ DraftsTell /\ Alone /\ RowTellsLedger /\ [Next]_vars
  => RowTellsLedger'
<1> DEFINE Tells(r) == IF status[r] = "completed" THEN credited[r] \in Conversions(r)
                       ELSE credited[r] = 0
<1> SUFFICES ASSUME Locking, Verdicts, DraftsTell, Alone, RowTellsLedger, [Next]_vars,
                    NEW r \in Request, "overlap" \notin mishap'[r]
             PROVE  IF status'[r] = "completed" THEN credited'[r] \in Conversions(r)
                    ELSE credited'[r] = 0
  BY DEF RowTellsLedger, Conversions
<1>0. TypeOK /\ InUse /\ InTurn
  BY DEF Locking, Verdicts
<1>1. "overlap" \notin mishap[r] /\ Tells(r)
  BY <1>0, MishapsStay DEF RowTellsLedger
<1>2. CASE status'[r] = status[r] /\ credited'[r] = credited[r]
  BY <1>1, <1>2
<1>3. CASE InsertDeposit(r)
  <2>1. status[r] = "none"
    BY <1>0, <1>3 DEF InsertDeposit, InTurn
  <2>2. status'[r] = "pending" /\ credited'[r] = credited[r]
    BY <1>0, <1>3 DEF InsertDeposit, TypeOK
  <2> QED  BY <1>1, <2>1, <2>2
<1>4. ASSUME NEW d \in Delivery, about[d] = r, CommitCallback(d)
      PROVE  IF status'[r] = "completed" THEN credited'[r] \in Conversions(r)
             ELSE credited'[r] = 0
  <2>1. hook[d] = "commit"
    BY <1>4 DEF CommitCallback
  <2>2. status[r] = "pending"
    BY <1>1, <1>4, <2>1 DEF Alone
  <2>3. credited[r] = 0 /\ draft[d].credit \in Nat
    BY <1>0, <1>1, <2>2 DEF TypeOK
  <2>4. status'[r] = draft[d].status /\ credited'[r] = draft[d].credit
    BY <1>0, <1>4, <2>3 DEF CommitCallback, TypeOK
  <2> QED  BY <1>4, <2>1, <2>4 DEF DraftsTell
<1>5. ASSUME NEW d \in Delivery, about[d] = r, CommitFailure(d)
      PROVE  IF status'[r] = "completed" THEN credited'[r] \in Conversions(r)
             ELSE credited'[r] = 0
  <2>1. status[r] = "pending"
    BY <1>1, <1>5 DEF CommitFailure, Alone
  <2>2. status'[r] = "failed" /\ credited'[r] = credited[r]
    BY <1>0, <1>5 DEF CommitFailure, TypeOK
  <2> QED  BY <1>1, <2>1, <2>2
<1>6. ASSUME NEW q \in Request, q # r, InsertDeposit(q)
      PROVE  status'[r] = status[r] /\ credited'[r] = credited[r]
  BY <1>6 DEF InsertDeposit
<1>7. ASSUME NEW d \in Delivery, about[d] # r, CommitCallback(d) \/ CommitFailure(d)
      PROVE  status'[r] = status[r] /\ credited'[r] = credited[r]
  BY <1>0, <1>7 DEF CommitCallback, CommitFailure, TypeOK
<1> QED
  BY <1>2, <1>3, <1>4, <1>5, <1>6, <1>7, Steps, QuietSteps DEF vars, rows, IgnoreCallback,
     ReceiveCallback, LockAndCredit, LockWithoutRate, CrashCallback

LEMMA FailedIsUnpaidNext ==
  Locking /\ Verdicts /\ DraftsTell /\ FailedIsUnpaid /\ [Next]_vars => FailedIsUnpaid'
<1> SUFFICES ASSUME Locking, Verdicts, DraftsTell, FailedIsUnpaid, [Next]_vars,
                    NEW r \in Request, status'[r] = "failed",
                    mishap'[r] \cap {"no_rate", "pay_again"} = {}
             PROVE  gateway'[r] = "unpaid"
  BY DEF FailedIsUnpaid
<1>0. TypeOK /\ InUse /\ InTurn /\ HooksTrue
  BY DEF Locking, Verdicts
<1>1. mishap[r] \cap {"no_rate", "pay_again"} = {}
  BY <1>0, MishapsStay
<1>2. ASSUME Refused(r) PROVE gateway'[r] = "unpaid"
  <2>1. Refused(r)'
    BY <1>0, <1>2, ChargesStay
  <2> QED  BY <2>1 DEF Refused
<1>3. CASE status[r] = "failed"
  BY <1>1, <1>2, <1>3 DEF FailedIsUnpaid, Refused
<1>4. ASSUME NEW q \in Request, InsertDeposit(q)
      PROVE  status[r] = "failed"
  BY <1>0, <1>4 DEF InsertDeposit, TypeOK
<1>5. ASSUME NEW d \in Delivery, CommitCallback(d), about[d] # r
      PROVE  status[r] = "failed"
  BY <1>5 DEF CommitCallback
<1>6. ASSUME NEW d \in Delivery, CommitCallback(d), about[d] = r
      PROVE  gateway'[r] = "unpaid"
  <2>1. hook[d] = "commit" /\ draft[d].status = "failed"
    BY <1>0, <1>6 DEF CommitCallback, TypeOK
  <2>2. "no_rate" \in mishap[r]
    BY <1>6, <2>1 DEF DraftsTell
  <2> QED  BY <1>1, <2>2
<1>7. ASSUME NEW d \in Delivery, CommitFailure(d)
      PROVE  status[r] = "failed" \/ Refused(r)
  BY <1>0, <1>7 DEF CommitFailure, HooksTrue
<1> QED
  BY <1>2, <1>3, <1>4, <1>5, <1>6, <1>7, Steps, QuietSteps DEF vars, rows, IgnoreCallback,
     ReceiveCallback, LockAndCredit, LockWithoutRate, CrashCallback

----------------------------------------------------------------------------
(* The theorems. *)

LEMMA IInvInit == Init => IInv
<1> SUFFICES ASSUME Init PROVE IInv
  OBVIOUS
<1>1. Locking
  BY TypeInit DEF Init, Locking, InUse, HoldsRow, LockEarned, DraftsMirror
<1>2. Verdicts
  BY DEF Init, Verdicts, InTurn, VerdictsTrue, HooksTrue, CreditedOnlyIfPaid
<1>3. Rows
  BY DEF Init, Rows, DraftsTell, Alone, RowTellsLedger, FailedIsUnpaid
<1> QED  BY <1>1, <1>2, <1>3 DEF IInv

LEMMA IInvNext == IInv /\ [Next]_vars => IInv'
  BY LockingNext, VerdictsNext, DraftsTellNext, AloneNext, RowTellsNext, FailedIsUnpaidNext
     DEF IInv, Rows

LEMMA IInvAlways == Spec => []IInv
  BY IInvInit, IInvNext, PTL DEF Spec

(* Every reachable state is well typed: no status the code has no name for *)
(* is committed and no balance goes below zero.                            *)
THEOREM TypeCorrect == Spec => []TypeOK
<1>1. IInv => TypeOK
  BY DEF IInv, Locking
<1> QED  BY <1>1, IInvAlways, PTL

(* A step changes a balance only by what it adds to the ledger, only       *)
(* upwards, and only at the commit of the callback that holds the row FOR  *)
(* UPDATE.  This is what other components may rely on.                     *)
PostsUnderLock == [][\A a \in Account : Posts(a) /\ Grants(a)]_vars

THEOREM EveryStepPosts == Spec => PostsUnderLock
<1>1. IInv /\ [Next]_vars => [\A a \in Account : Posts(a) /\ Grants(a)]_vars
  BY StepPosts, StepGrants DEF IInv, Locking
<1> QED  BY <1>1, IInvAlways, PTL DEF Spec, PostsUnderLock

(* The balance is the opening balance plus the ledger, even when two       *)
(* deliveries overlap and both credit: then the ledger has both credits.   *)
THEOREM LedgerAlwaysBacked == Spec => []LedgerBacked
<1>1. Init => LedgerBacked
  BY DEF Init, LedgerBacked
<1>2. IInv /\ IInv' /\ LedgerBacked /\ [Next]_vars => LedgerBacked'
  <2> SUFFICES ASSUME IInv, IInv', LedgerBacked, [Next]_vars, NEW a \in Account
               PROVE  balance'[a] = Opening[a] + ledger'[a]
    BY DEF LedgerBacked
  <2>1. /\ balance[a] \in Nat /\ ledger[a] \in Int /\ balance'[a] \in Nat /\ ledger'[a] \in Int
        /\ Opening[a] \in Nat
    BY DEF IInv, Locking, TypeOK
  <2>2. balance[a] = Opening[a] + ledger[a]
    BY DEF LedgerBacked
  <2>3. balance'[a] - balance[a] = ledger'[a] - ledger[a]
    BY StepPosts DEF IInv, Posts
  <2> QED  BY <2>1, <2>2, <2>3
<1> QED  BY <1>1, <1>2, IInvAlways, PTL DEF Spec

(* A row is locked only by a callback between its lock and its commit.     *)
THEOREM LocksAreEarned == Spec => []LockEarned
<1>1. IInv => LockEarned
  BY DEF IInv, Locking
<1> QED  BY <1>1, IInvAlways, PTL

(* "Never optimistically": no account is credited for a charge that was    *)
(* not paid, under any interleaving, repetition or crash.                  *)
THEOREM NeverCreditedUnpaid == Spec => []CreditedOnlyIfPaid
<1>1. IInv => CreditedOnlyIfPaid
  BY DEF IInv, Verdicts
<1> QED  BY <1>1, IInvAlways, PTL

(* A deposit no two deliveries were handled for at once is credited once,  *)
(* with one conversion of its amount, exactly when it is completed: the    *)
(* status check suffices against any number of redeliveries in sequence.   *)
THEOREM CreditedOnceInSequence == Spec => []RowTellsLedger
<1>1. IInv => RowTellsLedger
  BY DEF IInv, Rows
<1> QED  BY <1>1, IInvAlways, PTL

(* A failed deposit did not cost the payer anything, but for a missing     *)
(* rate or a declined PaymentIntent that is paid again.                    *)
THEOREM FailedNeverPaid == Spec => []FailedIsUnpaid
<1>1. IInv => FailedIsUnpaid
  BY DEF IInv, Rows
<1> QED  BY <1>1, IInvAlways, PTL

----------------------------------------------------------------------------
(* No payment is forgotten. *)

(* A paid deposit is completed or its callback is owed; that an answered   *)
(* request has its row is what makes an early callback the only one        *)
(* acknowledged for nothing.                                               *)
Remembers(r) ==
  /\ pc[r] = "done" => status[r] # "none"
  /\ /\ pc[r] \in {"insert", "done"} /\ gateway[r] = "paid"
     /\ mishap[r] \cap {"early_verdict", "no_rate", "pay_again"} = {}
     => status[r] = "completed" \/ "paid" \in owed[r]

Remembered == \A r \in Request : Remembers(r)

(* The status a handler commits is the one its verdict asks for.           *)
LEMMA StatusMoves ==
  ASSUME IInv, [Next]_vars, NEW r \in Request
  PROVE  \/ status'[r] = status[r]
         \/ InsertDeposit(r) /\ status'[r] = "pending"
         \/ status'[r] = "completed"
         \/ status'[r] = "failed" /\ "no_rate" \in mishap'[r]
         \/ status'[r] = "failed" /\ Refused(r)
<1>0. TypeOK /\ InUse /\ DraftsTell /\ HooksTrue
  BY DEF IInv, Locking, Rows, Verdicts
<1>1. ASSUME NEW q \in Request, InsertDeposit(q)
      PROVE  status'[r] = status[r] \/ (InsertDeposit(r) /\ status'[r] = "pending")
  BY <1>0, <1>1 DEF InsertDeposit, TypeOK
<1>2. ASSUME NEW d \in Delivery, CommitCallback(d)
      PROVE  \/ status'[r] \in {status[r], "completed"}
             \/ status'[r] = "failed" /\ "no_rate" \in mishap'[r]
  <2>1. CASE about[d] # r
    BY <1>0, <1>2, <2>1 DEF CommitCallback, TypeOK
  <2>2. CASE about[d] = r
    <3>1. status'[r] = draft[d].status /\ mishap' = mishap /\ hook[d] = "commit"
      BY <1>0, <1>2, <2>2 DEF CommitCallback, TypeOK
    <3> QED  BY <1>0, <2>2, <3>1 DEF DraftsTell
  <2> QED  BY <2>1, <2>2
<1>3. ASSUME NEW d \in Delivery, CommitFailure(d)
      PROVE  status'[r] = status[r] \/ (status'[r] = "failed" /\ Refused(r))
  BY <1>0, <1>3 DEF CommitFailure, HooksTrue, TypeOK
<1> QED
  BY <1>1, <1>2, <1>3, Steps, QuietSteps DEF vars, rows, IgnoreCallback, ReceiveCallback,
     LockAndCredit, LockWithoutRate, CrashCallback

LEMMA RememberedNext == IInv /\ Remembered /\ [Next]_vars => Remembered'
<1> SUFFICES ASSUME IInv, Remembered, [Next]_vars, NEW r \in Request PROVE Remembers(r)'
  BY DEF Remembered
<1>0. TypeOK /\ TypeOK' /\ InUse /\ InTurn /\ HooksTrue /\ Remembers(r)
  BY IInvNext DEF IInv, Locking, Verdicts, Remembered
<1>a. FailedIsUnpaid
  BY DEF IInv, Rows
<1> USE <1>0 DEF TypeOK
<1>1. pc'[r] = "done" => pc[r] = "done" \/ InsertDeposit(r)
  BY Steps DEF vars, rows, LookUpKey, RejectCharge, ChargeAccepted, ChargeLost,
     InsertDeposit, CrashRequest, Decide, PayAgain, IgnoreCallback, ReceiveCallback,
     LockAndCredit, LockWithoutRate, CommitCallback, CommitFailure, CrashCallback
<1>2. pc'[r] = "done" => status'[r] # "none"
  <2>1. InsertDeposit(r) => status'[r] = "pending"
    BY DEF InsertDeposit
  <2>2. IInv /\ [Next]_vars
    OBVIOUS
  <2>3. status'[r] \in {status[r], "pending", "completed", "failed"}
    BY ONLY <2>2, StatusMoves, r \in Request
  <2>4. pc[r] = "done" => status[r] # "none"
    BY ONLY <1>0 DEF Remembers
  <2> QED  BY ONLY <1>1, <2>1, <2>3, <2>4
<1>3. ASSUME pc'[r] \in {"insert", "done"}, gateway'[r] = "paid",
             mishap'[r] \cap {"early_verdict", "no_rate", "pay_again"} = {}
      PROVE  status'[r] = "completed" \/ "paid" \in owed'[r]
  <2>1. mishap[r] \cap {"early_verdict", "no_rate", "pay_again"} = {}
    BY <1>3, MishapsStay
  <2>2. ASSUME NEW fault \in {"early_verdict", "no_rate", "pay_again"} PROVE ~ Hit(r, fault)
    <3>1. Hit(r, fault) => fault \in mishap'[r]
      BY DEF Hit
    <3> QED  BY <1>3, <3>1
  <2>3. CASE Decide(r)
    BY <1>3, <2>3 DEF Decide
  <2>4. CASE ~ Decide(r)
    <3>1. gateway[r] = "paid"
      <4>1. ~ PayAgain(r)
        BY <2>2 DEF PayAgain
      <4> QED  BY <1>3, <2>4, <4>1, Steps DEF vars, rows, LookUpKey, RejectCharge,
               ChargeAccepted, ChargeLost, InsertDeposit, CrashRequest, Decide, PayAgain,
               IgnoreCallback, ReceiveCallback, LockAndCredit, LockWithoutRate,
               CommitCallback, CommitFailure, CrashCallback
    <3>2. pc[r] \in {"insert", "done"}
      <4>1. pc'[r] = pc[r] \/ pc'[r] \notin {"insert", "done"} \/ pc[r] \in {"charge", "insert"}
        BY Steps DEF vars, rows, LookUpKey, RejectCharge, ChargeAccepted, ChargeLost,
           InsertDeposit, CrashRequest, Decide, PayAgain, IgnoreCallback, ReceiveCallback,
           LockAndCredit, LockWithoutRate, CommitCallback, CommitFailure, CrashCallback
      <4> QED  BY <1>3, <3>1, <4>1 DEF InTurn
    <3>3. ~ Refused(r)
      BY <2>1, <3>1 DEF Refused
    <3>4. status[r] = "completed" => status'[r] = "completed"
      <4>1. status[r] = "completed" => ~ InsertDeposit(r)
        BY DEF InsertDeposit, InTurn
      <4> QED  BY <1>3, <3>3, <4>1, StatusMoves
    <3>5. "paid" \in owed[r] =>
            \/ "paid" \in owed'[r]
            \/ \E d \in Delivery : IgnoreCallback(d, r, "paid")
            \/ \E d \in Delivery : about[d] = r /\ CommitCallback(d)
      <4>1. ASSUME NEW q \in Request, NEW verdict, Acknowledge(q, verdict),
                   q # r \/ verdict # "paid"
            PROVE  "paid" \in owed[r] => "paid" \in owed'[r]
        BY <4>1 DEF Acknowledge
      <4>2. ASSUME NEW q \in Request, Decide(q) \/ PayAgain(q)
            PROVE  "paid" \in owed[r] => "paid" \in owed'[r]
        BY <2>4, <4>2 DEF Decide, PayAgain
      <4>3. ASSUME NEW d \in Delivery, CommitFailure(d)
            PROVE  "paid" \in owed[r] => "paid" \in owed'[r]
        BY <4>1, <4>3 DEF CommitFailure, InUse
      <4>4. ASSUME NEW d \in Delivery, CommitCallback(d), about[d] # r
            PROVE  "paid" \in owed[r] => "paid" \in owed'[r]
        BY <4>1, <4>4 DEF CommitCallback, InUse
      <4>5. ASSUME NEW d \in Delivery, NEW q \in Request, NEW verdict \in {"paid", "unpaid"},
                   IgnoreCallback(d, q, verdict), q # r \/ verdict # "paid"
            PROVE  "paid" \in owed[r] => "paid" \in owed'[r]
        BY <4>1, <4>5 DEF IgnoreCallback
      <4> QED
        BY <4>2, <4>3, <4>4, <4>5, Steps DEF vars, LookUpKey, RejectCharge, ChargeAccepted,
           ChargeLost, InsertDeposit, CrashRequest, ReceiveCallback, LockAndCredit,
           LockWithoutRate, CrashCallback
    <3>6. ASSUME NEW d \in Delivery, IgnoreCallback(d, r, "paid")
          PROVE  status[r] = "completed" \/ "paid" \in owed'[r]
      <4>1. pc[r] = "done"
        BY <2>2, <3>2, <3>6 DEF IgnoreCallback
      <4>2. status[r] \in {"completed", "failed"}
        BY <3>6, <4>1 DEF IgnoreCallback, Ignored, Remembers
      <4>3. status[r] # "failed"
        BY <1>a, <2>1, <3>1 DEF FailedIsUnpaid
      <4> QED  BY <4>2, <4>3
    <3>7. ASSUME NEW d \in Delivery, about[d] = r, CommitCallback(d)
          PROVE  status'[r] = "completed"
      <4>1. status'[r] = draft[d].status /\ hook[d] = "commit"
        BY <3>7 DEF CommitCallback
      <4> QED  BY <2>1, <3>7, <4>1 DEF IInv, Rows, DraftsTell
    <3> QED  BY <2>1, <3>1, <3>2, <3>4, <3>5, <3>6, <3>7 DEF Remembers
  <2> QED  BY <2>3, <2>4
<1> QED  BY <1>2, <1>3 DEF Remembers

(* A payment whose callback died on the way is owed until a delivery of it *)
(* has been committed: the safety side of PaidIsCredited.                  *)
THEOREM PaymentsAreRemembered == Spec => []NoPaymentForgotten
<1>1. Init => Remembered
  BY DEF Init, Remembered, Remembers
<1>2. Remembered => NoPaymentForgotten
  BY DEF Remembered, Remembers, NoPaymentForgotten
<1> QED  BY <1>1, <1>2, RememberedNext, IInvAlways, PTL DEF Spec

----------------------------------------------------------------------------
(* The refinement of Books. *)

Excused == {r \in Request : "overlap" \in mishap[r]}

(* A commit credits the deposit it is about, and no deposit twice unless   *)
(* its callbacks overlap.                                                  *)
LEMMA CommitPosts ==
  ASSUME IInv, NEW d \in Delivery, CommitCallback(d)
  PROVE  [Abstract!Next]_(Abstract!vars)
<1> DEFINE r == about[d]  a == Payee[about[d]]  amt == draft[d].credit
<1>0. TypeOK /\ InUse /\ HoldsRow /\ DraftsMirror
  BY DEF IInv, Locking
<1>1. r \in Request /\ a \in Account /\ hook[d] = "commit"
  BY <1>0 DEF CommitCallback, InUse
<1>2. draft[d].balance = balance[a] + amt /\ amt \in Nat /\ balance[a] \in Nat
  BY <1>0, <1>1 DEF DraftsMirror, TypeOK
<1>3. /\ balance' = [balance EXCEPT ![a] = balance[a] + amt]
      /\ credited' = [credited EXCEPT ![r] = credited[r] + amt]
      /\ UNCHANGED mishap
  BY <1>2 DEF CommitCallback
<1>4. amt = 0 \/ amt \in Conversions(r)
  BY <1>1 DEF IInv, Rows, DraftsTell
<1>5. CASE amt = 0
  <2>1. balance' = balance /\ credited' = credited
    BY <1>0, <1>1, <1>3, <1>5 DEF TypeOK
  <2> QED  BY <1>3, <2>1 DEF Abstract!vars
<1>6. CASE amt \in Conversions(r)
  <2>1. credited[r] = 0 \/ r \in Excused
    <3>1. CASE "overlap" \notin mishap[r]
      <4>1. status[r] = "pending"
        BY <1>1, <3>1 DEF IInv, Rows, Alone
      <4> QED  BY <1>1, <3>1, <4>1 DEF IInv, Rows, RowTellsLedger
    <3> QED  BY <1>1, <3>1 DEF Excused
  <2>2. balance[Payee[r]] + amt >= 0
    BY <1>2
  <2>3. Abstract!Move(r, amt)
    BY <1>3, <2>1, <2>2 DEF Abstract!Move, Abstract!Fits, Abstract!Add, Excused
  <2>4. Abstract!Next
    BY <1>1, <1>6, <2>3 DEF Abstract!Next
  <2> QED  BY <2>4
<1> QED  BY <1>4, <1>5, <1>6

(* A fault other than an overlap does not show in the books.               *)
LEMMA HitsUnseen ==
  ASSUME TypeOK, NEW r \in Request, NEW fault \in FaultKinds, Hit(r, fault),
         UNCHANGED <<balance, credited>>
  PROVE  [Abstract!Next]_(Abstract!vars)
<1>1. CASE fault = "overlap"
  <2>1. Excused' = Excused \cup {r}
    BY <1>1 DEF Excused, Hit, TypeOK
  <2>2. Abstract!Excuse(r)
    BY <2>1 DEF Abstract!Excuse, Excused
  <2> QED  BY <2>2 DEF Abstract!Next
<1>2. CASE fault # "overlap"
  <2>1. Excused' = Excused
    BY <1>2 DEF Excused, Hit, TypeOK
  <2> QED  BY <2>1 DEF Abstract!vars, Excused
<1> QED  BY <1>1, <1>2

LEMMA StepsPost == IInv /\ [Next]_vars => [Abstract!Next]_(Abstract!vars)
<1> SUFFICES ASSUME IInv, [Next]_vars PROVE [Abstract!Next]_(Abstract!vars)
  OBVIOUS
<1>0. TypeOK
  BY DEF IInv, Locking
<1>1. CASE UNCHANGED <<balance, credited, mishap>>
  BY <1>1 DEF Abstract!vars
<1>2. ASSUME NEW r \in Request, NEW fault \in FaultKinds, Hit(r, fault),
             UNCHANGED <<balance, credited>>
      PROVE  [Abstract!Next]_(Abstract!vars)
  BY <1>0, <1>2, HitsUnseen
<1>3. ASSUME NEW d \in Delivery, CommitCallback(d)
      PROVE  [Abstract!Next]_(Abstract!vars)
  BY <1>3, CommitPosts
<1>4. ASSUME NEW r \in Request,
             \/ LookUpKey(r) \/ RejectCharge(r) \/ ChargeAccepted(r) \/ ChargeLost(r)
             \/ InsertDeposit(r) \/ CrashRequest(r) \/ Decide(r) \/ PayAgain(r)
      PROVE  /\ UNCHANGED <<balance, credited>>
             /\ UNCHANGED mishap \/ \E fault \in FaultKinds : Hit(r, fault)
  BY <1>4, FaultNames DEF rows, LookUpKey, RejectCharge, ChargeAccepted, ChargeLost,
     InsertDeposit, CrashRequest, Decide, PayAgain
<1>5. ASSUME NEW r \in Request, NEW d \in Delivery, NEW verdict \in {"paid", "unpaid"},
             IgnoreCallback(d, r, verdict) \/ ReceiveCallback(d, r, verdict)
      PROVE  /\ UNCHANGED <<balance, credited>>
             /\ UNCHANGED mishap \/ \E fault \in FaultKinds : Hit(r, fault)
  BY <1>5, FaultNames DEF rows, IgnoreCallback, ReceiveCallback
<1>6. ASSUME NEW d \in Delivery,
             \/ LockAndCredit(d) \/ LockWithoutRate(d) \/ CommitFailure(d)
             \/ CrashCallback(d)
      PROVE  /\ UNCHANGED <<balance, credited>>
             /\ \/ UNCHANGED mishap
                \/ \E r \in Request, fault \in FaultKinds : Hit(r, fault)
  <2>1. hook[d] # "idle" => about[d] \in Request
    BY DEF IInv, Locking, InUse
  <2> QED  BY <1>6, <2>1, FaultNames DEF rows, LockAndCredit, LockWithoutRate,
           CommitFailure, CrashCallback
<1> QED  BY <1>1, <1>2, <1>3, <1>4, <1>5, <1>6, Steps DEF vars

(* Deposits implement the books: whatever is asked, confirmed, repeated or *)
(* lost, seen from the account each deposit is one posting of its amount,  *)
(* except where callbacks about it overlap.                                *)
THEOREM RefinesBooks == Spec => ImplementsBooks
<1>1. Init => Abstract!Init
  BY DEF Init, Abstract!Init
<1> QED  BY <1>1, StepsPost, IInvAlways, PTL DEF Spec, ImplementsBooks, Abstract!Spec

----------------------------------------------------------------------------
(* One key, one charge.                                                    *)

Charging == {"charge", "insert", "done"}

(* A request that got no further than its lookup charges nothing, and an   *)
(* answered one has a row for the lookups of others to find.               *)
Answered ==
  \A r \in Request : /\ pc[r] \in {"replayed", "rejected"} => gateway[r] = "idle"
                     /\ pc[r] = "done" => status[r] # "none"

(* Of two requests with one key that got past their lookups, the later one *)
(* was sent before the earlier was answered.                               *)
Together(r, q) == "double_tap" \in mishap[r] \cup mishap[q]

KeysApart ==
  \A r, q \in Request :
    r # q /\ SameKey(r, q) /\ {pc[r], pc[q]} \subseteq Charging => Together(r, q)

LEMMA AnsweredNext == IInv /\ Answered /\ [Next]_vars => Answered'
<1> SUFFICES ASSUME IInv, Answered, [Next]_vars, NEW r \in Request
             PROVE  /\ pc'[r] \in {"replayed", "rejected"} => gateway'[r] = "idle"
                    /\ pc'[r] = "done" => status'[r] # "none"
  BY DEF Answered
<1> USE DEF TypeOK
<1>0. /\ TypeOK /\ InUse /\ InTurn /\ DraftsTell
      /\ pc[r] \in {"replayed", "rejected"} => gateway[r] = "idle"
      /\ pc[r] = "done" => status[r] # "none"
  BY DEF Answered, IInv, Locking, Verdicts, Rows
<1>1. CASE UNCHANGED <<pc, gateway, status>>
  BY <1>0, <1>1
<1>2. ASSUME NEW q \in Request, LookUpKey(q) \/ RejectCharge(q) \/ CrashRequest(q)
      PROVE  /\ pc'[r] \in {"replayed", "rejected"} => gateway[r] = "idle"
             /\ pc'[r] = "done" => pc[r] = "done"
             /\ UNCHANGED <<gateway, status>>
  BY <1>0, <1>2 DEF LookUpKey, RejectCharge, CrashRequest, rows, InTurn
<1>3. ASSUME NEW q \in Request, ChargeAccepted(q) \/ ChargeLost(q) \/ InsertDeposit(q)
      PROVE  /\ pc'[r] \in {"replayed", "rejected"} =>
                  pc'[r] = pc[r] /\ gateway'[r] = gateway[r]
             /\ pc'[r] = "done" => \/ pc[r] = "done" /\ status'[r] = status[r]
                                   \/ status'[r] = "pending"
  BY <1>0, <1>3 DEF ChargeAccepted, ChargeLost, InsertDeposit, rows
<1>4. ASSUME NEW q \in Request, Decide(q) \/ PayAgain(q)
      PROVE  /\ UNCHANGED <<pc, status>>
             /\ gateway'[r] = gateway[r] \/ gateway[r] # "idle"
  BY <1>0, <1>4 DEF Decide, PayAgain, rows
<1>5. ASSUME NEW d \in Delivery, CommitCallback(d) \/ CommitFailure(d)
      PROVE  /\ UNCHANGED <<pc, gateway>>
             /\ status'[r] = status[r] \/ status'[r] \in {"completed", "failed"}
  <2>1. hook[d] # "idle" => about[d] \in Request
    BY <1>0 DEF InUse
  <2>2. hook[d] = "commit" => draft[d].status \in {"completed", "failed"}
    BY <1>0 DEF DraftsTell
  <2> QED  BY <1>0, <1>5, <2>1, <2>2 DEF CommitCallback, CommitFailure
<1> QED
  BY <1>0, <1>1, <1>2, <1>3, <1>4, <1>5, Steps DEF vars, rows, IgnoreCallback,
     ReceiveCallback, LockAndCredit, LockWithoutRate, CrashCallback

(* A request starts charging when its lookup finds no row.                 *)
LEMMA LookUpApart ==
  ASSUME IInv, Answered, NEW r \in Request, LookUpKey(r), NEW q \in Request,
         q # r, SameKey(r, q), pc'[r] \in Charging, pc[q] \in Charging
  PROVE  "double_tap" \in mishap'[r]
<1>0. TypeOK
  BY DEF IInv, Locking
<1>1. Existing(r) = {}
  BY <1>0 DEF LookUpKey, Charging, TypeOK
<1>2. pc[q] # "done"
  BY <1>1 DEF Existing, Answered
<1>3. q \in Tapped(r)
  BY <1>2 DEF Tapped, Charging
<1> QED  BY <1>0, <1>3 DEF LookUpKey, Hit, TypeOK

LEMMA KeysApartNext == IInv /\ Answered /\ KeysApart /\ [Next]_vars => KeysApart'
<1> SUFFICES ASSUME IInv, Answered, KeysApart, [Next]_vars,
                    NEW r \in Request, NEW q \in Request, r # q, SameKey(r, q),
                    pc'[r] \in Charging, pc'[q] \in Charging
             PROVE  "double_tap" \in mishap'[r] \cup mishap'[q]
  BY DEF KeysApart, Together, SameKey
<1>0. TypeOK /\ SameKey(q, r)
  BY DEF IInv, Locking, SameKey
<1>1. mishap[r] \subseteq mishap'[r] /\ mishap[q] \subseteq mishap'[q]
  BY <1>0, MishapsStay
<1>2. CASE pc[r] \in Charging /\ pc[q] \in Charging
  BY <1>1, <1>2 DEF KeysApart, Together
<1>3. ASSUME NEW p \in Request, LookUpKey(p), ~ (pc[r] \in Charging /\ pc[q] \in Charging)
      PROVE  "double_tap" \in mishap'[r] \cup mishap'[q]
  <2>1. /\ pc[p] = "new"
        /\ \A s \in Request \ {p} : pc'[s] = pc[s]
    BY <1>0, <1>3 DEF LookUpKey, TypeOK
  <2>2. CASE p = r
    BY <1>3, <2>1, <2>2, LookUpApart
  <2>3. CASE p = q
    BY <1>0, <1>3, <2>1, <2>3, LookUpApart
  <2> QED  BY <1>3, <2>1, <2>2, <2>3
<1>4. ASSUME NEW p \in Request,
             \/ RejectCharge(p) \/ ChargeAccepted(p) \/ ChargeLost(p)
             \/ InsertDeposit(p) \/ CrashRequest(p)
      PROVE  pc[r] \in Charging /\ pc[q] \in Charging
  BY <1>0, <1>4 DEF RejectCharge, ChargeAccepted, ChargeLost, InsertDeposit, CrashRequest,
     Charging, TypeOK
<1>5. CASE UNCHANGED pc
  BY <1>2, <1>5
<1> QED
  BY <1>2, <1>3, <1>4, <1>5, Steps DEF vars, Decide, PayAgain, IgnoreCallback,
     ReceiveCallback, LockAndCredit, LockWithoutRate, CommitCallback, CommitFailure,
     CrashCallback

LEMMA KeysHold == IInv /\ Answered /\ KeysApart => OneChargePerKey
<1> SUFFICES ASSUME IInv, Answered, KeysApart, NEW r \in Request, NEW q \in Request,
                    r # q, SameKey(r, q), gateway[r] # "idle", gateway[q] # "idle",
                    pc[r] # "failed", pc[q] # "failed"
             PROVE  "double_tap" \in mishap[r] \cup mishap[q]
  BY DEF OneChargePerKey
<1>1. ASSUME NEW p \in {r, q} PROVE pc[p] \in Charging
  BY <1>1 DEF IInv, Locking, Verdicts, InTurn, Answered, Charging, TypeOK
<1> QED  BY <1>1 DEF KeysApart, Together

(* A key prompts the payer once, whatever the gateway, the payer, crashes  *)
(* and callbacks do, as long as the client waits for each answer before it *)
(* sends the key again and no earlier request with the key failed.         *)
THEOREM KeyChargesOnce == Spec => []OneChargePerKey
<1>1. Init => Answered /\ KeysApart
  BY DEF Init, Answered, KeysApart, Charging
<1> QED  BY <1>1, KeysHold, IInvAlways, AnsweredNext, KeysApartNext, PTL DEF Spec

----------------------------------------------------------------------------
(* Deposits among other components. *)

(* What the rest of the application may do: change any balance, as long as *)
(* it is not below zero, and take or give back any lock, but not touch a   *)
(* row that a callback has locked, nor anything else of deposits.          *)
Elsewhere ==
  /\ balance' \in [Account -> Nat] /\ ledger' \in [Account -> Int]
  /\ lock' \in [Account -> Delivery \cup Others \cup {NoOne}]
  /\ \A a \in Account :
       /\ lock[a] \in Delivery \/ lock'[a] \in Delivery => lock'[a] = lock[a]
       /\ lock[a] \in Delivery => balance'[a] = balance[a]
  /\ UNCHANGED <<status, credited, draft, pc, hook, about, gateway, owed, mishap, crashes>>

AmongOthers == Init /\ [][Next \/ Elsewhere]_vars

LEMMA ElsewhereKeeps == IInv /\ Elsewhere => IInv'
<1> SUFFICES ASSUME IInv, Elsewhere PROVE IInv'
  OBVIOUS
<1> USE DEF IInv, Elsewhere
<1>1. TypeOK' /\ InUse'
  BY DEF Locking, TypeOK, InUse
<1>2. ASSUME NEW d \in Delivery, hook'[d] = "commit"
      PROVE  /\ lock'[Payee[about'[d]]] = d
             /\ draft'[d].balance = balance'[Payee[about'[d]]] + draft'[d].credit
  <2>1. about[d] \in Request
    BY <1>2 DEF Locking, InUse
  <2>2. /\ lock[Payee[about[d]]] = d
        /\ draft[d].balance = balance[Payee[about[d]]] + draft[d].credit
    BY <1>2 DEF Locking, HoldsRow, DraftsMirror
  <2> QED  BY <2>1, <2>2
<1>3. HoldsRow' /\ DraftsMirror' /\ LockEarned'
  BY <1>2 DEF HoldsRow, DraftsMirror, Locking, LockEarned
<1>4. Verdicts'
  BY DEF Verdicts, InTurn, VerdictsTrue, HooksTrue, CreditedOnlyIfPaid, Refused
<1>5. Rows'
  <2>1. DraftsTell'
    <3>1. \A d \in Delivery : Conversions(about[d])' = Conversions(about[d])
      BY DEF Conversions
    <3>2. DraftsTell
      BY DEF Rows
    <3> QED  BY <3>1, <3>2, Zenon DEF DraftsTell
  <2>2. Alone'
    BY DEF Rows, Alone
  <2>3. RowTellsLedger' /\ FailedIsUnpaid'
    BY DEF Rows, RowTellsLedger, FailedIsUnpaid, Conversions
  <2> QED  BY <2>1, <2>2, <2>3 DEF Rows
<1> QED  BY <1>1, <1>3, <1>4, <1>5 DEF Locking

LEMMA SafeAlways == AmongOthers => [](IInv /\ Answered /\ KeysApart)
<1> DEFINE I == IInv /\ Answered /\ KeysApart
<1>1. Init => I
  BY IInvInit DEF Init, Answered, KeysApart, Charging
<1>2. I /\ [Next \/ Elsewhere]_vars => I'
  <2>1. I /\ [Next]_vars => I'
    BY IInvNext, AnsweredNext, KeysApartNext
  <2>2. I /\ Elsewhere => I'
    BY ElsewhereKeeps DEF Elsewhere, Answered, KeysApart, Together, SameKey
  <2> QED  BY <2>1, <2>2
<1> QED  BY <1>1, <1>2, PTL DEF AmongOthers

(* What deposits promise does not depend on being alone with the accounts: *)
(* any other code may post to them, if it takes the row locks.             *)
THEOREM SafeAmongOthers ==
  AmongOthers => /\ []TypeOK /\ []CreditedOnlyIfPaid /\ []RowTellsLedger
                 /\ []FailedIsUnpaid /\ []OneChargePerKey
<1>1. IInv => TypeOK /\ CreditedOnlyIfPaid /\ RowTellsLedger /\ FailedIsUnpaid
  BY DEF IInv, Locking, Verdicts, Rows
<1> QED  BY <1>1, KeysHold, SafeAlways, PTL

----------------------------------------------------------------------------
(* The exemptions are the faults: without the fault, the promise is kept   *)
(* to the letter.                                                          *)

(* Only a fault the environment has can hit.  (A verdict that is early     *)
(* needs no fault of the gateway's.)                                       *)
FaultsGiven == \A r \in Request : mishap[r] \ {"early_verdict"} \subseteq Faults

LEMMA FaultsGivenNext == IInv /\ FaultsGiven /\ [Next]_vars => FaultsGiven'
<1> SUFFICES ASSUME IInv, FaultsGiven, [Next]_vars PROVE FaultsGiven'
  OBVIOUS
<1>0. TypeOK /\ InUse
  BY DEF IInv, Locking
<1>1. CASE UNCHANGED mishap
  BY <1>1 DEF FaultsGiven
<1>2. ASSUME NEW q \in Request, NEW fault \in Faults \cup {"early_verdict"}, Hit(q, fault)
      PROVE  FaultsGiven'
  BY <1>0, <1>2 DEF FaultsGiven, Hit, TypeOK
<1>3. ASSUME NEW q \in Request, LookUpKey(q) \/ ChargeLost(q) \/ PayAgain(q)
      PROVE  FaultsGiven'
  BY <1>1, <1>2, <1>3 DEF LookUpKey, Sent, ChargeLost, PayAgain
<1>4. ASSUME NEW q \in Request, NEW d \in Delivery, NEW verdict \in {"paid", "unpaid"},
             IgnoreCallback(d, q, verdict) \/ ReceiveCallback(d, q, verdict)
      PROVE  FaultsGiven'
  BY <1>1, <1>2, <1>4 DEF IgnoreCallback, ReceiveCallback, CanDeliver
<1>5. ASSUME NEW d \in Delivery, LockWithoutRate(d) PROVE FaultsGiven'
  BY <1>0, <1>2, <1>5 DEF LockWithoutRate, InUse
<1> QED
  BY <1>1, <1>3, <1>4, <1>5, Steps DEF vars, RejectCharge, ChargeAccepted, InsertDeposit,
     CrashRequest, Decide, LockAndCredit, CommitCallback, CommitFailure, CrashCallback

LEMMA FaultsGivenAlways == Spec => [](IInv /\ FaultsGiven)
<1>1. Init => FaultsGiven
  BY DEF Init, FaultsGiven
<1> QED  BY <1>1, IInvInit, IInvNext, FaultsGivenNext, PTL DEF Spec

(* A gateway that waits for the end of one delivery before it sends the    *)
(* next one never has a deposit credited twice.                            *)
THEOREM CreditedOnceWithoutOverlap ==
  ASSUME "overlap" \notin Faults
  PROVE  Spec => []CreditedOnce
<1>1. IInv /\ FaultsGiven => CreditedOnce
  <2> SUFFICES ASSUME IInv, FaultsGiven, NEW r \in Request
               PROVE  credited[r] \in {0} \cup Conversions(r)
    BY DEF CreditedOnce
  <2>1. "overlap" \notin mishap[r]
    BY DEF FaultsGiven
  <2> QED  BY <2>1, Zenon DEF IInv, Rows, RowTellsLedger
<1> QED  BY <1>1, FaultsGivenAlways, PTL

(* With a rate for every conversion, and no declined intent paid after all,*)
(* nobody pays for a deposit that fails.                                   *)
THEOREM NoFundsChargedWithRates ==
  ASSUME Faults \cap {"no_rate", "pay_again"} = {}
  PROVE  Spec => []NoFundsCharged
<1>1. IInv /\ FaultsGiven => NoFundsCharged
  <2> SUFFICES ASSUME IInv, FaultsGiven, NEW r \in Request, status[r] = "failed"
               PROVE  gateway[r] # "paid"
    BY DEF NoFundsCharged
  <2>1. mishap[r] \cap {"no_rate", "pay_again"} = {}
    BY DEF FaultsGiven
  <2> QED  BY <2>1 DEF IInv, Rows, FailedIsUnpaid
<1> QED  BY <1>1, FaultsGivenAlways, PTL

(* A client that waits for its answers is charged once per key, as long as *)
(* no request dies and no answer of the gateway is lost.                   *)
THEOREM ChargedOnceWithoutFailure ==
  ASSUME Faults \cap {"double_tap", "lost_response"} = {}, MaxCrashes = 0
  PROVE  Spec => []ChargedOncePerKey
<1> DEFINE FailsEarly == \A r \in Request : pc[r] = "failed" => gateway[r] = "idle"
<1>1. Init => FailsEarly /\ Answered /\ KeysApart
  BY DEF Init, Answered, KeysApart, Charging
<1>2. IInv /\ FailsEarly /\ [Next]_vars => FailsEarly'
  <2> SUFFICES ASSUME IInv, FailsEarly, [Next]_vars, NEW r \in Request, pc'[r] = "failed"
               PROVE  gateway'[r] = "idle"
    OBVIOUS
  <2>0. TypeOK /\ crashes = 0 /\ (pc[r] \in {"new", "charge"} => gateway[r] = "idle")
    BY DEF IInv, Locking, Verdicts, InTurn, TypeOK
  <2>1. CASE UNCHANGED <<pc, gateway>>
    BY <2>1
  <2>2. ASSUME NEW q \in Request,
               \/ LookUpKey(q) \/ RejectCharge(q) \/ ChargeAccepted(q) \/ InsertDeposit(q)
               \/ Decide(q) \/ PayAgain(q)
        PROVE  gateway'[r] = "idle"
    BY <2>0, <2>2 DEF LookUpKey, RejectCharge, ChargeAccepted, InsertDeposit, Decide, PayAgain,
       TypeOK
  <2>3. ASSUME NEW q \in Request PROVE ~ ChargeLost(q) /\ ~ CrashRequest(q)
    BY <2>0 DEF ChargeLost, CrashRequest
  <2> HIDE DEF FailsEarly
  <2> QED
    BY <2>1, <2>2, <2>3, Steps DEF vars, IgnoreCallback, ReceiveCallback, LockAndCredit,
       LockWithoutRate, CommitCallback, CommitFailure, CrashCallback
<1>3. FailsEarly /\ FaultsGiven /\ OneChargePerKey => ChargedOncePerKey
  <2> SUFFICES ASSUME FailsEarly, FaultsGiven, OneChargePerKey, NEW r \in Request,
                      NEW q \in Request, r # q, SameKey(r, q), gateway[r] # "idle",
                      gateway[q] # "idle"
               PROVE  FALSE
    BY DEF ChargedOncePerKey
  <2>1. "double_tap" \notin mishap[r] \cup mishap[q]
    BY DEF FaultsGiven
  <2> QED  BY <2>1 DEF OneChargePerKey
<1> QED
  BY <1>1, <1>2, <1>3, FaultsGivenAlways, AnsweredNext, KeysApartNext, KeysHold, PTL DEF Spec
=============================================================================

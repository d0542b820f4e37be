------------------------------ MODULE Deposits ------------------------------
(***************************************************************************)
(* Money entering the wallet: the POST /deposits/... requests and the      *)
(* gateway callbacks that confirm them (app/modules/deposits, and the      *)
(* deposit half of app/modules/webhooks).                                  *)
(*                                                                         *)
(* A deposit request asks the gateway first and writes its row last; the   *)
(* account is credited by a callback alone.  Sessions, row locks and       *)
(* drafts are as in Payouts.  A request stands also for the one Deposit    *)
(* row it may create.                                                      *)
(***************************************************************************)
EXTENDS Integers

CONSTANTS
  Request,    \* POST /deposits/... requests
  Delivery,   \* gateway callbacks that can be in the making at the same time
  Account,
  Key,        \* idempotency keys
  NoKey,      \* a request without one
  NoOne,      \* holder of a free row lock
  Unset,      \* a callback slot that is not in use
  Payee,      \* [Request -> Account]: the account to be credited
  Amount,     \* [Request -> positive]: the amount typed in
  Foreign,    \* the requests whose currency is not the account's
  Rates,      \* exchange rates a lookup may return
  KeyOf,      \* [Request -> Key \cup {NoKey}]
  Stripe,     \* requests on Stripe; the others are M-Pesa or Airtel
  Opening,    \* [Account -> Nat]: balances before the first request
  Others,     \* sessions of the other modules, which lock the same rows
  Faults,     \* what the environment does besides the usual, see FaultKinds
  MaxCrashes  \* bound on the sessions that die half way

(***************************************************************************)
(* "lost_response":  the gateway prompts the payer and the caller sees a   *)
(*                   network error.                                        *)
(* "early_verdict":  the gateway's callback overtakes the request's commit.*)
(* "overlap":        two callbacks about one deposit are handled at once.  *)
(* "double_tap":     a client sends a key again before the first answer.   *)
(* "no_rate":        the exchange rate service does not answer.            *)
(* "pay_again":      a payer whose card was declined pays the same         *)
(*                   PaymentIntent with another one.                       *)
(***************************************************************************)
FaultKinds ==
  {"lost_response", "early_verdict", "overlap", "double_tap", "no_rate", "pay_again"}

ASSUME DepositConstants ==
  /\ NoOne \notin Delivery \cup Others /\ Others \cap Delivery = {}
  /\ Unset \notin Request
  /\ Payee \in [Request -> Account]
  /\ Amount \in [Request -> Nat \ {0}]
  /\ KeyOf \in [Request -> Key \cup {NoKey}]
  /\ Rates \subseteq Nat \ {0}
  /\ Opening \in [Account -> Nat]
  /\ Faults \subseteq FaultKinds
  /\ MaxCrashes \in Nat

VARIABLES
  balance,    \* accounts.balance, committed
  ledger,     \* per account, the sum of its Transaction rows, committed
  status,     \* deposits.status, committed; "none" while there is no row
  credited,   \* per deposit, the sum of its Transactions, committed
  lock,       \* who holds the accounts row FOR UPDATE
  draft,      \* what each callback has written and not committed
  pc,         \* where each request is
  hook,       \* where each callback is
  about,      \* the deposit a callback is about
  gateway,    \* what became of the charge
  owed,       \* the verdicts the gateway still has to get acknowledged
  mishap,     \* history: the faults that have hit each request
  crashes     \* sessions that died so far

vars == <<balance, ledger, status, credited, lock, draft, pc, hook, about,
          gateway, owed, mishap, crashes>>

rows == <<balance, ledger, status, credited>>

Status == {"none", "pending", "completed", "failed"}
Finished == {"done", "replayed", "rejected", "failed"}

Hit(r, fault) == mishap' = [mishap EXCEPT ![r] = @ \cup {fault}]

NoDraft == [balance |-> 0, credit |-> 0, status |-> "none"]

----------------------------------------------------------------------------
(* Rules the steps are built from.  Where two resemble each other, the     *)
(* first is a defect the properties below must notice, and no step uses it.*)

SameKey(r, q) == KeyOf[r] # NoKey /\ KeyOf[r] = KeyOf[q] /\ Payee[r] = Payee[q]

(* get_by_idempotency_key_for_user: the committed rows this key finds. *)
ExistingPending(r) == {q \in Request : SameKey(r, q) /\ status[q] = "pending"}
Existing(r) == {q \in Request : SameKey(r, q) /\ status[q] # "none"}

(* convert: the amounts r may come to in the account's currency. *)
Conversions(r) ==
  IF r \in Foreign THEN {Amount[r] * rate : rate \in Rates} ELSE {Amount[r]}

(* payment_intent.succeeded, ResultCode 0, status_code "TS". *)
ConfirmsAsText(verdict) == verdict = "0"
ConfirmsUnlessPending(verdict) == verdict # "pending"
Confirms(verdict) == verdict = "paid"

(* The lookup by external_reference and the status check. *)
IgnoredIfAbsent(r) == status[r] = "none"
Ignored(r) == status[r] # "pending"

Handled(r) == {d \in Delivery : about[d] = r}

(* The requests in progress with the same key as r. *)
Tapped(r) == {q \in Request \ {r} : SameKey(r, q) /\ pc[q] \notin Finished \cup {"new"}}

Sent(r) == Tapped(r) = {} \/ "double_tap" \in Faults

(* _credit_account_and_record on the balance read under the lock. *)
CreditAsReported(have, amt, r) ==
  [balance |-> have + amt, credit |-> amt, status |-> "succeeded"]
CreditAccountAndRecord(have, amt, r) ==
  [balance |-> have + amt, credit |-> amt, status |-> "completed"]

----------------------------------------------------------------------------
(* POST /deposits/stripe, /mpesa, /airtel *)

(* The idempotency lookup.  Two rows make scalar_one_or_none raise. *)
LookUpKey(r) ==
  /\ pc[r] = "new" /\ Sent(r)
  /\ pc' = [pc EXCEPT ![r] = CASE Existing(r) = {} -> "charge"
                               [] \E q \in Request : Existing(r) = {q} -> "replayed"
                               [] OTHER -> "failed"]
  /\ IF Tapped(r) = {} THEN UNCHANGED mishap ELSE Hit(r, "double_tap")
  /\ UNCHANGED <<rows, lock, draft, hook, about, gateway, owed, crashes>>

(* InvalidPhoneNumber, or the gateway refuses: nothing is written. *)
RejectCharge(r) ==
  /\ pc[r] = "charge"
  /\ pc' = [pc EXCEPT ![r] = "rejected"]
  /\ UNCHANGED <<rows, lock, draft, hook, about, gateway, owed, mishap, crashes>>

(* PaymentIntent.create, the STK push or the Airtel collection is accepted. *)
ChargeAccepted(r) ==
  /\ pc[r] = "charge"
  /\ gateway' = [gateway EXCEPT ![r] = "asked"]
  /\ pc' = [pc EXCEPT ![r] = "insert"]
  /\ UNCHANGED <<rows, lock, draft, hook, about, owed, mishap, crashes>>

(* The payer is prompted and the answer lost: the request fails, no row.   *)
(* (A PaymentIntent whose client_secret is lost cannot be paid.)           *)
ChargeLost(r) ==
  /\ "lost_response" \in Faults /\ r \notin Stripe
  /\ pc[r] = "charge"
  /\ gateway' = [gateway EXCEPT ![r] = "asked"]
  /\ pc' = [pc EXCEPT ![r] = "failed"]
  /\ Hit(r, "lost_response")
  /\ UNCHANGED <<rows, lock, draft, hook, about, owed, crashes>>

(* deposit_repo.create and the router's commit.  The foreign key makes the *)
(* INSERT wait for a transaction that holds the account FOR UPDATE.        *)
InsertDeposit(r) ==
  /\ pc[r] = "insert" /\ lock[Payee[r]] = NoOne
  /\ status' = [status EXCEPT ![r] = "pending"]
  /\ pc' = [pc EXCEPT ![r] = "done"]
  /\ UNCHANGED <<balance, ledger, credited, lock, draft, hook, about, gateway,
                 owed, mishap, crashes>>

(* The process dies or an unexpected exception rolls the session back. *)
CrashRequest(r) ==
  /\ crashes < MaxCrashes
  /\ pc[r] \in {"charge", "insert"}
  /\ pc' = [pc EXCEPT ![r] = "failed"]
  /\ crashes' = crashes + 1
  /\ UNCHANGED <<rows, lock, draft, hook, about, gateway, owed, mishap>>

----------------------------------------------------------------------------
(* The gateway and the payer (external). *)

(* The payer answers the prompt, or uses the client_secret of a Stripe     *)
(* deposit, which only the answered client has.                            *)
Decide(r) ==
  /\ gateway[r] = "asked"
  /\ IF r \in Stripe THEN pc[r] = "done"
     ELSE pc[r] \in Finished \/ "early_verdict" \in Faults
  /\ \E verdict \in {"paid", "unpaid"} :
       /\ gateway' = [gateway EXCEPT ![r] = verdict]
       /\ owed' = [owed EXCEPT ![r] = {verdict}]
  /\ UNCHANGED <<rows, lock, draft, pc, hook, about, mishap, crashes>>

(* payment_failed does not close a PaymentIntent. *)
PayAgain(r) ==
  /\ "pay_again" \in Faults /\ r \in Stripe
  /\ gateway[r] = "unpaid"
  /\ gateway' = [gateway EXCEPT ![r] = "paid"]
  /\ owed' = [owed EXCEPT ![r] = @ \cup {"paid"}]
  /\ Hit(r, "pay_again")
  /\ UNCHANGED <<rows, lock, draft, pc, hook, about, crashes>>

----------------------------------------------------------------------------
(* The callbacks: handle_stripe_webhook_event, handle_mpesa_stk_callback,  *)
(* handle_airtel_collection_callback.                                      *)

(* The 200 stops the gateway from repeating the verdict, unless it is lost.*)
Acknowledge(r, verdict) ==
  \E again \in {{}, {verdict}} : owed' = [owed EXCEPT ![r] = (@ \ {verdict}) \cup again]

CanDeliver(d, r, verdict) ==
  /\ verdict \in owed[r] /\ hook[d] = "idle"
  /\ Handled(r) = {} \/ "overlap" \in Faults

IgnoreCallback(d, r, verdict) ==
  /\ CanDeliver(d, r, verdict) /\ Ignored(r)
  /\ Acknowledge(r, verdict)
  /\ IF pc[r] \in Finished THEN UNCHANGED mishap ELSE Hit(r, "early_verdict")
  /\ UNCHANGED <<rows, lock, draft, pc, hook, about, gateway, crashes>>

(* The status was checked before any lock is taken. *)
ReceiveCallback(d, r, verdict) ==
  /\ CanDeliver(d, r, verdict) /\ ~ Ignored(r)
  /\ hook' = [hook EXCEPT ![d] = IF Confirms(verdict) THEN "credit" ELSE "fail"]
  /\ about' = [about EXCEPT ![d] = r]
  /\ IF Handled(r) = {} THEN UNCHANGED mishap ELSE Hit(r, "overlap")
  /\ UNCHANGED <<rows, lock, draft, pc, gateway, owed, crashes>>

LockWithoutWaiting(s, a) == lock' = [lock EXCEPT ![a] = s]
LockAccount(s, a) == lock[a] = NoOne /\ lock' = [lock EXCEPT ![a] = s]

Unlock(s) == lock' = [a \in Account |-> IF lock[a] = s THEN NoOne ELSE lock[a]]

(* get_by_id_locked and convert succeed. *)
LockAndCredit(d) ==
  LET r == about[d]  a == Payee[about[d]] IN
  /\ hook[d] = "credit"
  /\ LockAccount(d, a)
  /\ \E amt \in Conversions(r) :
       draft' = [draft EXCEPT ![d] = CreditAccountAndRecord(balance[a], amt, r)]
  /\ hook' = [hook EXCEPT ![d] = "commit"]
  /\ UNCHANGED <<rows, pc, about, gateway, owed, mishap, crashes>>

(* ExchangeRateUnavailable: mark_failed and "No funds were charged". *)
LockWithoutRate(d) ==
  LET r == about[d] IN
  /\ "no_rate" \in Faults /\ r \in Foreign
  /\ hook[d] = "credit"
  /\ LockAccount(d, Payee[r])
  /\ draft' = [draft EXCEPT ![d] =
       [balance |-> balance[Payee[r]], credit |-> 0, status |-> "failed"]]
  /\ hook' = [hook EXCEPT ![d] = "commit"]
  /\ Hit(r, "no_rate")
  /\ UNCHANGED <<rows, pc, about, gateway, owed, crashes>>

Release(d) ==
  /\ hook' = [hook EXCEPT ![d] = "idle"]
  /\ about' = [about EXCEPT ![d] = Unset]

(* The webhook router's db.commit() of a credit or of a failed conversion. *)
CommitCallback(d) ==
  LET r == about[d]  a == Payee[about[d]] IN
  /\ hook[d] = "commit"
  /\ balance' = [balance EXCEPT ![a] = draft[d].balance]
  /\ ledger' = [ledger EXCEPT ![a] = @ + draft[d].credit]
  /\ credited' = [credited EXCEPT ![r] = @ + draft[d].credit]
  /\ status' = [status EXCEPT ![r] = draft[d].status]
  /\ draft' = [draft EXCEPT ![d] = NoDraft]
  /\ Unlock(d)
  /\ Release(d)
  /\ Acknowledge(r, "paid")
  /\ UNCHANGED <<pc, gateway, mishap, crashes>>

(* mark_failed writes the deposit row alone: no account lock, but it waits *)
(* for a session that has flushed an UPDATE of the same row.               *)
CommitFailure(d) ==
  /\ hook[d] = "fail"
  /\ \A e \in Handled(about[d]) : hook[e] # "commit"
  /\ status' = [status EXCEPT ![about[d]] = "failed"]
  /\ Release(d)
  /\ Acknowledge(about[d], "unpaid")
  /\ UNCHANGED <<balance, ledger, credited, lock, draft, pc, gateway, mishap, crashes>>

(* The handler dies: nothing is committed and the gateway gets no 200. *)
CrashCallback(d) ==
  /\ crashes < MaxCrashes
  /\ hook[d] # "idle"
  /\ Release(d)
  /\ draft' = [draft EXCEPT ![d] = NoDraft]
  /\ Unlock(d)
  /\ crashes' = crashes + 1
  /\ UNCHANGED <<rows, pc, gateway, owed, mishap>>

----------------------------------------------------------------------------
Init ==
  /\ balance = Opening
  /\ ledger = [a \in Account |-> 0]
  /\ status = [r \in Request |-> "none"]
  /\ credited = [r \in Request |-> 0]
  /\ lock = [a \in Account |-> NoOne]
  /\ draft = [d \in Delivery |-> NoDraft]
  /\ pc = [r \in Request |-> "new"]
  /\ hook = [d \in Delivery |-> "idle"]
  /\ about = [d \in Delivery |-> Unset]
  /\ gateway = [r \in Request |-> "idle"]
  /\ owed = [r \in Request |-> {}]
  /\ mishap = [r \in Request |-> {}]
  /\ crashes = 0

RequestStep(r) ==
  \/ LookUpKey(r) \/ RejectCharge(r)
  \/ ChargeAccepted(r) \/ ChargeLost(r) \/ InsertDeposit(r)

CallbackStep(d) ==
  \/ LockAndCredit(d) \/ LockWithoutRate(d)
  \/ CommitCallback(d) \/ CommitFailure(d)

Deliver(r, verdict) ==
  \E d \in Delivery : IgnoreCallback(d, r, verdict) \/ ReceiveCallback(d, r, verdict)

(* Every request answered, every verdict delivered.  A Stripe deposit whose*)
(* client lost the client_secret stays "asked" for good.                   *)
Rest ==
  /\ \A r \in Request : /\ pc[r] \in Finished /\ owed[r] = {}
                        /\ gateway[r] = "asked" => r \in Stripe /\ pc[r] # "done"
  /\ \A d \in Delivery : hook[d] = "idle"
  /\ UNCHANGED vars

Next ==
  \/ \E r \in Request : \/ RequestStep(r) \/ CrashRequest(r)
                        \/ Decide(r) \/ PayAgain(r)
                        \/ \E verdict \in {"paid", "unpaid"} : Deliver(r, verdict)
  \/ \E d \in Delivery : CallbackStep(d) \/ CrashCallback(d)
  \/ Rest

Spec == Init /\ [][Next]_vars

(* The event loop runs every task that can go on, and a gateway sends each *)
(* verdict until it is acknowledged.  That payers answer is not assumed.   *)
FairSpec ==
  /\ Spec
  /\ \A r \in Request : WF_vars(RequestStep(r))
  /\ \A r \in Request, verdict \in {"paid", "unpaid"} : WF_vars(Deliver(r, verdict))
  /\ \A d \in Delivery : WF_vars(CallbackStep(d))

----------------------------------------------------------------------------
(* Properties. *)

TypeOK ==
  /\ balance \in [Account -> Nat] /\ ledger \in [Account -> Int]
  /\ status \in [Request -> Status]
  /\ credited \in [Request -> Nat]
  /\ lock \in [Account -> Delivery \cup Others \cup {NoOne}]
  /\ draft \in [Delivery -> [balance : Nat, credit : Nat, status : Status]]
  /\ pc \in [Request -> {"new", "charge", "insert"} \cup Finished]
  /\ hook \in [Delivery -> {"idle", "credit", "fail", "commit"}]
  /\ about \in [Delivery -> Request \cup {Unset}]
  /\ gateway \in [Request -> {"idle", "asked", "paid", "unpaid"}]
  /\ owed \in [Request -> SUBSET {"paid", "unpaid"}]
  /\ mishap \in [Request -> SUBSET FaultKinds]
  /\ crashes \in 0..MaxCrashes

(* An account's balance is its opening balance plus the sum of its         *)
(* Transaction rows, whatever callbacks ran at the same time.              *)
LedgerBacked == \A a \in Account : balance[a] = Opening[a] + ledger[a]

(* "Never optimistically": an account is credited only for a charge the    *)
(* payer really paid, under every fault and interleaving.                  *)
CreditedOnlyIfPaid == \A r \in Request : credited[r] > 0 => gateway[r] = "paid"

(* A deposit row tells what its Transactions did: one credit, of one       *)
(* conversion of its amount, exactly when it is completed.  Deliveries     *)
(* that overlap break it (see CreditedOnce).                               *)
RowTellsLedger ==
  \A r \in Request : "overlap" \notin mishap[r] =>
    IF status[r] = "completed" THEN credited[r] \in Conversions(r) ELSE credited[r] = 0

(* One key, one prompt to pay, as long as the client waits for its answers *)
(* and no earlier request with the key died or lost the gateway's answer.  *)
OneChargePerKey ==
  \A r, q \in Request :
    /\ r # q /\ SameKey(r, q) /\ gateway[r] # "idle" /\ gateway[q] # "idle"
    => \/ "double_tap" \in mishap[r] \cup mishap[q]
       \/ "failed" \in {pc[r], pc[q]}

(* A deposit the wallet calls failed did not cost the payer anything,      *)
(* unless the rate was missing or the payer tried a declined intent again. *)
FailedIsUnpaid ==
  \A r \in Request :
    status[r] = "failed" /\ mishap[r] \cap {"no_rate", "pay_again"} = {}
    => gateway[r] = "unpaid"

(* What a payer paid is credited in the end, however often callbacks are   *)
(* repeated and handlers die.  Exempt: a callback that was acknowledged for*)
(* nothing before the commit, a missing rate, a declined intent paid again.*)
PaidIsCredited ==
  \A r \in Request :
    (pc[r] = "done" /\ gateway[r] = "paid")
    ~> \/ credited[r] > 0
       \/ mishap[r] \cap {"early_verdict", "no_rate", "pay_again"} # {}

(* No payment is forgotten on the way: until the row of a deposit that was *)
(* paid says completed, the gateway still owes the callback that will make *)
(* it so, whoever died in between.  Exempt as in PaidIsCredited.           *)
NoPaymentForgotten ==
  \A r \in Request :
    /\ pc[r] = "done" /\ gateway[r] = "paid"
    /\ mishap[r] \cap {"early_verdict", "no_rate", "pay_again"} = {}
    => status[r] = "completed" \/ "paid" \in owed[r]

(* The abstract payment each deposit implements; deposits give nothing back.*)
Abstract == INSTANCE Books WITH
  Payment <- Request,
  Of <- Payee,
  Moves <- [r \in Request |-> Conversions(r)],
  moved <- credited,
  back <- [r \in Request |-> 0],
  excused <- {r \in Request : "overlap" \in mishap[r]}

(* Every step of every request and callback is one credit of the deposit's *)
(* amount or none, and no deposit is credited again, unless deliveries of  *)
(* its callbacks overlap.                                                  *)
ImplementsBooks == Abstract!Spec

(* "A redelivered webhook is a safe no-op, not a double-credit."           *)
CreditedOnce ==
  \A r \in Request : credited[r] \in {0} \cup Conversions(r)

(* "No funds were charged": a deposit that fails for want of a rate.       *)
NoFundsCharged ==
  \A r \in Request : status[r] = "failed" => gateway[r] # "paid"

(* One key never prompts the payer twice.                                  *)
ChargedOncePerKey ==
  \A r, q \in Request :
    r # q /\ SameKey(r, q) => ~ (gateway[r] # "idle" /\ gateway[q] # "idle")
=============================================================================

------------------------------ MODULE Payouts ------------------------------
(***************************************************************************)
(* Money leaving the wallet: the POST /payouts/... requests and the        *)
(* gateway callbacks that settle them (app/modules/payouts, and the payout *)
(* half of app/modules/webhooks).                                          *)
(*                                                                         *)
(* A request and a callback each run in one database session, that is, one *)
(* transaction.  The account row is read with SELECT ... FOR UPDATE and    *)
(* stays locked until the transaction ends, so what a session has written  *)
(* and not committed is its draft, and nobody else sees it.  Every await   *)
(* of the code lets another session run: each step below ends at one.      *)
(*                                                                         *)
(* Amounts are whole units of the account's currency.  A request stands    *)
(* also for the one Payout row it may create.                              *)
(***************************************************************************)
EXTENDS Integers, FiniteSets

CONSTANTS
  Request,    \* POST /payouts/... requests
  Delivery,   \* gateway callbacks that can be in the making at the same time
  Account,
  Key,        \* idempotency keys
  NoKey,      \* a request without one
  NoOne,      \* holder of a free row lock
  Unset,      \* a NULL converted_amount, a callback slot that is not in use
  Payer,      \* [Request -> Account]: the account the request pays from
  Amount,     \* [Request -> positive]: the amount typed in
  Foreign,    \* the requests whose currency is not the account's
  Rates,      \* exchange rates a lookup may return
  KeyOf,      \* [Request -> Key \cup {NoKey}]
  Stripe,     \* requests on a Stripe rail; the others are M-Pesa or Airtel
  Opening,    \* [Account -> Nat]: balances before the first request
  Others,     \* sessions of the other modules, which lock the same rows
  Faults,     \* what the environment does besides the usual, see FaultKinds
  MaxCrashes  \* bound on the sessions that die half way

(***************************************************************************)
(* "lost_response":  the gateway takes the order and the caller sees a     *)
(*                   network error (httpx.HTTPError, APIConnectionError).  *)
(* "early_verdict":  the gateway's callback overtakes the request's commit.*)
(* "overlap":        the gateway sends a callback again while the first    *)
(*                   delivery of it is still being handled.                *)
(* "double_tap":     a client sends a key again before the first answer.   *)
(* "queue_timeout":  Daraja reports a timeout instead of a result.         *)
(***************************************************************************)
FaultKinds ==
  {"lost_response", "early_verdict", "overlap", "double_tap", "queue_timeout"}

Session == Request \cup Delivery

ASSUME PayoutConstants ==
  /\ Request \cap Delivery = {}
  /\ NoOne \notin Session \cup Others /\ Others \cap Session = {}
  /\ Unset \notin Request /\ Unset \notin Nat
  /\ Payer \in [Request -> Account]
  /\ Amount \in [Request -> Nat \ {0}]
  /\ KeyOf \in [Request -> Key \cup {NoKey}]
  /\ Rates \subseteq Nat \ {0}
  /\ Opening \in [Account -> Nat]
  /\ Faults \subseteq FaultKinds
  /\ MaxCrashes \in Nat

VARIABLES
  balance,    \* accounts.balance, committed
  ledger,     \* per account, the sum of its Transaction rows, committed
  status,     \* payouts.status, committed; "none" while there is no row
  converted,  \* payouts.converted_amount, committed
  debit,      \* per payout, the amount of its withdrawal Transaction
  credit,     \* per payout, the sum of its reversal Transactions
  lock,       \* who holds the accounts row FOR UPDATE
  draft,      \* what each session has written and not committed
  pc,         \* where each request is
  hook,       \* where each callback is
  about,      \* the payout a callback is about
  gateway,    \* what the gateway did with each order
  owed,       \* the gateway still has to get its verdict acknowledged
  mishap,     \* history: the faults that have hit each request
  crashes     \* sessions that died so far

vars == <<balance, ledger, status, converted, debit, credit, lock, draft,
          pc, hook, about, gateway, owed, mishap, crashes>>

rows == <<balance, ledger, status, converted, debit, credit>>
requests == <<pc, gateway>>
hooks == <<hook, about, owed>>

Status == {"none", "pending", "completed", "reversed"}
Finished == {"done", "replayed", "rejected", "failed"}
Holding == {"submit", "commit"}

Hit(r, fault) == mishap' = [mishap EXCEPT ![r] = @ \cup {fault}]

(* What a session may hold uncommitted. *)
Draft == [balance : Int, debit : Nat, credit : Nat,
          converted : Nat \cup {Unset}, status : Status]

NoDraft == [balance |-> 0, debit |-> 0, credit |-> 0,
            converted |-> Unset, status |-> "none"]

----------------------------------------------------------------------------
(* Rules the steps are built from.  Where two resemble each other, the     *)
(* first is a defect the properties below must notice, and no step uses it.*)

SameKey(r, q) == KeyOf[r] # NoKey /\ KeyOf[r] = KeyOf[q] /\ Payer[r] = Payer[q]

(* get_by_idempotency_key_for_user: the committed rows this key finds. *)
ExistingLive(r) ==
  {q \in Request : SameKey(r, q) /\ status[q] \in {"pending", "completed"}}
Existing(r) == {q \in Request : SameKey(r, q) /\ status[q] # "none"}

(* convert: the amounts r may come to in the account's currency. *)
Conversions(r) ==
  IF r \in Foreign THEN {Amount[r] * rate : rate \in Rates} ELSE {Amount[r]}

CoversAnything(have, amount) == TRUE
Covers(have, amount) == have >= amount

(* What _reverse_deduction gives back. *)
AmountAsTyped(r, conv) == Amount[r]
AmountToCredit(r, conv) == IF conv # Unset THEN conv ELSE Amount[r]

(* The status a callback must find to act on it. *)
AwaitedPending(r) == "pending"
Awaited(r) == IF r \in Stripe THEN "completed" ELSE "pending"

(* The status a request leaves its row in when the gateway accepts. *)
AcceptedAsReported(r) == IF r \in Stripe THEN "in_transit" ELSE "pending"
Accepted(r) == IF r \in Stripe THEN "completed" ELSE "pending"

Handled(r) == {d \in Delivery : about[d] = r}

----------------------------------------------------------------------------
(* The database: a row lock is held to the end of the transaction. *)

LockWithoutWaiting(s, a) == lock' = [lock EXCEPT ![a] = s]
LockAccount(s, a) == lock[a] = NoOne /\ lock' = [lock EXCEPT ![a] = s]

Unlock(s) == lock' = [a \in Account |-> IF lock[a] = s THEN NoOne ELSE lock[a]]

(* COMMIT of a session that holds the account of payout r. *)
CommitDraft(s, r) ==
  LET a == Payer[r] IN
  /\ balance' = [balance EXCEPT ![a] = draft[s].balance]
  /\ ledger' = [ledger EXCEPT ![a] = @ + draft[s].credit - draft[s].debit]
  /\ status' = [status EXCEPT ![r] = draft[s].status]
  /\ converted' = [converted EXCEPT ![r] = draft[s].converted]
  /\ debit' = [debit EXCEPT ![r] = @ + draft[s].debit]
  /\ credit' = [credit EXCEPT ![r] = @ + draft[s].credit]
  /\ draft' = [draft EXCEPT ![s] = NoDraft]
  /\ Unlock(s)

(* _reverse_deduction, on the draft of a session that holds the account. *)
ReverseBalanceOnly(work, r) ==
  [work EXCEPT !.balance = @ + AmountToCredit(r, work.converted), !.status = "reversed"]
ReverseDeduction(work, r) ==
  LET back == AmountToCredit(r, work.converted) IN
  [work EXCEPT !.balance = @ + back, !.credit = @ + back, !.status = "reversed"]

----------------------------------------------------------------------------
(* POST /payouts/mpesa, /airtel, /stripe-card, /bank-account *)

(* The requests in progress with the same key as r. *)
Tapped(r) == {q \in Request \ {r} : SameKey(r, q) /\ pc[q] \notin Finished \cup {"new"}}

(* A client waits for the answer to a key before it sends the key again,   *)
(* or it taps twice.                                                       *)
Sent(r) == Tapped(r) = {} \/ "double_tap" \in Faults

(* The idempotency lookup.  Two rows make scalar_one_or_none raise; one is *)
(* returned as it is; with none the payout goes ahead.                     *)
LookUpKey(r) ==
  /\ pc[r] = "new" /\ Sent(r)
  /\ pc' = [pc EXCEPT ![r] = CASE Existing(r) = {} -> "deduct"
                               [] \E q \in Request : Existing(r) = {q} -> "replayed"
                               [] OTHER -> "failed"]
  /\ IF Tapped(r) = {} THEN UNCHANGED mishap ELSE Hit(r, "double_tap")
  /\ UNCHANGED <<rows, lock, draft, gateway, hooks, crashes>>

(* Before any write: InvalidCountry precedes the lookup of the key,        *)
(* InvalidPhoneNumber follows it.                                          *)
RejectInput(r) ==
  /\ IF r \in Stripe THEN pc[r] = "new" /\ Sent(r) ELSE pc[r] = "deduct"
  /\ pc' = [pc EXCEPT ![r] = "rejected"]
  /\ UNCHANGED <<rows, lock, draft, gateway, hooks, mishap, crashes>>

(* _deduct_balance_and_record and payout_repo.create: lock, convert,       *)
(* deduct, write the withdrawal Transaction and the pending row.           *)
DeductBalanceAndRecord(r) ==
  /\ pc[r] = "deduct"
  /\ LockAccount(r, Payer[r])
  /\ \E amt \in Conversions(r) :
       /\ Covers(balance[Payer[r]], amt)
       /\ draft' = [draft EXCEPT ![r] =
            [balance |-> balance[Payer[r]] - amt, debit |-> amt, credit |-> 0,
             converted |-> IF r \in Foreign THEN amt ELSE Unset,
             status |-> "pending"]]
  /\ pc' = [pc EXCEPT ![r] = "submit"]
  /\ UNCHANGED <<rows, gateway, hooks, mishap, crashes>>

(* InsufficientFundsError, or ExchangeRateUnavailable for a foreign        *)
(* currency: under the lock, and rolled back by the router.                *)
RejectDeduction(r) ==
  /\ pc[r] = "deduct" /\ lock[Payer[r]] = NoOne
  /\ \/ \E amt \in Conversions(r) : ~ Covers(balance[Payer[r]], amt)
     \/ r \in Foreign
  /\ pc' = [pc EXCEPT ![r] = "rejected"]
  /\ UNCHANGED <<rows, lock, draft, gateway, hooks, mishap, crashes>>

(* The gateway accepts: set_external_reference, and on Stripe also         *)
(* mark_completed.                                                         *)
SubmitAccepted(r) ==
  /\ pc[r] = "submit"
  /\ gateway' = [gateway EXCEPT ![r] = "accepted"]
  /\ draft' = [draft EXCEPT ![r].status = Accepted(r)]
  /\ pc' = [pc EXCEPT ![r] = "commit"]
  /\ UNCHANGED <<rows, lock, hooks, mishap, crashes>>

(* The call fails and the deduction is reversed in the same transaction. *)
SubmitFailed(r) ==
  /\ pc[r] = "submit"
  /\ gateway' = [gateway EXCEPT ![r] = "refused"]
  /\ draft' = [draft EXCEPT ![r] = ReverseDeduction(@, r)]
  /\ pc' = [pc EXCEPT ![r] = "commit"]
  /\ UNCHANGED <<rows, lock, hooks, mishap, crashes>>

(* Stripe answers with status "failed", and sends payout.failed as well. *)
SubmitFailedAtOnce(r) ==
  /\ pc[r] = "submit" /\ r \in Stripe
  /\ gateway' = [gateway EXCEPT ![r] = "refused"]
  /\ owed' = [owed EXCEPT ![r] = TRUE]
  /\ draft' = [draft EXCEPT ![r] = ReverseDeduction(@, r)]
  /\ pc' = [pc EXCEPT ![r] = "commit"]
  /\ UNCHANGED <<rows, lock, hook, about, mishap, crashes>>

(* The same except clause also catches a timeout or a connection reset     *)
(* after the gateway took the order.                                       *)
SubmitLost(r) ==
  /\ "lost_response" \in Faults /\ pc[r] = "submit"
  /\ gateway' = [gateway EXCEPT ![r] = "accepted"]
  /\ draft' = [draft EXCEPT ![r] = ReverseDeduction(@, r)]
  /\ pc' = [pc EXCEPT ![r] = "commit"]
  /\ Hit(r, "lost_response")
  /\ UNCHANGED <<rows, lock, hooks, crashes>>

(* The router's db.commit(), after a success and after a reversal alike. *)
CommitRequest(r) ==
  /\ pc[r] = "commit"
  /\ CommitDraft(r, r)
  /\ pc' = [pc EXCEPT ![r] = "done"]
  /\ UNCHANGED <<gateway, hooks, mishap, crashes>>

(* The process dies, the connection drops, or an exception no except       *)
(* clause names escapes: the session is closed and rolled back.            *)
CrashRequest(r) ==
  /\ crashes < MaxCrashes
  /\ pc[r] \in {"deduct"} \cup Holding
  /\ pc' = [pc EXCEPT ![r] = "failed"]
  /\ draft' = [draft EXCEPT ![r] = NoDraft]
  /\ Unlock(r)
  /\ crashes' = crashes + 1
  /\ UNCHANGED <<rows, gateway, hooks, mishap>>

----------------------------------------------------------------------------
(* The gateway (external). *)

(* An order is settled some time after it was accepted.  Stripe calls back *)
(* (payout.failed) only about a failure; payout.paid reaches no payout.    *)
Decide(r) ==
  /\ gateway[r] = "accepted"
  /\ pc[r] \in Finished \/ "early_verdict" \in Faults
  /\ \E g \in {"paid", "refused"} :
       /\ gateway' = [gateway EXCEPT ![r] = g]
       /\ owed' = [owed EXCEPT ![r] = g = "refused" \/ r \notin Stripe]
  /\ UNCHANGED <<rows, lock, draft, pc, hook, about, mishap, crashes>>

(* Daraja gives up on the order; mpesa_b2c_timeout only logs it, whatever  *)
(* became of the money.                                                    *)
QueueTimeout(r) ==
  /\ "queue_timeout" \in Faults /\ r \notin Stripe
  /\ gateway[r] = "accepted"
  /\ gateway' = [gateway EXCEPT ![r] = "timed_out"]
  /\ Hit(r, "queue_timeout")
  /\ UNCHANGED <<rows, lock, draft, pc, hooks, crashes>>

----------------------------------------------------------------------------
(* The callbacks: handle_mpesa_b2c_result, handle_airtel_disbursement_     *)
(* callback, handle_stripe_payout_failed_event.                            *)

Acknowledge(r) == \E again \in BOOLEAN : owed' = [owed EXCEPT ![r] = again]

CanDeliver(d, r) ==
  /\ owed[r] /\ hook[d] = "idle"
  /\ Handled(r) = {} \/ "overlap" \in Faults

(* The lookup and the status check, made before any lock is taken.  The    *)
(* answer 200 may still be lost, and the gateway then sends it again.  The *)
(* first of the two is a defect again.                                     *)
IgnoredIfAbsent(r) == status[r] = "none"
Ignored(r) == status[r] # Awaited(r)

(* ResultCode 0, status_code "TS"; anything else reverses. *)
OutcomeInverted(r) == IF gateway[r] = "paid" THEN "reverse" ELSE "complete"
Outcome(r) == IF gateway[r] = "paid" THEN "complete" ELSE "reverse"

IgnoreCallback(d, r) ==
  /\ CanDeliver(d, r) /\ Ignored(r)
  /\ Acknowledge(r)
  /\ IF pc[r] \in Finished THEN UNCHANGED mishap ELSE Hit(r, "early_verdict")
  /\ UNCHANGED <<rows, lock, draft, requests, hook, about, crashes>>

ReceiveCallback(d, r) ==
  /\ CanDeliver(d, r) /\ ~ Ignored(r)
  /\ hook' = [hook EXCEPT ![d] = Outcome(r)]
  /\ about' = [about EXCEPT ![d] = r]
  /\ IF Handled(r) = {} THEN UNCHANGED mishap ELSE Hit(r, "overlap")
  /\ UNCHANGED <<rows, lock, draft, requests, owed, crashes>>

(* mark_completed writes the payout row alone: no account lock. *)
CommitCompletion(d) ==
  /\ hook[d] = "complete"
  /\ status' = [status EXCEPT ![about[d]] = "completed"]
  /\ Acknowledge(about[d])
  /\ hook' = [hook EXCEPT ![d] = "idle"]
  /\ about' = [about EXCEPT ![d] = Unset]
  /\ UNCHANGED <<balance, ledger, converted, debit, credit, lock, draft, requests, mishap, crashes>>

(* get_by_id_locked reads the balance under the lock; the payout row is    *)
(* the one read by the status check, and is not read again.                *)
LockForReversal(d) ==
  LET r == about[d] IN
  /\ hook[d] = "reverse"
  /\ LockAccount(d, Payer[r])
  /\ draft' = [draft EXCEPT ![d] =
       ReverseDeduction([NoDraft EXCEPT !.balance = balance[Payer[r]],
                                        !.converted = converted[r]], r)]
  /\ hook' = [hook EXCEPT ![d] = "commit"]
  /\ UNCHANGED <<rows, requests, about, owed, mishap, crashes>>

CommitReversal(d) ==
  /\ hook[d] = "commit"
  /\ CommitDraft(d, about[d])
  /\ Acknowledge(about[d])
  /\ hook' = [hook EXCEPT ![d] = "idle"]
  /\ about' = [about EXCEPT ![d] = Unset]
  /\ UNCHANGED <<requests, mishap, crashes>>

(* The handler dies: nothing is committed and the gateway gets no 200. *)
CrashCallback(d) ==
  /\ crashes < MaxCrashes
  /\ hook[d] # "idle"
  /\ hook' = [hook EXCEPT ![d] = "idle"]
  /\ about' = [about EXCEPT ![d] = Unset]
  /\ draft' = [draft EXCEPT ![d] = NoDraft]
  /\ Unlock(d)
  /\ crashes' = crashes + 1
  /\ UNCHANGED <<rows, requests, owed, mishap>>

----------------------------------------------------------------------------
Init ==
  /\ balance = Opening
  /\ ledger = [a \in Account |-> 0]
  /\ status = [r \in Request |-> "none"]
  /\ converted = [r \in Request |-> Unset]
  /\ debit = [r \in Request |-> 0]
  /\ credit = [r \in Request |-> 0]
  /\ lock = [a \in Account |-> NoOne]
  /\ draft = [s \in Session |-> NoDraft]
  /\ pc = [r \in Request |-> "new"]
  /\ hook = [d \in Delivery |-> "idle"]
  /\ about = [d \in Delivery |-> Unset]
  /\ gateway = [r \in Request |-> "idle"]
  /\ owed = [r \in Request |-> FALSE]
  /\ mishap = [r \in Request |-> {}]
  /\ crashes = 0

RequestStep(r) ==
  \/ LookUpKey(r) \/ RejectInput(r)
  \/ DeductBalanceAndRecord(r) \/ RejectDeduction(r)
  \/ SubmitAccepted(r) \/ SubmitFailed(r) \/ SubmitFailedAtOnce(r) \/ SubmitLost(r)
  \/ CommitRequest(r)

CallbackStep(d) == CommitCompletion(d) \/ LockForReversal(d) \/ CommitReversal(d)

Deliver(r) == \E d \in Delivery : IgnoreCallback(d, r) \/ ReceiveCallback(d, r)

(* Every request answered, every order settled, every verdict delivered. *)
Rest ==
  /\ \A r \in Request : /\ pc[r] \in Finished /\ ~ owed[r]
                        /\ gateway[r] # "accepted"
  /\ \A d \in Delivery : hook[d] = "idle"
  /\ UNCHANGED vars

Next ==
  \/ \E r \in Request : RequestStep(r) \/ CrashRequest(r)
                        \/ Decide(r) \/ QueueTimeout(r) \/ Deliver(r)
  \/ \E d \in Delivery : CallbackStep(d) \/ CrashCallback(d)
  \/ Rest

Spec == Init /\ [][Next]_vars

(* The event loop runs every task that can go on, the gateway settles what *)
(* it accepted, and sends a callback until it is acknowledged.             *)
FairSpec ==
  /\ Spec
  /\ \A r \in Request : WF_vars(RequestStep(r)) /\ WF_vars(Decide(r)) /\ WF_vars(Deliver(r))
  /\ \A d \in Delivery : WF_vars(CallbackStep(d))

----------------------------------------------------------------------------
(* Properties. *)

TypeOK ==
  /\ balance \in [Account -> Int] /\ ledger \in [Account -> Int]
  /\ status \in [Request -> Status]
  /\ converted \in [Request -> Nat \cup {Unset}]
  /\ debit \in [Request -> Nat] /\ credit \in [Request -> Nat]
  /\ lock \in [Account -> Session \cup Others \cup {NoOne}]
  /\ draft \in [Session -> Draft]
  /\ pc \in [Request -> {"new", "deduct"} \cup Holding \cup Finished]
  /\ hook \in [Delivery -> {"idle", "complete", "reverse", "commit"}]
  /\ about \in [Delivery -> Request \cup {Unset}]
  /\ gateway \in [Request -> {"idle", "accepted", "paid", "refused", "timed_out"}]
  /\ owed \in [Request -> BOOLEAN]
  /\ mishap \in [Request -> SUBSET FaultKinds]
  /\ crashes \in 0..MaxCrashes

(* An account's balance is its opening balance plus the sum of its         *)
(* Transaction rows, whatever requests and callbacks ran at the same time  *)
(* and wherever they died (transactions/models.py: "always derivable").    *)
LedgerBacked == \A a \in Account : balance[a] = Opening[a] + ledger[a]

(* No interleaving of payouts spends the same money twice: the check under *)
(* the lock keeps every balance at or above zero.                          *)
Solvent == \A a \in Account : balance[a] >= 0

(* A payout row tells what its Transactions did: nothing without a row,    *)
(* one whole deduction while it is pending or completed, and the same      *)
(* amount given back once it is reversed, at the rate it was deducted at.  *)
(* Exempt: deliveries that overlap, each of which reverses the payout.     *)
RowTellsLedger ==
  \A r \in Request : "overlap" \notin mishap[r] =>
    CASE status[r] = "none" -> debit[r] = 0 /\ credit[r] = 0
      [] status[r] = "reversed" -> debit[r] > 0 /\ credit[r] = debit[r]
      [] OTHER -> debit[r] > 0 /\ credit[r] = 0

(* One key, one row, as long as the client waits for its answers and no    *)
(* matter which of the requests failed or was reversed.                    *)
OneRowPerKey ==
  \A r, q \in Request :
    /\ r # q /\ SameKey(r, q) /\ status[r] # "none" /\ status[q] # "none"
    => "double_tap" \in mishap[r] \cup mishap[q]

(* Money the gateway sent stays deducted, once the request that ordered it *)
(* is over and unless the gateway's answer to it was lost.                 *)
PaidIsDeducted ==
  \A r \in Request :
    gateway[r] = "paid" /\ pc[r] = "done" /\ "lost_response" \notin mishap[r]
    => debit[r] > 0 /\ credit[r] = 0

(* What the gateway's verdict makes of a row. *)
Verdict(r) == IF gateway[r] = "paid" THEN "completed" ELSE "reversed"

(* The gateway's verdict reaches the row: a payout it paid is completed, a *)
(* payout it refused is reversed, however often the callback is repeated,  *)
(* and if handlers die.  Exempt: a lost answer, a callback that came before*)
(* the request's commit and was acknowledged for nothing.                  *)
VerdictsApplied ==
  \A r \in Request :
    (pc[r] = "done" /\ gateway[r] \in {"paid", "refused"})
    ~> \/ status[r] = Verdict(r)
       \/ mishap[r] \cap {"lost_response", "early_verdict"} # {}

(* No verdict is forgotten on the way: as long as the row of a payout that *)
(* was paid or refused does not say so, the gateway still owes the callback*)
(* about it, whoever died in between.  Exempt as in VerdictsApplied.       *)
NoVerdictForgotten ==
  \A r \in Request :
    /\ pc[r] = "done" /\ gateway[r] \in {"paid", "refused"}
    /\ mishap[r] \cap {"lost_response", "early_verdict"} = {}
    => status[r] = Verdict(r) \/ owed[r]

(* A reversed payout stays reversed, and one of M-Pesa or Airtel that is   *)
(* completed stays completed, under every fault: neither a repeated nor an *)
(* overlapping callback, nor a verdict that comes late for a request whose *)
(* answer was lost, undoes what was settled.  (A Stripe payout is completed*)
(* when it is accepted and may yet be reversed.)                           *)
Settles(r) ==
  status[r] = "reversed" \/ (status[r] = "completed" /\ r \notin Stripe)
  => status'[r] = status[r]

SettledIsFinal == [][\A r \in Request : Settles(r)]_vars

(* What overlapping deliveries cost at most ("don't double-reverse"): a    *)
(* payout is given back whole, no oftener than callbacks can be in the     *)
(* making at once, and not at all unless it is reversed.  A redelivery that*)
(* comes later adds nothing.                                               *)
GivenBackPerDelivery ==
  \A r \in Request : \E times \in 0..Cardinality(Delivery) :
    /\ credit[r] = times * debit[r]
    /\ times > 0 <=> status[r] = "reversed"

(* The payments of Books that payouts implement: what a payout deducts is  *)
(* what it moves, what its reversals return is what it gives back.         *)
Moved == [r \in Request |-> - debit[r]]
Movable == [r \in Request |-> {- amount : amount \in Conversions(r)}]
Excused == {r \in Request : "overlap" \in mishap[r]}

Abstract == INSTANCE Books WITH
  Payment <- Request, Of <- Payer, Moves <- Movable,
  moved <- Moved, back <- credit, excused <- Excused

(* Every step of every request and callback, committed or lost, is one     *)
(* posting of a payment or no posting at all: one deduction the balance    *)
(* covers, one return of exactly that.  Exempt as in RowTellsLedger.       *)
ImplementsBooks == Abstract!Spec

(* What the gateway sent was deducted, without exception.                  *)
SentIsDeducted ==
  \A r \in Request :
    gateway[r] = "paid" /\ pc[r] \in Finished => debit[r] > credit[r]
=============================================================================

--------------------------- MODULE PaymentMethods ---------------------------
(***************************************************************************)
(* The cards and M-Pesa numbers one user links (app/modules/               *)
(* payment_methods), and the Stripe customer that is created on first use. *)
(*                                                                         *)
(* A request runs in one READ COMMITTED transaction and gives way at every *)
(* await; a call to Stripe is synchronous.  What Stripe has done stays done*)
(* when the transaction is rolled back.                                    *)
(*                                                                         *)
(* A request stands also for the one payment_methods row and the one Stripe*)
(* customer it may create.                                                 *)
(***************************************************************************)
EXTENDS Integers, FiniteSets

CONSTANTS
  Setup,      \* POST .../stripe/setup-intent, or a Stripe deposit
  Confirm,    \* POST .../stripe/confirm
  Link,       \* POST .../mpesa
  Delete,     \* DELETE .../{method_id}
  Card,       \* Stripe PaymentMethods of the user
  Number,     \* normalized phone numbers
  SetDefault, \* the Confirm and Link requests with set_as_default
  None,       \* no customer, no reference
  Gone,       \* a detached card cannot be attached again
  MaxRequests,\* bound on the requests that are made
  MaxCrashes  \* bound on the requests that die half way

Request == Setup \cup Confirm \cup Link \cup Delete
Method == Confirm \cup Link
Customer == Setup \cup Confirm

ASSUME PaymentMethodConstants ==
  /\ Setup \cap (Confirm \cup Link \cup Delete) = {}
  /\ Confirm \cap (Link \cup Delete) = {} /\ Link \cap Delete = {}
  /\ Card \cap Number = {} /\ SetDefault \subseteq Method
  /\ None # Gone /\ {None, Gone} \cap (Request \cup Card \cup Number) = {}
  /\ MaxRequests \in Nat /\ MaxCrashes \in Nat

VARIABLES
  customer,   \* users.stripe_customer_id, committed
  row,        \* the payment_methods rows, committed
  reference,  \* their external_reference: a card or a number
  isDefault,  \* their is_default, committed
  attached,   \* at Stripe: the customer each card belongs to
  pc,         \* where each request is
  uses,       \* the Stripe customer a request works with
  seen,       \* the customer of the card, as a request retrieved it
  found,      \* the rows the UPDATE of a request has found
  target,     \* the row a DELETE is about
  met,        \* history: the requests in progress at the same time
  unheard,    \* history: the cards Stripe failed to detach
  crashes     \* requests that died so far

vars == <<customer, row, reference, isDefault, attached, pc, uses, seen, found,
          target, met, unheard, crashes>>

rows == <<customer, row, isDefault>>
work == <<reference, uses, seen, found, target>>

Finished == {"done", "refused", "failed"}
InFlight == {"stripe", "flush", "rows", "commit", "detach", "delete"}

Goto(r, step) == pc' = [pc EXCEPT ![r] = step]
Linked == {m \in Method : row[m] = "linked"}

(* A request that can still be made, and what it then runs into. *)
Fresh(r) == pc[r] = "new" /\ Cardinality({q \in Request : pc[q] # "new"}) < MaxRequests

Busy == {q \in Request : pc[q] \in InFlight}
Meet(r) == met' = [q \in Request |-> CASE q = r -> Busy
                                       [] q \in Busy -> met[q] \cup {r}
                                       [] OTHER -> met[q]]

----------------------------------------------------------------------------
(* Rules the steps are built from.  Where two resemble each other, the     *)
(* first is a defect the properties below must notice, and no step uses it.*)

(* The customer ensure_stripe_customer works with; a new one is named      *)
(* after the request that creates it.                                      *)
AlwaysCreated(r, have) == r
CreatedOnce(r, have) == IF have = None THEN r ELSE have

(* The rows that make a number a duplicate. *)
DefaultWith(n) == {m \in Linked : reference[m] = n /\ isDefault[m]}
With(n) == {m \in Linked : reference[m] = n}

(* The rows unset_default_for_user finds. *)
NewlySet(r) == {r}
OfUser(r) == Linked

(* What remains of a card at Stripe when the answer to detach is read. *)
AttachedStill(now, heard) == now
DetachedIf(now, heard) == IF now # None /\ heard THEN Gone ELSE now

(* The is_default of a row that has been created. *)
DefaultUnlessUnset(r) == IF r \in SetDefault THEN TRUE ELSE None
DefaultAsAsked(r) == r \in SetDefault

(* The users row is locked from the flush of a new customer to the commit. *)
Locked == \E q \in Customer : uses[q] = q /\ pc[q] \in {"rows", "commit"}

Refuse(r) ==
  /\ Goto(r, "refused")
  /\ UNCHANGED <<rows, attached, work, unheard, crashes>>

----------------------------------------------------------------------------
(* Stripe: SetupIntents and cards. *)

(* get_current_user loads the caller. *)
LoadUser(r) ==
  /\ Fresh(r) /\ r \in Customer
  /\ uses' = [uses EXCEPT ![r] = customer]
  /\ Goto(r, "stripe") /\ Meet(r)
  /\ UNCHANGED <<rows, reference, attached, seen, found, target, unheard, crashes>>

(* create_stripe_setup_intent, without anything to commit or with a new    *)
(* customer to flush.                                                      *)
StartSetup(r) ==
  /\ r \in Setup /\ pc[r] = "stripe"
  /\ uses' = [uses EXCEPT ![r] = CreatedOnce(r, @)]
  /\ Goto(r, IF uses'[r] = r THEN "flush" ELSE "done")
  /\ UNCHANGED <<rows, attached, reference, seen, found, target, met, unheard, crashes>>

(* confirm_stripe_card retrieves the card, ensures the customer, and when  *)
(* that needs no flush attaches the card or refuses it.                    *)
RetrieveCard(r, c) ==
  LET cus == CreatedOnce(r, uses[r]) IN
  /\ r \in Confirm /\ pc[r] = "stripe"
  /\ reference' = [reference EXCEPT ![r] = c]
  /\ seen' = [seen EXCEPT ![r] = IF attached[c] = Gone THEN None ELSE attached[c]]
  /\ uses' = [uses EXCEPT ![r] = cus]
  /\ CASE cus = r -> Goto(r, "flush") /\ UNCHANGED attached
       [] cus # r /\ attached[c] = None ->
            Goto(r, "rows") /\ attached' = [attached EXCEPT ![c] = cus]
       [] cus # r /\ attached[c] = cus -> Goto(r, "rows") /\ UNCHANGED attached
       [] cus # r /\ attached[c] = Gone -> Goto(r, "failed") /\ UNCHANGED attached
       [] OTHER -> Goto(r, "refused") /\ UNCHANGED attached
  /\ UNCHANGED <<rows, found, target, met, unheard, crashes>>

(* ensure_stripe_customer's flush, which waits for another one's commit.   *)
(* The card is then attached, unless it had a customer when it was         *)
(* retrieved or has one now.                                               *)
FlushCustomer(r) ==
  LET c == reference[r] IN
  /\ pc[r] = "flush" /\ ~ Locked
  /\ IF r \in Setup THEN Goto(r, "commit") /\ UNCHANGED attached
     ELSE CASE seen[r] # None -> Goto(r, "refused") /\ UNCHANGED attached
            [] seen[r] = None /\ attached[c] # None -> Goto(r, "failed") /\ UNCHANGED attached
            [] OTHER -> Goto(r, "rows") /\ attached' = [attached EXCEPT ![c] = r]
  /\ UNCHANGED <<rows, work, met, unheard, crashes>>

CommitSetup(r) ==
  /\ r \in Setup /\ pc[r] = "commit"
  /\ customer' = uses[r]
  /\ Goto(r, "done")
  /\ UNCHANGED <<row, isDefault, attached, work, met, unheard, crashes>>

(* The user's browser confirms a SetupIntent with a card (external). *)
ConfirmSetupIntent(r, c) ==
  /\ r \in Setup /\ pc[r] = "done" /\ attached[c] = None
  /\ attached' = [attached EXCEPT ![c] = uses[r]]
  /\ UNCHANGED <<rows, work, pc, met, unheard, crashes>>

----------------------------------------------------------------------------
(* The rows. *)

(* link_mpesa_number: InvalidPhoneNumber, or DuplicatePaymentMethod when   *)
(* the list has the number.                                                *)
RefuseNumber(r) == Fresh(r) /\ r \in Link /\ Refuse(r) /\ Meet(r)

ListNumbers(r, n) ==
  /\ Fresh(r) /\ r \in Link
  /\ reference' = [reference EXCEPT ![r] = n]
  /\ Goto(r, IF With(n) # {} THEN "refused" ELSE "rows")
  /\ Meet(r)
  /\ UNCHANGED <<rows, attached, uses, seen, found, target, unheard, crashes>>

(* unset_default_for_user starts: it may wait for rows it has found, and   *)
(* does not find those that are inserted meanwhile.                        *)
UnsetDefault(r) ==
  /\ r \in Method /\ pc[r] = "rows"
  /\ found' = [found EXCEPT ![r] = IF r \in SetDefault THEN OfUser(r) ELSE {}]
  /\ Goto(r, "commit")
  /\ UNCHANGED <<rows, reference, attached, uses, seen, target, met, unheard, crashes>>

(* repo.create and the router's commit. *)
CommitMethod(r) ==
  /\ r \in Method /\ pc[r] = "commit"
  /\ row' = [row EXCEPT ![r] = "linked"]
  /\ isDefault' = [m \in Method |-> CASE m = r -> DefaultAsAsked(r)
                                      [] m \in found[r] -> FALSE
                                      [] OTHER -> isDefault[m]]
  /\ customer' = IF uses[r] = r THEN r ELSE customer
  /\ Goto(r, "done")
  /\ UNCHANGED <<attached, work, met, unheard, crashes>>

(* delete_payment_method: the row is read, a card is detached from its     *)
(* customer, whatever Stripe answers, and the row is deleted.              *)
ReadMethod(r) ==
  /\ Fresh(r) /\ r \in Delete /\ Meet(r)
  /\ \/ \E m \in Linked :
          /\ target' = [target EXCEPT ![r] = m]
          /\ Goto(r, IF m \in Confirm THEN "detach" ELSE "delete")
     \/ Goto(r, "refused") /\ UNCHANGED target
  /\ UNCHANGED <<rows, attached, reference, uses, seen, found, unheard, crashes>>

DetachCard(r) ==
  LET c == reference[target[r]] IN
  /\ pc[r] = "detach"
  /\ \E heard \in BOOLEAN :
       /\ attached' = [attached EXCEPT ![c] = DetachedIf(@, heard)]
       /\ unheard' = IF heard THEN unheard ELSE unheard \cup {c}
  /\ Goto(r, "delete")
  /\ UNCHANGED <<rows, work, met, crashes>>

CommitDelete(r) ==
  /\ pc[r] = "delete"
  /\ row' = [row EXCEPT ![target[r]] = "deleted"]
  /\ Goto(r, "done")
  /\ UNCHANGED <<customer, isDefault, attached, work, met, unheard, crashes>>

(* The process dies, or an exception of Stripe that no clause names rolls  *)
(* the session back.                                                       *)
Crash(r) ==
  /\ crashes < MaxCrashes /\ pc[r] \in InFlight
  /\ Goto(r, "failed")
  /\ crashes' = crashes + 1
  /\ UNCHANGED <<rows, attached, work, met, unheard>>

----------------------------------------------------------------------------
Init ==
  /\ customer = None
  /\ row = [m \in Method |-> "none"]
  /\ reference = [m \in Method |-> None]
  /\ isDefault = [m \in Method |-> FALSE]
  /\ attached = [c \in Card |-> None]
  /\ pc = [r \in Request |-> "new"]
  /\ uses = [r \in Request |-> None]
  /\ seen = [r \in Confirm |-> None]
  /\ found = [m \in Method |-> {}]
  /\ target = [r \in Delete |-> None]
  /\ met = [r \in Request |-> {}]
  /\ unheard = {}
  /\ crashes = 0

(* Nobody is in the middle of a request. *)
Rest == Busy = {} /\ UNCHANGED vars

StripeStep(r) ==
  \/ LoadUser(r) \/ StartSetup(r) \/ FlushCustomer(r) \/ CommitSetup(r)
  \/ \E c \in Card : RetrieveCard(r, c) \/ ConfirmSetupIntent(r, c)

RowStep(r) ==
  \/ \E n \in Number : ListNumbers(r, n)
  \/ RefuseNumber(r) \/ UnsetDefault(r) \/ CommitMethod(r)
  \/ ReadMethod(r) \/ DetachCard(r) \/ CommitDelete(r)

Next == (\E r \in Request : StripeStep(r) \/ RowStep(r) \/ Crash(r)) \/ Rest

Spec == Init /\ [][Next]_vars

----------------------------------------------------------------------------
(* Properties. *)

TypeOK ==
  /\ customer \in Customer \cup {None}
  /\ row \in [Method -> {"none", "linked", "deleted"}]
  /\ reference \in [Method -> Card \cup Number \cup {None}]
  /\ isDefault \in [Method -> BOOLEAN]
  /\ attached \in [Card -> Customer \cup {None, Gone}]
  /\ pc \in [Request -> {"new"} \cup InFlight \cup Finished]
  /\ uses \in [Request -> Customer \cup {None}]
  /\ seen \in [Confirm -> Customer \cup {None}]
  /\ found \in [Method -> SUBSET Method]
  /\ target \in [Delete -> Method \cup {None}]
  /\ met \in [Request -> SUBSET Request]
  /\ unheard \subseteq Card
  /\ crashes \in 0..MaxCrashes

(* A user has one default method (get_default_for_user asks for one or     *)
(* none), unless the requests that set two of them were in progress at     *)
(* once: the UPDATE of the one does not see the row of the other.          *)
OneDefault ==
  \A m, n \in Linked : m # n /\ isDefault[m] /\ isDefault[n] => m \in met[n]

(* A number is linked once, unless two requests for it were in progress at *)
(* once: the list is read without a lock and no index forbids it.          *)
OneRowPerNumber ==
  \A m, n \in Linked \cap Link :
    m # n /\ reference[m] = reference[n] => m \in met[n]

(* The cards of the user hang on the customer the user row names, so that  *)
(* none is taken for somebody else's ("Belongs to someone else's Stripe    *)
(* customer").  Exempt: a customer whose creation never committed, and one *)
(* that a first use in progress at the same time has replaced.             *)
OwnCustomer ==
  \A c \in Card :
    LET k == attached[c] IN
    k \notin {None, Gone, customer} => pc[k] # "done" \/ customer \in met[k]

(* "A deleted card here can't still be silently charged there": its rows   *)
(* deleted, it is detached at Stripe too, unless Stripe failed to do it.   *)
DeletedIsDetached ==
  \A m \in Confirm :
    row[m] = "deleted" => attached[reference[m]] = Gone \/ reference[m] \in unheard
=============================================================================

# BridgePay: formal models

TLA+ models of the BridgePay backend (`src/app`), a FastAPI service with an
async SQLAlchemy/Postgres wallet: users deposit money through Stripe, M-Pesa or
Airtel, send it to each other, and pay it out again. The models are about what
unit tests hardly reach: database sessions that interleave at every `await`,
callbacks that come early, twice or not at all, and processes that die between a
call to a gateway and the commit that records it.

Paths below are relative to `src/app`, except `README.md` and `PLAN.md` with a
line number, which are the repository's own (`src/README.md`, `src/PLAN.md`).

## 1. Inventory

| component | state | operations | hard behaviour |
|---|---|---|---|
| **payouts** (`modules/payouts`, callbacks in `modules/webhooks`) | `payouts` rows, account balance, withdrawal and reversal Transactions | four POST endpoints; M-Pesa B2C result, Airtel disbursement, Stripe `payout.failed` | gateway call between the deduction and the commit; result before the commit; duplicate results; lost responses; repeated keys |
| **deposits** (`modules/deposits`, callbacks in `modules/webhooks`) | `deposits` rows, account balance, deposit Transactions | three POST endpoints; Stripe event, STK callback, Airtel collection | gateway call before the row exists; duplicate and contradicting verdicts; no exchange rate after the payment; repeated keys |
| **transfers** (`modules/transfers`) | two accounts, one Transaction | POST /transfers | two row locks per session; balances loaded before the locks |
| **accounts, transactions** | cached balance, append-only ledger | `get_by_id_locked`, `create` | the balance must stay the sum of the ledger |
| **auth** (`modules/auth`, `change_password` of `modules/users`) | refresh tokens, reset and handoff codes | login, refresh, logout, reset, change password, Google exchange | lookups and writes with awaits between and no lock; "revoke all" racing a rotation; retries with an old token |
| **users** (`modules/users`; registration, verification and the Google callback of `modules/auth`) | address, `google_id`, `is_verified`, verification tokens | register, resend, verify, change address, Google callback | a link to an address given up; a flag written from a stale object; look up, then insert; mail before the commit |
| **payment methods** | linked cards and numbers, the default, the Stripe customer; at Stripe, each card's customer | setup, confirm, link, delete; first use by a deposit | check, then insert, on the number, the default and the customer; Stripe keeps what a rollback undoes |
| **exchange rates** | cached rates | `convert` | missing or changed rate between two conversions; rounding of what it returns |
| **gateway clients** (`core/*_client.py`) | none | call out, verify signatures | accepted, refused, or answer lost |
| **database sessions** (`db/session.py`) | one transaction per request | commit, rollback at close | everything above runs on it |
| notifications, audit, admin, e-mail tasks, configuration, migrations | log rows, sent mail, settings | append, list, send | mail is queued before the commit |

How they interact: `deposits`, `payouts` and `transfers` share only the
`accounts` rows (under `SELECT ... FOR UPDATE`) and the `transactions` table.
Requests and callbacks of one deposit or payout share its row, which nobody
locks. The gateways are called synchronously from a request and call back over
HTTP; a callback is answered 200 whether it found a row or not.

What makes each correct:

* balance = opening balance + sum of the Transactions, for every account; never
  negative;
* a deposit is credited once, only for a charge that was paid, and every paid
  charge is credited in the end;
* a payout is deducted whenever the money leaves, given back once when it does
  not, and every verdict is applied in the end;
* one idempotency key, one charge and one row;
* transfers, payouts and deposits never deadlock, and one session at a time
  writes a balance;
* a verified user has proved the address they have; a Google account always
  signs in the same user;
* one default method and one row per number; a user's cards hang on the customer
  the user row names, and a deleted card can no longer be charged;
* a session has one usable refresh token, a code is used once, and no session
  outlives a password change.

## 2. Modules

| module | models | proved about in |
|---|---|---|
| `Payouts` | payouts and their callbacks | `PayoutsProofs` |
| `Deposits` | deposits and their callbacks | `DepositsProofs` |
| `Transfers` | transfers | `TransfersProofs` |
| `Wallet` | the three on the same accounts | `WalletProofs` |
| `Books` | what payouts and deposits promise the wallet | both implement it: `PayoutsProofs`, `DepositsProofs` |
| `Sessions` | refresh tokens, reset and handoff codes | `SessionsProofs` |
| `Users` | registration, verification, address changes, Google sign-in | `UsersProofs` |
| `PaymentMethods` | linked cards and numbers, the Stripe customer | `PaymentMethodsProofs` |
| `Money` | rounding of conversions and truncation to shillings | itself |

`Wallet` extends `Transfers` and instantiates `Payouts` and `Deposits` over one
`balance`, one `ledger` and one `lock`. The modules `MC...` hold the finite instances. No module uses recursion, so that
all can be proved about.

**Conventions.** A step ends where the code awaits something another session
can influence: a lock, a gateway, a commit. What is computed between two of
them is one action. In each module the paragraph "Rules the steps are built
from" holds, beside each rule, a defective twin that no step uses; it documents
which mistake the properties notice.

**Payouts.** A `Request` is one POST and the row it may create. `pc` is its
place: `LookUpKey` (`get_by_idempotency_key_for_user`),
`DeductBalanceAndRecord` (account locked, converted, deducted, row drafted),
`Submit...` (the gateway's answer, with `_reverse_deduction` in the except
clause), `CommitRequest` (the router's commit). `draft[s]` is what session `s`
has written and not committed; `lock` is the `FOR UPDATE` lock of the account.
A `Delivery` is a callback being handled: `IgnoreCallback` (nothing found, or
not in the awaited status), `ReceiveCallback`, then `CommitCompletion` or
`LockForReversal` and `CommitReversal`. `gateway` and `owed` are the external
gateway: what became of the order and whether its verdict is still unanswered.

**Deposits.** The same shape the other way round: the charge precedes the row
(`ChargeAccepted`, `InsertDeposit`), the callback credits (`LockAndCredit`,
`LockWithoutRate`, `CommitCallback`) or fails the deposit (`CommitFailure`). The
gateway may owe two verdicts about one PaymentIntent: a decline, and a success
with another card.

**Transfers.** `ReadSender` and `ReadRecipient` are the plain SELECTs of
`get_accounts_for_users`, `LockFirst` and `LockSecond` those of
`lock_accounts_in_order`. `copy` holds the balances in the session's `Account`
objects: the locking SELECTs do not refresh them, because the identity map
already holds the objects and `populate_existing` is not set. `stale` records
which accounts changed under a session's copies. RecipientNotFound and
AccountNotFound are one refusal before the first read; they write nothing but
the audit log.

**Wallet.** What the three money modules share is the accounts table and its row
locks, and nothing else: each request and callback has a session of its own
(`db/session.py`), so a step of one component leaves the rest of the other two
alone (`PayoutsStep`, `DepositsStep`, `TransfersStep`). Each component counts the
sessions of the others among its `Others`, which may hold the rows it waits for.
A commit of a payout or deposit shows in `Transfers` as a commit of another
transfer does: it outdates what has been read (`Outdate`).

**Sessions.** One user's tokens and codes. A request looks its token or code up
without a lock (`VerifyPassword`, `LookUpToken`, `PresentToLogout`,
`LookUpCode`) and writes some awaits later: `Issue` inserts a token and spends
what it was issued for, `Revoke` starts an UPDATE, which revokes the rows
committed when it starts (`seen`), and `CommitRevoke` makes it visible. The row
lock a rotation takes between its flush and its commit adds no outcome and is
left out; a logout with an unknown token matches no row and is left out. `root`
is the login a token descends from; `outdated`, `raced` and `contested` are
history variables.

**Users.** A request works on the `User` object it loaded (`loaded`); the UPDATE
at the end writes the attributes that differ from it and no others, which is
what `ResetOnChange` and `GoogleLinked` say about `is_verified` and
`google_id`. Two rows with one address or one `google_id` are refused by the
unique indexes, and a statement that would take a value waits for a flushed
profile change that takes it or gives it up (`Contended`, `Locked`). Register:
`RegisterAddress`, `CommitRegistration`, `SendLink` after the commit. Resend:
`LoadCaller`, `CommitToken`, `SendLink`. Profile change: `LoadCaller`,
`LookUpNewAddress`, `FlushChange`, which mails, and then `CommitChange`. Verify:
`FollowLink`, `LoadOwner`, `CommitVerification`. Google: `LookUpGoogle`,
`LookUpGoogleAddress`, and `CommitLink` or `CommitGoogleUser`. `proven` (the
addresses a user has shown to be theirs) and `signedIn` are history variables.

**PaymentMethods.** One user. `LoadUser` reads the customer of the user row;
`StartSetup` and `RetrieveCard` are the calls to Stripe, which outlive a rollback;
`FlushCustomer` writes a new customer and locks the user row until the commit.
`UnsetDefault` fixes the rows that the UPDATE of `unset_default_for_user` finds, and
`CommitMethod` inserts the new row. A deletion reads the row, asks Stripe to
detach the card and deletes the row whatever Stripe answers (`ReadMethod`,
`DetachCard`, `CommitDelete`). `ConfirmSetupIntent` is the browser's part. `met`
records which requests were in progress together.

**Books.** The wallet without requests, locks, sessions or callbacks: a payment
moves its amount once (`Move`), gives it back at most once and whole
(`GiveBack`), and the balance of its account is what these steps make of it. A
payout moves minus its deduction and gives back its reversals
(`moved <- Moved`, `back <- credit`); Stripe's immediate failure is
`MoveAndGiveBack`, which the balance had to cover all the same. A deposit moves
its credit and gives nothing back. A payment may repeat a posting only once it
is excused, that is once two deliveries about it have overlapped. Both
refinement mappings use committed state only: a draft is a stutter.

**Money.** The money modules count in exact units; `Money` says what becomes of
the fractions. `convert` returns an unrounded product, the balance column and
the amount column of a Transaction round it separately, and M-Pesa and Airtel are
told `int(amount)`. It has theorems and no run.

### Readings of the framework the models rest on

* Postgres in READ COMMITTED; a session is a transaction, rolled back when it is
  closed without a commit (`db/session.py`).
* `_get_own_account_id` of the payout and deposit routers loads an `Account` and
  keeps only its id. The identity map holds objects weakly, so the later
  `get_by_id_locked` builds a fresh object, with the balance read under the
  lock. `execute_transfer` keeps its objects and does not get a fresh balance.
* The foreign key `deposits.account_id` takes a `FOR KEY SHARE` lock, so an
  INSERT waits for a session that holds the account `FOR UPDATE`.
* An UPDATE with a WHERE clause finds the rows committed when it starts. It may
  wait for one of them and does not find what is inserted meanwhile.
* SQLAlchemy's flush writes the attributes whose value differs from the loaded
  one: an assignment of the loaded value writes nothing.
* A Numeric column rounds half away from zero.

## 3. Runs

| run | result | what it shows |
|---|---|---|
| `payouts` | holds | An M-Pesa and a foreign-currency Stripe payout of one account under one key, with every fault of `FaultKinds`, two callbacks at once and a crash: the balance is the ledger and never negative, a row tells what its Transactions did, one key makes one row, paid money was deducted, and every step is one of `Books` (`ImplementsBooks`). A verdict that has not taken effect is still owed (`NoVerdictForgotten`) and takes effect in the end (`VerdictsApplied`); what was settled is not undone, under any fault (`SettledIsFinal`); callbacks that overlap give back whole amounts, no oftener than callbacks can be in the making at once (`GivenBackPerDelivery`) |
| `payouts_lost_response` | counterexample | `SentIsDeducted`: a timeout after the gateway took the order gives the money back although it is then paid out |
| `deposits` | holds | An M-Pesa and a foreign-currency Stripe deposit likewise: the balance is the ledger, credited only if paid, a row tells what its Transactions did, one charge per key, failed means unpaid, a payment that is not credited yet is still to be reported (`NoPaymentForgotten`) and is credited in the end (`PaidIsCredited`), and every step is one of `Books` |
| `deposits_overlap` | counterexample | `CreditedOnce`: two deliveries of one success that overlap both pass the status check and both credit |
| `deposits_no_rate` | counterexample | `NoFundsCharged`: a paid deposit is marked failed when the rate is missing, and the user is told nothing was charged |
| `deposits_double_tap` | counterexample | `ChargedOncePerKey`: two requests with a key that overlap both prompt the payer |
| `wallet` | holds | A circle of transfers through three accounts, with a payout and a deposit on one of them and a crash: no sessions wait in a circle (`NoCircle`), a balance changes only when the one session that holds its row commits (`HoldersPost`), and balances and funds are right wherever no stale copy was committed |
| `transfers_lost_update` | counterexample | `LedgerBacked`: a transfer that waited for the lock overwrites the effect of the one that held it |
| `sessions` | holds | Any five of nine requests of every kind: one usable token per session unless two requests carried one token, codes used once unless likewise, and no session outlives a purge it did not overlap |
| `users` | holds | Any five of nine registrations, address changes, resends, links and Google callbacks about two addresses and two Google accounts: a verified user has proved the address they have, also when changes of address overlap one another or a resend, and links overlap sign-ins (a change during a link or sign-in is exempt); a Google account signs in one user; a link mailed by a registration or a resend has its token |
| `payment_methods` | holds | Any four of nine setups, confirmations, links and deletions about one card and one number: of requests that were not in progress together, one default, one row per number, cards on the user's own customer; a deleted card is detached unless Stripe failed to |
| `sessions_in_flight` | counterexample | `KillsEverySession`: a rotation in flight while the password is reset leaves its session alive |

Each property of a passing run exempts a fault only where the code does not
guard against it, and only for the request, row or user the fault has hit
(`mishap`, `contested`, `raced`, `stale`, `met`, `unheard`). The counterexample runs turn exactly one fault
on and show that the exemption is needed; `PROJECT.json` quotes the
documentation each of them contradicts.

Six faults have such a run. The others have none of their own: each is a race, a
crash or a decision against which the code has no guard, so that a run would show
what the exemption says, and the passing property with its theorem shows that
nothing else does the same harm. Many of them contradict what the repository
says of itself, and the right column quotes what we found:

| exempted | where, and what it costs | mark and property | what the repository says |
|---|---|---|---|
| two callbacks of one refused payout that overlap | `payouts/service.py:278`, `:480`: both see the old status and both give the amount back | `overlap`; `RowTellsLedger`, `ImplementsBooks`. `SettledIsFinal` holds of these too, and `GivenBackPerDelivery` bounds the loss | "don't double-reverse" (`payouts/service.py:480`); "callbacks processed idempotently" (`PLAN.md:104`) |
| a payout's key sent again before the first request is answered | `payouts/service.py:189`: two rows and two payouts, and every later lookup of the key raises | `double_tap`; `OneRowPerKey` | "Keys on deposits/payouts prevent a retried request from double-charging or double-deducting" (`PLAN.md:106`) |
| a verdict that comes before the request has committed its row | `payouts/router.py:79`, `deposits/router.py:86`: answered 200 for nothing and never repeated, so the row stays pending for good | `early_verdict`; `VerdictsApplied`, `NoVerdictForgotten`, `PaidIsCredited`, `NoPaymentForgotten` | no statement found |
| a process that dies between the gateway's acceptance and the commit | `payouts/router.py:79`, `deposits/service.py:252`: the order or the charge stands without a row, and a retry under the same key repeats it | requests that died; `PaidIsDeducted`, `OneRowPerKey`, `OneChargePerKey`. `SentIsDeducted` and `ChargedOncePerKey` speak of them and are refuted, by a shorter trace | `PLAN.md:106`, as above |
| a declined PaymentIntent that is paid with another card | `deposits/service.py:186`: failed is final, what is paid then is not credited | `pay_again`; `FailedIsUnpaid`, `PaidIsCredited`, `NoPaymentForgotten` | no statement found |
| a refresh token carried by two requests at once | `auth/service.py:83`: both get a successor | `contested`; `OneLivePerSession` | "Single-use rotation" (`README.md:194`) |
| a handoff code or reset token carried by two requests at once | `auth/service.py:196`: both succeed | `contested`; `OneUsePerCode` | "single-use handoff code", "same hashed, single-use token pattern" (`README.md:301-303`) |
| a verification link mailed to an address the user has given up | `auth/service.py:132`, `users/service.py:33-73`: the token does not name the address, so the old link verifies the new one | `old_link`; `VerifiedIsProven` | "a stale verification link carries no real risk" (`README.md:272`); `users/service.py:30-31`, as below |
| a change of address during a link or a Google sign-in of the same user | `users/service.py:51`: the flag of the one address is left on the other | `overlap`; `VerifiedIsProven` | "changing email resets `is_verified`" (`README.md:285`); the new address "hasn't been proven to belong to this person yet" (`users/service.py:30-31`) |
| a user who changed address and signs in with a second Google account | `auth/service.py:229`: the first `google_id` is overwritten, and a later sign-in with it finds or makes another user | the account replaced; `SignsInSameUser` | no statement found; the code means to link |
| the link of a profile change | `users/service.py:67`: mailed before the commit, which may not follow | changes of address; `LinksAreCommitted` | no statement found |
| two methods of one user linked at once, or two first uses of Stripe | `payment_methods/service.py:30`, `:62`, `:84`: two defaults, one number twice, or two customers, of which the user row names one | `met`; `OneDefault`, `OneRowPerNumber`, `OwnCustomer` | the checks the code means to make: "already linked to your account" (`:85`), and "Belongs to someone else's Stripe customer" (`:54`), which then refuses a card of the user's own |
| an error of Stripe's detach | `payment_methods/service.py:113`: passed over, the card can still be charged | `unheard`; `DeletedIsDetached` | "so a deleted card here can't still be silently charged there" (`payment_methods/service.py:108-109`), though `:114-117` pass the error over on purpose |
| a setup whose transaction rolled back | `payment_methods/service.py:52`: Stripe keeps the customer and its card, which the user row never names | requests that never committed; `OwnCustomer` | no statement found |

**Bounds.**

* Payouts and deposits: two requests of one account, since two sessions suffice
  for every pairwise hazard (shared lock, shared key), one per kind of rail and
  one of them in a foreign currency. Two rates, so that two conversions can
  differ. Two callback slots, so that two deliveries overlap. One crash. The
  balance covers either payout and never both.
* Wallet: three transfers over three accounts make a circle of locks, and every
  pair of them shares an account; the payout spends the same money as the
  transfer from its account, and the deposit enters it. One transfer may crash;
  the faults of payouts and deposits are the business of their own runs. The
  proofs remove the bound, and the one on what goes on beside a component.
* Sessions: five requests are a login or exchange, two refreshes, a purge and a
  retry; one expiry and one crash fall anywhere. Requests and codes of a kind
  are interchangeable (symmetry). No liveness is checked under symmetry.
* Users: two addresses, so that a user can change and two can compete for one;
  two Google accounts, one for each address, so that one can displace the other.
  Any five requests: a registration, a change, a link, a callback and one that
  gets in between. One crash.
* Payment methods: one card and one number, since conflicts are about the same
  one; any four requests, so that two first uses or two defaults overlap while
  a deletion runs. One crash.

**Fairness.** Weak fairness of a request's and a callback's steps: the event
loop runs every task that can go on, and the Postgres lock queue serves every
waiter; a lock is always released because commits and crashes are not blocked.
Weak fairness of delivery: gateways repeat a callback until it is answered.
In `Payouts` the gateway settles what it accepted; in `Deposits` no payer is
assumed to answer. Crashes and faults have no fairness.

## 4. Proofs

TLAPS proves, for any number of requests, accounts, keys, rates, faults and
crashes, from the assumptions about the constants (`PayoutConstants`
and its like) alone:

* `PayoutsProofs`, about the balance: `TypeCorrect`, `LedgerAlwaysBacked`,
  `NeverInsolvent`, `LocksAreEarned`, and for every step `EveryStepPosts`. The
  inductive invariant adds to these properties: a callback in use is about a
  request (`InUse`); a session with work on an account holds its row
  (`HoldsRow`) and one that holds a row has work on it (`LockEarned`); and its
  draft differs from the committed balance by exactly the Transactions drafted
  with it, and is not negative (`DraftsMirror`). Without `HoldsRow` a commit of
  another session could get between a session's read and its write; with it, two
  sessions that work on one account are the same.
* `PayoutsProofs`, about the rows: `RowsTellTheLedger`, `PaidStaysDeducted`,
  `KeysMakeOneRow`, `VerdictsAreFinal`, `VerdictsAreRemembered`,
  `RefundsAreBounded`, `RefinesBooks`. `RInv` adds what a committed
  row, a request's draft and a callback's draft say about the deduction
  (`Entries`, `Drafts`), that a callback is about a committed row (`Callbacks`), and
  that one which nothing overlapped finds it awaiting its verdict until it commits
  (`Alones`). `Verdicts` relates the gateway to them: what it refused is reversed
  and what it paid is not, provided the process was there to hear. `KeysApart`: of
  two requests with one key that both passed the lookup, the later was sent before
  the earlier was answered. `VerdictsAreFinal` needs no exemption: even deliveries
  that overlap carry the same verdict (`Agreed`), so the second may post again but
  never changes the status. How often it may post again is `RefundsAreBounded`, from
  one assumption more, that the callbacks that can be in the making at once are
  finitely many and not none: each of them can reverse once more (`Refund`), and one
  that starts after the reversal finds the status and does nothing.
  `VerdictsAreRemembered` is the safety side of `VerdictsApplied`: `Remembers` says
  that a row without its verdict awaits it, and that the gateway, which stops only
  when it is answered after the commit, still owes it.
* `DepositsProofs`: `TypeCorrect`, `LedgerAlwaysBacked`, `LocksAreEarned`,
  `EveryStepPosts`, `NeverCreditedUnpaid`, `CreditedOnceInSequence`,
  `FailedNeverPaid`, `PaymentsAreRemembered`.
  The inductive invariant has three layers. `Locking`: a callback with a draft
  holds the account's row, and its draft is the committed balance plus its credit.
  `Verdicts`: nothing is asked before its turn (`InTurn`), and what the gateway
  owes and the handlers carry is true (`VerdictsTrue`, `HooksTrue`), since a paid
  charge stays paid and a refusal is only undone by paying again. `Rows`: a draft
  completes with one conversion or fails without a rate (`DraftsTell`), and a
  callback that nothing overlapped finds its deposit pending until it commits
  (`Alone`), which makes the status check before the lock enough against
  repetition in sequence. A fourth layer is for the key: a request that got no
  further than its lookup charged nothing and an answered one has a row
  (`Answered`), and `KeysApart` as in the payouts; this gives `KeyChargesOnce`.
  `PaymentsAreRemembered`, the safety side of `PaidIsCredited`, needs of the
  callbacks only that a row is completed by a paid verdict and never leaves that
  status (`StatusMoves`).
  `RefinesBooks` goes step by step: only a commit of a credit is visible in the
  books, and by `Alone` it is the first one unless deliveries overlapped.
* `TransfersProofs`: `TypeCorrect`, `LedgerExactUnlessStale`, `NeverOverdrawn`,
  `NeverDeadlocked`, `EveryStepWritesUnderLock`. The inductive invariant says who
  holds which lock (`LocksHeld`) and that a copy equals the committed balance
  unless its account is in `stale` (`CopyFresh`). Deadlock freedom is the classical
  argument over locks in ascending order: among the waiting transfers, the one
  that waits for the highest account waits for one that does not wait.
* `WalletProofs` puts the three together by assumption and guarantee. Each
  component's proofs end with `SafeAmongOthers`: its promises hold also if between
  its own steps other code does what `Elsewhere` allows, namely post to any
  account (balance and ledger alike, where transfers are concerned), but neither
  touch a row that one of its sessions has locked nor bring a balance below zero. And each proves of its own steps what others rely on
  (`EveryStepPosts`, `EveryStepWritesUnderLock`). `StepsOfAll` shows that each step of
  the whole is a step of one component and an `Elsewhere` of the other two, so
  that `ComponentsAmongOthers` carries every promise over: `WalletTypeCorrect`,
  `WalletBackedUnlessStale`, `WalletNeverOverdrawn`, `OneWriterAtATime`,
  `PayoutsKeepTheirPromises`, `DepositsKeepTheirPromises`. What could not be inherited
  is deadlock freedom, which is about all sessions at once: by `LockEarned` a payout
  or deposit that holds a row does not wait, so those in a circle that hold rows
  are transfers, and they would be a circle of transfers
  (`WalletNeverDeadlocks`).
* `SessionsProofs`: `TypeCorrect`, `CodesUsedOnce`, `PurgesEndSessions`,
  `OneTokenPerSession`. `Rooted` and `Carries` say that tokens descend from
  finished logins and that a request carries what has a row. `CodesApart`: two
  requests with one code, under way or let through, make it contested. `Purged`:
  the UPDATE of a purge has seen every token except those of requests it
  overlapped. `OneHead`: a session has one live token or one rotation of it under
  way, unless one of its tokens was carried twice at once.
* `UsersProofs`: `TypeCorrect`, `LinksHaveTokens`, `GoogleMeansOneUser`,
  `VerifiedMeansProven`. `Placed` says what each request has loaded and written at
  each place. `GoogleKnown`: the account linked to a user has signed that user in,
  and a user who was signed in keeps one. `Guarded`: of a user without a mark
  (`Facts`), no change of address and no link or sign-in are under way together, a
  change has loaded the flag if it is set, and the link or Google account somebody
  is coming with is about the address the user has. The weaker claim that at most
  one request is under way would be simpler and would exempt changes that overlap
  one another, which do no harm.
* `PaymentMethodsProofs`: `TypeCorrect`, `DefaultIsUnique`, `NumberIsUnique`,
  `DeletedMeansDetached`, `CardsOfOneCustomer`. `Acquainted`: any two requests in
  progress have met. On it rest `Searched` and `NotListed` (a request has met the
  rows its UPDATE or its list did not contain) and `Replaced` and `FirstUse` (a
  committed customer is the user's or has met the one that is). `Detaching`: a
  deletion past Stripe's answer leaves its card detached or unheard.
* `Money`: `CreditsExact`, `DebitsDrift`, `SameCurrencyExact`,
  `ReversalKeepsDrift`, `CentsAreNotMoved`, about all balances, amounts and rates.
  A credit changes the balance column by exactly the amount column of its
  Transaction. A deduction does too, except when the conversion ends on half a
  cent: the balance is rounded up and so is the amount, and the account keeps
  a cent that its Transactions say it spent (`payouts/service.py:106`;
  `transactions/models.py:29` calls the balance "always derivable"). A reversal
  by callback does not take the cent back. An amount that is not in whole
  shillings credits or deducts up to 99 cents that M-Pesa or Airtel never move.

**The exemptions are the faults.** A property that exempts a fault says little
about why it fails. For each counterexample run there is therefore a theorem that
takes away the fault alone and proves the documented promise to the letter, so
that the pair shows the cause:

| counterexample | theorem | what is taken away |
|---|---|---|
| `payouts_lost_response` | `SentIsDeductedIfHeard` | lost answers and crashes |
| `deposits_overlap` | `CreditedOnceWithoutOverlap` | overlapping deliveries of one verdict |
| `deposits_no_rate` | `NoFundsChargedWithRates` | missing rates, and declined intents that are paid again |
| `deposits_double_tap` | `ChargedOnceWithoutFailure` | keys sent again before the answer, lost answers, crashes |
| `transfers_lost_update` | `LedgerBackedWhenApart` | transfers of one account in progress together |
| `sessions_in_flight` | `LonePurgesEndAll` | requests under way while sessions are ended |

`RightOneAtATime` does the same for the three properties of the payment methods
that exempt requests in progress together; of `OwnCustomer` one exemption remains,
since a customer whose creation was rolled back may still hold cards.
`PayoutsKeepTheirPromises` and `DepositsKeepTheirPromises` carry the exemptions of
the properties they name; only `CreditedOnlyIfPaid` has none. What is taken away is a condition on
the environment (`Faults`, `MaxCrashes`) or on the behaviour (`Apart`,
`PurgesAlone`, `OneAtATime`), and sequential clients meet it.

Only model-checked: the two liveness properties, `VerdictsApplied` and
`PaidIsCredited`, which are out of the prover's reach. Every other property of
the passing runs is proved.

## 5. Not modelled, and why

* Fractions in the runs: amounts there are whole units, and `Money` relates them
  to the columns. What a unit of a currency is worth is not modelled either:
  `deposits/service.py:144` multiplies by a hundred also for currencies that have
  no cents.
* The expiry of cached rates: two conversions may always differ.
* Notifications, audit rows, e-mail and listings: written beside the state and
  read by none of these operations. The one mail with an effect, the
  verification link, is in `Users`.
* Names, countries and masked card details: no rule depends on them.
* Access tokens (JWT), rate limits, signature checks, validation and encoding:
  computation without state.
* Two users that add one phone number or card: nothing in the code relates them.

## 6. Plan

Done: every component whose state another operation depends on, the refinements,
the composition of the money modules and the proofs above. Left, in this order:

1. `Transfers` as an implementation of `Books` while no stale copy is committed
   (a transfer moves two accounts, so `Books` needs a second posting).
2. `Users` with the exemptions of `VerifiedIsProven` taken away one by one.
3. A run for `Money` over a small instance, with its rounding composed into
   `Payouts` on a scaled-down `Unit`.
4. Notifications: which message a user can get about something that was rolled
   back (`notifications/service.py:35`).

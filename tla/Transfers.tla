----------------------------- MODULE Transfers -----------------------------
(***************************************************************************)
(* Money moving inside the wallet: POST /transfers (app/modules/transfers  *)
(* and the row locking of app/modules/accounts).                           *)
(*                                                                         *)
(* A transfer is one database session.  It first loads both Account rows   *)
(* with plain SELECTs, then selects each again FOR UPDATE, in id order.    *)
(* The second SELECT takes the row lock, but the session's identity map    *)
(* already holds the two objects and the query does not ask for            *)
(* populate_existing, so their balance attributes keep the values of the   *)
(* first SELECTs.  The check and the UPDATEs use those.                    *)
(***************************************************************************)
EXTENDS Integers

CONSTANTS
  Transfer,   \* POST /transfers requests
  Account,    \* account ids, compared as sorted() compares them
  MaxId,      \* an upper bound of the ids
  NoOne,      \* holder of a free row lock
  From, To,   \* [Transfer -> Account]
  Amount,     \* [Transfer -> positive]
  Opening,    \* [Account -> Nat]
  Others,     \* sessions of the other modules, which lock the same rows
  MaxCrashes  \* bound on the sessions that die half way

ASSUME TransferConstants ==
  /\ Account \subseteq Nat
  /\ MaxId \in Nat /\ \A a \in Account : a <= MaxId
  /\ NoOne \notin Transfer \cup Others /\ Others \cap Transfer = {}
  /\ From \in [Transfer -> Account] /\ To \in [Transfer -> Account]
  /\ Amount \in [Transfer -> Nat \ {0}]
  /\ Opening \in [Account -> Nat]
  /\ MaxCrashes \in Nat

VARIABLES
  balance,    \* accounts.balance, committed
  ledger,     \* per account, the sum of its Transaction rows, committed
  lock,       \* who holds the accounts row FOR UPDATE
  copy,       \* the balances in each session's Account objects
  pc,         \* where each transfer is
  stale,      \* history: the accounts that changed under a session's copy
  crashes     \* sessions that died so far

vars == <<balance, ledger, lock, copy, pc, stale, crashes>>

Finished == {"done", "refused", "failed"}

Parties(t) == {From[t], To[t]}

----------------------------------------------------------------------------
(* Rules the steps are built from.  Where two resemble each other, the     *)
(* first is a defect the properties below must notice, and no step uses it.*)

(* lock_accounts_in_order: sorted(account_ids). *)
FirstIsSender(t) == From[t]
First(t) == IF From[t] < To[t] THEN From[t] ELSE To[t]

Second(t) == IF From[t] < To[t] THEN To[t] ELSE From[t]

(* InsufficientFundsError unless this holds. *)
CoversAnything(have, amount) == TRUE
Covers(have, amount) == have >= amount

(* record_transfer, on the session's Account objects. *)
CreditOnly(t, have) == [have EXCEPT ![To[t]] = @ + Amount[t]]
Moved(t, have) == [have EXCEPT ![From[t]] = @ - Amount[t], ![To[t]] = @ + Amount[t]]

(* The account a transfer is waiting to lock, if it is. *)
Wanted(t) == IF pc[t] = "lock_first" THEN First(t) ELSE Second(t)
Waiting(t) == pc[t] \in {"lock_first", "lock_second"}

Unlock(t) == lock' = [a \in Account |-> IF lock[a] = t THEN NoOne ELSE lock[a]]

----------------------------------------------------------------------------
(* POST /transfers *)

(* SelfTransferError, or RecipientNotFoundError and AccountNotFoundError    *)
(* for a recipient that does not exist: audited and committed, no lock.     *)
RefuseParties(t) ==
  /\ pc[t] = "new"
  /\ pc' = [pc EXCEPT ![t] = "refused"]
  /\ UNCHANGED <<balance, ledger, lock, copy, stale, crashes>>

(* get_accounts_for_users: two SELECTs without a lock. *)
ReadSender(t) ==
  /\ pc[t] = "new" /\ From[t] # To[t]
  /\ copy' = [copy EXCEPT ![t][From[t]] = balance[From[t]]]
  /\ pc' = [pc EXCEPT ![t] = "read_recipient"]
  /\ UNCHANGED <<balance, ledger, lock, stale, crashes>>

ReadRecipient(t) ==
  /\ pc[t] = "read_recipient"
  /\ copy' = [copy EXCEPT ![t][To[t]] = balance[To[t]]]
  /\ pc' = [pc EXCEPT ![t] = "lock_first"]
  /\ UNCHANGED <<balance, ledger, lock, stale, crashes>>

(* get_by_id_locked, for the lower id and then for the higher: the row is   *)
(* locked, the object in the identity map is not refreshed.                 *)
LockFirst(t) ==
  /\ pc[t] = "lock_first" /\ lock[First(t)] = NoOne
  /\ lock' = [lock EXCEPT ![First(t)] = t]
  /\ pc' = [pc EXCEPT ![t] = "lock_second"]
  /\ UNCHANGED <<balance, ledger, copy, stale, crashes>>

LockSecond(t) ==
  /\ pc[t] = "lock_second" /\ lock[Second(t)] = NoOne
  /\ lock' = [lock EXCEPT ![Second(t)] = t]
  /\ pc' = [pc EXCEPT ![t] = "check"]
  /\ UNCHANGED <<balance, ledger, copy, stale, crashes>>

(* The balance check, record_transfer and its flush. *)
RecordTransfer(t) ==
  /\ pc[t] = "check" /\ Covers(copy[t][From[t]], Amount[t])
  /\ copy' = [copy EXCEPT ![t] = Moved(t, @)]
  /\ pc' = [pc EXCEPT ![t] = "commit"]
  /\ UNCHANGED <<balance, ledger, lock, stale, crashes>>

(* InsufficientFundsError: audited and committed, which unlocks both rows. *)
RefuseFunds(t) ==
  /\ pc[t] = "check" /\ ~ Covers(copy[t][From[t]], Amount[t])
  /\ pc' = [pc EXCEPT ![t] = "refused"]
  /\ Unlock(t)
  /\ UNCHANGED <<balance, ledger, copy, stale, crashes>>

(* The accounts u has read and not yet written, when t commits. *)
ReadBy(u) ==
  CASE pc[u] = "read_recipient" -> {From[u]}
    [] pc[u] \in {"lock_first", "lock_second", "check", "commit"} -> Parties(u)
    [] OTHER -> {}

(* The router's db.commit() makes the UPDATEs and the Transaction visible. *)
Commit(t) ==
  /\ pc[t] = "commit"
  /\ balance' = [a \in Account |-> IF a \in Parties(t) THEN copy[t][a] ELSE balance[a]]
  /\ ledger' = [ledger EXCEPT ![From[t]] = @ - Amount[t], ![To[t]] = @ + Amount[t]]
  /\ stale' = [u \in Transfer |-> IF u = t THEN stale[t]
                                  ELSE stale[u] \cup (ReadBy(u) \cap Parties(t))]
  /\ pc' = [pc EXCEPT ![t] = "done"]
  /\ Unlock(t)
  /\ UNCHANGED <<copy, crashes>>

(* The process dies or an exception rolls the session back. *)
Crash(t) ==
  /\ crashes < MaxCrashes
  /\ pc[t] \notin {"new"} \cup Finished
  /\ pc' = [pc EXCEPT ![t] = "failed"]
  /\ Unlock(t)
  /\ crashes' = crashes + 1
  /\ UNCHANGED <<balance, ledger, copy, stale>>

----------------------------------------------------------------------------
Init ==
  /\ balance = Opening
  /\ ledger = [a \in Account |-> 0]
  /\ lock = [a \in Account |-> NoOne]
  /\ copy = [t \in Transfer |-> [a \in Account |-> 0]]
  /\ pc = [t \in Transfer |-> "new"]
  /\ stale = [t \in Transfer |-> {}]
  /\ crashes = 0

Step(t) ==
  \/ RefuseParties(t) \/ ReadSender(t) \/ ReadRecipient(t)
  \/ LockFirst(t) \/ LockSecond(t)
  \/ RecordTransfer(t) \/ RefuseFunds(t) \/ Commit(t)

(* Every transfer has been answered. *)
Rest == (\A t \in Transfer : pc[t] \in Finished) /\ UNCHANGED vars

Next == (\E t \in Transfer : Step(t) \/ Crash(t)) \/ Rest

Spec == Init /\ [][Next]_vars

----------------------------------------------------------------------------
(* Properties. *)

TypeOK ==
  /\ balance \in [Account -> Nat] /\ ledger \in [Account -> Int]
  /\ lock \in [Account -> Transfer \cup Others \cup {NoOne}]
  /\ copy \in [Transfer -> [Account -> Nat]]
  /\ pc \in [Transfer -> {"new", "read_recipient", "lock_first", "lock_second",
                          "check", "commit"} \cup Finished]
  /\ stale \in [Transfer -> SUBSET Account]
  /\ crashes \in 0..MaxCrashes

(* Transfers never wait for each other in a circle, however many and in    *)
(* whichever directions ("can never deadlock each other"): there is no set *)
(* of transfers each of which waits for a row another of them holds.       *)
NoDeadlock ==
  \A S \in SUBSET Transfer :
    S # {} => \E t \in S : ~ (Waiting(t) /\ lock[Wanted(t)] \in S)

(* A committed transfer is outdated when its copy of an account was. *)
Outdated(a) == \E t \in Transfer : pc[t] = "done" /\ a \in stale[t]

(* An account's balance is its opening balance plus the sum of its         *)
(* Transactions, except where a transfer committed that had loaded the     *)
(* account before another commit changed it: the loads that precede the    *)
(* locks are the only thing that can break the mirror.                     *)
LedgerBackedUnlessStale ==
  \A a \in Account : Outdated(a) \/ balance[a] = Opening[a] + ledger[a]

(* No account without such a transfer has sent more than it had.           *)
NoOverdraft ==
  \A a \in Account : Outdated(a) \/ Opening[a] + ledger[a] >= 0

(* A user's balance is always the sum of their transaction history.        *)
LedgerBacked == \A a \in Account : balance[a] = Opening[a] + ledger[a]
=============================================================================

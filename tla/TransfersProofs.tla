-------------------------- MODULE TransfersProofs --------------------------
(***************************************************************************)
(* Proofs about Transfers, for any number of transfers and accounts.       *)
(***************************************************************************)
EXTENDS Transfers, TLAPS, WellFoundedInduction, NaturalsInduction

Active == {"read_recipient", "lock_first", "lock_second", "check", "commit"}

(* A transfer that got past the first refusals has two different parties.  *)
PartiesDiffer == \A t \in Transfer : pc[t] \in Active => From[t] # To[t]

(* Exactly the rows a transfer has locked so far name it as their holder.  *)
Held(t) == CASE pc[t] = "lock_second" -> {First(t)}
             [] pc[t] \in {"check", "commit"} -> Parties(t)
             [] OTHER -> {}

LocksHeld == \A t \in Transfer, a \in Account : lock[a] = t <=> a \in Held(t)

(* What a session holds of an account that did not change under it is the  *)
(* account's balance, and once the transfer is recorded, that balance with *)
(* the transfer applied.                                                   *)
CopyFresh ==
  \A t \in Transfer : \A a \in ReadBy(t) \ stale[t] :
    copy[t][a] = IF pc[t] = "commit" THEN Moved(t, balance)[a] ELSE balance[a]

IInv ==
  TypeOK /\ PartiesDiffer /\ LocksHeld /\ CopyFresh /\ LedgerBackedUnlessStale

USE TransferConstants DEF Finished

----------------------------------------------------------------------------
(* What a transfer between two different accounts does to the balances.    *)
LEMMA MovedAt ==
  ASSUME NEW t \in Transfer, From[t] # To[t]
  PROVE  \A have \in [Account -> Int] : \A a \in Account :
           /\ Moved(t, have) \in [Account -> Int]
           /\ Moved(t, have)[a] = IF a = From[t] THEN have[a] - Amount[t]
                                 ELSE IF a = To[t] THEN have[a] + Amount[t]
                                 ELSE have[a]
<1> TAKE have \in [Account -> Int]
<1> TAKE a \in Account
<1>1. From[t] \in Account /\ To[t] \in Account /\ Amount[t] \in Nat
  OBVIOUS
<1>2. Moved(t, have) = [b \in Account |-> IF b = To[t] THEN have[b] + Amount[t]
                                         ELSE IF b = From[t] THEN have[b] - Amount[t]
                                         ELSE have[b]]
  BY <1>1 DEF Moved
<1> QED  BY <1>1, <1>2

(* Type correctness: balances stay natural numbers, also those a transfer  *)
(* computes from an outdated copy, since the check is made on that copy.   *)

LEMMA TypeInit == Init => TypeOK
  BY DEF Init, TypeOK

LEMMA TypeNext == TypeOK /\ PartiesDiffer /\ [Next]_vars => TypeOK'
<1> SUFFICES ASSUME TypeOK, PartiesDiffer, [Next]_vars PROVE TypeOK'
  OBVIOUS
<1> USE DEF TypeOK
<1>1. ASSUME NEW t \in Transfer, RefuseParties(t) PROVE TypeOK'
  BY <1>1 DEF RefuseParties
<1>2. ASSUME NEW t \in Transfer, ReadSender(t) PROVE TypeOK'
  BY <1>2 DEF ReadSender
<1>3. ASSUME NEW t \in Transfer, ReadRecipient(t) PROVE TypeOK'
  BY <1>3 DEF ReadRecipient
<1>4. ASSUME NEW t \in Transfer, LockFirst(t) PROVE TypeOK'
  BY <1>4 DEF LockFirst, First
<1>5. ASSUME NEW t \in Transfer, LockSecond(t) PROVE TypeOK'
  BY <1>5 DEF LockSecond, Second
<1>6. ASSUME NEW t \in Transfer, RecordTransfer(t) PROVE TypeOK'
  <2>1. From[t] # To[t]
    BY <1>6 DEF RecordTransfer, PartiesDiffer, Active
  <2>2. Moved(t, copy[t]) \in [Account -> Nat]
    <3>1. copy[t] \in [Account -> Int] /\ copy[t] \in [Account -> Nat]
      OBVIOUS
    <3>2. copy[t][From[t]] >= Amount[t] /\ Amount[t] \in Nat
      BY <1>6 DEF RecordTransfer, Covers
    <3>3. \A a \in Account : Moved(t, copy[t])[a] \in Nat
      <4> TAKE a \in Account
      <4>1. Moved(t, copy[t])[a] = IF a = From[t] THEN copy[t][a] - Amount[t]
                                   ELSE IF a = To[t] THEN copy[t][a] + Amount[t]
                                   ELSE copy[t][a]
        BY <2>1, <3>1, MovedAt
      <4> QED  BY <3>1, <3>2, <4>1
    <3>4. Moved(t, copy[t]) = [a \in Account |-> Moved(t, copy[t])[a]]
      BY <2>1, <3>1, MovedAt DEF Moved
    <3> HIDE DEF Moved
    <3> QED  BY <3>3, <3>4
  <2> QED  BY <1>6, <2>2 DEF RecordTransfer
<1>7. ASSUME NEW t \in Transfer, RefuseFunds(t) PROVE TypeOK'
  BY <1>7 DEF RefuseFunds, Unlock
<1>8. ASSUME NEW t \in Transfer, Commit(t) PROVE TypeOK'
  <2>0. From[t] \in Account /\ To[t] \in Account /\ Amount[t] \in Nat
    OBVIOUS
  <2>1. balance' \in [Account -> Nat]
    BY <1>8 DEF Commit
  <2>3. ledger' \in [Account -> Int]
    <3>1. From[t] # To[t]
      BY <1>8 DEF Commit, PartiesDiffer, Active
    <3>2. ledger' = Moved(t, ledger)
      BY <1>8 DEF Commit, Moved
    <3> QED  BY <2>0, <3>1, <3>2, MovedAt
  <2>2. stale' \in [Transfer -> SUBSET Account]
    BY <1>8 DEF Commit, Parties
  <2> QED  BY <1>8, <2>1, <2>2, <2>3 DEF Commit, Unlock
<1>9. ASSUME NEW t \in Transfer, Crash(t) PROVE TypeOK'
  BY <1>9 DEF Crash, Unlock
<1>10. ASSUME UNCHANGED vars PROVE TypeOK'
  BY <1>10 DEF vars
<1> QED  BY <1>1, <1>2, <1>3, <1>4, <1>5, <1>6, <1>7, <1>8, <1>9, <1>10 DEF Next, Step, Rest

----------------------------------------------------------------------------
(* The locks. *)

LEMMA FirstSecond ==
  ASSUME NEW t \in Transfer
  PROVE  /\ First(t) \in Account /\ Second(t) \in Account
         /\ {First(t), Second(t)} = Parties(t)
         /\ From[t] # To[t] => First(t) < Second(t)
<1>1. From[t] \in Account /\ To[t] \in Account
  OBVIOUS
<1>2. From[t] \in Nat /\ To[t] \in Nat
  BY <1>1
<1> QED  BY <1>1, <1>2 DEF First, Second, Parties

LEMMA DifferNext == TypeOK /\ PartiesDiffer /\ [Next]_vars => PartiesDiffer'
  BY DEF PartiesDiffer, Active, TypeOK, Next, Step, Rest, vars, RefuseParties, ReadSender,
         ReadRecipient, LockFirst, LockSecond, RecordTransfer, RefuseFunds, Commit, Crash

LEMMA LocksNext == TypeOK /\ PartiesDiffer /\ LocksHeld /\ [Next]_vars => LocksHeld'
<1> SUFFICES ASSUME TypeOK, PartiesDiffer, LocksHeld, [Next]_vars,
                    NEW u \in Transfer, NEW a \in Account
             PROVE  (lock[a] = u <=> a \in Held(u))'
  BY DEF LocksHeld
<1> USE DEF TypeOK, Held
<1>0. lock[a] = u <=> a \in Held(u)
  BY DEF LocksHeld
<1>1. CASE UNCHANGED <<lock, pc>>
  BY <1>0, <1>1 DEF First, Parties
<1>2. ASSUME NEW t \in Transfer, RefuseParties(t) \/ ReadSender(t) \/ ReadRecipient(t)
      PROVE  (lock[a] = u <=> a \in Held(u))'
  BY <1>0, <1>2 DEF RefuseParties, ReadSender, ReadRecipient, First, Parties
<1>3. ASSUME NEW t \in Transfer, LockFirst(t)
      PROVE  (lock[a] = u <=> a \in Held(u))'
  BY <1>0, <1>3, FirstSecond DEF LockFirst, First, Parties
<1>4. ASSUME NEW t \in Transfer, LockSecond(t)
      PROVE  (lock[a] = u <=> a \in Held(u))'
  BY <1>0, <1>4, FirstSecond DEF LockSecond, First, Second, Parties
<1>5. ASSUME NEW t \in Transfer, RecordTransfer(t)
      PROVE  (lock[a] = u <=> a \in Held(u))'
  BY <1>0, <1>5 DEF RecordTransfer, First, Parties
<1>6. ASSUME NEW t \in Transfer, RefuseFunds(t) \/ Commit(t) \/ Crash(t)
      PROVE  (lock[a] = u <=> a \in Held(u))'
  BY <1>0, <1>6 DEF RefuseFunds, Commit, Crash, Unlock, First, Parties
<1> QED  BY <1>1, <1>2, <1>3, <1>4, <1>5, <1>6 DEF Next, Step, Rest, vars

----------------------------------------------------------------------------
(* Copies and the ledger. *)

LEMMA CopyNext == IInv /\ [Next]_vars => CopyFresh'
<1> SUFFICES ASSUME IInv, [Next]_vars,
                    NEW u \in Transfer, NEW a \in (ReadBy(u) \ stale[u])'
             PROVE  (copy[u][a] = IF pc[u] = "commit" THEN Moved(u, balance)[a]
                                  ELSE balance[a])'
  BY DEF CopyFresh
<1> DEFINE Fresh == copy[u][a] = IF pc[u] = "commit" THEN Moved(u, balance)[a]
                                 ELSE balance[a]
<1> USE DEF IInv, TypeOK
<1>0. From[u] \in Account /\ To[u] \in Account /\ a \in Parties(u) /\ a \in Account
  BY DEF ReadBy, Parties
<1>1. a \in ReadBy(u) \ stale[u] => Fresh
  BY DEF CopyFresh
<1>2. CASE UNCHANGED <<balance, copy, pc, stale>>
  BY <1>1, <1>2 DEF ReadBy, Parties, Moved
<1>3. ASSUME NEW t \in Transfer, RefuseParties(t) \/ RefuseFunds(t) \/ Crash(t)
      PROVE  Fresh'
  BY <1>1, <1>3 DEF RefuseParties, RefuseFunds, Crash, ReadBy, Parties, Moved
<1>4. ASSUME NEW t \in Transfer, ReadSender(t) PROVE Fresh'
  BY <1>0, <1>1, <1>4 DEF ReadSender, ReadBy, Parties, Moved
<1>5. ASSUME NEW t \in Transfer, ReadRecipient(t) PROVE Fresh'
  BY <1>0, <1>1, <1>5 DEF ReadRecipient, ReadBy, Parties, Moved
<1>6. ASSUME NEW t \in Transfer, LockFirst(t) \/ LockSecond(t) PROVE Fresh'
  BY <1>0, <1>1, <1>6 DEF LockFirst, LockSecond, ReadBy, Parties, Moved
<1>7. ASSUME NEW t \in Transfer, RecordTransfer(t) PROVE Fresh'
  <2>1. CASE u # t
    BY <1>0, <1>1, <1>7, <2>1 DEF RecordTransfer, ReadBy, Parties, Moved
  <2>2. CASE u = t
    <3>1. From[u] # To[u]
      BY <1>7, <2>2 DEF RecordTransfer, PartiesDiffer, Active
    <3>2. a \in ReadBy(u) \ stale[u] /\ pc[u] = "check"
      BY <1>0, <1>7, <2>2 DEF RecordTransfer, ReadBy
    <3>3. copy[u][a] = balance[a]
      BY <1>1, <3>2
    <3>4. copy[u] \in [Account -> Int] /\ balance \in [Account -> Int]
      OBVIOUS
    <3>5. Moved(u, copy[u])[a] = Moved(u, balance)[a]
      <4>1. Moved(u, copy[u])[a] = IF a = From[u] THEN copy[u][a] - Amount[u]
                                   ELSE IF a = To[u] THEN copy[u][a] + Amount[u]
                                   ELSE copy[u][a]
        BY <1>0, <3>1, <3>4, MovedAt
      <4>2. Moved(u, balance)[a] = IF a = From[u] THEN balance[a] - Amount[u]
                                   ELSE IF a = To[u] THEN balance[a] + Amount[u]
                                   ELSE balance[a]
        BY <1>0, <3>1, <3>4, MovedAt
      <4> QED  BY <3>3, <4>1, <4>2
    <3>6. copy'[u][a] = Moved(u, copy[u])[a] /\ pc'[u] = "commit" /\ balance' = balance
      BY <1>7, <2>2 DEF RecordTransfer
    <3>7. Moved(u, balance)' = Moved(u, balance)
      BY <3>6 DEF Moved
    <3> QED  BY <3>5, <3>6, <3>7
  <2> QED  BY <2>1, <2>2
<1>8. ASSUME NEW t \in Transfer, Commit(t) PROVE Fresh'
  <2>1. u # t /\ pc'[u] = pc[u] /\ copy'[u] = copy[u]
    BY <1>8 DEF Commit, ReadBy
  <2>2. a \in ReadBy(u) \ stale[u] /\ a \notin Parties(t)
    BY <1>8, <2>1 DEF Commit, ReadBy
  <2>3. balance'[a] = balance[a]
    BY <1>0, <1>8, <2>2 DEF Commit
  <2>4. ASSUME pc[u] = "commit" PROVE Moved(u, balance')[a] = Moved(u, balance)[a]
    <3>1. From[u] # To[u]
      BY <2>4 DEF PartiesDiffer, Active
    <3>2. balance \in [Account -> Int] /\ balance' \in [Account -> Int]
      <4>1. balance' \in [Account -> Nat]
        BY TypeNext
      <4> QED  BY <4>1
    <3>3. Moved(u, balance)[a] = IF a = From[u] THEN balance[a] - Amount[u]
                                 ELSE IF a = To[u] THEN balance[a] + Amount[u]
                                 ELSE balance[a]
      BY <1>0, <3>1, <3>2, MovedAt
    <3>4. Moved(u, balance')[a] = IF a = From[u] THEN balance'[a] - Amount[u]
                                  ELSE IF a = To[u] THEN balance'[a] + Amount[u]
                                  ELSE balance'[a]
      BY <1>0, <3>1, <3>2, MovedAt
    <3> QED  BY <2>3, <3>3, <3>4
  <2>5. Moved(u, balance)' = Moved(u, balance')
    BY DEF Moved
  <2> QED  BY <1>1, <2>1, <2>2, <2>3, <2>4, <2>5
<1> QED  BY <1>2, <1>3, <1>4, <1>5, <1>6, <1>7, <1>8 DEF Next, Step, Rest, vars

LEMMA LedgerNext == IInv /\ [Next]_vars => LedgerBackedUnlessStale'
<1> SUFFICES ASSUME IInv, [Next]_vars, NEW a \in Account, ~ Outdated(a)'
             PROVE  balance'[a] = Opening[a] + ledger'[a]
  BY DEF LedgerBackedUnlessStale
<1> USE DEF IInv, TypeOK
<1>1. \A t \in Transfer : stale[t] \subseteq stale'[t]
  BY SMTT(30) DEF Next, Step, Rest, vars, RefuseParties, ReadSender, ReadRecipient, LockFirst,
         LockSecond, RecordTransfer, RefuseFunds, Commit, Crash
<1>2. \A t \in Transfer : pc[t] = "done" => pc'[t] = "done"
  BY DEF Next, Step, Rest, vars, RefuseParties, ReadSender, ReadRecipient, LockFirst,
         LockSecond, RecordTransfer, RefuseFunds, Commit, Crash
<1>3. ~ Outdated(a)
  BY <1>1, <1>2 DEF Outdated
<1>4. balance[a] = Opening[a] + ledger[a]
  BY <1>3 DEF LedgerBackedUnlessStale
<1>5. CASE UNCHANGED <<balance, ledger>>
  BY <1>4, <1>5
<1>6. ASSUME NEW t \in Transfer, Commit(t)
      PROVE  balance'[a] = Opening[a] + ledger'[a]
  <2>1. From[t] # To[t] /\ From[t] \in Account /\ To[t] \in Account
    BY <1>6 DEF Commit, PartiesDiffer, Active
  <2>2. ledger' = Moved(t, ledger)
    BY <1>6 DEF Commit, Moved
  <2>3. balance \in [Account -> Int] /\ ledger \in [Account -> Int]
    OBVIOUS
  <2>4. CASE a \notin Parties(t)
    BY <1>4, <1>6, <2>1, <2>2, <2>3, <2>4, MovedAt DEF Commit, Parties
  <2>5. CASE a \in Parties(t)
    <3>1. pc'[t] = "done" /\ stale'[t] = stale[t]
      BY <1>6 DEF Commit
    <3>2. a \in ReadBy(t) \ stale[t] /\ pc[t] = "commit"
      BY <1>6, <2>5, <3>1 DEF Commit, ReadBy, Outdated
    <3>3. copy[t][a] = Moved(t, balance)[a]
      BY <3>2 DEF CopyFresh
    <3>4. balance'[a] = copy[t][a]
      BY <1>6, <2>5 DEF Commit
    <3>5. Amount[t] \in Nat /\ Opening[a] \in Nat /\ ledger[a] \in Int /\ balance[a] \in Int
      OBVIOUS
    <3>6. Moved(t, balance)[a] = IF a = From[t] THEN balance[a] - Amount[t]
                                 ELSE IF a = To[t] THEN balance[a] + Amount[t]
                                 ELSE balance[a]
      BY <2>1, <2>3, MovedAt
    <3>7. Moved(t, ledger)[a] = IF a = From[t] THEN ledger[a] - Amount[t]
                                ELSE IF a = To[t] THEN ledger[a] + Amount[t]
                                ELSE ledger[a]
      BY <2>1, <2>3, MovedAt
    <3> QED  BY <1>4, <2>2, <3>3, <3>4, <3>5, <3>6, <3>7
  <2> QED  BY <2>4, <2>5
<1> QED  BY <1>5, <1>6 DEF Next, Step, Rest, vars, RefuseParties, ReadSender, ReadRecipient,
            LockFirst, LockSecond, RecordTransfer, RefuseFunds, Crash

----------------------------------------------------------------------------
(* The theorems. *)

LEMMA IInvInit == Init => IInv
  BY TypeInit DEF Init, IInv, PartiesDiffer, Active, LocksHeld, Held, CopyFresh, ReadBy,
                  LedgerBackedUnlessStale

LEMMA IInvNext == IInv /\ [Next]_vars => IInv'
  BY TypeNext, DifferNext, LocksNext, CopyNext, LedgerNext DEF IInv

LEMMA IInvAlways == Spec => []IInv
  BY IInvInit, IInvNext, PTL DEF Spec

(* Every reachable state is well typed; in particular no stored balance is *)
(* ever negative, whatever the interleaving of transfers.                  *)
THEOREM TypeCorrect == Spec => []TypeOK
<1>1. IInv => TypeOK
  BY DEF IInv
<1> QED  BY <1>1, IInvAlways, PTL

(* The cached balance equals the ledger except on an account that a        *)
(* committed transfer had read before another commit changed it.           *)
THEOREM LedgerExactUnlessStale == Spec => []LedgerBackedUnlessStale
<1>1. IInv => LedgerBackedUnlessStale
  BY DEF IInv
<1> QED  BY <1>1, IInvAlways, PTL

LEMMA OverdraftHolds == IInv => NoOverdraft
  BY DEF IInv, TypeOK, LedgerBackedUnlessStale, NoOverdraft

(* Nor has such an account sent more than it ever held.                    *)
THEOREM NeverOverdrawn == Spec => []NoOverdraft
  BY OverdraftHolds, IInvAlways, PTL

(* Locking in ascending id order: whoever waits for a row that another     *)
(* waiting transfer holds waits for a lower id than that one does.         *)
LEMMA WaitsAscend ==
  ASSUME IInv, NEW t \in Transfer, NEW u \in Transfer,
         Waiting(t), Waiting(u), lock[Wanted(t)] = u
  PROVE  Wanted(t) < Wanted(u)
<1>1. Wanted(t) \in Account
  BY FirstSecond DEF Wanted
<1>2. Wanted(t) \in Held(u)
  BY <1>1 DEF IInv, LocksHeld
<1>3. pc[u] = "lock_second" /\ Wanted(t) = First(u) /\ Wanted(u) = Second(u)
  BY <1>2 DEF Held, Waiting, Wanted
<1>4. From[u] # To[u]
  BY <1>3 DEF IInv, PartiesDiffer, Active
<1> QED  BY <1>3, <1>4, FirstSecond

(* The one that waits for the highest id waits for none of the others.     *)
LEMMA WaitsEnd == IInv => NoDeadlock
<1> SUFFICES ASSUME IInv, NEW S \in SUBSET Transfer, S # {},
                    \A t \in S : Waiting(t) /\ lock[Wanted(t)] \in S
             PROVE  FALSE
  BY DEF NoDeadlock
<1> DEFINE Depth == {MaxId - Wanted(t) : t \in S}
<1>1. \A t \in S : Wanted(t) \in Nat /\ Wanted(t) <= MaxId
  BY FirstSecond DEF Wanted
<1>2. Depth \subseteq Nat /\ Depth # {}
  BY <1>1
<1>3. PICK n \in Depth : \A m \in Depth : ~ (<<m, n>> \in OpToRel(<, Nat))
  BY <1>2, NatLessThanWellFounded, WFMin
<1>4. PICK t \in S : n = MaxId - Wanted(t)
  BY <1>3
<1>5. PICK u \in S : lock[Wanted(t)] = u
  BY <1>4
<1>6. Wanted(t) < Wanted(u)
  BY <1>5, WaitsAscend
<1>7. MaxId - Wanted(u) < n /\ MaxId - Wanted(u) \in Nat /\ n \in Nat
  BY <1>1, <1>4, <1>6
<1>8. <<MaxId - Wanted(u), n>> \in OpToRel(<, Nat)
  BY <1>7 DEF OpToRel
<1> QED  BY <1>3, <1>8

(* No set of transfers waits in a circle.                                  *)
THEOREM NeverDeadlocked == Spec => []NoDeadlock
  BY WaitsEnd, IInvAlways, PTL

----------------------------------------------------------------------------
(* Transfers among other components. *)

(* A transfer changes a balance only at its commit and only of rows it has *)
(* locked, which it then lets go; it never takes a row from its holder.    *)
(* What it writes may be outdated, but nobody else is writing the row.     *)
Writes(a) ==
  /\ balance'[a] # balance[a] => lock[a] \in Transfer /\ lock'[a] = NoOne
  /\ \/ lock'[a] = lock[a]
     \/ lock[a] = NoOne /\ lock'[a] \in Transfer
     \/ lock[a] \in Transfer /\ lock'[a] = NoOne

WritesUnderLock == [][\A a \in Account : Writes(a)]_vars

LEMMA StepWrites == IInv /\ [Next]_vars => \A a \in Account : Writes(a)
<1> SUFFICES ASSUME IInv, [Next]_vars, NEW a \in Account PROVE Writes(a)
  OBVIOUS
<1> USE DEF IInv, TypeOK, Writes
<1>1. CASE UNCHANGED <<balance, lock>>
  BY <1>1
<1>2. ASSUME NEW t \in Transfer, LockFirst(t) \/ LockSecond(t) PROVE Writes(a)
  BY <1>2, FirstSecond DEF LockFirst, LockSecond
<1>3. ASSUME NEW t \in Transfer, RefuseFunds(t) \/ Crash(t) PROVE Writes(a)
  BY <1>3 DEF RefuseFunds, Crash, Unlock
<1>4. ASSUME NEW t \in Transfer, Commit(t) PROVE Writes(a)
  <2>1. a \in Parties(t) => lock[a] = t
    BY <1>4 DEF Commit, LocksHeld, Held
  <2>2. a \notin Parties(t) => balance'[a] = balance[a]
    BY <1>4 DEF Commit
  <2>3. lock' = [b \in Account |-> IF lock[b] = t THEN NoOne ELSE lock[b]]
    BY <1>4 DEF Commit, Unlock
  <2> HIDE DEF IInv, TypeOK
  <2> QED  BY <2>1, <2>2, <2>3
<1> QED  BY <1>1, <1>2, <1>3, <1>4 DEF Next, Step, Rest, vars, RefuseParties, ReadSender,
            ReadRecipient, RecordTransfer

THEOREM EveryStepWritesUnderLock == Spec => WritesUnderLock
<1>1. IInv /\ [Next]_vars => [\A a \in Account : Writes(a)]_vars
  BY StepWrites
<1> QED  BY <1>1, IInvAlways, PTL DEF Spec, WritesUnderLock

(* What the rest of the application may do: post to any account, balance   *)
(* and ledger alike, but neither give a lock to a transfer nor take one    *)
(* from it.  What it changes is outdated in the sessions that have read it.*)
Elsewhere ==
  /\ balance' \in [Account -> Nat] /\ ledger' \in [Account -> Int]
  /\ lock' \in [Account -> Transfer \cup Others \cup {NoOne}]
  /\ \A a \in Account :
       /\ balance'[a] - balance[a] = ledger'[a] - ledger[a]
       /\ lock[a] \in Transfer \/ lock'[a] \in Transfer => lock'[a] = lock[a]
  /\ stale' = [t \in Transfer |-> stale[t] \cup {a \in ReadBy(t) : balance'[a] # balance[a]}]
  /\ UNCHANGED <<copy, pc, crashes>>

AmongOthers == Init /\ [][Next \/ Elsewhere]_vars

LEMMA ElsewhereKeeps == IInv /\ Elsewhere => IInv'
<1> SUFFICES ASSUME IInv, Elsewhere PROVE IInv'
  OBVIOUS
<1> USE DEF IInv, Elsewhere
<1>0. /\ \A t \in Transfer : From[t] \in Account /\ To[t] \in Account
      /\ \A t \in Transfer : ReadBy(t) \subseteq Account /\ ReadBy(t)' = ReadBy(t)
  BY DEF ReadBy, Parties
<1>1. stale' \in [Transfer -> SUBSET Account]
  BY <1>0 DEF TypeOK
<1>2. TypeOK'
  BY <1>1 DEF TypeOK
<1>3. PartiesDiffer'
  BY DEF PartiesDiffer
<1>4. LocksHeld'
  <2> SUFFICES ASSUME NEW t \in Transfer, NEW a \in Account
               PROVE  lock'[a] = t <=> a \in Held(t)'
    BY DEF LocksHeld
  <2>1. lock'[a] = t <=> lock[a] = t
    OBVIOUS
  <2>2. Held(t)' = Held(t)
    BY DEF Held, First, Parties
  <2> QED  BY <2>1, <2>2 DEF LocksHeld
<1>5. CopyFresh'
  <2> SUFFICES ASSUME NEW t \in Transfer, NEW a \in ReadBy(t)' \ stale'[t]
               PROVE  copy'[t][a] = IF pc'[t] = "commit" THEN Moved(t, balance')[a]
                                    ELSE balance'[a]
    BY DEF CopyFresh, Moved
  <2>1. a \in Account /\ a \in ReadBy(t) \ stale[t] /\ balance'[a] = balance[a]
    BY <1>0, <1>1
  <2>2. copy[t][a] = IF pc[t] = "commit" THEN Moved(t, balance)[a] ELSE balance[a]
    BY <2>1 DEF CopyFresh
  <2>3. pc[t] = "commit" => From[t] # To[t]
    BY DEF PartiesDiffer, Active
  <2>4. balance \in [Account -> Int] /\ balance' \in [Account -> Int]
    BY DEF TypeOK
  <2>5. pc[t] = "commit" => Moved(t, balance')[a] = Moved(t, balance)[a]
    <3> SUFFICES ASSUME pc[t] = "commit" PROVE Moved(t, balance')[a] = Moved(t, balance)[a]
      OBVIOUS
    <3>1. Moved(t, balance)[a] = IF a = From[t] THEN balance[a] - Amount[t]
                                 ELSE IF a = To[t] THEN balance[a] + Amount[t]
                                 ELSE balance[a]
      BY <2>1, <2>3, <2>4, MovedAt
    <3>2. Moved(t, balance')[a] = IF a = From[t] THEN balance'[a] - Amount[t]
                                  ELSE IF a = To[t] THEN balance'[a] + Amount[t]
                                  ELSE balance'[a]
      BY <2>1, <2>3, <2>4, MovedAt
    <3> QED  BY <2>1, <3>1, <3>2
  <2> QED  BY <2>1, <2>2, <2>5
<1>6. LedgerBackedUnlessStale'
  <2> SUFFICES ASSUME NEW a \in Account, ~ Outdated(a)'
               PROVE  balance'[a] = Opening[a] + ledger'[a]
    BY DEF LedgerBackedUnlessStale
  <2>1. ~ Outdated(a)
    BY <1>1 DEF Outdated
  <2>2. balance[a] = Opening[a] + ledger[a]
    BY <2>1 DEF LedgerBackedUnlessStale
  <2>3. /\ balance[a] \in Int /\ ledger[a] \in Int /\ Opening[a] \in Int
        /\ balance'[a] \in Int /\ ledger'[a] \in Int
        /\ balance'[a] - balance[a] = ledger'[a] - ledger[a]
    BY DEF TypeOK
  <2> QED  BY <2>2, <2>3
<1> QED  BY <1>2, <1>3, <1>4, <1>5, <1>6

(* With any other code that takes the row locks and posts to the same      *)
(* accounts, transfers still never wait in a circle, and an outdated read  *)
(* stays the only way a balance loses its ledger.                          *)
THEOREM SafeAmongOthers ==
  AmongOthers => /\ []TypeOK /\ []LedgerBackedUnlessStale /\ []NoOverdraft
                 /\ []NoDeadlock
<1>1. IInv /\ [Next \/ Elsewhere]_vars => IInv'
  BY IInvNext, ElsewhereKeeps
<1>2. IInv => TypeOK /\ LedgerBackedUnlessStale
  BY DEF IInv
<1> QED  BY <1>1, <1>2, IInvInit, OverdraftHolds, WaitsEnd, PTL DEF AmongOthers

----------------------------------------------------------------------------
(* The exemption is the overlap. *)

(* Transfers in progress at the same time share no account.                *)
Apart ==
  \A t, u \in Transfer :
    t # u /\ {pc[t], pc[u]} \subseteq Active => Parties(t) \cap Parties(u) = {}

NothingStale == \A t \in Transfer : stale[t] = {}

LEMMA NothingStaleNext == IInv /\ Apart /\ NothingStale /\ [Next]_vars => NothingStale'
<1> SUFFICES ASSUME IInv, Apart, NothingStale, [Next]_vars PROVE NothingStale'
  OBVIOUS
<1>1. ASSUME NEW t \in Transfer, Commit(t) PROVE NothingStale'
  <2> SUFFICES ASSUME NEW u \in Transfer, u # t PROVE ReadBy(u) \cap Parties(t) = {}
    BY <1>1 DEF NothingStale, Commit
  <2>1. pc[t] \in Active
    BY <1>1 DEF Commit, Active
  <2>2. CASE pc[u] \in Active
    BY <2>1, <2>2 DEF Apart, ReadBy, Parties, Active
  <2>3. CASE pc[u] \notin Active
    BY <2>3 DEF ReadBy, Active
  <2> QED  BY <2>2, <2>3
<1>2. CASE UNCHANGED stale
  BY <1>2 DEF NothingStale
<1> QED
  BY <1>1, <1>2 DEF Next, Step, Rest, vars, RefuseParties, ReadSender, ReadRecipient,
     LockFirst, LockSecond, RecordTransfer, RefuseFunds, Crash

(* LedgerBacked: the balance is always the sum of the transactions as long *)
(* as no two transfers of one account are in progress together; it takes   *)
(* the overlap to lose an update.                                          *)
THEOREM LedgerBackedWhenApart == Spec /\ []Apart => []LedgerBacked
<1>1. Init => NothingStale
  BY DEF Init, NothingStale
<1>2. IInv /\ NothingStale => LedgerBacked
  BY DEF IInv, NothingStale, LedgerBackedUnlessStale, Outdated, LedgerBacked
<1> QED  BY <1>1, <1>2, NothingStaleNext, IInvAlways, PTL DEF Spec
=============================================================================

-------------------------------- MODULE Books --------------------------------
(***************************************************************************)
(* What payouts and deposits promise the wallet, without requests, locks,  *)
(* sessions or callbacks: a payment moves its amount once, gives it back at*)
(* most once and whole, and the balance of its account is what the moves   *)
(* have made of it.                                                        *)
(*                                                                         *)
(* Amounts are signed: a deposit moves a positive amount, a payout a       *)
(* negative one.                                                           *)
(***************************************************************************)
EXTENDS Integers

CONSTANTS
  Payment,
  Account,
  Of,         \* [Payment -> Account]
  Moves,      \* [Payment -> SUBSET Int]: the amounts a payment may come to
  Opening     \* [Account -> Nat]

VARIABLES
  balance,    \* of each account
  moved,      \* what each payment has moved
  back,       \* what it has given back
  excused     \* the payments that may do so again

vars == <<balance, moved, back, excused>>

Add(f, x, amount) == [f EXCEPT ![x] = @ + amount]

(* An amount that does not overdraw the account. *)
Fits(p, amount) == balance[Of[p]] + amount >= 0

Move(p, amount) ==
  /\ moved[p] = 0 \/ p \in excused
  /\ Fits(p, amount)
  /\ moved' = Add(moved, p, amount)
  /\ balance' = Add(balance, Of[p], amount)
  /\ UNCHANGED <<back, excused>>

GiveBack(p) ==
  /\ moved[p] # 0
  /\ back[p] = 0 \/ p \in excused
  /\ back' = Add(back, p, - moved[p])
  /\ balance' = Add(balance, Of[p], - moved[p])
  /\ UNCHANGED <<moved, excused>>

(* Both at once: the amount had to be there all the same. *)
MoveAndGiveBack(p, amount) ==
  /\ moved[p] = 0 /\ back[p] = 0
  /\ Fits(p, amount)
  /\ moved' = Add(moved, p, amount)
  /\ back' = Add(back, p, - amount)
  /\ UNCHANGED <<balance, excused>>

Excuse(p) ==
  /\ excused' = excused \cup {p}
  /\ UNCHANGED <<balance, moved, back>>

Init ==
  /\ balance = Opening
  /\ moved = [p \in Payment |-> 0]
  /\ back = [p \in Payment |-> 0]
  /\ excused = {}

Next ==
  \E p \in Payment :
    \/ \E amount \in Moves[p] : Move(p, amount) \/ MoveAndGiveBack(p, amount)
    \/ GiveBack(p)
    \/ Excuse(p)

Spec == Init /\ [][Next]_vars
=============================================================================

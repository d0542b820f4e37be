-------------------------------- MODULE Money --------------------------------
(***************************************************************************)
(* The numbers the money modules leave out.  There an amount is exact; here*)
(* it is what Python's Decimal, the Numeric(18, 2) columns and the gateways*)
(* make of it.                                                             *)
(*                                                                         *)
(* A balance and the amount of a request are whole cents (the schemas      *)
(* admit two decimal places).  A conversion is exact to a fraction of a    *)
(* cent: what convert returns is not rounded before it is added to or      *)
(* taken from the balance, and each column rounds what it is given.        *)
(***************************************************************************)
EXTENDS Integers, TLAPS

(* The fractions of a cent in which a rate (Numeric(18, 8)) and a converted*)
(* amount count.                                                           *)
Unit == 100000000

(* What convert returns, as a number of Unit-ths of a cent; the rate of two*)
(* equal currencies is one.                                                *)
Converted(cents, rate) == cents * rate
SameCurrency == Unit

(* A Numeric(18, 2) column rounds to the nearest cent, and half a cent away*)
(* from zero (no amount and no balance is negative).                       *)
Stored(x) == (2 * x + Unit) \div (2 * Unit)

(* The balance column after account.balance += x and account.balance -= x. *)
BalanceAfterCredit(balance, x) == Stored(balance * Unit + x)
BalanceAfterDebit(balance, x) == Stored(balance * Unit - x)

(* A reversal gives back what the payout's row says was deducted.          *)
BalanceAfterReversal(balance, x) == BalanceAfterCredit(balance, Stored(x) * Unit)

(* int(amount): the cents that M-Pesa and Airtel are told to move.         *)
Moved(cents) == (cents \div 100) * 100

HalfCent(x) == 2 * (x % Unit) = Unit

----------------------------------------------------------------------------
(* A column is within half a cent of what it was given, and a whole number *)
(* of cents stays what it is.                                              *)
LEMMA Rounding ==
  ASSUME NEW x \in Nat
  PROVE  /\ Stored(x) \in Nat
         /\ 2 * (Stored(x) * Unit - x) <= Unit
         /\ 2 * (x - Stored(x) * Unit) < Unit
         /\ x % Unit = 0 => Stored(x) * Unit = x
  BY DEF Stored, Unit

(* A deposit raises the balance by exactly the amount of the Transaction   *)
(* written beside it, whatever the rate: both columns round the same way.  *)
THEOREM CreditsExact ==
  ASSUME NEW balance \in Nat, NEW x \in Nat
  PROVE  BalanceAfterCredit(balance, x) = balance + Stored(x)
  BY DEF BalanceAfterCredit, Stored, Unit

(* A payout lowers the balance by the amount of its Transaction, except    *)
(* that a conversion that ends on half a cent is rounded up in the one     *)
(* column as a balance and in the other as an amount: the account keeps a  *)
(* cent the ledger has paid out, so that its balance is no longer the sum  *)
(* of its Transactions.                                                    *)
THEOREM DebitsDrift ==
  ASSUME NEW balance \in Nat, NEW x \in Nat, x <= balance * Unit
  PROVE  BalanceAfterDebit(balance, x) =
           balance - Stored(x) + (IF HalfCent(x) THEN 1 ELSE 0)
  BY DEF BalanceAfterDebit, Stored, Unit, HalfCent

(* Without a conversion there is nothing to round: a payout in the currency*)
(* of its account leaves the balance the sum of the Transactions.          *)
THEOREM SameCurrencyExact ==
  ASSUME NEW balance \in Nat, NEW cents \in Nat, cents <= balance
  PROVE  /\ BalanceAfterDebit(balance, Converted(cents, SameCurrency)) = balance - cents
         /\ Stored(Converted(cents, SameCurrency)) = cents
  BY DEF BalanceAfterDebit, Converted, SameCurrency, Stored, Unit

(* A callback that reverses a payout restores the balance, again up to the *)
(* half cent: the deduction and its reversal cancel in the ledger, and the *)
(* account is left with the cent.                                          *)
THEOREM ReversalKeepsDrift ==
  ASSUME NEW balance \in Nat, NEW x \in Nat, x <= balance * Unit
  PROVE  BalanceAfterReversal(BalanceAfterDebit(balance, x), x) =
           balance + (IF HalfCent(x) THEN 1 ELSE 0)
<1>1. Stored(x) \in Nat /\ x % Unit \in Nat
  BY DEF Stored, Unit
<1>2. BalanceAfterDebit(balance, x) \in Nat
  BY DEF BalanceAfterDebit, Stored, Unit
<1>3. Stored(Stored(x) * Unit) = Stored(x)
  BY <1>1 DEF Stored, Unit
<1>4. BalanceAfterReversal(BalanceAfterDebit(balance, x), x) =
        BalanceAfterDebit(balance, x) + Stored(x)
  <2>1. Stored(x) * Unit \in Nat
    BY <1>1 DEF Unit
  <2> QED
    BY <1>2, <1>3, <2>1, CreditsExact DEF BalanceAfterReversal
<1> QED
  BY <1>1, <1>4, DebitsDrift

(* M-Pesa and Airtel move less than the wallet is charged or credited with,*)
(* by less than a shilling, unless the amount is in whole shillings.       *)
THEOREM CentsAreNotMoved ==
  ASSUME NEW cents \in Nat
  PROVE  /\ Moved(cents) <= cents
         /\ cents - Moved(cents) < 100
         /\ Moved(cents) = cents <=> cents % 100 = 0
  BY DEF Moved
=============================================================================

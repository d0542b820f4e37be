---------------------------- MODULE MCDeposits ----------------------------
(* Finite instances of Deposits for TLC. *)
EXTENDS Deposits, TLC

CONSTANTS m1, c1, d1, d2, alice, k

(* An M-Pesa deposit and a Stripe deposit of alice under one key, the      *)
(* second in a foreign currency.                                           *)
MCRequest == {m1, c1}
MCPayee == [r \in MCRequest |-> alice]
MCAmount == (m1 :> 3) @@ (c1 :> 1)
MCKeyOf == [r \in MCRequest |-> k]
MCOpening == [a \in Account |-> 0]
=============================================================================

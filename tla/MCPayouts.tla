----------------------------- MODULE MCPayouts -----------------------------
(* Finite instances of Payouts for TLC. *)
EXTENDS Payouts, TLC

CONSTANTS m1, c1, d1, d2, alice, k

(* An M-Pesa payout and a Stripe payout of alice under one key, the second *)
(* in a foreign currency.  Her balance covers either, and never both.      *)
MCRequest == {m1, c1}
MCPayer == [r \in MCRequest |-> alice]
MCAmount == (m1 :> 3) @@ (c1 :> 1)
MCKeyOf == [r \in MCRequest |-> k]
MCOpening == [a \in Account |-> 4]
=============================================================================

---------------------------- MODULE MCTransfers ----------------------------
(* Finite instances of Transfers for TLC. *)
EXTENDS Transfers, TLC

CONSTANTS t1, t2, t3, t4

(* A circle of transfers through three accounts, the first of which also   *)
(* pays the second twice with money for one payment.                       *)
MCTransfer == {t1, t2, t3, t4}
MCFrom == (t1 :> 1) @@ (t2 :> 2) @@ (t3 :> 3) @@ (t4 :> 1)
MCTo == (t1 :> 2) @@ (t2 :> 3) @@ (t3 :> 1) @@ (t4 :> 2)
MCAmount == (t1 :> 2) @@ (t2 :> 1) @@ (t3 :> 1) @@ (t4 :> 2)
MCOpening == (1 :> 3) @@ (2 :> 1) @@ (3 :> 0)
=============================================================================

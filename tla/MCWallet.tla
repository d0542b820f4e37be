------------------------------ MODULE MCWallet ------------------------------
(* A finite instance of Wallet for TLC. *)
EXTENDS Wallet, TLC

CONSTANTS t1, t2, t3, w, wd, v, vd

(* A circle of transfers through three accounts; a payout from the first   *)
(* spends the same money as the transfer from it, and a deposit enters it. *)
MCTransfer == {t1, t2, t3}
MCFrom == (t1 :> 1) @@ (t2 :> 2) @@ (t3 :> 3)
MCTo == (t1 :> 2) @@ (t2 :> 3) @@ (t3 :> 1)
MCAmount == (t1 :> 2) @@ (t2 :> 1) @@ (t3 :> 1)
MCOpening == (1 :> 2) @@ (2 :> 1) @@ (3 :> 0)
MCOthers == {w, wd, vd}

MCPayer == w :> 1
MCPayoutAmount == w :> 2
MCPayee == v :> 1
MCDepositAmount == v :> 1
MCPayoutKey == w :> NoKey
MCDepositKey == v :> NoKey
=============================================================================

------------------------------ MODULE MCUsers ------------------------------
(* Finite instances of Users for TLC. *)
EXTENDS Users, TLC

CONSTANTS g1, g2, a, b

(* Two Google accounts, one for each address. *)
MCAddressOf == (g1 :> a) @@ (g2 :> b)

(* Requests of one kind are interchangeable. *)
Symmetric == Permutations(Callback) \cup Permutations(Change) \cup Permutations(Verify)
=============================================================================

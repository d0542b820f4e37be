-------------------------- MODULE MCPaymentMethods --------------------------
(* Finite instances of PaymentMethods for TLC. *)
EXTENDS PaymentMethods, TLC

(* Requests of one kind that set a default, or do not, are interchangeable. *)
Symmetric ==
  Permutations(Setup) \cup Permutations(Delete)
  \cup Permutations(Link \cap SetDefault) \cup Permutations(Confirm \cap SetDefault)
=============================================================================

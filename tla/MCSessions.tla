---------------------------- MODULE MCSessions ----------------------------
(* Finite instances of Sessions for TLC. *)
EXTENDS Sessions, TLC

(* Requests of one kind are interchangeable, and so are codes of one kind. *)
Symmetric ==
  Permutations(Refresh) \cup Permutations(Exchange) \cup Permutations(Reset)
=============================================================================

------------------------------ MODULE MCTrade ------------------------------
(* Instances of Trade for TLC. *)
EXTENDS Trade, TLC

Symmetry == Permutations(Users) \cup Permutations(Requests) \cup Permutations(Schedulers)
=============================================================================

---------------------------- MODULE MCAcceptance ----------------------------
(* Instances of Acceptance for TLC. *)
EXTENDS Acceptance, TLC

Symmetry == Permutations(Users) \cup Permutations(Requests)
=============================================================================

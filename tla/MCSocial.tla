------------------------------ MODULE MCSocial ------------------------------
(* Instances of Social for TLC. *)
EXTENDS Social, TLC

Symmetry == Permutations(Requests) \cup Permutations(Gets)
=============================================================================

----------------------------- MODULE MCSeckill -----------------------------
(* Instances of Seckill for TLC. *)
EXTENDS Seckill, TLC

Symmetry == Permutations(Users) \cup Permutations(Consumers)
=============================================================================

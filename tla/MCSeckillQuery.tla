--------------------------- MODULE MCSeckillQuery ---------------------------
(* Instances of SeckillQuery for TLC. *)
EXTENDS SeckillQuery, TLC

Symmetry == Permutations(Consumers)
=============================================================================

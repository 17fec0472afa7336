---------------------------- MODULE SeckillSale ----------------------------
(***************************************************************************)
(* What the flash sale promises, without streams, locks or processes: a    *)
(* buyer is accepted, and is then sold a unit of the stock or told that    *)
(* the order failed.  A failed order may still be sold (a replay, a slow   *)
(* consumer), a sale is never undone.                                      *)
(***************************************************************************)
EXTENDS Naturals, FiniteSets

CONSTANTS Users, Stock

VARIABLES accepted, sold, failed

saleVars == <<accepted, sold, failed>>

Init == accepted = {} /\ sold = {} /\ failed = {}

Accept(u) == /\ u \notin accepted
             /\ accepted' = accepted \cup {u}
             /\ UNCHANGED <<sold, failed>>

Sell(u) == /\ u \in accepted \ sold
           /\ Cardinality(sold) < Stock
           /\ sold' = sold \cup {u}
           /\ UNCHANGED <<accepted, failed>>

Fail(u) == /\ u \in accepted \ failed
           /\ failed' = failed \cup {u}
           /\ UNCHANGED <<accepted, sold>>

Next == \E u \in Users : Accept(u) \/ Sell(u) \/ Fail(u)

Spec == Init /\ [][Next]_saleVars
=============================================================================

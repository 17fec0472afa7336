---------------------------- MODULE VoucherLife ----------------------------
(***************************************************************************)
(* The whole life of the orders of one seckill voucher, from the moment a  *)
(* buyer is given an order id to the redemption, or to the unit being back *)
(* on sale.  No module of the code holds all of it: Acceptance gives out   *)
(* the ids, Seckill turns them into rows, Trade moves the rows.  Each of   *)
(* the three is shown to implement it on its own part, so that they agree  *)
(* on what an order is where one hands it to the next.                     *)
(***************************************************************************)
EXTENDS Naturals, FiniteSets

CONSTANTS Users, Stock, None

VARIABLES order,   \* buyer -> the order id the buyer was given, None before
          life,    \* buyer -> what has become of that order
          loose    \* has an operator rewritten the stock of an open sale

lifeVars == <<order, life, loose>>

\* A waiting order has no row yet.  A returned one is cancelled, its unit on sale again.
Stages == {"none", "waiting", "unpaid", "paid", "used", "cancelled", "returned"}

\* The orders that keep a unit from being sold to others, and those that have a row.
Holding == {u \in Users : life[u] \notin {"none", "returned"}}
Placed  == {u \in Users : life[u] \in {"unpaid", "paid", "used"}}

Init == /\ order = [u \in Users |-> None]
        /\ life = [u \in Users |-> "none"]
        /\ loose = FALSE

\* A buyer is given an id nobody else has, while a unit is left.
Take(u) == /\ order[u] = None /\ order'[u] # None
           /\ order'[u] \notin {order[v] : v \in Users}
           /\ order' = [order EXCEPT ![u] = order'[u]]
           /\ life[u] = "none"
           /\ life' = [life EXCEPT ![u] = "waiting"]
           /\ loose \/ Cardinality(Holding) < Stock
           /\ UNCHANGED loose

\* Where an order goes from a stage.  The unit of a cancelled one comes back once.
Moves == {<<"waiting", "unpaid">>, <<"unpaid", "paid">>, <<"paid", "used">>,
          <<"unpaid", "cancelled">>, <<"cancelled", "returned">>}

\* An order moves on; it gets its row only while MySQL has a unit for it.  The buyer
\* keeps the id and has had the one order for good.
MoveOn(u) == /\ <<life[u], life'[u]>> \in Moves
             /\ life' = [life EXCEPT ![u] = life'[u]]
             /\ life[u] = "waiting" => Cardinality(Placed) < Stock
             /\ UNCHANGED <<order, loose>>

Loosen == /\ ~loose /\ loose' = TRUE
          /\ UNCHANGED <<order, life>>

Next == \/ \E u \in Users : Take(u) \/ MoveOn(u)
        \/ Loosen

Spec == Init /\ [][Next]_lifeVars
=============================================================================

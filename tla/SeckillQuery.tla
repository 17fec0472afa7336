---------------------------- MODULE SeckillQuery ----------------------------
(***************************************************************************)
(* The two ways a buyer asks what became of an order, beside the pipeline  *)
(* of Seckill: GET /voucher-order/{id} (queryOrderById) and                *)
(* GET /voucher-order/mine (listMyOrders).  Both read three places one     *)
(* after the other while a worker moves the order from place to place, and *)
(* the accept key has a TTL of its own.                                    *)
(***************************************************************************)
EXTENDS Seckill

VARIABLES
    query,      \* user -> the query under way and what it has found
    told,       \* user -> rank of the most final fate answered by id, 0 for none
    aged        \* ids whose accept key ran out (24 h)

qvars   == <<query, told, aged>>
allVars == <<vars, qvars>>

Kind   == {"byId", "mine"}
Fate   == {"SUCCESS", "FAILED", "PROCESSING"}
Query  == [kind : Kind, step : 0..4, found : SUBSET Fate]

Rank == [PROCESSING |-> 1, FAILED |-> 2, SUCCESS |-> 3]

NoQuery == [kind |-> "byId", step |-> 0, found |-> {}]

\* Fault for NeverTakenBack: the dead letters are asked before the rows.
DeadFirst(kind) ==
    IF kind = "byId" THEN <<"FAILED", "SUCCESS", "PROCESSING">>
                     ELSE <<"SUCCESS", "PROCESSING", "FAILED">>

\* The places in the order they are read, each named by the fate it stands for.
Places(kind) ==
    IF kind = "byId" THEN <<"SUCCESS", "FAILED", "PROCESSING">>
                     ELSE <<"SUCCESS", "PROCESSING", "FAILED">>

\* The accept key is there: written, not deleted, not run out.
HasKey(i) == i \in accepts /\ i \notin aged

\* Fault for MissedIsSettled: the list asks the accept key too.
HoldsByKey(kind, place, u) ==
    \/ place = "SUCCESS"    /\ \E r \in rows : r.id = idOf[u]
    \/ place = "FAILED"     /\ \E d \in dead : stream[d.e].id = idOf[u]
    \/ place = "PROCESSING" /\ HasKey(idOf[u])

\* Does the place hold the order of this buyer now?  By id, PROCESSING is the
\* accept key; in the list, the processing set.
Holds(kind, place, u) ==
    \/ place = "SUCCESS"    /\ \E r \in rows : r.id = idOf[u]
    \/ place = "FAILED"     /\ \E d \in dead : stream[d.e].id = idOf[u]
    \/ place = "PROCESSING" /\ IF kind = "byId" THEN HasKey(idOf[u])
                                                 ELSE idOf[u] \in hints

InitQ == Init /\ query = [u \in Users |-> NoQuery] /\ told = [u \in Users |-> 0] /\ aged = {}

\* A buyer who has an order id asks for it, or lists the orders.
Ask(u, kind) ==
    /\ idOf[u] # 0
    /\ query[u].step \in {0, 4}
    /\ query' = [query EXCEPT ![u] = [kind |-> kind, step |-> 1, found |-> {}]]
    /\ UNCHANGED <<vars, told, aged>>

\* The next place is read.  By id the first place that has the order answers; the
\* list goes on, leaving out what it has seen as a row.
Look(u) ==
    /\ query[u].step \in 1..3
    /\ LET q     == query[u]
           place == Places(q.kind)[q.step]
           here  == Holds(q.kind, place, u)
           last  == q.step = 3 \/ (here /\ (q.kind = "byId" \/ place = "SUCCESS"))
       IN  /\ query' = [query EXCEPT
                ![u].step  = IF last THEN 4 ELSE @ + 1,
                ![u].found = IF here THEN @ \cup {place} ELSE @]
           /\ told' = IF here /\ q.kind = "byId"
                         /\ Rank[place] > told[u]
                      THEN [told EXCEPT ![u] = Rank[place]] ELSE told
    /\ UNCHANGED <<vars, aged>>

\* The accept key's 24 h are over.  Seckill knows no TTL: there, the key stays
\* until it is deleted.
AcceptTtl(i) ==
    /\ HasKey(i)
    /\ aged' = aged \cup {i}
    /\ UNCHANGED <<vars, query, told>>

NextQ == \/ Next /\ UNCHANGED qvars
         \/ \E u \in Users : Look(u) \/ \E kind \in Kind : Ask(u, kind)
         \/ \E i \in accepts : AcceptTtl(i)

SpecQ == InitQ /\ [][NextQ]_allVars

----------------------------------------------------------------------------
(* Properties                                                              *)

\* The type invariant of the queries.
TypeOKQ == /\ query \in [Users -> Query]
           /\ told \in [Users -> 0..3]
           /\ aged \subseteq Nat

SettledOrder(u) == \E e \in Entries : stream[e].user = u /\ Settled(e)

\* "No such order" by id, and a list without the order, are only ever answered for
\* an order whose fate is already recorded: the worker passed the query between two
\* of its reads.  By id, an accept key that ran out is the other reason.
MissedIsSettled ==
    \A u \in Users :
        query[u].step = 4 /\ query[u].found = {} =>
            SettledOrder(u) \/ (query[u].kind = "byId" /\ idOf[u] \in aged)

\* Asked by id again and again, an order only moves forward: PROCESSING, FAILED,
\* SUCCESS.  A FAILED may still become SUCCESS (a replay), never the other way round,
\* although a row and a dead letter may both exist and the hints go last.
NeverTakenBack ==
    [][\A u \in Users :
         query[u].step # 4 /\ query'[u].step = 4 /\ query[u].kind = "byId"
             => \A fate \in query'[u].found : Rank[fate] >= told[u]]_allVars
=============================================================================

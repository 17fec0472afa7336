----------------------------- MODULE TradeProofs ----------------------------
(***************************************************************************)
(* The safety of the trade, for every number of orders, requests, JVMs and *)
(* faults: the types, the balance of the two stock counters, that the unit *)
(* of a cancelled order is not forgotten, that no answer given to a client *)
(* is taken back, and that the trade implements its part of VoucherLife.   *)
(***************************************************************************)
EXTENDS Trade, FiniteSetTheorems, TLAPS

\* A request that is under way is about an order.
TypeInv == TypeOK /\ \A p \in Requests : request[p].pc # "idle" => request[p].order \in Users

\* The rows and the events are finitely many.
LEMMA CountsAreNat ==
    ASSUME TypeOK
    PROVE  Cardinality(Rows) \in Nat /\ Cardinality(Events) \in Nat
<1>1. IsFiniteSet(Users) BY TradeAssumption
<1>2. Rows \subseteq Users /\ Events \subseteq Users BY DEF Rows, Events
<1> QED BY <1>1, <1>2, FS_Subset, FS_CardinalityType

----------------------------------------------------------------------------
(* What a step does to the stocks and the orders                           *)

\* A transaction on one order.
Transacts == /\ \E u \in Users : PayTx(u) \/ CancelTx(u) \/ RedeemTx(u)
             /\ UNCHANGED <<redisStock, accepted, released, created>>

\* The first outbox row of a thread's batch is marked.
Marks == /\ \E t \in Schedulers : /\ thread[t].pc = "mark"
                                  /\ \E u \in Next1(t, event) : outbox' = [outbox EXCEPT ![u] = "done"]
         /\ UNCHANGED <<redisStock, accepted, released, dbStock, status, event, audits, created>>

\* The release script runs for an order of a thread's batch.
Releases == /\ \E t \in Schedulers : thread[t].pc = "apply" /\ \E u \in thread[t].todo : Lua(u)
            /\ UNCHANGED <<accepted, dbVars, created>>

Nothing == UNCHANGED <<redisStock, accepted, released, dbVars, created>>

\* A request commits a transaction on its order or leaves the stores alone.
LEMMA HttpEffect ==
    ASSUME TypeInv, NEW p \in Requests, Http(p)
    PROVE  (Transacts \/ Nothing) /\ UNCHANGED <<redisStock, accepted, released, created, due, thread>>
<1>1. CASE Update(p)
  <2>1. request[p].order \in Users
    BY <1>1 DEF Update, TypeInv
  <2>2. (Tx(request[p].kind, request[p].order) \/ UNCHANGED dbVars)
        /\ UNCHANGED <<redisStock, accepted, released, created, due, thread>>
    BY <1>1 DEF Update
  <2> QED BY <2>1, <2>2 DEF Tx, Transacts, Nothing
<1>2. CASE ~Update(p)
  BY <1>2 DEF Http, Ask, Read, Reread, Abandon, Nothing
<1> QED BY <1>1, <1>2

\* A scheduling thread cancels, marks, releases, or leaves the stores alone.
LEMMA ScheduledEffect ==
    ASSUME TypeInv, NEW t \in Schedulers, Scheduled(t)
    PROVE  (Transacts \/ Marks \/ Releases \/ Nothing) /\ UNCHANGED <<accepted, created, due, request>>
<1>0. thread[t].todo \subseteq Users
  BY DEF TypeInv, TypeOK, Thread
<1>1. CASE CloseOne(t)
  <2>1. /\ \E u \in thread[t].todo : CancelTx(u) \/ UNCHANGED dbVars
        /\ UNCHANGED <<redisStock, accepted, released, created, due, request>>
    BY <1>1 DEF CloseOne, Next1
  <2> QED BY <1>0, <2>1 DEF Transacts, Nothing
<1>2. CASE Apply(t)
  <2>1. /\ \E u \in thread[t].todo : Lua(u) \/ UNCHANGED <<redisStock, released>>
        /\ UNCHANGED <<accepted, dbVars, created, due, request>>
    BY <1>2 DEF Apply, Next1
  <2> QED BY <1>2, <2>1 DEF Apply, Releases, Nothing
<1>3. CASE Mark(t)
  <2>1. /\ \E u \in Next1(t, event) : outbox' = [outbox EXCEPT ![u] = "done"] \/ UNCHANGED outbox
        /\ UNCHANGED <<redisStock, accepted, released, dbStock, status, event, audits, created,
                       due, request>>
    BY <1>3 DEF Mark
  <2> QED BY <1>3, <2>1 DEF Mark, Marks, Nothing, dbVars
<1>4. CASE CloseScan(t) \/ ReleaseScan(t) \/ Halt(t)
  BY <1>4 DEF CloseScan, ReleaseScan, Scanned, Halt, Nothing
<1> QED BY <1>1, <1>2, <1>3, <1>4 DEF Scheduled

\* Every step is one of these.
LEMMA StepEffect ==
    ASSUME TypeInv, [Next]_vars
    PROVE  \/ \E u \in Users : Accept(u) \/ Persist(u)
           \/ Transacts \/ Marks \/ Releases \/ Nothing
<1>1. CASE \E p \in Requests : Http(p)
  BY <1>1, HttpEffect
<1>2. CASE \E t \in Schedulers : Scheduled(t)
  BY <1>2, ScheduledEffect
<1>3. CASE BecomeDue \/ UNCHANGED vars
  BY <1>3 DEF BecomeDue, vars, Nothing, dbVars
<1> QED BY <1>1, <1>2, <1>3 DEF Next

----------------------------------------------------------------------------
(* Type correctness                                                        *)

\* The types hold at the start.
LEMMA TypeInit == Init => TypeInv
BY TradeAssumption DEF Init, TypeInv, TypeOK, NoRequest, Idle, Request, Thread, Status, Kinds

\* The types of what Transacts, Marks, Releases and Nothing write.
LEMMA EffectTyped ==
    ASSUME TypeInv, Transacts \/ Marks \/ Releases \/ Nothing
    PROVE  /\ redisStock' \in Nat
           /\ accepted' \subseteq Users
           /\ released' \subseteq Users
           /\ dbStock' \in Nat
           /\ status' \in [Users -> Status]
           /\ outbox' \in [Users -> {"none", "pending", "done"}]
           /\ event' \in [Users -> Nat]
           /\ audits' \subseteq Users
<1> USE DEF TypeInv, TypeOK
<1>1. CASE Transacts
  <2>1. Cardinality(Events) \in Nat
    BY CountsAreNat
  <2>2. PICK u \in Users : PayTx(u) \/ CancelTx(u) \/ RedeemTx(u)
    BY <1>1 DEF Transacts
  <2>3. UNCHANGED <<redisStock, accepted, released>>
    BY <1>1 DEF Transacts
  <2>4. CASE PayTx(u)
    BY <2>3, <2>4 DEF PayTx, Status
  <2>5. CASE CancelTx(u)
    BY <2>1, <2>3, <2>5 DEF CancelTx, Status
  <2>6. CASE RedeemTx(u)
    BY <2>3, <2>6 DEF RedeemTx, Status
  <2> QED BY <2>2, <2>4, <2>5, <2>6
<1>2. CASE Marks
  BY <1>2 DEF Marks
<1>3. CASE Releases
  <2>1. PICK t \in Schedulers : \E u \in thread[t].todo : Lua(u)
    BY <1>3 DEF Releases
  <2>2. thread[t].todo \subseteq Users
    BY DEF Thread
  <2> QED BY <1>3, <2>1, <2>2 DEF Releases, Lua, dbVars
<1>4. CASE Nothing
  BY <1>4 DEF Nothing, dbVars
<1> QED BY <1>1, <1>2, <1>3, <1>4

\* What a step makes of the request: another one, the others being left alone.
Becomes(p, r) == request' = [request EXCEPT ![p] = r]

Answer == {"none", "ok", "refused", "missing"}

LEMMA ReplyBecomes ==
    ASSUME TypeOK, NEW p \in Requests, NEW is \in Answer, Reply(p, is)
    PROVE  \E r \in Request : /\ Becomes(p, r)
                              /\ r.pc = "idle" /\ r.is = is
                              /\ r.kind = request[p].kind /\ r.order = request[p].order
<1>1. request \in [Requests -> Request] /\ request[p] \in Request
  BY DEF TypeOK
<1> DEFINE r == [request[p] EXCEPT !.pc = "idle", !.seen = "none", !.is = is]
<1>2. r \in Request /\ r.pc = "idle" /\ r.is = is
      /\ r.kind = request[p].kind /\ r.order = request[p].order
  BY <1>1 DEF Request, Status, Answer
<1>3. Becomes(p, r)
  BY <1>1 DEF Reply, Becomes, Request
<1> QED BY <1>2, <1>3

\* The step of a request, by what becomes of it.
LEMMA RequestMoves ==
    ASSUME TypeInv, NEW p \in Requests, Http(p)
    PROVE  \E r \in Request :
             /\ Becomes(p, r)
             /\ \/ r.is = "none" /\ (r.pc = "idle" \/ r.order \in Users)
                                 /\ r.pc \in {"idle", "read"}
                \/ /\ r.kind = request[p].kind /\ r.order = request[p].order
                   /\ request[p].pc # "idle"
                   /\ \/ r.is = request[p].is /\ Read(p) /\ r.pc = "update"
                                /\ status[r.order] = From(r.kind) /\ r.seen = From(r.kind)
                      \/ r.is = request[p].is /\ Update(p) /\ r.pc = "reread"
                                /\ status[r.order] # From(r.kind) /\ r.seen = request[p].seen
                                /\ UNCHANGED dbVars
                      \/ r.pc = "idle" /\ Read(p) /\ r.is = "missing"
                      \/ r.pc = "idle" /\ Read(p) /\ r.is = "ok" /\ status[r.order] = To(r.kind)
                      \/ r.pc = "idle" /\ Read(p) /\ r.is = "refused"
                                /\ status[r.order] \notin {From(r.kind), To(r.kind), "none"}
                      \/ r.pc = "idle" /\ Update(p) /\ r.is = "ok" /\ Tx(r.kind, r.order)
                      \/ r.pc = "idle" /\ Reread(p)
                                /\ r.is = IF (IF r.kind = "redeem" THEN request[p].seen
                                              ELSE status[r.order]) = To(r.kind)
                                          THEN "ok" ELSE "refused"
<1> USE DEF Becomes
<1>0. request \in [Requests -> Request] /\ request[p] \in Request
      /\ (request[p].pc # "idle" => request[p].order \in Users)
  BY DEF TypeInv, TypeOK
<1>1. CASE \E kind \in Kinds, u \in Users : Ask(p, kind, u)
  <2>1. PICK kind \in Kinds, u \in Users : Ask(p, kind, u)
    BY <1>1
  <2> DEFINE r == [pc |-> "read", kind |-> kind, order |-> u, seen |-> "none", is |-> "none"]
  <2>2. r \in Request
    BY DEF Request, Status
  <2>3. Becomes(p, r)
    BY <2>1 DEF Ask
  <2> QED BY <2>2, <2>3
<1>2. CASE Abandon(p) \/ (Update(p) /\ Becomes(p, NoRequest))
  <2>1. NoRequest \in Request /\ NoRequest.pc = "idle" /\ NoRequest.is = "none"
    BY DEF NoRequest, Request, Kinds, Status
  <2> QED BY <1>2, <2>1 DEF Abandon
<1>3. CASE Read(p)
  <2> DEFINE kind == request[p].kind
             now  == status[request[p].order]
  <2>0. request[p].pc = "read"
    BY <1>3 DEF Read
  <2>1. CASE now = From(kind) /\ request' = [request EXCEPT ![p].pc = "update", ![p].seen = now]
    <3> DEFINE r == [request[p] EXCEPT !.pc = "update", !.seen = now]
    <3>1. now \in Status
      BY <1>0, <2>0 DEF TypeInv, TypeOK
    <3>2. r \in Request /\ r.pc = "update" /\ r.seen = now /\ r.is = request[p].is
          /\ r.kind = request[p].kind /\ r.order = request[p].order
      BY <1>0, <3>1 DEF Request
    <3>3. Becomes(p, r)
      BY <1>0, <2>1 DEF Request
    <3> QED BY <1>3, <2>0, <2>1, <3>2, <3>3
  <2>2. CASE now = "none" /\ Reply(p, "missing")
    BY <1>3, <2>0, <2>2, ReplyBecomes DEF TypeInv, Answer
  <2>3. CASE now = To(kind) /\ Reply(p, "ok")
    BY <1>3, <2>0, <2>3, ReplyBecomes DEF TypeInv, Answer
  <2>4. CASE now \notin {From(kind), To(kind), "none"} /\ Reply(p, "refused")
    BY <1>3, <2>0, <2>4, ReplyBecomes DEF TypeInv, Answer
  <2> QED BY <1>3, <2>1, <2>2, <2>3, <2>4 DEF Read
<1>4. CASE Update(p) /\ ~Becomes(p, NoRequest)
  <2> DEFINE kind == request[p].kind
             u    == request[p].order
  <2>0. request[p].pc = "update"
    BY <1>4 DEF Update
  <2>1. CASE Tx(kind, u) /\ Reply(p, "ok")
    BY <1>4, <2>0, <2>1, ReplyBecomes DEF TypeInv, Answer
  <2>2. CASE status[u] # From(kind) /\ request' = [request EXCEPT ![p].pc = "reread"]
             /\ UNCHANGED dbVars
    <3> DEFINE r == [request[p] EXCEPT !.pc = "reread"]
    <3>1. r \in Request /\ r.pc = "reread" /\ r.seen = request[p].seen /\ r.is = request[p].is
          /\ r.kind = request[p].kind /\ r.order = request[p].order
      BY <1>0 DEF Request
    <3>2. Becomes(p, r)
      BY <1>0, <2>2 DEF Request
    <3> QED BY <1>4, <2>0, <2>2, <3>1, <3>2
  <2> QED BY <1>4, <2>1, <2>2 DEF Update
<1>5. CASE Reread(p)
  <2> DEFINE now == IF request[p].kind = "redeem" THEN request[p].seen
                    ELSE status[request[p].order]
             is  == IF now = To(request[p].kind) THEN "ok" ELSE "refused"
  <2>1. request[p].pc = "reread" /\ Reply(p, is)
    BY <1>5 DEF Reread
  <2>2. is \in Answer
    BY DEF Answer
  <2> HIDE DEF is
  <2>3. PICK r \in Request : /\ Becomes(p, r)
                             /\ r.pc = "idle" /\ r.is = is
                             /\ r.kind = request[p].kind /\ r.order = request[p].order
    BY <2>1, <2>2, ReplyBecomes DEF TypeInv
  <2> QED BY <1>5, <2>1, <2>3 DEF is
<1> QED BY <1>1, <1>2, <1>3, <1>4, <1>5 DEF Http

\* A scheduling thread keeps what is left of its batch, or scans another, or stops.
LEMMA ThreadMoves ==
    ASSUME TypeInv, NEW t \in Schedulers, Scheduled(t)
    PROVE  \E th \in Thread :
             /\ thread' = [thread EXCEPT ![t] = th]
             /\ \/ th.pc \in {"idle", "close"}
                \/ th.pc = "apply" /\ th.todo \subseteq Events
                \/ thread[t].pc \in {"apply", "mark"} /\ th.todo \subseteq thread[t].todo
<1>0. thread \in [Schedulers -> Thread] /\ thread[t] \in Thread
  BY DEF TypeInv, TypeOK
<1>1. Idle \in Thread /\ Idle.pc = "idle"
  BY DEF Idle, Thread
<1>2. ASSUME NEW label \in {"close", "apply"}, NEW batch, batch \subseteq Users,
             Scanned(t, label, batch)
      PROVE  \E th \in Thread : /\ thread' = [thread EXCEPT ![t] = th]
                                /\ th.pc = label /\ th.todo = batch
  <2> DEFINE th == [pc |-> label, todo |-> batch]
  <2>1. th \in Thread
    BY <1>2 DEF Thread
  <2> QED BY <1>2, <2>1 DEF Scanned
<1>3. ASSUME NEW label \in {"close", "apply"}, NEW u, GoOn(t, label, u)
      PROVE  \E th \in Thread : /\ thread' = [thread EXCEPT ![t] = th]
                                /\ th.pc \in {"idle", label} /\ th.todo \subseteq thread[t].todo
  <2> DEFINE rest == thread[t].todo \ {u}
             th   == IF rest = {} THEN Idle ELSE [pc |-> label, todo |-> rest]
  <2>1. th \in Thread /\ th.pc \in {"idle", label} /\ th.todo \subseteq thread[t].todo
    BY <1>0, <1>1 DEF Thread, Idle
  <2>2. thread' = [thread EXCEPT ![t] = th]
    BY <1>3 DEF GoOn
  <2> QED BY <2>1, <2>2
<1>4. CASE CloseScan(t)
  <2>1. Oldest(TimeoutBatch, Overdue, created) \subseteq Users
    BY DEF Oldest, Overdue, Rows
  <2> QED BY <1>2, <1>4, <2>1 DEF CloseScan
<1>5. CASE ReleaseScan(t)
  <2>1. Oldest(OutboxBatch, {u \in Events : outbox[u] = "pending"}, event) \subseteq Events
        /\ Events \subseteq Users
    BY DEF Oldest, Events
  <2> QED BY <1>2, <1>5, <2>1 DEF ReleaseScan
<1>6. CASE CloseOne(t)
  <2>1. \E u : GoOn(t, "close", u)
    BY <1>6 DEF CloseOne
  <2> QED BY <1>3, <2>1
<1>7. CASE Apply(t)
  <2>1. thread[t].pc = "apply"
        /\ (thread' = [thread EXCEPT ![t].pc = "mark"] \/ \E u : GoOn(t, "apply", u))
    BY <1>7 DEF Apply
  <2>2. CASE thread' = [thread EXCEPT ![t].pc = "mark"]
    <3> DEFINE th == [thread[t] EXCEPT !.pc = "mark"]
    <3>1. th \in Thread /\ th.todo = thread[t].todo
      BY <1>0 DEF Thread
    <3>2. thread' = [thread EXCEPT ![t] = th]
      BY <1>0, <2>2 DEF Thread
    <3> QED BY <2>1, <3>1, <3>2
  <2> QED BY <1>3, <2>1, <2>2
<1>8. CASE Mark(t)
  <2>1. thread[t].pc = "mark" /\ \E u : GoOn(t, "apply", u)
    BY <1>8 DEF Mark
  <2> QED BY <1>3, <2>1
<1>9. CASE Halt(t)
  BY <1>1, <1>9 DEF Halt
<1> QED BY <1>4, <1>5, <1>6, <1>7, <1>8, <1>9 DEF Scheduled

\* Every step keeps the types.
LEMMA TypeStep == TypeInv /\ [Next]_vars => TypeInv'
<1> SUFFICES ASSUME TypeInv, [Next]_vars PROVE TypeInv'
  OBVIOUS
<1> USE DEF TypeInv
<1>1. CASE \E p \in Requests : Http(p)
  <2>1. PICK p \in Requests : Http(p)
    BY <1>1
  <2>2. PICK r \in Request : Becomes(p, r) /\ (r.pc # "idle" => r.order \in Users)
    BY <2>1, RequestMoves
  <2>3. request' \in [Requests -> Request]
        /\ \A q \in Requests : request'[q].pc # "idle" => request'[q].order \in Users
    BY <2>2 DEF TypeOK, Becomes
  <2>4. (Transacts \/ Nothing) /\ UNCHANGED <<created, due, thread>>
    BY <2>1, HttpEffect
  <2>5. faults' \in Nat
    BY <2>1 DEF TypeOK, Http, Ask, Read, Update, Reread, Abandon, Fault
  <2>6. /\ redisStock' \in Nat
        /\ accepted' \subseteq Users
        /\ released' \subseteq Users
        /\ dbStock' \in Nat
        /\ status' \in [Users -> Status]
        /\ outbox' \in [Users -> {"none", "pending", "done"}]
        /\ event' \in [Users -> Nat]
        /\ audits' \subseteq Users
    BY <2>4, EffectTyped
  <2> QED BY <2>3, <2>4, <2>5, <2>6 DEF TypeOK
<1>2. CASE \E t \in Schedulers : Scheduled(t)
  <2>1. PICK t \in Schedulers : Scheduled(t)
    BY <1>2
  <2>2. (Transacts \/ Marks \/ Releases \/ Nothing) /\ UNCHANGED <<accepted, created, due, request>>
    BY <2>1, ScheduledEffect
  <2>3. /\ redisStock' \in Nat
        /\ accepted' \subseteq Users
        /\ released' \subseteq Users
        /\ dbStock' \in Nat
        /\ status' \in [Users -> Status]
        /\ outbox' \in [Users -> {"none", "pending", "done"}]
        /\ event' \in [Users -> Nat]
        /\ audits' \subseteq Users
    BY <2>2, EffectTyped
  <2>4. faults' \in Nat
    BY <2>1 DEF TypeOK, Scheduled, CloseScan, ReleaseScan, Scanned, CloseOne, Apply, Mark, Halt, Fault
  <2>5. PICK th \in Thread : thread' = [thread EXCEPT ![t] = th]
    BY <2>1, ThreadMoves
  <2> QED BY <2>2, <2>3, <2>4, <2>5 DEF TypeOK
<1>3. CASE \E u \in Users : Accept(u) \/ Persist(u)
  <2>1. PICK u \in Users : Accept(u) \/ Persist(u)
    BY <1>3
  <2>2. CASE Accept(u)
    BY <2>2 DEF TypeOK, Accept, dbVars
  <2>3. CASE Persist(u)
    <3>1. Cardinality(Rows) \in Nat
      BY CountsAreNat
    <3> QED BY <2>3, <3>1 DEF TypeOK, Persist, Status
  <2> QED BY <2>1, <2>2, <2>3
<1>4. CASE BecomeDue \/ UNCHANGED vars
  BY <1>4 DEF TypeOK, BecomeDue, vars, dbVars
<1> QED BY <1>1, <1>2, <1>3, <1>4 DEF Next

\* Every variable keeps its type: neither stock counter goes below zero.
THEOREM TypeCorrect == Spec => []TypeOK
<1>1. TypeInv => TypeOK
  BY DEF TypeInv
<1> QED BY <1>1, TypeInit, TypeStep, PTL DEF Spec

----------------------------------------------------------------------------
(***************************************************************************)
(* The balance.  A unit is counted once because a row belongs to an        *)
(* accepted buyer, an event to a cancelled order, and only the events of   *)
(* cancelled orders are released.                                          *)
(***************************************************************************)
InStep == /\ Rows \subseteq accepted
          /\ Events \subseteq Cancelled
          /\ released \subseteq Cancelled
          /\ \A t \in Schedulers : thread[t].pc \in {"apply", "mark"} => thread[t].todo \subseteq Cancelled

BalanceInv == TypeInv /\ InStep /\ StockBalance

\* Nothing is sold at the start.
LEMMA BalanceInit == Init => BalanceInv
<1> SUFFICES ASSUME Init PROVE BalanceInv
  OBVIOUS
<1>1. Rows = {} /\ Events = {} /\ Cancelled = {}
  BY DEF Init, Rows, Events, Cancelled
<1>2. InStep
  BY <1>1 DEF Init, InStep, Idle
<1>3. StockBalance
  BY <1>1, FS_EmptySet, TradeAssumption DEF Init, StockBalance
<1> QED BY <1>2, <1>3, TypeInit DEF BalanceInv

\* The sets of orders, after each kind of step.
LEMMA SetsMove ==
    ASSUME TypeInv, InStep
    PROVE  /\ \A u \in Users : Persist(u) => /\ Rows' = Rows \cup {u} /\ u \notin Rows
                                             /\ Cancelled' = Cancelled /\ Events' = Events
           /\ \A u \in Users : PayTx(u) \/ RedeemTx(u) =>
                                /\ Rows' = Rows /\ Cancelled' = Cancelled /\ Events' = Events
           /\ \A u \in Users : CancelTx(u) =>
                                /\ Rows' = Rows /\ Cancelled' = Cancelled \cup {u}
                                /\ u \in Rows \ Cancelled
                                /\ Events' = Events \cup {u}
           /\ Marks => Rows' = Rows /\ Cancelled' = Cancelled
<1> USE DEF TypeInv, TypeOK, Rows, Cancelled, Events
<1>1. ASSUME NEW u \in Users, Persist(u)
      PROVE  /\ Rows' = Rows \cup {u} /\ u \notin Rows
             /\ Cancelled' = Cancelled /\ Events' = Events
  BY <1>1 DEF Persist
<1>2. ASSUME NEW u \in Users, PayTx(u)
      PROVE  Rows' = Rows /\ Cancelled' = Cancelled /\ Events' = Events
  BY <1>2 DEF PayTx
<1>3. ASSUME NEW u \in Users, RedeemTx(u)
      PROVE  Rows' = Rows /\ Cancelled' = Cancelled /\ Events' = Events
  BY <1>3 DEF RedeemTx
<1>4. ASSUME NEW u \in Users, CancelTx(u)
      PROVE  /\ Rows' = Rows /\ Cancelled' = Cancelled \cup {u}
             /\ u \in Rows \ Cancelled
             /\ Events' = Events \cup {u}
  BY <1>4 DEF CancelTx
<1>5. Marks => Rows' = Rows /\ Cancelled' = Cancelled
  BY DEF Marks
<1> QED BY <1>1, <1>2, <1>3, <1>4, <1>5

\* A cancelled order stays so.
LEMMA CancelledStays ==
    ASSUME TypeInv, InStep, [Next]_vars
    PROVE  Cancelled \subseteq Cancelled'
<1>1. CASE Transacts
  BY <1>1, SetsMove DEF Transacts
<1>2. CASE Marks
  BY <1>2, SetsMove
<1>3. CASE Releases \/ Nothing
  BY <1>3 DEF Releases, Nothing, dbVars, Cancelled
<1>4. CASE \E u \in Users : Accept(u)
  BY <1>4 DEF Accept, dbVars, Cancelled
<1>5. CASE \E u \in Users : Persist(u)
  BY <1>5, SetsMove
<1> QED BY <1>1, <1>2, <1>3, <1>4, <1>5, StepEffect

\* The batch of a thread that releases stays within the cancelled orders.
LEMMA BatchStep ==
    ASSUME TypeInv, InStep, [Next]_vars
    PROVE  \A t \in Schedulers : thread'[t].pc \in {"apply", "mark"} => thread'[t].todo \subseteq Cancelled
<1>1. CASE \E t \in Schedulers : Scheduled(t)
  <2>1. PICK t \in Schedulers : Scheduled(t)
    BY <1>1
  <2>2. PICK th \in Thread :
             /\ thread' = [thread EXCEPT ![t] = th]
             /\ \/ th.pc \in {"idle", "close"}
                \/ th.pc = "apply" /\ th.todo \subseteq Events
                \/ thread[t].pc \in {"apply", "mark"} /\ th.todo \subseteq thread[t].todo
    BY <2>1, ThreadMoves
  <2>3. th.pc \in {"apply", "mark"} => th.todo \subseteq Cancelled
    BY <2>2 DEF InStep
  <2> QED BY <2>2, <2>3 DEF InStep, TypeInv, TypeOK
<1>2. CASE thread' = thread
  BY <1>2 DEF InStep
<1>3. thread' = thread \/ \E t \in Schedulers : Scheduled(t)
  BY HttpEffect DEF Next, Accept, Persist, BecomeDue, vars
<1> QED BY <1>1, <1>2, <1>3

\* Every step keeps rows, events and releases in step with each other.
LEMMA InStepStep == TypeInv /\ InStep /\ [Next]_vars => InStep'
<1> SUFFICES ASSUME TypeInv, InStep, [Next]_vars PROVE InStep'
  OBVIOUS
<1>1. \A t \in Schedulers : thread'[t].pc \in {"apply", "mark"} => thread'[t].todo \subseteq Cancelled'
  BY BatchStep, CancelledStays
<1>2. Rows' \subseteq accepted' /\ Events' \subseteq Cancelled' /\ released' \subseteq Cancelled'
  <2>1. CASE Transacts
    BY <2>1, SetsMove DEF Transacts, InStep
  <2>2. CASE Marks
    <3>1. PICK t \in Schedulers :
             thread[t].pc = "mark" /\ \E u \in thread[t].todo : outbox' = [outbox EXCEPT ![u] = "done"]
      BY <2>2 DEF Marks, Next1
    <3>2. Rows' = Rows /\ Cancelled' = Cancelled /\ UNCHANGED <<accepted, released>>
      BY <2>2, SetsMove DEF Marks
    <3>3. Events' \subseteq Events \cup thread[t].todo
      BY <3>1 DEF Events, TypeInv, TypeOK
    <3> QED BY <3>1, <3>2, <3>3 DEF InStep
  <2>3. CASE Releases
    <3>1. PICK t \in Schedulers : thread[t].pc = "apply" /\ \E u \in thread[t].todo : Lua(u)
      BY <2>3 DEF Releases
    <3>2. released' \subseteq Cancelled
      BY <3>1 DEF Lua, InStep
    <3>3. Rows' = Rows /\ Cancelled' = Cancelled /\ Events' = Events /\ accepted' = accepted
      BY <2>3 DEF Releases, dbVars, Rows, Cancelled, Events
    <3> QED BY <3>2, <3>3 DEF InStep
  <2>4. CASE Nothing
    BY <2>4 DEF Nothing, dbVars, Rows, Cancelled, Events, InStep
  <2>5. CASE \E u \in Users : Accept(u)
    BY <2>5 DEF Accept, dbVars, Rows, Cancelled, Events, InStep
  <2>6. CASE \E u \in Users : Persist(u)
    BY <2>6, SetsMove DEF Persist, InStep
  <2> QED BY <2>1, <2>2, <2>3, <2>4, <2>5, <2>6, StepEffect
<1> QED BY <1>1, <1>2 DEF InStep

\* A unit moves from one place to another, or not at all.
LEMMA BalanceStep == TypeInv /\ InStep /\ StockBalance /\ [Next]_vars => StockBalance'
<1> SUFFICES ASSUME TypeInv, InStep, StockBalance, [Next]_vars PROVE StockBalance'
  OBVIOUS
<1> DEFINE A == accepted \ Rows
           B == Cancelled \ released
           C == Rows \ Cancelled
<1>0. IsFiniteSet(A) /\ IsFiniteSet(B) /\ IsFiniteSet(C)
  <2>1. A \subseteq Users /\ B \subseteq Users /\ C \subseteq Users
    BY DEF TypeInv, TypeOK, Rows, Cancelled
  <2> QED BY <2>1, FS_Subset, TradeAssumption
<1>a. Cardinality(A) \in Nat /\ Cardinality(B) \in Nat /\ Cardinality(C) \in Nat
  BY <1>0, FS_CardinalityType
<1>b. redisStock \in Nat /\ dbStock \in Nat /\ Stock \in Nat
  BY TradeAssumption DEF TypeInv, TypeOK
<1>c. redisStock + Cardinality(A) + Cardinality(B) = dbStock /\ dbStock + Cardinality(C) = Stock
  BY DEF StockBalance
<1>n. PICK a \in Nat, b \in Nat, c \in Nat :
        /\ Cardinality(A) = a /\ Cardinality(B) = b /\ Cardinality(C) = c
        /\ redisStock + a + b = dbStock /\ dbStock + c = Stock
  BY <1>a, <1>c
<1>s. ASSUME NEW a1, NEW b1, NEW c1, NEW r1, NEW d1,
             Cardinality(A') = a1, Cardinality(B') = b1, Cardinality(C') = c1,
             redisStock' = r1, dbStock' = d1, r1 + a1 + b1 = d1, d1 + c1 = Stock
      PROVE  StockBalance'
  BY <1>s, Zenon DEF StockBalance
<1>d. ASSUME A' = A, B' = B, C' = C, UNCHANGED <<redisStock, dbStock>>
      PROVE  StockBalance'
  BY <1>c, <1>d DEF StockBalance
<1>1. ASSUME NEW u \in Users, Accept(u) PROVE StockBalance'
  <2>1. u \notin A /\ A' = A \cup {u} /\ B' = B /\ C' = C
    BY <1>1 DEF Accept, dbVars, Rows, Cancelled, InStep
  <2>2. redisStock' = redisStock - 1 /\ dbStock' = dbStock
    BY <1>1 DEF Accept, dbVars
  <2>3. Cardinality(A') = a + 1 /\ Cardinality(B') = b /\ Cardinality(C') = c
    BY <1>0, <1>n, <2>1, FS_AddElement
  <2>4. (redisStock - 1) + (a + 1) + b = dbStock
    BY <1>b, <1>n
  <2> QED BY <1>n, <1>s, <2>2, <2>3, <2>4
<1>2. ASSUME NEW u \in Users, Persist(u) PROVE StockBalance'
  <2>1. u \in A /\ A' = A \ {u} /\ B' = B /\ u \notin C /\ C' = C \cup {u}
    <3>1. u \in accepted /\ UNCHANGED <<accepted, released>>
      BY <1>2 DEF Persist
    <3>2. u \notin Cancelled
      BY <1>2 DEF Persist, Cancelled
    <3> QED BY <1>2, <3>1, <3>2, SetsMove
  <2>2. redisStock' = redisStock /\ dbStock' = dbStock - 1
    BY <1>2 DEF Persist
  <2>3. Cardinality(A') = a - 1 /\ Cardinality(B') = b /\ Cardinality(C') = c + 1
    <3>1. Cardinality(A \ {u}) = Cardinality(A) - 1
      BY <1>0, <2>1, FS_RemoveElement
    <3>2. Cardinality(C \cup {u}) = Cardinality(C) + 1
      BY <1>0, <2>1, FS_AddElement
    <3> QED BY <1>n, <2>1, <3>1, <3>2
  <2>4. redisStock + (a - 1) + b = dbStock - 1 /\ (dbStock - 1) + (c + 1) = Stock
    BY <1>b, <1>n
  <2> QED BY <1>n, <1>s, <2>2, <2>3, <2>4
<1>3. CASE Transacts
  <2>1. PICK u \in Users : PayTx(u) \/ CancelTx(u) \/ RedeemTx(u)
    BY <1>3 DEF Transacts
  <2>2. UNCHANGED <<redisStock, accepted, released>>
    BY <1>3 DEF Transacts
  <2>3. CASE PayTx(u) \/ RedeemTx(u)
    <3>1. Rows' = Rows /\ Cancelled' = Cancelled
      BY <2>3, SetsMove
    <3>2. dbStock' = dbStock
      BY <2>3 DEF PayTx, RedeemTx
    <3> QED BY <1>d, <2>2, <3>1, <3>2
  <2>4. CASE CancelTx(u)
    <3>1. A' = A /\ u \notin B /\ B' = B \cup {u} /\ u \in C /\ C' = C \ {u}
      BY <2>2, <2>4, SetsMove DEF InStep
    <3>2. dbStock' = dbStock + 1
      BY <2>4 DEF CancelTx
    <3>3. Cardinality(A') = a /\ Cardinality(B') = b + 1 /\ Cardinality(C') = c - 1
      <4>1. Cardinality(B \cup {u}) = Cardinality(B) + 1
        BY <1>0, <3>1, FS_AddElement
      <4>2. Cardinality(C \ {u}) = Cardinality(C) - 1
        BY <1>0, <3>1, FS_RemoveElement
      <4> QED BY <1>n, <3>1, <4>1, <4>2
    <3>4. redisStock + a + (b + 1) = dbStock + 1 /\ (dbStock + 1) + (c - 1) = Stock
      BY <1>b, <1>n
    <3> QED BY <1>n, <1>s, <2>2, <3>2, <3>3, <3>4
  <2> QED BY <2>1, <2>3, <2>4
<1>4. CASE Marks
  <2>1. Rows' = Rows /\ Cancelled' = Cancelled
    BY <1>4, SetsMove
  <2> QED BY <1>4, <1>d, <2>1 DEF Marks
<1>5. CASE Releases
  <2>1. PICK t \in Schedulers : thread[t].pc = "apply" /\ \E u \in thread[t].todo : Lua(u)
    BY <1>5 DEF Releases
  <2>2. PICK u \in thread[t].todo : Lua(u)
    BY <2>1
  <2>3. u \in Cancelled
    BY <2>1 DEF InStep
  <2>4. Rows' = Rows /\ Cancelled' = Cancelled /\ UNCHANGED <<accepted, dbStock>>
    BY <1>5 DEF Releases, dbVars, Rows, Cancelled
  <2>5. CASE u \in released
    BY <1>d, <2>2, <2>4, <2>5 DEF Lua
  <2>6. CASE u \notin released
    <3>1. A' = A /\ C' = C /\ u \in B /\ B' = B \ {u}
      BY <2>2, <2>3, <2>4, <2>6 DEF Lua
    <3>2. redisStock' = redisStock + 1 /\ dbStock' = dbStock
      BY <2>2, <2>4, <2>6 DEF Lua
    <3>3. Cardinality(A') = a /\ Cardinality(B') = b - 1 /\ Cardinality(C') = c
      <4>1. Cardinality(B \ {u}) = Cardinality(B) - 1
        BY <1>0, <3>1, FS_RemoveElement
      <4> QED BY <1>n, <3>1, <4>1
    <3>4. (redisStock + 1) + a + (b - 1) = dbStock
      BY <1>b, <1>n
    <3> QED BY <1>b, <1>n, <1>s, <3>2, <3>3, <3>4
  <2> QED BY <2>5, <2>6
<1>6. CASE Nothing
  BY <1>6, <1>d DEF Nothing, dbVars, Rows, Cancelled
<1> QED BY <1>1, <1>2, <1>3, <1>4, <1>5, <1>6, StepEffect

LEMMA BalanceAlways == Spec => []BalanceInv
<1>1. BalanceInv /\ [Next]_vars => BalanceInv'
  BY TypeStep, InStepStep, BalanceStep DEF BalanceInv
<1> QED BY <1>1, BalanceInit, PTL DEF Spec

\* Every unit is on sale, on its way to a row, held, or on its way back, in both
\* stores, whatever the workers of the outbox repeat or leave undone.
THEOREM StockBalanceCorrect == Spec => []StockBalance
<1>1. BalanceInv => StockBalance
  BY DEF BalanceInv
<1> QED BY <1>1, BalanceAlways, PTL

----------------------------------------------------------------------------
(***************************************************************************)
(* What is owed to Redis.  A thread marks the event it has just applied,   *)
(* and no other, because ids of events are never given twice: the event    *)
(* with the smallest id of a batch is one event.                           *)
(***************************************************************************)
Ranked ==
    /\ \A u \in Events : event[u] <= Cardinality(Events)
    /\ \A u, v \in Events : event[u] = event[v] => u = v

\* The script ran for the event that a thread is about to mark.
ScriptRan(t) == thread[t].pc = "mark" => Next1(t, event) \subseteq released

OwedInv == /\ Cancelled \subseteq Events
           /\ Ranked
           /\ \A t \in Schedulers : ScriptRan(t)
           /\ NoneForgotten

\* The event a batch begins with is the only one.
LEMMA FirstOfBatch ==
    ASSUME BalanceInv, OwedInv, NEW t \in Schedulers, thread[t].pc \in {"apply", "mark"},
           NEW u \in Next1(t, event)
    PROVE  u \in Cancelled /\ \A v \in Next1(t, event) : v = u
<1>1. thread[t].todo \subseteq Events /\ thread[t].todo \subseteq Cancelled
  BY DEF BalanceInv, InStep, OwedInv
<1>2. \A v \in Events : event[v] \in Nat
  BY DEF BalanceInv, TypeInv, TypeOK, Events
<1>3. \A v \in Next1(t, event) : event[v] = event[u]
  BY <1>1, <1>2 DEF Next1
<1> QED BY <1>1, <1>3 DEF Next1, Ranked, OwedInv

\* The ids of the events, and what becomes of the rows of the outbox.
LEMMA OutboxMoves ==
    ASSUME BalanceInv, OwedInv, [Next]_vars
    PROVE  /\ Cancelled' \subseteq Events'
           /\ Ranked'
           /\ NoneForgotten'
           /\ released \subseteq released'
           /\ \A u \in Cancelled : event'[u] = event[u]
<1>0. /\ TypeInv /\ InStep /\ Cancelled \subseteq Users
      /\ outbox \in [Users -> {"none", "pending", "done"}] /\ event \in [Users -> Nat]
  BY DEF BalanceInv, TypeInv, TypeOK, Cancelled
<1>s. ASSUME Events' = Events, Cancelled' = Cancelled, event' = event,
             released \subseteq released', NoneForgotten'
      PROVE  /\ Cancelled' \subseteq Events'
             /\ Ranked'
             /\ NoneForgotten'
             /\ released \subseteq released'
             /\ \A u \in Cancelled : event'[u] = event[u]
  BY <1>s DEF OwedInv, Ranked
<1>1. ASSUME NEW u \in Users, CancelTx(u), UNCHANGED released
      PROVE  /\ Cancelled' \subseteq Events'
             /\ Ranked'
             /\ NoneForgotten'
             /\ \A v \in Cancelled : event'[v] = event[v]
  <2>1. /\ Cancelled' = Cancelled \cup {u} /\ u \notin Cancelled /\ Events' = Events \cup {u}
        /\ u \notin Events
    BY <1>0, <1>1, SetsMove DEF InStep
  <2>2. /\ event'[u] = Cardinality(Events) + 1 /\ outbox'[u] = "pending"
        /\ \A v \in Users \ {u} : event'[v] = event[v] /\ outbox'[v] = outbox[v]
    BY <1>0, <1>1 DEF CancelTx
  <2>3. IsFiniteSet(Events) /\ Cardinality(Events) \in Nat
    BY FS_Subset, FS_CardinalityType, TradeAssumption DEF Events
  <2>4. Cardinality(Events') = Cardinality(Events) + 1
    BY <2>1, <2>3, FS_AddElement
  <2>5. \A v \in Events : v # u /\ event'[v] = event[v] /\ event[v] \in Nat
                          /\ event[v] <= Cardinality(Events)
    BY <1>0, <2>1, <2>2 DEF OwedInv, Ranked, Events
  <2>6. Ranked'
    <3>1. \A v \in Events' : event'[v] <= Cardinality(Events')
      BY <2>1, <2>2, <2>3, <2>4, <2>5
    <3>2. \A v \in Events : event'[v] # event'[u]
      BY <2>2, <2>3, <2>5
    <3>3. \A v, w \in Events' : event'[v] = event'[w] => v = w
      BY <2>1, <2>5, <3>2 DEF OwedInv, Ranked
    <3> QED BY <3>1, <3>3 DEF Ranked
  <2>7. NoneForgotten'
    BY <1>0, <1>1, <2>1, <2>2 DEF OwedInv, NoneForgotten
  <2> QED BY <1>0, <2>1, <2>2, <2>6, <2>7 DEF OwedInv
<1>2. CASE Transacts
  <2>1. PICK u \in Users : PayTx(u) \/ CancelTx(u) \/ RedeemTx(u)
    BY <1>2 DEF Transacts
  <2>2. released' = released
    BY <1>2 DEF Transacts
  <2>3. CASE PayTx(u) \/ RedeemTx(u)
    <3>1. Cancelled' = Cancelled /\ Events' = Events /\ UNCHANGED <<outbox, event>>
      BY <1>0, <2>3, SetsMove DEF PayTx, RedeemTx
    <3>2. NoneForgotten'
      BY <2>2, <3>1 DEF OwedInv, NoneForgotten
    <3> QED BY <1>s, <2>2, <3>1, <3>2
  <2> QED BY <1>1, <2>1, <2>2, <2>3
<1>3. CASE Marks
  <2>1. PICK t \in Schedulers : /\ thread[t].pc = "mark"
                                /\ \E u \in Next1(t, event) : outbox' = [outbox EXCEPT ![u] = "done"]
    BY <1>3 DEF Marks
  <2>2. PICK u \in Next1(t, event) : outbox' = [outbox EXCEPT ![u] = "done"]
    BY <2>1
  <2>3. u \in Cancelled /\ u \in Events /\ u \in released
    BY <2>1, FirstOfBatch DEF OwedInv, ScriptRan
  <2>4. Cancelled' = Cancelled /\ event' = event /\ released' = released
    BY <1>0, <1>3, SetsMove DEF Marks
  <2>5. outbox'[u] = "done" /\ \A v \in Users \ {u} : outbox'[v] = outbox[v]
    BY <1>0, <2>2, <2>3
  <2>6. Events' = Events
    BY <2>3, <2>5 DEF Events
  <2>7. NoneForgotten'
    BY <1>0, <2>3, <2>4, <2>5 DEF OwedInv, NoneForgotten
  <2> QED BY <1>s, <2>4, <2>6, <2>7
<1>4. CASE Releases
  <2>1. released \subseteq released'
    BY <1>4 DEF Releases, Lua
  <2>2. Cancelled' = Cancelled /\ Events' = Events /\ UNCHANGED <<outbox, event>>
    BY <1>4 DEF Releases, dbVars, Cancelled, Events
  <2>3. NoneForgotten'
    BY <2>1, <2>2 DEF OwedInv, NoneForgotten
  <2> QED BY <1>s, <2>1, <2>2, <2>3
<1>5. CASE Nothing \/ \E u \in Users : Accept(u)
  <2>1. Cancelled' = Cancelled /\ Events' = Events /\ UNCHANGED <<outbox, event, released>>
    BY <1>5 DEF Nothing, Accept, dbVars, Cancelled, Events
  <2>2. NoneForgotten'
    BY <2>1 DEF OwedInv, NoneForgotten
  <2> QED BY <1>s, <2>1, <2>2
<1>6. CASE \E u \in Users : Persist(u)
  <2>1. Cancelled' = Cancelled /\ Events' = Events /\ UNCHANGED <<outbox, event, released>>
    BY <1>0, <1>6, SetsMove DEF Persist
  <2>2. NoneForgotten'
    BY <2>1 DEF OwedInv, NoneForgotten
  <2> QED BY <1>s, <2>1, <2>2
<1> QED BY <1>0, <1>2, <1>3, <1>4, <1>5, <1>6, StepEffect

\* A thread that comes to mark an event has just run the script for it.
LEMMA ScriptRanStep ==
    ASSUME BalanceInv, OwedInv, [Next]_vars
    PROVE  \A t \in Schedulers : ScriptRan(t)'
<1>0. TypeInv /\ InStep /\ thread \in [Schedulers -> Thread] /\ released \subseteq released'
      /\ \A u \in Cancelled : event'[u] = event[u]
  BY OutboxMoves DEF BalanceInv, TypeInv, TypeOK
<1>1. ASSUME NEW s \in Schedulers, thread'[s] = thread[s] PROVE ScriptRan(s)'
  <2> SUFFICES ASSUME thread[s].pc = "mark" PROVE Next1(s, event)' \subseteq released'
    BY <1>1 DEF ScriptRan
  <2>1. thread[s].todo \subseteq Cancelled
    BY <1>0 DEF InStep
  <2>2. Next1(s, event)' = Next1(s, event)
    BY <1>0, <1>1, <2>1 DEF Next1
  <2> QED BY <1>0, <2>2 DEF OwedInv, ScriptRan
<1>2. ASSUME NEW t \in Schedulers, Scheduled(t) PROVE \A s \in Schedulers : ScriptRan(s)'
  <2>1. PICK th \in Thread : thread' = [thread EXCEPT ![t] = th]
    BY <1>0, <1>2, ThreadMoves
  <2>2. thread'[t] = th /\ \A s \in Schedulers \ {t} : thread'[s] = thread[s]
    BY <1>0, <2>1
  <2>3. CASE Apply(t)
    <3>1. PICK u \in Next1(t, event) :
             \/ Lua(u) /\ thread' = [thread EXCEPT ![t].pc = "mark"]
             \/ GoOn(t, "apply", u)
      BY <2>3 DEF Apply
    <3>2. CASE Lua(u) /\ thread' = [thread EXCEPT ![t].pc = "mark"]
      <4>1. u \in released'
        BY <3>2 DEF Lua
      <4>2. thread'[t].todo = thread[t].todo
        BY <1>0, <3>2 DEF Thread
      <4>3. event' = event
        BY <2>3 DEF Apply, dbVars
      <4>4. Next1(t, event)' = Next1(t, event)
        BY <4>2, <4>3 DEF Next1
      <4>5. \A v \in Next1(t, event) : v = u
        BY <2>3, FirstOfBatch DEF Apply
      <4>6. ScriptRan(t)'
        BY <4>1, <4>4, <4>5 DEF ScriptRan
      <4> QED BY <1>1, <2>2, <4>6
    <3>3. CASE GoOn(t, "apply", u)
      <4>1. thread'[t].pc # "mark"
        BY <1>0, <3>3 DEF GoOn, Idle
      <4> QED BY <1>1, <2>2, <4>1 DEF ScriptRan
    <3> QED BY <3>1, <3>2, <3>3
  <2>4. CASE ~Apply(t)
    <3>1. thread'[t].pc # "mark"
      BY <1>0, <1>2, <2>4
         DEF Scheduled, CloseScan, ReleaseScan, Scanned, CloseOne, Mark, Halt, GoOn, Idle
    <3> QED BY <1>1, <2>2, <3>1 DEF ScriptRan
  <2> QED BY <2>3, <2>4
<1>3. thread' = thread \/ \E t \in Schedulers : Scheduled(t)
  BY <1>0, HttpEffect DEF Next, Accept, Persist, BecomeDue, vars
<1> QED BY <1>1, <1>2, <1>3

\* The unit of a cancelled order is never forgotten, for every number of orders, workers,
\* batches and faults: an outbox row is pending, or its unit is back.
THEOREM NoneForgottenCorrect == Spec => []NoneForgotten
<1>1. Init => OwedInv
  <2> SUFFICES ASSUME Init PROVE OwedInv
    OBVIOUS
  <2>1. Events = {} /\ Cancelled = {} /\ \A t \in Schedulers : thread[t].pc = "idle"
    BY DEF Init, Events, Cancelled, Idle
  <2> QED BY <2>1 DEF OwedInv, Ranked, ScriptRan, NoneForgotten
<1>2. BalanceInv /\ OwedInv /\ [Next]_vars => OwedInv'
  BY OutboxMoves, ScriptRanStep DEF OwedInv
<1>3. OwedInv => NoneForgotten
  BY DEF OwedInv
<1> QED BY <1>1, <1>2, <1>3, BalanceAlways, PTL DEF Spec

----------------------------------------------------------------------------
(***************************************************************************)
(* The answers.  A status never goes back, so what the two reads of a      *)
(* request have seen bounds what the row can be now: this is what makes a  *)
(* refusal after a lost race as true as one after the first read.          *)
(***************************************************************************)
Moves == {<<"none", "unpaid">>, <<"unpaid", "paid">>, <<"unpaid", "cancelled">>, <<"paid", "used">>}

\* What the status of its order can be, for a request at a point of its handler.
Bounded(r) ==
    CASE r.kind = "redeem" /\ r.pc = "update" -> {"paid", "used"}
      [] r.kind = "redeem" /\ r.pc = "reread" -> {"used"}
      [] r.kind # "redeem" /\ r.pc = "update" -> {"unpaid", "paid", "used", "cancelled"}
      [] r.kind # "redeem" /\ r.pc = "reread" -> {"paid", "used", "cancelled"}
      [] r.kind = "pay"    /\ r.pc = "idle" /\ r.is = "ok"      -> {"paid", "used"}
      [] r.kind = "pay"    /\ r.pc = "idle" /\ r.is = "refused" -> {"cancelled", "used"}
      [] r.kind = "cancel" /\ r.pc = "idle" /\ r.is = "ok"      -> {"cancelled"}
      [] r.kind = "cancel" /\ r.pc = "idle" /\ r.is = "refused" -> {"paid", "used"}
      [] r.kind = "redeem" /\ r.pc = "idle" /\ r.is = "ok"      -> {"used"}
      [] OTHER -> Status

Honest(r) ==
    /\ r.pc # "idle" => r.is = "none"
    /\ r.pc # "idle" \/ r.is # "none" => r.order \in Users
    /\ r.pc \in {"update", "reread"} => r.seen = From(r.kind)
    /\ r.order \in Users => status[r.order] \in Bounded(r)

Audited == \A u \in Users : status[u] = "used" => u \in audits

AnswerInv == TypeInv /\ Audited /\ \A p \in Requests : Honest(request[p])

\* Nobody has asked at the start.
LEMMA AnswerInit == Init => AnswerInv
<1> SUFFICES ASSUME Init PROVE AnswerInv
  OBVIOUS
<1>1. Audited
  BY DEF Init, Audited
<1>2. \A p \in Requests : Honest(request[p])
  BY TypeInit DEF Init, NoRequest, Honest, TypeInv, TypeOK, Bounded
<1> QED BY <1>1, <1>2, TypeInit DEF AnswerInv

\* A status stays or moves on, and an order that becomes used is audited.
LEMMA StatusMoves ==
    ASSUME TypeInv, [Next]_vars
    PROVE  /\ \A u \in Users : status'[u] = status[u] \/ <<status[u], status'[u]>> \in Moves
           /\ Audited => Audited'
<1> USE DEF TypeInv, TypeOK
<1>1. ASSUME NEW u \in Users, Persist(u) \/ PayTx(u)
      PROVE  /\ \A v \in Users : status'[v] = status[v] \/ <<status[v], status'[v]>> \in Moves
             /\ Audited => Audited'
  BY <1>1 DEF Persist, PayTx, Moves, Audited
<1>2. ASSUME NEW u \in Users, CancelTx(u) \/ RedeemTx(u)
      PROVE  /\ \A v \in Users : status'[v] = status[v] \/ <<status[v], status'[v]>> \in Moves
             /\ Audited => Audited'
  BY <1>2 DEF CancelTx, RedeemTx, Moves, Audited
<1>3. CASE UNCHANGED <<status, audits>>
  BY <1>3 DEF Audited
<1> QED
  BY <1>1, <1>2, <1>3, StepEffect
     DEF Transacts, Marks, Releases, Nothing, Accept, dbVars

\* What has been told, or seen, of an order holds after the moves of its status.
LEMMA HonestStays ==
    ASSUME TypeInv, [Next]_vars, NEW r \in Request, Honest(r)
    PROVE  Honest(r)'
<1>1. CASE r.order \notin Users
  BY <1>1 DEF Honest
<1>2. CASE r.order \in Users
  <2>1. status[r.order] \in Bounded(r)
    BY <1>2 DEF Honest
  <2>2. status'[r.order] = status[r.order] \/ <<status[r.order], status'[r.order]>> \in Moves
    BY <1>2, StatusMoves
  <2>3. status'[r.order] \in Bounded(r)
    BY <2>1, <2>2 DEF Bounded, Moves, Request, Kinds, Status
  <2> QED BY <1>2, <2>3 DEF Honest
<1> QED BY <1>1, <1>2

\* The request that takes a step tells the truth of the state it leaves.
LEMMA HonestMoves ==
    ASSUME AnswerInv, [Next]_vars, NEW p \in Requests, Http(p)
    PROVE  \E r \in Request : Becomes(p, r) /\ Honest(r)'
<1>0. /\ request \in [Requests -> Request] /\ status \in [Users -> Status]
      /\ Honest(request[p]) /\ status' \in [Users -> Status]
  BY TypeStep DEF AnswerInv, TypeInv, TypeOK
<1>1. PICK r \in Request :
             /\ Becomes(p, r)
             /\ \/ r.is = "none" /\ (r.pc = "idle" \/ r.order \in Users)
                                 /\ r.pc \in {"idle", "read"}
                \/ /\ r.kind = request[p].kind /\ r.order = request[p].order
                   /\ request[p].pc # "idle"
                   /\ \/ r.is = request[p].is /\ Read(p) /\ r.pc = "update"
                                /\ status[r.order] = From(r.kind) /\ r.seen = From(r.kind)
                      \/ r.is = request[p].is /\ Update(p) /\ r.pc = "reread"
                                /\ status[r.order] # From(r.kind) /\ r.seen = request[p].seen
                                /\ UNCHANGED dbVars
                      \/ r.pc = "idle" /\ Read(p) /\ r.is = "missing"
                      \/ r.pc = "idle" /\ Read(p) /\ r.is = "ok" /\ status[r.order] = To(r.kind)
                      \/ r.pc = "idle" /\ Read(p) /\ r.is = "refused"
                                /\ status[r.order] \notin {From(r.kind), To(r.kind), "none"}
                      \/ r.pc = "idle" /\ Update(p) /\ r.is = "ok" /\ Tx(r.kind, r.order)
                      \/ r.pc = "idle" /\ Reread(p)
                                /\ r.is = IF (IF r.kind = "redeem" THEN request[p].seen
                                              ELSE status[r.order]) = To(r.kind)
                                          THEN "ok" ELSE "refused"
  BY RequestMoves DEF AnswerInv
<1>2. ASSUME r.is = "none", r.pc = "idle" \/ r.order \in Users, r.pc \in {"idle", "read"}
      PROVE  Honest(r)'
  <2>1. r.order \in Users => status'[r.order] \in Bounded(r)
    BY <1>0, <1>2 DEF Bounded
  <2> QED BY <1>1, <1>2, <2>1 DEF Honest
<1>3. ASSUME r.kind = request[p].kind, r.order = request[p].order, request[p].pc # "idle"
      PROVE  r.order \in Users /\ request[p].is = "none" /\ r.kind \in Kinds
    BY <1>0, <1>3 DEF Honest, Request
<1>4. ASSUME r.kind = request[p].kind, r.order = request[p].order, request[p].pc # "idle",
             Read(p)
      PROVE  Honest(r)'
  <2>1. status' = status
    BY <1>4 DEF Read, dbVars
  <2>2. r.order \in Users /\ request[p].is = "none" /\ r.kind \in Kinds
    BY <1>3, <1>4
  <2>3. status[r.order] \in Status
    BY <1>0, <2>2
  <2>4. request[p].pc = "read"
    BY <1>4 DEF Read
  <2>5. ~Update(p) /\ ~Reread(p)
    BY <2>4 DEF Update, Reread
  <2>6. status[r.order] \in Bounded(r)
    BY <1>1, <1>4, <2>2, <2>3, <2>5 DEF Bounded, From, To, Kinds, Status
  <2>7. (r.pc # "idle" => r.is = "none") /\ (r.pc \in {"update", "reread"} => r.seen = From(r.kind))
    BY <1>1, <1>4, <2>2, <2>5
  <2> QED BY <2>1, <2>2, <2>6, <2>7 DEF Honest
<1>5. ASSUME r.kind = request[p].kind, r.order = request[p].order, request[p].pc # "idle",
             Update(p), r.is # "none" \/ r.pc \notin {"idle", "read"}
      PROVE  Honest(r)'
  <2>1. r.order \in Users /\ request[p].is = "none" /\ r.kind \in Kinds
    BY <1>3, <1>5
  <2>2. request[p].pc = "update"
    BY <1>5 DEF Update
  <2>3. ~Read(p) /\ ~Reread(p)
    BY <2>2 DEF Read, Reread
  <2>4. request[p].seen = From(r.kind) /\ status[r.order] \in Bounded(request[p])
    BY <1>0, <1>5, <2>1, <2>2 DEF Honest
  <2>5. CASE r.pc = "idle" /\ r.is = "ok" /\ Tx(r.kind, r.order)
    <3>1. status'[r.order] = To(r.kind)
      BY <1>0, <2>1, <2>5 DEF Tx, PayTx, CancelTx, RedeemTx, To
    <3>2. To(r.kind) \in Bounded(r)
      BY <2>1, <2>5 DEF Bounded, To, Kinds
    <3> QED BY <2>1, <2>5, <3>1, <3>2 DEF Honest
  <2>6. CASE /\ r.is = "none" /\ r.pc = "reread" /\ r.seen = From(r.kind)
             /\ status[r.order] # From(r.kind) /\ status' = status
    <3>1. status[r.order] \in Bounded(r)
      BY <1>5, <2>1, <2>2, <2>4, <2>6 DEF Bounded, From, Kinds
    <3> QED BY <2>1, <2>6, <3>1 DEF Honest
  <2>7. ~(r.is = "none" /\ (r.pc = "idle" \/ r.order \in Users) /\ r.pc \in {"idle", "read"})
    BY <1>5
  <2>8. UNCHANGED dbVars => status' = status
    BY DEF dbVars
  <2> QED BY <1>1, <1>5, <2>1, <2>3, <2>4, <2>5, <2>6, <2>7, <2>8
<1>6. ASSUME r.kind = request[p].kind, r.order = request[p].order, request[p].pc # "idle",
             Reread(p), r.is # "none" \/ r.pc \notin {"idle", "read"}
      PROVE  Honest(r)'
  <2>1. r.order \in Users /\ request[p].is = "none" /\ r.kind \in Kinds
    BY <1>3, <1>6
  <2>2. request[p].pc = "reread" /\ status' = status
    BY <1>6 DEF Reread, dbVars
  <2>3. ~Read(p) /\ ~Update(p)
    BY <2>2 DEF Read, Update
  <2>4. request[p].seen = From(r.kind) /\ status[r.order] \in Bounded(request[p])
    BY <1>0, <1>6, <2>1, <2>2 DEF Honest
  <2>5. r.pc = "idle" /\ r.is = IF (IF r.kind = "redeem" THEN request[p].seen
                                    ELSE status[r.order]) = To(r.kind)
                                THEN "ok" ELSE "refused"
    <3>1. ~(r.is = "none" /\ (r.pc = "idle" \/ r.order \in Users) /\ r.pc \in {"idle", "read"})
      BY <1>6
    <3> QED BY <1>1, <2>3, <3>1
  <2>6. status[r.order] \in Bounded(r)
    <3>1. CASE r.kind = "redeem"
      <4>1. r.is = "refused"
        BY <2>4, <2>5, <3>1 DEF From, To
      <4>2. Bounded(r) = Status
        BY <2>5, <3>1, <4>1 DEF Bounded
      <4> QED BY <1>0, <2>1, <4>2
    <3>2. CASE r.kind = "pay"
      BY <1>6, <2>2, <2>4, <2>5, <3>2 DEF Bounded, To
    <3>3. CASE r.kind = "cancel"
      BY <1>6, <2>2, <2>4, <2>5, <3>3 DEF Bounded, To
    <3> QED BY <2>1, <3>1, <3>2, <3>3 DEF Kinds
  <2> QED BY <2>1, <2>2, <2>5, <2>6 DEF Honest
<1>7. Honest(r)'
  <2>1. CASE r.is = "none" /\ r.pc \in {"idle", "read"}
    <3>1. r.pc = "idle" \/ r.order \in Users
      BY <1>1, <1>3
    <3> QED BY <1>2, <2>1, <3>1
  <2>2. CASE r.is # "none" \/ r.pc \notin {"idle", "read"}
    <3>1. /\ r.kind = request[p].kind /\ r.order = request[p].order
          /\ request[p].pc # "idle"
          /\ Read(p) \/ Update(p) \/ Reread(p)
      BY <1>1, <2>2
    <3>2. CASE Read(p)
      BY <1>4, <3>1, <3>2
    <3>3. CASE Update(p)
      BY <1>5, <2>2, <3>1, <3>3
    <3>4. CASE Reread(p)
      BY <1>6, <2>2, <3>1, <3>4
    <3> QED BY <3>1, <3>2, <3>3, <3>4
  <2> QED BY <2>1, <2>2
<1> QED BY <1>1, <1>7

\* Every step leaves each request, the one that moves and the others, honest.
LEMMA AnswerStep == AnswerInv /\ [Next]_vars => AnswerInv'
<1> SUFFICES ASSUME AnswerInv, [Next]_vars PROVE AnswerInv'
  OBVIOUS
<1>0. TypeInv /\ Audited /\ request \in [Requests -> Request]
  BY DEF AnswerInv, TypeInv, TypeOK
<1>1. TypeInv' /\ Audited'
  BY <1>0, TypeStep, StatusMoves
<1>2. \A q \in Requests : Honest(request[q])'
  <2>1. ASSUME NEW q \in Requests, request'[q] = request[q]
        PROVE  Honest(request[q])'
    <3>1. PICK r \in Request : r = request[q]
      BY <1>0
    <3>2. Honest(r)'
      BY <1>0, <3>1, HonestStays DEF AnswerInv
    <3> QED BY <2>1, <3>1, <3>2 DEF Honest
  <2>2. CASE \E p \in Requests : Http(p)
    <3>1. PICK p \in Requests : Http(p)
      BY <2>2
    <3>2. PICK r \in Request : Becomes(p, r) /\ Honest(r)'
      BY <3>1, HonestMoves
    <3>3. request'[p] = r /\ \A q \in Requests \ {p} : request'[q] = request[q]
      BY <1>0, <3>2 DEF Becomes
    <3>4. Honest(request[p])'
      BY <3>2, <3>3 DEF Honest
    <3> QED BY <2>1, <3>3, <3>4
  <2>3. CASE UNCHANGED request
    BY <2>1, <2>3
  <2>4. UNCHANGED request \/ \E p \in Requests : Http(p)
    BY <1>0, ScheduledEffect DEF Next, Accept, Persist, BecomeDue, vars
  <2> QED BY <2>2, <2>3, <2>4
<1> QED BY <1>1, <1>2 DEF AnswerInv

\* No answer is taken back: an order whose payment was confirmed is not cancelled by the
\* owner or the timeout job, one whose payment was refused is not paid, and so on.
THEOREM AnswersTrueCorrect == Spec => []AnswersTrue
<1>1. AnswerInv => AnswersTrue
  <2> SUFFICES ASSUME AnswerInv PROVE AnswersTrue
    OBVIOUS
  <2>1. ASSUME NEW p \in Requests, request[p].is \in {"ok", "refused"}
        PROVE  /\ request[p].pc = "idle" /\ request[p].order \in Users
               /\ status[request[p].order] \in Bounded(request[p])
    BY <2>1 DEF AnswerInv, Honest, TypeInv, TypeOK, Request
  <2>2. \A p \in Requests : request[p].kind = "pay" /\ request[p].is = "ok"
            => status[request[p].order] \in {"paid", "used"}
    BY <2>1 DEF Bounded
  <2>3. \A p \in Requests : request[p].kind = "pay" /\ request[p].is = "refused"
            => status[request[p].order] \in {"cancelled", "used"}
    BY <2>1 DEF Bounded
  <2>4. \A p \in Requests : request[p].kind = "cancel" /\ request[p].is = "ok"
            => status[request[p].order] = "cancelled"
    BY <2>1 DEF Bounded
  <2>5. \A p \in Requests : request[p].kind = "cancel" /\ request[p].is = "refused"
            => status[request[p].order] \in {"paid", "used"}
    BY <2>1 DEF Bounded
  <2>6. \A p \in Requests : request[p].kind = "redeem" /\ request[p].is = "ok"
            => status[request[p].order] = "used" /\ request[p].order \in audits
    BY <2>1 DEF Bounded, AnswerInv, Audited
  <2> QED BY <2>2, <2>3, <2>4, <2>5, <2>6 DEF AnswersTrue, Told
<1> QED BY <1>1, AnswerInit, AnswerStep, PTL DEF Spec

----------------------------------------------------------------------------
(***************************************************************************)
(* The life of an order.  The balance is what the abstract specification's *)
(* two conditions on the stock come from: a unit on sale is one that no    *)
(* order holds, and one that MySQL counts is one that has no row.          *)
(***************************************************************************)
LEMMA LifeCardinality == \A S : Life!Cardinality(S) = Cardinality(S)
BY DEF Life!Cardinality, Cardinality, Life!IsFiniteSet, IsFiniteSet

\* The stage of an order is where it is among the sets of StockBalance.
Staged == \A u \in Users :
    /\ u \notin accepted => Stage(u) = "none"
    /\ u \in accepted \ Rows => Stage(u) = "waiting"
    /\ u \in Rows \ Cancelled => Stage(u) = status[u] /\ status[u] \in {"unpaid", "paid", "used"}
    /\ u \in Cancelled \ released => Stage(u) = "cancelled"
    /\ u \in released => Stage(u) = "returned"

LEMMA StagedHolds ==
    /\ TypeInv /\ InStep => Staged
    /\ TypeInv' /\ InStep' => Staged'
<1>1. TypeInv /\ InStep => Staged
  BY DEF TypeInv, TypeOK, InStep, Rows, Cancelled, Status, Stage, Staged
<1>2. TypeInv' /\ InStep' => Staged'
  BY DEF TypeInv, TypeOK, InStep, Rows, Cancelled, Status, Stage, Staged
<1> QED BY <1>1, <1>2

\* Nothing becomes of the orders.
LEMMA LifeStays ==
    ASSUME accepted' = accepted, \A u \in Users : Stage(u)' = Stage(u)
    PROVE  UNCHANGED Life!lifeVars
BY DEF Life!lifeVars

\* One order moves on.
LEMMA LifeMoves ==
    ASSUME BalanceInv, NEW u \in Users, accepted' = accepted,
           \A v \in Users \ {u} : Stage(v)' = Stage(v),
           <<Stage(u), Stage(u)'>> \in Life!Moves,
           Stage(u) = "waiting" => dbStock > 0
    PROVE  Life!MoveOn(u)
<1> DEFINE life   == [v \in Users |-> Stage(v)]
           placed == {v \in Users : life[v] \in {"unpaid", "paid", "used"}}
<1>1. life' = [life EXCEPT ![u] = Stage(u)'] /\ life[u] = Stage(u) /\ life'[u] = Stage(u)'
  OBVIOUS
<1>2. placed = Rows \ Cancelled
  <2>1. Rows \subseteq Users /\ Cancelled \subseteq Rows /\ Rows \subseteq accepted
        /\ released \subseteq Cancelled
    BY DEF BalanceInv, InStep, Rows, Cancelled
  <2>2. \A v \in Users : life[v] = Stage(v)
    OBVIOUS
  <2>3. Staged
    BY StagedHolds DEF BalanceInv
  <2>4. \A v \in Users : Stage(v) \in {"unpaid", "paid", "used"} <=> v \in Rows \ Cancelled
    BY <2>1, <2>3 DEF Staged
  <2> QED BY <2>1, <2>2, <2>4
<1>3. Stage(u) = "waiting" => Cardinality(Rows \ Cancelled) < Stock
  <2>1. IsFiniteSet(Rows \ Cancelled)
    BY FS_Subset, TradeAssumption DEF Rows
  <2>2. Cardinality(Rows \ Cancelled) \in Nat /\ dbStock \in Nat /\ Stock \in Nat
    BY <2>1, FS_CardinalityType, TradeAssumption DEF BalanceInv, TypeInv, TypeOK
  <2> QED BY <2>2 DEF BalanceInv, StockBalance
<1>4. Stage(u) = "waiting" => Life!Cardinality(placed) < Stock
  BY <1>2, <1>3, LifeCardinality
<1> QED BY <1>1, <1>4 DEF Life!MoveOn, Life!Placed

\* A buyer is accepted.
LEMMA AcceptTakes ==
    ASSUME BalanceInv, BalanceInv', NEW u \in Users, Accept(u)
    PROVE  Life!Take(u)
<1> DEFINE life    == [v \in Users |-> Stage(v)]
           order   == [v \in Users |-> IF v \in accepted THEN v ELSE None]
           holding == {v \in Users : life[v] \notin {"none", "returned"}}
           A == accepted \ Rows
           B == Cancelled \ released
           C == Rows \ Cancelled
<1>1. accepted' = accepted \cup {u} /\ u \notin accepted /\ redisStock > 0
      /\ UNCHANGED <<status, released>>
  BY DEF Accept, dbVars
<1>2. Rows' = Rows /\ Cancelled' = Cancelled
  BY <1>1 DEF Rows, Cancelled
<1>3. Staged /\ Staged' /\ u \notin Rows
  BY <1>1, StagedHolds DEF BalanceInv, InStep
<1>4. \A v \in Users \ {u} : Stage(v)' = Stage(v)
  BY <1>1, <1>2 DEF Stage
<1>5. Stage(u) = "none" /\ Stage(u)' = "waiting"
  BY <1>1, <1>2, <1>3 DEF Staged
<1>6. life' = [life EXCEPT ![u] = "waiting"] /\ life[u] = "none"
  BY <1>4, <1>5
<1>7. /\ order' = [order EXCEPT ![u] = u] /\ order[u] = None /\ order'[u] = u
      /\ u # None /\ u \notin {order[v] : v \in Users}
  BY <1>1, TradeAssumption
<1>8. holding = A \cup B \cup C
  <2>1. /\ Rows \subseteq accepted /\ Cancelled \subseteq Rows /\ released \subseteq Cancelled
        /\ accepted \subseteq Users
    BY DEF BalanceInv, TypeInv, TypeOK, InStep, Rows, Cancelled
  <2>2. \A v \in Users : life[v] = Stage(v)
    OBVIOUS
  <2>3. \A v \in Users : Stage(v) \notin {"none", "returned"} <=> v \in A \cup B \cup C
    BY <1>3, <2>1 DEF Staged
  <2> QED BY <2>1, <2>2, <2>3
<1>9. Cardinality(A \cup B \cup C) < Stock
  <2>1. A \subseteq Users /\ B \subseteq Users /\ C \subseteq Users
        /\ A \cap B = {} /\ (A \cup B) \cap C = {}
    BY DEF BalanceInv, TypeInv, TypeOK, Rows, Cancelled
  <2>2. IsFiniteSet(A) /\ IsFiniteSet(B) /\ IsFiniteSet(C) /\ IsFiniteSet(A \cup B)
    BY <2>1, FS_Subset, FS_Union, TradeAssumption
  <2>3. Cardinality(A \cup B) = Cardinality(A) + Cardinality(B)
    <3>1. Cardinality(A \cup B) = Cardinality(A) + Cardinality(B) - Cardinality(A \cap B)
      BY <2>2, FS_Union
    <3>2. Cardinality(A \cap B) = 0 /\ Cardinality(A) \in Nat /\ Cardinality(B) \in Nat
      BY <2>1, <2>2, FS_EmptySet, FS_CardinalityType
    <3> QED BY <3>1, <3>2
  <2>4. Cardinality(A \cup B \cup C) = Cardinality(A \cup B) + Cardinality(C)
    <3>1. Cardinality((A \cup B) \cup C)
            = Cardinality(A \cup B) + Cardinality(C) - Cardinality((A \cup B) \cap C)
      BY <2>2, FS_Union
    <3>2. /\ Cardinality((A \cup B) \cap C) = 0
          /\ Cardinality(A \cup B) \in Nat /\ Cardinality(C) \in Nat
      BY <2>1, <2>2, FS_EmptySet, FS_CardinalityType
    <3> QED BY <3>1, <3>2
  <2>5. redisStock + Cardinality(A) + Cardinality(B) = dbStock /\ dbStock + Cardinality(C) = Stock
    BY DEF BalanceInv, StockBalance
  <2>6. /\ Cardinality(A) \in Nat /\ Cardinality(B) \in Nat /\ Cardinality(C) \in Nat
        /\ redisStock \in Nat /\ dbStock \in Nat /\ Stock \in Nat
    BY <2>2, FS_CardinalityType, TradeAssumption DEF BalanceInv, TypeInv, TypeOK
  <2> QED BY <1>1, <2>3, <2>4, <2>5, <2>6
<1>10. Life!Cardinality(holding) < Stock
  BY <1>8, <1>9, LifeCardinality
<1> QED BY <1>6, <1>7, <1>10 DEF Life!Take, Life!Holding

\* Every step of the trade takes an order, moves one on, or leaves them.
LEMMA LifeStep == BalanceInv /\ BalanceInv' /\ [Next]_vars => [Life!Next]_(Life!lifeVars)
<1> SUFFICES ASSUME BalanceInv, BalanceInv', [Next]_vars
             PROVE  (\E u \in Users : Life!Take(u) \/ Life!MoveOn(u)) \/ UNCHANGED Life!lifeVars
  BY DEF Life!Next
<1>0. /\ TypeInv /\ InStep /\ Staged /\ Staged'
      /\ Rows \subseteq accepted /\ Cancelled \subseteq Rows /\ released \subseteq Cancelled
      /\ Rows \subseteq Users
  BY StagedHolds DEF BalanceInv, InStep, Rows, Cancelled
<1>1. ASSUME NEW u \in Users, Persist(u) PROVE Life!MoveOn(u)
  <2>1. Rows' = Rows \cup {u} /\ u \notin Rows /\ Cancelled' = Cancelled
    BY <1>0, <1>1, SetsMove
  <2>2. /\ u \in accepted /\ dbStock > 0 /\ accepted' = accepted /\ released' = released
        /\ status' = [status EXCEPT ![u] = "unpaid"]
    BY <1>1 DEF Persist
  <2>3. \A v \in Users \ {u} : status'[v] = status[v] /\ Stage(v)' = Stage(v)
    BY <1>0, <2>1, <2>2 DEF TypeInv, TypeOK, Stage
  <2>4. Stage(u) = "waiting" /\ Stage(u)' = "unpaid"
    BY <1>0, <2>1, <2>2 DEF Staged, TypeInv, TypeOK
  <2> QED BY <2>2, <2>3, <2>4, LifeMoves DEF Life!Moves
<1>2. ASSUME NEW u \in Users, PayTx(u) \/ CancelTx(u) \/ RedeemTx(u),
             UNCHANGED <<redisStock, accepted, released>>
      PROVE  Life!MoveOn(u)
  <2>0. status \in [Users -> Status] /\ u \in Rows \ Cancelled
    BY <1>2 DEF BalanceInv, TypeInv, TypeOK, PayTx, CancelTx, RedeemTx, Rows, Cancelled
  <2>1. \A v \in Users \ {u} : status'[v] = status[v]
    BY <1>2, <2>0 DEF PayTx, CancelTx, RedeemTx
  <2>2. Rows' = Rows /\ (Cancelled' = Cancelled \/ Cancelled' = Cancelled \cup {u})
    BY <1>0, <1>2, SetsMove
  <2>3. \A v \in Users \ {u} : Stage(v)' = Stage(v)
    BY <1>2, <2>1, <2>2 DEF Stage
  <2>4. Stage(u) = status[u]
    BY <1>0, <2>0 DEF Staged
  <2>5. <<Stage(u), Stage(u)'>> \in {<<"unpaid", "paid">>, <<"paid", "used">>, <<"unpaid", "cancelled">>}
    <3>1. CASE PayTx(u)
      <4>1. Cancelled' = Cancelled /\ status[u] = "unpaid" /\ status'[u] = "paid"
        BY <1>0, <2>0, <3>1, SetsMove DEF PayTx
      <4> QED BY <1>0, <2>0, <2>2, <2>4, <4>1 DEF Staged
    <3>2. CASE RedeemTx(u)
      <4>1. Cancelled' = Cancelled /\ status[u] = "paid" /\ status'[u] = "used"
        BY <1>0, <2>0, <3>2, SetsMove DEF RedeemTx
      <4> QED BY <1>0, <2>0, <2>2, <2>4, <4>1 DEF Staged
    <3>3. CASE CancelTx(u)
      <4>1. Cancelled' = Cancelled \cup {u} /\ status[u] = "unpaid" /\ u \notin released'
        BY <1>0, <1>2, <2>0, <3>3, SetsMove DEF CancelTx
      <4> QED BY <1>0, <2>4, <4>1 DEF Staged
    <3> QED BY <1>2, <3>1, <3>2, <3>3
  <2>6. Stage(u) # "waiting" /\ <<Stage(u), Stage(u)'>> \in Life!Moves
    BY <2>5 DEF Life!Moves
  <2> QED BY <1>2, <2>3, <2>6, LifeMoves
<1>3. ASSUME NEW u \in Cancelled, Lua(u), UNCHANGED <<accepted, status>>
      PROVE  Life!MoveOn(u) \/ UNCHANGED Life!lifeVars
  <2>1. Rows' = Rows /\ Cancelled' = Cancelled
    BY <1>3 DEF Rows, Cancelled
  <2>2. CASE u \in released
    <3>1. released' = released
      BY <1>3, <2>2 DEF Lua
    <3>2. \A v \in Users : Stage(v)' = Stage(v)
      BY <1>3, <2>1, <3>1 DEF Stage
    <3> QED BY <1>3, <3>2, LifeStays
  <2>3. CASE u \notin released
    <3>1. released' = released \cup {u}
      BY <1>3, <2>3 DEF Lua
    <3>2. \A v \in Users \ {u} : Stage(v)' = Stage(v)
      BY <1>3, <2>1, <3>1 DEF Stage
    <3>3. u \in Users /\ Stage(u) = "cancelled" /\ Stage(u)' = "returned"
      BY <1>0, <2>3, <3>1 DEF Staged
    <3> QED BY <1>3, <3>2, <3>3, LifeMoves DEF Life!Moves
  <2> QED BY <2>2, <2>3
<1>4. CASE Releases
  <2>1. PICK t \in Schedulers : thread[t].pc = "apply" /\ \E u \in thread[t].todo : Lua(u)
    BY <1>4 DEF Releases
  <2>2. PICK u \in thread[t].todo : Lua(u)
    BY <2>1
  <2>3. u \in Cancelled /\ u \in Users
    BY <1>0, <2>1 DEF InStep
  <2> QED BY <1>3, <1>4, <2>2, <2>3 DEF Releases, dbVars
<1>5. CASE Marks \/ Nothing
  <2>1. UNCHANGED <<accepted, released, status>>
    BY <1>5 DEF Marks, Nothing, dbVars
  <2>2. \A v \in Users : Stage(v)' = Stage(v)
    BY <2>1 DEF Stage, Rows, Cancelled
  <2> QED BY <2>1, <2>2, LifeStays
<1>6. CASE Transacts
  BY <1>2, <1>6 DEF Transacts
<1>7. CASE \E u \in Users : Accept(u) \/ Persist(u)
  BY <1>1, <1>7, AcceptTakes
<1> QED BY <1>0, <1>4, <1>5, <1>6, <1>7, StepEffect

\* The trade implements the last part of the life of an order, for every number of
\* orders, requests and threads: what is paid, cancelled or given back stays so, each
\* happens once, and a unit is sold, or gets its row, only while it is there.
THEOREM LifeRefinedCorrect == Spec => LifeRefined
<1>1. Init => Life!Init
  <2> SUFFICES ASSUME Init PROVE Life!Init
    OBVIOUS
  <2>1. accepted = {} /\ \A u \in Users : Stage(u) = "none"
    BY BalanceInit, StagedHolds DEF Init, BalanceInv, Staged
  <2> QED BY <2>1 DEF Life!Init
<1> QED BY <1>1, BalanceAlways, LifeStep, PTL DEF Spec, Life!Spec, LifeRefined
=============================================================================

------------------------------- MODULE Trade -------------------------------
(***************************************************************************)
(* What happens to the orders of one seckill voucher once they are rows:   *)
(* the simulated payment, the cancellation by the owner or by the timeout  *)
(* job, the outbox that gives a cancelled unit back to Redis, and the      *)
(* redemption at the shop.  Buying is the abstract sale of SeckillSale,    *)
(* here with its two stock counters.  A buyer has at most one order, which *)
(* is named by the buyer.                                                  *)
(***************************************************************************)
EXTENDS Integers, FiniteSets

CONSTANTS
    Users,          \* buyers, and their orders
    Requests,       \* HTTP requests in progress
    Schedulers,     \* one scheduling thread per JVM
    None,           \* no order
    Stock,          \* stock of the voucher when it was published
    TimeoutBatch,   \* TIMEOUT_SCAN_BATCH (50)
    OutboxBatch,    \* OUTBOX_SCAN_BATCH (50)
    MaxFaults       \* bound: failing calls and crashes of a scheduling thread

ASSUME TradeAssumption ==
    /\ None \notin Users
    /\ IsFiniteSet(Users)
    /\ {Stock, MaxFaults} \subseteq Nat
    /\ {TimeoutBatch, OutboxBatch} \subseteq Nat \ {0}

VARIABLES
    redisStock,     \* seckill:stock:{voucher}
    accepted,       \* buyers in seckill:order:{voucher}
    released,       \* orders with an outbox:stock:done:cancel:{order} key
    dbStock,        \* tb_seckill_voucher.stock
    status,         \* order -> tb_voucher_order.status, "none" without a row
    created,        \* order -> rank of its create_time, 0 without a row
    due,            \* rows up to this rank are older than 15 minutes
    outbox,         \* order -> its stock_release_outbox row
    event,          \* order -> id of that row, 0 without a row
    audits,         \* orders with a voucher_order_redeem_audit row
    request,        \* HTTP requests; an idle one holds the last answer it gave
    thread,         \* scheduling threads
    faults

vars == <<redisStock, accepted, released, dbStock, status, created, due, outbox, event,
          audits, request, thread, faults>>

\* What the database transactions on orders write.
dbVars == <<dbStock, status, outbox, event, audits>>

Status == {"none", "unpaid", "paid", "used", "cancelled"}
Kinds  == {"pay", "cancel", "redeem"}

Request == [pc : {"idle", "read", "update", "reread"}, kind : Kinds,
            order : Users \cup {None}, seen : Status,
            is : {"none", "ok", "refused", "missing"}]
Thread  == [pc : {"idle", "close", "apply", "mark"}, todo : SUBSET Users]

NoRequest == [pc |-> "idle", kind |-> "pay", order |-> None, seen |-> "none",
              is |-> "none"]
Idle      == [pc |-> "idle", todo |-> {}]

Fault == /\ faults < MaxFaults
         /\ faults' = faults + 1

\* The k members of S with the smallest ranks.
Oldest(k, S, rank) == {u \in S : Cardinality({v \in S : rank[v] <= rank[u]}) <= k}

Rows   == {u \in Users : status[u] # "none"}
Events == {u \in Users : outbox[u] # "none"}

----------------------------------------------------------------------------
Init ==
    /\ redisStock = Stock
    /\ accepted = {}
    /\ released = {}
    /\ dbStock = Stock
    /\ status = [u \in Users |-> "none"]
    /\ created = [u \in Users |-> 0]
    /\ due = 0
    /\ outbox = [u \in Users |-> "none"]
    /\ event = [u \in Users |-> 0]
    /\ audits = {}
    /\ request = [p \in Requests |-> NoRequest]
    /\ thread = [t \in Schedulers |-> Idle]
    /\ faults = 0

----------------------------------------------------------------------------
(* Buying                                                                  *)

\* Fault for TypeOK: the script does not look at the stock.
AcceptSoldOut(u) ==
    /\ u \notin accepted
    /\ redisStock' = redisStock - 1
    /\ accepted' = accepted \cup {u}
    /\ UNCHANGED <<released, dbVars, created, due, request, thread, faults>>

\* seckill.lua accepts.  A cancelled buyer stays in the set: no second purchase.
Accept(u) ==
    /\ redisStock > 0
    /\ u \notin accepted
    /\ redisStock' = redisStock - 1
    /\ accepted' = accepted \cup {u}
    /\ UNCHANGED <<released, dbVars, created, due, request, thread, faults>>

\* createVoucherOrder commits.
Persist(u) ==
    /\ u \in accepted /\ status[u] = "none"
    /\ dbStock > 0
    /\ dbStock' = dbStock - 1
    /\ status' = [status EXCEPT ![u] = "unpaid"]
    /\ created' = [created EXCEPT ![u] = Cardinality(Rows) + 1]
    /\ UNCHANGED <<redisStock, accepted, released, due, outbox, event, audits,
                   request, thread, faults>>

----------------------------------------------------------------------------
(* The database transactions on one order                                  *)

\* UPDATE ... SET status = PAID WHERE status = UNPAID.
PayTx(u) ==
    /\ status[u] = "unpaid"
    /\ status' = [status EXCEPT ![u] = "paid"]
    /\ UNCHANGED <<dbStock, outbox, event, audits>>

\* Fault for AnswersTrue: the row is read first and then updated whatever it is.
CancelBlind(u) ==
    /\ status[u] \in {"unpaid", "paid"}
    /\ status' = [status EXCEPT ![u] = "cancelled"]
    /\ dbStock' = dbStock + 1
    /\ outbox' = [outbox EXCEPT ![u] = "pending"]
    /\ event' = [event EXCEPT ![u] = Cardinality(Events) + 1]
    /\ UNCHANGED audits

\* cancelUnpaidOrder: the conditional update, the unit back to MySQL, the outbox row.
CancelTx(u) ==
    /\ status[u] = "unpaid"
    /\ status' = [status EXCEPT ![u] = "cancelled"]
    /\ dbStock' = dbStock + 1
    /\ outbox' = [outbox EXCEPT ![u] = "pending"]
    /\ event' = [event EXCEPT ![u] = Cardinality(Events) + 1]
    /\ UNCHANGED audits

\* redeemOrder's writes: the conditional update and the audit row.
RedeemTx(u) ==
    /\ status[u] = "paid"
    /\ status' = [status EXCEPT ![u] = "used"]
    /\ audits' = audits \cup {u}
    /\ UNCHANGED <<dbStock, outbox, event>>

Tx(kind, u) == \/ kind = "pay"    /\ PayTx(u)
               \/ kind = "cancel" /\ CancelTx(u)
               \/ kind = "redeem" /\ RedeemTx(u)

\* The status that the conditional update of a kind asks for, and the one it sets.
From(kind) == IF kind = "redeem" THEN "paid" ELSE "unpaid"
To(kind)   == CASE kind = "pay" -> "paid" [] kind = "cancel" -> "cancelled"
                [] kind = "redeem" -> "used"

----------------------------------------------------------------------------
(* HTTP: payOrder, cancelOrder, redeemOrder                                *)

\* A request of the owner, or of the shop, begins.
Ask(p, kind, u) ==
    /\ request[p].pc = "idle"
    /\ request' = [request EXCEPT ![p] = [pc |-> "read", kind |-> kind, order |-> u,
                                          seen |-> "none", is |-> "none"]]
    /\ UNCHANGED <<redisStock, accepted, released, dbVars, created, due, thread, faults>>

Reply(p, is) == request' = [request EXCEPT ![p].pc = "idle", ![p].seen = "none", ![p].is = is]

\* The first getById: answered at once unless the update can be tried.
Read(p) ==
    /\ request[p].pc = "read"
    /\ LET kind == request[p].kind
           now  == status[request[p].order]
       IN  \/ now = From(kind)
              /\ request' = [request EXCEPT ![p].pc = "update", ![p].seen = now]
           \/ now = "none"   /\ Reply(p, "missing")
           \/ now = To(kind) /\ Reply(p, "ok")
           \/ now \notin {From(kind), To(kind), "none"} /\ Reply(p, "refused")
    /\ UNCHANGED <<redisStock, accepted, released, dbVars, created, due, thread, faults>>

\* The transaction: it wins, it finds the row changed, or the call fails, possibly
\* after the commit.
Update(p) ==
    /\ request[p].pc = "update"
    /\ LET kind == request[p].kind
           u    == request[p].order
       IN  \/ Tx(kind, u) /\ Reply(p, "ok") /\ UNCHANGED faults
           \/ /\ status[u] # From(kind)
              /\ request' = [request EXCEPT ![p].pc = "reread"]
              /\ UNCHANGED <<dbVars, faults>>
           \/ /\ Fault
              /\ Tx(kind, u) \/ UNCHANGED dbVars
              /\ request' = [request EXCEPT ![p] = NoRequest]
    /\ UNCHANGED <<redisStock, accepted, released, created, due, thread>>

\* The second getById.  That of redeemOrder is inside its transaction and sees the
\* snapshot of the first (REPEATABLE READ, the default of MySQL).
Reread(p) ==
    /\ request[p].pc = "reread"
    /\ LET kind == request[p].kind
           now  == IF kind = "redeem" THEN request[p].seen ELSE status[request[p].order]
       IN  Reply(p, IF now = To(kind) THEN "ok" ELSE "refused")
    /\ UNCHANGED <<redisStock, accepted, released, dbVars, created, due, thread, faults>>

\* The JVM serving the request ends.
Abandon(p) ==
    /\ request[p].pc # "idle"
    /\ request' = [request EXCEPT ![p] = NoRequest]
    /\ UNCHANGED <<redisStock, accepted, released, dbVars, created, due, thread, faults>>

----------------------------------------------------------------------------
(* The timeout job and the outbox worker                                   *)

\* The next row becomes older than 15 minutes.
BecomeDue ==
    /\ due < Cardinality(Rows)
    /\ due' = due + 1
    /\ UNCHANGED <<redisStock, accepted, released, dbVars, created, request,
                   thread, faults>>

Scanned(t, label, batch) ==
    /\ thread[t].pc = "idle"
    /\ batch # {}
    /\ thread' = [thread EXCEPT ![t] = [pc |-> label, todo |-> batch]]
    /\ UNCHANGED <<redisStock, accepted, released, dbVars, created, due, request, faults>>

\* Fault for Closed: rows that are not unpaid stay in the scan.
OverdueWhatever == {u \in Rows : created[u] <= due}

\* status = UNPAID and create_time before the deadline.
Overdue == {u \in Rows : status[u] = "unpaid" /\ created[u] <= due}

\* closeTimedOutUnpaidOrders, its query.
CloseScan(t) == Scanned(t, "close", Oldest(TimeoutBatch, Overdue, created))

\* listPendingOutbox.
ReleaseScan(t) ==
    Scanned(t, "apply", Oldest(OutboxBatch, {u \in Events : outbox[u] = "pending"}, event))

\* The thread goes on with what is left of its batch.
GoOn(t, label, u) ==
    LET rest == thread[t].todo \ {u}
    IN  thread' = [thread EXCEPT ![t] = IF rest = {} THEN Idle
                                        ELSE [pc |-> label, todo |-> rest]]

Next1(t, rank) == {u \in thread[t].todo : \A v \in thread[t].todo : rank[u] <= rank[v]}

\* One cancellation of the batch; exceptions are caught per order.
CloseOne(t) ==
    /\ thread[t].pc = "close"
    /\ \E u \in Next1(t, created) :
         /\ \/ CancelTx(u) /\ UNCHANGED faults
            \/ status[u] # "unpaid" /\ UNCHANGED <<dbVars, faults>>
            \/ Fault /\ (CancelTx(u) \/ UNCHANGED dbVars)
         /\ GoOn(t, "close", u)
    /\ UNCHANGED <<redisStock, accepted, released, created, due, request>>

\* Fault for StockBalance: INCR without SETNX.
LuaAlways(u) ==
    /\ redisStock' = redisStock + 1
    /\ released' = released \cup {u}

\* stock_release.lua: SETNX and INCR in one script.
Lua(u) == IF u \in released THEN UNCHANGED <<redisStock, released>>
          ELSE /\ redisStock' = redisStock + 1
               /\ released' = released \cup {u}

\* Fault for Returned and NoneForgotten: the row is marked whatever became of the script.
ApplyAnyhow(t) ==
    /\ thread[t].pc = "apply"
    /\ \E u \in Next1(t, event) :
         /\ \/ Lua(u) /\ UNCHANGED faults
            \/ Fault /\ UNCHANGED <<redisStock, released>>
         /\ thread' = [thread EXCEPT ![t].pc = "mark"]
    /\ UNCHANGED <<accepted, dbVars, created, due, request>>

\* applyOnce, the script; when it fails the row is left for a later poll.
Apply(t) ==
    /\ thread[t].pc = "apply"
    /\ \E u \in Next1(t, event) :
         \/ Lua(u) /\ thread' = [thread EXCEPT ![t].pc = "mark"] /\ UNCHANGED faults
         \/ /\ Fault
            /\ Lua(u) \/ UNCHANGED <<redisStock, released>>
            /\ GoOn(t, "apply", u)
    /\ UNCHANGED <<accepted, dbVars, created, due, request>>

\* applyOnce, markOutboxDone.
Mark(t) ==
    /\ thread[t].pc = "mark"
    /\ \E u \in Next1(t, event) :
         /\ \/ outbox' = [outbox EXCEPT ![u] = "done"] /\ UNCHANGED faults
            \/ UNCHANGED outbox /\ Fault
         /\ GoOn(t, "apply", u)
    /\ UNCHANGED <<redisStock, accepted, released, dbStock, status, event, audits,
                   created, due, request>>

\* The JVM of the thread ends, another takes its place.
Halt(t) ==
    /\ thread[t].pc # "idle"
    /\ Fault
    /\ thread' = [thread EXCEPT ![t] = Idle]
    /\ UNCHANGED <<redisStock, accepted, released, dbVars, created, due, request>>

----------------------------------------------------------------------------
Http(p) == \/ \E kind \in Kinds, u \in Users : Ask(p, kind, u)
           \/ Read(p) \/ Update(p) \/ Reread(p) \/ Abandon(p)

Scheduled(t) == \/ CloseScan(t) \/ CloseOne(t)
                \/ ReleaseScan(t) \/ Apply(t) \/ Mark(t) \/ Halt(t)

Next == \/ \E u \in Users : Accept(u) \/ Persist(u)
        \/ \E p \in Requests : Http(p)
        \/ \E t \in Schedulers : Scheduled(t)
        \/ BecomeDue

Spec == Init /\ [][Next]_vars

\* Time passes; a thread runs what it has scanned, and both jobs come round again and
\* again, whichever of them the thread runs in between.
FairSpec ==
    /\ Spec
    /\ WF_vars(BecomeDue)
    /\ \A t \in Schedulers :
         /\ WF_vars(CloseOne(t) \/ Apply(t) \/ Mark(t))
         /\ SF_vars(CloseScan(t))
         /\ SF_vars(ReleaseScan(t))
----------------------------------------------------------------------------
(* Properties                                                              *)

\* The type invariant.
TypeOK ==
    /\ redisStock \in Nat
    /\ accepted \subseteq Users
    /\ released \subseteq Users
    /\ dbStock \in Nat
    /\ status \in [Users -> Status]
    /\ created \in [Users -> Nat]
    /\ due \in Nat
    /\ outbox \in [Users -> {"none", "pending", "done"}]
    /\ event \in [Users -> Nat]
    /\ audits \subseteq Users
    /\ request \in [Requests -> Request]
    /\ thread \in [Schedulers -> Thread]
    /\ faults \in Nat

Cancelled == {u \in Users : status[u] = "cancelled"}

\* A unit is on sale, on its way to a row, held by an order that is not cancelled, or
\* on its way back to Redis: no crash, retry or concurrent worker of the outbox makes
\* or loses one.  So MySQL never refuses an accepted order.
StockBalance ==
    /\ redisStock + Cardinality(accepted \ Rows) + Cardinality(Cancelled \ released) = dbStock
    /\ dbStock + Cardinality(Rows \ Cancelled) = Stock

\* What a cancelled order owes Redis is not forgotten: its outbox row is pending until
\* the script has put the unit back, whichever workers share the batch, die between the
\* script and the mark, or find the row marked by another.
NoneForgotten ==
    \A u \in Cancelled : outbox[u] = "pending" \/ (outbox[u] = "done" /\ u \in released)

\* The requests of a kind that got an answer.
Told(kind, is) == {p \in Requests : request[p].kind = kind /\ request[p].is = is}

\* What a client has been told stays true: a payment answered "ok" is not cancelled by
\* the timeout job or the owner, a refused one has not been taken, and so on.
AnswersTrue ==
    /\ \A p \in Told("pay", "ok")         : status[request[p].order] \in {"paid", "used"}
    /\ \A p \in Told("pay", "refused")    : status[request[p].order] \in {"cancelled", "used"}
    /\ \A p \in Told("cancel", "ok")      : status[request[p].order] = "cancelled"
    /\ \A p \in Told("cancel", "refused") : status[request[p].order] \in {"paid", "used"}
    /\ \A p \in Told("redeem", "ok")      : status[request[p].order] = "used"
                                           /\ request[p].order \in audits

\* An order nobody pays is closed by the timeout job.
Closed == \A u \in Users : status[u] = "unpaid" ~> status[u] # "unpaid"

\* The unit of a cancelled order comes back to Redis, and its outbox row is done.
Returned == \A u \in Users : status[u] = "cancelled" ~> u \in released /\ outbox[u] = "done"

\* What redeemOrder and TRADE-FLOW.md promise of a repeated redemption: one that loses
\* the race against another is answered with success.
RedeemIsIdempotent ==
    [][\A p \in Requests :
         Reread(p) /\ request[p].kind = "redeem" /\ status[request[p].order] = "used"
             => request'[p].is = "ok"]_vars

\* An order here, by its place in the life of an order.
Stage(u) == CASE u \notin accepted         -> "none"
              [] u \in accepted \ Rows     -> "waiting"
              [] u \in Rows \ Cancelled    -> status[u]
              [] u \in Cancelled \ released -> "cancelled"
              [] OTHER                     -> "returned"

Life == INSTANCE VoucherLife WITH
            order <- [u \in Users |-> IF u \in accepted THEN u ELSE None],
            life  <- [u \in Users |-> Stage(u)],
            loose <- FALSE

\* The trade implements the last part of the life of an order: no order is paid after it
\* was cancelled, or cancelled after it was paid, or given back twice, and a unit that
\* is back is sold again only when it is.
LifeRefined == Life!Spec
=============================================================================

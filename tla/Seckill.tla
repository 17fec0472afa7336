------------------------------ MODULE Seckill ------------------------------
(***************************************************************************)
(* The flash sale of one voucher: HTTP acceptance in Redis (seckill.lua),  *)
(* the stream and its consumer group g1, the consumers that turn accepted  *)
(* orders into MySQL rows, the dead-letter table, and the operations that  *)
(* interfere with them (restarts, dead-letter replay, the backfill script).*)
(*                                                                         *)
(* A stream entry is named by its position in the stream.  A consumer      *)
(* stands for one JVM lifetime: buildConsumerName draws a fresh name at    *)
(* every start, so a restart is the start of another member of Consumers.  *)
(***************************************************************************)
EXTENDS Naturals, Sequences, FiniteSets

CONSTANTS
    Users,          \* buyers
    Consumers,      \* JVM lifetimes, each with its own consumer name
    None,           \* no user, no consumer, no value
    Stock,          \* stock of the voucher when it was published
    MaxDeliveries,  \* MAX_DELIVERIES (5)
    OwnScanLimit,   \* OWN_PENDING_SCAN_LIMIT (50)
    ClaimWindow,    \* CLAIM_SCAN_WINDOW (100)
    ClaimBatch,     \* CLAIM_BATCH (10)
    Backlog,        \* malformed entries in the stream before the group exists
    MaxFaults,      \* bound: failing calls and expiries of a live lock
    MaxReplays,     \* bound: dead-letter replays
    MaxBackfills    \* bound: runs of the backfill script that reset the stock

ASSUME SeckillAssumption ==
    /\ None \notin Users
    /\ None \notin Consumers
    /\ None \notin Nat
    /\ IsFiniteSet(Users)
    /\ Stock \in Nat
    /\ MaxDeliveries \in Nat \ {0}
    /\ {OwnScanLimit, ClaimWindow, ClaimBatch} \subseteq Nat \ {0}
    /\ {Backlog, MaxFaults, MaxReplays, MaxBackfills} \subseteq Nat

VARIABLES
    \* Redis
    redisStock,     \* seckill:stock:{voucher}
    idOf,           \* user -> order id (seckill:order set and its id map), 0 if absent
    nextId,         \* the next id RedisIdWorker hands to an accepted order
    hints,          \* order ids in seckill:processing:{user}
    accepts,        \* order ids that have a seckill:accept:{id} key
    stream,         \* bodies of stream.orders, oldest first
    group,          \* does the consumer group exist
    cursor,         \* the group's last delivered entry
    pel,            \* entry -> its pending record in the group
    lock,           \* user -> holder of lock:order:{user}
    \* MySQL
    dbStock,        \* tb_seckill_voucher.stock
    rows,           \* tb_voucher_order
    dead,           \* seckill_dead_letter
    \* the JVMs
    status,         \* consumer -> lifecycle of its JVM
    worker,         \* consumer -> state of its worker thread
    request,        \* user -> the JVM whose checks the user's request has passed
    \* the environment
    snapshot,       \* stock the backfill script has read and not yet written
    faults, replays, backfills

httpVars == <<idOf, nextId, stream>>
dbVars   == <<dbStock, rows, dead>>
jvmVars  == <<status, request>>
envVars  == <<snapshot, replays, backfills>>
vars == <<redisStock, idOf, nextId, hints, accepts, stream, group, cursor, pel, lock,
          dbStock, rows, dead, status, worker, request,
          snapshot, faults, replays, backfills>>

----------------------------------------------------------------------------
(* Data                                                                    *)

Body       == [id : Nat, user : Users \cup {None}]
Malformed  == [id |-> 0, user |-> None]
IsPoison(b) == b.id = 0

PelRecord  == [owner : Consumers \cup {None}, n : Nat, idle : BOOLEAN]
NotPending == [owner |-> None, n |-> 0, idle |-> FALSE]

Why == {"bad", "max", "error"}

Worker == [pc   : {"next", "xclaim", "tryLock", "check", "insert", "unlock",
                   "isolate", "clear", "ack"},
           mode : {"own", "other"},
           todo : SUBSET [e : Nat, n : Nat],
           cur  : Nat,
           res  : {"none", "ok", "retry"} \cup Why]

NoWorker  == [pc |-> "next", mode |-> "own", todo |-> {}, cur |-> 0, res |-> "none"]

\* The delivery counter.  Counts beyond the limit are not told apart.
Bump(n) == IF n < MaxDeliveries THEN n + 1 ELSE n

Entries   == DOMAIN stream
Pending   == {e \in Entries : pel[e].owner # None}
First(k, S) == {e \in S : Cardinality({d \in S : d <= e}) <= k}

\* A row of this id or of this buyer: the two checks, and the two unique keys.
Exists(b) == \E r \in rows : r.id = b.id \/ r.user = b.user

Accepted  == {u \in Users : idOf[u] # 0}

\* The gate of a JVM is open from the end of start() to the end of stop().
Ready(c)  == status[c] \in {"up", "stopping"}

Fault == /\ faults < MaxFaults
         /\ faults' = faults + 1

----------------------------------------------------------------------------
Init ==
    /\ redisStock = Stock
    /\ idOf = [u \in Users |-> 0]
    /\ nextId = 1
    /\ hints = {}
    /\ accepts = {}
    /\ stream = [i \in 1..Backlog |-> Malformed]
    /\ group = FALSE
    /\ cursor = 0
    /\ pel = [i \in 1..Backlog |-> NotPending]
    /\ lock = [u \in Users |-> None]
    /\ dbStock = Stock
    /\ rows = {}
    /\ dead = {}
    /\ status = [c \in Consumers |-> "new"]
    /\ worker = [c \in Consumers |-> NoWorker]
    /\ request = [u \in Users |-> None]
    /\ snapshot = None
    /\ faults = 0
    /\ replays = 0
    /\ backfills = 0

----------------------------------------------------------------------------
(* HTTP: POST /voucher-order/seckill/{id}                                  *)

\* The request passes the gate and the activity window read from MySQL.
Submit(u, c) ==
    /\ request[u] = None
    /\ Ready(c)
    /\ request' = [request EXCEPT ![u] = c]
    /\ UNCHANGED <<redisStock, httpVars, hints, accepts, group, cursor, pel, lock,
                   dbVars, status, worker, envVars, faults>>

\* Fault for RedisLedger and RowsAreAccepted: the duplicate test is dropped.
AdmitsTwice(u) == redisStock > 0

\* Fault for TypeOK: the stock test is dropped.
AdmitsSoldOut(u) == idOf[u] = 0

\* The two tests of seckill.lua.  The window was tested with the same clock value
\* when the request passed Submit, and the keys are published.
Admits(u) == redisStock > 0 /\ idOf[u] = 0

\* seckill.lua answers 1 (sold out) or 2 (duplicate): stock is tested first.
LuaReject(u) ==
    /\ request[u] # None
    /\ ~Admits(u)
    /\ request' = [request EXCEPT ![u] = None]
    /\ UNCHANGED <<redisStock, httpVars, hints, accepts, group, cursor, pel, lock,
                   dbVars, status, worker, envVars, faults>>

\* seckill.lua answers 0: one atomic script.  The gate is not looked at again.
LuaAccept(u) ==
    /\ request[u] # None
    /\ Admits(u)
    /\ redisStock' = redisStock - 1
    /\ idOf' = [idOf EXCEPT ![u] = nextId]
    /\ nextId' = nextId + 1
    /\ hints' = hints \cup {nextId}
    /\ accepts' = accepts \cup {nextId}
    /\ stream' = Append(stream, [id |-> nextId, user |-> u])
    /\ pel' = Append(pel, NotPending)
    /\ request' = [request EXCEPT ![u] = None]
    /\ UNCHANGED <<group, cursor, lock, dbVars, status, worker, envVars, faults>>

----------------------------------------------------------------------------
(* Lifecycle of a JVM                                                      *)

\* Bound: the names do not run out, some other JVM runs or is still to start.
Spare(c) == \E d \in Consumers \ {c} : status[d] \in {"new", "up"}

\* Fault for NoEntryLost: the group is created at $.
OffsetDollar == Len(stream)

\* The offset of XGROUP CREATE, 0-0.
FirstOffset == 0

\* start(): XGROUP CREATE at 0-0 (or BUSYGROUP), gate opened, worker started.
\* recoverOwnPending finds nothing: the name is new.  The worker is left where
\* claimIdleFromOthers begins.
Start(c) ==
    /\ status[c] = "new"
    /\ group' = TRUE
    /\ cursor' = IF group THEN cursor ELSE FirstOffset
    /\ status' = [status EXCEPT ![c] = "up"]
    /\ worker' = [worker EXCEPT ![c] = NoWorker]
    /\ UNCHANGED <<redisStock, httpVars, hints, accepts, pel, lock, dbVars, request,
                   envVars, faults>>

\* start() when the group cannot be created: the gate stays closed.
StartRefused(c) ==
    /\ status[c] = "new"
    /\ Spare(c)
    /\ Fault
    /\ status' = [status EXCEPT ![c] = "refused"]
    /\ UNCHANGED <<redisStock, httpVars, hints, accepts, group, cursor, pel, lock,
                   dbVars, worker, request, envVars>>

\* stop(): running = false.  The gate closes only after the worker is joined.
Stop(c) ==
    /\ status[c] = "up"
    /\ Spare(c)
    /\ status' = [status EXCEPT ![c] = "stopping"]
    /\ UNCHANGED <<redisStock, httpVars, hints, accepts, group, cursor, pel, lock,
                   dbVars, worker, request, envVars, faults>>

\* The JVM ends: a crash, or the end of stop(), which joins the worker for at
\* most 3 s.  Requests it was serving are gone.
Exit(c) ==
    /\ status[c] # "new" /\ status[c] # "down"
    /\ Spare(c)
    /\ status' = [status EXCEPT ![c] = "down"]
    /\ worker' = [worker EXCEPT ![c] = NoWorker]
    /\ request' = [u \in Users |-> IF request[u] = c THEN None ELSE request[u]]
    /\ UNCHANGED <<redisStock, httpVars, hints, accepts, group, cursor, pel, lock,
                   dbVars, envVars, faults>>

----------------------------------------------------------------------------
(* The worker thread: loop(), recoverOwnPending(), claimIdleFromOthers()   *)

workerUnchanged == <<redisStock, httpVars, jvmVars, envVars>>

\* The top of loop(): no record in hand, no scan under way.
AtLoop(c) == /\ worker[c].pc = "next"
             /\ worker[c].mode = "other"
             /\ worker[c].todo = {}

\* The record in hand is dealt with; the scan goes on.
NextRecord(c) == worker' = [worker EXCEPT ![c].pc = "next", ![c].cur = 0, ![c].res = "none"]

Goto(c, label) == worker' = [worker EXCEPT ![c].pc = label]

GotoWith(c, label, result) ==
    worker' = [worker EXCEPT ![c].pc = label, ![c].res = result]

\* XREADGROUP >: the next undelivered entry, a new pending record.
Read(c) ==
    /\ status[c] = "up"
    /\ AtLoop(c)
    /\ cursor < Len(stream)
    /\ cursor' = cursor + 1
    /\ pel' = [pel EXCEPT ![cursor + 1] = [owner |-> c, n |-> 1, idle |-> FALSE]]
    /\ worker' = [worker EXCEPT ![c].todo = {[e |-> cursor + 1, n |-> 0]}]
    /\ UNCHANGED <<workerUnchanged, hints, accepts, group, lock, dbVars, faults>>

OwnTodo(c) == {[e |-> e, n |-> pel[e].n] :
                 e \in First(OwnScanLimit, {d \in Pending : pel[d].owner = c})}

\* Fault for NoPoisonByRetry: XREADGROUP of id 0, which delivers again.
OwnScanRedelivers(c) ==
    /\ status[c] = "up"
    /\ AtLoop(c)
    /\ worker' = [worker EXCEPT
         ![c].mode = "own",
         ![c].todo = {[t EXCEPT !.n = Bump(@)] : t \in OwnTodo(c)}]
    /\ pel' = [e \in Entries |-> IF pel[e].owner = c
                                 THEN [pel[e] EXCEPT !.n = Bump(@)] ELSE pel[e]]
    /\ UNCHANGED <<workerUnchanged, hints, accepts, group, cursor, lock, dbVars, faults>>

\* Every 15 s: XPENDING of this consumer.  Delivery counts are those of the
\* snapshot, and nothing is delivered again.
OwnScan(c) ==
    /\ status[c] = "up"
    /\ AtLoop(c)
    /\ worker' = [worker EXCEPT ![c].mode = "own", ![c].todo = OwnTodo(c)]
    /\ UNCHANGED <<workerUnchanged, hints, accepts, group, cursor, pel, lock, dbVars, faults>>

\* recoverOwnPending leaves its loop once running is false.
BreakOff(c) ==
    /\ status[c] = "stopping"
    /\ worker[c].pc = "next" /\ worker[c].mode = "own" /\ worker[c].todo # {}
    /\ worker' = [worker EXCEPT ![c].todo = {}]
    /\ UNCHANGED <<workerUnchanged, hints, accepts, group, cursor, pel, lock, dbVars, faults>>

\* Fault for Drained: the two consumer names are compared the wrong way round.
ClaimableOwn(c, e) == pel[e].owner = c /\ pel[e].idle

\* Held by another consumer and not delivered for 30 s.
Claimable(c, e) == pel[e].owner # c /\ pel[e].idle

\* XPENDING of the group: among its first ClaimWindow entries, at most
\* ClaimBatch of those it may take.
ClaimScan(c) ==
    /\ Ready(c)
    /\ worker[c].pc = "next" /\ worker[c].mode = "own" /\ worker[c].todo = {}
    /\ LET batch == First(ClaimBatch, {e \in First(ClaimWindow, Pending) : Claimable(c, e)})
       IN  worker' = [worker EXCEPT
             ![c].mode = "other",
             ![c].pc   = IF batch = {} THEN "next" ELSE "xclaim",
             ![c].todo = {[e |-> e, n |-> 0] : e \in batch}]
    /\ UNCHANGED <<workerUnchanged, hints, accepts, group, cursor, pel, lock, dbVars, faults>>

\* XCLAIM takes those of the batch that are still pending and still idle.
XClaim(c) ==
    /\ Ready(c)
    /\ worker[c].pc = "xclaim"
    /\ LET claimed == {t \in worker[c].todo : pel[t.e].owner # None /\ pel[t.e].idle}
           ids     == {t.e : t \in claimed}
       IN  /\ pel' = [e \in Entries |->
                        IF e \in ids
                        THEN [owner |-> c, n |-> Bump(pel[e].n), idle |-> FALSE]
                        ELSE pel[e]]
           /\ worker' = [worker EXCEPT ![c].pc = "next", ![c].todo = claimed]
    /\ UNCHANGED <<workerUnchanged, hints, accepts, group, cursor, lock, dbVars, faults>>

\* lookupDeliveryCount: this consumer's pending record, or 1.
LookupCount(c, e) == IF pel[e].owner = c THEN pel[e].n ELSE 1

\* handle() up to applyWithLock: parse, then the delivery limit.
Dispatch(c, t, n) ==
    worker' = [worker EXCEPT
      ![c].todo = @ \ {t},
      ![c].cur  = t.e,
      ![c].pc   = IF IsPoison(stream[t.e]) \/ n >= MaxDeliveries
                  THEN "isolate" ELSE "tryLock",
      ![c].res  = IF IsPoison(stream[t.e]) THEN "bad"
                  ELSE IF n >= MaxDeliveries THEN "max" ELSE "none"]

\* The oldest record of the scan is handed to the handler.
Take(c) ==
    /\ Ready(c)
    /\ worker[c].pc = "next"
    /\ worker[c].mode = "own" => status[c] = "up"
    /\ \E t \in worker[c].todo :
         /\ \A s \in worker[c].todo : t.e <= s.e
         /\ \/ /\ Dispatch(c, t, IF t.n = 0 THEN LookupCount(c, t.e) ELSE t.n)
               /\ UNCHANGED faults
            \/ t.n = 0 /\ Fault /\ Dispatch(c, t, 1)     \* the lookup fails
    /\ UNCHANGED <<workerUnchanged, hints, accepts, group, cursor, pel, lock, dbVars>>

\* A Redis or MySQL call outside handle()'s try throws: the catch of the scan
\* ends it, what is left of it waits for a later one.
CallFails(c) ==
    /\ Ready(c)
    /\ Fault
    /\ \/ /\ \/ worker[c].pc \in {"xclaim", "isolate", "ack"}
             \/ worker[c].pc = "next" /\ worker[c].todo # {}
          /\ worker' = [worker EXCEPT ![c].pc = "next", ![c].todo = {},
                                      ![c].cur = 0, ![c].res = "none"]
       \/ /\ worker[c].pc = "next" /\ worker[c].mode = "own" /\ worker[c].todo = {}
          /\ worker' = [worker EXCEPT ![c].mode = "other"]
       \/ /\ AtLoop(c) /\ status[c] = "up"
          /\ worker' = [worker EXCEPT ![c].mode = "own"]
    /\ UNCHANGED <<workerUnchanged, hints, accepts, group, cursor, pel, lock, dbVars>>

----------------------------------------------------------------------------
(* The handler: applyWithLock, createVoucherOrder, isolate, the hints, XACK *)

Order(c) == stream[worker[c].cur]
Buyer(c) == Order(c).user

\* Fault for LockExcludes: the lock is not looked at.
LockIgnored(c) == TRUE

\* The lock of the buyer is free or, the lock being re-entrant, one's own.
LockFree(c) == lock[Buyer(c)] \in {None, c}

\* Redisson tryLock, re-entrant.  Busy: RETRY, no ACK.
TryLock(c) ==
    /\ Ready(c)
    /\ worker[c].pc = "tryLock"
    /\ \/ /\ LockFree(c)
          /\ lock' = [lock EXCEPT ![Buyer(c)] = c]
          /\ Goto(c, "check")
          /\ UNCHANGED faults
       \/ /\ ~LockFree(c)
          /\ NextRecord(c)
          /\ UNCHANGED <<lock, faults>>
       \/ /\ Fault                      \* the call throws
          /\ NextRecord(c) \/ GotoWith(c, "isolate", "error")
          /\ UNCHANGED lock
    /\ UNCHANGED <<workerUnchanged, hints, accepts, group, cursor, pel, dbVars>>

\* createVoucherOrder, its reads: is there a row of this id or of this user?
Check(c) ==
    /\ Ready(c)
    /\ worker[c].pc = "check"
    /\ \/ /\ IF Exists(Order(c)) THEN GotoWith(c, "unlock", "ok") ELSE Goto(c, "insert")
          /\ UNCHANGED faults
       \/ /\ Fault
          /\ \E r \in {"retry", "error"} : GotoWith(c, "unlock", r)
    /\ UNCHANGED <<workerUnchanged, hints, accepts, group, cursor, pel, lock, dbVars>>

\* Fault for DbLedger: the unique keys are dropped.
CommitTwice(b) ==
    /\ dbStock > 0
    /\ dbStock' = dbStock - 1
    /\ rows' = rows \cup {b}

\* Fault for LifeRefined: the decrement is not conditional.
CommitUnguarded(b) ==
    /\ ~Exists(b)
    /\ dbStock' = dbStock - 1
    /\ rows' = rows \cup {b}

\* The transaction's effect when it commits.
Commit(b) ==
    /\ dbStock > 0
    /\ ~Exists(b)
    /\ dbStock' = dbStock - 1
    /\ rows' = rows \cup {b}

\* createVoucherOrder, its writes: conditional decrement, insert, commit.  A
\* duplicate key rolls the decrement back and counts as success.  A fault may
\* hide a commit that took place.
Insert(c) ==
    /\ Ready(c)
    /\ worker[c].pc = "insert"
    /\ \/ /\ Commit(Order(c))
          /\ GotoWith(c, "unlock", "ok")
          /\ UNCHANGED faults
       \/ /\ dbStock > 0 /\ Exists(Order(c))
          /\ GotoWith(c, "unlock", "ok")
          /\ UNCHANGED <<dbStock, rows, faults>>
       \/ /\ dbStock = 0
          /\ GotoWith(c, "unlock", "retry")
          /\ UNCHANGED <<dbStock, rows, faults>>
       \/ /\ Fault
          /\ Commit(Order(c)) \/ UNCHANGED <<dbStock, rows>>
          /\ \E r \in {"retry", "error"} : GotoWith(c, "unlock", r)
    /\ UNCHANGED <<workerUnchanged, hints, accepts, group, cursor, pel, lock, dead>>

\* Fault for UnsettledIsProcessing: an unexpected exception is acknowledged
\* without a dead-letter row.
SettleDropsErrors(c, result) ==
    \/ result = "retry" /\ NextRecord(c)
    \/ result # "retry" /\ GotoWith(c, "clear", result)

\* Where handle() goes with the outcome of applyWithLock.
Settle(c, result) ==
    \/ result = "ok"    /\ GotoWith(c, "clear", "ok")
    \/ result = "retry" /\ NextRecord(c)
    \/ result = "error" /\ GotoWith(c, "isolate", "error")

\* finally { lock.unlock() }.  Not the holder any more: IllegalMonitorState,
\* which replaces the outcome and, its text naming the lock, means RETRY.
Unlock(c) ==
    /\ Ready(c)
    /\ worker[c].pc = "unlock"
    /\ \/ /\ lock[Buyer(c)] = c
          /\ lock' = [lock EXCEPT ![Buyer(c)] = None]
          /\ Settle(c, worker[c].res)
          /\ UNCHANGED faults
       \/ /\ lock[Buyer(c)] # c
          /\ NextRecord(c)
          /\ UNCHANGED <<lock, faults>>
       \/ /\ Fault                      \* the call throws
          /\ UNCHANGED lock
          /\ Settle(c, "retry") \/ Settle(c, "error")
    /\ UNCHANGED <<workerUnchanged, hints, accepts, group, cursor, pel, dbVars>>

\* isolate(): a dead-letter row, before any ACK.
Isolate(c) ==
    /\ Ready(c)
    /\ worker[c].pc = "isolate"
    /\ dead' = dead \cup {[e |-> worker[c].cur, why |-> worker[c].res]}
    /\ Goto(c, IF worker[c].res = "bad" THEN "ack" ELSE "clear")
    /\ UNCHANGED <<workerUnchanged, hints, accepts, group, cursor, pel, lock,
                   dbStock, rows, faults>>

\* clearProcessingHints(): SREM then DEL, failures swallowed.
Clear(c) ==
    /\ Ready(c)
    /\ worker[c].pc = "clear"
    /\ \/ /\ hints' = hints \ {Order(c).id}
          /\ accepts' = accepts \ {Order(c).id}
          /\ UNCHANGED faults
       \/ /\ Fault
          /\ hints' = hints \ {Order(c).id} \/ UNCHANGED hints
          /\ UNCHANGED accepts
    /\ Goto(c, "ack")
    /\ UNCHANGED <<workerUnchanged, group, cursor, pel, lock, dbVars>>

\* XACK after SUCCESS or POISON, whoever owns the pending record by now.
Ack(c) ==
    /\ Ready(c)
    /\ worker[c].pc = "ack"
    /\ pel' = [pel EXCEPT ![worker[c].cur] = NotPending]
    /\ NextRecord(c)
    /\ UNCHANGED <<workerUnchanged, hints, accepts, group, cursor, lock, dbVars, faults>>

----------------------------------------------------------------------------
(* Time and operations                                                     *)

\* 30 s pass without a delivery of a pending entry.
BecomeIdle(e) ==
    /\ e \in Pending /\ ~pel[e].idle
    /\ pel' = [pel EXCEPT ![e].idle = TRUE]
    /\ UNCHANGED <<redisStock, httpVars, hints, accepts, group, cursor, lock, dbVars,
                   jvmVars, worker, envVars, faults>>

InSection(c, u) == /\ Ready(c)
                   /\ worker[c].pc \in {"check", "insert", "unlock"}
                   /\ Buyer(c) = u

\* The lease of a lock runs out.  The watchdog renews the lease of a thread that
\* is inside the section, so there it takes a fault (a long pause, a partition).
LockExpire(u) ==
    /\ lock[u] # None
    /\ lock' = [lock EXCEPT ![u] = None]
    /\ IF InSection(lock[u], u) THEN Fault ELSE UNCHANGED faults
    /\ UNCHANGED <<redisStock, httpVars, hints, accepts, group, cursor, pel, dbVars,
                   jvmVars, worker, envVars>>

LeaseRunsOut(u) == lock[u] # None /\ ~InSection(lock[u], u) /\ LockExpire(u)

\* Fault for SaleRefined: the row goes when its body is replayed.
ReplayConsumes(d) ==
    /\ replays < MaxReplays
    /\ ~IsPoison(stream[d.e])
    /\ stream' = Append(stream, stream[d.e])
    /\ pel' = Append(pel, NotPending)
    /\ replays' = replays + 1
    /\ dead' = dead \ {d}
    /\ UNCHANGED <<redisStock, idOf, nextId, hints, accepts, group, cursor, lock, dbStock,
                   rows, jvmVars, worker, snapshot, faults, backfills>>

\* SeckillDeadLetterService.replay: the body is appended again, unless it is
\* malformed.  The dead-letter row stays.
Replay(d) ==
    /\ replays < MaxReplays
    /\ ~IsPoison(stream[d.e])
    /\ stream' = Append(stream, stream[d.e])
    /\ pel' = Append(pel, NotPending)
    /\ replays' = replays + 1
    /\ UNCHANGED <<redisStock, idOf, nextId, hints, accepts, group, cursor, lock, dbVars,
                   jvmVars, worker, snapshot, faults, backfills>>

\* backfill-seckill-window.sh without SKIP_STOCK: one SELECT, later one SET.
BackfillRead ==
    /\ backfills < MaxBackfills
    /\ snapshot = None
    /\ snapshot' = dbStock
    /\ backfills' = backfills + 1
    /\ UNCHANGED <<redisStock, httpVars, hints, accepts, group, cursor, pel, lock, dbVars,
                   jvmVars, worker, faults, replays>>

BackfillWrite ==
    /\ snapshot # None
    /\ redisStock' = snapshot
    /\ snapshot' = None
    /\ UNCHANGED <<httpVars, hints, accepts, group, cursor, pel, lock, dbVars,
                   jvmVars, worker, faults, replays, backfills>>

----------------------------------------------------------------------------
Http(u) == LuaReject(u) \/ LuaAccept(u) \/ \E c \in Consumers : Submit(u, c)

Lifecycle(c) == Start(c) \/ StartRefused(c) \/ Stop(c) \/ Exit(c)

Handle(c) == \/ TryLock(c) \/ Check(c) \/ Insert(c) \/ Unlock(c)
             \/ Isolate(c) \/ Clear(c) \/ Ack(c)

Scan(c) == \/ Read(c) \/ OwnScan(c) \/ BreakOff(c) \/ ClaimScan(c) \/ XClaim(c)
           \/ Take(c) \/ CallFails(c)

Environment == \/ \E e \in Entries : BecomeIdle(e)
               \/ \E u \in Users : LockExpire(u)
               \/ \E d \in dead : Replay(d)
               \/ BackfillRead \/ BackfillWrite

Next == \/ \E u \in Users : Http(u)
        \/ \E c \in Consumers : Lifecycle(c) \/ Scan(c) \/ Handle(c)
        \/ Environment

Spec == Init /\ [][Next]_vars

\* What the deployment schedules: a JVM that is to start does; a worker thread runs
\* (its calls block for at most 2 s); the 15 s scan and the read both come round
\* again and again, so they are strongly fair; time passes for pending records and
\* for locks nobody is using.  Nobody has to buy, fail, crash or run a script.
MaxEntries == Backlog + Cardinality(Users) + MaxReplays

FairSpec ==
    /\ Spec
    /\ \A c \in Consumers :
         /\ WF_vars(Start(c))
         /\ WF_vars(ClaimScan(c) \/ XClaim(c) \/ Take(c) \/ Handle(c))
         /\ SF_vars(OwnScan(c))
         /\ SF_vars(Read(c))
    /\ \A e \in 1..MaxEntries : WF_vars(BecomeIdle(e))
    /\ \A u \in Users : WF_vars(LeaseRunsOut(u))
----------------------------------------------------------------------------
(* Properties                                                              *)

\* The type invariant.
TypeOK ==
    /\ redisStock \in Nat
    /\ idOf \in [Users -> Nat]
    /\ nextId \in Nat \ {0}
    /\ hints \subseteq Nat
    /\ accepts \subseteq Nat
    /\ stream \in Seq(Body)
    /\ group \in BOOLEAN
    /\ cursor \in 0..Len(stream)
    /\ pel \in Seq(PelRecord)
    /\ Len(pel) = Len(stream)
    /\ lock \in [Users -> Consumers \cup {None}]
    /\ dbStock \in Nat
    /\ rows \subseteq Body
    /\ dead \subseteq [e : Entries, why : Why]
    /\ status \in [Consumers -> {"new", "refused", "up", "stopping", "down"}]
    /\ worker \in [Consumers -> Worker]
    /\ request \in [Users -> Consumers \cup {None}]
    /\ snapshot \in Nat \cup {None}
    /\ faults \in Nat /\ replays \in Nat /\ backfills \in Nat

Sold(b)         == \E r \in rows : r.user = b.user
DeadLettered(e) == \E d \in dead : d.e = e
Settled(e)      == Sold(stream[e]) \/ DeadLettered(e)

\* No entry of the stream is ever lost: it waits for the group, it is pending, or
\* its buyer has a row, or it has a dead-letter row.  XACK is the only way out of
\* the pending list, and crashes, failing calls, claims and a group created over
\* an existing stream must not open another.
NoEntryLost == \A e \in Entries : e > cursor \/ e \in Pending \/ Settled(e)

\* createVoucherOrder moves one unit of stock per row, whatever was delivered
\* twice, claimed while in progress, rolled back or committed without an answer.
DbLedger == dbStock + Cardinality(rows) = Stock

\* Every row is the one order that Redis accepted for its buyer, so a buyer never
\* has two, and an answer "your order is n" names the row that gets written.
RowsAreAccepted == \A r \in rows : r.user \in Users /\ idOf[r.user] = r.id

\* The Redis counter is the published stock less the accepted buyers: nothing but
\* seckill.lua and the backfill script moves it.  MySQL never runs out first.
RedisLedger == backfills = 0 => /\ redisStock + Cardinality(Accepted) = Stock
                                /\ redisStock <= dbStock

\* An accepted order with neither a row nor a dead letter is still visible as
\* PROCESSING: its hints are cleared only after its fate is recorded.
UnsettledIsProcessing ==
    \A e \in Entries :
        ~IsPoison(stream[e]) /\ (\A f \in Entries : stream[f] = stream[e] => ~Settled(f))
            => stream[e].id \in hints /\ stream[e].id \in accepts

\* Without a fault the lock keeps two consumers from working on one buyer at once,
\* although the same entry may be in the hands of both after a claim.
LockExcludes ==
    faults = 0 => \A b, c \in Consumers, u \in Users :
                      InSection(b, u) /\ InSection(c, u) => b = c

\* Everything accepted gets a row or a dead letter and leaves the pending list,
\* whichever JVMs die meanwhile, as long as the stock was not rewritten.
Drained == []<>(cursor = Len(stream) /\ Pending = {})

\* Scans of a consumer's own pending records never spend the delivery limit: only
\* a hand-over to another JVM does, so a lone JVM dead-letters no order as "max".
NoPoisonByRetry ==
    (\E d \in dead : d.why = "max") /\ MaxDeliveries > 1
        => \E b, c \in Consumers : b # c /\ status[b] # "new" /\ status[c] # "new"

\* What SECKILL.md promises of a redelivery: an order that has its row is answered
\* SUCCESS and acknowledged, it does not become a dead letter.
PersistedIsSuccess ==
    [][\A d \in dead' \ dead : d.why = "max" => ~\E r \in rows : r.id = stream[d.e].id]_vars

\* What the comment on claimIdleFromOthers promises: a consumer's own pending
\* entries do not hide idle entries of others, so a scan claims something when
\* there is something to claim.
ForeignIsNotHidden ==
    [][\A c \in Consumers : ClaimScan(c) /\ (\E e \in Pending : Claimable(c, e))
                                => worker'[c].pc = "xclaim"]_vars

\* The abstract sale: buyers accepted, sold to, and given a dead letter.
Sale == INSTANCE SeckillSale WITH
            accepted <- Accepted,
            sold     <- {r.user : r \in rows},
            failed   <- {stream[d.e].user : d \in {x \in dead : ~IsPoison(stream[x.e])}}

\* The pipeline implements the abstract sale: it sells only to accepted buyers,
\* once each, never more than the stock, and takes nothing back.
SaleRefined == Sale!Spec

\* The stage of a buyer's order, as far as the pipeline takes it.
Stage(u) == IF idOf[u] = 0 THEN "none"
            ELSE IF \E r \in rows : r.user = u THEN "unpaid" ELSE "waiting"

Life == INSTANCE VoucherLife WITH
            None  <- 0,
            order <- idOf,
            life  <- [u \in Users |-> Stage(u)],
            loose <- backfills > 0

\* The pipeline implements the middle part of the life of an order: an id is given once
\* and stays, and a row is only written for the buyer who was given its id, while MySQL
\* has a unit.
LifeRefined == Life!Spec
=============================================================================

------------------------ MODULE SeckillSafetyProofs ------------------------
(***************************************************************************)
(* The safety of the order pipeline, for every number of buyers, JVMs,     *)
(* faults, replays and backfills: whom the rows belong to, that no entry   *)
(* is lost, that stock and rows balance, that the sale is implemented, and *)
(* the pipeline's part of the life of an order.                            *)
(***************************************************************************)
EXTENDS SeckillProofs

(***************************************************************************)
(* DataInv: every well-formed entry carries the id its buyer was given,    *)
(* ids are given once, rows are such orders, and a worker past the parsing *)
(* holds a well-formed one.                                                *)
(***************************************************************************)
Genuine(b) == b.user \in Users /\ idOf[b.user] = b.id

EntriesGenuine == \A e \in Entries : IsPoison(stream[e]) \/ Genuine(stream[e])

IdsGivenOnce ==
    /\ \A u \in Users : idOf[u] < nextId
    /\ \A u, v \in Users : idOf[u] = idOf[v] /\ idOf[u] # 0 => u = v

RowsGenuine == \A r \in rows : ~IsPoison(r) /\ Genuine(r)

HoldsOrder(c) ==
    worker[c].pc \in {"tryLock", "check", "insert", "unlock"} => ~IsPoison(Order(c))

DataInv == /\ EntriesGenuine
           /\ IdsGivenOnce
           /\ RowsGenuine
           /\ \A c \in Consumers : HoldsOrder(c)

(***************************************************************************)
(* SettledInv: what a worker is about to acknowledge is settled, so what   *)
(* has left the pending list is settled.                                   *)
(***************************************************************************)
HoldsSettled(c) ==
    /\ worker[c].pc \in {"clear", "ack"} => Settled(worker[c].cur)
    /\ worker[c].pc = "unlock" /\ worker[c].res = "ok" => Settled(worker[c].cur)

SettledInv == NoEntryLost /\ \A c \in Consumers : HoldsSettled(c)

Inv == TypeInv /\ DataInv /\ SettledInv

----------------------------------------------------------------------------
(* How each kind of step moves the workers and what it leaves alone        *)

Others(c) == \A d \in Consumers \ {c} : worker'[d] = worker[d]

\* What the effects of the worker's helpers are, field by field.
LEMMA NextRecordMoves ==
    ASSUME TypeInv, NEW c \in Consumers, NextRecord(c)
    PROVE  worker'[c].pc = "next" /\ Others(c)
<1>1. worker \in [Consumers -> Worker] /\ worker[c] \in Worker
  BY DEF TypeInv, TypeOK
<1> QED BY <1>1 DEF NextRecord, Others, Worker

LEMMA GotoWithMoves ==
    ASSUME TypeInv, NEW c \in Consumers, NEW label, NEW result, GotoWith(c, label, result)
    PROVE  /\ worker'[c].pc = label /\ worker'[c].res = result
           /\ worker'[c].cur = worker[c].cur
           /\ Others(c)
<1>1. worker \in [Consumers -> Worker] /\ worker[c] \in Worker
  BY DEF TypeInv, TypeOK
<1> QED BY <1>1 DEF GotoWith, Others, Worker

LEMMA GotoMoves ==
    ASSUME TypeInv, NEW c \in Consumers, NEW label, Goto(c, label)
    PROVE  /\ worker'[c].pc = label /\ worker'[c].res = worker[c].res
           /\ worker'[c].cur = worker[c].cur
           /\ Others(c)
<1>1. worker \in [Consumers -> Worker] /\ worker[c] \in Worker
  BY DEF TypeInv, TypeOK
<1> QED BY <1>1 DEF Goto, Others, Worker

\* The handler keeps the record in hand until it is done with it, and reaches a
\* successful unlock, the clearing and the ACK only by the ways listed.
LEMMA HandleMoves ==
    ASSUME TypeInv, NEW c \in Consumers, Handle(c)
    PROVE  /\ UNCHANGED <<workerUnchanged, group, cursor>>
           /\ Others(c)
           /\ \/ worker'[c].pc = "next"
              \/ worker'[c].cur = worker[c].cur /\ worker[c].cur \in Entries
           /\ worker'[c].pc \in {"next", "check", "insert", "unlock", "isolate", "clear", "ack"}
           /\ worker'[c].pc \in {"check", "insert", "unlock"}
                => worker[c].pc \in {"tryLock", "check", "insert"}
           /\ worker'[c].pc = "unlock" /\ worker'[c].res = "ok"
                => /\ worker[c].pc \in {"check", "insert"}
                   /\ Exists(Order(c)) \/ Order(c) \in rows'
           /\ worker'[c].pc \in {"clear", "ack"}
                => \/ worker[c].pc = "unlock" /\ worker[c].res = "ok"
                   \/ worker[c].pc = "clear"
                   \/ \E d \in dead' : d.e = worker[c].cur
<1> USE DEF TypeInv
<1>0. worker[c].pc \notin {"next", "xclaim"} => worker[c].cur \in Entries
  BY DEF WorkerTyped
<1>1. CASE TryLock(c)
  <2>1. NextRecord(c) \/ Goto(c, "check") \/ GotoWith(c, "isolate", "error")
    BY <1>1 DEF TryLock
  <2>2. worker[c].pc = "tryLock" /\ UNCHANGED <<workerUnchanged, group, cursor>>
    BY <1>1 DEF TryLock
  <2> QED BY <1>0, <2>1, <2>2, NextRecordMoves, GotoMoves, GotoWithMoves
<1>2. CASE Check(c)
  <2>1. \/ Goto(c, "insert")
        \/ Exists(Order(c)) /\ GotoWith(c, "unlock", "ok")
        \/ \E r \in {"retry", "error"} : GotoWith(c, "unlock", r)
    BY <1>2 DEF Check
  <2>2. worker[c].pc = "check" /\ UNCHANGED <<workerUnchanged, group, cursor>>
    BY <1>2 DEF Check
  <2> QED BY <1>0, <2>1, <2>2, GotoMoves, GotoWithMoves
<1>3. CASE Insert(c)
  <2>1. \/ Order(c) \in rows' /\ GotoWith(c, "unlock", "ok")
        \/ Exists(Order(c)) /\ GotoWith(c, "unlock", "ok")
        \/ \E r \in {"retry", "error"} : GotoWith(c, "unlock", r)
    BY <1>3 DEF Insert, Commit
  <2>2. worker[c].pc = "insert" /\ UNCHANGED <<workerUnchanged, group, cursor>>
    BY <1>3 DEF Insert
  <2> QED BY <1>0, <2>1, <2>2, GotoWithMoves
<1>4. CASE Unlock(c)
  <2>1. \/ NextRecord(c)
        \/ worker[c].res = "ok" /\ GotoWith(c, "clear", "ok")
        \/ GotoWith(c, "isolate", "error")
    BY <1>4 DEF Unlock, Settle
  <2>2. worker[c].pc = "unlock" /\ UNCHANGED <<workerUnchanged, group, cursor>>
    BY <1>4 DEF Unlock
  <2> QED BY <1>0, <2>1, <2>2, NextRecordMoves, GotoWithMoves
<1>5. CASE Isolate(c)
  <2>1. /\ Goto(c, "ack") \/ Goto(c, "clear")
        /\ \E d \in dead' : d.e = worker[c].cur
    <3>1. dead' = dead \cup {[e |-> worker[c].cur, why |-> worker[c].res]}
      BY <1>5 DEF Isolate
    <3>2. [e |-> worker[c].cur, why |-> worker[c].res] \in dead'
      BY <3>1
    <3> QED BY <1>5, <3>2 DEF Isolate
  <2>2. worker[c].pc = "isolate" /\ UNCHANGED <<workerUnchanged, group, cursor>>
    BY <1>5 DEF Isolate
  <2> QED BY <1>0, <2>1, <2>2, GotoMoves
<1>6. CASE Clear(c)
  <2>1. Goto(c, "ack")
    BY <1>6 DEF Clear
  <2>2. worker[c].pc = "clear" /\ UNCHANGED <<workerUnchanged, group, cursor>>
    BY <1>6 DEF Clear
  <2> QED BY <1>0, <2>1, <2>2, GotoMoves
<1>7. CASE Ack(c)
  <2>1. NextRecord(c) /\ UNCHANGED <<workerUnchanged, group, cursor>>
    BY <1>7 DEF Ack
  <2> QED BY <2>1, NextRecordMoves
<1> QED BY <1>1, <1>2, <1>3, <1>4, <1>5, <1>6, <1>7 DEF Handle

\* A scan touches neither the stream nor MySQL, and hands the handler well-formed
\* records only.
LEMMA ScanMoves ==
    ASSUME TypeInv, NEW c \in Consumers, Scan(c)
    PROVE  /\ UNCHANGED <<workerUnchanged, hints, accepts, group, lock, dbVars>>
           /\ Others(c)
           /\ worker'[c].pc \in {"next", "xclaim", "tryLock", "isolate"}
           /\ worker'[c].pc = "tryLock" => worker[c].pc = "next"
                                           /\ ~IsPoison(stream[worker'[c].cur])
<1>0. worker \in [Consumers -> Worker] /\ worker[c] \in Worker
  BY DEF TypeInv, TypeOK
<1>1. CASE Take(c)
  <2>0. PICK t \in worker[c].todo : \E n : Dispatch(c, t, n)
    BY <1>1 DEF Take
  <2>1. PICK n : Dispatch(c, t, n)
    BY <2>0
  <2>2. worker[c].pc = "next" /\ UNCHANGED <<workerUnchanged, hints, accepts, group, lock, dbVars>>
    BY <1>1 DEF Take
  <2>3. /\ Others(c)
        /\ worker'[c].cur = t.e
        /\ worker'[c].pc \in {"tryLock", "isolate"}
        /\ worker'[c].pc = "tryLock" => ~IsPoison(stream[t.e])
    BY <1>0, <2>1 DEF Dispatch, Others, Worker
  <2> QED BY <2>2, <2>3
<1>2. CASE ~Take(c)
  <2>1. UNCHANGED <<workerUnchanged, hints, accepts, group, lock, dbVars>>
    BY <1>2 DEF Scan, Read, OwnScan, BreakOff, ClaimScan, XClaim, CallFails
  <2>2. Others(c) /\ worker'[c].pc \in {"next", "xclaim"}
    <3>1. CASE Read(c)
      BY <1>0, <3>1 DEF Read, AtLoop, Others, Worker
    <3>2. CASE OwnScan(c)
      BY <1>0, <3>2 DEF OwnScan, AtLoop, Others, Worker
    <3>3. CASE BreakOff(c)
      BY <1>0, <3>3 DEF BreakOff, Others, Worker
    <3>4. CASE ClaimScan(c)
      <4> DEFINE B == First(ClaimBatch, {e \in First(ClaimWindow, Pending) : Claimable(c, e)})
                 T == {[e |-> e, n |-> 0] : e \in B}
                 p == IF B = {} THEN "next" ELSE "xclaim"
                 v == [worker[c] EXCEPT !.mode = "other", !.pc = p, !.todo = T]
      <4>1. worker' = [worker EXCEPT ![c].mode = "other", ![c].pc = p, ![c].todo = T]
        BY <3>4 DEF ClaimScan
      <4>2. p \in {"next", "xclaim"}
        OBVIOUS
      <4> HIDE DEF B, T, p
      <4>3. worker' = [worker EXCEPT ![c] = v] /\ v.pc = p
        BY <1>0, <4>1 DEF Worker
      <4> HIDE DEF v
      <4> QED BY <1>0, <4>2, <4>3 DEF Others
    <3>5. CASE XClaim(c)
      <4>1. PICK T : worker' = [worker EXCEPT ![c].pc = "next", ![c].todo = T]
        BY <3>5 DEF XClaim
      <4> QED BY <1>0, <4>1 DEF Others, Worker
    <3>6. CASE CallFails(c)
      BY <1>0, <3>6 DEF CallFails, AtLoop, Others, Worker
    <3> QED BY <1>2, <3>1, <3>2, <3>3, <3>4, <3>5, <3>6 DEF Scan
  <2> QED BY <2>1, <2>2
<1> QED BY <1>1, <1>2

\* A start, stop or crash leaves every worker as it is or wipes it.
LEMMA LifecycleMoves ==
    ASSUME TypeInv, NEW c \in Consumers, Lifecycle(c)
    PROVE  /\ UNCHANGED <<redisStock, httpVars, hints, accepts, pel, lock, dbVars, envVars>>
           /\ Others(c)
           /\ worker'[c] = worker[c] \/ worker'[c].pc = "next"
           /\ cursor' = cursor \/ cursor' = 0
<1>0. worker \in [Consumers -> Worker]
  BY DEF TypeInv, TypeOK
<1>1. CASE Start(c)
  BY <1>0, <1>1 DEF Start, FirstOffset, NoWorker, Others
<1>2. CASE StartRefused(c)
  BY <1>2 DEF StartRefused, Others
<1>3. CASE Stop(c)
  BY <1>3 DEF Stop, Others
<1>4. CASE Exit(c)
  BY <1>0, <1>4 DEF Exit, NoWorker, Others
<1> QED BY <1>1, <1>2, <1>3, <1>4 DEF Lifecycle

\* The environment touches no worker; it may append a copy of a well-formed entry
\* that has a dead letter.
LEMMA EnvironmentMoves ==
    ASSUME TypeInv, Environment
    PROVE  /\ UNCHANGED <<idOf, nextId, hints, accepts, group, cursor, dbVars, jvmVars, worker>>
           /\ \/ UNCHANGED <<stream, replays>>
              \/ \E d \in dead : /\ d.e \in Entries
                                 /\ ~IsPoison(stream[d.e])
                                 /\ stream' = Append(stream, stream[d.e])
                                 /\ pel' = Append(pel, NotPending)
<1>1. CASE \E e \in Entries : BecomeIdle(e)
  BY <1>1 DEF BecomeIdle, httpVars, envVars
<1>2. CASE \E u \in Users : LockExpire(u)
  BY <1>2 DEF LockExpire, httpVars, envVars
<1>3. CASE \E d \in dead : Replay(d)
  <2> PICK d \in dead : Replay(d)
    BY <1>3
  <2>1. d.e \in Entries
    BY DEF TypeInv, TypeOK
  <2> QED BY <2>1 DEF Replay
<1>4. CASE BackfillRead
  BY <1>4 DEF BackfillRead, httpVars
<1>5. CASE BackfillWrite
  BY <1>5 DEF BackfillWrite, httpVars
<1> QED BY <1>1, <1>2, <1>3, <1>4, <1>5 DEF Environment

\* A request touches no worker and no row; it may append the order it accepts.
LEMMA HttpMoves ==
    ASSUME TypeInv, NEW u \in Users, Http(u)
    PROVE  /\ UNCHANGED <<group, cursor, lock, dbVars, status, worker, envVars>>
           /\ \/ UNCHANGED <<redisStock, httpVars, hints, accepts, pel>>
              \/ LuaAccept(u)
<1>1. CASE LuaReject(u)
  BY <1>1 DEF LuaReject
<1>2. CASE LuaAccept(u)
  BY <1>2 DEF LuaAccept
<1>3. CASE \E c \in Consumers : Submit(u, c)
  BY <1>3 DEF Submit
<1> QED BY <1>1, <1>2, <1>3 DEF Http

\* Rows and dead letters are never taken back.
LEMMA HandleRecords ==
    ASSUME TypeInv, NEW c \in Consumers, Handle(c)
    PROVE  rows \subseteq rows' /\ dead \subseteq dead'
<1>1. CASE Insert(c)
  <2>1. UNCHANGED rows \/ rows' = rows \cup {Order(c)}
    BY <1>1 DEF Insert, Commit
  <2>2. UNCHANGED dead
    BY <1>1 DEF Insert
  <2> QED BY <2>1, <2>2
<1>2. CASE Isolate(c)
  <2>1. UNCHANGED rows /\ dead \subseteq dead'
    BY <1>2 DEF Isolate
  <2> QED BY <2>1
<1>3. CASE ~Insert(c) /\ ~Isolate(c)
  BY <1>3 DEF Handle, TryLock, Check, Unlock, Clear, Ack, dbVars
<1> QED BY <1>1, <1>2, <1>3

\* The stream, the rows and the dead letters only grow, so what is settled stays so.
LEMMA Grows ==
    ASSUME TypeInv, [Next]_vars
    PROVE  /\ Entries \subseteq Entries'
           /\ \A e \in Entries : stream'[e] = stream[e]
           /\ rows \subseteq rows' /\ dead \subseteq dead'
           /\ \A e \in Entries : Settled(e) => Settled(e)'
<1> DEFINE G == /\ Entries \subseteq Entries'
                /\ \A e \in Entries : stream'[e] = stream[e]
                /\ rows \subseteq rows' /\ dead \subseteq dead'
<1>0. TypeOK
  BY DEF TypeInv
<1>1. ASSUME NEW u \in Users, Http(u) PROVE G
  <2>1. UNCHANGED dbVars /\ (UNCHANGED httpVars \/ LuaAccept(u))
    BY <1>1, HttpMoves
  <2>2. CASE UNCHANGED httpVars
    BY <2>1, <2>2 DEF dbVars, httpVars, Entries
  <2>3. CASE LuaAccept(u)
    <3> DEFINE b == [id |-> nextId, user |-> u]
    <3>1. b \in Body
      BY <1>0 DEF TypeOK, Body
    <3>2. stream' = Append(stream, b)
      BY <2>3 DEF LuaAccept
    <3> HIDE DEF b
    <3> QED BY <1>0, <2>1, <3>1, <3>2, StreamAppend, EntryFacts DEF dbVars, Entries
  <2> QED BY <2>1, <2>2, <2>3
<1>2. ASSUME NEW c \in Consumers, Lifecycle(c) PROVE G
  BY <1>2, LifecycleMoves DEF dbVars, httpVars, Entries
<1>3. ASSUME NEW c \in Consumers, Scan(c) PROVE G
  BY <1>3, ScanMoves DEF dbVars, workerUnchanged, httpVars, Entries
<1>4. ASSUME NEW c \in Consumers, Handle(c) PROVE G
  BY <1>4, HandleMoves, HandleRecords DEF workerUnchanged, httpVars, Entries
<1>5. ASSUME Environment PROVE G
  <2>1. UNCHANGED dbVars
    BY <1>5, EnvironmentMoves
  <2>2. CASE UNCHANGED stream
    BY <2>1, <2>2 DEF dbVars, Entries
  <2>3. CASE ~UNCHANGED stream
    <3>1. PICK d \in dead : d.e \in Entries /\ stream' = Append(stream, stream[d.e])
      BY <1>5, <2>3, EnvironmentMoves
    <3>2. stream[d.e] \in Body
      BY <1>0, <3>1, EntryFacts
    <3> QED BY <1>0, <2>1, <3>1, <3>2, StreamAppend, EntryFacts DEF dbVars, Entries
  <2> QED BY <2>2, <2>3
<1>6. ASSUME UNCHANGED vars PROVE G
  BY <1>6 DEF vars, Entries
<1>7. G
  BY <1>1, <1>2, <1>3, <1>4, <1>5, <1>6 DEF Next
<1>8. ASSUME NEW e \in Entries, Settled(e) PROVE Settled(e)'
  BY <1>7, <1>8 DEF Settled, Sold, DeadLettered
<1> QED BY <1>7, <1>8

\* What a step may do to the stream and the ids: nothing, an accepted order, or a
\* copy of a well-formed entry.
LEMMA StreamMoves ==
    ASSUME TypeInv, [Next]_vars
    PROVE  \/ UNCHANGED httpVars
           \/ /\ UNCHANGED <<idOf, nextId, rows, dead, worker, cursor, hints, accepts>>
              /\ pel' = Append(pel, NotPending)
              /\ \E d \in dead : /\ d.e \in Entries /\ ~IsPoison(stream[d.e])
                                 /\ stream' = Append(stream, stream[d.e])
           \/ \E u \in Users : LuaAccept(u)
<1> DEFINE G == \/ UNCHANGED httpVars
                \/ /\ UNCHANGED <<idOf, nextId, rows, dead, worker, cursor, hints, accepts>>
                   /\ pel' = Append(pel, NotPending)
                   /\ \E d \in dead : /\ d.e \in Entries /\ ~IsPoison(stream[d.e])
                                      /\ stream' = Append(stream, stream[d.e])
                \/ \E u \in Users : LuaAccept(u)
<1>1. ASSUME NEW u \in Users, Http(u) PROVE G
  BY <1>1, HttpMoves
<1>2. ASSUME NEW c \in Consumers, Lifecycle(c) PROVE G
  BY <1>2, LifecycleMoves
<1>3. ASSUME NEW c \in Consumers, Scan(c) PROVE G
  BY <1>3, ScanMoves DEF workerUnchanged
<1>4. ASSUME NEW c \in Consumers, Handle(c) PROVE G
  BY <1>4, HandleMoves DEF workerUnchanged
<1>5. ASSUME Environment PROVE G
  BY <1>5, EnvironmentMoves DEF httpVars, dbVars
<1>6. ASSUME UNCHANGED vars PROVE G
  BY <1>6 DEF vars, httpVars
<1> QED BY <1>1, <1>2, <1>3, <1>4, <1>5, <1>6 DEF Next

\* Rows are written by Insert alone.
LEMMA RowsMove ==
    ASSUME TypeInv, [Next]_vars
    PROVE  UNCHANGED <<rows, dbStock>> \/ \E c \in Consumers : Insert(c)
<1> DEFINE G == UNCHANGED <<rows, dbStock>> \/ \E c \in Consumers : Insert(c)
<1>1. ASSUME NEW u \in Users, Http(u) PROVE G
  BY <1>1, HttpMoves DEF dbVars
<1>2. ASSUME NEW c \in Consumers, Lifecycle(c) PROVE G
  BY <1>2, LifecycleMoves DEF dbVars
<1>3. ASSUME NEW c \in Consumers, Scan(c) PROVE G
  BY <1>3, ScanMoves DEF dbVars
<1>4. ASSUME NEW c \in Consumers, Handle(c) PROVE G
  BY <1>4 DEF Handle, TryLock, Check, Unlock, Isolate, Clear, Ack, dbVars
<1>5. ASSUME Environment PROVE G
  BY <1>5, EnvironmentMoves DEF dbVars
<1>6. ASSUME UNCHANGED vars PROVE G
  BY <1>6 DEF vars
<1> QED BY <1>1, <1>2, <1>3, <1>4, <1>5, <1>6 DEF Next

----------------------------------------------------------------------------
(* DataInv                                                                 *)

LEMMA DataInit == Init => DataInv
<1> SUFFICES ASSUME Init PROVE DataInv
  OBVIOUS
<1>1. EntriesGenuine
  BY SeckillAssumption DEF Init, EntriesGenuine, Entries, IsPoison, Malformed
<1>2. IdsGivenOnce
  BY DEF Init, IdsGivenOnce
<1>3. RowsGenuine /\ \A c \in Consumers : HoldsOrder(c)
  BY DEF Init, RowsGenuine, HoldsOrder, NoWorker
<1> QED BY <1>1, <1>2, <1>3 DEF DataInv

\* Ids stay unique, and an order that is its buyer's stays so.
LEMMA IdsStep ==
    ASSUME TypeInv, IdsGivenOnce, [Next]_vars
    PROVE  /\ IdsGivenOnce'
           /\ \A b : ~IsPoison(b) /\ Genuine(b) => idOf'[b.user] = b.id
<1>1. CASE UNCHANGED <<idOf, nextId>>
  BY <1>1 DEF IdsGivenOnce, Genuine
<1>2. CASE \E u \in Users : LuaAccept(u)
  <2> PICK u \in Users : LuaAccept(u)
    BY <1>2
  <2>1. /\ idOf[u] = 0 /\ nextId \in Nat /\ idOf \in [Users -> Nat]
        /\ idOf' = [idOf EXCEPT ![u] = nextId] /\ nextId' = nextId + 1
    BY DEF LuaAccept, Admits, TypeInv, TypeOK
  <2> QED BY <2>1 DEF IdsGivenOnce, Genuine, IsPoison
<1> QED BY <1>1, <1>2, StreamMoves DEF httpVars

\* A new entry is the order just accepted or a copy of one of old.
LEMMA EntriesStep ==
    ASSUME TypeInv, IdsGivenOnce, EntriesGenuine, [Next]_vars
    PROVE  EntriesGenuine'
<1>0. TypeOK
  BY DEF TypeInv
<1>1. CASE UNCHANGED httpVars
  BY <1>1 DEF httpVars, EntriesGenuine, Genuine, Entries
<1>2. CASE UNCHANGED idOf /\ \E d \in dead : /\ d.e \in Entries /\ ~IsPoison(stream[d.e])
                                             /\ stream' = Append(stream, stream[d.e])
  <2> PICK d \in dead : /\ d.e \in Entries /\ ~IsPoison(stream[d.e])
                        /\ stream' = Append(stream, stream[d.e])
    BY <1>2
  <2> DEFINE b == stream[d.e]
  <2>1. b \in Body /\ Genuine(b)
    BY <1>0, EntryFacts DEF EntriesGenuine
  <2>2. \A e \in Entries' : e \in Entries \/ stream'[e] = b
    <3> HIDE DEF b
    <3>1. stream' = Append(stream, b)
      BY DEF b
    <3> QED BY <1>0, <2>1, <3>1, StreamAppend, EntryFacts DEF Entries
  <2> QED BY <1>2, <2>1, <2>2, Grows DEF EntriesGenuine, Genuine
<1>3. CASE \E u \in Users : LuaAccept(u)
  <2> PICK u \in Users : LuaAccept(u)
    BY <1>3
  <2> DEFINE b == [id |-> nextId, user |-> u]
  <2>1. b \in Body /\ b.user \in Users /\ idOf'[b.user] = b.id
    BY <1>0 DEF TypeOK, Body, LuaAccept
  <2>2. \A e \in Entries' : e \in Entries \/ stream'[e] = b
    <3>1. stream' = Append(stream, b)
      BY DEF LuaAccept
    <3> HIDE DEF b
    <3> QED BY <1>0, <2>1, <3>1, StreamAppend, EntryFacts DEF Entries
  <2>3. \A e \in Entries : \/ IsPoison(stream[e])
                           \/ stream[e].user \in Users /\ idOf'[stream[e].user] = stream[e].id
    <3> TAKE e \in Entries
    <3>1. IsPoison(stream[e]) \/ Genuine(stream[e])
      BY DEF EntriesGenuine
    <3>2. IsPoison(stream[e]) \/ idOf'[stream[e].user] = stream[e].id
      BY <3>1, IdsStep
    <3> QED BY <3>1, <3>2 DEF Genuine
  <2> HIDE DEF b
  <2> QED BY <2>1, <2>2, <2>3, Grows DEF EntriesGenuine, Genuine
<1> QED BY <1>1, <1>2, <1>3, StreamMoves

\* The order a worker holds is its buyer's.
LEMMA HeldIsGenuine ==
    ASSUME TypeInv, DataInv, NEW c \in Consumers,
           worker[c].pc \in {"tryLock", "check", "insert", "unlock"}
    PROVE  Order(c) \in Body /\ ~IsPoison(Order(c)) /\ Genuine(Order(c))
<1>1. worker[c].cur \in Entries
  BY DEF TypeInv, WorkerTyped
<1>2. ~IsPoison(Order(c))
  BY DEF DataInv, HoldsOrder
<1> QED BY <1>1, <1>2, WorkerFields DEF DataInv, EntriesGenuine, Order

LEMMA RowsStep ==
    ASSUME TypeInv, DataInv, [Next]_vars
    PROVE  RowsGenuine'
<1>1. \A r \in rows' : ~IsPoison(r) /\ Genuine(r)
  <2>1. CASE UNCHANGED rows
    BY <2>1 DEF DataInv, RowsGenuine
  <2>2. CASE \E c \in Consumers : Insert(c)
    <3> PICK c \in Consumers : Insert(c)
      BY <2>2
    <3>1. worker[c].pc = "insert" /\ (UNCHANGED rows \/ rows' = rows \cup {Order(c)})
      BY DEF Insert, Commit
    <3>2. ~IsPoison(Order(c)) /\ Genuine(Order(c))
      BY <3>1, HeldIsGenuine
    <3> QED BY <3>1, <3>2 DEF DataInv, RowsGenuine
  <2> QED BY <2>1, <2>2, RowsMove
<1> SUFFICES ASSUME NEW r \in rows' PROVE ~IsPoison(r) /\ r.user \in Users /\ idOf'[r.user] = r.id
  BY DEF RowsGenuine, Genuine, IsPoison
<1>2. ~IsPoison(r) /\ Genuine(r)
  BY <1>1
<1>3. idOf'[r.user] = r.id
  BY <1>2, IdsStep DEF DataInv
<1> QED BY <1>2, <1>3 DEF Genuine

LEMMA HoldsStep ==
    ASSUME TypeInv, DataInv, [Next]_vars, NEW c \in Consumers
    PROVE  HoldsOrder(c)'
<1> DEFINE Held(w) == w.pc \in {"tryLock", "check", "insert", "unlock"}
           Well(w) == Held(w) => w.cur \in Entries /\ ~IsPoison(stream[w.cur])
<1>1. Well(worker[c])
  BY DEF TypeInv, WorkerTyped, DataInv, HoldsOrder, Order
<1>2. Well(worker'[c])
  <2>1. ASSUME NEW u \in Users, Http(u) PROVE Well(worker'[c])
    BY <1>1, <2>1, HttpMoves
  <2>2. ASSUME NEW d \in Consumers, Lifecycle(d) PROVE Well(worker'[c])
    <3>1. worker'[c] = worker[c] \/ worker'[c].pc = "next"
      BY <2>2, LifecycleMoves DEF Others
    <3> QED BY <1>1, <3>1
  <2>3. ASSUME NEW d \in Consumers, Scan(d) PROVE Well(worker'[c])
    <3>1. CASE c # d
      BY <1>1, <2>3, <3>1, ScanMoves DEF Others
    <3>2. CASE c = d
      <4>1. /\ worker'[c].pc \in {"next", "xclaim", "tryLock", "isolate"}
            /\ worker'[c].pc = "tryLock" => ~IsPoison(stream[worker'[c].cur])
            /\ UNCHANGED stream
        BY <2>3, <3>2, ScanMoves DEF workerUnchanged, httpVars
      <4>2. worker'[c].pc = "tryLock" => worker'[c].cur \in Entries
        BY <2>3, <3>2, <4>1, TypeScan DEF TypeInv, WorkerTyped, Entries
      <4> QED BY <4>1, <4>2
    <3> QED BY <3>1, <3>2
  <2>4. ASSUME NEW d \in Consumers, Handle(d) PROVE Well(worker'[c])
    <3>1. CASE c # d
      BY <1>1, <2>4, <3>1, HandleMoves DEF Others
    <3>2. CASE c = d
      BY <1>1, <2>4, <3>2, HandleMoves
    <3> QED BY <3>1, <3>2
  <2>5. ASSUME Environment PROVE Well(worker'[c])
    BY <1>1, <2>5, EnvironmentMoves
  <2>6. ASSUME UNCHANGED vars PROVE Well(worker'[c])
    BY <1>1, <2>6 DEF vars
  <2> HIDE DEF Well
  <2> QED BY <2>1, <2>2, <2>3, <2>4, <2>5, <2>6 DEF Next
<1> QED BY <1>2, Grows DEF HoldsOrder, Order

LEMMA DataStep == TypeInv /\ DataInv /\ [Next]_vars => DataInv'
<1> SUFFICES ASSUME TypeInv, DataInv, [Next]_vars PROVE DataInv'
  OBVIOUS
<1>1. EntriesGenuine' /\ IdsGivenOnce'
  BY EntriesStep, IdsStep DEF DataInv
<1>2. RowsGenuine' /\ \A c \in Consumers : HoldsOrder(c)'
  BY RowsStep, HoldsStep
<1> QED BY <1>1, <1>2 DEF DataInv

----------------------------------------------------------------------------
(* SettledInv                                                              *)

LEMMA SettledInit == Init => SettledInv
<1> SUFFICES ASSUME Init PROVE SettledInv
  OBVIOUS
<1>1. NoEntryLost
  BY SeckillAssumption DEF Init, NoEntryLost, Entries
<1>2. \A c \in Consumers : HoldsSettled(c)
  BY DEF Init, HoldsSettled, NoWorker
<1> QED BY <1>1, <1>2 DEF SettledInv

\* A row of this id or of this user is a row of this buyer.
LEMMA ExistsMeansSold ==
    ASSUME TypeInv, DataInv, NEW c \in Consumers,
           worker[c].pc \in {"check", "insert"}, Exists(Order(c))
    PROVE  Sold(Order(c))
<1> PICK r \in rows : r.id = Order(c).id \/ r.user = Order(c).user
  BY DEF Exists
<1>1. ~IsPoison(Order(c)) /\ Genuine(Order(c)) /\ ~IsPoison(r) /\ Genuine(r)
  BY HeldIsGenuine DEF DataInv, RowsGenuine
<1>2. r.user = Order(c).user
  BY <1>1 DEF Genuine, IsPoison, DataInv, IdsGivenOnce
<1> QED BY <1>2 DEF Sold

\* What the handler is about to acknowledge has a row of its buyer or a dead letter.
LEMMA HandleSettles ==
    ASSUME TypeInv, DataInv, SettledInv, NEW c \in Consumers, Handle(c)
    PROVE  HoldsSettled(c)'
<1> DEFINE e == worker[c].cur
<1>0. /\ stream' = stream /\ rows \subseteq rows' /\ dead \subseteq dead'
      /\ worker'[c].pc = "next" \/ worker'[c].cur = e
  BY HandleMoves, HandleRecords DEF workerUnchanged, httpVars
<1>1. ASSUME worker'[c].pc \in {"clear", "ack"} PROVE Settled(worker[c].cur)'
  <2>1. worker'[c].cur = e
    BY <1>0, <1>1
  <2>2. CASE \E d \in dead' : d.e = e
    BY <2>1, <2>2 DEF Settled, DeadLettered
  <2>3. CASE Settled(e)
    BY <1>0, <2>1, <2>3 DEF Settled, Sold, DeadLettered
  <2>4. (\E d \in dead' : d.e = e) \/ Settled(e)
    BY <1>1, HandleMoves DEF SettledInv, HoldsSettled
  <2> QED BY <2>2, <2>3, <2>4
<1>2. ASSUME worker'[c].pc = "unlock", worker'[c].res = "ok" PROVE Settled(worker[c].cur)'
  <2>1. worker'[c].cur = e
    BY <1>0, <1>2
  <2>2. worker[c].pc \in {"check", "insert"} /\ (Exists(Order(c)) \/ Order(c) \in rows')
    BY <1>2, HandleMoves
  <2>3. Sold(Order(c)) \/ Order(c) \in rows'
    BY <2>2, ExistsMeansSold
  <2>4. \E r \in rows' : r.user = stream[e].user
    BY <1>0, <2>3 DEF Sold, Order
  <2> QED BY <1>0, <2>1, <2>4 DEF Settled, Sold
<1> QED BY <1>1, <1>2 DEF HoldsSettled

LEMMA HoldsSettledStep ==
    ASSUME TypeInv, DataInv, SettledInv, [Next]_vars, NEW c \in Consumers
    PROVE  HoldsSettled(c)'
<1>0. ASSUME worker'[c] = worker[c] PROVE HoldsSettled(c)'
  <2>1. HoldsSettled(c)
    BY DEF SettledInv
  <2>2. worker[c].pc \in {"clear", "ack", "unlock"} => worker[c].cur \in Entries
    BY DEF TypeInv, WorkerTyped
  <2>3. worker[c].cur \in Entries /\ Settled(worker[c].cur) => Settled(worker[c].cur)'
    <3> DEFINE e == worker[c].cur
    <3> SUFFICES ASSUME e \in Entries, Settled(e) PROVE Settled(worker[c].cur)'
      OBVIOUS
    <3>1. worker'[c].cur = e /\ stream'[e] = stream[e] /\ rows \subseteq rows' /\ dead \subseteq dead'
      BY <1>0, Grows
    <3> QED BY <3>1 DEF Settled, Sold, DeadLettered
  <2> QED BY <1>0, <2>1, <2>2, <2>3 DEF HoldsSettled
<1>1. ASSUME worker'[c].pc \in {"next", "xclaim", "tryLock", "isolate"} PROVE HoldsSettled(c)'
  BY <1>1 DEF HoldsSettled
<1>2. ASSUME NEW u \in Users, Http(u) PROVE HoldsSettled(c)'
  BY <1>0, <1>2, HttpMoves
<1>3. ASSUME NEW d \in Consumers, Lifecycle(d) PROVE HoldsSettled(c)'
  BY <1>0, <1>1, <1>3, LifecycleMoves DEF Others
<1>4. ASSUME NEW d \in Consumers, Scan(d) PROVE HoldsSettled(c)'
  BY <1>0, <1>1, <1>4, ScanMoves DEF Others
<1>5. ASSUME NEW d \in Consumers, Handle(d) PROVE HoldsSettled(c)'
  <2>1. CASE c = d
    BY <1>5, <2>1, HandleSettles
  <2>2. CASE c # d
    BY <1>0, <1>5, <2>2, HandleMoves DEF Others
  <2> QED BY <2>1, <2>2
<1>6. ASSUME Environment PROVE HoldsSettled(c)'
  BY <1>0, <1>6, EnvironmentMoves
<1>7. ASSUME UNCHANGED vars PROVE HoldsSettled(c)'
  BY <1>0, <1>7 DEF vars
<1> QED BY <1>2, <1>3, <1>4, <1>5, <1>6, <1>7 DEF Next

\* The pending list and the cursor let an entry go by XACK only.
LEMMA Waiting ==
    ASSUME TypeInv, [Next]_vars, NEW e \in Entries, e > cursor \/ e \in Pending
    PROVE  \/ e > cursor' \/ e \in Pending'
           \/ \E c \in Consumers : Ack(c) /\ worker[c].cur = e
<1> DEFINE Kept == pel'[e].owner = None => pel[e].owner = None
           G    == \/ e > cursor' \/ pel'[e].owner # None
                   \/ \E c \in Consumers : Ack(c) /\ worker[c].cur = e
<1>0. TypeOK /\ e \in Nat /\ e > 0 /\ cursor \in Nat /\ None \notin Consumers
  BY EntryFacts, SeckillAssumption DEF TypeInv
<1>1. e > cursor \/ pel[e].owner # None
  BY DEF Pending
<1>2. ASSUME Kept, cursor' = cursor \/ cursor' = 0 PROVE G
  BY <1>0, <1>1, <1>2
<1>3. ASSUME UNCHANGED pel, cursor' = cursor \/ cursor' = 0 PROVE G
  BY <1>2, <1>3
<1>4. ASSUME NEW b \in Body, pel' = Append(pel, NotPending), UNCHANGED cursor PROVE G
  <2>1. pel'[e] = pel[e]
    BY <1>0, <1>4, StreamAppend
  <2> QED BY <1>2, <1>4, <2>1
<1>5. ASSUME NEW u \in Users, Http(u) PROVE G
  <2>1. CASE UNCHANGED pel
    BY <1>3, <1>5, <2>1, HttpMoves
  <2>2. CASE LuaAccept(u)
    <3>1. [id |-> nextId, user |-> u] \in Body
      BY <1>0 DEF TypeOK, Body
    <3> QED BY <1>4, <2>2, <3>1 DEF LuaAccept
  <2> QED BY <1>5, <2>1, <2>2, HttpMoves
<1>6. ASSUME NEW c \in Consumers, Lifecycle(c) PROVE G
  BY <1>3, <1>6, LifecycleMoves
<1>7. ASSUME NEW c \in Consumers, Scan(c) PROVE G
  <2>1. CASE Read(c)
    <3> DEFINE r == [owner |-> c, n |-> 1, idle |-> FALSE]
    <3>1. /\ cursor + 1 \in Entries /\ cursor' = cursor + 1
          /\ pel' = [pel EXCEPT ![cursor + 1] = r]
      BY <1>0, <2>1, EntryFacts DEF Read
    <3>2. r \in PelRecord /\ r.owner = c
      BY DEF PelRecord
    <3> HIDE DEF r
    <3>3. pel'[e] = IF e = cursor + 1 THEN r ELSE pel[e]
      BY <1>0, <3>1, <3>2, PelUpdate
    <3>4. CASE e = cursor + 1
      BY <1>0, <3>2, <3>3, <3>4
    <3>5. CASE e # cursor + 1
      BY <1>0, <1>1, <3>1, <3>3, <3>5
    <3> QED BY <3>4, <3>5
  <2>2. CASE XClaim(c)
    <3> DEFINE ids == {t.e : t \in {t \in worker[c].todo : pel[t.e].owner # None /\ pel[t.e].idle}}
    <3>1. /\ UNCHANGED cursor
          /\ pel' = [d \in Entries |-> IF d \in ids
                       THEN [owner |-> c, n |-> Bump(pel[d].n), idle |-> FALSE] ELSE pel[d]]
      BY <2>2 DEF XClaim
    <3> HIDE DEF ids
    <3>2. pel'[e].owner = c \/ pel'[e] = pel[e]
      BY <3>1
    <3> QED BY <1>0, <1>2, <3>1, <3>2
  <2>3. CASE ~Read(c) /\ ~XClaim(c)
    <3>1. UNCHANGED <<pel, cursor>>
      BY <1>7, <2>3 DEF Scan, OwnScan, BreakOff, ClaimScan, Take, CallFails
    <3> QED BY <1>3, <3>1
  <2> QED BY <2>1, <2>2, <2>3
<1>8. ASSUME NEW c \in Consumers, Handle(c) PROVE G
  <2>1. CASE Ack(c)
    <3>1. /\ UNCHANGED cursor
          /\ pel' = [pel EXCEPT ![worker[c].cur] = NotPending]
      BY <2>1 DEF Ack
    <3>2. CASE worker[c].cur = e
      BY <2>1, <3>2
    <3>3. CASE worker[c].cur # e
      BY <1>2, <3>1, <3>3
    <3> QED BY <3>2, <3>3
  <2>2. CASE ~Ack(c)
    <3>1. UNCHANGED <<pel, cursor>>
      BY <1>8, <2>2 DEF Handle, TryLock, Check, Insert, Unlock, Isolate, Clear
    <3> QED BY <1>3, <3>1
  <2> QED BY <2>1, <2>2
<1>9. ASSUME Environment PROVE G
  <2>0. UNCHANGED cursor
    BY <1>9, EnvironmentMoves
  <2>1. CASE \E d \in Entries : BecomeIdle(d)
    <3> PICK d \in Entries : BecomeIdle(d)
      BY <2>1
    <3> DEFINE r == [pel[d] EXCEPT !.idle = TRUE]
    <3>1. pel' = [pel EXCEPT ![d] = r] /\ r \in PelRecord /\ r.owner = pel[d].owner
      BY <1>0, EntryFacts DEF BecomeIdle, PelRecord
    <3> HIDE DEF r
    <3>2. pel'[e] = IF e = d THEN r ELSE pel[e]
      BY <1>0, <3>1, PelUpdate
    <3> QED BY <1>2, <2>0, <3>1, <3>2
  <2>2. CASE \E d \in dead : Replay(d)
    <3> PICK d \in dead : Replay(d)
      BY <2>2
    <3>1. stream[d.e] \in Body
      BY <1>0, EntryFacts DEF TypeOK
    <3> QED BY <1>4, <2>0, <3>1 DEF Replay
  <2>3. CASE ~(\E d \in Entries : BecomeIdle(d)) /\ ~(\E d \in dead : Replay(d))
    <3>1. UNCHANGED pel
      BY <1>9, <2>3 DEF Environment, LockExpire, BackfillRead, BackfillWrite
    <3> QED BY <1>3, <2>0, <3>1
  <2> QED BY <2>1, <2>2, <2>3
<1>10. ASSUME UNCHANGED vars PROVE G
  BY <1>3, <1>10 DEF vars
<1>11. G
  BY <1>5, <1>6, <1>7, <1>8, <1>9, <1>10 DEF Next
<1> QED BY <1>11, Grows DEF Pending

LEMMA LostStep ==
    ASSUME TypeInv, DataInv, SettledInv, [Next]_vars
    PROVE  NoEntryLost'
<1> SUFFICES ASSUME NEW e \in Entries'
             PROVE  e > cursor' \/ e \in Pending' \/ Settled(e)'
  BY DEF NoEntryLost
<1>0. TypeOK
  BY DEF TypeInv
<1>1. CASE e \in Entries
  <2>1. e > cursor \/ e \in Pending \/ Settled(e)
    BY <1>1 DEF SettledInv, NoEntryLost
  <2>2. ASSUME NEW c \in Consumers, Ack(c), worker[c].cur = e PROVE Settled(e)
    BY <2>2 DEF Ack, SettledInv, HoldsSettled
  <2> QED BY <1>1, <2>1, <2>2, Waiting, Grows
<1>2. CASE e \notin Entries
  <2>1. cursor' = cursor /\ \E b \in Body : stream' = Append(stream, b)
    <3>1. CASE UNCHANGED httpVars
      BY <1>2, <3>1 DEF httpVars, Entries
    <3>2. CASE \E u \in Users : LuaAccept(u)
      BY <1>0, <3>2 DEF LuaAccept, TypeOK, Body
    <3>3. CASE /\ UNCHANGED cursor
               /\ \E d \in dead : d.e \in Entries /\ stream' = Append(stream, stream[d.e])
      BY <1>0, <3>3, EntryFacts
    <3> QED BY <3>1, <3>2, <3>3, StreamMoves
  <2> PICK b \in Body : stream' = Append(stream, b)
    BY <2>1
  <2>2. e = Len(stream) + 1
    BY <1>0, <1>2, StreamAppend, EntryFacts DEF Entries
  <2> QED BY <1>0, <2>1, <2>2, EntryFacts
<1> QED BY <1>1, <1>2

LEMMA InvInductive == Spec => []Inv
<1>1. Init => Inv
  BY TypeInit, DataInit, SettledInit DEF Inv
<1>2. Inv /\ [Next]_vars => Inv'
  BY TypeStep, DataStep, HoldsSettledStep, LostStep DEF Inv, SettledInv
<1> QED BY <1>1, <1>2, PTL DEF Spec

\* Nothing leaves the pending list unsettled, whatever crashes, fails or is claimed.
THEOREM NoEntryLostCorrect == Spec => []NoEntryLost
<1>1. Inv => NoEntryLost
  BY DEF Inv, SettledInv
<1> QED BY <1>1, InvInductive, PTL

\* Every row is the order accepted for its buyer.
THEOREM RowsAreAcceptedCorrect == Spec => []RowsAreAccepted
<1>1. Inv => RowsAreAccepted
  BY DEF Inv, DataInv, RowsGenuine, Genuine, RowsAreAccepted
<1> QED BY <1>1, InvInductive, PTL

----------------------------------------------------------------------------
(* The hints                                                               *)

\* The hints of an order go only when a worker clears them.
LEMMA HintsMove ==
    ASSUME TypeInv, [Next]_vars
    PROVE  \/ hints \subseteq hints' /\ accepts \subseteq accepts'
           \/ \E c \in Consumers :
                /\ worker[c].pc = "clear" /\ UNCHANGED stream
                /\ hints \ {Order(c).id} \subseteq hints'
                /\ accepts \ {Order(c).id} \subseteq accepts'
<1> DEFINE Grow == hints \subseteq hints' /\ accepts \subseteq accepts'
           Drop(c) == /\ worker[c].pc = "clear" /\ UNCHANGED stream
                      /\ hints \ {Order(c).id} \subseteq hints'
                      /\ accepts \ {Order(c).id} \subseteq accepts'
           G == Grow \/ \E c \in Consumers : Drop(c)
<1>1. ASSUME NEW u \in Users, Http(u) PROVE Grow
  BY <1>1, HttpMoves DEF LuaAccept
<1>2. ASSUME NEW c \in Consumers, Lifecycle(c) PROVE Grow
  BY <1>2, LifecycleMoves
<1>3. ASSUME NEW c \in Consumers, Scan(c) PROVE Grow
  BY <1>3, ScanMoves
<1>4. ASSUME NEW c \in Consumers, Handle(c) PROVE Grow \/ Drop(c)
  <2>1. CASE Clear(c)
    BY <2>1 DEF Clear, workerUnchanged, httpVars
  <2>2. CASE ~Clear(c)
    BY <1>4, <2>2 DEF Handle, TryLock, Check, Insert, Unlock, Isolate, Ack
  <2> QED BY <2>1, <2>2
<1>5. ASSUME Environment PROVE Grow
  BY <1>5, EnvironmentMoves
<1>6. ASSUME UNCHANGED vars PROVE Grow
  BY <1>6 DEF vars
<1> HIDE DEF Grow, Drop
<1>7. G
  BY <1>1, <1>2, <1>3, <1>4, <1>5, <1>6 DEF Next
<1> QED BY <1>7 DEF Grow, Drop

\* Two well-formed entries with one id are one order.
LEMMA SameIdSameOrder ==
    ASSUME TypeInv, DataInv, NEW e \in Entries, NEW f \in Entries,
           ~IsPoison(stream[e]), stream[e].id = stream[f].id
    PROVE  stream[e] = stream[f]
<1>1. stream[e] \in Body /\ stream[f] \in Body
  BY EntryFacts DEF TypeInv
<1>2. ~IsPoison(stream[f]) /\ Genuine(stream[e]) /\ Genuine(stream[f])
  BY DEF DataInv, EntriesGenuine, IsPoison
<1>3. stream[e].user = stream[f].user
  BY <1>2 DEF Genuine, IsPoison, DataInv, IdsGivenOnce
<1> QED BY <1>1, <1>3 DEF Body

LEMMA ProcessingStep ==
    ASSUME Inv, UnsettledIsProcessing, [Next]_vars
    PROVE  UnsettledIsProcessing'
<1> USE DEF Inv
<1>0. TypeOK
  BY DEF TypeInv
<1> SUFFICES ASSUME NEW e \in Entries', ~IsPoison(stream'[e]),
                    \A f \in Entries' : stream'[f] = stream'[e] => ~Settled(f)'
             PROVE  stream'[e].id \in hints' /\ stream'[e].id \in accepts'
  BY DEF UnsettledIsProcessing, IsPoison
<1>1. CASE e \in Entries
  <2>1. stream'[e] = stream[e] /\ ~IsPoison(stream[e])
    BY <1>1, Grows DEF IsPoison
  <2>2. \A f \in Entries : stream[f] = stream[e] => ~Settled(f)
    BY <1>1, Grows
  <2>3. stream[e].id \in hints /\ stream[e].id \in accepts
    BY <1>1, <2>1, <2>2 DEF UnsettledIsProcessing
  <2>4. ASSUME NEW c \in Consumers, worker[c].pc = "clear" PROVE Order(c).id # stream[e].id
    <3>1. worker[c].cur \in Entries /\ Settled(worker[c].cur)
      BY <2>4 DEF TypeInv, WorkerTyped, SettledInv, HoldsSettled
    <3> QED BY <1>1, <2>1, <2>2, <3>1, SameIdSameOrder DEF Order
  <2> QED BY <2>1, <2>3, <2>4, HintsMove
<1>2. CASE e \notin Entries
  <2>1. CASE UNCHANGED httpVars
    BY <1>2, <2>1 DEF httpVars, Entries
  <2>2. CASE \E u \in Users : LuaAccept(u)
    <3> PICK u \in Users : LuaAccept(u)
      BY <2>2
    <3> DEFINE b == [id |-> nextId, user |-> u]
    <3>1. b \in Body /\ b.id = nextId /\ stream' = Append(stream, b)
      BY <1>0 DEF TypeOK, Body, LuaAccept
    <3>2. nextId \in hints' /\ nextId \in accepts'
      BY DEF LuaAccept
    <3> HIDE DEF b
    <3>3. stream'[e] = b
      BY <1>0, <1>2, <3>1, StreamAppend, EntryFacts DEF Entries
    <3> QED BY <3>1, <3>2, <3>3
  <2>3. CASE /\ UNCHANGED dead
             /\ \E d \in dead : d.e \in Entries /\ stream' = Append(stream, stream[d.e])
    <3> PICK d \in dead : d.e \in Entries /\ stream' = Append(stream, stream[d.e])
      BY <2>3
    <3>1. stream[d.e] \in Body
      BY <1>0, EntryFacts
    <3>2. stream'[e] = stream[d.e] /\ stream'[d.e] = stream[d.e] /\ d.e \in Entries'
      BY <1>0, <1>2, <3>1, StreamAppend, EntryFacts, Grows DEF Entries
    <3>3. \E x \in dead' : x.e = d.e
      BY <2>3
    <3>4. Settled(d.e)'
      BY <3>3 DEF Settled, DeadLettered
    <3> QED BY <3>2, <3>4
  <2> QED BY <2>1, <2>2, <2>3, StreamMoves
<1> QED BY <1>1, <1>2

\* An order without a row and without a dead letter is still shown as processing.
THEOREM UnsettledIsProcessingCorrect == Spec => []UnsettledIsProcessing
<1>1. Init => UnsettledIsProcessing
  BY SeckillAssumption DEF Init, UnsettledIsProcessing, Entries, IsPoison, Malformed
<1>2. Inv /\ UnsettledIsProcessing /\ [Next]_vars => UnsettledIsProcessing'
  BY ProcessingStep
<1> QED BY <1>1, <1>2, InvInductive, PTL DEF Spec

----------------------------------------------------------------------------
(* The lock                                                                *)

\* LockHeld: as long as nothing failed, whoever is inside the section holds the
\* lock.  LockExcludes itself is not inductive: it does not say who holds it.
LockHeld == faults = 0 => \A c \in Consumers, u \in Users :
                              InSection(c, u) => lock[u] = c

LEMMA LockStep ==
    ASSUME Inv, LockHeld, [Next]_vars
    PROVE  LockHeld'
<1> USE DEF Inv
<1>0. TypeOK /\ faults \in Nat /\ lock \in [Users -> Consumers \cup {None}]
      /\ None \notin Consumers
  BY SeckillAssumption DEF TypeInv, TypeOK
<1>f. ASSUME Fault PROVE faults' # 0
  BY <1>0, <1>f DEF Fault
<1> SUFFICES ASSUME faults' = 0, NEW c \in Consumers, NEW u \in Users, InSection(c, u)'
             PROVE  lock'[u] = c
  BY DEF LockHeld
<1>s. Ready(c)' /\ worker'[c].pc \in {"check", "insert", "unlock"}
  BY DEF InSection
<1>1. ASSUME UNCHANGED faults, InSection(c, u) PROVE lock[u] = c
  BY <1>1 DEF LockHeld
\* A section entered in an earlier step is the same buyer's.
<1>2. ASSUME worker'[c] = worker[c], Ready(c) PROVE InSection(c, u)
  <2>1. worker[c].cur \in Entries
    BY <1>2, <1>s DEF TypeInv, WorkerTyped
  <2>2. Order(c)' = Order(c)
    BY <1>2, <2>1, Grows DEF Order
  <2>3. Buyer(c)' = Buyer(c)
    BY <2>2 DEF Buyer
  <2> QED BY <1>2, <1>s, <2>3 DEF InSection
<1>3. ASSUME worker'[c] = worker[c], Ready(c), UNCHANGED <<lock, faults>> PROVE lock'[u] = c
  BY <1>1, <1>2, <1>3
<1>4. ASSUME NEW v \in Users, Http(v) PROVE lock'[u] = c
  <2>1. UNCHANGED faults
    BY <1>4 DEF Http, LuaReject, LuaAccept, Submit
  <2> QED BY <1>3, <1>4, <1>s, <2>1, HttpMoves DEF Ready
<1>5. ASSUME NEW d \in Consumers, Lifecycle(d) PROVE lock'[u] = c
  <2>1. worker'[c] = worker[c] /\ UNCHANGED lock
    BY <1>5, <1>s, LifecycleMoves DEF Others
  <2>2. UNCHANGED faults
    BY <1>5, <1>f DEF Lifecycle, Start, StartRefused, Stop, Exit
  <2>3. status \in [Consumers -> {"new", "refused", "up", "stopping", "down"}]
    BY DEF TypeInv, TypeOK
  <2>4. Ready(c)
    <3>1. CASE Start(d)
      <4>1. worker'[d] = NoWorker
        BY <3>1 DEF Start, TypeInv, TypeOK
      <4> QED BY <1>s, <2>3, <3>1, <4>1 DEF Start, Ready, NoWorker
    <3>2. CASE StartRefused(d)
      BY <1>f, <3>2 DEF StartRefused
    <3>3. CASE Stop(d)
      BY <1>s, <2>3, <3>3 DEF Stop, Ready
    <3>4. CASE Exit(d)
      BY <1>s, <2>3, <3>4 DEF Exit, Ready
    <3> QED BY <1>5, <3>1, <3>2, <3>3, <3>4 DEF Lifecycle
  <2> QED BY <1>3, <2>1, <2>2, <2>4
<1>6. ASSUME NEW d \in Consumers, Scan(d) PROVE lock'[u] = c
  <2>1. UNCHANGED <<lock, status>> /\ worker'[c] = worker[c]
    BY <1>6, <1>s, ScanMoves DEF Others, workerUnchanged, jvmVars
  <2>2. UNCHANGED faults
    BY <1>6, <1>f DEF Scan, Read, OwnScan, BreakOff, ClaimScan, XClaim, Take, CallFails
  <2> QED BY <1>3, <1>s, <2>1, <2>2 DEF Ready
<1>7. ASSUME NEW d \in Consumers, Handle(d) PROVE lock'[u] = c
  <2>0. UNCHANGED <<status, faults>>
    <3>1. UNCHANGED faults
      BY <1>7, <1>f DEF Handle, TryLock, Check, Insert, Unlock, Isolate, Clear, Ack
    <3> QED BY <1>7, <3>1, HandleMoves DEF workerUnchanged, jvmVars
  <2>1. CASE TryLock(d) /\ Goto(d, "check")
    <3>1. LockFree(d) /\ lock' = [lock EXCEPT ![Buyer(d)] = d] /\ worker[d].pc = "tryLock"
      <4>1. Goto(d, "check") => ~NextRecord(d) /\ ~GotoWith(d, "isolate", "error")
        <5>1. worker \in [Consumers -> Worker]
          BY DEF TypeInv, TypeOK
        <5> QED BY <5>1, NextRecordMoves, GotoMoves, GotoWithMoves
      <4> QED BY <2>1, <4>1 DEF TryLock
    <3>2. Buyer(d) \in Users
      BY <3>1, HeldIsGenuine DEF Buyer, Genuine
    <3>3. CASE c = d
      <4>1. worker'[c].cur = worker[c].cur /\ worker[c].cur \in Entries /\ UNCHANGED stream
        BY <1>7, <1>s, <3>3, HandleMoves DEF workerUnchanged, httpVars
      <4>2. u = Buyer(d)
        BY <3>3, <4>1 DEF InSection, Buyer, Order
      <4> QED BY <1>0, <3>1, <3>2, <3>3, <4>2
    <3>4. CASE c # d
      <4>1. worker'[c] = worker[c]
        BY <1>7, <3>4, HandleMoves DEF Others
      <4>2. lock[u] = c
        BY <1>1, <1>2, <1>s, <2>0, <4>1 DEF Ready
      <4> QED BY <1>0, <3>1, <3>4, <4>2 DEF LockFree
    <3> QED BY <3>3, <3>4
  <2>2. CASE Unlock(d) /\ ~UNCHANGED lock
    <3>1. lock[Buyer(d)] = d /\ lock' = [lock EXCEPT ![Buyer(d)] = None] /\ worker[d].pc = "unlock"
      BY <2>2 DEF Unlock
    <3>2. c # d
      BY <1>7, <1>s, <3>1, HandleMoves
    <3>3. worker'[c] = worker[c]
      BY <1>7, <3>2, HandleMoves DEF Others
    <3>4. lock[u] = c
      BY <1>1, <1>2, <1>s, <2>0, <3>3 DEF Ready
    <3> QED BY <1>0, <3>1, <3>2, <3>4
  <2>3. CASE UNCHANGED lock /\ ~(TryLock(d) /\ Goto(d, "check"))
    <3>1. CASE c # d
      <4>1. worker'[c] = worker[c]
        BY <1>7, <3>1, HandleMoves DEF Others
      <4> QED BY <1>3, <1>s, <2>0, <2>3, <4>1 DEF Ready
    <3>2. CASE c = d
      <4>1. worker[c].pc # "tryLock"
        <5>1. ASSUME TryLock(c) PROVE FALSE
          <6>1. NextRecord(c) \/ GotoWith(c, "isolate", "error")
            BY <2>3, <3>2, <5>1 DEF TryLock
          <6> QED BY <1>s, <6>1, NextRecordMoves, GotoWithMoves
        <5> QED BY <1>7, <3>2, <5>1 DEF Handle, Check, Insert, Unlock, Isolate, Clear, Ack
      <4>2. /\ worker'[c].cur = worker[c].cur /\ worker[c].cur \in Entries /\ UNCHANGED stream
            /\ worker[c].pc \in {"check", "insert"}
        BY <1>7, <1>s, <3>2, <4>1, HandleMoves DEF workerUnchanged, httpVars
      <4>3. InSection(c, u)
        BY <1>s, <2>0, <4>2 DEF InSection, Ready, Buyer, Order
      <4> QED BY <1>1, <2>0, <2>3, <4>3
    <3> QED BY <3>1, <3>2
  <2>4. UNCHANGED lock \/ Unlock(d) \/ (TryLock(d) /\ Goto(d, "check"))
    BY <1>7, <1>f DEF Handle, TryLock, Check, Insert, Isolate, Clear, Ack
  <2> QED BY <2>1, <2>2, <2>3, <2>4
<1>8. ASSUME Environment PROVE lock'[u] = c
  <2>1. worker'[c] = worker[c] /\ UNCHANGED status
    BY <1>8, EnvironmentMoves DEF jvmVars
  <2>2. UNCHANGED faults
    BY <1>8, <1>f DEF Environment, BecomeIdle, LockExpire, Replay, BackfillRead, BackfillWrite
  <2>3. InSection(c, u) /\ lock[u] = c
    BY <1>1, <1>2, <1>s, <2>1, <2>2 DEF Ready
  <2>4. CASE UNCHANGED lock
    BY <2>3, <2>4
  <2>5. CASE \E v \in Users : LockExpire(v)
    <3> PICK v \in Users : LockExpire(v)
      BY <2>5
    <3>1. ~InSection(lock[v], v) /\ lock' = [lock EXCEPT ![v] = None]
      BY <1>f DEF LockExpire
    <3> QED BY <1>0, <2>3, <3>1
  <2> QED BY <1>8, <2>4, <2>5 DEF Environment, BecomeIdle, Replay, BackfillRead, BackfillWrite
<1>9. ASSUME UNCHANGED vars PROVE lock'[u] = c
  BY <1>3, <1>9, <1>s DEF vars, Ready
<1> QED BY <1>4, <1>5, <1>6, <1>7, <1>8, <1>9 DEF Next

\* Without a fault two consumers are never inside one buyer's section.
THEOREM LockExcludesCorrect == Spec => []LockExcludes
<1>1. Init => LockHeld
  BY DEF Init, LockHeld, InSection, Ready
<1>2. Inv /\ LockHeld /\ [Next]_vars => LockHeld'
  BY LockStep
<1>3. LockHeld => LockExcludes
  BY DEF LockHeld, LockExcludes
<1> QED BY <1>1, <1>2, <1>3, InvInductive, PTL DEF Spec

----------------------------------------------------------------------------
(* The ledger of MySQL                                                     *)

LedgerInv == IsFiniteSet(rows) /\ DbLedger

LEMMA LedgerStep ==
    ASSUME Inv, LedgerInv, [Next]_vars
    PROVE  LedgerInv'
<1>0. dbStock \in Nat /\ Stock \in Nat /\ IsFiniteSet(rows) /\ Cardinality(rows) \in Nat
      /\ dbStock + Cardinality(rows) = Stock
  BY SeckillAssumption, FS_CardinalityType DEF Inv, TypeInv, TypeOK, LedgerInv, DbLedger
<1>1. CASE UNCHANGED <<rows, dbStock>>
  BY <1>0, <1>1 DEF LedgerInv, DbLedger
<1>2. CASE \E c \in Consumers : Insert(c)
  <2> PICK c \in Consumers : Insert(c)
    BY <1>2
  <2>1. UNCHANGED <<rows, dbStock>> \/ Commit(Order(c))
    BY DEF Insert
  <2>2. CASE Commit(Order(c))
    <3>1. Order(c) \notin rows /\ rows' = rows \cup {Order(c)} /\ dbStock' = dbStock - 1
      BY <2>2 DEF Commit, Exists
    <3>2. IsFiniteSet(rows') /\ Cardinality(rows') = Cardinality(rows) + 1
      BY <1>0, <3>1, FS_AddElement
    <3> QED BY <1>0, <3>1, <3>2 DEF LedgerInv, DbLedger
  <2> QED BY <1>1, <2>1, <2>2
<1> QED BY <1>1, <1>2, RowsMove DEF Inv

LEMMA LedgerAlways == Spec => []LedgerInv
<1>1. Init => LedgerInv
  BY SeckillAssumption, FS_EmptySet DEF Init, LedgerInv, DbLedger
<1>2. Inv /\ LedgerInv /\ [Next]_vars => LedgerInv'
  BY LedgerStep
<1> QED BY <1>1, <1>2, InvInductive, PTL DEF Spec

\* MySQL gives away one unit per row.
THEOREM DbLedgerCorrect == Spec => []DbLedger
<1>1. LedgerInv => DbLedger
  BY DEF LedgerInv
<1> QED BY <1>1, LedgerAlways, PTL

----------------------------------------------------------------------------
(* NoPoisonByRetry                                                         *)

(***************************************************************************)
(* OwnersInv: a pending record belongs to a JVM that was started, and what *)
(* a JVM is about to claim is not its own.  CountInv: so, until two JVMs   *)
(* were started, nothing has been delivered twice, no scan, no record in   *)
(* hand and no dead letter says otherwise.                                 *)
(***************************************************************************)
HandOver == \E b, c \in Consumers : b # c /\ status[b] # "new" /\ status[c] # "new"

OwnersInv ==
    /\ \A e \in Entries : pel[e].owner # None => status[pel[e].owner] # "new"
    /\ \A c \in Consumers : worker[c].pc = "xclaim" =>
          \A t \in worker[c].todo : pel[t.e].owner # c

CountInv ==
    MaxDeliveries > 1 /\ ~HandOver =>
        /\ \A e \in Entries : pel[e].n <= 1
        /\ \A c \in Consumers : /\ worker[c].res # "max"
                                /\ \A t \in worker[c].todo : t.n <= 1
        /\ \A d \in dead : d.why # "max"

LEMMA StatusMoves ==
    ASSUME TypeInv, [Next]_vars, NEW c \in Consumers, status[c] # "new"
    PROVE  status'[c] # "new"
<1>0. status \in [Consumers -> {"new", "refused", "up", "stopping", "down"}]
  BY DEF TypeInv, TypeOK
<1>1. ASSUME NEW u \in Users, Http(u) PROVE status' = status
  BY <1>1, HttpMoves
<1>2. ASSUME NEW d \in Consumers, Lifecycle(d) PROVE status'[c] # "new"
  BY <1>0, <1>2 DEF Lifecycle, Start, StartRefused, Stop, Exit
<1>3. ASSUME NEW d \in Consumers, Scan(d) PROVE status' = status
  BY <1>3, ScanMoves DEF workerUnchanged, jvmVars
<1>4. ASSUME NEW d \in Consumers, Handle(d) PROVE status' = status
  BY <1>4, HandleMoves DEF workerUnchanged, jvmVars
<1>5. ASSUME Environment PROVE status' = status
  BY <1>5, EnvironmentMoves DEF jvmVars
<1>6. ASSUME UNCHANGED vars PROVE status' = status
  BY <1>6 DEF vars
<1> QED BY <1>1, <1>2, <1>3, <1>4, <1>5, <1>6 DEF Next

\* What can happen to a pending record.
PelKept(e)     == e \in Entries /\ pel'[e].owner = pel[e].owner /\ pel'[e].n = pel[e].n
PelRead(e)     == \E c \in Consumers : Read(c) /\ pel'[e].owner = c /\ pel'[e].n = 1
PelClaimed(e)  == \E c \in Consumers : /\ XClaim(c) /\ pel'[e].owner = c
                                       /\ e \in Entries /\ pel[e].owner # None
                                       /\ \E t \in worker[c].todo : t.e = e

LEMMA PelMoves ==
    ASSUME TypeInv, [Next]_vars, NEW e \in Entries'
    PROVE  PelKept(e) \/ pel'[e] = NotPending \/ PelRead(e) \/ PelClaimed(e)
<1> DEFINE G == PelKept(e) \/ pel'[e] = NotPending \/ PelRead(e) \/ PelClaimed(e)
<1>0. TypeOK
  BY DEF TypeInv
<1>1. ASSUME UNCHANGED <<pel, stream>> PROVE G
  BY <1>1 DEF PelKept, Entries
<1>2. ASSUME NEW b \in Body, stream' = Append(stream, b), pel' = Append(pel, NotPending) PROVE G
  <2>1. e \in Entries \/ e = Len(stream) + 1
    BY <1>0, <1>2, StreamAppend, EntryFacts DEF Entries
  <2>2. CASE e \in Entries
    BY <1>0, <1>2, <2>2, StreamAppend DEF PelKept
  <2>3. CASE e = Len(stream) + 1
    BY <1>0, <1>2, <2>3, StreamAppend
  <2> QED BY <2>1, <2>2, <2>3
<1>3. ASSUME NEW u \in Users, Http(u) PROVE G
  <2>1. CASE LuaAccept(u)
    <3>1. [id |-> nextId, user |-> u] \in Body
      BY <1>0 DEF TypeOK, Body
    <3> QED BY <1>2, <2>1, <3>1 DEF LuaAccept
  <2> QED BY <1>1, <1>3, <2>1, HttpMoves DEF httpVars
<1>4. ASSUME NEW c \in Consumers, Lifecycle(c) PROVE G
  BY <1>1, <1>4, LifecycleMoves DEF httpVars
<1>5. ASSUME NEW c \in Consumers, Scan(c) PROVE G
  <2>0. stream' = stream /\ e \in Entries
    BY <1>5, ScanMoves DEF workerUnchanged, httpVars, Entries
  <2>1. CASE Read(c)
    <3> DEFINE r == [owner |-> c, n |-> 1, idle |-> FALSE]
    <3>1. cursor + 1 \in Entries /\ pel' = [pel EXCEPT ![cursor + 1] = r]
      BY <1>0, <2>1, EntryFacts DEF Read
    <3>2. r \in PelRecord /\ r.owner = c /\ r.n = 1
      BY DEF PelRecord
    <3> HIDE DEF r
    <3>3. pel'[e] = IF e = cursor + 1 THEN r ELSE pel[e]
      BY <1>0, <2>0, <3>1, <3>2, PelUpdate
    <3> QED BY <2>0, <2>1, <3>2, <3>3 DEF PelKept, PelRead
  <2>2. CASE XClaim(c)
    <3> DEFINE ids == {t.e : t \in {t \in worker[c].todo : pel[t.e].owner # None /\ pel[t.e].idle}}
    <3>1. pel' = [d \in Entries |-> IF d \in ids
                       THEN [owner |-> c, n |-> Bump(pel[d].n), idle |-> FALSE] ELSE pel[d]]
      BY <2>2 DEF XClaim
    <3>2. \A d \in ids : pel[d].owner # None /\ \E t \in worker[c].todo : t.e = d
      OBVIOUS
    <3> HIDE DEF ids
    <3>3. CASE e \in ids
      <4>1. pel'[e].owner = c
        BY <2>0, <3>1, <3>3
      <4> QED BY <2>0, <2>2, <3>2, <3>3, <4>1 DEF PelClaimed
    <3>4. CASE e \notin ids
      BY <2>0, <3>1, <3>4 DEF PelKept
    <3> QED BY <3>3, <3>4
  <2>3. CASE ~Read(c) /\ ~XClaim(c)
    <3>1. UNCHANGED pel
      BY <1>5, <2>3 DEF Scan, OwnScan, BreakOff, ClaimScan, Take, CallFails
    <3> QED BY <1>1, <2>0, <3>1
  <2> QED BY <2>1, <2>2, <2>3
<1>6. ASSUME NEW c \in Consumers, Handle(c) PROVE G
  <2>0. stream' = stream /\ e \in Entries
    BY <1>6, HandleMoves DEF workerUnchanged, httpVars, Entries
  <2>1. CASE Ack(c)
    <3>1. pel' = [pel EXCEPT ![worker[c].cur] = NotPending]
      BY <2>1 DEF Ack
    <3>2. DOMAIN pel = Entries
      BY <1>0, LenProperties, EntryFacts DEF TypeOK
    <3>3. pel'[e] = IF e = worker[c].cur THEN NotPending ELSE pel[e]
      BY <2>0, <3>1, <3>2
    <3> QED BY <2>0, <3>3 DEF PelKept
  <2>2. CASE ~Ack(c)
    <3>1. UNCHANGED pel
      BY <1>6, <2>2 DEF Handle, TryLock, Check, Insert, Unlock, Isolate, Clear
    <3> QED BY <1>1, <2>0, <3>1
  <2> QED BY <2>1, <2>2
<1>7. ASSUME Environment PROVE G
  <2>1. CASE \E d \in Entries : BecomeIdle(d)
    <3> PICK d \in Entries : BecomeIdle(d)
      BY <2>1
    <3> DEFINE r == [pel[d] EXCEPT !.idle = TRUE]
    <3>1. /\ pel' = [pel EXCEPT ![d] = r] /\ r \in PelRecord
          /\ r.owner = pel[d].owner /\ r.n = pel[d].n /\ UNCHANGED stream
      BY <1>0, EntryFacts DEF BecomeIdle, PelRecord, httpVars
    <3> HIDE DEF r
    <3>2. e \in Entries
      BY <3>1 DEF Entries
    <3>3. pel'[e] = IF e = d THEN r ELSE pel[e]
      BY <1>0, <3>1, <3>2, PelUpdate
    <3> QED BY <3>1, <3>2, <3>3 DEF PelKept
  <2>2. CASE \E d \in dead : Replay(d)
    <3> PICK d \in dead : Replay(d)
      BY <2>2
    <3>1. stream[d.e] \in Body
      BY <1>0, EntryFacts DEF TypeOK
    <3> QED BY <1>2, <3>1 DEF Replay
  <2>3. CASE ~(\E d \in Entries : BecomeIdle(d)) /\ ~(\E d \in dead : Replay(d))
    <3>1. UNCHANGED <<pel, stream>>
      BY <1>7, <2>3 DEF Environment, LockExpire, BackfillRead, BackfillWrite, httpVars
    <3> QED BY <1>1, <3>1
  <2> QED BY <2>1, <2>2, <2>3
<1>8. ASSUME UNCHANGED vars PROVE G
  BY <1>1, <1>8 DEF vars
<1> QED BY <1>3, <1>4, <1>5, <1>6, <1>7, <1>8 DEF Next

\* A delivery count a worker may read: in its scan, in the pending list, or 1.
Counted(c, m) == \/ m = 1
                 \/ \E t \in worker[c].todo : m = t.n
                 \/ \E e \in Entries : m = pel[e].n

\* What can happen to a scan and to the outcome of the record in hand.
Claims(c)   == UNCHANGED pel /\ \A t \in worker'[c].todo : t.e \in Entries /\ pel[t.e].owner # c
TodoFrom(c) == \A t \in worker'[c].todo :
                  \/ t \in worker[c].todo \/ t.n = 0
                  \/ \E e \in Entries : t.n = pel[e].n
MaxFrom(c)  == worker'[c].res = "max" =>
                  worker[c].res = "max" \/ \E m \in Nat : m >= MaxDeliveries /\ Counted(c, m)

LEMMA HandleKeepsTodo ==
    ASSUME TypeInv, NEW c \in Consumers, Handle(c)
    PROVE  /\ worker'[c].todo = worker[c].todo
           /\ worker'[c].res = "max" => worker[c].res = "max"
<1>0. worker \in [Consumers -> Worker] /\ worker[c] \in Worker
  BY DEF TypeInv, TypeOK
<1>1. ASSUME NextRecord(c)
      PROVE  worker'[c].todo = worker[c].todo /\ worker'[c].res = "none"
  BY <1>0, <1>1 DEF NextRecord, Worker
<1>2. ASSUME NEW label, NEW r, GotoWith(c, label, r)
      PROVE  worker'[c].todo = worker[c].todo /\ worker'[c].res = r
  BY <1>0, <1>2 DEF GotoWith, Worker
<1>3. ASSUME NEW label, Goto(c, label)
      PROVE  worker'[c].todo = worker[c].todo /\ worker'[c].res = worker[c].res
  BY <1>0, <1>3 DEF Goto, Worker
<1>4. \/ NextRecord(c)
      \/ \E label : Goto(c, label)
      \/ \E label : \E r \in {"ok", "retry", "error"} : GotoWith(c, label, r)
  <2>1. CASE TryLock(c)
    BY <2>1 DEF TryLock
  <2>2. CASE Check(c)
    BY <2>2 DEF Check
  <2>3. CASE Insert(c)
    BY <2>3 DEF Insert
  <2>4. CASE Unlock(c)
    BY <2>4 DEF Unlock, Settle
  <2>5. CASE Isolate(c) \/ Clear(c) \/ Ack(c)
    BY <2>5 DEF Isolate, Clear, Ack
  <2> QED BY <2>1, <2>2, <2>3, <2>4, <2>5 DEF Handle
<1> QED BY <1>1, <1>2, <1>3, <1>4

LEMMA ScanTodo ==
    ASSUME TypeInv, NEW c \in Consumers, Scan(c)
    PROVE  /\ worker'[c].pc = "xclaim" => Claims(c)
           /\ TodoFrom(c)
           /\ MaxFrom(c)
<1>0. worker \in [Consumers -> Worker] /\ worker[c] \in Worker /\ TypeOK
  BY DEF TypeInv, TypeOK
<1> USE DEF TodoFrom, MaxFrom
<1>1. CASE Read(c)
  <2>1. /\ worker'[c].todo = {[e |-> cursor + 1, n |-> 0]} /\ worker'[c].res = worker[c].res
        /\ worker'[c].pc = "next"
    BY <1>0, <1>1 DEF Read, AtLoop, Worker
  <2> QED BY <2>1
<1>2. CASE OwnScan(c)
  <2>1. worker'[c].todo = OwnTodo(c) /\ worker'[c].res = worker[c].res /\ worker'[c].pc = "next"
    BY <1>0, <1>2 DEF OwnScan, AtLoop, Worker
  <2>2. \A t \in OwnTodo(c) : \E e \in Entries : t = [e |-> e, n |-> pel[e].n]
    BY DEF OwnTodo, First, Pending
  <2> QED BY <2>1, <2>2
<1>3. CASE BreakOff(c)
  BY <1>0, <1>3 DEF BreakOff, Worker
<1>4. CASE ClaimScan(c)
  <2> DEFINE B == First(ClaimBatch, {e \in First(ClaimWindow, Pending) : Claimable(c, e)})
             T == {[e |-> e, n |-> 0] : e \in B}
             p == IF B = {} THEN "next" ELSE "xclaim"
  <2>1. worker' = [worker EXCEPT ![c].mode = "other", ![c].pc = p, ![c].todo = T] /\ UNCHANGED pel
    BY <1>4 DEF ClaimScan
  <2>2. \A t \in T : t.n = 0 /\ t.e \in Entries /\ pel[t.e].owner # c
    <3>1. \A e \in B : e \in Entries /\ pel[e].owner # c
      BY DEF First, Pending, Claimable
    <3> HIDE DEF B
    <3> QED BY <3>1
  <2> HIDE DEF T, p
  <2>3. worker'[c].todo = T /\ worker'[c].res = worker[c].res
    BY <1>0, <2>1 DEF Worker
  <2> QED BY <2>1, <2>2, <2>3 DEF Claims
<1>5. CASE XClaim(c)
  <2> DEFINE T == {t \in worker[c].todo : pel[t.e].owner # None /\ pel[t.e].idle}
  <2>1. worker' = [worker EXCEPT ![c].pc = "next", ![c].todo = T]
    BY <1>5 DEF XClaim
  <2>2. T \subseteq worker[c].todo
    OBVIOUS
  <2> HIDE DEF T
  <2>3. worker'[c].todo = T /\ worker'[c].res = worker[c].res /\ worker'[c].pc = "next"
    BY <1>0, <2>1 DEF Worker
  <2> QED BY <2>2, <2>3
<1>6. CASE Take(c)
  <2>1. PICK t \in worker[c].todo : \/ Dispatch(c, t, IF t.n = 0 THEN LookupCount(c, t.e) ELSE t.n)
                                    \/ Dispatch(c, t, 1)
    BY <1>6 DEF Take
  <2>2. t.e \in Entries /\ t.n \in Nat /\ pel[t.e] \in PelRecord
    BY <1>0, WorkerFields, EntryFacts
  <2>3. PICK m \in Nat : Counted(c, m) /\ Dispatch(c, t, m)
    <3>1. CASE Dispatch(c, t, 1)
      BY <3>1 DEF Counted
    <3>2. CASE Dispatch(c, t, IF t.n = 0 THEN LookupCount(c, t.e) ELSE t.n)
      <4> DEFINE m == IF t.n = 0 THEN LookupCount(c, t.e) ELSE t.n
      <4>1. m \in Nat /\ Counted(c, m)
        BY <2>2 DEF LookupCount, Counted, PelRecord
      <4> HIDE DEF m
      <4> QED BY <3>2, <4>1 DEF m
    <3> QED BY <2>1, <3>1, <3>2
  <2>4. /\ worker'[c].todo = worker[c].todo \ {t}
        /\ worker'[c].res = "max" => m >= MaxDeliveries
        /\ worker'[c].pc \in {"isolate", "tryLock"}
    BY <1>0, <2>3 DEF Dispatch, Worker
  <2> QED BY <2>3, <2>4
<1>7. CASE CallFails(c)
  <2>1. /\ worker'[c].todo = {} \/ worker'[c].todo = worker[c].todo
        /\ worker'[c].res = "none" \/ worker'[c].res = worker[c].res
        /\ worker'[c].pc = "next"
    BY <1>0, <1>7 DEF CallFails, AtLoop, Worker
  <2> QED BY <2>1
<1> QED BY <1>1, <1>2, <1>3, <1>4, <1>5, <1>6, <1>7 DEF Scan

LEMMA WorkMoves ==
    ASSUME TypeInv, [Next]_vars, NEW c \in Consumers
    PROVE  /\ worker'[c].pc = "xclaim" => worker'[c] = worker[c] \/ Claims(c)
           /\ TodoFrom(c)
           /\ MaxFrom(c)
<1> DEFINE G == /\ worker'[c].pc = "xclaim" => worker'[c] = worker[c] \/ Claims(c)
                /\ TodoFrom(c)
                /\ MaxFrom(c)
<1>0. ASSUME worker'[c] = worker[c] PROVE G
  BY <1>0 DEF TodoFrom, MaxFrom
<1>1. ASSUME NEW u \in Users, Http(u) PROVE G
  BY <1>0, <1>1, HttpMoves
<1>2. ASSUME NEW d \in Consumers, Lifecycle(d) PROVE G
  <2>1. CASE d # c
    BY <1>0, <1>2, <2>1, LifecycleMoves DEF Others
  <2>2. CASE d = c /\ (Start(d) \/ Exit(d))
    <3>1. worker'[c] = NoWorker
      BY <2>2 DEF Start, Exit, TypeInv, TypeOK
    <3> QED BY <3>1 DEF NoWorker, TodoFrom, MaxFrom
  <2>3. CASE StartRefused(d) \/ Stop(d)
    BY <1>0, <2>3 DEF StartRefused, Stop
  <2> QED BY <1>2, <2>1, <2>2, <2>3 DEF Lifecycle
<1>3. ASSUME NEW d \in Consumers, Scan(d) PROVE G
  BY <1>0, <1>3, ScanMoves, ScanTodo DEF Others
<1>4. ASSUME NEW d \in Consumers, Handle(d) PROVE G
  <2>1. CASE d # c
    BY <1>0, <1>4, <2>1, HandleMoves DEF Others
  <2>2. CASE d = c
    BY <1>4, <2>2, HandleKeepsTodo, HandleMoves DEF TodoFrom, MaxFrom
  <2> QED BY <2>1, <2>2
<1>5. ASSUME Environment PROVE G
  BY <1>0, <1>5, EnvironmentMoves
<1>6. ASSUME UNCHANGED vars PROVE G
  BY <1>0, <1>6 DEF vars
<1> QED BY <1>1, <1>2, <1>3, <1>4, <1>5, <1>6 DEF Next

\* A new dead letter says why the record in hand was isolated.
LEMMA DeadMoves ==
    ASSUME TypeInv, [Next]_vars, NEW d \in dead'
    PROVE  d \in dead \/ \E c \in Consumers : d.why = worker[c].res
<1>1. ASSUME NEW c \in Consumers, Handle(c)
      PROVE  d \in dead \/ d.why = worker[c].res
  <2>1. CASE Isolate(c)
    BY <2>1 DEF Isolate
  <2>2. CASE ~Isolate(c)
    BY <1>1, <2>2 DEF Handle, TryLock, Check, Insert, Unlock, Clear, Ack, dbVars
  <2> QED BY <2>1, <2>2
<1>2. ASSUME NEW c \in Consumers, Scan(c) PROVE d \in dead
  BY <1>2, ScanMoves DEF dbVars
<1>3. ASSUME NEW c \in Consumers, Lifecycle(c) PROVE d \in dead
  BY <1>3, LifecycleMoves DEF dbVars
<1>4. ASSUME NEW u \in Users, Http(u) PROVE d \in dead
  BY <1>4, HttpMoves DEF dbVars
<1>5. ASSUME Environment PROVE d \in dead
  BY <1>5, EnvironmentMoves DEF dbVars
<1>6. ASSUME UNCHANGED vars PROVE d \in dead
  BY <1>6 DEF vars
<1> QED BY <1>1, <1>2, <1>3, <1>4, <1>5, <1>6 DEF Next

LEMMA OwnersStep == TypeInv /\ OwnersInv /\ [Next]_vars => OwnersInv'
<1> SUFFICES ASSUME TypeInv, OwnersInv, [Next]_vars PROVE OwnersInv'
  OBVIOUS
<1>0. /\ TypeOK /\ None \notin Consumers
      /\ \A e \in Entries : pel[e].owner \in Consumers \cup {None}
  BY EntryFacts, SeckillAssumption DEF TypeInv, PelRecord
<1>1. ASSUME NEW c \in Consumers, Scan(c)
      PROVE  status[c] # "new" /\ status' = status
  <2>1. status[c] # "new"
    BY <1>1 DEF Scan, Read, OwnScan, BreakOff, ClaimScan, XClaim, Take, CallFails, Ready
  <2> QED BY <1>1, <2>1, ScanMoves DEF workerUnchanged, jvmVars
<1>2. ASSUME NEW e \in Entries', pel'[e].owner # None
      PROVE  status'[pel'[e].owner] # "new"
  <2>1. CASE PelKept(e)
    BY <1>0, <1>2, <2>1, StatusMoves DEF PelKept, OwnersInv
  <2>2. CASE pel'[e] = NotPending
    BY <1>2, <2>2 DEF NotPending
  <2>3. CASE PelRead(e) \/ PelClaimed(e)
    <3>1. PICK c \in Consumers : Scan(c) /\ pel'[e].owner = c
      BY <2>3 DEF PelRead, PelClaimed, Scan
    <3> QED BY <1>1, <3>1
  <2> QED BY <2>1, <2>2, <2>3, PelMoves
<1>3. ASSUME NEW c \in Consumers, worker'[c].pc = "xclaim", NEW t \in worker'[c].todo
      PROVE  pel'[t.e].owner # c
  <2>1. CASE Claims(c)
    BY <2>1 DEF Claims
  <2>2. CASE worker'[c] = worker[c]
    <3>1. t.e \in Entries /\ pel[t.e].owner # c
      BY <1>3, <2>2, WorkerFields DEF OwnersInv
    <3>2. t.e \in Entries'
      BY <3>1, Grows
    <3>3. CASE PelKept(t.e)
      BY <3>1, <3>3 DEF PelKept
    <3>4. CASE pel'[t.e] = NotPending
      BY <1>0, <3>4 DEF NotPending
    <3>5. ASSUME NEW d \in Consumers, Read(d) \/ XClaim(d), pel'[t.e].owner = d PROVE d # c
      <4>1. worker'[d].pc = "next"
        BY <3>5 DEF Read, AtLoop, XClaim, TypeInv, TypeOK, Worker
      <4> QED BY <1>3, <4>1
    <3> QED BY <3>2, <3>3, <3>4, <3>5, PelMoves DEF PelRead, PelClaimed
  <2> QED BY <1>3, <2>1, <2>2, WorkMoves
<1> QED BY <1>2, <1>3 DEF OwnersInv

LEMMA CountStep == TypeInv /\ OwnersInv /\ CountInv /\ [Next]_vars => CountInv'
<1> SUFFICES ASSUME TypeInv, OwnersInv, CountInv, [Next]_vars, MaxDeliveries > 1, ~HandOver'
             PROVE  /\ \A e \in Entries' : pel'[e].n <= 1
                    /\ \A c \in Consumers : /\ worker'[c].res # "max"
                                            /\ \A t \in worker'[c].todo : t.n <= 1
                    /\ \A d \in dead' : d.why # "max"
  BY DEF CountInv
<1>0. TypeOK /\ MaxDeliveries \in Nat
  BY SeckillAssumption DEF TypeInv
<1>1. ~HandOver
  BY StatusMoves DEF HandOver
<1>2. /\ \A e \in Entries : pel[e].n <= 1
      /\ \A c \in Consumers : worker[c].res # "max"
      /\ \A c \in Consumers : \A t \in worker[c].todo : t.n <= 1
      /\ \A d \in dead : d.why # "max"
  BY <1>1 DEF CountInv
<1>3. ASSUME NEW e \in Entries' PROVE pel'[e].n <= 1
  <2>1. CASE PelKept(e)
    BY <1>2, <2>1 DEF PelKept
  <2>2. CASE pel'[e] = NotPending
    BY <2>2 DEF NotPending
  <2>3. CASE PelRead(e)
    BY <2>3 DEF PelRead
  <2>4. CASE PelClaimed(e)
    <3>1. PICK c \in Consumers : /\ XClaim(c) /\ e \in Entries /\ pel[e].owner # None
                                 /\ \E t \in worker[c].todo : t.e = e
      BY <2>4 DEF PelClaimed
    <3>2. pel[e].owner # c
      BY <3>1 DEF OwnersInv, XClaim
    <3>3. status[c] # "new"
      BY <3>1 DEF XClaim, Ready
    <3>4. pel[e].owner \in Consumers /\ status[pel[e].owner] # "new"
      BY <1>0, <3>1, EntryFacts DEF OwnersInv, PelRecord
    <3> QED BY <1>1, <3>2, <3>3, <3>4 DEF HandOver
  <2> QED BY <2>1, <2>2, <2>3, <2>4, PelMoves
<1>4. ASSUME NEW c \in Consumers, NEW t \in worker'[c].todo PROVE t.n <= 1
  BY <1>2, WorkMoves DEF TodoFrom
<1>5. ASSUME NEW c \in Consumers PROVE worker'[c].res # "max"
  <2>1. \A m \in Nat : Counted(c, m) => m <= 1
    BY <1>2 DEF Counted
  <2>2. ~ \E m \in Nat : m >= MaxDeliveries /\ Counted(c, m)
    BY <1>0, <2>1
  <2> QED BY <1>2, <2>2, WorkMoves DEF MaxFrom
<1>6. ASSUME NEW d \in dead' PROVE d.why # "max"
  BY <1>2, DeadMoves
<1> QED BY <1>3, <1>4, <1>5, <1>6

\* Only a hand-over to another JVM spends the delivery limit.
THEOREM NoPoisonByRetryCorrect == Spec => []NoPoisonByRetry
<1>1. Init => OwnersInv /\ CountInv
  <2> SUFFICES ASSUME Init PROVE OwnersInv /\ CountInv
    OBVIOUS
  <2>1. \A e \in Entries : pel[e] = NotPending
    BY DEF Init, Entries
  <2>2. \A c \in Consumers : worker[c] = NoWorker
    BY DEF Init
  <2>3. dead = {}
    BY DEF Init
  <2> QED BY <2>1, <2>2, <2>3 DEF OwnersInv, CountInv, NotPending, NoWorker
<1>2. CountInv => NoPoisonByRetry
  BY DEF CountInv, HandOver, NoPoisonByRetry
<1>3. Spec => []TypeInv
  BY TypeInit, TypeStep, PTL DEF Spec
<1> QED BY <1>1, <1>2, <1>3, OwnersStep, CountStep, PTL DEF Spec

----------------------------------------------------------------------------
(***************************************************************************)
(* The refinement: the pipeline implements the abstract sale of            *)
(* SeckillSale, and the stock counters of Redis and MySQL agree.           *)
(***************************************************************************)

\* The refinement mapping of SaleRefined, by name.
SoldTo == {r.user : r \in rows}
Failed == {stream[d.e].user : d \in {x \in dead : ~IsPoison(stream[x.e])}}

----------------------------------------------------------------------------
(* Counting rows and buyers                                                *)

\* The buyers of the rows are accepted; there are as many of them as rows.
LEMMA SoldFacts ==
    ASSUME Inv, LedgerInv
    PROVE  /\ IsFiniteSet(SoldTo) /\ IsFiniteSet(Accepted)
           /\ SoldTo \subseteq Accepted
           /\ Cardinality(SoldTo) = Cardinality(rows)
           /\ Cardinality(rows) <= Cardinality(Accepted)
<1>1. IsFiniteSet(rows) /\ IsFiniteSet(Users)
  BY SeckillAssumption DEF LedgerInv
<1>2. IsFiniteSet(SoldTo) /\ Cardinality(SoldTo) = Cardinality(rows)
  <2> DEFINE f == [r \in rows |-> r.user]
  <2>1. f \in [rows -> SoldTo] /\ \A u \in SoldTo : \E r \in rows : f[r] = u
    BY DEF SoldTo
  <2>2. ASSUME NEW q \in rows, NEW r \in rows, f[q] = f[r] PROVE q = r
    <3>1. q \in Body /\ r \in Body /\ q.user = r.user
      BY <2>2 DEF Inv, TypeInv, TypeOK
    <3>2. idOf[q.user] = q.id /\ idOf[r.user] = r.id
      BY DEF Inv, DataInv, RowsGenuine, Genuine
    <3> QED BY <3>1, <3>2 DEF Body
  <2> HIDE DEF f
  <2>3. f \in Surjection(rows, SoldTo) /\ f \in Injection(rows, SoldTo)
    BY <2>1, <2>2 DEF Surjection, Injection, IsInjective
  <2> QED BY <1>1, <2>3, FS_Surjection
<1>3. SoldTo \subseteq Accepted
  <2> SUFFICES ASSUME NEW r \in rows PROVE r.user \in Accepted
    BY DEF SoldTo
  <2> QED BY DEF Inv, DataInv, RowsGenuine, Genuine, IsPoison, Accepted
<1>4. Accepted \subseteq Users /\ IsFiniteSet(Accepted)
  BY <1>1, FS_Subset DEF Accepted
<1>7. Cardinality(SoldTo) <= Cardinality(Accepted)
  BY <1>3, <1>4, FS_Subset
<1>8. Cardinality(SoldTo) \in Nat /\ Cardinality(rows) \in Nat /\ Cardinality(Accepted) \in Nat
  BY <1>1, <1>2, <1>4, FS_CardinalityType
<1> QED BY <1>2, <1>3, <1>4, <1>7, <1>8

----------------------------------------------------------------------------
(* The refinement                                                          *)

\* Dead letters are written by Isolate alone.
LEMMA DeadMove ==
    ASSUME TypeInv, [Next]_vars
    PROVE  UNCHANGED dead \/ \E c \in Consumers : Isolate(c)
<1> DEFINE G == UNCHANGED dead \/ \E c \in Consumers : Isolate(c)
<1>1. ASSUME NEW u \in Users, Http(u) PROVE G
  BY <1>1, HttpMoves DEF dbVars
<1>2. ASSUME NEW c \in Consumers, Lifecycle(c) PROVE G
  BY <1>2, LifecycleMoves DEF dbVars
<1>3. ASSUME NEW c \in Consumers, Scan(c) PROVE G
  BY <1>3, ScanMoves DEF dbVars
<1>4. ASSUME NEW c \in Consumers, Handle(c) PROVE G
  BY <1>4 DEF Handle, TryLock, Check, Insert, Unlock, Clear, Ack, dbVars
<1>5. ASSUME Environment PROVE G
  BY <1>5, EnvironmentMoves DEF dbVars
<1>6. ASSUME UNCHANGED vars PROVE G
  BY <1>6 DEF vars
<1> QED BY <1>1, <1>2, <1>3, <1>4, <1>5, <1>6 DEF Next

\* The failed buyers of the old dead letters are those of the new stream.
LEMMA FailedStays ==
    ASSUME TypeInv, [Next]_vars, UNCHANGED dead
    PROVE  Failed' = Failed
<1>1. \A d \in dead : d.e \in Entries /\ stream'[d.e] = stream[d.e]
  BY Grows DEF TypeInv, TypeOK
<1> QED BY <1>1 DEF Failed, IsPoison

\* A commit sells to an accepted buyer, for the first time, while stock is left.
LEMMA CommitSells ==
    ASSUME Inv, LedgerInv, NEW c \in Consumers,
           worker[c].pc = "insert", Commit(Order(c)), UNCHANGED idOf
    PROVE  /\ Buyer(c) \in Users /\ Buyer(c) \in Accepted \ SoldTo
           /\ Cardinality(SoldTo) < Stock
           /\ SoldTo' = SoldTo \cup {Buyer(c)}
<1>1. ~IsPoison(Order(c)) /\ Genuine(Order(c))
  BY HeldIsGenuine DEF Inv
<1>2. Buyer(c) \in Users /\ Buyer(c) \in Accepted
  BY <1>1 DEF Genuine, IsPoison, Accepted, Buyer
<1>3. Buyer(c) \notin SoldTo
  BY DEF Commit, Exists, SoldTo, Buyer
<1>4. Cardinality(SoldTo) < Stock
  <2>1. dbStock \in Nat /\ Stock \in Nat /\ Cardinality(rows) \in Nat
    BY SeckillAssumption, FS_CardinalityType DEF Inv, TypeInv, TypeOK, LedgerInv
  <2> QED BY <2>1, SoldFacts DEF LedgerInv, DbLedger, Commit
<1>5. SoldTo' = SoldTo \cup {Buyer(c)}
  BY DEF Commit, SoldTo, Buyer
<1> QED BY <1>2, <1>3, <1>4, <1>5

\* A dead letter of a well-formed entry fails one accepted buyer.
LEMMA IsolateFails ==
    ASSUME Inv, NEW c \in Consumers, Isolate(c)
    PROVE  Failed' = Failed \/ \E u \in Users : u \in Accepted /\ Failed' = Failed \cup {u}
<1> DEFINE e == worker[c].cur
<1>1. /\ e \in Entries /\ UNCHANGED stream
      /\ dead' = dead \cup {[e |-> e, why |-> worker[c].res]}
  BY DEF Isolate, Inv, TypeInv, WorkerTyped, workerUnchanged, httpVars
<1>2. CASE IsPoison(stream[e])
  BY <1>1, <1>2 DEF Failed
<1>3. CASE ~IsPoison(stream[e])
  <2> DEFINE n == [e |-> e, why |-> worker[c].res]
             Good == {x \in dead : ~IsPoison(stream[x.e])}
  <2>0. n.e = e
    OBVIOUS
  <2> HIDE DEF n
  <2>1. Failed' = Failed \cup {stream[e].user}
    <3>1. {x \in dead' : ~IsPoison(stream'[x.e])} = Good \cup {n}
      BY <1>1, <1>3, <2>0 DEF n
    <3>2. Failed' = {stream'[d.e].user : d \in {x \in dead' : ~IsPoison(stream'[x.e])}}
      BY DEF Failed, IsPoison
    <3>3. Failed' = {stream[d.e].user : d \in Good \cup {n}}
      BY <1>1, <3>1, <3>2
    <3> HIDE DEF Good
    <3>4. Failed' = {stream[d.e].user : d \in Good} \cup {stream[e].user}
      BY <2>0, <3>3
    <3> QED BY <3>4 DEF Failed, Good
  <2>2. stream[e].user \in Users /\ stream[e].user \in Accepted
    BY <1>1, <1>3 DEF Inv, DataInv, EntriesGenuine, Genuine, IsPoison, Accepted
  <2> QED BY <2>1, <2>2
<1> QED BY <1>2, <1>3

\* The abstract sale counts as this module does.
LEMMA SaleCardinality == \A S : Sale!Cardinality(S) = Cardinality(S)
BY DEF Sale!Cardinality, Cardinality, Sale!IsFiniteSet, IsFiniteSet

LEMMA SaleStep ==
    ASSUME Inv, LedgerInv, [Next]_vars
    PROVE  [Sale!Next]_(Sale!saleVars)
<1> USE DEF Inv
<1> SUFFICES \/ \E u \in Users : \/ /\ u \notin Accepted /\ Accepted' = Accepted \cup {u}
                                    /\ SoldTo' = SoldTo /\ Failed' = Failed
                                 \/ /\ u \in Accepted \ SoldTo /\ Cardinality(SoldTo) < Stock
                                    /\ SoldTo' = SoldTo \cup {u}
                                    /\ Accepted' = Accepted /\ Failed' = Failed
                                 \/ /\ u \in Accepted \ Failed /\ Failed' = Failed \cup {u}
                                    /\ Accepted' = Accepted /\ SoldTo' = SoldTo
             \/ Accepted' = Accepted /\ SoldTo' = SoldTo /\ Failed' = Failed
  BY SaleCardinality DEF Sale!Next, Sale!Accept, Sale!Sell, Sale!Fail, Sale!saleVars, SoldTo, Failed
<1>1. CASE \E u \in Users : LuaAccept(u)
  <2> PICK u \in Users : LuaAccept(u)
    BY <1>1
  <2>1. u \notin Accepted /\ Accepted' = Accepted \cup {u}
    BY DEF LuaAccept, Admits, Accepted, TypeInv, TypeOK
  <2>2. UNCHANGED <<rows, dead>>
    BY DEF LuaAccept, dbVars
  <2>3. SoldTo' = SoldTo /\ Failed' = Failed
    BY <2>2, FailedStays DEF SoldTo
  <2> QED BY <2>1, <2>3
<1>2. CASE UNCHANGED idOf
  <2>0. Accepted' = Accepted
    BY <1>2 DEF Accepted
  <2>1. CASE \E c \in Consumers : Isolate(c)
    <3> PICK c \in Consumers : Isolate(c)
      BY <2>1
    <3>1. SoldTo' = SoldTo
      BY DEF Isolate, SoldTo
    <3> QED BY <2>0, <3>1, IsolateFails
  <2>2. CASE UNCHANGED dead
    <3>0. Failed' = Failed
      BY <2>2, FailedStays
    <3>1. CASE UNCHANGED rows
      BY <2>0, <3>0, <3>1 DEF SoldTo
    <3>2. CASE \E c \in Consumers : Insert(c) /\ ~UNCHANGED rows
      <4> PICK c \in Consumers : Insert(c) /\ ~UNCHANGED rows
        BY <3>2
      <4>1. worker[c].pc = "insert" /\ Commit(Order(c))
        BY DEF Insert
      <4> QED BY <1>2, <2>0, <3>0, <4>1, CommitSells
    <3> QED BY <3>1, <3>2, RowsMove
  <2> QED BY <2>1, <2>2, DeadMove
<1> QED BY <1>1, <1>2, StreamMoves DEF httpVars

\* Every behaviour of the pipeline is, seen through Accepted, the rows' buyers and
\* the dead letters, a behaviour of the abstract sale: no oversell, one sale per
\* buyer, none without an accept, none taken back.
THEOREM SaleRefinedCorrect == Spec => SaleRefined
<1>1. Init => Sale!Init
  BY DEF Init, Sale!Init, Accepted
<1>2. Inv /\ LedgerInv /\ [Next]_vars => [Sale!Next]_(Sale!saleVars)
  BY SaleStep
<1> QED BY <1>1, <1>2, InvInductive, LedgerAlways, PTL DEF Spec, Sale!Spec, SaleRefined

----------------------------------------------------------------------------
(* The ledger of Redis                                                     *)

\* A backfill that has not begun has nothing to write.
RedisInv == backfills = 0 => snapshot = None /\ redisStock + Cardinality(Accepted) = Stock

LEMMA RedisStep ==
    ASSUME Inv, RedisInv, [Next]_vars
    PROVE  RedisInv'
<1> USE DEF Inv
<1>0. /\ TypeOK /\ redisStock \in Nat /\ backfills \in Nat /\ Stock \in Nat
      /\ IsFiniteSet(Accepted) /\ Cardinality(Accepted) \in Nat
  <2>1. IsFiniteSet(Accepted)
    BY SeckillAssumption, FS_Subset DEF Accepted
  <2> QED BY <2>1, SeckillAssumption, FS_CardinalityType DEF TypeInv, TypeOK
<1>1. CASE UNCHANGED <<redisStock, idOf, envVars>>
  BY <1>1 DEF RedisInv, Accepted, envVars
<1>2. CASE \E u \in Users : LuaAccept(u)
  <2> PICK u \in Users : LuaAccept(u)
    BY <1>2
  <2>1. u \notin Accepted /\ Accepted' = Accepted \cup {u}
    BY <1>0 DEF LuaAccept, Admits, Accepted, TypeOK
  <2>2. Cardinality(Accepted') = Cardinality(Accepted) + 1
    BY <1>0, <2>1, FS_AddElement
  <2>3. redisStock' = redisStock - 1 /\ UNCHANGED <<snapshot, backfills>>
    BY DEF LuaAccept, envVars
  <2> QED BY <1>0, <2>2, <2>3 DEF RedisInv
<1>3. CASE UNCHANGED <<redisStock, idOf, snapshot, backfills>>
  BY <1>3 DEF RedisInv, Accepted
<1>4. CASE BackfillRead
  BY <1>0, <1>4 DEF BackfillRead, RedisInv
<1>5. CASE BackfillWrite
  BY <1>0, <1>5 DEF BackfillWrite, RedisInv
<1>6. ASSUME NEW u \in Users, Http(u) PROVE RedisInv'
  BY <1>1, <1>2, <1>6, HttpMoves DEF httpVars
<1>7. ASSUME NEW c \in Consumers, Lifecycle(c) PROVE RedisInv'
  BY <1>1, <1>7, LifecycleMoves DEF httpVars
<1>8. ASSUME NEW c \in Consumers, Scan(c) PROVE RedisInv'
  BY <1>1, <1>8, ScanMoves DEF workerUnchanged, httpVars
<1>9. ASSUME NEW c \in Consumers, Handle(c) PROVE RedisInv'
  BY <1>1, <1>9, HandleMoves DEF workerUnchanged, httpVars
<1>10. ASSUME Environment PROVE RedisInv'
  <2>1. CASE BackfillRead \/ BackfillWrite
    BY <1>4, <1>5, <2>1
  <2>2. CASE ~(BackfillRead \/ BackfillWrite)
    <3>1. UNCHANGED <<redisStock, idOf, snapshot, backfills>>
      BY <1>10, <2>2 DEF Environment, BecomeIdle, LockExpire, Replay, httpVars, envVars
    <3> QED BY <1>3, <3>1
  <2> QED BY <2>1, <2>2
<1>11. ASSUME UNCHANGED vars PROVE RedisInv'
  BY <1>3, <1>11 DEF vars
<1> QED BY <1>6, <1>7, <1>8, <1>9, <1>10, <1>11 DEF Next

LEMMA RedisAlways == Spec => []RedisInv
<1>1. Init => RedisInv
  <2> SUFFICES ASSUME Init PROVE RedisInv
    OBVIOUS
  <2>1. Accepted = {} /\ snapshot = None /\ redisStock = Stock
    BY DEF Init, Accepted
  <2>2. Cardinality(Accepted) = 0 /\ Stock \in Nat
    BY <2>1, SeckillAssumption, FS_EmptySet
  <2> QED BY <2>1, <2>2 DEF RedisInv
<1>2. Inv /\ RedisInv /\ [Next]_vars => RedisInv'
  BY RedisStep
<1> QED BY <1>1, <1>2, InvInductive, PTL DEF Spec

\* Until the backfill script runs, the Redis counter is the stock less the accepted
\* buyers and never exceeds that of MySQL, so that MySQL refuses no accepted order.
THEOREM RedisLedgerCorrect == Spec => []RedisLedger
<1>1. Inv /\ LedgerInv /\ RedisInv => RedisLedger
  <2> SUFFICES ASSUME Inv, LedgerInv, RedisInv PROVE RedisLedger
    OBVIOUS
  <2>1. /\ redisStock \in Nat /\ dbStock \in Nat /\ Stock \in Nat
        /\ Cardinality(rows) \in Nat /\ Cardinality(Accepted) \in Nat
    BY SeckillAssumption, SoldFacts, FS_CardinalityType
       DEF Inv, TypeInv, TypeOK, LedgerInv
  <2>2. dbStock + Cardinality(rows) = Stock /\ Cardinality(rows) <= Cardinality(Accepted)
    BY SoldFacts DEF LedgerInv, DbLedger
  <2> QED BY <2>1, <2>2 DEF RedisInv, RedisLedger
<1> QED BY <1>1, InvInductive, LedgerAlways, RedisAlways, PTL

----------------------------------------------------------------------------
(***************************************************************************)
(* The life of an order.  What VoucherLife asks of the stock when a buyer  *)
(* is accepted is the ledger of Redis; what it asks when the row is        *)
(* written is that of MySQL.                                               *)
(***************************************************************************)
LEMMA LifeCardinality == \A S : Life!Cardinality(S) = Cardinality(S)
BY DEF Life!Cardinality, Cardinality, Life!IsFiniteSet, IsFiniteSet

\* The orders that hold a unit are those of the accepted buyers, those with a row are
\* those sold.
LEMMA LifeSets ==
    ASSUME Inv, LedgerInv
    PROVE  /\ \A u \in Users : Stage(u) = IF u \notin Accepted THEN "none"
                                          ELSE IF u \in SoldTo THEN "unpaid" ELSE "waiting"
           /\ Life!Holding = Accepted /\ Life!Placed = SoldTo
<1>1. \A u \in Users : Stage(u) = IF u \notin Accepted THEN "none"
                                  ELSE IF u \in SoldTo THEN "unpaid" ELSE "waiting"
  BY DEF Stage, Accepted, SoldTo
<1>2. SoldTo \subseteq Accepted /\ Accepted \subseteq Users
  BY SoldFacts DEF Accepted
<1> DEFINE life == [u \in Users |-> Stage(u)]
<1>3. \A u \in Users : life[u] = Stage(u)
  OBVIOUS
<1> HIDE DEF life
<1>4. {u \in Users : life[u] \notin {"none", "returned"}} = Accepted
  BY <1>1, <1>2, <1>3
<1>5. {u \in Users : life[u] \in {"unpaid", "paid", "used"}} = SoldTo
  BY <1>1, <1>2, <1>3
<1> QED BY <1>1, <1>4, <1>5 DEF Life!Holding, Life!Placed, life

\* The backfill script counts its runs when it reads the stock.
LEMMA BackfillsMove ==
    ASSUME TypeInv, [Next]_vars
    PROVE  UNCHANGED backfills \/ BackfillRead
<1> DEFINE G == UNCHANGED backfills \/ BackfillRead
<1>1. ASSUME NEW u \in Users, Http(u) PROVE G
  BY <1>1, HttpMoves DEF Http, LuaAccept, LuaReject, Submit, envVars
<1>2. ASSUME NEW c \in Consumers, Lifecycle(c) PROVE G
  BY <1>2, LifecycleMoves DEF Lifecycle, Start, StartRefused, Stop, Exit, envVars
<1>3. ASSUME NEW c \in Consumers, Scan(c) PROVE G
  BY <1>3, ScanMoves DEF workerUnchanged, envVars
<1>4. ASSUME NEW c \in Consumers, Handle(c) PROVE G
  BY <1>4, HandleMoves DEF workerUnchanged, envVars
<1>5. ASSUME Environment PROVE G
  BY <1>5 DEF Environment, BecomeIdle, LockExpire, Replay, BackfillWrite, envVars
<1>6. ASSUME UNCHANGED vars PROVE G
  BY <1>6 DEF vars
<1> QED BY <1>1, <1>2, <1>3, <1>4, <1>5, <1>6 DEF Next

\* An accepted buyer takes the next id, which nobody was given.
LEMMA AcceptTakes ==
    ASSUME Inv, LedgerInv, RedisInv, NEW u \in Users, LuaAccept(u)
    PROVE  Life!Take(u)
<1> DEFINE life == [v \in Users |-> Stage(v)]
<1>1. /\ idOf \in [Users -> Nat] /\ nextId \in Nat \ {0} /\ redisStock > 0 /\ idOf[u] = 0
      /\ idOf' = [idOf EXCEPT ![u] = nextId] /\ UNCHANGED <<rows, backfills>>
  BY DEF Inv, TypeInv, TypeOK, LuaAccept, Admits, dbVars, envVars
<1>2. idOf'[u] = nextId /\ idOf'[u] # 0
  BY <1>1
<1>3. nextId \notin {idOf[v] : v \in Users}
  BY <1>1 DEF Inv, DataInv, IdsGivenOnce
<1>4. u \notin SoldTo
  BY <1>1, SoldFacts DEF Accepted
<1>5. \A v \in Users : Stage(v)' = IF v = u THEN "waiting" ELSE Stage(v)
  BY <1>1, <1>2, <1>4 DEF Stage, SoldTo
<1>6. life' = [life EXCEPT ![u] = "waiting"] /\ life[u] = "none"
  BY <1>1, <1>5 DEF Stage
<1>7. backfills > 0 \/ Cardinality(Accepted) < Stock
  <2>1. /\ redisStock \in Nat /\ backfills \in Nat /\ Stock \in Nat /\ Cardinality(Accepted) \in Nat
    BY SeckillAssumption, SoldFacts, FS_CardinalityType DEF Inv, TypeInv, TypeOK
  <2> QED BY <1>1, <2>1 DEF RedisInv
<1>8. backfills > 0 \/ Life!Cardinality(Life!Holding) < Stock
  BY <1>7, LifeSets, LifeCardinality
<1> QED BY <1>1, <1>2, <1>3, <1>6, <1>8 DEF Life!Take

\* A row moves a waiting order on.
LEMMA CommitMovesOn ==
    ASSUME Inv, LedgerInv, NEW c \in Consumers, NEW u \in Users, u = Buyer(c),
           worker[c].pc = "insert", Commit(Order(c)), UNCHANGED <<idOf, backfills>>
    PROVE  Life!MoveOn(u)
<1> DEFINE life == [v \in Users |-> Stage(v)]
<1>1. u \in Accepted \ SoldTo /\ Cardinality(SoldTo) < Stock /\ SoldTo' = SoldTo \cup {u}
  BY CommitSells
<1>2. Accepted' = Accepted
  BY DEF Accepted
<1>3. \A v \in Users : /\ Stage(v) = IF v \notin Accepted THEN "none"
                                     ELSE IF v \in SoldTo THEN "unpaid" ELSE "waiting"
                       /\ Stage(v)' = IF v \notin Accepted THEN "none"
                                      ELSE IF v \in SoldTo' THEN "unpaid" ELSE "waiting"
  BY <1>2 DEF Stage, Accepted, SoldTo
<1>4. life' = [life EXCEPT ![u] = "unpaid"] /\ life[u] = "waiting" /\ life'[u] = "unpaid"
  BY <1>1, <1>3
<1>5. Life!Cardinality(Life!Placed) < Stock
  BY <1>1, LifeSets, LifeCardinality
<1>6. <<"waiting", "unpaid">> \in Life!Moves
  BY DEF Life!Moves
<1> QED BY <1>4, <1>5, <1>6 DEF Life!MoveOn

LEMMA LifeStep ==
    ASSUME Inv, LedgerInv, RedisInv, [Next]_vars
    PROVE  [Life!Next]_(Life!lifeVars)
<1> SUFFICES \/ \E u \in Users : Life!Take(u) \/ Life!MoveOn(u)
             \/ Life!Loosen
             \/ UNCHANGED Life!lifeVars
  BY DEF Life!Next
<1>0. TypeInv /\ backfills \in Nat
  BY DEF Inv, TypeInv, TypeOK
<1>1. CASE \E u \in Users : LuaAccept(u)
  BY <1>1, AcceptTakes
<1>2. CASE BackfillRead
  <2>1. UNCHANGED <<idOf, rows>> /\ backfills' = backfills + 1
    BY <1>2 DEF BackfillRead, httpVars, dbVars
  <2>2. \A u \in Users : Stage(u)' = Stage(u)
    BY <2>1 DEF Stage
  <2>3. (backfills' > 0) = TRUE
    BY <1>0, <2>1
  <2>4. CASE backfills > 0
    BY <2>1, <2>2, <2>3, <2>4 DEF Life!lifeVars
  <2>5. CASE ~(backfills > 0)
    BY <2>1, <2>2, <2>3, <2>5 DEF Life!Loosen
  <2> QED BY <2>4, <2>5
<1>3. CASE UNCHANGED <<idOf, backfills>>
  <2>1. CASE UNCHANGED rows
    <3>1. \A u \in Users : Stage(u)' = Stage(u)
      BY <1>3, <2>1 DEF Stage
    <3> QED BY <1>3, <3>1 DEF Life!lifeVars
  <2>2. CASE \E c \in Consumers : Insert(c) /\ ~UNCHANGED rows
    <3>1. PICK c \in Consumers : Insert(c) /\ ~UNCHANGED rows
      BY <2>2
    <3>2. worker[c].pc = "insert" /\ Commit(Order(c))
      BY <3>1 DEF Insert
    <3>3. PICK u \in Users : u = Buyer(c)
      BY <1>3, <3>2, CommitSells
    <3> QED BY <1>3, <3>2, <3>3, CommitMovesOn
  <2> QED BY <1>0, <2>1, <2>2, RowsMove
<1>4. UNCHANGED idOf \/ \E u \in Users : LuaAccept(u)
  BY <1>0, StreamMoves DEF httpVars
<1> QED BY <1>0, <1>1, <1>2, <1>3, <1>4, BackfillsMove

\* The pipeline implements the middle part of the life of an order, through every crash,
\* replay and backfill: one id per buyer, one row per id, no row without a unit of
\* MySQL, and none taken back.
THEOREM LifeRefinedCorrect == Spec => LifeRefined
<1>1. Init => Life!Init
  <2> SUFFICES ASSUME Init PROVE Life!Init
    OBVIOUS
  <2>1. idOf = [u \in Users |-> 0] /\ \A u \in Users : Stage(u) = "none"
    BY DEF Init, Stage
  <2>2. (backfills > 0) = FALSE
    BY DEF Init
  <2> QED BY <2>1, <2>2 DEF Life!Init
<1>2. Inv /\ LedgerInv /\ RedisInv /\ [Next]_vars
        => [Life!Next]_(Life!lifeVars)
  BY LifeStep
<1> QED BY <1>1, <1>2, InvInductive, LedgerAlways, RedisAlways, PTL
        DEF Spec, Life!Spec, LifeRefined
=============================================================================

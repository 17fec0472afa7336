--------------------------- MODULE SeckillProofs ---------------------------
(***************************************************************************)
(* Proofs about Seckill, for every number of buyers, JVMs and faults.      *)
(***************************************************************************)
EXTENDS Seckill, SequenceTheorems, FiniteSetTheorems, TLAPS

(***************************************************************************)
(* What a worker knows about the record in hand, by where it stands.       *)
(***************************************************************************)
WorkerTyped(c) ==
    /\ \A t \in worker[c].todo : t.e \in Entries
    /\ worker[c].pc \notin {"next", "xclaim"} => worker[c].cur \in Entries
    /\ worker[c].pc = "isolate" => worker[c].res \in Why
    /\ worker[c].pc = "unlock" => worker[c].res \in {"ok", "retry", "error"}

TypeInv == TypeOK /\ \A c \in Consumers : WorkerTyped(c)

----------------------------------------------------------------------------
(* The stream and the pending list                                         *)

\* Entries are positions of the stream, each with a body and a pending record.
LEMMA EntryFacts ==
    ASSUME TypeOK
    PROVE  /\ Len(stream) \in Nat
           /\ Entries = 1..Len(stream)
           /\ \A e \in Entries : stream[e] \in Body /\ pel[e] \in PelRecord
           /\ cursor \in Nat /\ cursor <= Len(stream)
<1>1. Len(stream) \in Nat /\ Entries = 1..Len(stream)
  BY LenProperties DEF TypeOK, Entries
<1>2. \A e \in Entries : stream[e] \in Body /\ pel[e] \in PelRecord
  BY <1>1, ElementOfSeq DEF TypeOK
<1> QED BY <1>1, <1>2 DEF TypeOK

\* Rewriting one pending record keeps the pending list well typed.
LEMMA PelUpdate ==
    ASSUME TypeOK, NEW e \in Entries, NEW r \in PelRecord
    PROVE  /\ [pel EXCEPT ![e] = r] \in Seq(PelRecord)
           /\ Len([pel EXCEPT ![e] = r]) = Len(stream)
           /\ \A d \in Entries : [pel EXCEPT ![e] = r][d] = IF d = e THEN r ELSE pel[d]
BY EntryFacts, ExceptSeq DEF TypeOK

\* Appending an entry that nobody holds.
LEMMA StreamAppend ==
    ASSUME TypeOK, NEW b \in Body
    PROVE  /\ Append(stream, b) \in Seq(Body)
           /\ Append(pel, NotPending) \in Seq(PelRecord)
           /\ Len(Append(stream, b)) = Len(stream) + 1
           /\ Len(Append(pel, NotPending)) = Len(stream) + 1
           /\ DOMAIN Append(stream, b) = 1..(Len(stream) + 1)
           /\ \A e \in Entries : Append(stream, b)[e] = stream[e]
                                 /\ Append(pel, NotPending)[e] = pel[e]
           /\ Append(stream, b)[Len(stream) + 1] = b
           /\ Append(pel, NotPending)[Len(stream) + 1] = NotPending
<1>1. NotPending \in PelRecord
  BY DEF NotPending, PelRecord
<1>2. stream \in Seq(Body) /\ pel \in Seq(PelRecord) /\ Len(pel) = Len(stream)
  BY DEF TypeOK
<1>3. Append(stream, b) \in Seq(Body) /\ Append(pel, NotPending) \in Seq(PelRecord)
  BY <1>1, <1>2
<1>4. Len(Append(stream, b)) = Len(stream) + 1 /\ Len(Append(pel, NotPending)) = Len(stream) + 1
  BY <1>1, <1>2
<1>5. DOMAIN Append(stream, b) = 1..(Len(stream) + 1)
  BY <1>3, <1>4, LenProperties
<1> QED BY <1>1, <1>2, <1>3, <1>4, <1>5, EntryFacts

----------------------------------------------------------------------------
(* Type correctness                                                        *)

LEMMA TypeInit == Init => TypeInv
<1> SUFFICES ASSUME Init PROVE TypeInv
  OBVIOUS
<1> USE SeckillAssumption DEF Init
<1>1. Malformed \in Body /\ NotPending \in PelRecord
  BY DEF Malformed, Body, NotPending, PelRecord
<1>0. Backlog \in Nat
  OBVIOUS
<1>2. stream \in [1..Backlog -> Body] /\ pel \in [1..Backlog -> PelRecord]
  BY <1>1
<1>3. stream \in Seq(Body) /\ pel \in Seq(PelRecord)
  <2> HIDE DEF Init
  <2>1. \A S : \A f \in [1..Backlog -> S] : f \in Seq(S)
    BY <1>0, SeqDef, Zenon
  <2> QED BY <1>2, <2>1
<1>4. Len(stream) = Backlog /\ Len(pel) = Backlog
  BY <1>2, <1>3, LenProperties
<1>5. worker \in [Consumers -> Worker]
  BY DEF NoWorker, Worker
<1>6. TypeOK
  <2>1. cursor \in 0..Len(stream) /\ Len(pel) = Len(stream)
    BY <1>0, <1>4
  <2>2. idOf \in [Users -> Nat] /\ lock \in [Users -> Consumers \cup {None}]
        /\ request \in [Users -> Consumers \cup {None}]
    OBVIOUS
  <2>3. status \in [Consumers -> {"new", "refused", "up", "stopping", "down"}]
    OBVIOUS
  <2>4. rows \subseteq Body /\ dead \subseteq [e : Entries, why : Why]
    OBVIOUS
  <2>5. redisStock \in Nat /\ dbStock \in Nat /\ nextId \in Nat \ {0}
        /\ hints \subseteq Nat /\ accepts \subseteq Nat /\ snapshot \in Nat \cup {None}
    OBVIOUS
  <2>7. group \in BOOLEAN
    OBVIOUS
  <2>6. faults \in Nat /\ replays \in Nat /\ backfills \in Nat
    OBVIOUS
  <2> HIDE DEF Init
  <2> QED BY <1>3, <1>5, <2>1, <2>2, <2>3, <2>4, <2>5, <2>6, <2>7 DEF TypeOK
<1>7. \A c \in Consumers : WorkerTyped(c)
  BY DEF WorkerTyped, NoWorker
<1> QED BY <1>6, <1>7 DEF TypeInv

LEMMA TypeHttp ==
    ASSUME TypeInv, NEW u \in Users, Http(u)
    PROVE  TypeInv'
<1> USE DEF TypeInv
<1>1. CASE LuaReject(u)
  <2>1. TypeOK'
    BY <1>1 DEF LuaReject, TypeOK, Entries, httpVars, dbVars, envVars
  <2>2. \A c \in Consumers : WorkerTyped(c)'
    BY <1>1 DEF LuaReject, WorkerTyped, Entries, httpVars
  <2> QED BY <2>1, <2>2
<1>2. CASE LuaAccept(u)
  <2> DEFINE b == [id |-> nextId, user |-> u]
  <2>1. b \in Body
    BY DEF TypeOK, Body
  <2>2. stream' = Append(stream, b) /\ pel' = Append(pel, NotPending)
    BY <1>2 DEF LuaAccept
  <2>3. Entries \subseteq Entries'
    BY <2>1, <2>2, EntryFacts, StreamAppend DEF Entries
  <2>4. TypeOK'
    <3>1. stream' \in Seq(Body) /\ pel' \in Seq(PelRecord) /\ Len(pel') = Len(stream')
      BY <2>1, <2>2, StreamAppend
    <3>2. cursor' \in 0..Len(stream')
      BY <1>2, <2>1, <2>2, StreamAppend, EntryFacts DEF LuaAccept, TypeOK
    <3>3. dead' \subseteq [e : Entries', why : Why]
      BY <1>2, <2>3 DEF LuaAccept, TypeOK, dbVars
    <3> QED BY <1>2, <3>1, <3>2, <3>3
            DEF LuaAccept, Admits, TypeOK, dbVars, envVars
  <2>5. \A c \in Consumers : WorkerTyped(c)'
    BY <1>2, <2>3 DEF LuaAccept, WorkerTyped
  <2> QED BY <2>4, <2>5
<1>3. CASE \E c \in Consumers : Submit(u, c)
  <2> PICK c \in Consumers : Submit(u, c)
    BY <1>3
  <2>1. TypeOK'
    BY DEF Submit, TypeOK, Entries, httpVars, dbVars, envVars
  <2>2. \A d \in Consumers : WorkerTyped(d)'
    BY DEF Submit, WorkerTyped, Entries, httpVars
  <2> QED BY <2>1, <2>2
<1> QED BY <1>1, <1>2, <1>3 DEF Http

LEMMA TypeLifecycle ==
    ASSUME TypeInv, NEW c \in Consumers, Lifecycle(c)
    PROVE  TypeInv'
<1> USE DEF TypeInv
<1>1. NoWorker \in Worker
  BY DEF NoWorker, Worker
<1>2. CASE Start(c)
  <2>1. TypeOK'
    BY <1>1, <1>2, EntryFacts
       DEF Start, FirstOffset, TypeOK, Entries, httpVars, dbVars, envVars
  <2>2. \A d \in Consumers : WorkerTyped(d)'
    BY <1>2 DEF Start, NoWorker, TypeOK, WorkerTyped, Entries, httpVars
  <2> QED BY <2>1, <2>2
<1>3. CASE StartRefused(c)
  <2>1. TypeOK'
    BY <1>3 DEF StartRefused, Fault, TypeOK, Entries, httpVars, dbVars, envVars
  <2>2. \A d \in Consumers : WorkerTyped(d)'
    BY <1>3 DEF StartRefused, WorkerTyped, Entries, httpVars
  <2> QED BY <2>1, <2>2
<1>4. CASE Stop(c)
  <2>1. TypeOK'
    BY <1>4 DEF Stop, TypeOK, Entries, httpVars, dbVars, envVars
  <2>2. \A d \in Consumers : WorkerTyped(d)'
    BY <1>4 DEF Stop, WorkerTyped, Entries, httpVars
  <2> QED BY <2>1, <2>2
<1>5. CASE Exit(c)
  <2>1. TypeOK'
    BY <1>1, <1>5 DEF Exit, TypeOK, Entries, httpVars, dbVars, envVars
  <2>2. \A d \in Consumers : WorkerTyped(d)'
    BY <1>5 DEF Exit, NoWorker, TypeOK, WorkerTyped, Entries, httpVars
  <2> QED BY <2>1, <2>2
<1> QED BY <1>2, <1>3, <1>4, <1>5 DEF Lifecycle

\* A step that rewrites one worker only, and leaves the stream alone.
LEMMA TypeWorker ==
    ASSUME TypeInv, NEW c \in Consumers, NEW w \in Worker,
           worker' = [worker EXCEPT ![c] = w],
           stream' = stream,
           \A t \in w.todo : t.e \in Entries,
           w.pc \notin {"next", "xclaim"} => w.cur \in Entries,
           w.pc = "isolate" => w.res \in Why,
           w.pc = "unlock" => w.res \in {"ok", "retry", "error"}
    PROVE  /\ worker' \in [Consumers -> Worker]
           /\ \A d \in Consumers : WorkerTyped(d)'
<1>1. worker \in [Consumers -> Worker] /\ Entries' = Entries
  BY DEF TypeInv, TypeOK, Entries
<1>2. worker' \in [Consumers -> Worker]
  BY <1>1
<1>3. ASSUME NEW d \in Consumers PROVE WorkerTyped(d)'
  <2>1. WorkerTyped(d)
    BY DEF TypeInv
  <2>2. CASE d = c
    BY <1>1, <2>2 DEF WorkerTyped
  <2>3. CASE d # c
    <3>1. worker'[d] = worker[d]
      BY <1>1, <2>3
    <3> QED BY <1>1, <2>1, <3>1 DEF WorkerTyped
  <2> QED BY <2>2, <2>3
<1> QED BY <1>2, <1>3

\* The worker records that the actions write.
LEMMA WorkerFields ==
    ASSUME TypeInv, NEW c \in Consumers
    PROVE  /\ worker[c] \in Worker
           /\ worker[c].todo \subseteq [e : Nat, n : Nat]
           /\ \A t \in worker[c].todo : t.e \in Entries /\ t.e \in Nat /\ t.n \in Nat
           /\ worker[c].cur \in Nat
           /\ worker[c].pc \notin {"next", "xclaim"} => Order(c) \in Body
BY EntryFacts DEF TypeInv, TypeOK, Worker, WorkerTyped, Order

LEMMA TypeNextRecord ==
    ASSUME TypeInv, NEW c \in Consumers, NextRecord(c), stream' = stream
    PROVE  /\ worker' \in [Consumers -> Worker]
           /\ \A d \in Consumers : WorkerTyped(d)'
<1> DEFINE w == [worker[c] EXCEPT !.pc = "next", !.cur = 0, !.res = "none"]
<1>1. w \in Worker /\ w.pc = "next" /\ w.todo = worker[c].todo
  BY WorkerFields DEF Worker
<1>2. worker' = [worker EXCEPT ![c] = w]
  BY WorkerFields DEF NextRecord, Worker
<1> HIDE DEF w
<1> QED BY <1>1, <1>2, TypeWorker, WorkerFields

LEMMA TypeGotoWith ==
    ASSUME TypeInv, NEW c \in Consumers, stream' = stream,
           NEW label \in {"check", "insert", "unlock", "isolate", "clear", "ack"},
           NEW result \in {"none", "ok", "retry"} \cup Why,
           worker[c].pc \notin {"next", "xclaim"},
           GotoWith(c, label, result),
           label = "isolate" => result \in Why,
           label = "unlock" => result \in {"ok", "retry", "error"}
    PROVE  /\ worker' \in [Consumers -> Worker]
           /\ \A d \in Consumers : WorkerTyped(d)'
<1> DEFINE w == [worker[c] EXCEPT !.pc = label, !.res = result]
<1>1. w \in Worker /\ w.pc = label /\ w.res = result
      /\ w.todo = worker[c].todo /\ w.cur = worker[c].cur
  BY WorkerFields DEF Worker, Why
<1>2. worker' = [worker EXCEPT ![c] = w]
  BY WorkerFields DEF GotoWith, Worker
<1>3. worker[c].cur \in Entries
  BY DEF TypeInv, WorkerTyped
<1> HIDE DEF w
<1> QED BY <1>1, <1>2, <1>3, TypeWorker, WorkerFields

LEMMA TypeGoto ==
    ASSUME TypeInv, NEW c \in Consumers, stream' = stream,
           NEW label \in {"check", "insert", "clear", "ack"},
           worker[c].pc \notin {"next", "xclaim"},
           Goto(c, label)
    PROVE  /\ worker' \in [Consumers -> Worker]
           /\ \A d \in Consumers : WorkerTyped(d)'
<1>1. GotoWith(c, label, worker[c].res)
  BY WorkerFields DEF Goto, GotoWith, Worker
<1>2. worker[c].res \in {"none", "ok", "retry"} \cup Why
  BY WorkerFields DEF Worker
<1> QED BY <1>1, <1>2, TypeGotoWith

LEMMA TypeHandle ==
    ASSUME TypeInv, NEW c \in Consumers, Handle(c)
    PROVE  TypeInv'
<1> USE DEF TypeInv
<1> DEFINE WorkersFine == /\ worker' \in [Consumers -> Worker]
                          /\ \A d \in Consumers : WorkerTyped(d)'
<1>1. CASE TryLock(c)
  <2>1. stream' = stream /\ worker[c].pc \notin {"next", "xclaim"}
    BY <1>1 DEF TryLock, workerUnchanged, httpVars
  <2>2. WorkersFine
    <3>1. NextRecord(c) \/ Goto(c, "check") \/ GotoWith(c, "isolate", "error")
      BY <1>1 DEF TryLock
    <3> QED BY <2>1, <3>1, TypeNextRecord, TypeGoto, TypeGotoWith DEF Why
  <2>3. lock' \in [Users -> Consumers \cup {None}] /\ faults' \in Nat
    BY <1>1 DEF TryLock, Fault, TypeOK
  <2> QED BY <1>1, <2>2, <2>3
          DEF TryLock, TypeOK, Entries, workerUnchanged, httpVars, dbVars, jvmVars, envVars
<1>2. CASE Check(c)
  <2>1. stream' = stream /\ worker[c].pc \notin {"next", "xclaim"}
    BY <1>2 DEF Check, workerUnchanged, httpVars
  <2>2. WorkersFine
    <3>1. \/ Goto(c, "insert")
          \/ \E r \in {"ok", "retry", "error"} : GotoWith(c, "unlock", r)
      BY <1>2 DEF Check
    <3> QED BY <2>1, <3>1, TypeGoto, TypeGotoWith DEF Why
  <2>3. faults' \in Nat
    BY <1>2 DEF Check, Fault, TypeOK
  <2> QED BY <1>2, <2>2, <2>3
          DEF Check, TypeOK, Entries, workerUnchanged, httpVars, dbVars, jvmVars, envVars
<1>3. CASE Insert(c)
  <2>1. stream' = stream /\ worker[c].pc \notin {"next", "xclaim"}
    BY <1>3 DEF Insert, workerUnchanged, httpVars
  <2>2. WorkersFine
    <3>1. \E r \in {"ok", "retry", "error"} : GotoWith(c, "unlock", r)
      BY <1>3 DEF Insert
    <3> QED BY <2>1, <3>1, TypeGotoWith DEF Why
  <2>3. Order(c) \in Body
    BY <2>1, WorkerFields
  <2>4. dbStock' \in Nat /\ rows' \subseteq Body
    BY <1>3, <2>3 DEF Insert, Commit, TypeOK
  <2>5. faults' \in Nat
    BY <1>3 DEF Insert, Fault, TypeOK
  <2> QED BY <1>3, <2>2, <2>4, <2>5
          DEF Insert, TypeOK, Entries, workerUnchanged, httpVars, jvmVars, envVars
<1>4. CASE Unlock(c)
  <2>1. stream' = stream /\ worker[c].pc \notin {"next", "xclaim"}
    BY <1>4 DEF Unlock, workerUnchanged, httpVars
  <2>2. WorkersFine
    <3>1. NextRecord(c) \/ GotoWith(c, "clear", "ok") \/ GotoWith(c, "isolate", "error")
      BY <1>4 DEF Unlock, Settle
    <3> QED BY <2>1, <3>1, TypeNextRecord, TypeGotoWith DEF Why
  <2>3. lock' \in [Users -> Consumers \cup {None}] /\ faults' \in Nat
    <3>1. \/ UNCHANGED lock
          \/ lock' = [lock EXCEPT ![Buyer(c)] = None]
      BY <1>4 DEF Unlock
    <3>2. UNCHANGED faults \/ Fault
      BY <1>4 DEF Unlock
    <3>3. lock \in [Users -> Consumers \cup {None}] /\ faults \in Nat
      BY DEF TypeOK
    <3>4. lock' \in [Users -> Consumers \cup {None}]
      BY <3>1, <3>3
    <3>5. faults' \in Nat
      BY <3>2, <3>3 DEF Fault
    <3> QED BY <3>4, <3>5
  <2> QED BY <1>4, <2>2, <2>3
          DEF Unlock, TypeOK, Entries, workerUnchanged, httpVars, dbVars, jvmVars, envVars
<1>5. CASE Isolate(c)
  <2>1. stream' = stream /\ worker[c].pc = "isolate"
    BY <1>5 DEF Isolate, workerUnchanged, httpVars
  <2>2. WorkersFine
    BY <1>5, <2>1, TypeGoto DEF Isolate
  <2>3. dead' \subseteq [e : Entries, why : Why]
    <3>1. dead' = dead \cup {[e |-> worker[c].cur, why |-> worker[c].res]}
      BY <1>5 DEF Isolate
    <3>2. worker[c].cur \in Entries /\ worker[c].res \in Why
      BY <2>1 DEF WorkerTyped
    <3>3. dead \subseteq [e : Entries, why : Why]
      BY DEF TypeOK
    <3> QED BY <3>1, <3>2, <3>3
  <2>4. UNCHANGED <<workerUnchanged, hints, accepts, group, cursor, pel, lock,
                    dbStock, rows, faults>>
    BY <1>5 DEF Isolate
  <2> QED BY <2>2, <2>3, <2>4
          DEF TypeOK, Entries, workerUnchanged, httpVars, jvmVars, envVars
<1>6. CASE Clear(c)
  <2>1. stream' = stream /\ worker[c].pc = "clear"
    BY <1>6 DEF Clear, workerUnchanged, httpVars
  <2>2. WorkersFine
    BY <1>6, <2>1, TypeGoto DEF Clear
  <2>3. hints' \subseteq Nat /\ accepts' \subseteq Nat /\ faults' \in Nat
    <3>1. hints' \subseteq hints /\ accepts' \subseteq accepts
      BY <1>6 DEF Clear
    <3>2. UNCHANGED faults \/ Fault
      BY <1>6 DEF Clear
    <3>3. hints \subseteq Nat /\ accepts \subseteq Nat /\ faults \in Nat
      BY DEF TypeOK
    <3>4. faults' \in Nat
      BY <3>2, <3>3 DEF Fault
    <3> QED BY <3>1, <3>3, <3>4
  <2>4. UNCHANGED <<workerUnchanged, group, cursor, pel, lock, dbVars>>
    BY <1>6 DEF Clear
  <2> QED BY <2>2, <2>3, <2>4
          DEF TypeOK, Entries, workerUnchanged, httpVars, dbVars, jvmVars, envVars
<1>7. CASE Ack(c)
  <2>1. stream' = stream /\ worker[c].pc = "ack" /\ worker[c].cur \in Entries
    BY <1>7 DEF Ack, workerUnchanged, httpVars, WorkerTyped
  <2>2. WorkersFine
    BY <1>7, <2>1, TypeNextRecord DEF Ack
  <2>3. pel' \in Seq(PelRecord) /\ Len(pel') = Len(stream)
    BY <1>7, <2>1, PelUpdate DEF Ack, NotPending, PelRecord
  <2>4. UNCHANGED <<workerUnchanged, hints, accepts, group, cursor, lock, dbVars, faults>>
    BY <1>7 DEF Ack
  <2> QED BY <2>1, <2>2, <2>3, <2>4
          DEF TypeOK, Entries, workerUnchanged, httpVars, dbVars, jvmVars, envVars
<1> QED BY <1>1, <1>2, <1>3, <1>4, <1>5, <1>6, <1>7 DEF Handle

LEMMA TypeScan ==
    ASSUME TypeInv, NEW c \in Consumers, Scan(c)
    PROVE  TypeInv'
<1> USE DEF TypeInv
<1> DEFINE WorkersFine == /\ worker' \in [Consumers -> Worker]
                          /\ \A d \in Consumers : WorkerTyped(d)'
<1> DEFINE w == worker[c]
<1>0. /\ w \in Worker
      /\ w.pc \in {"next", "xclaim", "tryLock", "check", "insert", "unlock",
                    "isolate", "clear", "ack"}
      /\ w.mode \in {"own", "other"} /\ w.cur \in Nat
      /\ w.res \in {"none", "ok", "retry"} \cup Why
      /\ w.todo \in SUBSET [e : Nat, n : Nat]
      /\ \A t \in w.todo : t.e \in Entries /\ t.e \in Nat /\ t.n \in Nat
      /\ worker \in [Consumers -> Worker]
  BY WorkerFields DEF Worker, TypeOK
<1>1. CASE Read(c)
  <2> DEFINE T == {[e |-> cursor + 1, n |-> 0]}
             v == [w EXCEPT !.todo = T]
  <2>1. stream' = stream /\ w.pc = "next" /\ cursor + 1 \in Entries
    BY <1>1, EntryFacts DEF Read, AtLoop, workerUnchanged, httpVars
  <2>2. worker' = [worker EXCEPT ![c] = v]
    BY <1>0, <1>1 DEF Read
  <2>3. v \in Worker /\ v.pc = "next" /\ \A t \in v.todo : t.e \in Entries
    <3>1. T \in SUBSET [e : Nat, n : Nat] /\ \A t \in T : t.e \in Entries
      BY <2>1, EntryFacts
    <3> HIDE DEF T
    <3> QED BY <1>0, <2>1, <3>1 DEF Worker
  <2>4. WorkersFine
    <3> HIDE DEF T, v
    <3> QED BY <2>1, <2>2, <2>3, TypeWorker
  <2>5. [owner |-> c, n |-> 1, idle |-> FALSE] \in PelRecord
    BY DEF PelRecord
  <2>6. pel' \in Seq(PelRecord) /\ Len(pel') = Len(stream)
    BY <1>1, <2>1, <2>5, PelUpdate DEF Read
  <2>7. cursor' \in 0..Len(stream)
    BY <1>1, <2>1, EntryFacts DEF Read
  <2>8. UNCHANGED <<workerUnchanged, hints, accepts, group, lock, dbVars, faults>>
    BY <1>1 DEF Read
  <2> QED BY <2>4, <2>6, <2>7, <2>8
          DEF TypeOK, Entries, workerUnchanged, httpVars, dbVars, jvmVars, envVars
<1>2. CASE OwnScan(c)
  <2> DEFINE T == OwnTodo(c)
             v == [w EXCEPT !.mode = "own", !.todo = T]
  <2>1. stream' = stream /\ w.pc = "next"
    BY <1>2 DEF OwnScan, AtLoop, workerUnchanged, httpVars
  <2>2. worker' = [worker EXCEPT ![c] = v]
    BY <1>0, <1>2 DEF OwnScan
  <2>3. v \in Worker /\ v.pc = "next" /\ \A t \in v.todo : t.e \in Entries
    <3>1. \A t \in T : \E e \in Entries : t = [e |-> e, n |-> pel[e].n]
      BY DEF OwnTodo, First, Pending
    <3>2. \A e \in Entries : e \in Nat /\ pel[e].n \in Nat
      BY EntryFacts DEF PelRecord
    <3>3. T \in SUBSET [e : Nat, n : Nat] /\ \A t \in T : t.e \in Entries
      <4> HIDE DEF T
      <4> QED BY <3>1, <3>2
    <3> HIDE DEF T
    <3> QED BY <1>0, <2>1, <3>3 DEF Worker
  <2>4. WorkersFine
    <3> HIDE DEF T, v
    <3> QED BY <2>1, <2>2, <2>3, TypeWorker
  <2>5. UNCHANGED <<workerUnchanged, hints, accepts, group, cursor, pel, lock, dbVars, faults>>
    BY <1>2 DEF OwnScan
  <2> QED BY <2>4, <2>5
          DEF TypeOK, Entries, workerUnchanged, httpVars, dbVars, jvmVars, envVars
<1>3. CASE BreakOff(c)
  <2> DEFINE v == [w EXCEPT !.todo = {}]
  <2>1. stream' = stream /\ w.pc = "next"
    BY <1>3 DEF BreakOff, workerUnchanged, httpVars
  <2>2. worker' = [worker EXCEPT ![c] = v]
    BY <1>0, <1>3 DEF BreakOff
  <2>3. v \in Worker /\ v.pc = "next" /\ \A t \in v.todo : t.e \in Entries
    BY <1>0, <2>1 DEF Worker
  <2>4. WorkersFine
    <3> HIDE DEF v
    <3> QED BY <2>1, <2>2, <2>3, TypeWorker
  <2>5. UNCHANGED <<workerUnchanged, hints, accepts, group, cursor, pel, lock, dbVars, faults>>
    BY <1>3 DEF BreakOff
  <2> QED BY <2>4, <2>5
          DEF TypeOK, Entries, workerUnchanged, httpVars, dbVars, jvmVars, envVars
<1>4. CASE ClaimScan(c)
  <2> DEFINE B == First(ClaimBatch, {e \in First(ClaimWindow, Pending) : Claimable(c, e)})
             T == {[e |-> e, n |-> 0] : e \in B}
             label == IF B = {} THEN "next" ELSE "xclaim"
             v == [w EXCEPT !.mode = "other", !.pc = label, !.todo = T]
  <2>1. stream' = stream /\ w.pc = "next" /\ label \in {"next", "xclaim"}
    BY <1>4 DEF ClaimScan, workerUnchanged, httpVars
  <2>2. worker' = [worker EXCEPT ![c] = v]
    <3>1. worker' = [worker EXCEPT ![c].mode = "other", ![c].pc = label, ![c].todo = T]
      BY <1>4 DEF ClaimScan
    <3> HIDE DEF B, T, label
    <3> QED BY <1>0, <3>1
  <2>3. v \in Worker /\ v.pc \in {"next", "xclaim"} /\ \A t \in v.todo : t.e \in Entries
    <3>1. B \subseteq Entries
      BY DEF First, Pending
    <3>2. T \in SUBSET [e : Nat, n : Nat] /\ \A t \in T : t.e \in Entries
      <4> HIDE DEF B
      <4> QED BY <3>1, EntryFacts
    <3> HIDE DEF T, label
    <3> QED BY <1>0, <2>1, <3>2 DEF Worker
  <2>4. WorkersFine
    <3> HIDE DEF v
    <3> QED BY <2>1, <2>2, <2>3, TypeWorker
  <2>5. UNCHANGED <<workerUnchanged, hints, accepts, group, cursor, pel, lock, dbVars, faults>>
    BY <1>4 DEF ClaimScan
  <2> QED BY <2>4, <2>5
          DEF TypeOK, Entries, workerUnchanged, httpVars, dbVars, jvmVars, envVars
<1>5. CASE XClaim(c)
  <2> DEFINE T   == {t \in w.todo : pel[t.e].owner # None /\ pel[t.e].idle}
             ids == {t.e : t \in T}
             v   == [w EXCEPT !.pc = "next", !.todo = T]
  <2>1. stream' = stream /\ w.pc = "xclaim"
    BY <1>5 DEF XClaim, workerUnchanged, httpVars
  <2>2. worker' = [worker EXCEPT ![c] = v]
    <3>1. worker' = [worker EXCEPT ![c].pc = "next", ![c].todo = T]
      BY <1>5 DEF XClaim
    <3> HIDE DEF T
    <3> QED BY <1>0, <3>1
  <2>3. v \in Worker /\ v.pc = "next" /\ \A t \in v.todo : t.e \in Entries
    <3>1. T \in SUBSET [e : Nat, n : Nat] /\ \A t \in T : t.e \in Entries
      BY <1>0
    <3> HIDE DEF T
    <3> QED BY <1>0, <3>1 DEF Worker
  <2>4. WorkersFine
    <3> HIDE DEF v
    <3> QED BY <2>1, <2>2, <2>3, TypeWorker
  <2>5. /\ pel' = [e \in Entries |-> IF e \in ids
                      THEN [owner |-> c, n |-> Bump(pel[e].n), idle |-> FALSE] ELSE pel[e]]
        /\ UNCHANGED <<workerUnchanged, hints, accepts, group, cursor, lock, dbVars, faults>>
    BY <1>5 DEF XClaim
  <2>6. pel' \in Seq(PelRecord) /\ Len(pel') = Len(stream)
    <3>1. \A e \in Entries : Bump(pel[e].n) \in Nat
      BY EntryFacts DEF Bump, PelRecord
    <3>2. pel' \in [1..Len(stream) -> PelRecord]
      <4> HIDE DEF ids
      <4> QED BY <2>5, <3>1, EntryFacts DEF PelRecord
    <3>3. \A S : \A f \in [1..Len(stream) -> S] : f \in Seq(S)
      BY EntryFacts, SeqDef, Zenon
    <3>4. pel' \in Seq(PelRecord)
      BY <3>2, <3>3
    <3> QED BY <3>2, <3>4, LenProperties, EntryFacts
  <2> QED BY <2>4, <2>5, <2>6
          DEF TypeOK, Entries, workerUnchanged, httpVars, dbVars, jvmVars, envVars
<1>6. CASE Take(c)
  <2>1. stream' = stream /\ w.pc = "next"
    BY <1>6 DEF Take, workerUnchanged, httpVars
  <2>0. PICK t \in w.todo : \E n : Dispatch(c, t, n)
    BY <1>6 DEF Take
  <2>2. PICK n : Dispatch(c, t, n)
    BY <2>0
  <2> DEFINE p == IF IsPoison(stream[t.e]) \/ n >= MaxDeliveries THEN "isolate" ELSE "tryLock"
             r == IF IsPoison(stream[t.e]) THEN "bad" ELSE IF n >= MaxDeliveries THEN "max" ELSE "none"
             v == [w EXCEPT !.todo = @ \ {t}, !.cur = t.e, !.pc = p, !.res = r]
  <2>3. p \in {"isolate", "tryLock"} /\ r \in {"none"} \cup Why /\ (p = "isolate" => r \in Why)
    BY DEF Why
  <2>4. worker' = [worker EXCEPT ![c] = v]
    <3>1. worker' = [worker EXCEPT ![c].todo = @ \ {t}, ![c].cur = t.e, ![c].pc = p, ![c].res = r]
      BY <2>2 DEF Dispatch
    <3> HIDE DEF p, r
    <3> QED BY <1>0, <3>1
  <2>5. v \in Worker /\ v.pc = p /\ v.res = r /\ v.cur = t.e /\ v.todo = w.todo \ {t}
    <3> HIDE DEF p, r
    <3> QED BY <1>0, <2>3 DEF Worker
  <2>6. WorkersFine
    <3> HIDE DEF p, r, v
    <3> QED BY <1>0, <2>1, <2>3, <2>4, <2>5, TypeWorker
  <2>7. faults' \in Nat
    BY <1>6 DEF Take, Fault, TypeOK
  <2>8. UNCHANGED <<workerUnchanged, hints, accepts, group, cursor, pel, lock, dbVars>>
    BY <1>6 DEF Take
  <2> HIDE DEF p, r, v
  <2> QED BY <2>6, <2>7, <2>8
          DEF TypeOK, Entries, workerUnchanged, httpVars, dbVars, jvmVars, envVars
<1>7. CASE CallFails(c)
  <2>1. stream' = stream
    BY <1>7 DEF CallFails, workerUnchanged, httpVars
  <2>2. WorkersFine
    <3>1. CASE worker' = [worker EXCEPT ![c].pc = "next", ![c].todo = {},
                                        ![c].cur = 0, ![c].res = "none"]
      <4> DEFINE v == [w EXCEPT !.pc = "next", !.todo = {}, !.cur = 0, !.res = "none"]
      <4>1. worker' = [worker EXCEPT ![c] = v]
        BY <1>0, <3>1
      <4>2. v \in Worker /\ v.pc = "next" /\ \A t \in v.todo : t.e \in Entries
        BY <1>0 DEF Worker
      <4> HIDE DEF v
      <4> QED BY <2>1, <4>1, <4>2, TypeWorker
    <3>2. CASE \E m \in {"own", "other"} : w.pc = "next" /\ worker' = [worker EXCEPT ![c].mode = m]
      <4> PICK m \in {"own", "other"} : w.pc = "next" /\ worker' = [worker EXCEPT ![c].mode = m]
        BY <3>2
      <4> DEFINE v == [w EXCEPT !.mode = m]
      <4>1. worker' = [worker EXCEPT ![c] = v]
        BY <1>0
      <4>2. v \in Worker /\ v.pc = "next" /\ \A t \in v.todo : t.e \in Entries
        BY <1>0 DEF Worker
      <4> HIDE DEF v
      <4> QED BY <2>1, <4>1, <4>2, TypeWorker
    <3> QED BY <1>7, <3>1, <3>2 DEF CallFails, AtLoop
  <2>3. faults' \in Nat
    BY <1>7 DEF CallFails, Fault, TypeOK
  <2>4. UNCHANGED <<workerUnchanged, hints, accepts, group, cursor, pel, lock, dbVars>>
    BY <1>7 DEF CallFails
  <2> QED BY <2>2, <2>3, <2>4
          DEF TypeOK, Entries, workerUnchanged, httpVars, dbVars, jvmVars, envVars
<1> QED BY <1>1, <1>2, <1>3, <1>4, <1>5, <1>6, <1>7 DEF Scan

LEMMA TypeEnvironment ==
    ASSUME TypeInv, Environment
    PROVE  TypeInv'
<1> USE DEF TypeInv
<1>1. CASE \E e \in Entries : BecomeIdle(e)
  <2> PICK e \in Entries : BecomeIdle(e)
    BY <1>1
  <2> DEFINE r == [pel[e] EXCEPT !.idle = TRUE]
  <2>1. r \in PelRecord
    BY EntryFacts DEF PelRecord
  <2>2. pel' = [pel EXCEPT ![e] = r] /\ Entries' = Entries
    BY EntryFacts DEF BecomeIdle, httpVars, Entries
  <2>3. pel' \in Seq(PelRecord) /\ Len(pel') = Len(stream)
    <3> HIDE DEF r
    <3> QED BY <2>1, <2>2, PelUpdate
  <2>4. UNCHANGED <<redisStock, httpVars, hints, accepts, group, cursor, lock, dbVars,
                    jvmVars, worker, envVars, faults>>
    BY DEF BecomeIdle
  <2> QED BY <2>2, <2>3, <2>4
          DEF TypeOK, WorkerTyped, httpVars, dbVars, jvmVars, envVars
<1>2. CASE \E u \in Users : LockExpire(u)
  <2> PICK u \in Users : LockExpire(u)
    BY <1>2
  <2>1. lock' \in [Users -> Consumers \cup {None}]
    BY DEF LockExpire, TypeOK
  <2>2. faults' \in Nat
    BY DEF LockExpire, Fault, TypeOK
  <2>3. UNCHANGED <<redisStock, httpVars, hints, accepts, group, cursor, pel, dbVars,
                    jvmVars, worker, envVars>>
    BY DEF LockExpire
  <2> QED BY <2>1, <2>2, <2>3
          DEF TypeOK, WorkerTyped, Entries, httpVars, dbVars, jvmVars, envVars
<1>3. CASE \E d \in dead : Replay(d)
  <2> PICK d \in dead : Replay(d)
    BY <1>3
  <2> DEFINE b == stream[d.e]
  <2>1. b \in Body
    BY EntryFacts DEF TypeOK
  <2>2. /\ stream' = Append(stream, b) /\ pel' = Append(pel, NotPending)
        /\ replays' = replays + 1
        /\ UNCHANGED <<redisStock, idOf, nextId, hints, accepts, group, cursor, lock, dbVars,
                       jvmVars, worker, snapshot, faults, backfills>>
    BY DEF Replay
  <2> HIDE DEF b
  <2>3. Entries \subseteq Entries'
    BY <2>1, <2>2, EntryFacts, StreamAppend DEF Entries
  <2>4. stream' \in Seq(Body) /\ pel' \in Seq(PelRecord) /\ Len(pel') = Len(stream')
    BY <2>1, <2>2, StreamAppend
  <2>5. cursor' \in 0..Len(stream')
    BY <2>1, <2>2, StreamAppend, EntryFacts DEF TypeOK
  <2>6. dead' \subseteq [e : Entries', why : Why]
    BY <2>2, <2>3 DEF TypeOK, dbVars
  <2>7. TypeOK'
    BY <2>2, <2>4, <2>5, <2>6 DEF TypeOK, dbVars, jvmVars
  <2>8. \A c \in Consumers : WorkerTyped(c)'
    BY <2>2, <2>3 DEF WorkerTyped
  <2> QED BY <2>7, <2>8
<1>4. CASE BackfillRead
  BY <1>4 DEF BackfillRead, TypeOK, WorkerTyped, Entries, httpVars, dbVars, jvmVars
<1>5. CASE BackfillWrite
  BY <1>5 DEF BackfillWrite, TypeOK, WorkerTyped, Entries, httpVars, dbVars, jvmVars
<1> QED BY <1>1, <1>2, <1>3, <1>4, <1>5 DEF Environment

LEMMA TypeStep == TypeInv /\ [Next]_vars => TypeInv'
<1> SUFFICES ASSUME TypeInv, [Next]_vars PROVE TypeInv'
  OBVIOUS
<1>1. ASSUME NEW u \in Users, Http(u) PROVE TypeInv'
  BY <1>1, TypeHttp
<1>2. ASSUME NEW c \in Consumers, Lifecycle(c) \/ Scan(c) \/ Handle(c) PROVE TypeInv'
  BY <1>2, TypeLifecycle, TypeScan, TypeHandle
<1>3. CASE Environment
  BY <1>3, TypeEnvironment
<1>4. CASE UNCHANGED vars
  BY <1>4 DEF vars, TypeInv, TypeOK, WorkerTyped, Entries
<1> QED BY <1>1, <1>2, <1>3, <1>4 DEF Next

\* The variables keep their types: no counter goes below zero, the cursor stays
\* inside the stream, dead letters name entries of it.
THEOREM TypeCorrect == Spec => []TypeOK
<1>1. Spec => []TypeInv
  BY TypeInit, TypeStep, PTL DEF Spec
<1>2. TypeInv => TypeOK
  BY DEF TypeInv
<1> QED BY <1>1, <1>2, PTL
=============================================================================

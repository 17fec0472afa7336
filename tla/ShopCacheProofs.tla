-------------------------- MODULE ShopCacheProofs --------------------------
(***************************************************************************)
(* The shop cache for every number of readers, pool slots, versions and    *)
(* faults: types, one owner at a time, a shop that exists is found, and    *)
(* an older shop is not written over a newer one.                          *)
(***************************************************************************)
EXTENDS ShopCache, TLAPS

USE ShopAssumption

----------------------------------------------------------------------------
(* Types                                                                   *)

LEMMA Records ==
    /\ \A a \in Answer : Done(a) \in Reader
    /\ NoTask \in Task
    /\ \A n \in Nat : Fill(n) \in Cached /\ Found(n) \in Answer
<1>1. \A a \in Answer : Done(a) \in Reader
  BY DEF Done, Reader
<1>2. NoTask \in Task
  BY DEF NoTask, Task
<1>3. \A n \in Nat : Fill(n) \in Cached /\ Found(n) \in Answer
  BY DEF Fill, Cached, Found, Answer
<1> QED BY <1>1, <1>2, <1>3

Label == {"done", "hit", "rehit", "lock", "wait", "only",
          "recheck", "load", "lockedOnly", "fill", "release"}

Readable == reader \in [Readers -> Reader]

\* What the helpers of a reader do to the fields of its record.
LEMMA SetMoves ==
    ASSUME Readable, NEW r \in Readers, NEW rec \in Reader, Set(r, rec)
    PROVE  Readable' /\ reader'[r] = rec
BY DEF Readable, Set

LEMMA GotoMoves ==
    ASSUME Readable, NEW r \in Readers, NEW label \in Label, Goto(r, label)
    PROVE  /\ Readable' /\ reader'[r].pc = label /\ reader'[r].v = reader[r].v
           /\ reader'[r].ans = reader[r].ans /\ reader'[r].lapsed = reader[r].lapsed
<1>1. [reader[r] EXCEPT !.pc = label] \in Reader
  BY DEF Readable, Reader, Label
<1>2. reader' = [reader EXCEPT ![r] = [reader[r] EXCEPT !.pc = label]]
  BY DEF Goto, Readable
<1>3. Readable' /\ reader'[r] = [reader[r] EXCEPT !.pc = label]
  BY <1>1, <1>2 DEF Readable
<1> QED BY <1>3 DEF Readable, Reader

LEMMA HoldMoves ==
    ASSUME Readable, NEW r \in Readers, NEW label \in Label, NEW n \in Nat, Hold(r, label, n)
    PROVE  /\ Readable' /\ reader'[r].pc = label /\ reader'[r].v = n
           /\ reader'[r].ans = reader[r].ans /\ reader'[r].lapsed = reader[r].lapsed
<1>1. [reader[r] EXCEPT !.pc = label, !.v = n] \in Reader
  BY DEF Readable, Reader, Label
<1>2. reader' = [reader EXCEPT ![r] = [reader[r] EXCEPT !.pc = label, !.v = n]]
  BY DEF Hold, Readable
<1>3. Readable' /\ reader'[r] = [reader[r] EXCEPT !.pc = label, !.v = n]
  BY <1>1, <1>2 DEF Readable
<1> QED BY <1>3 DEF Readable, Reader

LEMMA LeaveMoves ==
    ASSUME Readable, NEW r \in Readers, NEW a \in Answer, Leave(r, a)
    PROVE  /\ Readable' /\ reader'[r].pc = "release"
           /\ reader'[r].ans = a /\ reader'[r].lapsed = reader[r].lapsed
<1>1. [reader[r] EXCEPT !.pc = "release", !.v = 0, !.ans = a] \in Reader
  BY DEF Readable, Reader
<1>2. reader' = [reader EXCEPT ![r] = [reader[r] EXCEPT !.pc = "release", !.v = 0, !.ans = a]]
  BY DEF Leave, Readable
<1>3. Readable' /\ reader'[r] = [reader[r] EXCEPT !.pc = "release", !.v = 0, !.ans = a]
  BY <1>1, <1>2 DEF Readable
<1> QED BY <1>3 DEF Readable, Reader

\* Only this reader's record changes.
Alone(r) == \A q \in Readers \ {r} : reader'[q] = reader[q]

LEMMA ReadAlone ==
    ASSUME Readable, NEW r \in Readers, Get(r) \/ Read(r)
    PROVE  Alone(r)
<1>1. \A rec : Set(r, rec) => Alone(r)
  BY DEF Set, Alone, Readable
<1>2. \A label : Goto(r, label) => Alone(r)
  BY DEF Goto, Alone, Readable
<1>3. \A label, n : Hold(r, label, n) => Alone(r)
  BY DEF Hold, Alone, Readable
<1>4. \A a : Leave(r, a) => Alone(r)
  BY DEF Leave, Alone, Readable
<1> QED BY <1>1, <1>2, <1>3, <1>4
        DEF Get, Read, Revalidate, LockMiss, Retry, Recheck, Load, Write, LoadOnly,
            Release, Serve

\* A value served outside the lock.
LEMMA Serves ==
    ASSUME Readable, NEW r \in Readers, NEW label \in {"hit", "rehit"},
           cache \in Cached, Serve(r, label)
    PROVE  /\ Readable' /\ Alone(r)
           /\ reader'[r].pc \in {"done", label}
           /\ reader'[r].ans = "notfound" => cache.v = 0
           /\ ~reader'[r].lapsed
<1>1. cache.v \in Nat
  BY DEF Cached
<1>2. [Done("ok") EXCEPT !.pc = label, !.v = cache.v] \in Reader
  BY <1>1 DEF Done, Reader, Answer
<1>3. Done(Found(cache.v)) \in Reader
  BY <1>1, Records
<1>4. Alone(r)
  BY DEF Serve, Set, Alone, Readable
<1>5. CASE cache.stale
  <2>1. reader'[r] = [Done("ok") EXCEPT !.pc = label, !.v = cache.v] /\ Readable'
    BY <1>2, <1>5, SetMoves, GotoMoves, HoldMoves, LeaveMoves DEF Serve
  <2> QED BY <1>4, <2>1 DEF Done
<1>6. CASE ~cache.stale
  <2>1. reader'[r] = Done(Found(cache.v)) /\ Readable'
    BY <1>3, <1>6, SetMoves, GotoMoves, HoldMoves, LeaveMoves DEF Serve
  <2> QED BY <1>4, <2>1 DEF Done, Found
<1> QED BY <1>5, <1>6

LEMMA TypeRead ==
    ASSUME TypeOK, NEW r \in Readers, Get(r) \/ Read(r)
    PROVE  TypeOK'
<1>0. Readable /\ reader[r] \in Reader /\ db \in Nat /\ cache \in Cached \cup {None}
  BY DEF TypeOK, Readable
<1> USE DEF Label
<1>1. \A label \in {"lock", "only"} : [Done("ok") EXCEPT !.pc = label] \in Reader
  BY DEF Done, Reader, Answer
<1>2. CASE Get(r)
  <2>1. Readable'
    BY <1>0, <1>1, <1>2, SetMoves, GotoMoves, Serves DEF Get
  <2> QED BY <1>2, <2>1 DEF Get, Fault, TypeOK, Readable
<1>3. CASE Revalidate(r)
  <2>1. Readable'
    BY <1>0, <1>3, SetMoves, GotoMoves, HoldMoves, LeaveMoves, Records DEF Revalidate, Answer
  <2>2. lock' \in Readers \cup Slots \cup {None, Orphan}
    BY <1>3 DEF Revalidate, Unanswered, TypeOK
  <2>3. task' \in [Slots -> Task]
    <3>1. CASE UNCHANGED task
      BY <3>1 DEF TypeOK
    <3>2. CASE \E s \in Slots : task' = [task EXCEPT ![s].pc = "queued"]
      <4>1. PICK s \in Slots : task' = [task EXCEPT ![s].pc = "queued"]
        BY <3>2
      <4>2. [task[s] EXCEPT !.pc = "queued"] \in Task
        BY DEF TypeOK, Task
      <4> QED BY <4>1, <4>2 DEF TypeOK
    <3> QED BY <1>3, <3>1, <3>2 DEF Revalidate
  <2> QED BY <1>3, <2>1, <2>2, <2>3 DEF Revalidate, Fault, TypeOK, Readable
<1>4. CASE LockMiss(r)
  <2>1. Readable'
    BY <1>0, <1>4, SetMoves, GotoMoves, HoldMoves, LeaveMoves, Records DEF LockMiss, Answer
  <2> QED BY <1>4, <2>1 DEF LockMiss, Unanswered, Fault, TypeOK, Readable
<1>5. CASE Retry(r)
  <2>1. Readable'
    BY <1>0, <1>5, SetMoves, GotoMoves, Serves DEF Retry
  <2> QED BY <1>5, <2>1 DEF Retry, Fault, TypeOK, Readable
<1>6. CASE Recheck(r)
  <2>1. cache # None => Found(cache.v) \in Answer
    BY <1>0, Records DEF Cached
  <2>2. Readable'
    BY <1>0, <1>6, <2>1, SetMoves, GotoMoves, HoldMoves, LeaveMoves DEF Recheck
  <2> QED BY <1>6, <2>2 DEF Recheck, Fault, TypeOK, Readable
<1>7. CASE Load(r)
  <2>1. Readable'
    BY <1>0, <1>7, SetMoves, GotoMoves, HoldMoves, LeaveMoves DEF Load, Answer
  <2> QED BY <1>7, <2>1 DEF Load, Fault, TypeOK, Readable
<1>8. CASE Write(r)
  <2>1. reader[r].v \in Nat
    BY <1>0 DEF Reader
  <2>2. Fill(reader[r].v) \in Cached /\ Found(reader[r].v) \in Answer
    BY <2>1, Records
  <2>3. Readable'
    BY <1>0, <1>8, <2>2, SetMoves, GotoMoves, HoldMoves, LeaveMoves DEF Write
  <2> QED BY <1>8, <2>2, <2>3 DEF Write, Fault, TypeOK, Readable
<1>9. CASE LoadOnly(r)
  <2>1. Found(db) \in Answer /\ OnFailure \in Answer
    BY <1>0, Records DEF OnFailure, Answer
  <2>2. Readable'
    BY <1>0, <1>9, <2>1, SetMoves, GotoMoves, HoldMoves, LeaveMoves, Records DEF LoadOnly
  <2> QED BY <1>9, <2>2 DEF LoadOnly, Fault, TypeOK, Readable
<1>10. CASE Release(r)
  <2>1. reader[r].ans \in Answer
    BY <1>0 DEF Reader
  <2>2. Readable'
    BY <1>0, <1>10, <2>1, SetMoves, GotoMoves, HoldMoves, LeaveMoves, Records DEF Release
  <2> QED BY <1>10, <2>2 DEF Release, Unlocked, Fault, TypeOK, Readable
<1> QED BY <1>2, <1>3, <1>4, <1>5, <1>6, <1>7, <1>8, <1>9, <1>10 DEF Read

\* A step of the pool moves one task.
LEMMA Works ==
    ASSUME TypeOK, NEW s \in Slots,
           NEW label \in {"write", "release"}, NEW n \in Nat, Work(s, label, n)
    PROVE  /\ task' \in [Slots -> Task]
           /\ task'[s].pc = label /\ task'[s].v = n /\ task'[s].lapsed = task[s].lapsed
           /\ \A t \in Slots \ {s} : task'[t] = task[t]
<1>1. [task[s] EXCEPT !.pc = label, !.v = n] \in Task
  BY DEF TypeOK, Task
<1>2. task' = [task EXCEPT ![s] = [task[s] EXCEPT !.pc = label, !.v = n]]
  BY DEF Work, TypeOK
<1>3. task'[s] = [task[s] EXCEPT !.pc = label, !.v = n] /\ task[s] \in Task
  BY <1>2 DEF TypeOK
<1>4. task'[s].pc = label /\ task'[s].v = n /\ task'[s].lapsed = task[s].lapsed
  BY <1>3 DEF Task
<1> QED BY <1>1, <1>2, <1>4 DEF TypeOK

LEMMA TypeRebuild ==
    ASSUME TypeOK, NEW s \in Slots, Rebuild(s)
    PROVE  TypeOK'
<1>1. CASE RebuildRead(s)
  <2>1. db \in Nat /\ 0 \in Nat
    BY DEF TypeOK
  <2>2. task' \in [Slots -> Task]
    BY <1>1, <2>1, Works DEF RebuildRead
  <2> QED BY <1>1, <2>2 DEF RebuildRead, Fault, TypeOK
<1>2. CASE RebuildWrite(s)
  <2>1. task' \in [Slots -> Task]
    BY <1>2, Works DEF RebuildWrite
  <2>2. task[s].v \in Nat
    BY DEF TypeOK, Task
  <2>3. Fill(task[s].v) \in Cached
    BY <2>2, Records
  <2> QED BY <1>2, <2>1, <2>3 DEF RebuildWrite, Fault, TypeOK
<1>3. CASE RebuildRelease(s)
  <2>1. task' \in [Slots -> Task]
    BY <1>3, Records DEF RebuildRelease, TypeOK
  <2> QED BY <1>3, <2>1 DEF RebuildRelease, Unlocked, Fault, TypeOK
<1> QED BY <1>1, <1>2, <1>3 DEF Rebuild

LEMMA TypeInit == Init => TypeOK
<1> SUFFICES ASSUME Init PROVE TypeOK
  OBVIOUS
<1>1. reader \in [Readers -> Reader]
  BY Records DEF Init, Answer
<1>2. task \in [Slots -> Task]
  BY Records DEF Init
<1>3. db \in Nat /\ pending \in Nat /\ faults \in Nat
  BY DEF Init
<1>5. outlived \in BOOLEAN
  BY Zenon DEF Init
<1>4. cache \in Cached \cup {None} /\ lock \in Readers \cup Slots \cup {None, Orphan}
  BY DEF Init
<1> QED BY <1>1, <1>2, <1>3, <1>4, <1>5 DEF TypeOK

LEMMA TypeStep == TypeOK /\ [Next]_vars => TypeOK'
<1> SUFFICES ASSUME TypeOK, [Next]_vars PROVE TypeOK'
  OBVIOUS
<1>1. CASE \E r \in Readers : Get(r) \/ Read(r)
  BY <1>1, TypeRead
<1>2. CASE \E s \in Slots : Rebuild(s)
  BY <1>2, TypeRebuild
<1>3. CASE Save \/ Update
  BY <1>3 DEF Save, Update, TypeOK
<1>4. CASE Invalidate
  BY <1>4 DEF Invalidate, Fault, TypeOK
<1>5. CASE LogicalExpiry
  <2>1. cache \in Cached
    BY <1>5 DEF LogicalExpiry, TypeOK
  <2>2. cache' \in Cached
    BY <1>5, <2>1 DEF LogicalExpiry, Cached
  <2> QED BY <1>5, <2>2 DEF LogicalExpiry, TypeOK
<1>6. CASE MarkerTtl \/ LockTtl
  BY <1>6 DEF MarkerTtl, LockTtl, TypeOK
<1>7. ASSUME NEW x \in Section, Outlive(x) PROVE TypeOK'
  <2>1. CASE x \in Readers /\ reader' = [reader EXCEPT ![x].lapsed = TRUE] /\ UNCHANGED task
    <3>1. [reader[x] EXCEPT !.lapsed = TRUE] \in Reader
      BY <2>1 DEF TypeOK, Reader
    <3>2. reader' \in [Readers -> Reader]
      BY <2>1, <3>1 DEF TypeOK
    <3> QED BY <1>7, <2>1, <3>2 DEF Outlive, Fault, TypeOK
  <2>2. CASE x \in Slots /\ task' = [task EXCEPT ![x].lapsed = TRUE] /\ UNCHANGED reader
    <3>1. [task[x] EXCEPT !.lapsed = TRUE] \in Task
      BY <2>2 DEF TypeOK, Task
    <3>2. task' \in [Slots -> Task]
      BY <2>2, <3>1 DEF TypeOK
    <3> QED BY <1>7, <2>2, <3>2 DEF Outlive, Fault, TypeOK
  <2> QED BY <1>7, <2>1, <2>2 DEF Outlive
<1>8. ASSUME NEW R \in SUBSET Readers, NEW S \in SUBSET Slots, Crash(R, S) PROVE TypeOK'
  <2>1. reader' \in [Readers -> Reader] /\ task' \in [Slots -> Task]
    BY <1>8, Records DEF Crash, Answer, TypeOK
  <2>2. pending' \in Nat
    BY <1>8 DEF Crash, TypeOK
  <2> QED BY <1>8, <2>1, <2>2 DEF Crash, Fault, TypeOK
<1>9. CASE UNCHANGED vars
  BY <1>9 DEF vars, TypeOK
<1> QED BY <1>1, <1>2, <1>3, <1>4, <1>5, <1>6, <1>7, <1>8, <1>9 DEF Next

\* Type correctness: in particular no deletion is made that no commit has asked for.
THEOREM TypeCorrect == Spec => []TypeOK
  BY TypeInit, TypeStep, PTL DEF Spec

----------------------------------------------------------------------------
(* One owner at a time                                                     *)

\* Whoever works under a lock that has not run out holds it.
LockInv ==
    /\ \A r \in Readers : Loading(r) /\ ~reader[r].lapsed => lock = r
    /\ \A s \in Slots : Rebuilding(s) /\ ~task[s].lapsed => lock = s

\* A step that takes nobody into the section keeps it, if it leaves a lock that is
\* taken alone.
LEMMA NobodyEnters ==
    ASSUME TypeOK, LockInv,
           lock' = lock \/ lock = None,
           \A r \in Readers : Loading(r)' /\ ~reader'[r].lapsed
                                  => Loading(r) /\ ~reader[r].lapsed,
           \A s \in Slots : Rebuilding(s)' /\ ~task'[s].lapsed
                                  => Rebuilding(s) /\ ~task[s].lapsed
    PROVE  LockInv'
BY DEF LockInv

LEMMA LockRead ==
    ASSUME TypeOK, LockInv, NEW r \in Readers, Get(r) \/ Read(r)
    PROVE  LockInv'
<1>0. Readable /\ Alone(r) /\ reader[r] \in Reader
  BY ReadAlone DEF TypeOK, Readable
<1>1. ASSUME lock' = lock \/ lock = None, task' = task,
             Loading(r)' /\ ~reader'[r].lapsed => Loading(r) /\ ~reader[r].lapsed
      PROVE  LockInv'
  BY <1>0, <1>1, NobodyEnters DEF Alone, Loading, Rebuilding
<1> USE DEF Label
<1>2. CASE Get(r)
  <2>1. \A label \in {"lock", "only"} : [Done("ok") EXCEPT !.pc = label] \in Reader
    BY DEF Done, Reader, Answer
  <2>2. ~Loading(r)'
    <3>1. CASE Serve(r, "hit") /\ cache # None
      BY <1>0, <3>1, Serves DEF Loading, TypeOK
    <3>2. CASE \E label \in {"lock", "only"} : Set(r, [Done("ok") EXCEPT !.pc = label])
      BY <1>0, <2>1, <3>2, SetMoves, GotoMoves, HoldMoves, LeaveMoves DEF Loading, Done
    <3> QED BY <1>2, <3>1, <3>2 DEF Get
  <2> QED BY <1>1, <1>2, <2>2 DEF Get
<1>3. CASE Revalidate(r)
  <2>1. ~Loading(r)'
    BY <1>0, <1>3, SetMoves, GotoMoves, HoldMoves, LeaveMoves, Records DEF Revalidate, Loading, Done, Answer
  <2>2. CASE task' = task
    BY <1>1, <1>3, <2>1, <2>2 DEF Revalidate, Unanswered
  <2>3. CASE lock = None /\ \E s \in Slots : /\ task[s] = NoTask /\ lock' = s
                                            /\ task' = [task EXCEPT ![s].pc = "queued"]
    <3>1. PICK s \in Slots : lock' = s /\ task' = [task EXCEPT ![s].pc = "queued"]
      BY <2>3
    <3>2. \A t \in Slots \ {s} : task'[t] = task[t]
      BY <3>1 DEF TypeOK
    <3> QED BY <1>0, <2>1, <2>3, <3>1, <3>2 DEF LockInv, Alone, Loading, Rebuilding
  <2> QED BY <1>3, <2>2, <2>3 DEF Revalidate
<1>4. CASE LockMiss(r)
  <2>1. CASE lock = None /\ lock' = r /\ Goto(r, "recheck")
    BY <1>0, <1>4, <2>1 DEF LockMiss, LockInv, Alone, Loading, Rebuilding
  <2>2. CASE Goto(r, "wait") \/ Set(r, Done("error"))
    <3>1. ~Loading(r)'
      BY <1>0, <2>2, SetMoves, GotoMoves, HoldMoves, LeaveMoves, Records DEF Loading, Done, Answer
    <3> QED BY <1>1, <1>4, <3>1 DEF LockMiss, Unanswered
  <2> QED BY <1>4, <2>1, <2>2 DEF LockMiss
<1>5. CASE Retry(r)
  <2>1. ~Loading(r)'
    BY <1>0, <1>5, SetMoves, GotoMoves, Serves DEF Retry, Loading, TypeOK
  <2> QED BY <1>1, <1>5, <2>1 DEF Retry
<1>6. CASE Recheck(r)
  <2>1. cache # None => Found(cache.v) \in Answer
    BY Records DEF Cached, TypeOK
  <2>2. Loading(r) /\ reader'[r].lapsed = reader[r].lapsed
    BY <1>0, <1>6, <2>1, SetMoves, GotoMoves, HoldMoves, LeaveMoves DEF Recheck, Loading, Reader
  <2> QED BY <1>1, <1>6, <2>2 DEF Recheck
<1>7. CASE Load(r)
  <2>1. Loading(r) /\ reader'[r].lapsed = reader[r].lapsed
    BY <1>0, <1>7, SetMoves, GotoMoves, HoldMoves, LeaveMoves DEF Load, Loading, Reader, Answer, TypeOK
  <2> QED BY <1>1, <1>7, <2>1 DEF Load
<1>8. CASE Write(r)
  <2>1. Found(reader[r].v) \in Answer
    BY <1>0, Records DEF Reader
  <2>2. Loading(r) /\ reader'[r].lapsed = reader[r].lapsed
    BY <1>0, <1>8, <2>1, SetMoves, GotoMoves, HoldMoves, LeaveMoves DEF Write, Loading, Reader
  <2> QED BY <1>1, <1>8, <2>2 DEF Write
<1>9. CASE LoadOnly(r)
  <2>1. Found(db) \in Answer /\ OnFailure \in Answer
    BY Records DEF OnFailure, Answer, TypeOK
  <2>2. CASE reader[r].pc = "only"
    <3>1. ~Loading(r)'
      BY <1>0, <1>9, <2>1, <2>2, SetMoves, GotoMoves, HoldMoves, LeaveMoves, Records DEF LoadOnly, Loading, Done
    <3> QED BY <1>1, <1>9, <3>1 DEF LoadOnly
  <2>3. CASE reader[r].pc = "lockedOnly"
    <3>1. Loading(r) /\ reader'[r].lapsed = reader[r].lapsed
      BY <1>0, <1>9, <2>1, <2>3, SetMoves, GotoMoves, HoldMoves, LeaveMoves DEF LoadOnly, Loading, Reader
    <3> QED BY <1>1, <1>9, <3>1 DEF LoadOnly
  <2> QED BY <1>9, <2>2, <2>3 DEF LoadOnly
<1>10. CASE Release(r)
  <2>1. reader[r].ans \in Answer
    BY <1>0 DEF Reader
  <2>2. ~Loading(r)'
    BY <1>0, <1>10, <2>1, SetMoves, GotoMoves, HoldMoves, LeaveMoves, Records DEF Release, Loading, Done
  <2> QED BY <1>0, <1>10, <2>2
          DEF Release, Unlocked, LockInv, Alone, Loading, Rebuilding
<1> QED BY <1>2, <1>3, <1>4, <1>5, <1>6, <1>7, <1>8, <1>9, <1>10 DEF Read

LEMMA LockRebuild ==
    ASSUME TypeOK, LockInv, NEW s \in Slots, Rebuild(s)
    PROVE  LockInv'
<1>1. CASE RebuildRead(s) \/ RebuildWrite(s)
  <2>1. db \in Nat /\ 0 \in Nat
    BY DEF TypeOK
  <2>2. /\ \A t \in Slots \ {s} : task'[t] = task[t]
        /\ task'[s].lapsed = task[s].lapsed
    BY <1>1, <2>1, Works DEF RebuildRead, RebuildWrite, TypeOK, Task
  <2> QED BY <1>1, <2>2, NobodyEnters DEF RebuildRead, RebuildWrite, Loading, Rebuilding
<1>2. CASE RebuildRelease(s)
  <2>1. /\ \A t \in Slots \ {s} : task'[t] = task[t]
        /\ task'[s] = NoTask
    BY <1>2 DEF RebuildRelease, TypeOK
  <2> QED BY <1>2, <2>1 DEF RebuildRelease, Unlocked, LockInv, Loading, Rebuilding, NoTask
<1> QED BY <1>1, <1>2 DEF Rebuild

LEMMA LockStep == TypeOK /\ LockInv /\ [Next]_vars => LockInv'
<1> SUFFICES ASSUME TypeOK, LockInv, [Next]_vars PROVE LockInv'
  OBVIOUS
<1>1. CASE \E r \in Readers : Get(r) \/ Read(r)
  BY <1>1, LockRead
<1>2. CASE \E s \in Slots : Rebuild(s)
  BY <1>2, LockRebuild
<1>3. CASE Save \/ Update \/ Invalidate \/ LogicalExpiry \/ MarkerTtl \/ UNCHANGED vars
  BY <1>3 DEF Save, Update, Invalidate, LogicalExpiry, MarkerTtl, vars, LockInv,
              Loading, Rebuilding
<1>4. CASE LockTtl
  BY <1>4 DEF LockTtl, LockInv, Loading, Rebuilding, Section
<1>5. ASSUME NEW x \in Section, Outlive(x) PROVE LockInv'
  <2>1. CASE x \in Readers /\ reader' = [reader EXCEPT ![x].lapsed = TRUE] /\ UNCHANGED task
    <3>1. reader'[x] = [reader[x] EXCEPT !.lapsed = TRUE]
          /\ \A q \in Readers \ {x} : reader'[q] = reader[q]
      BY <2>1 DEF TypeOK
    <3>2. reader'[x].lapsed
      BY <2>1, <3>1 DEF TypeOK, Reader
    <3> QED BY <1>5, <2>1, <3>1, <3>2 DEF Outlive, LockInv, Loading, Rebuilding
  <2>2. CASE x \in Slots /\ task' = [task EXCEPT ![x].lapsed = TRUE] /\ UNCHANGED reader
    <3>1. task'[x] = [task[x] EXCEPT !.lapsed = TRUE]
          /\ \A t \in Slots \ {x} : task'[t] = task[t]
      BY <2>2 DEF TypeOK
    <3>2. task'[x].lapsed
      BY <2>2, <3>1 DEF TypeOK, Task
    <3> QED BY <1>5, <2>2, <3>1, <3>2 DEF Outlive, LockInv, Loading, Rebuilding
  <2> QED BY <1>5, <2>1, <2>2 DEF Outlive
<1>6. ASSUME NEW R \in SUBSET Readers, NEW S \in SUBSET Slots, Crash(R, S) PROVE LockInv'
  <2>1. \A r \in Readers : reader'[r] = reader[r] \/ reader'[r] = Done("ok")
    BY <1>6 DEF Crash
  <2>2. \A s \in Slots : task'[s] = task[s] \/ task'[s] = NoTask
    BY <1>6 DEF Crash
  <2> QED BY <1>6, <2>1, <2>2 DEF Crash, LockInv, Loading, Rebuilding, Done, NoTask
<1> QED BY <1>1, <1>2, <1>3, <1>4, <1>5, <1>6 DEF Next

\* Two owners, neither of which outlived its lock, never load or rebuild together:
\* the token keeps a late owner from freeing the lock of its successor.
THEOREM SingleFlightCorrect == Spec => []SingleFlight
<1>1. Init => LockInv
  BY DEF Init, LockInv, Loading, Rebuilding, Done, NoTask
<1>2. LockInv => SingleFlight
  <2> SUFFICES ASSUME LockInv, NEW x \in Section, NEW y \in Section,
                      ~Lapsed(x), ~Lapsed(y)
               PROVE  x = y
    BY DEF SingleFlight
  <2>1. \A z \in Section : ~Lapsed(z) => lock = z
    BY DEF Section, Lapsed, LockInv
  <2> QED BY <2>1
<1> QED BY <1>1, <1>2, TypeInit, TypeStep, LockStep, PTL DEF Spec

----------------------------------------------------------------------------
(* A shop that exists is found                                             *)

\* Once there is a row, nothing in the cache or in anybody's hands says otherwise.
Present ==
    /\ db > 0
    /\ cache # None => cache.v > 0
    /\ \A r \in Readers : reader[r].ans # "notfound" /\ (reader[r].pc = "fill" => reader[r].v > 0)
    /\ \A s \in Slots : task[s].pc = "write" => task[s].v > 0

\* The record of one reader keeps it.
Good(rec) == rec.ans # "notfound" /\ (rec.pc = "fill" => rec.v > 0)

LEMMA PresentRead ==
    ASSUME TypeOK, Present, NEW r \in Readers, Get(r) \/ Read(r)
    PROVE  Present'
<1>0. /\ Readable /\ Alone(r) /\ reader[r] \in Reader /\ db \in Nat /\ db > 0
      /\ cache # None => cache \in Cached /\ cache.v > 0
      /\ Good(reader[r]) /\ db' = db
  BY ReadAlone DEF TypeOK, Readable, Present, Good, Get, Read, Revalidate, LockMiss, Retry,
                   Recheck, Load, Write, LoadOnly, Release
<1>1. ASSUME Good(reader'[r]), cache' # None => cache'.v > 0,
             \A s \in Slots : task'[s].pc = "write" => task[s].pc = "write" /\ task'[s] = task[s]
      PROVE  Present'
  BY <1>0, <1>1 DEF Present, Good, Alone
<1>2. \A n \in Nat : n > 0 => Found(n) = "ok"
  BY DEF Found
<1> USE DEF Label
<1>settles. \A a \in Answer : a # "notfound" /\ Set(r, Done(a)) => Good(reader'[r])
  BY <1>0, SetMoves, Records DEF Good, Done
<1>3. CASE Get(r)
  <2>1. \A label \in {"lock", "only"} : [Done("ok") EXCEPT !.pc = label] \in Reader
    BY DEF Done, Reader, Answer
  <2>2. Good(reader'[r])
    <3>1. CASE Serve(r, "hit") /\ cache # None
      BY <1>0, <3>1, Serves DEF Good, Cached
    <3>2. CASE \E label \in {"lock", "only"} : Set(r, [Done("ok") EXCEPT !.pc = label])
      BY <1>0, <2>1, <3>2, SetMoves, GotoMoves, HoldMoves, LeaveMoves DEF Good, Done
    <3> QED BY <1>3, <3>1, <3>2 DEF Get
  <2> QED BY <1>0, <1>1, <1>3, <2>2 DEF Get
<1>4. CASE Revalidate(r)
  <2>1. Good(reader'[r])
    <3>1. CASE Set(r, Done("ok")) \/ Set(r, Done("error"))
      BY <1>settles, <3>1 DEF Answer
    <3>2. CASE Hold(r, "only", 0)
      BY <1>0, <3>2, HoldMoves DEF Good
    <3> QED BY <1>4, <3>1, <3>2 DEF Revalidate
  <2>2. \A s \in Slots : task'[s].pc = "write" => task[s].pc = "write" /\ task'[s] = task[s]
    <3>1. CASE task' = task
      BY <3>1
    <3>2. CASE \E s \in Slots : task' = [task EXCEPT ![s].pc = "queued"]
      <4>1. PICK s \in Slots : task' = [task EXCEPT ![s].pc = "queued"]
        BY <3>2
      <4>2. task'[s].pc = "queued" /\ \A t \in Slots \ {s} : task'[t] = task[t]
        BY <4>1 DEF TypeOK, Task
      <4> QED BY <4>2
    <3> QED BY <1>4, <3>1, <3>2 DEF Revalidate
  <2> QED BY <1>0, <1>1, <1>4, <2>1, <2>2 DEF Revalidate
<1>5. CASE LockMiss(r)
  <2>1. Good(reader'[r])
    <3>1. CASE Set(r, Done("error"))
      BY <1>settles, <3>1 DEF Answer
    <3>2. CASE Goto(r, "recheck") \/ Goto(r, "wait")
      BY <1>0, <3>2, GotoMoves DEF Good
    <3> QED BY <1>5, <3>1, <3>2 DEF LockMiss
  <2> QED BY <1>0, <1>1, <1>5, <2>1 DEF LockMiss
<1>6. CASE Retry(r)
  <2>1. Good(reader'[r])
    <3>1. CASE Serve(r, "rehit") /\ cache # None
      BY <1>0, <3>1, Serves DEF Good, Cached
    <3>2. CASE Goto(r, "only")
      BY <1>0, <3>2, SetMoves, GotoMoves, HoldMoves, LeaveMoves DEF Good, Reader
    <3> QED BY <1>6, <3>1, <3>2 DEF Retry
  <2> QED BY <1>0, <1>1, <1>6, <2>1 DEF Retry
<1>7. CASE Recheck(r)
  <2>1. cache # None => Found(cache.v) = "ok"
    BY <1>0, <1>2 DEF Cached
  <2>2. Good(reader'[r])
    BY <1>0, <1>7, <2>1, SetMoves, GotoMoves, HoldMoves, LeaveMoves DEF Recheck, Good, Reader, Answer
  <2> QED BY <1>0, <1>1, <1>7, <2>2 DEF Recheck
<1>8. CASE Load(r)
  <2>1. Good(reader'[r])
    BY <1>0, <1>8, SetMoves, GotoMoves, HoldMoves, LeaveMoves DEF Load, Good, Reader, Answer
  <2> QED BY <1>0, <1>1, <1>8, <2>1 DEF Load
<1>9. CASE Write(r)
  <2>1. reader[r].v \in Nat /\ reader[r].v > 0
    BY <1>0, <1>9 DEF Write, Good, Reader
  <2>2. Found(reader[r].v) = "ok"
    BY <1>2, <2>1
  <2>3. Good(reader'[r])
    BY <1>0, <1>9, <2>2, SetMoves, GotoMoves, HoldMoves, LeaveMoves DEF Write, Good, Reader, Answer
  <2> QED BY <1>0, <1>1, <1>9, <2>1, <2>3 DEF Write, Fill
<1>10. CASE LoadOnly(r)
  <2>1. PICK a \in {Found(db), OnFailure} :
            IF reader[r].pc = "only" THEN Set(r, Done(a)) ELSE Leave(r, a)
    BY <1>10 DEF LoadOnly
  <2>2. a \in Answer /\ a # "notfound"
    BY <1>0, <1>2 DEF OnFailure, Answer
  <2>3. Good(reader'[r])
    <3>1. CASE Set(r, Done(a))
      BY <1>settles, <2>2, <3>1
    <3>2. CASE Leave(r, a)
      BY <1>0, <2>2, <3>2, LeaveMoves DEF Good
    <3> QED BY <2>1, <3>1, <3>2
  <2> QED BY <1>0, <1>1, <1>10, <2>3 DEF LoadOnly
<1>11. CASE Release(r)
  <2>1. reader[r].ans \in Answer /\ reader[r].ans # "notfound"
    BY <1>0 DEF Reader, Good
  <2>2. Good(reader'[r])
    BY <1>0, <1>11, <2>1, SetMoves, GotoMoves, HoldMoves, LeaveMoves, Records DEF Release, Good, Done
  <2> QED BY <1>0, <1>1, <1>11, <2>2 DEF Release
<1> QED BY <1>3, <1>4, <1>5, <1>6, <1>7, <1>8, <1>9, <1>10, <1>11 DEF Read

LEMMA PresentStep == TypeOK /\ Present /\ [Next]_vars => Present'
<1> SUFFICES ASSUME TypeOK, Present, [Next]_vars PROVE Present'
  OBVIOUS
<1>1. CASE \E r \in Readers : Get(r) \/ Read(r)
  BY <1>1, PresentRead
<1>2. ASSUME NEW s \in Slots, Rebuild(s) PROVE Present'
  <2>1. CASE RebuildRead(s)
    <3>1. db \in Nat /\ 0 \in Nat
      BY DEF TypeOK
    <3>2. /\ \A t \in Slots \ {s} : task'[t] = task[t]
          /\ task'[s].pc = "write" => task'[s].v = db
      BY <2>1, <3>1, Works DEF RebuildRead, TypeOK, Task
    <3> QED BY <2>1, <3>2 DEF RebuildRead, Present
  <2>2. CASE RebuildWrite(s)
    <3>1. task[s].v > 0
      BY <2>2 DEF RebuildWrite, Present
    <3>2. /\ \A t \in Slots \ {s} : task'[t] = task[t]
          /\ task'[s].pc = "release"
      BY <2>2, Works DEF RebuildWrite, TypeOK, Task
    <3> QED BY <2>2, <3>1, <3>2 DEF RebuildWrite, Present, Fill
  <2>3. CASE RebuildRelease(s)
    <3>1. /\ \A t \in Slots \ {s} : task'[t] = task[t]
          /\ task'[s] = NoTask
      BY <2>3 DEF RebuildRelease, TypeOK
    <3> QED BY <2>3, <3>1 DEF RebuildRelease, Present, NoTask
  <2> QED BY <1>2, <2>1, <2>2, <2>3 DEF Rebuild
<1>3. CASE Save \/ Update \/ Invalidate \/ MarkerTtl \/ LockTtl \/ UNCHANGED vars
  BY <1>3 DEF Save, Update, Invalidate, MarkerTtl, LockTtl, vars, Present, TypeOK
<1>4. CASE LogicalExpiry
  <2>1. cache \in Cached /\ cache'.v = cache.v
    BY <1>4 DEF LogicalExpiry, TypeOK, Cached
  <2> QED BY <1>4, <2>1 DEF LogicalExpiry, Present
<1>5. ASSUME NEW x \in Section, Outlive(x) PROVE Present'
  <2>1. CASE x \in Readers /\ reader' = [reader EXCEPT ![x].lapsed = TRUE] /\ UNCHANGED task
    <3>1. \A q \in Readers : /\ reader'[q].pc = reader[q].pc /\ reader'[q].v = reader[q].v
                             /\ reader'[q].ans = reader[q].ans
      BY <2>1 DEF TypeOK, Reader
    <3> QED BY <1>5, <2>1, <3>1 DEF Outlive, Present
  <2>2. CASE x \in Slots /\ task' = [task EXCEPT ![x].lapsed = TRUE] /\ UNCHANGED reader
    <3>1. \A t \in Slots : task'[t].pc = task[t].pc /\ task'[t].v = task[t].v
      BY <2>2 DEF TypeOK, Task
    <3> QED BY <1>5, <2>2, <3>1 DEF Outlive, Present
  <2> QED BY <1>5, <2>1, <2>2 DEF Outlive
<1>6. ASSUME NEW R \in SUBSET Readers, NEW S \in SUBSET Slots, Crash(R, S) PROVE Present'
  <2>1. \A r \in Readers : reader'[r] = reader[r] \/ reader'[r] = Done("ok")
    BY <1>6 DEF Crash
  <2>2. \A s \in Slots : task'[s] = task[s] \/ task'[s] = NoTask
    BY <1>6 DEF Crash
  <2> QED BY <1>6, <2>1, <2>2 DEF Crash, Present, Done, NoTask
<1> QED BY <1>1, <1>2, <1>3, <1>4, <1>5, <1>6 DEF Next

\* A shop whose row was there from the start is never answered as missing: neither a
\* failing Redis nor a failing MySQL, neither a lost lock nor a crash turns into "no
\* such shop".
THEOREM NeverMissingCorrect == Spec => NeverMissing
<1> DEFINE P == \A r \in Readers : reader[r].ans # "notfound"
<1>1. Init /\ db > 0 => Present
  BY DEF Init, Present, Done, NoTask
<1>2. Present => P
  BY DEF Present
<1> HIDE DEF P
<1>3. Spec /\ db > 0 => []P
  BY <1>1, <1>2, TypeInit, TypeStep, PresentStep, PTL DEF Spec
<1> QED BY <1>3 DEF NeverMissing, P
----------------------------------------------------------------------------
(* No older shop over a newer one                                          *)

\* The cache holds nothing newer than version n.
UpTo(n) == cache # None => cache.v <= n

\* What a thread carries to the cache is no newer than the row and, unless a lock was
\* outlived, no older than what the cache holds.
Aged(rec, writes) ==
    /\ rec.pc = writes => rec.v <= db /\ (~outlived => UpTo(rec.v))
    /\ rec.lapsed => outlived

AgeInv == /\ UpTo(db)
          /\ \A r \in Readers : Aged(reader[r], "fill")
          /\ \A s \in Slots : Aged(task[s], "write")

\* A record that has nothing to write, and has not just run out of its lock.
Idle(old, new, writes) == new.pc # writes /\ (new.lapsed => old.lapsed)

\* A step that loads nothing and writes nothing.
LEMMA Keeps ==
    ASSUME TypeOK, AgeInv, db' = db, outlived' = outlived,
           cache' # None => cache # None /\ cache'.v = cache.v,
           \A r \in Readers : reader'[r] = reader[r] \/ Idle(reader[r], reader'[r], "fill"),
           \A s \in Slots : task'[s] = task[s] \/ Idle(task[s], task'[s], "write")
    PROVE  AgeInv'
<1>1. UpTo(db)'
  BY DEF AgeInv, UpTo
<1>2. ASSUME NEW r \in Readers PROVE Aged(reader[r], "fill")'
  BY <1>2 DEF AgeInv, Aged, UpTo, Idle
<1>3. ASSUME NEW s \in Slots PROVE Aged(task[s], "write")'
  BY <1>3 DEF AgeInv, Aged, UpTo, Idle
<1> QED BY <1>1, <1>2, <1>3 DEF AgeInv

\* As long as no lock was outlived, whoever is about to write holds the lock.
LEMMA WritesAlone ==
    ASSUME TypeOK, LockInv, AgeInv, ~outlived
    PROVE  /\ \A r \in Readers : reader[r].pc = "fill" => lock = r
           /\ \A s \in Slots : task[s].pc = "write" => lock = s
BY DEF LockInv, AgeInv, Aged, Loading, Rebuilding

LEMMA AgeRead ==
    ASSUME TypeOK, LockInv, AgeInv, NEW r \in Readers, Get(r) \/ Read(r)
    PROVE  AgeInv'
<1>0. /\ Readable /\ Alone(r) /\ reader[r] \in Reader /\ db \in Nat
      /\ cache # None => cache \in Cached
      /\ db' = db /\ outlived' = outlived
  BY ReadAlone DEF TypeOK, Readable, Get, Read, Revalidate, LockMiss, Retry,
                   Recheck, Load, Write, LoadOnly, Release
<1>1. ASSUME Idle(reader[r], reader'[r], "fill"), cache' = cache, task' = task
      PROVE  AgeInv'
  BY <1>0, <1>1, Keeps DEF Alone
<1> USE DEF Label
<1>settles. \A a \in Answer : Set(r, Done(a)) => Idle(reader[r], reader'[r], "fill")
  BY <1>0, SetMoves, Records DEF Idle, Done
<1>2. CASE Get(r)
  <2>1. \A label \in {"lock", "only"} : [Done("ok") EXCEPT !.pc = label] \in Reader
    BY DEF Done, Reader, Answer
  <2>2. Idle(reader[r], reader'[r], "fill")
    <3>1. CASE Serve(r, "hit") /\ cache # None
      BY <1>0, <3>1, Serves DEF Idle
    <3>2. CASE \E label \in {"lock", "only"} : Set(r, [Done("ok") EXCEPT !.pc = label])
      BY <1>0, <2>1, <3>2, SetMoves DEF Idle, Done
    <3> QED BY <1>2, <3>1, <3>2 DEF Get
  <2> QED BY <1>1, <1>2, <2>2 DEF Get
<1>3. CASE Revalidate(r)
  <2>1. Idle(reader[r], reader'[r], "fill")
    <3>1. CASE Set(r, Done("ok")) \/ Set(r, Done("error"))
      BY <1>settles, <3>1 DEF Answer
    <3>2. CASE Hold(r, "only", 0)
      BY <1>0, <3>2, HoldMoves DEF Idle
    <3> QED BY <1>3, <3>1, <3>2 DEF Revalidate
  <2>2. \A s \in Slots : task'[s] = task[s] \/ Idle(task[s], task'[s], "write")
    <3>1. CASE task' = task
      BY <3>1
    <3>2. CASE \E s \in Slots : task' = [task EXCEPT ![s].pc = "queued"]
      <4>1. PICK s \in Slots : task' = [task EXCEPT ![s].pc = "queued"]
        BY <3>2
      <4>2. /\ task'[s].pc = "queued" /\ task'[s].lapsed = task[s].lapsed
            /\ \A t \in Slots \ {s} : task'[t] = task[t]
        BY <4>1 DEF TypeOK, Task
      <4> QED BY <4>2 DEF Idle
    <3> QED BY <1>3, <3>1, <3>2 DEF Revalidate
  <2>3. cache' = cache
    BY <1>3 DEF Revalidate
  <2> QED BY <1>0, <2>1, <2>2, <2>3, Keeps DEF Alone
<1>4. CASE LockMiss(r)
  <2>1. Idle(reader[r], reader'[r], "fill")
    <3>1. CASE Set(r, Done("error"))
      BY <1>settles, <3>1 DEF Answer
    <3>2. CASE Goto(r, "recheck") \/ Goto(r, "wait")
      BY <1>0, <3>2, GotoMoves DEF Idle
    <3> QED BY <1>4, <3>1, <3>2 DEF LockMiss
  <2> QED BY <1>1, <1>4, <2>1 DEF LockMiss
<1>5. CASE Retry(r)
  <2>1. Idle(reader[r], reader'[r], "fill")
    <3>1. CASE Serve(r, "rehit") /\ cache # None
      BY <1>0, <3>1, Serves DEF Idle
    <3>2. CASE Goto(r, "only")
      BY <1>0, <3>2, GotoMoves DEF Idle
    <3> QED BY <1>5, <3>1, <3>2 DEF Retry
  <2> QED BY <1>1, <1>5, <2>1 DEF Retry
<1>6. CASE Recheck(r)
  <2>1. cache # None => Found(cache.v) \in Answer
    BY <1>0, Records DEF Cached
  <2>2. Idle(reader[r], reader'[r], "fill")
    BY <1>0, <1>6, <2>1, GotoMoves, LeaveMoves DEF Recheck, Idle
  <2> QED BY <1>1, <1>6, <2>2 DEF Recheck
<1>7. CASE Load(r)
  <2>1. CASE Hold(r, "fill", db)
    <3>1. reader'[r].pc = "fill" /\ reader'[r].v = db /\ reader'[r].lapsed = reader[r].lapsed
      BY <1>0, <2>1, HoldMoves
    <3>2. cache' = cache /\ task' = task
      BY <1>7 DEF Load
    <3>3. Aged(reader[r], "fill")'
      BY <1>0, <3>1, <3>2 DEF AgeInv, Aged, UpTo
    <3>4. ASSUME NEW q \in Readers, q # r PROVE Aged(reader[q], "fill")'
      BY <1>0, <3>2, <3>4 DEF AgeInv, Aged, UpTo, Alone
    <3>5. ASSUME NEW s \in Slots PROVE Aged(task[s], "write")'
      BY <1>0, <3>2, <3>5 DEF AgeInv, Aged, UpTo
    <3> QED BY <1>0, <3>2, <3>3, <3>4, <3>5 DEF AgeInv, UpTo
  <2>2. CASE Leave(r, "unavailable")
    <3>1. Idle(reader[r], reader'[r], "fill")
      BY <1>0, <2>2, LeaveMoves DEF Idle, Answer
    <3> QED BY <1>1, <1>7, <3>1 DEF Load
  <2> QED BY <1>7, <2>1, <2>2 DEF Load
<1>8. CASE Write(r)
  <2>1. reader[r].v \in Nat /\ reader[r].v <= db /\ Found(reader[r].v) \in Answer
    BY <1>0, <1>8, Records DEF Write, Reader, AgeInv, Aged
  <2>2. Idle(reader[r], reader'[r], "fill")
    BY <1>0, <1>8, <2>1, LeaveMoves DEF Write, Idle
  <2>3. CASE cache' = cache
    BY <1>1, <1>8, <2>2, <2>3 DEF Write
  <2>4. CASE cache' = Fill(reader[r].v)
    <3>1. UpTo(db)'
      BY <1>0, <2>1, <2>4 DEF UpTo, Fill
    <3>2. Aged(reader[r], "fill")'
      BY <1>0, <2>2 DEF AgeInv, Aged, Idle
    <3>3. ASSUME NEW q \in Readers, q # r PROVE Aged(reader[q], "fill")'
      <4>1. ~outlived => reader[q].pc # "fill"
        BY <1>8, <3>3, WritesAlone DEF Write
      <4> QED BY <1>0, <3>3, <4>1 DEF AgeInv, Aged, Alone
    <3>4. ASSUME NEW s \in Slots PROVE Aged(task[s], "write")'
      <4>1. ~outlived => task[s].pc # "write"
        BY <1>8, WritesAlone DEF Write
      <4>2. task' = task
        BY <1>8 DEF Write
      <4> QED BY <1>0, <4>1, <4>2 DEF AgeInv, Aged
    <3> QED BY <3>1, <3>2, <3>3, <3>4 DEF AgeInv
  <2> QED BY <1>8, <2>3, <2>4 DEF Write
<1>9. CASE LoadOnly(r)
  <2>1. PICK a \in {Found(db), OnFailure} :
            IF reader[r].pc = "only" THEN Set(r, Done(a)) ELSE Leave(r, a)
    BY <1>9 DEF LoadOnly
  <2>2. a \in Answer
    BY <1>0, Records DEF OnFailure, Answer
  <2>3. Idle(reader[r], reader'[r], "fill")
    BY <1>0, <1>settles, <2>1, <2>2, LeaveMoves DEF Idle
  <2> QED BY <1>1, <1>9, <2>3 DEF LoadOnly
<1>10. CASE Release(r)
  <2>1. reader[r].ans \in Answer
    BY <1>0 DEF Reader
  <2>2. Idle(reader[r], reader'[r], "fill")
    BY <1>10, <1>settles, <2>1 DEF Release
  <2> QED BY <1>1, <1>10, <2>2 DEF Release
<1> QED BY <1>2, <1>3, <1>4, <1>5, <1>6, <1>7, <1>8, <1>9, <1>10 DEF Read

LEMMA AgeRebuild ==
    ASSUME TypeOK, LockInv, AgeInv, NEW s \in Slots, Rebuild(s)
    PROVE  AgeInv'
<1>0. /\ db \in Nat /\ task[s] \in Task
      /\ db' = db /\ outlived' = outlived /\ reader' = reader
      /\ \A t \in Slots \ {s} : task'[t] = task[t]
  BY DEF TypeOK, Rebuild, RebuildRead, RebuildWrite, RebuildRelease, Work
<1>1. CASE RebuildRead(s)
  <2>1. CASE Work(s, "write", db)
    <3>1. task'[s].pc = "write" /\ task'[s].v = db /\ task'[s].lapsed = task[s].lapsed
      BY <1>0, <2>1, Works
    <3>2. cache' = cache
      BY <1>1 DEF RebuildRead
    <3>3. Aged(task[s], "write")'
      BY <1>0, <3>1, <3>2 DEF AgeInv, Aged, UpTo
    <3>4. ASSUME NEW t \in Slots, t # s PROVE Aged(task[t], "write")'
      BY <1>0, <3>2, <3>4 DEF AgeInv, Aged, UpTo
    <3>5. ASSUME NEW r \in Readers PROVE Aged(reader[r], "fill")'
      BY <1>0, <3>2, <3>5 DEF AgeInv, Aged, UpTo
    <3> QED BY <1>0, <3>2, <3>3, <3>4, <3>5 DEF AgeInv, UpTo
  <2>2. CASE Work(s, "release", 0)
    <3>1. Idle(task[s], task'[s], "write")
      BY <2>2, Works DEF Idle
    <3> QED BY <1>0, <1>1, <3>1, Keeps DEF RebuildRead
  <2> QED BY <1>1, <2>1, <2>2 DEF RebuildRead
<1>2. CASE RebuildWrite(s)
  <2>1. task[s].v \in Nat /\ task[s].v <= db
    BY <1>0, <1>2 DEF RebuildWrite, Task, AgeInv, Aged
  <2>2. Idle(task[s], task'[s], "write")
    BY <1>2, Works DEF RebuildWrite, Idle
  <2>3. CASE cache' = cache
    BY <1>0, <2>2, <2>3, Keeps
  <2>4. CASE cache' = Fill(task[s].v)
    <3>1. UpTo(db)'
      BY <1>0, <2>1, <2>4 DEF UpTo, Fill
    <3>2. Aged(task[s], "write")'
      BY <1>0, <2>2 DEF AgeInv, Aged, Idle
    <3>3. ASSUME NEW t \in Slots, t # s PROVE Aged(task[t], "write")'
      <4>1. ~outlived => task[t].pc # "write"
        BY <1>2, <3>3, WritesAlone DEF RebuildWrite
      <4> QED BY <1>0, <3>3, <4>1 DEF AgeInv, Aged
    <3>4. ASSUME NEW r \in Readers PROVE Aged(reader[r], "fill")'
      <4>1. ~outlived => reader[r].pc # "fill"
        BY <1>2, WritesAlone DEF RebuildWrite
      <4> QED BY <1>0, <4>1 DEF AgeInv, Aged
    <3> QED BY <3>1, <3>2, <3>3, <3>4 DEF AgeInv
  <2> QED BY <1>2, <2>3, <2>4 DEF RebuildWrite
<1>3. CASE RebuildRelease(s)
  <2>1. task'[s] = NoTask /\ cache' = cache
    BY <1>3 DEF RebuildRelease, TypeOK
  <2>2. Idle(task[s], task'[s], "write")
    BY <2>1 DEF Idle, NoTask
  <2> QED BY <1>0, <2>1, <2>2, Keeps
<1> QED BY <1>1, <1>2, <1>3 DEF Rebuild

LEMMA AgeStep == TypeOK /\ LockInv /\ AgeInv /\ [Next]_vars => AgeInv'
<1> SUFFICES ASSUME TypeOK, LockInv, AgeInv, [Next]_vars PROVE AgeInv'
  OBVIOUS
<1>1. CASE \E r \in Readers : Get(r) \/ Read(r)
  BY <1>1, AgeRead
<1>2. CASE \E s \in Slots : Rebuild(s)
  BY <1>2, AgeRebuild
<1>3. CASE Save \/ Update
  <2>1. db \in Nat /\ db' = db + 1
    BY <1>3 DEF Save, Update, TypeOK
  <2>2. UNCHANGED <<cache, reader, task, outlived>>
    BY <1>3 DEF Save, Update
  <2>3. \A n \in Nat : n <= db => n <= db'
    BY <2>1
  <2>4. UpTo(db)'
    BY <2>2, <2>3 DEF AgeInv, UpTo, TypeOK, Cached
  <2>5. ASSUME NEW r \in Readers PROVE Aged(reader[r], "fill")'
    BY <2>2, <2>3, <2>5 DEF AgeInv, Aged, UpTo, TypeOK, Reader
  <2>6. ASSUME NEW s \in Slots PROVE Aged(task[s], "write")'
    BY <2>2, <2>3, <2>6 DEF AgeInv, Aged, UpTo, TypeOK, Task
  <2> QED BY <2>4, <2>5, <2>6 DEF AgeInv
<1>4. CASE Invalidate \/ MarkerTtl \/ LockTtl \/ UNCHANGED vars
  BY <1>4, Keeps DEF Invalidate, MarkerTtl, LockTtl, vars
<1>5. CASE LogicalExpiry
  <2>1. cache # None /\ cache \in Cached /\ cache'.v = cache.v
    BY <1>5 DEF LogicalExpiry, TypeOK, Cached
  <2> QED BY <1>5, <2>1, Keeps DEF LogicalExpiry
<1>6. ASSUME NEW x \in Section, Outlive(x) PROVE AgeInv'
  <2>1. outlived' /\ UNCHANGED <<db, cache>>
    BY <1>6, Zenon DEF Outlive
  <2>2. \A r \in Readers : reader'[r].pc = reader[r].pc /\ reader'[r].v = reader[r].v
    BY <1>6 DEF Outlive, TypeOK, Reader
  <2>3. \A s \in Slots : task'[s].pc = task[s].pc /\ task'[s].v = task[s].v
    BY <1>6 DEF Outlive, TypeOK, Task
  <2>4. ASSUME NEW r \in Readers PROVE Aged(reader[r], "fill")'
    BY <2>1, <2>2, <2>4 DEF AgeInv, Aged
  <2>5. ASSUME NEW s \in Slots PROVE Aged(task[s], "write")'
    BY <2>1, <2>3, <2>5 DEF AgeInv, Aged
  <2> QED BY <2>1, <2>4, <2>5 DEF AgeInv, UpTo
<1>7. ASSUME NEW R \in SUBSET Readers, NEW S \in SUBSET Slots, Crash(R, S) PROVE AgeInv'
  <2>1. \A r \in Readers : reader'[r] = reader[r] \/ reader'[r] = Done("ok")
    BY <1>7 DEF Crash
  <2>2. \A s \in Slots : task'[s] = task[s] \/ task'[s] = NoTask
    BY <1>7 DEF Crash
  <2>3. \A old : Idle(old, Done("ok"), "fill") /\ Idle(old, NoTask, "write")
    BY DEF Idle, Done, NoTask
  <2> QED BY <1>7, <2>1, <2>2, <2>3, Keeps DEF Crash
<1> QED BY <1>1, <1>2, <1>3, <1>4, <1>5, <1>6, <1>7 DEF Next

\* What is written over a shop was loaded under the lock by the only writer there is.
LEMMA WritesNewer ==
    ASSUME TypeOK, AgeInv, [Next]_vars, ~outlived, cache # None, cache' # None
    PROVE  cache'.v >= cache.v
<1>1. cache.v \in Nat
  BY DEF TypeOK, Cached
<1>2. CASE cache' = cache
  BY <1>1, <1>2
<1>3. ASSUME NEW r \in Readers, Write(r), cache' = Fill(reader[r].v) PROVE cache'.v >= cache.v
  <2>1. cache.v <= reader[r].v /\ reader[r].v \in Nat
    BY <1>3 DEF Write, AgeInv, Aged, UpTo, TypeOK, Reader
  <2> QED BY <1>1, <1>3, <2>1 DEF Fill
<1>4. ASSUME NEW s \in Slots, RebuildWrite(s), cache' = Fill(task[s].v) PROVE cache'.v >= cache.v
  <2>1. cache.v <= task[s].v /\ task[s].v \in Nat
    BY <1>4 DEF RebuildWrite, AgeInv, Aged, UpTo, TypeOK, Task
  <2> QED BY <1>1, <1>4, <2>1 DEF Fill
<1>5. CASE LogicalExpiry
  <2>1. cache \in Cached /\ cache'.v = cache.v
    BY <1>5 DEF LogicalExpiry, TypeOK, Cached
  <2> QED BY <1>1, <2>1
<1> QED BY <1>2, <1>3, <1>4, <1>5
        DEF Next, vars, Get, Read, Revalidate, LockMiss, Retry, Recheck, Load, Write, LoadOnly,
            Release, Rebuild, RebuildRead, RebuildWrite, RebuildRelease, Save, Update,
            Invalidate, MarkerTtl, LockTtl, Outlive, Crash

\* No loader and no rebuild puts an older shop over a newer one while every
\* holder keeps its lock: the lock orders the loads, and with them the writes.
THEOREM NeverOlderCorrect == Spec => NeverOlder
<1> DEFINE A == ~outlived /\ cache # None /\ cache' # None => cache'.v >= cache.v
<1>1. Init => LockInv /\ AgeInv
  BY DEF Init, LockInv, Loading, Rebuilding, Done, NoTask, AgeInv, Aged, UpTo
<1>2. TypeOK /\ AgeInv /\ [Next]_vars => A
  BY WritesNewer
<1>3. A => [A]_vars
  OBVIOUS
<1> HIDE DEF A
<1>4. Spec => [][A]_vars
  BY <1>1, <1>2, <1>3, TypeInit, TypeStep, LockStep, AgeStep, PTL DEF Spec
<1> QED BY <1>4 DEF NeverOlder, A

=============================================================================

----------------------------- MODULE ShopCache -----------------------------
(***************************************************************************)
(* The display cache of one shop: cache:shop:{id} with its logical expiry  *)
(* and empty marker, lock:shop:{id} with its owner tokens, the readers of  *)
(* CacheClient.queryWithLogicalExpire, the rebuild pool, and the updates   *)
(* of ShopServiceImpl that delete the key after they commit.               *)
(*                                                                         *)
(* A shop is its version, 0 where there is no row.  A lock token is named  *)
(* by what holds it: a reader that loads on a miss, or a slot of the pool. *)
(***************************************************************************)
EXTENDS Naturals, FiniteSets

CONSTANTS
    Readers,      \* request threads
    Slots,        \* tasks the rebuild pool and its queue take (10 + 200)
    None,         \* no key
    Orphan,       \* the token of a rebuild the pool rejected, or of a SETNX without reply
    MaxVersion,   \* bound: versions of the shop
    MaxFaults     \* bound: failing calls, crashes, leases outlived

ASSUME ShopAssumption ==
    /\ Readers \cap Slots = {}
    /\ {None, Orphan} \cap (Readers \cup Slots) = {}
    /\ None # Orphan
    /\ IsFiniteSet(Readers)
    /\ {MaxVersion, MaxFaults} \subseteq Nat

VARIABLES
    db,        \* version of the row in tb_shop
    cache,     \* None, the empty marker, or the shop with its expiry
    lock,      \* token in lock:shop:{id}
    reader,    \* reader -> its request
    task,      \* slot -> its rebuild
    pending,   \* committed updates whose deletion of the key is still to come
    faults,
    outlived   \* has a lock run out while its holder was at work

vars == <<db, cache, lock, reader, task, pending, faults, outlived>>

----------------------------------------------------------------------------
(* Data                                                                    *)

\* The marker is version 0.  A shop is stale once its logical expiry is past.
Cached  == [v : Nat, stale : BOOLEAN]
Fill(n) == [v |-> n, stale |-> FALSE]

Answer == {"ok", "notfound", "unavailable", "error"}

Reader == [pc : {"done", "hit", "rehit", "lock", "wait", "only",
                 "recheck", "load", "lockedOnly", "fill", "release"},
           v      : Nat,              \* version in hand
           ans    : Answer,           \* the answer, at "release" and "done"
           lapsed : BOOLEAN]          \* its lock ran out while it was at work

Task   == [pc : {"free", "queued", "write", "release"}, v : Nat, lapsed : BOOLEAN]

NoTask == [pc |-> "free", v |-> 0, lapsed |-> FALSE]

Done(a) == [pc |-> "done", v |-> 0, ans |-> a, lapsed |-> FALSE]

\* What a version read from the cache or from MySQL is to the caller.
Found(n) == IF n = 0 THEN "notfound" ELSE "ok"

\* The threads that work under the lock they took.
Loading(r)    == reader[r].pc \in {"recheck", "load", "lockedOnly", "fill", "release"}
Rebuilding(s) == task[s].pc # "free"
Section       == {r \in Readers : Loading(r)} \cup {s \in Slots : Rebuilding(s)}
Lapsed(x)     == IF x \in Readers THEN reader[x].lapsed ELSE task[x].lapsed

Fault == /\ faults < MaxFaults
         /\ faults' = faults + 1

\* The shop exists already, or is still to be saved.
Init == /\ db \in {0, 1}
        /\ cache = None
        /\ lock = None
        /\ reader = [r \in Readers |-> Done("ok")]
        /\ task = [s \in Slots |-> NoTask]
        /\ pending = 0
        /\ faults = 0
        /\ outlived = FALSE

----------------------------------------------------------------------------
(* A reader                                                                *)

Set(r, rec)      == reader' = [reader EXCEPT ![r] = rec]
Goto(r, label)   == reader' = [reader EXCEPT ![r].pc = label]
Hold(r, label, n) == reader' = [reader EXCEPT ![r].pc = label, ![r].v = n]
Leave(r, a)      == reader' = [reader EXCEPT ![r].pc = "release", ![r].v = 0, ![r].ans = a]

\* A value found outside the lock is answered, unless it is stale.
Serve(r, stalePc) ==
    IF cache.stale THEN Set(r, [Done("ok") EXCEPT !.pc = stalePc, !.v = cache.v])
                   ELSE Set(r, Done(Found(cache.v)))

\* queryWithLogicalExpire: GET, the first read of a request.
Get(r) ==
    /\ reader[r].pc = "done"
    /\ \/ /\ IF cache = None THEN Set(r, [Done("ok") EXCEPT !.pc = "lock"])
                             ELSE Serve(r, "hit")
          /\ UNCHANGED faults
       \/ Fault /\ Set(r, [Done("ok") EXCEPT !.pc = "only"])
    /\ UNCHANGED <<db, cache, lock, task, pending, outlived>>

\* A SETNX that throws may have taken effect: nobody works under its token.
Unanswered == lock' = lock \/ (lock = None /\ lock' = Orphan)

\* handleHit with a stale shop: take the lock and hand a rebuild to the pool,
\* which logs a rejection and no more; answer the stale shop in any case.
Revalidate(r) ==
    /\ reader[r].pc \in {"hit", "rehit"}
    /\ \/ /\ lock # None
          /\ Set(r, Done("ok"))
          /\ UNCHANGED <<lock, task, faults>>
       \/ /\ lock = None
          /\ \/ \E s \in Slots :
                  /\ task[s] = NoTask
                  /\ lock' = s
                  /\ task' = [task EXCEPT ![s].pc = "queued"]
             \/ /\ \A s \in Slots : task[s] # NoTask
                /\ lock' = Orphan
                /\ UNCHANGED task
          /\ Set(r, Done("ok"))
          /\ UNCHANGED faults
       \/ /\ Fault                 \* tryLock throws; only the retry has a catch
          /\ Unanswered
          /\ IF reader[r].pc = "rehit" THEN Hold(r, "only", 0) ELSE Set(r, Done("error"))
          /\ UNCHANGED task
    /\ UNCHANGED <<db, cache, pending, outlived>>

\* loadOnMiss: tryLock.
LockMiss(r) ==
    /\ reader[r].pc = "lock"
    /\ \/ /\ lock = None
          /\ lock' = r
          /\ Goto(r, "recheck")
          /\ UNCHANGED faults
       \/ /\ lock # None
          /\ Goto(r, "wait")
          /\ UNCHANGED <<lock, faults>>
       \/ /\ Fault                 \* the call throws, outside every catch
          /\ Unanswered
          /\ Set(r, Done("error"))
    /\ UNCHANGED <<db, cache, task, pending, outlived>>

\* Fault for NeverOlder: after the wait the shop is loaded and written without the lock.
RetryLoads(r) ==
    /\ reader[r].pc = "wait"
    /\ \/ /\ IF cache = None THEN Goto(r, "load") ELSE Serve(r, "rehit")
          /\ UNCHANGED faults
       \/ Fault /\ Goto(r, "only")
    /\ UNCHANGED <<db, cache, lock, task, pending, outlived>>

\* waitAndRetryAfterMiss: GET after 50 ms.
Retry(r) ==
    /\ reader[r].pc = "wait"
    /\ \/ /\ IF cache = None THEN Goto(r, "only") ELSE Serve(r, "rehit")
          /\ UNCHANGED faults
       \/ Fault /\ Goto(r, "only")
    /\ UNCHANGED <<db, cache, lock, task, pending, outlived>>

\* loadOnMiss: the second GET, under the lock.  Stale or not, a value is answered.
Recheck(r) ==
    /\ reader[r].pc = "recheck"
    /\ \/ /\ IF cache = None THEN Goto(r, "load") ELSE Leave(r, Found(cache.v))
          /\ UNCHANGED faults
       \/ Fault /\ Goto(r, "lockedOnly")
    /\ UNCHANGED <<db, cache, lock, task, pending, outlived>>

\* loadOnMiss: the read of MySQL.
Load(r) ==
    /\ reader[r].pc = "load"
    /\ \/ Hold(r, "fill", db) /\ UNCHANGED faults
       \/ Fault /\ Leave(r, "unavailable")
    /\ UNCHANGED <<db, cache, lock, task, pending, outlived>>

\* loadOnMiss: the shop or the marker is written; a failure is swallowed.
Write(r) ==
    /\ reader[r].pc = "fill"
    /\ \/ cache' = Fill(reader[r].v) /\ UNCHANGED faults
       \/ Fault /\ UNCHANGED cache
    /\ Leave(r, Found(reader[r].v))
    /\ UNCHANGED <<db, lock, task, pending, outlived>>

\* Fault for NeverMissing: a failing read of MySQL looks like an empty one.
OnFailureNull == "notfound"

\* What a failing read of MySQL is answered with.
OnFailure == "unavailable"

\* loadFromDbOnly, under the lock or without it.
LoadOnly(r) ==
    /\ reader[r].pc \in {"only", "lockedOnly"}
    /\ \E a \in {Found(db), OnFailure} :
         /\ IF a = Found(db) THEN UNCHANGED faults ELSE Fault
         /\ IF reader[r].pc = "only" THEN Set(r, Done(a)) ELSE Leave(r, a)
    /\ UNCHANGED <<db, cache, lock, task, pending, outlived>>

\* Fault for SingleFlight: DEL without comparing the token.
UnlockAny(x) == None

\* unlock.lua: compare and delete.
Unlocked(x) == IF lock = x THEN None ELSE lock

\* finally: releaseLock, failures swallowed.
Release(r) ==
    /\ reader[r].pc = "release"
    /\ \/ lock' = Unlocked(r) /\ UNCHANGED faults
       \/ Fault /\ UNCHANGED lock
    /\ Set(r, Done(reader[r].ans))
    /\ UNCHANGED <<db, cache, task, pending, outlived>>

----------------------------------------------------------------------------
(* The rebuild pool: rebuildAsync                                          *)

Work(s, label, n) == task' = [task EXCEPT ![s].pc = label, ![s].v = n]

RebuildRead(s) ==
    /\ task[s].pc = "queued"
    /\ \/ Work(s, "write", db) /\ UNCHANGED faults
       \/ Fault /\ Work(s, "release", 0)
    /\ UNCHANGED <<db, cache, lock, reader, pending, outlived>>

RebuildWrite(s) ==
    /\ task[s].pc = "write"
    /\ \/ cache' = Fill(task[s].v) /\ UNCHANGED faults
       \/ Fault /\ UNCHANGED cache
    /\ Work(s, "release", 0)
    /\ UNCHANGED <<db, lock, reader, pending, outlived>>

RebuildRelease(s) ==
    /\ task[s].pc = "release"
    /\ \/ lock' = Unlocked(s) /\ UNCHANGED faults
       \/ Fault /\ UNCHANGED lock
    /\ task' = [task EXCEPT ![s] = NoTask]
    /\ UNCHANGED <<db, cache, reader, pending, outlived>>

----------------------------------------------------------------------------
(* Updates, time, crashes                                                  *)

\* ShopController.saveShop: a row, no word to the cache.
Save ==
    /\ db = 0
    /\ db' = 1
    /\ UNCHANGED <<cache, lock, reader, task, pending, faults, outlived>>

\* ShopServiceImpl.update commits.
Update ==
    /\ db \in 1..(MaxVersion - 1)
    /\ db' = db + 1
    /\ pending' = pending + 1
    /\ UNCHANGED <<cache, lock, reader, task, faults, outlived>>

\* Fault for TypeOK: the key is deleted although nothing was committed.
InvalidateUncommitted ==
    /\ pending' = pending - 1
    /\ cache' = None
    /\ UNCHANGED <<db, lock, reader, task, faults, outlived>>

\* afterCommit: the key is deleted; a failure is only logged.
Invalidate ==
    /\ pending > 0
    /\ pending' = pending - 1
    /\ \/ cache' = None /\ UNCHANGED faults
       \/ Fault /\ UNCHANGED cache
    /\ UNCHANGED <<db, lock, reader, task, outlived>>

LogicalExpiry ==
    /\ cache # None /\ cache # Fill(0)
    /\ ~cache.stale
    /\ cache' = [cache EXCEPT !.stale = TRUE]
    /\ UNCHANGED <<db, lock, reader, task, pending, faults, outlived>>

\* CACHE_NULL_TTL of the marker.
MarkerTtl ==
    /\ cache = Fill(0)
    /\ cache' = None
    /\ UNCHANGED <<db, lock, reader, task, pending, faults, outlived>>

\* Fault for Converged: SETNX without a TTL.
NeverExpires == FALSE

\* SETNX comes with LOCK_SHOP_TTL.
Expires == TRUE

\* The lock runs out, nobody working under it any more.
LockTtl ==
    /\ Expires
    /\ lock # None /\ lock \notin Section
    /\ lock' = None
    /\ UNCHANGED <<db, cache, reader, task, pending, faults, outlived>>

\* The lock runs out before its holder is done.
Outlive(x) ==
    /\ Expires
    /\ lock = x
    /\ Fault
    /\ lock' = None
    /\ outlived' = TRUE
    /\ \/ x \in Readers /\ reader' = [reader EXCEPT ![x].lapsed = TRUE] /\ UNCHANGED task
       \/ x \in Slots   /\ task' = [task EXCEPT ![x].lapsed = TRUE] /\ UNCHANGED reader
    /\ UNCHANGED <<db, cache, pending>>

\* A JVM dies with its requests, its rebuilds and its deletions still to come.
Crash(R, S) ==
    /\ Fault
    /\ reader' = [r \in Readers |-> IF r \in R THEN Done("ok") ELSE reader[r]]
    /\ task' = [s \in Slots |-> IF s \in S THEN NoTask ELSE task[s]]
    /\ pending' \in 0..pending
    /\ UNCHANGED <<db, cache, lock, outlived>>

----------------------------------------------------------------------------
Read(r) == \/ Revalidate(r) \/ LockMiss(r) \/ Retry(r) \/ Recheck(r)
           \/ Load(r) \/ Write(r) \/ LoadOnly(r) \/ Release(r)

Rebuild(s) == RebuildRead(s) \/ RebuildWrite(s) \/ RebuildRelease(s)

Next == \/ \E r \in Readers : Get(r) \/ Read(r)
        \/ \E s \in Slots : Rebuild(s)
        \/ Save \/ Update \/ Invalidate
        \/ LogicalExpiry \/ MarkerTtl \/ LockTtl
        \/ \E x \in Section : Outlive(x)
        \/ \E R \in SUBSET Readers, S \in SUBSET Slots : Crash(R, S)

Spec == Init /\ [][Next]_vars

\* Threads run, pending deletions are made, and time passes.  Nobody has to read.
FairSpec == /\ Spec
            /\ \A r \in Readers : WF_vars(Read(r))
            /\ \A s \in Slots : WF_vars(Rebuild(s))
            /\ WF_vars(Invalidate)
            /\ WF_vars(LogicalExpiry) /\ WF_vars(MarkerTtl) /\ WF_vars(LockTtl)

----------------------------------------------------------------------------
(* Properties                                                              *)

\* The type invariant.
TypeOK == /\ db \in Nat
          /\ cache \in Cached \cup {None}
          /\ lock \in Readers \cup Slots \cup {None, Orphan}
          /\ reader \in [Readers -> Reader]
          /\ task \in [Slots -> Task]
          /\ pending \in Nat
          /\ faults \in Nat
          /\ outlived \in BOOLEAN

\* One owner loads or rebuilds at a time, a holder that outlived its lock apart:
\* such a late holder must not free the lock of its successor and let a third in.
SingleFlight ==
    \A x, y \in Section : ~Lapsed(x) /\ ~Lapsed(y) => x = y

\* An older shop is never written over a newer one, though an update commits, and deletes
\* the key, between a loader's read of MySQL and its write: whoever loads next waits for
\* the lock.  Only a holder that outlived its lock can write late.
NeverOlder ==
    [][~outlived /\ cache # None /\ cache' # None => cache'.v >= cache.v]_vars

\* A shop that has its row is never answered as missing, whatever fails and whoever
\* waits for whom: an error is not turned into "no such shop".
NeverMissing == db > 0 => [](\A r \in Readers : reader[r].ans # "notfound")

Fresh == cache = None \/ cache.v = db

\* While somebody keeps reading, the cache catches up with the last update, even
\* if its deletion failed, a rebuild wrote the old shop over it, the pool rejected
\* a rebuild, a holder died with the lock, or the shop was saved behind a marker.
Converged == []<><<\E r \in Readers : Get(r)>>_vars => <>[]Fresh
=============================================================================

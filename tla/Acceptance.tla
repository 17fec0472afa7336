----------------------------- MODULE Acceptance -----------------------------
(***************************************************************************)
(* The front half of a flash sale, up to the stream: a voucher is saved    *)
(* and its three keys published to Redis one by one, an operator rebuilds  *)
(* them when that failed, requests take an id from RedisIdWorker and then  *)
(* run seckill.lua.  Seckill starts where this module ends: it knows the   *)
(* script as one step on published keys with ids that are never repeated,  *)
(* which is what is checked here.                                          *)
(*                                                                         *)
(* Every reading of a clock is arbitrary: JVMs differ and clocks step back.*)
(***************************************************************************)
EXTENDS Naturals, FiniteSets

CONSTANTS
    Users, Requests,
    None,          \* no key, no order
    Stock,         \* stock of the voucher
    Times,         \* local seconds since BEGIN_TIMESTAMP
    Begin, End,    \* the activity window
    DaySeconds,    \* seconds of a day (86400)
    Radix,         \* 2^COUNT_BITS
    MaxIds,        \* bound: ids drawn
    MaxFaults      \* bound: failing calls

ASSUME AcceptanceAssumption ==
    /\ None \notin Nat
    /\ {Stock, Begin, End} \subseteq Nat
    /\ Times \subseteq Nat
    /\ {DaySeconds, Radix} \subseteq Nat \ {0}
    /\ MaxIds \in 0..(Radix - 1)
    /\ MaxFaults \in Nat

VARIABLES
    saved,      \* is the voucher committed to MySQL
    key,        \* seckill:stock, seckill:begin, seckill:end
    publisher,  \* what publishSeckillToRedis has still to write
    script,     \* what the rebuild script has still to write, and its stock
    openRun,    \* did a script read its stock while the sale was or could get open
    counter,    \* day -> icr:order:{yyyyMMdd}
    orderOf,    \* user -> id in seckill:order:id
    req,        \* request -> its state
    faults

vars == <<saved, key, publisher, script, openRun, counter, orderOf, req, faults>>

----------------------------------------------------------------------------
(* Data                                                                    *)

Names == {"stock", "begin", "end"}
Keys  == [Names -> Nat \cup {None}]

\* What publish and script write, in their order.
Order == <<"stock", "begin", "end">>

\* Fault for OversoldOnlyByOpenRun: the script sets the window first.
ScriptWindowFirst == <<"begin", "end", "stock">>

\* The order in which the script sets the keys.
ScriptOrder == <<"stock", "begin", "end">>

Value(name, stock) ==
    [stock |-> stock, begin |-> Begin, end |-> End][name]

NoScript == [next |-> 4, stock |-> 0]

Req   == [pc : {"idle", "time", "incr", "lua"}, user : Users \cup {None},
          now : Nat, ts : Nat, id : Nat]
NoReq == [pc |-> "idle", user |-> None, now |-> 0, ts |-> 0, id |-> 0]

Day(t) == t \div DaySeconds

\* timestamp << COUNT_BITS | count
Compose(ts, n) == ts * Radix + n

Open     == \A name \in Names : key[name] # None
Accepted == {u \in Users : orderOf[u] # None}

Fault == /\ faults < MaxFaults
         /\ faults' = faults + 1

Init == /\ saved = FALSE
        /\ key = [name \in Names |-> None]
        /\ publisher = 4
        /\ script = NoScript
        /\ openRun = FALSE
        /\ counter = [d \in {Day(t) : t \in Times} |-> 0]
        /\ orderOf = [u \in Users |-> None]
        /\ req = [p \in Requests |-> NoReq]
        /\ faults = 0

----------------------------------------------------------------------------
(* Publication: addSeckillVoucher, publishSeckillToRedis                   *)

\* The transaction commits; afterCommit is to write three keys.
Save ==
    /\ ~saved
    /\ saved' = TRUE
    /\ publisher' = 1
    /\ UNCHANGED <<key, script, openRun, counter, orderOf, req, faults>>

\* One SET.  A failing one, applied or not, ends the publication: it is logged.  So
\* does the death of the JVM.
Publish ==
    /\ publisher \in 1..3
    /\ LET name    == Order[publisher]
           written == [key EXCEPT ![name] = Value(name, Stock)]
       IN  \/ key' = written /\ publisher' = publisher + 1 /\ UNCHANGED faults
           \/ Fault /\ key' \in {key, written} /\ publisher' = 4
    /\ UNCHANGED <<saved, script, openRun, counter, orderOf, req>>

----------------------------------------------------------------------------
(* backfill-seckill-window.sh                                              *)

\* SELECT: the row's stock, from which the consumers have taken what they have
\* persisted.  With SKIP_STOCK only the window is set.
ScriptRead(skipStock) ==
    /\ saved /\ script = NoScript
    /\ \E sold \in 0..Cardinality(Accepted) :
         script' = [next |-> IF skipStock THEN 2 ELSE 1,
                    stock |-> IF sold <= Stock THEN Stock - sold ELSE 0]
    /\ openRun' = (openRun \/ (~skipStock /\ (Open \/ publisher # 4)))
    /\ UNCHANGED <<saved, key, publisher, counter, orderOf, req, faults>>

\* One SET of the script; set -e: a failing one ends it.
ScriptWrite ==
    /\ script.next \in 1..3
    /\ LET name    == ScriptOrder[script.next]
           written == [key EXCEPT ![name] = Value(name, script.stock)]
       IN  \/ /\ key' = written
              /\ script' = IF script.next = 3 THEN NoScript
                                              ELSE [script EXCEPT !.next = @ + 1]
              /\ UNCHANGED faults
           \/ Fault /\ key' \in {key, written} /\ script' = NoScript
    /\ UNCHANGED <<saved, publisher, openRun, counter, orderOf, req>>

----------------------------------------------------------------------------
(* A request: seckillVoucher, nextId, seckill.lua                          *)

\* The row is read and its window compared with this JVM's clock.
Enter(p, u) ==
    /\ saved
    /\ req[p] = NoReq
    /\ \E t \in Times :
         /\ Begin <= t /\ t <= End
         /\ req' = [req EXCEPT ![p] = [NoReq EXCEPT !.pc = "time", !.user = u, !.now = t]]
    /\ UNCHANGED <<saved, key, publisher, script, openRun, counter, orderOf, faults>>

\* nextId reads the clock again.
TakeTime(p) ==
    /\ req[p].pc = "time"
    /\ \E t \in Times : req' = [req EXCEPT ![p].pc = "incr", ![p].ts = t]
    /\ UNCHANGED <<saved, key, publisher, script, openRun, counter, orderOf, faults>>

\* Fault for UniqueIds: the day comes from another reading of the clock.
KeyDayOfRequest(p) == Day(req[p].now)

\* The day of the counter's key comes from the reading the timestamp comes from.
KeyDay(p) == Day(req[p].ts)

\* INCR.
Increment(p) ==
    LET d == KeyDay(p) IN
    /\ req[p].pc = "incr"
    /\ counter[d] < MaxIds
    /\ counter' = [counter EXCEPT ![d] = @ + 1]
    /\ \/ /\ req' = [req EXCEPT ![p].pc = "lua", ![p].id = Compose(req[p].ts, counter[d] + 1)]
          /\ UNCHANGED faults
       \/ Fault /\ req' = [req EXCEPT ![p] = NoReq]
    /\ UNCHANGED <<saved, key, publisher, script, openRun, orderOf>>

\* Fault for TypeOK: only a missing key counts as sold out.
InStockAny == key["stock"] # None

\* Stock missing counts as sold out.
InStock == key["stock"] # None /\ key["stock"] > 0

\* Fault for LifeRefined: the buyer is not looked at.
PassesTwice(p) ==
    /\ key["begin"] # None /\ key["end"] # None
    /\ key["begin"] <= req[p].now /\ req[p].now <= key["end"]
    /\ InStock

\* The tests of seckill.lua: the window, fail-closed while a key is missing, then the
\* stock, then the buyer.
Passes(p) ==
    /\ key["begin"] # None /\ key["end"] # None
    /\ key["begin"] <= req[p].now /\ req[p].now <= key["end"]
    /\ InStock
    /\ orderOf[req[p].user] = None

\* seckill.lua, one atomic script.  The call may fail after the script ran.
Lua(p) ==
    /\ req[p].pc = "lua"
    /\ \/ /\ Passes(p)
          /\ key' = [key EXCEPT !["stock"] = @ - 1]
          /\ orderOf' = [orderOf EXCEPT ![req[p].user] = req[p].id]
       \/ /\ ~Passes(p)
          /\ UNCHANGED <<key, orderOf>>
    /\ req' = [req EXCEPT ![p] = NoReq]
    /\ UNCHANGED <<saved, publisher, script, openRun, counter, faults>>

\* The call never reaches Redis.
LuaUnsent(p) ==
    /\ req[p].pc = "lua"
    /\ Fault
    /\ req' = [req EXCEPT ![p] = NoReq]
    /\ UNCHANGED <<saved, key, publisher, script, openRun, counter, orderOf>>

----------------------------------------------------------------------------
Serve(p) == \/ \E u \in Users : Enter(p, u)
            \/ TakeTime(p) \/ Increment(p) \/ Lua(p) \/ LuaUnsent(p)

Next == \/ Save \/ Publish
        \/ \E skip \in BOOLEAN : ScriptRead(skip)
        \/ ScriptWrite
        \/ \E p \in Requests : Serve(p)

Spec == Init /\ [][Next]_vars

----------------------------------------------------------------------------
(* Properties                                                              *)

\* The type invariant.
TypeOK == /\ saved \in BOOLEAN
          /\ key \in Keys
          /\ publisher \in 1..4
          /\ script \in [next : 1..4, stock : Nat]
          /\ openRun \in BOOLEAN
          /\ counter \in [{Day(t) : t \in Times} -> Nat]
          /\ orderOf \in [Users -> Nat \cup {None}]
          /\ req \in [Requests -> Req]
          /\ faults \in Nat

\* No order id is given twice, whatever the clocks of the JVMs read: two ids of one
\* second come from one daily counter.
UniqueIds ==
    /\ \A u, v \in Accepted : orderOf[u] = orderOf[v] => u = v
    /\ \A p, q \in Requests : req[p].pc = "lua" /\ req[q].pc = "lua" /\ req[p].id = req[q].id
                                 => p = q
    /\ \A p \in Requests, u \in Accepted : req[p].pc = "lua" => req[p].id # orderOf[u]

\* The sale accepts no more buyers than the stock, though it was published by half and
\* rebuilt while requests were arriving: a script that starts on a sale that is not
\* open yet sets the stock before anybody can buy.  Only a script that reads the stock
\* of a sale that is open, or being published, can oversell.
OversoldOnlyByOpenRun == openRun \/ Cardinality(Accepted) <= Stock

Life == INSTANCE VoucherLife WITH
            order <- orderOf,
            life  <- [u \in Users |-> IF u \in Accepted THEN "waiting" ELSE "none"],
            loose <- openRun

\* Acceptance implements the first part of the life of an order: an id is taken while
\* stock is left, is nobody else's, and no second one is ever given to the same buyer.
LifeRefined == Life!Spec
=============================================================================

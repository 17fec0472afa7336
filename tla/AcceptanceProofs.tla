-------------------------- MODULE AcceptanceProofs --------------------------
(***************************************************************************)
(* The front half of the sale for every number of buyers and requests, any *)
(* stock, any clocks and any faults: types, unique ids, no oversell, and   *)
(* that it implements its part of VoucherLife.                             *)
(***************************************************************************)
EXTENDS Acceptance, FiniteSetTheorems, TLAPS

USE AcceptanceAssumption

----------------------------------------------------------------------------
(* What is written to the keys                                             *)

\* The publisher and the script write the stock first.
LEMMA Orders ==
    ASSUME NEW i \in 1..3
    PROVE  /\ Order[i] \in Names /\ ScriptOrder[i] = Order[i]
           /\ Order[i] = "stock" <=> i = 1
<1>1. i = 1 \/ i = 2 \/ i = 3
  OBVIOUS
<1> QED BY <1>1 DEF Order, ScriptOrder, Names

LEMMA Values ==
    ASSUME NEW name \in Names, NEW s \in Nat
    PROVE  Value(name, s) \in Nat /\ Value("stock", s) = s
<1>1. name = "stock" \/ name = "begin" \/ name = "end"
  BY DEF Names
<1> QED BY <1>1 DEF Value

LEMMA IdIsNat ==
    ASSUME NEW t \in Nat, NEW n \in Nat
    PROVE  Compose(t, n) \in Nat
<1>1. Radix \in Nat
  OBVIOUS
<1>2. t * Radix \in Nat
  BY <1>1
<1> QED BY <1>2 DEF Compose

----------------------------------------------------------------------------
(* Types                                                                   *)

\* A request under way has a buyer, and a reading of the clock once it took one.
Underway ==
    \A p \in Requests :
        /\ req[p].pc # "idle" => req[p].user \in Users
        /\ req[p].pc \in {"incr", "lua"} => req[p].ts \in Times

TypeInv == TypeOK /\ Underway

LEMMA TypeInit == Init => TypeInv
<1> SUFFICES ASSUME Init PROVE TypeInv
  OBVIOUS
<1>1. NoReq \in Req
  BY DEF NoReq, Req
<1>2. key \in Keys
  BY DEF Init, Keys
<1>3. counter \in [{Day(t) : t \in Times} -> Nat]
  BY DEF Init
<1>4. script \in [next : 1..4, stock : Nat]
  BY DEF Init, NoScript
<1>5. TypeOK
  <2>1. orderOf \in [Users -> Nat \cup {None}]
    BY DEF Init
  <2>2. req \in [Requests -> Req]
    BY <1>1 DEF Init
  <2>3. saved \in BOOLEAN /\ openRun \in BOOLEAN
    BY DEF Init
  <2>4. publisher \in 1..4 /\ faults \in Nat
    BY DEF Init
  <2> QED BY <1>2, <1>3, <1>4, <2>1, <2>2, <2>3, <2>4 DEF TypeOK
<1>6. Underway
  BY DEF Init, Underway, NoReq
<1> QED BY <1>5, <1>6 DEF TypeInv

LEMMA TypeStep == TypeInv /\ [Next]_vars => TypeInv'
<1> SUFFICES ASSUME TypeInv, [Next]_vars PROVE TypeInv'
  OBVIOUS
<1> USE DEF TypeInv, TypeOK, Underway
<1> DEFINE Rest == UNCHANGED <<counter, orderOf, req>>
<1>1. CASE Save
  BY <1>1 DEF Save
<1>2. CASE Publish
  <2>1. PICK i \in 1..3 : i = publisher
    BY <1>2 DEF Publish
  <2>2. [key EXCEPT ![Order[i]] = Value(Order[i], Stock)] \in Keys
    BY Orders, Values DEF Keys
  <2>3. key' \in Keys /\ publisher' \in 1..4 /\ faults' \in Nat
    BY <1>2, <2>1, <2>2 DEF Publish, Fault
  <2> QED BY <1>2, <2>3 DEF Publish
<1>3. CASE \E skip \in BOOLEAN : ScriptRead(skip)
  <2>1. PICK skip \in BOOLEAN : ScriptRead(skip)
    BY <1>3
  <2>2. PICK sold \in 0..Cardinality(Accepted) :
            script' = [next |-> IF skip THEN 2 ELSE 1,
                       stock |-> IF sold <= Stock THEN Stock - sold ELSE 0]
    BY <2>1 DEF ScriptRead
  <2>3. (IF sold <= Stock THEN Stock - sold ELSE 0) \in Nat
    OBVIOUS
  <2>4. script' \in [next : 1..4, stock : Nat] /\ openRun' \in BOOLEAN
    BY <2>1, <2>2, <2>3 DEF ScriptRead
  <2> QED BY <2>1, <2>4 DEF ScriptRead
<1>4. CASE ScriptWrite
  <2>1. PICK i \in 1..3 : i = script.next
    BY <1>4 DEF ScriptWrite
  <2>2. [key EXCEPT ![ScriptOrder[i]] = Value(ScriptOrder[i], script.stock)] \in Keys
    BY Orders, Values DEF Keys
  <2>3. key' \in Keys /\ script' \in [next : 1..4, stock : Nat] /\ faults' \in Nat
    BY <1>4, <2>1, <2>2 DEF ScriptWrite, NoScript, Fault
  <2> QED BY <1>4, <2>3 DEF ScriptWrite
<1>5. ASSUME NEW p \in Requests, Serve(p) PROVE TypeInv'
  <2>1. NoReq \in Req
    BY DEF NoReq, Req
  <2>2. CASE \E u \in Users : Enter(p, u)
    <3>1. PICK u \in Users, t \in Times :
              req' = [req EXCEPT ![p] = [NoReq EXCEPT !.pc = "time", !.user = u, !.now = t]]
      BY <2>2 DEF Enter
    <3>2. [NoReq EXCEPT !.pc = "time", !.user = u, !.now = t] \in Req
      BY DEF NoReq, Req
    <3>3. req' \in [Requests -> Req] /\ Underway'
      BY <3>1, <3>2 DEF NoReq
    <3> QED BY <2>2, <3>3 DEF Enter
  <2>3. CASE TakeTime(p)
    <3>1. PICK t \in Times : req' = [req EXCEPT ![p].pc = "incr", ![p].ts = t]
      BY <2>3 DEF TakeTime
    <3>0. req[p] \in Req /\ t \in Nat
      OBVIOUS
    <3>2. [req[p] EXCEPT !.pc = "incr", !.ts = t] \in Req
      BY <3>0 DEF Req
    <3>4. req' \in [Requests -> Req]
      BY <3>1, <3>2
    <3>3. Underway'
      BY <2>3, <3>1 DEF TakeTime, Req
    <3> QED BY <2>3, <3>3, <3>4 DEF TakeTime
  <2>4. CASE Increment(p)
    <3>1. req[p].ts \in Times /\ KeyDay(p) \in {Day(t) : t \in Times}
      BY <2>4 DEF Increment, KeyDay
    <3>2. counter[KeyDay(p)] \in Nat
      BY <3>1
    <3>3. counter' \in [{Day(t) : t \in Times} -> Nat]
      BY <2>4, <3>1, <3>2 DEF Increment
    <3>4. Compose(req[p].ts, counter[KeyDay(p)] + 1) \in Nat
      <4>1. req[p].ts \in Nat
        BY <3>1
      <4>2. counter[KeyDay(p)] + 1 \in Nat
        BY <3>2
      <4> QED BY <4>1, <4>2, IdIsNat
    <3>5. req' \in [Requests -> Req]
      BY <2>1, <2>4, <3>4 DEF Increment, Req
    <3>6. Underway'
      BY <2>4, <3>1 DEF Increment, Req, NoReq
    <3> QED BY <2>4, <3>3, <3>5, <3>6 DEF Increment, Fault
  <2>5. CASE Lua(p)
    <3>1. req' \in [Requests -> Req] /\ Underway'
      BY <2>1, <2>5 DEF Lua, NoReq
    <3>2. key' \in Keys /\ orderOf' \in [Users -> Nat \cup {None}]
      <4>1. CASE ~Passes(p)
        BY <2>5, <4>1 DEF Lua
      <4>2. CASE Passes(p)
        <5>1. key["stock"] \in Nat /\ key["stock"] > 0
          BY <4>2 DEF Passes, InStock, Keys, Names
        <5>2. req[p].id \in Nat
          BY DEF Req
        <5> QED BY <2>5, <4>2, <5>1, <5>2 DEF Lua, Keys
      <4> QED BY <4>1, <4>2
    <3> QED BY <2>5, <3>1, <3>2 DEF Lua
  <2>6. CASE LuaUnsent(p)
    <3>1. req' \in [Requests -> Req] /\ Underway'
      BY <2>1, <2>6 DEF LuaUnsent, NoReq
    <3> QED BY <2>6, <3>1 DEF LuaUnsent, Fault
  <2> QED BY <1>5, <2>2, <2>3, <2>4, <2>5, <2>6 DEF Serve
<1>6. CASE UNCHANGED vars
  BY <1>6 DEF vars
<1> QED BY <1>1, <1>2, <1>3, <1>4, <1>5, <1>6 DEF Next

\* Type correctness: no stock goes below zero, every key is a number or missing, and
\* every counter is that of a day some clock has shown.
THEOREM TypeCorrect == Spec => []TypeOK
<1>1. TypeInv => TypeOK
  BY DEF TypeInv
<1> QED BY <1>1, TypeInit, TypeStep, PTL DEF Spec

----------------------------------------------------------------------------
(* Unique ids                                                              *)

\* An id that the counters have been good for so far.
Drawn(cnt, i) == \E t \in Times : \E n \in 1..cnt[Day(t)] : i = Compose(t, n)

DrawnInv ==
    /\ \A t \in Times : counter[Day(t)] <= MaxIds
    /\ \A p \in Requests : req[p].pc = "lua" => Drawn(counter, req[p].id)
    /\ \A u \in Accepted : Drawn(counter, orderOf[u])

IdInv == DrawnInv /\ UniqueIds

\* The two halves of an id can be read back: counters stay below the radix.
LEMMA Digits ==
    ASSUME NEW t \in Nat, NEW s \in Nat, NEW n \in 1..MaxIds, NEW k \in 1..MaxIds,
           Compose(t, n) = Compose(s, k)
    PROVE  t = s /\ n = k
<1>1. \A a, b \in Nat : a < b => b * Radix >= a * Radix + Radix
  <2> SUFFICES ASSUME NEW a \in Nat, NEW b \in Nat, a < b
               PROVE  b * Radix >= a * Radix + Radix
    OBVIOUS
  <2>1. PICK d \in Nat : b = a + 1 + d
    <3>1. b - a - 1 \in Nat /\ b = a + 1 + (b - a - 1)
      OBVIOUS
    <3> QED BY <3>1
  <2>2. b * Radix = a * Radix + Radix + d * Radix
    BY <2>1
  <2>3. d * Radix \in Nat
    OBVIOUS
  <2> QED BY <2>2, <2>3
<1>2. n < Radix /\ k < Radix
  OBVIOUS
<1>3. t * Radix \in Nat /\ s * Radix \in Nat /\ t * Radix + n = s * Radix + k
  BY DEF Compose
<1>4. ~(t < s)
  BY <1>1, <1>2, <1>3
<1>5. ~(s < t)
  BY <1>1, <1>2, <1>3
<1>6. t = s
  BY <1>4, <1>5
<1> QED BY <1>3, <1>6

\* A counter that grows keeps what was drawn, and its next id was not drawn before.
LEMMA NextIdIsNew ==
    ASSUME TypeInv, DrawnInv, NEW p \in Requests, Increment(p)
    PROVE  LET new == Compose(req[p].ts, counter[KeyDay(p)] + 1)
           IN  /\ \A i : Drawn(counter, i) => Drawn(counter', i)
               /\ Drawn(counter', new) /\ ~Drawn(counter, new)
               /\ \A t \in Times : counter'[Day(t)] <= MaxIds
<1> DEFINE ts == req[p].ts
           n  == counter[KeyDay(p)]
           D  == {Day(t) : t \in Times}
<1>1. ts \in Times /\ KeyDay(p) = Day(ts) /\ Day(ts) \in D
  BY DEF Increment, KeyDay, TypeInv, Underway
<1>2. counter \in [D -> Nat] /\ n \in Nat /\ n < MaxIds
  BY <1>1 DEF TypeInv, TypeOK, Increment
<1>3. counter' = [counter EXCEPT ![Day(ts)] = n + 1]
  BY <1>1 DEF Increment
<1>4. \A t \in Times : counter[Day(t)] \in Nat /\ counter'[Day(t)] \in Nat
                        /\ counter[Day(t)] <= counter'[Day(t)] /\ counter'[Day(t)] <= MaxIds
  <2> SUFFICES ASSUME NEW t \in Times
               PROVE  counter[Day(t)] \in Nat /\ counter'[Day(t)] \in Nat
                      /\ counter[Day(t)] <= counter'[Day(t)] /\ counter'[Day(t)] <= MaxIds
    OBVIOUS
  <2>1. Day(t) \in D
    OBVIOUS
  <2>2. counter'[Day(t)] = IF Day(t) = Day(ts) THEN n + 1 ELSE counter[Day(t)]
    BY <1>2, <1>3, <2>1
  <2>3. counter[Day(t)] \in Nat /\ counter[Day(t)] <= MaxIds
    BY <1>2, <2>1 DEF DrawnInv
  <2>4. Day(t) = Day(ts) => counter[Day(t)] = n
    BY <1>1
  <2> HIDE DEF n, ts, D
  <2> QED BY <1>2, <2>2, <2>3, <2>4
<1>5. \A i : Drawn(counter, i) => Drawn(counter', i)
  <2> SUFFICES ASSUME NEW i, Drawn(counter, i) PROVE Drawn(counter', i)
    OBVIOUS
  <2>0. PICK t \in Times : \E k \in 1..counter[Day(t)] : i = Compose(t, k)
    BY DEF Drawn
  <2>1. PICK k \in 1..counter[Day(t)] : i = Compose(t, k)
    BY <2>0
  <2>2. counter[Day(t)] \in Nat /\ counter'[Day(t)] \in Nat
        /\ counter[Day(t)] <= counter'[Day(t)]
    BY <1>4
  <2>3. k \in 1..counter'[Day(t)]
    BY <2>2
  <2>4. \E x \in Times : \E y \in 1..counter'[Day(x)] : i = Compose(x, y)
    BY <2>1, <2>3
  <2> QED BY <2>4 DEF Drawn
<1>6. Drawn(counter', Compose(ts, n + 1))
  <2>1. counter'[Day(ts)] = n + 1
    BY <1>1, <1>2, <1>3
  <2>2. n + 1 \in 1..counter'[Day(ts)]
    BY <1>2, <2>1
  <2>3. \E y \in 1..counter'[Day(ts)] : Compose(ts, n + 1) = Compose(ts, y)
    BY <2>2
  <2> HIDE DEF ts, n
  <2>4. \E x \in Times : \E y \in 1..counter'[Day(x)] : Compose(ts, n + 1) = Compose(x, y)
    BY <1>1, <2>3
  <2> QED BY <2>4 DEF Drawn
<1>7. ~Drawn(counter, Compose(ts, n + 1))
  <2> SUFFICES ASSUME Drawn(counter, Compose(ts, n + 1)) PROVE FALSE
    OBVIOUS
  <2>0. PICK t \in Times : \E k \in 1..counter[Day(t)] : Compose(ts, n + 1) = Compose(t, k)
    BY DEF Drawn
  <2>1. PICK k \in 1..counter[Day(t)] : Compose(ts, n + 1) = Compose(t, k)
    BY <2>0
  <2>2. counter[Day(t)] \in Nat /\ counter[Day(t)] <= MaxIds
    BY <1>4 DEF DrawnInv
  <2>3. k \in 1..MaxIds /\ n + 1 \in 1..MaxIds /\ ts \in Nat /\ t \in Nat
    BY <1>1, <1>2, <2>2
  <2>4. ts = t /\ n + 1 = k
    BY <2>1, <2>3, Digits
  <2>5. counter[Day(t)] = n
    BY <1>1, <2>4
  <2> HIDE DEF n, ts
  <2> QED BY <1>2, <2>4, <2>5
<1> QED BY <1>4, <1>5, <1>6, <1>7

LEMMA IdStep == TypeInv /\ IdInv /\ [Next]_vars => IdInv'
<1> SUFFICES ASSUME TypeInv, IdInv, [Next]_vars PROVE IdInv'
  OBVIOUS
<1> USE DEF IdInv
<1>1. ASSUME UNCHANGED <<counter, orderOf>>,
             \A q \in Requests : req'[q].pc = "lua" => req'[q] = req[q]
      PROVE  IdInv'
  <2>1. \A i : Drawn(counter', i) <=> Drawn(counter, i)
    BY <1>1 DEF Drawn
  <2>2. Accepted' = Accepted
    BY <1>1 DEF Accepted
  <2>3. DrawnInv'
    BY <1>1, <2>1, <2>2 DEF DrawnInv
  <2>4. UniqueIds'
    BY <1>1, <2>2 DEF UniqueIds
  <2> QED BY <2>3, <2>4
<1>2. CASE Save \/ Publish \/ ScriptWrite \/ UNCHANGED vars
  BY <1>1, <1>2 DEF Save, Publish, ScriptWrite, vars
<1>3. CASE \E skip \in BOOLEAN : ScriptRead(skip)
  BY <1>1, <1>3 DEF ScriptRead
<1>4. ASSUME NEW p \in Requests, Serve(p) PROVE IdInv'
  <2>0. req \in [Requests -> Req]
    BY DEF TypeInv, TypeOK
  <2>1. CASE \E u \in Users : Enter(p, u)
    BY <1>1, <2>0, <2>1 DEF Enter, NoReq
  <2>2. CASE TakeTime(p)
    <3>1. PICK t \in Times : req' = [req EXCEPT ![p].pc = "incr", ![p].ts = t]
      BY <2>2 DEF TakeTime
    <3>2. req'[p].pc = "incr" /\ \A q \in Requests \ {p} : req'[q] = req[q]
      BY <2>0, <3>1 DEF Req
    <3> QED BY <1>1, <2>2, <3>2 DEF TakeTime
  <2>3. CASE LuaUnsent(p)
    BY <1>1, <2>0, <2>3 DEF LuaUnsent, NoReq
  <2>4. CASE Increment(p)
    <3> DEFINE new == Compose(req[p].ts, counter[KeyDay(p)] + 1)
    <3>1. /\ \A i : Drawn(counter, i) => Drawn(counter', i)
          /\ Drawn(counter', new) /\ ~Drawn(counter, new)
          /\ \A t \in Times : counter'[Day(t)] <= MaxIds
      BY <2>4, NextIdIsNew
    <3>2. \A q \in Requests : req'[q].pc = "lua" =>
              (q # p /\ req'[q] = req[q]) \/ (q = p /\ req'[q].id = new)
      BY <2>0, <2>4 DEF Increment, Req, NoReq
    <3>3. orderOf' = orderOf /\ Accepted' = Accepted
      BY <2>4 DEF Increment, Accepted
    <3> HIDE DEF new
    <3>4. DrawnInv'
      BY <3>1, <3>2, <3>3 DEF DrawnInv
    <3>5. UniqueIds'
      <4>1. \A u, v \in Accepted : orderOf[u] = orderOf[v] => u = v
        BY DEF UniqueIds
      <4>2. \A q \in Requests : req[q].pc = "lua" => req[q].id # new
        BY <3>1 DEF DrawnInv
      <4>3. \A u \in Accepted : orderOf[u] # new
        BY <3>1 DEF DrawnInv
      <4> QED BY <3>2, <3>3, <4>1, <4>2, <4>3 DEF UniqueIds
    <3> QED BY <3>4, <3>5
  <2>5. CASE Lua(p)
    <3>1. /\ req[p].pc = "lua" /\ req'[p].pc # "lua"
          /\ \A q \in Requests \ {p} : req'[q] = req[q]
      BY <2>0, <2>5 DEF Lua, NoReq
    <3>2. CASE orderOf' = orderOf
      BY <1>1, <2>5, <3>1, <3>2 DEF Lua
    <3>3. CASE Passes(p) /\ orderOf' = [orderOf EXCEPT ![req[p].user] = req[p].id]
      <4> DEFINE u == req[p].user
                 i == req[p].id
      <4>1. u \in Users /\ orderOf \in [Users -> Nat \cup {None}] /\ i \in Nat
        BY <2>0, <3>1 DEF TypeInv, TypeOK, Underway, Req
      <4>2. orderOf'[u] = i /\ \A v \in Users \ {u} : orderOf'[v] = orderOf[v]
        BY <3>3, <4>1
      <4>3. Accepted' = Accepted \cup {u} /\ u \notin Accepted
        BY <3>3, <4>1, <4>2 DEF Accepted, Passes
      <4>4. \A x : Drawn(counter', x) <=> Drawn(counter, x)
        BY <2>5 DEF Lua, Drawn
      <4>5. Drawn(counter, i)
        BY <3>1 DEF DrawnInv
      <4>6. counter' = counter
        BY <2>5 DEF Lua
      <4> HIDE DEF u, i
      <4>7. Accepted \subseteq Users
        BY DEF Accepted
      <4>8. DrawnInv'
        BY <3>1, <4>2, <4>3, <4>4, <4>5, <4>6, <4>7 DEF DrawnInv
      <4>9. \A v \in Accepted : orderOf[v] # i
        BY <3>1 DEF UniqueIds, i
      <4>10. \A q \in Requests \ {p} : req[q].pc = "lua" => req[q].id # i
        BY <3>1 DEF UniqueIds, i
      <4>11. UniqueIds'
        BY <3>1, <4>2, <4>3, <4>7, <4>9, <4>10 DEF UniqueIds
      <4> QED BY <4>8, <4>11
    <3> QED BY <2>5, <3>2, <3>3 DEF Lua
  <2> QED BY <1>4, <2>1, <2>2, <2>3, <2>4, <2>5 DEF Serve
<1> QED BY <1>2, <1>3, <1>4 DEF Next

LEMMA IdInit == Init => IdInv
<1> SUFFICES ASSUME Init PROVE IdInv
  OBVIOUS
<1>1. Accepted = {} /\ \A p \in Requests : req[p].pc = "idle"
  BY DEF Init, Accepted, NoReq
<1>2. \A t \in Times : counter[Day(t)] = 0
  BY DEF Init
<1> QED BY <1>1, <1>2 DEF IdInv, DrawnInv, UniqueIds

\* No order id is given twice, for any clocks: the day of the counter is that of the
\* timestamp, so two ids differ in the one or in the other.
THEOREM UniqueIdsCorrect == Spec => []UniqueIds
<1>1. IdInv => UniqueIds
  BY DEF IdInv
<1> QED BY <1>1, IdInit, TypeInit, TypeStep, IdStep, PTL DEF Spec

----------------------------------------------------------------------------
(* No oversell                                                             *)

\* Nothing is sold before all three keys are there; a script that is to write the
\* stock began on a sale that cannot open before it has; the publisher writes the
\* stock once.
Sequenced ==
    /\ ~saved => publisher = 4 /\ script.next = 4 /\ key["stock"] = None
    /\ ~openRun =>
         /\ publisher = 1 => key["stock"] = None
         /\ ~Open => Accepted = {}
         /\ script.next = 1 => ~Open /\ publisher = 4 /\ script.stock <= Stock

Covered == key["stock"] # None => Cardinality(Accepted) + key["stock"] <= Stock

SaleInv == /\ IsFiniteSet(Accepted)
           /\ Sequenced
           /\ ~openRun => Covered

\* A step that sells nothing and writes no more than one key with a value.
LEMMA WritesOnly ==
    ASSUME TypeInv, SaleInv, orderOf' = orderOf, openRun' = openRun, saved, saved' = saved,
           NEW name \in Names, NEW n \in Nat,
           key' = key \/ key' = [key EXCEPT ![name] = n],
           publisher' # 1, script'.next # 1,
           ~openRun /\ name = "stock" => ~Open /\ n <= Stock
    PROVE  SaleInv'
<1>1. Accepted' = Accepted
  BY DEF Accepted
<1>2. key \in Keys /\ "stock" \in Names
  BY DEF TypeInv, TypeOK, Names
<1>3. \A m \in Names : key[m] # None => key'[m] # None
  BY <1>2 DEF Keys
<1>4. Open => Open'
  BY <1>3 DEF Open
<1>5. Sequenced'
  BY <1>1, <1>4 DEF SaleInv, Sequenced
<1>6. ~openRun => Covered'
  <2> SUFFICES ASSUME ~openRun PROVE Covered'
    OBVIOUS
  <2>1. CASE key'["stock"] = key["stock"]
    BY <1>1, <2>1 DEF SaleInv, Covered
  <2>2. CASE key'["stock"] # key["stock"]
    <3>1. name = "stock" /\ key'["stock"] = n
      BY <1>2, <2>2 DEF Keys
    <3>2. Accepted = {}
      BY <3>1 DEF SaleInv, Sequenced
    <3>3. Cardinality(Accepted') = 0
      BY <1>1, <3>2, FS_EmptySet
    <3> QED BY <3>1, <3>3 DEF Covered
  <2> QED BY <2>1, <2>2
<1> QED BY <1>1, <1>5, <1>6 DEF SaleInv

\* Selling one unit of an open sale.
LEMMA Sells ==
    ASSUME TypeInv, SaleInv, NEW p \in Requests, Lua(p), Passes(p)
    PROVE  SaleInv'
<1> DEFINE u == req[p].user
<1>1. u \in Users /\ req[p].id \in Nat /\ orderOf \in [Users -> Nat \cup {None}]
  BY DEF TypeInv, TypeOK, Underway, Lua, Req
<1>2. key \in Keys /\ "stock" \in Names /\ key["stock"] \in Nat /\ key["stock"] > 0
  BY DEF TypeInv, TypeOK, Names, Keys, Passes, InStock
<1>3. Accepted' = Accepted \cup {u} /\ u \notin Accepted
  BY <1>1 DEF Lua, Passes, Accepted
<1>4. key' = [key EXCEPT !["stock"] = @ - 1]
  BY DEF Lua
<1>5. key'["stock"] = key["stock"] - 1
  BY <1>2, <1>4 DEF Keys
<1>6. Open /\ Open'
  <2>1. \A name \in Names : key[name] # None
    BY DEF Passes, InStock, Names
  <2>2. \A name \in Names : key'[name] # None
    BY <1>2, <1>4, <1>5, <2>1 DEF Keys
  <2> QED BY <2>1, <2>2 DEF Open
<1>7. IsFiniteSet(Accepted') /\ Cardinality(Accepted') = Cardinality(Accepted) + 1
      /\ Cardinality(Accepted) \in Nat
  BY <1>3, FS_AddElement, FS_CardinalityType DEF SaleInv
<1>8. UNCHANGED <<saved, publisher, script, openRun>>
  BY DEF Lua
<1>9. saved /\ (~openRun => publisher # 1 /\ script.next # 1)
  BY <1>2, <1>6 DEF SaleInv, Sequenced
<1>10. Sequenced'
  BY <1>6, <1>8, <1>9 DEF Sequenced
<1>11. ~openRun => Covered'
  <2> SUFFICES ASSUME ~openRun PROVE Covered'
    OBVIOUS
  <2>1. Cardinality(Accepted) + key["stock"] <= Stock
    BY <1>2 DEF SaleInv, Covered
  <2>2. Cardinality(Accepted') + key'["stock"] <= Stock
    BY <1>2, <1>5, <1>7, <2>1
  <2> QED BY <2>2 DEF Covered
<1> QED BY <1>7, <1>8, <1>10, <1>11 DEF SaleInv

LEMMA SaleStep == TypeInv /\ SaleInv /\ [Next]_vars => SaleInv'
<1> SUFFICES ASSUME TypeInv, SaleInv, [Next]_vars PROVE SaleInv'
  OBVIOUS
<1>1. ASSUME UNCHANGED <<saved, key, publisher, script, openRun, orderOf>> PROVE SaleInv'
  <2>1. Accepted' = Accepted /\ Open' = Open
    BY <1>1 DEF Accepted, Open
  <2> QED BY <1>1, <2>1 DEF SaleInv, Sequenced, Covered
<1>2. CASE UNCHANGED vars
  BY <1>1, <1>2 DEF vars
<1>3. CASE Save
  <2>1. Accepted' = Accepted /\ Open' = Open
    BY <1>3 DEF Save, Accepted, Open
  <2> QED BY <1>3, <2>1 DEF Save, SaleInv, Sequenced, Covered
<1>4. CASE Publish
  <2>1. PICK i \in 1..3 : i = publisher
    BY <1>4 DEF Publish
  <2>2. Order[i] \in Names /\ Value(Order[i], Stock) \in Nat
        /\ (Order[i] = "stock" => i = 1 /\ Value(Order[i], Stock) = Stock)
    BY Orders, Values
  <2>3. key' = key \/ key' = [key EXCEPT ![Order[i]] = Value(Order[i], Stock)]
    BY <1>4, <2>1 DEF Publish
  <2>4. publisher' # 1 /\ saved /\ UNCHANGED <<saved, script, openRun, orderOf>>
    BY <1>4, <2>1 DEF Publish, SaleInv, Sequenced
  <2>5. CASE script.next # 1
    <3>1. ~openRun /\ Order[i] = "stock" => ~Open
      BY <2>1, <2>2 DEF SaleInv, Sequenced, Open, Names
    <3> HIDE DEF Publish
    <3> QED BY <2>2, <2>3, <2>4, <2>5, <3>1, WritesOnly
  <2>6. CASE openRun
    <3>1. Accepted' = Accepted
      BY <2>4 DEF Accepted
    <3> QED BY <2>4, <2>6, <3>1 DEF SaleInv, Sequenced
  <2> QED BY <2>1, <2>5, <2>6 DEF SaleInv, Sequenced
<1>5. CASE \E skip \in BOOLEAN : ScriptRead(skip)
  <2>1. PICK skip \in BOOLEAN : ScriptRead(skip)
    BY <1>5
  <2>2. PICK sold \in 0..Cardinality(Accepted) :
            script' = [next |-> IF skip THEN 2 ELSE 1,
                       stock |-> IF sold <= Stock THEN Stock - sold ELSE 0]
    BY <2>1 DEF ScriptRead
  <2>3. sold \in Nat
    BY FS_CardinalityType DEF SaleInv
  <2>4. (IF sold <= Stock THEN Stock - sold ELSE 0) <= Stock
    BY <2>3
  <2>5. script'.stock <= Stock /\ (script'.next = 1 <=> ~skip)
    BY <2>2, <2>4
  <2>6. /\ saved /\ UNCHANGED <<saved, key, publisher, orderOf>>
        /\ ~openRun' => ~openRun /\ (~skip => ~Open /\ publisher = 4)
    BY <2>1 DEF ScriptRead
  <2>7. Accepted' = Accepted /\ Open' = Open
    BY <2>6 DEF Accepted, Open
  <2> QED BY <2>5, <2>6, <2>7 DEF SaleInv, Sequenced, Covered
<1>6. CASE ScriptWrite
  <2>1. PICK i \in 1..3 : i = script.next
    BY <1>6 DEF ScriptWrite
  <2>2. ScriptOrder[i] \in Names /\ script.stock \in Nat
        /\ Value(ScriptOrder[i], script.stock) \in Nat
        /\ (ScriptOrder[i] = "stock" =>
              i = 1 /\ Value(ScriptOrder[i], script.stock) = script.stock)
    BY Orders, Values DEF TypeInv, TypeOK
  <2>3. key' = key \/ key' = [key EXCEPT ![ScriptOrder[i]] = Value(ScriptOrder[i], script.stock)]
    BY <1>6, <2>1 DEF ScriptWrite
  <2>4. script'.next # 1 /\ saved /\ UNCHANGED <<saved, publisher, openRun, orderOf>>
    BY <1>6, <2>1 DEF ScriptWrite, SaleInv, Sequenced, NoScript, TypeInv, TypeOK
  <2>5. CASE publisher # 1
    <3>1. ~openRun /\ ScriptOrder[i] = "stock" =>
            ~Open /\ Value(ScriptOrder[i], script.stock) <= Stock
      BY <2>1, <2>2 DEF SaleInv, Sequenced
    <3> QED BY <2>2, <2>3, <2>4, <2>5, <3>1, WritesOnly
  <2>6. CASE openRun
    <3>1. Accepted' = Accepted
      BY <2>4 DEF Accepted
    <3> QED BY <2>4, <2>6, <3>1 DEF SaleInv, Sequenced
  <2>7. CASE publisher = 1 /\ ~openRun
    <3>1. i # 1 /\ key["stock"] = None
      BY <2>1, <2>7 DEF SaleInv, Sequenced
    <3>2. key'["stock"] = None
      BY <2>2, <2>3, <3>1, Orders DEF TypeInv, TypeOK, Keys
    <3>3. Accepted' = Accepted /\ Accepted = {}
      BY <2>4, <2>7, <3>1 DEF Accepted, SaleInv, Sequenced, Open, Names
    <3> QED BY <2>4, <2>7, <3>2, <3>3 DEF SaleInv, Sequenced, Covered
  <2> QED BY <2>5, <2>6, <2>7
<1>7. ASSUME NEW p \in Requests, Serve(p) PROVE SaleInv'
  <2>1. CASE \E u \in Users : Enter(p, u)
    BY <1>1, <2>1 DEF Enter
  <2>2. CASE TakeTime(p) \/ Increment(p) \/ LuaUnsent(p)
    BY <1>1, <2>2 DEF TakeTime, Increment, LuaUnsent
  <2>3. CASE Lua(p) /\ ~Passes(p)
    BY <1>1, <2>3 DEF Lua
  <2>4. CASE Lua(p) /\ Passes(p)
    BY <2>4, Sells
  <2> QED BY <1>7, <2>1, <2>2, <2>3, <2>4 DEF Serve
<1> QED BY <1>2, <1>3, <1>4, <1>5, <1>6, <1>7 DEF Next

LEMMA SaleInit == Init => SaleInv
<1> SUFFICES ASSUME Init PROVE SaleInv
  OBVIOUS
<1>1. Accepted = {} /\ IsFiniteSet(Accepted) /\ Cardinality(Accepted) = 0
  BY FS_EmptySet DEF Init, Accepted
<1>2. key["stock"] = None
  BY DEF Init, Names
<1> QED BY <1>1, <1>2 DEF Init, NoScript, SaleInv, Sequenced, Covered

\* As long as no script read the stock of a sale that was or could get open, no more
\* buyers are accepted than there are units, whatever was published by half, repaired
\* and repeated.
THEOREM OversoldOnlyByOpenRunCorrect == Spec => []OversoldOnlyByOpenRun
<1>1. TypeInv /\ SaleInv => OversoldOnlyByOpenRun
  <2> SUFFICES ASSUME TypeInv, SaleInv, ~openRun PROVE Cardinality(Accepted) <= Stock
    BY DEF OversoldOnlyByOpenRun
  <2>1. Cardinality(Accepted) \in Nat
    BY FS_CardinalityType DEF SaleInv
  <2>2. CASE Open
    <3>1. key["stock"] \in Nat
      BY <2>2 DEF Open, Names, TypeInv, TypeOK, Keys
    <3>2. Cardinality(Accepted) + key["stock"] <= Stock
      BY <3>1 DEF SaleInv, Covered
    <3> QED BY <2>1, <3>1, <3>2
  <2>3. CASE ~Open
    BY <2>3, FS_EmptySet DEF SaleInv, Sequenced
  <2> QED BY <2>2, <2>3
<1> QED BY <1>1, SaleInit, TypeInit, TypeStep, SaleStep, PTL DEF Spec

----------------------------------------------------------------------------
(* The life of an order                                                    *)

\* Acceptance's part of a life.
Stage(u) == IF u \in Accepted THEN "waiting" ELSE "none"

LEMMA LifeCardinality == \A S : Life!Cardinality(S) = Cardinality(S)
BY DEF Life!Cardinality, Cardinality, Life!IsFiniteSet, IsFiniteSet

\* An accepted request takes an id, for a buyer who has none, while a unit is left.
LEMMA LuaTakes ==
    ASSUME TypeInv, IdInv, SaleInv, NEW p \in Requests, Lua(p), Passes(p)
    PROVE  \E u \in Users : Life!Take(u)
<1> DEFINE life == [v \in Users |-> Stage(v)]
<1>0. PICK u \in Users : u = req[p].user
  BY DEF TypeInv, Underway, Lua
<1>1. req[p].id \in Nat /\ orderOf \in [Users -> Nat \cup {None}]
  BY DEF TypeInv, TypeOK, Req
<1>2. orderOf' = [orderOf EXCEPT ![u] = req[p].id] /\ orderOf[u] = None /\ openRun' = openRun
  BY <1>0 DEF Lua, Passes
<1>3. orderOf'[u] = req[p].id /\ req[p].id # None
  BY <1>1, <1>2
<1>4. req[p].id \notin {orderOf[v] : v \in Users}
  <2>1. \A v \in Accepted : req[p].id # orderOf[v]
    BY DEF IdInv, UniqueIds, Lua
  <2> QED BY <1>1, <2>1 DEF Accepted
<1>5. Accepted' = Accepted \cup {u} /\ u \notin Accepted
  BY <1>1, <1>2, <1>3 DEF Accepted
<1>6. life' = [life EXCEPT ![u] = "waiting"] /\ life[u] = "none"
  BY <1>1, <1>5 DEF Stage
<1>7. openRun \/ Cardinality(Accepted) < Stock
  <2> SUFFICES ASSUME ~openRun PROVE Cardinality(Accepted) < Stock
    OBVIOUS
  <2>1. key["stock"] \in Nat /\ key["stock"] > 0
    BY DEF TypeInv, TypeOK, Names, Keys, Passes, InStock
  <2>2. Cardinality(Accepted) + key["stock"] <= Stock /\ Cardinality(Accepted) \in Nat
    BY <2>1, FS_CardinalityType DEF SaleInv, Covered
  <2> QED BY <2>1, <2>2
<1>8. {v \in Users : life[v] \notin {"none", "returned"}} = Accepted
  BY DEF Stage, Accepted
<1>9. openRun \/ Life!Cardinality({v \in Users : life[v] \notin {"none", "returned"}}) < Stock
  BY <1>7, <1>8, LifeCardinality
<1>10. Life!Take(u)
  BY <1>1, <1>2, <1>3, <1>4, <1>6, <1>9 DEF Life!Take, Life!Holding, Stage
<1> QED BY <1>10

LEMMA LifeStep == TypeInv /\ IdInv /\ SaleInv /\ [Next]_vars => [Life!Next]_(Life!lifeVars)
<1> SUFFICES ASSUME TypeInv, IdInv, SaleInv, [Next]_vars
             PROVE  [Life!Next]_(Life!lifeVars)
  OBVIOUS
<1>1. ASSUME orderOf' = orderOf, openRun' = openRun PROVE UNCHANGED Life!lifeVars
  <2>1. Accepted' = Accepted
    BY <1>1 DEF Accepted
  <2> QED BY <1>1, <2>1 DEF Life!lifeVars
<1>2. CASE Save \/ Publish \/ ScriptWrite \/ UNCHANGED vars
  BY <1>1, <1>2 DEF Save, Publish, ScriptWrite, vars
<1>3. CASE \E skip \in BOOLEAN : ScriptRead(skip)
  <2>1. orderOf' = orderOf /\ openRun' \in BOOLEAN /\ (openRun => openRun')
    BY <1>3 DEF ScriptRead, TypeInv, TypeOK
  <2>2. Accepted' = Accepted
    BY <2>1 DEF Accepted
  <2>3. CASE ~openRun /\ openRun'
    <3>1. Life!Loosen
      BY <2>1, <2>2, <2>3 DEF Life!Loosen
    <3> QED BY <3>1 DEF Life!Next
  <2>4. openRun \in BOOLEAN
    BY DEF TypeInv, TypeOK
  <2> QED BY <1>1, <2>1, <2>3, <2>4
<1>4. ASSUME NEW p \in Requests, Serve(p) PROVE [Life!Next]_(Life!lifeVars)
  <2>1. CASE \E u \in Users : Enter(p, u)
    BY <1>1, <2>1 DEF Enter
  <2>2. CASE TakeTime(p) \/ Increment(p) \/ LuaUnsent(p)
    BY <1>1, <2>2 DEF TakeTime, Increment, LuaUnsent
  <2>3. CASE Lua(p) /\ ~Passes(p)
    BY <1>1, <2>3 DEF Lua
  <2>4. CASE Lua(p) /\ Passes(p)
    BY <2>4, LuaTakes DEF Life!Next
  <2> QED BY <1>4, <2>1, <2>2, <2>3, <2>4 DEF Serve
<1> QED BY <1>2, <1>3, <1>4 DEF Next

\* The front half implements the first part of the life of an order, for any clocks and
\* faults: whoever gets an id had none, the id is new, and a unit was left for it.
THEOREM LifeRefinedCorrect == Spec => LifeRefined
<1>1. Init => Life!Init
  <2> SUFFICES ASSUME Init PROVE Life!Init
    OBVIOUS
  <2>1. orderOf = [u \in Users |-> None] /\ openRun = FALSE /\ Accepted = {}
    BY DEF Init, Accepted
  <2> QED BY <2>1 DEF Life!Init
<1>2. Init => TypeInv /\ IdInv /\ SaleInv
  BY TypeInit, IdInit, SaleInit
<1> QED BY <1>1, <1>2, TypeStep, IdStep, SaleStep, LifeStep, PTL DEF Spec, Life!Spec, LifeRefined
=============================================================================

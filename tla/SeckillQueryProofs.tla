------------------------ MODULE SeckillQueryProofs ------------------------
(***************************************************************************)
(* What the answers to a buyer are worth, for every number of buyers,      *)
(* JVMs, faults, replays and backfills: no order disappears unsettled, and *)
(* no answer by id takes an earlier one back.                              *)
(***************************************************************************)
EXTENDS SeckillQuery, SeckillSafetyProofs

(***************************************************************************)
(* The pipeline's own theorems hold of SpecQ: a step of a query, or of the *)
(* accept key's TTL, is a stutter of Seckill.                              *)
(***************************************************************************)
THEOREM QueriesOnlyRead == SpecQ => Spec
<1>1. InitQ => Init
  BY DEF InitQ
<1>2. [NextQ]_allVars => [Next]_vars
  BY DEF NextQ, allVars, Look, Ask, AcceptTtl
<1> QED BY <1>1, <1>2, PTL DEF SpecQ, Spec

LEMMA PipelineKept == SpecQ => [](Inv /\ UnsettledIsProcessing)
BY QueriesOnlyRead, InvInductive, UnsettledIsProcessingCorrect, PTL

\* So the pipeline sells as SeckillSale says whoever asks for orders meanwhile.
THEOREM SaleRefinedCorrectQ == SpecQ => SaleRefined
BY QueriesOnlyRead, SaleRefinedCorrect, PTL

----------------------------------------------------------------------------
(* The steps of a query                                                    *)

\* The place query[u] reads next, and whether the order is there.
Place(u) == Places(query[u].kind)[query[u].step]
Here(u)  == Holds(query[u].kind, Place(u), u)

LEMMA PlaceRead ==
    ASSUME TypeOKQ, NEW u \in Users, query[u].step \in 1..3
    PROVE  /\ Place(u) \in Fate
           /\ Place(u) = "SUCCESS" <=> query[u].step = 1
           /\ query[u].kind = "byId" => (Place(u) = "FAILED" <=> query[u].step = 2)
           /\ query[u].kind = "byId" => (Place(u) = "PROCESSING" <=> query[u].step = 3)
           /\ query[u].kind = "mine" => (Place(u) = "PROCESSING" <=> query[u].step = 2)
<1>1. query[u].kind \in Kind /\ query[u].step \in {1, 2, 3}
  BY DEF TypeOKQ, Query
<1>2. CASE query[u].kind = "byId"
  BY <1>1, <1>2 DEF Place, Places, Fate
<1>3. CASE query[u].kind = "mine"
  BY <1>1, <1>3 DEF Place, Places, Fate
<1> QED BY <1>1, <1>2, <1>3 DEF Kind

LEMMA RankOf == Rank["PROCESSING"] = 1 /\ Rank["FAILED"] = 2 /\ Rank["SUCCESS"] = 3
  BY DEF Rank

LEMMA LookMoves ==
    ASSUME TypeOKQ, NEW u \in Users, Look(u)
    PROVE  /\ query[u].step \in 1..3
           /\ query' \in [Users -> Query] /\ told' \in [Users -> 0..3]
           /\ \A v \in Users \ {u} : query'[v] = query[v] /\ told'[v] = told[v]
           /\ query'[u].kind = query[u].kind
           /\ query'[u].step =
                IF query[u].step = 3 \/ (Here(u) /\ (query[u].kind = "byId" \/ Place(u) = "SUCCESS"))
                THEN 4 ELSE query[u].step + 1
           /\ query'[u].found = IF Here(u) THEN query[u].found \cup {Place(u)} ELSE query[u].found
           /\ told'[u] = IF Here(u) /\ query[u].kind = "byId" /\ Rank[Place(u)] > told[u]
                         THEN Rank[Place(u)] ELSE told[u]
<1> DEFINE q    == query[u]
           here == Here(u)
           last == q.step = 3 \/ (here /\ (q.kind = "byId" \/ Place(u) = "SUCCESS"))
           step == IF last THEN 4 ELSE q.step + 1
           seen == IF here THEN q.found \cup {Place(u)} ELSE q.found
           rank == IF here /\ q.kind = "byId" /\ Rank[Place(u)] > told[u]
                   THEN Rank[Place(u)] ELSE told[u]
<1>1. q \in Query /\ told \in [Users -> 0..3] /\ query \in [Users -> Query]
  BY DEF TypeOKQ
<1>2. q.step \in 1..3
  BY DEF Look
<1>3. query' = [query EXCEPT ![u].step = step, ![u].found = seen]
  BY DEF Look, Place, Here
<1>4. told' = [told EXCEPT ![u] = rank]
  BY <1>1 DEF Look, Place, Here
<1>5. Place(u) \in Fate /\ Rank[Place(u)] \in 1..3
  BY <1>2, PlaceRead, RankOf DEF Fate
<1>6. step \in 0..4 /\ seen \subseteq Fate /\ rank \in 0..3
  BY <1>1, <1>2, <1>5 DEF Query
<1> HIDE DEF step, seen, rank
<1>7. query' \in [Users -> Query] /\ told' \in [Users -> 0..3]
  BY <1>1, <1>3, <1>4, <1>6 DEF Query
<1>8. \A v \in Users \ {u} : query'[v] = query[v] /\ told'[v] = told[v]
  BY <1>1, <1>3, <1>4
<1>9. /\ query'[u].kind = q.kind /\ query'[u].step = step
      /\ query'[u].found = seen /\ told'[u] = rank
  BY <1>1, <1>3, <1>4 DEF Query
<1> QED BY <1>2, <1>7, <1>8, <1>9 DEF step, seen, rank

LEMMA AskMoves ==
    ASSUME TypeOKQ, NEW u \in Users, NEW kind \in Kind, Ask(u, kind)
    PROVE  /\ query' \in [Users -> Query]
           /\ \A v \in Users \ {u} : query'[v] = query[v]
           /\ query'[u] = [kind |-> kind, step |-> 1, found |-> {}]
           /\ idOf[u] # 0
  BY DEF Ask, TypeOKQ, Query

\* The type invariant of the queries, whatever the constants are.
LEMMA TypeQStep == Inv /\ TypeOKQ /\ [NextQ]_allVars => TypeOKQ'
<1> SUFFICES ASSUME Inv, TypeOKQ, [NextQ]_allVars PROVE TypeOKQ'
  OBVIOUS
<1>1. CASE UNCHANGED qvars
  BY <1>1 DEF qvars, TypeOKQ
<1>2. ASSUME NEW u \in Users, Look(u) PROVE TypeOKQ'
  BY <1>2, LookMoves DEF TypeOKQ, Look
<1>3. ASSUME NEW u \in Users, NEW kind \in Kind, Ask(u, kind) PROVE TypeOKQ'
  BY <1>3, AskMoves DEF TypeOKQ, Ask
<1>4. ASSUME NEW i \in accepts, AcceptTtl(i) PROVE TypeOKQ'
  BY <1>4 DEF AcceptTtl, TypeOKQ, Inv, TypeInv, TypeOK
<1> QED BY <1>1, <1>2, <1>3, <1>4 DEF NextQ, allVars

\* Every query stays one of the shape the code has.
THEOREM TypeCorrectQ == SpecQ => []TypeOKQ
<1>1. InitQ => TypeOKQ
  BY DEF InitQ, TypeOKQ, NoQuery, Query, Kind, Fate
<1> QED BY <1>1, TypeQStep, PipelineKept, PTL DEF SpecQ

----------------------------------------------------------------------------
(* MissedIsSettled                                                         *)

(***************************************************************************)
(* AnswerInv: every order given out is in the stream, and a query that has *)
(* passed the place of the hints without seeing it is about an order that  *)
(* is settled (or, by id, one whose accept key ran out).  MissedIsSettled  *)
(* speaks of the end of the query only; the reads before have to be kept.  *)
(***************************************************************************)
Streamed(u) == \E e \in Entries : stream[e].user = u /\ stream[e].id = idOf[u]

AnswerInv ==
    \A u \in Users :
        /\ idOf[u] # 0 => Streamed(u)
        /\ query[u].step # 0 => idOf[u] # 0
        /\ query[u].kind = "mine" /\ query[u].step = 3 /\ query[u].found = {} => SettledOrder(u)
        /\ query[u].step = 4 /\ query[u].found = {} =>
              SettledOrder(u) \/ (query[u].kind = "byId" /\ idOf[u] \in aged)

\* An order that has lost a hint has lost it to a worker that settled it.
LEMMA UnhintedIsSettled ==
    ASSUME UnsettledIsProcessing, NEW u \in Users, idOf[u] # 0, Streamed(u),
           idOf[u] \notin hints \/ idOf[u] \notin accepts
    PROVE  SettledOrder(u)
<1>1. PICK e \in Entries : stream[e].user = u /\ stream[e].id = idOf[u]
  BY DEF Streamed
<1>2. ~IsPoison(stream[e])
  BY <1>1 DEF IsPoison
<1>3. PICK f \in Entries : stream[f] = stream[e] /\ Settled(f)
  BY <1>1, <1>2 DEF UnsettledIsProcessing
<1> QED BY <1>1, <1>3 DEF SettledOrder

\* Steps of the pipeline keep what was given out and what was settled.
LEMMA OrdersKept ==
    ASSUME Inv, [Next]_vars, NEW u \in Users
    PROVE  /\ idOf[u] # 0 => idOf'[u] = idOf[u]
           /\ idOf[u] # 0 /\ Streamed(u) => Streamed(u)'
           /\ idOf[u] = 0 /\ idOf'[u] # 0 => Streamed(u)'
           /\ SettledOrder(u) => SettledOrder(u)'
<1> USE DEF Inv
<1>0. TypeOK
  BY DEF TypeInv
<1>1. idOf[u] # 0 => idOf'[u] = idOf[u]
  <2>1. CASE UNCHANGED idOf
    BY <2>1
  <2>2. CASE \E v \in Users : LuaAccept(v)
    <3> PICK v \in Users : LuaAccept(v)
      BY <2>2
    <3> QED BY <1>0 DEF LuaAccept, Admits, TypeOK
  <2> QED BY <2>1, <2>2, StreamMoves DEF httpVars
<1>2. idOf[u] # 0 /\ Streamed(u) => Streamed(u)'
  BY <1>1, Grows DEF Streamed
<1>3. ASSUME idOf[u] = 0, idOf'[u] # 0 PROVE Streamed(u)'
  <2>1. PICK v \in Users : LuaAccept(v)
    BY <1>3, StreamMoves DEF httpVars
  <2> DEFINE b == [id |-> nextId, user |-> v]
  <2>2. v = u /\ idOf'[u] = nextId
    BY <1>0, <1>3, <2>1 DEF LuaAccept, TypeOK
  <2>3. b \in Body /\ b.user = u /\ b.id = idOf'[u]
    BY <1>0, <2>2 DEF TypeOK, Body
  <2>4. stream' = Append(stream, b)
    BY <2>1 DEF LuaAccept
  <2> HIDE DEF b
  <2>5. Len(stream) + 1 \in Entries' /\ stream'[Len(stream) + 1] = b
    BY <1>0, <2>3, <2>4, StreamAppend, EntryFacts DEF Entries, TypeOK
  <2> QED BY <2>3, <2>5 DEF Streamed
<1>4. SettledOrder(u) => SettledOrder(u)'
  BY Grows DEF SettledOrder
<1> QED BY <1>1, <1>2, <1>3, <1>4

LEMMA AnswerStep == Inv /\ UnsettledIsProcessing /\ TypeOKQ /\ AnswerInv /\ [NextQ]_allVars
                        => AnswerInv'
<1> SUFFICES ASSUME Inv, UnsettledIsProcessing, TypeOKQ, AnswerInv, [NextQ]_allVars
             PROVE  AnswerInv'
  OBVIOUS
<1>1. CASE [Next]_vars /\ UNCHANGED qvars
  BY <1>1, OrdersKept DEF AnswerInv, qvars
<1>2. ASSUME UNCHANGED vars, NEW u \in Users
      PROVE  /\ idOf'[u] = idOf[u] /\ (Streamed(u)' <=> Streamed(u))
             /\ (SettledOrder(u)' <=> SettledOrder(u))
  <2>1. UNCHANGED <<idOf, stream, rows, dead>>
    BY <1>2 DEF vars
  <2> QED BY <2>1 DEF Streamed, SettledOrder, Entries, Settled, Sold, DeadLettered
<1>3. ASSUME NEW i \in accepts, AcceptTtl(i) PROVE AnswerInv'
  <2>1. UNCHANGED <<vars, query>> /\ aged \subseteq aged'
    BY <1>3 DEF AcceptTtl
  <2> QED BY <1>2, <2>1 DEF AnswerInv
<1>4. ASSUME NEW u \in Users, NEW kind \in Kind, Ask(u, kind) PROVE AnswerInv'
  <2>1. \A v \in Users \ {u} : query'[v] = query[v]
    BY <1>4, AskMoves
  <2>3. query'[u] = [kind |-> kind, step |-> 1, found |-> {}]
    BY <1>4, AskMoves
  <2>4. idOf[u] # 0
    BY <1>4, AskMoves
  <2>5. query'[u].step = 1
    BY <2>3
  <2>2. UNCHANGED vars /\ UNCHANGED aged
    BY <1>4 DEF Ask
  <2> QED BY <1>2, <2>1, <2>2, <2>4, <2>5 DEF AnswerInv
<1>5. ASSUME NEW u \in Users, Look(u) PROVE AnswerInv'
  <2>0. UNCHANGED vars /\ UNCHANGED aged
    BY <1>5 DEF Look
  <2>moves.
        /\ query[u].step \in 1..3
        /\ \A v \in Users \ {u} : query'[v] = query[v]
        /\ query'[u].kind = query[u].kind
        /\ query'[u].step =
             IF query[u].step = 3 \/ (Here(u) /\ (query[u].kind = "byId" \/ Place(u) = "SUCCESS"))
             THEN 4 ELSE query[u].step + 1
    BY <1>5, LookMoves
  <2>kinds. query[u].kind \in {"byId", "mine"}
    BY DEF TypeOKQ, Query, Kind
  <2>1. /\ \A v \in Users \ {u} : query'[v] = query[v]
        /\ query[u].step \in {1, 2, 3} /\ query[u].kind \in {"byId", "mine"}
        /\ query'[u].kind = query[u].kind
    BY <2>moves, <2>kinds
  <2>2. idOf[u] # 0 /\ Streamed(u)
    BY <2>1 DEF AnswerInv
  <2>3. query'[u].found = {} => query[u].found = {} /\ ~Here(u)
    BY <1>5, LookMoves
  <2>4. ASSUME query'[u].found = {}, query'[u].kind = "mine", query'[u].step = 3
        PROVE  SettledOrder(u)
    <3>1. query[u].step = 2 /\ query[u].kind = "mine"
      BY <2>moves, <2>1, <2>4
    <3>2. idOf[u] \notin hints
      BY <2>1, <2>3, <2>4, <3>1, PlaceRead DEF Here, Holds
    <3> QED BY <2>2, <3>2, UnhintedIsSettled
  <2>5. ASSUME query'[u].found = {}, query'[u].step = 4
        PROVE  SettledOrder(u) \/ (query'[u].kind = "byId" /\ idOf[u] \in aged)
    <3>1. query[u].step = 3
      BY <2>moves, <2>1, <2>3, <2>5
    <3>2. CASE query[u].kind = "mine"
      BY <2>3, <2>5, <3>1, <3>2 DEF AnswerInv
    <3>3. CASE query[u].kind = "byId"
      <4>1. ~HasKey(idOf[u])
        BY <2>1, <2>3, <2>5, <3>1, <3>3, PlaceRead DEF Here, Holds
      <4> QED BY <2>1, <2>2, <3>3, <4>1, UnhintedIsSettled DEF HasKey
    <3> QED BY <2>1, <3>2, <3>3
  <2>6. ASSUME NEW v \in Users \ {u}
        PROVE  query'[v] = query[v] /\ idOf'[v] = idOf[v]
    BY <1>2, <2>0, <2>1
  <2> QED BY <1>2, <2>0, <2>1, <2>2, <2>4, <2>5, <2>6 DEF AnswerInv
<1> QED BY <1>1, <1>3, <1>4, <1>5 DEF NextQ, allVars

\* "No such order" is only answered for an order whose fate is recorded.
THEOREM MissedIsSettledCorrect == SpecQ => []MissedIsSettled
<1>1. InitQ => AnswerInv
  BY DEF InitQ, Init, AnswerInv, NoQuery
<1>2. AnswerInv => MissedIsSettled
  BY DEF AnswerInv, MissedIsSettled
<1> QED BY <1>1, <1>2, AnswerStep, TypeCorrectQ, PipelineKept, PTL DEF SpecQ

----------------------------------------------------------------------------
(* NeverTakenBack                                                          *)

(***************************************************************************)
(* ToldInv: what was told by id is still so, and a query by id that has    *)
(* passed a place without an answer has not been answered from it before.  *)
(***************************************************************************)
InRows(u) == \E r \in rows : r.id = idOf[u]
InDead(u) == \E d \in dead : stream[d.e].id = idOf[u]

ToldInv ==
    \A u \in Users :
        /\ told[u] # 0 => idOf[u] # 0
        /\ told[u] = 3 => InRows(u)
        /\ told[u] = 2 => InDead(u)
        /\ query[u].kind = "byId" =>
             /\ query[u].step \in 1..3 => query[u].found = {}
             /\ query[u].step \in {2, 3} => told[u] # 3
             /\ query[u].step = 3 => told[u] # 2

\* Rows and dead letters of an order given out stay.
LEMMA FatesKept ==
    ASSUME Inv, [Next]_vars, NEW u \in Users, idOf[u] # 0
    PROVE  /\ idOf'[u] = idOf[u]
           /\ InRows(u) => InRows(u)'
           /\ InDead(u) => InDead(u)'
<1>1. idOf'[u] = idOf[u]
  BY OrdersKept
<1>2. rows \subseteq rows' /\ dead \subseteq dead' /\ \A e \in Entries : stream'[e] = stream[e]
  BY Grows DEF Inv
<1>3. \A d \in dead : d.e \in Entries
  BY DEF Inv, TypeInv, TypeOK
<1> QED BY <1>1, <1>2, <1>3 DEF InRows, InDead

LEMMA ToldStep == Inv /\ TypeOKQ /\ AnswerInv /\ ToldInv /\ [NextQ]_allVars => ToldInv'
<1> SUFFICES ASSUME Inv, TypeOKQ, AnswerInv, ToldInv, [NextQ]_allVars PROVE ToldInv'
  OBVIOUS
<1>1. CASE [Next]_vars /\ UNCHANGED qvars
  BY <1>1, FatesKept DEF ToldInv, qvars
<1>2. ASSUME UNCHANGED vars, NEW u \in Users
      PROVE  /\ idOf'[u] = idOf[u] /\ (InRows(u)' <=> InRows(u)) /\ (InDead(u)' <=> InDead(u))
  BY <1>2 DEF vars, InRows, InDead
<1>3. ASSUME NEW i \in accepts, AcceptTtl(i) PROVE ToldInv'
  <2>1. UNCHANGED vars /\ UNCHANGED <<query, told>>
    BY <1>3 DEF AcceptTtl
  <2> QED BY <1>2, <2>1 DEF ToldInv
<1>4. ASSUME NEW u \in Users, NEW kind \in Kind, Ask(u, kind) PROVE ToldInv'
  <2>1. \A v \in Users \ {u} : query'[v] = query[v]
    BY <1>4, AskMoves
  <2>2. query'[u] = [kind |-> kind, step |-> 1, found |-> {}]
    BY <1>4, AskMoves
  <2>3. UNCHANGED vars /\ UNCHANGED told
    BY <1>4 DEF Ask
  <2> QED BY <1>2, <2>1, <2>2, <2>3 DEF ToldInv
<1>5. ASSUME NEW u \in Users, Look(u) PROVE ToldInv'
  <2>1. UNCHANGED vars
    BY <1>5 DEF Look
  <2>2. /\ query[u].step \in 1..3
        /\ \A v \in Users \ {u} : query'[v] = query[v] /\ told'[v] = told[v]
        /\ query'[u].kind = query[u].kind
    BY <1>5, LookMoves
  <2>3. /\ query'[u].step =
             IF query[u].step = 3 \/ (Here(u) /\ (query[u].kind = "byId" \/ Place(u) = "SUCCESS"))
             THEN 4 ELSE query[u].step + 1
        /\ query'[u].found = IF Here(u) THEN query[u].found \cup {Place(u)} ELSE query[u].found
    BY <1>5, LookMoves
  <2>4. told'[u] = IF Here(u) /\ query[u].kind = "byId" /\ Rank[Place(u)] > told[u]
                   THEN Rank[Place(u)] ELSE told[u]
    BY <1>5, LookMoves
  <2>5. idOf[u] # 0 /\ told[u] \in 0..3 /\ query[u].step \in {1, 2, 3}
    BY <2>2 DEF AnswerInv, TypeOKQ
  <2>6. CASE query[u].kind # "byId"
    <3>1. told'[u] = told[u]
      BY <2>4, <2>6
    <3> QED BY <1>2, <2>1, <2>2, <2>6, <3>1 DEF ToldInv
  <2>7. CASE query[u].kind = "byId" /\ Here(u)
    <3>1. query'[u].step = 4
      BY <2>3, <2>7
    <3>2. CASE Place(u) = "SUCCESS"
      <4>1. InRows(u) /\ told'[u] = 3
        BY <2>4, <2>5, <2>7, <3>2, RankOf DEF Here, Holds, InRows
      <4> QED BY <1>2, <2>1, <2>2, <2>5, <3>1, <4>1 DEF ToldInv
    <3>3. CASE Place(u) = "FAILED"
      <4>1. InDead(u) /\ told'[u] \in {2, told[u]}
        BY <2>4, <2>5, <2>7, <3>3, RankOf DEF Here, Holds, InDead
      <4> QED BY <1>2, <2>1, <2>2, <2>5, <3>1, <4>1 DEF ToldInv
    <3>4. CASE Place(u) = "PROCESSING"
      <4>1. told'[u] \in {1, told[u]}
        BY <2>4, <2>5, <2>7, <3>4, RankOf
      <4> QED BY <1>2, <2>1, <2>2, <2>5, <3>1, <4>1 DEF ToldInv
    <3> QED BY <2>2, <3>2, <3>3, <3>4, PlaceRead DEF Fate
  <2>8. CASE query[u].kind = "byId" /\ ~Here(u)
    <3>1. /\ told'[u] = told[u] /\ query'[u].found = query[u].found
          /\ query'[u].step = query[u].step + 1
      BY <2>3, <2>4, <2>5, <2>8
    <3>2. query[u].step = 1 => ~InRows(u)
      BY <2>2, <2>8, PlaceRead DEF Here, Holds, InRows
    <3>3. query[u].step = 2 => ~InDead(u)
      BY <2>2, <2>8, PlaceRead DEF Here, Holds, InDead
    <3>4. /\ query[u].found = {}
          /\ query[u].step \in {2, 3} => told[u] # 3
          /\ query[u].step = 3 => told[u] # 2
      BY <2>2, <2>8 DEF ToldInv
    <3>5. query[u].step = 1 => told[u] # 3
      BY <3>2 DEF ToldInv
    <3>6. query[u].step = 2 => told[u] # 2
      BY <3>3 DEF ToldInv
    <3> QED BY <1>2, <2>1, <2>2, <2>5, <3>1, <3>4, <3>5, <3>6 DEF ToldInv
  <2> QED BY <2>6, <2>7, <2>8
<1> QED BY <1>1, <1>3, <1>4, <1>5 DEF NextQ, allVars

\* The end of a query is a Look of it; what it answers is no less final than before.
LEMMA NotTakenBack ==
    ASSUME TypeOKQ, ToldInv, [NextQ]_allVars, NEW u \in Users,
           query[u].step # 4, query'[u].step = 4, query[u].kind = "byId",
           NEW fate \in query'[u].found
    PROVE  Rank[fate] >= told[u]
<1>1. Look(u)
  <2>1. CASE UNCHANGED qvars
    BY <2>1 DEF qvars
  <2>2. ASSUME NEW v \in Users, NEW kind \in Kind, Ask(v, kind) PROVE FALSE
    <3>1. \A w \in Users \ {v} : query'[w] = query[w]
      BY <2>2, AskMoves
    <3>2. query'[v] = [kind |-> kind, step |-> 1, found |-> {}]
      BY <2>2, AskMoves
    <3> QED BY <3>1, <3>2
  <2>3. ASSUME NEW v \in Users, Look(v) PROVE v = u
    <3>1. \A w \in Users \ {v} : query'[w] = query[w]
      BY <2>3, LookMoves
    <3> QED BY <3>1
  <2>4. ASSUME NEW i \in accepts, AcceptTtl(i) PROVE FALSE
    BY <2>4 DEF AcceptTtl
  <2> QED BY <2>1, <2>2, <2>3, <2>4 DEF NextQ, allVars
<1>2. /\ query[u].step \in 1..3
      /\ query'[u].found = IF Here(u) THEN query[u].found \cup {Place(u)} ELSE query[u].found
  BY <1>1, LookMoves
<1>3. query[u].found = {}
  BY <1>2 DEF ToldInv
<1>4. fate = Place(u)
  BY <1>2, <1>3
<1>5. told[u] \in {0, 1, 2, 3}
  BY DEF TypeOKQ
<1>6. CASE query[u].step = 1
  BY <1>2, <1>4, <1>5, <1>6, PlaceRead, RankOf
<1>7. CASE query[u].step = 2
  <2>1. told[u] # 3
    BY <1>7 DEF ToldInv
  <2> QED BY <1>2, <1>4, <1>5, <1>7, <2>1, PlaceRead, RankOf
<1>8. CASE query[u].step = 3
  <2>1. told[u] # 3 /\ told[u] # 2
    BY <1>8 DEF ToldInv
  <2> QED BY <1>2, <1>4, <1>5, <1>8, <2>1, PlaceRead, RankOf
<1> QED BY <1>2, <1>6, <1>7, <1>8

\* Asked by id again and again, an order only moves forward.
THEOREM NeverTakenBackCorrect == SpecQ => NeverTakenBack
<1>1. InitQ => AnswerInv /\ ToldInv
  BY DEF InitQ, Init, AnswerInv, ToldInv, NoQuery
<1>2. TypeOKQ /\ ToldInv /\ [NextQ]_allVars =>
        [\A u \in Users :
            query[u].step # 4 /\ query'[u].step = 4 /\ query[u].kind = "byId"
                => \A fate \in query'[u].found : Rank[fate] >= told[u]]_allVars
  BY NotTakenBack
<1> QED BY <1>1, <1>2, AnswerStep, ToldStep, TypeCorrectQ, PipelineKept, PTL
        DEF SpecQ, NeverTakenBack
=============================================================================

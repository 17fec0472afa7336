--------------------------- MODULE SocialProofs ---------------------------
(***************************************************************************)
(* Likes, follows and scrolling for every number of fans and requests: the *)
(* types, the set of common follows, how far likes and their counter drift *)
(* apart, and what a scrolled list may skip and repeat.                    *)
(***************************************************************************)
EXTENDS Social, FiniteSetTheorems, WellFoundedInduction, TLAPS

(***************************************************************************)
(* Inboxes are finite: TypeOK alone lets a page have no last item.  A like *)
(* is somebody's: None is in no set of likers.                             *)
(***************************************************************************)
Named == \A p \in Requests : Liking(p) => req[p].user \in Fans

\* A request has its user, and an answer has items.
GetsInv == \A g \in Gets :
    /\ get[g].step # "none" => get[g].user \in Fans
    /\ get[g].step = "answered" => get[g].items # {} /\ IsFiniteSet(get[g].items)

Typed   == TypeOK /\ GetsInv /\ \A u \in Fans : IsFiniteSet(feed[u])
TypeInv == Typed /\ Named

LEMMA RequestFields ==
    ASSUME NEW r \in Request
    PROVE  /\ \A op \in {"none", "add", "sub", "zadd", "zrem", "save", "sadd", "remove",
                         "srem", "list", "push", "deliver"} : [r EXCEPT !.op = op] \in Request
           /\ r.b \in Nat /\ r.t \in Nat /\ r.todo \subseteq Fans \X Nat
           /\ r.user \in Fans \cup {None}
  BY DEF Request

LEMMA IdleTyped == Idle \in Request
  BY DEF Idle, Request

LEMMA NonemptyMin ==
    ASSUME NEW S \in SUBSET Nat, S # {}
    PROVE  \E t \in S : \A s \in S : t <= s
<1>1. PICK t \in S : \A s \in S : <<s, t>> \notin OpToRel(<, Nat)
  BY NatLessThanWellFounded, WFMin
<1>2. \A s \in S : ~(s < t)
  BY <1>1 DEF OpToRel
<1> QED BY <1>2

LEMMA GotoTyped ==
    ASSUME TypeOK, NEW p \in Requests,
           NEW op \in {"none", "add", "sub", "zadd", "zrem", "save", "sadd", "remove",
                       "srem", "list", "push", "deliver"},
           Goto(p, op)
    PROVE  req' \in [Requests -> Request]
<1>1. req \in [Requests -> Request] /\ req[p] \in Request
  BY DEF TypeOK
<1>2. [req[p] EXCEPT !.op = op] \in Request
  BY <1>1, RequestFields
<1>3. req' = [req EXCEPT ![p] = [req[p] EXCEPT !.op = op]]
  BY DEF Goto
<1> QED BY <1>1, <1>2, <1>3

LEMMA EndTyped ==
    ASSUME TypeOK, NEW p \in Requests, End(p)
    PROVE  req' \in [Requests -> Request]
  BY IdleTyped DEF End, TypeOK

LEMMA ThrowTyped ==
    ASSUME TypeOK, NEW p \in Requests, Throw(p)
    PROVE  req' \in [Requests -> Request] /\ faults' \in Nat
  BY EndTyped DEF Throw, Fault, TypeOK

LEMMA TypeLikes ==
    ASSUME TypeOK, Named, NEW p \in Requests,
           LikeDb(p) \/ LikeRedis(p) \/ \E u \in Fans : LikeStart(p, u)
    PROVE  TypeOK' /\ UNCHANGED <<feed, get>>
<1>1. CASE LikeDb(p)
  <2>1. liked' \in Nat
    BY <1>1 DEF LikeDb, TypeOK
  <2>2. faults' \in Nat
    BY <1>1 DEF LikeDb, TypeOK, Throw, Fault
  <2>3. req' \in [Requests -> Request]
    BY <1>1, GotoTyped, EndTyped, ThrowTyped DEF LikeDb
  <2>4. UNCHANGED <<likes, rows, inSet, blogs, feed, client, get, ops, crossed>>
    BY <1>1 DEF LikeDb, followVars, feedVars, pageVars
  <2> QED BY <2>1, <2>2, <2>3, <2>4 DEF TypeOK
<1>2. CASE LikeRedis(p)
  <2>1. req[p].user \in Fans
    BY <1>2 DEF LikeRedis, Named, Liking
  <2>2. likes' \subseteq Fans
    BY <1>2, <2>1 DEF LikeRedis, TypeOK
  <2>3. req' \in [Requests -> Request]
    BY <1>2, EndTyped, ThrowTyped DEF LikeRedis
  <2>4. faults' \in Nat
    BY <1>2 DEF LikeRedis, TypeOK, Throw, Fault
  <2>5. UNCHANGED <<liked, rows, inSet, blogs, feed, client, get, ops, crossed>>
    BY <1>2 DEF LikeRedis, followVars, feedVars, pageVars
  <2> QED BY <2>2, <2>3, <2>4, <2>5 DEF TypeOK
<1>3. CASE \E u \in Fans : LikeStart(p, u)
  <2> PICK u \in Fans : LikeStart(p, u)
    BY <1>3
  <2> DEFINE r == Ask(u, IF u \in likes THEN "sub" ELSE "add")
  <2>1. r \in Request
    BY DEF Ask, Idle, Request
  <2>2. ops' \in Nat /\ crossed' \in Nat /\ req' = [req EXCEPT ![p] = r]
    BY DEF LikeStart, Begin, TypeOK
  <2>3. UNCHANGED <<liked, likes, rows, inSet, blogs, feed, client, get, faults>>
    BY DEF LikeStart, followVars, feedVars, pageVars, likeVars
  <2> QED BY <2>1, <2>2, <2>3 DEF TypeOK
<1> QED BY <1>1, <1>2, <1>3

LEMMA TypeFollows ==
    ASSUME TypeOK, NEW p \in Requests,
           \/ FollowDb(p) \/ FollowRedis(p)
           \/ \E u \in Fans, op \in {"save", "remove"} : FollowStart(p, u, op)
    PROVE  TypeOK' /\ UNCHANGED <<feed, get>>
<1>1. CASE FollowDb(p)
  <2>1. rows' \in [Fans -> Nat]
    BY <1>1 DEF FollowDb, TypeOK
  <2>2. req' \in [Requests -> Request]
    BY <1>1, GotoTyped, EndTyped, ThrowTyped DEF FollowDb
  <2>3. faults' \in Nat
    BY <1>1 DEF FollowDb, TypeOK, Throw, Fault
  <2>4. UNCHANGED <<liked, likes, inSet, blogs, feed, client, get, ops, crossed>>
    BY <1>1 DEF FollowDb, likeVars, feedVars, pageVars
  <2> QED BY <2>1, <2>2, <2>3, <2>4 DEF TypeOK
<1>2. CASE FollowRedis(p)
  <2>1. inSet' \in [Fans -> BOOLEAN]
    BY <1>2 DEF FollowRedis, Kept, TypeOK
  <2>2. req' \in [Requests -> Request]
    BY <1>2, EndTyped, ThrowTyped DEF FollowRedis
  <2>3. faults' \in Nat
    BY <1>2, ThrowTyped DEF FollowRedis, TypeOK
  <2>4. UNCHANGED <<liked, likes, rows, blogs, feed, client, get, ops, crossed>>
    BY <1>2 DEF FollowRedis, likeVars, feedVars, pageVars
  <2> QED BY <2>1, <2>2, <2>3, <2>4 DEF TypeOK
<1>3. ASSUME NEW u \in Fans, NEW op \in {"save", "remove"}, FollowStart(p, u, op)
      PROVE  TypeOK' /\ UNCHANGED <<feed, get>>
  <2>1. Ask(u, op) \in Request
    BY DEF Ask, Idle, Request
  <2>2. ops' \in Nat /\ req' = [req EXCEPT ![p] = Ask(u, op)]
    BY <1>3 DEF FollowStart, Begin, TypeOK
  <2>3. UNCHANGED <<liked, likes, rows, inSet, blogs, feed, client, get, crossed, faults>>
    BY <1>3 DEF FollowStart, followVars, feedVars, pageVars, likeVars
  <2> QED BY <2>1, <2>2, <2>3 DEF TypeOK
<1> QED BY <1>1, <1>2, <1>3

LEMMA TypePublish ==
    ASSUME Typed, NEW p \in Requests,
           SaveBlog(p) \/ ListFans(p) \/ Stamp(p) \/ Deliver(p)
    PROVE  Typed'
<1>0. /\ TypeOK /\ req \in [Requests -> Request] /\ req[p] \in Request
      /\ feed \in [Fans -> SUBSET Item] /\ client \in [Fans -> Client]
      /\ get \in [Gets -> Get] /\ GetsInv
      /\ \A u \in Fans : IsFiniteSet(feed[u])
  BY DEF Typed, TypeOK
<1>1. CASE SaveBlog(p)
  <2> DEFINE r == [Idle EXCEPT !.op = "list", !.b = blogs + 1]
  <2>1. r \in Request
    <3>1. blogs + 1 \in Nat
      BY <1>0 DEF TypeOK
    <3> QED BY <3>1 DEF Idle, Request
  <2>2. ops' \in Nat /\ blogs' \in Nat /\ req' = [req EXCEPT ![p] = r]
    BY <1>0, <1>1 DEF SaveBlog, Begin, TypeOK
  <2>3. UNCHANGED <<liked, likes, rows, inSet, feed, client, get, crossed, faults>>
    BY <1>1 DEF SaveBlog, followVars, likeVars, pageVars
  <2> HIDE DEF r
  <2> QED BY <1>0, <2>1, <2>2, <2>3 DEF TypeOK, Typed, GetsInv
<1>2. CASE ListFans(p)
  <2> DEFINE todo == {f \in Fans \X (1..MaxOps+1) : f[2] <= rows[f[1]]}
  <2>1. todo \subseteq Fans \X Nat
    BY SocialAssumption
  <2>2. req' \in [Requests -> Request]
    <3>1. CASE req' = [req EXCEPT ![p].op = "push", ![p].todo = todo]
      <4>1. [req[p] EXCEPT !.op = "push", !.todo = todo] \in Request
        BY <1>0, <2>1 DEF Request
      <4> HIDE DEF todo
      <4> QED BY <1>0, <3>1, <4>1
    <3>2. CASE Throw(p)
      BY <1>0, <3>2, ThrowTyped
    <3> QED BY <1>2, <3>1, <3>2 DEF ListFans
  <2>3. faults' \in Nat
    BY <1>0, <1>2 DEF ListFans, TypeOK, Throw, Fault
  <2>4. UNCHANGED <<liked, likes, rows, inSet, blogs, feed, client, get, ops, crossed>>
    BY <1>2 DEF ListFans, likeVars, followVars, feedVars, pageVars
  <2> QED BY <1>0, <2>2, <2>3, <2>4 DEF TypeOK, Typed, GetsInv
<1>3. CASE Stamp(p)
  <2>1. req' \in [Requests -> Request]
    <3>1. ASSUME NEW row \in req[p].todo, NEW now \in Times,
                 req' = [req EXCEPT ![p].op = "deliver", ![p].user = row[1], ![p].t = now,
                                    ![p].todo = @ \ {row}]
          PROVE  req' \in [Requests -> Request]
      <4>1. row \in Fans \X Nat /\ now \in Nat
        BY <1>0, SocialAssumption DEF Request
      <4>2. [req[p] EXCEPT !.op = "deliver", !.user = row[1], !.t = now,
                           !.todo = @ \ {row}] \in Request
        BY <1>0, <4>1 DEF Request
      <4> QED BY <1>0, <3>1, <4>2
    <3>2. CASE End(p)
      BY <1>0, <3>2, EndTyped
    <3> QED BY <1>3, <3>1, <3>2 DEF Stamp
  <2>2. UNCHANGED <<liked, likes, rows, inSet, blogs, feed, client, get, ops, crossed, faults>>
    BY <1>3 DEF Stamp, likeVars, followVars, feedVars, pageVars
  <2> QED BY <1>0, <2>1, <2>2 DEF TypeOK, Typed, GetsInv
<1>4. CASE Deliver(p)
  <2> DEFINE u    == req[p].user
             item == [b |-> req[p].b, t |-> req[p].t]
             kept == {i \in feed[u] : i.b # item.b}
             x    == Upset(feed[u], item)
  <2>1. item \in Item /\ x \subseteq {"moved", "tied"}
    BY <1>0 DEF Request, Item, Upset
  <2>2. /\ feed' \in [Fans -> SUBSET Item] /\ client' \in [Fans -> Client]
        /\ \A v \in Fans : IsFiniteSet(feed'[v])
        /\ get' \in [Gets -> Get] /\ GetsInv'
    <3>1. CASE /\ feed' = [feed EXCEPT ![u] = kept \cup {item}]
               /\ client' = [client EXCEPT ![u].amiss = @ \cup x]
               /\ get' = [g \in Gets |-> IF get[g].user = u /\ get[g].step = "answered"
                            THEN [get[g] EXCEPT !.amiss = @ \cup x] ELSE get[g]]
      <4>1. ASSUME u \in Fans PROVE IsFiniteSet(kept \cup {item}) /\ kept \cup {item} \subseteq Item
        <5>1. kept \subseteq feed[u] /\ kept \subseteq Item
          BY <1>0, <4>1
        <5>2. IsFiniteSet(kept)
          BY <1>0, <4>1, <5>1, FS_Subset
        <5> QED BY <2>1, <5>1, <5>2, FS_AddElement
      <4> HIDE DEF kept, item, x
      <4>2. ASSUME u \in Fans PROVE [client[u] EXCEPT !.amiss = @ \cup x] \in Client
        BY <1>0, <2>1, <4>2 DEF Client
      <4>3. ASSUME NEW g \in Gets
            PROVE  /\ get'[g] \in Get
                   /\ get'[g].step = get[g].step /\ get'[g].user = get[g].user
                   /\ get'[g].items = get[g].items
        <5>1. get[g] \in Get
          BY <1>0
        <5>2. /\ [get[g] EXCEPT !.amiss = @ \cup x] \in Get
              /\ [get[g] EXCEPT !.amiss = @ \cup x].step = get[g].step
              /\ [get[g] EXCEPT !.amiss = @ \cup x].user = get[g].user
              /\ [get[g] EXCEPT !.amiss = @ \cup x].items = get[g].items
          BY <2>1, <5>1 DEF Get
        <5>3. get'[g] = IF get[g].user = u /\ get[g].step = "answered"
                        THEN [get[g] EXCEPT !.amiss = @ \cup x] ELSE get[g]
          BY <3>1
        <5> QED BY <5>1, <5>2, <5>3
      <4>4. \E f : get' = [g \in Gets |-> f[g]]
        <5>1. get' = [g \in Gets |-> get'[g]]
          BY <3>1
        <5> QED BY <5>1
      <4>5. get' \in [Gets -> Get]
        BY <4>3, <4>4
      <4>6. GetsInv'
        BY <4>3 DEF GetsInv, Typed
      <4>7. feed' \in [Fans -> SUBSET Item] /\ \A v \in Fans : IsFiniteSet(feed'[v])
        <5> HIDE DEF u
        <5> QED BY <1>0, <3>1, <4>1
      <4>8. client' \in [Fans -> Client]
        <5> HIDE DEF u
        <5> QED BY <1>0, <3>1, <4>2
      <4> QED BY <4>5, <4>6, <4>7, <4>8
    <3>2. CASE UNCHANGED <<feed, pageVars>>
      BY <1>0, <3>2 DEF pageVars, GetsInv
    <3> QED BY <1>4, <3>1, <3>2 DEF Deliver
  <2>3. req' \in [Requests -> Request]
    <3>1. CASE req' = [req EXCEPT ![p].op = "push", ![p].user = None, ![p].t = 0]
      <4>1. [req[p] EXCEPT !.op = "push", !.user = None, !.t = 0] \in Request
        BY <1>0 DEF Request
      <4> QED BY <1>0, <3>1, <4>1
    <3>2. CASE Throw(p)
      BY <1>0, <3>2, ThrowTyped
    <3> QED BY <1>4, <3>1, <3>2 DEF Deliver
  <2>4. faults' \in Nat
    BY <1>0, <1>4 DEF Deliver, TypeOK, Throw, Fault
  <2>5. UNCHANGED <<liked, likes, rows, inSet, blogs, ops, crossed>>
    BY <1>4 DEF Deliver, likeVars, followVars
  <2> HIDE DEF u, item, kept, x
  <2> QED BY <1>0, <2>2, <2>3, <2>4, <2>5 DEF TypeOK, Typed
<1> QED BY <1>1, <1>2, <1>3, <1>4

\* A page that is not empty has a last time and counts items of it.
LEMMA PageTyped ==
    ASSUME NEW items \in SUBSET Item, items # {}, IsFiniteSet(items)
    PROVE  /\ MinTime(items) \in Nat /\ Offset(items) \in Nat /\ Offset(items) > 0
           /\ \A i \in items : MinTime(items) <= i.t
           /\ \E i \in items : i.t = MinTime(items)
           /\ Names(items) \subseteq Nat
<1> DEFINE times == {i.t : i \in items}
<1>1. times \in SUBSET Nat /\ times # {}
  BY DEF Item
<1>2. \E t \in times : \A s \in times : t <= s
  BY <1>1, NonemptyMin
<1>3. \E t \in times : \A j \in items : t <= j.t
  BY <1>2
<1>4. MinTime(items) \in times /\ \A j \in items : MinTime(items) <= j.t
  BY <1>3 DEF MinTime
<1>5. PICK i \in items : i.t = MinTime(items)
  BY <1>4
<1> DEFINE last == {j \in items : j.t = MinTime(items)}
<1>6. IsFiniteSet(last) /\ i \in last
  BY <1>5, FS_Subset
<1>7. Cardinality(last) \in Nat /\ Cardinality(last) # 0
  BY <1>6, FS_CardinalityType, FS_EmptySet
<1>8. Names(items) \subseteq Nat
  BY DEF Names, Item
<1> QED BY <1>1, <1>4, <1>5, <1>7, <1>8 DEF Offset

LEMMA ShownTyped ==
    ASSUME NEW c \in Client, NEW q \in Get, q.items # {}, IsFiniteSet(q.items)
    PROVE  Shown(c, q) \in Client
<1>1. q.items \in SUBSET Item /\ q.due \in SUBSET Item /\ q.amiss \subseteq {"moved", "tied"}
      /\ q.list \in {"same", "grown", "replaced"}
  BY DEF Get
<1>2. /\ MinTime(q.items) \in Nat /\ Offset(q.items) \in Nat /\ Names(q.items) \subseteq Nat
  BY <1>1, PageTyped
<1>3. (CASE q.list = "same" -> {} [] q.list = "grown" -> {"doubled"}
         [] q.list = "replaced" -> {"mixed"}) \subseteq {"doubled", "mixed"}
  BY <1>1
<1> QED BY <1>1, <1>2, <1>3, ZenonT(30) DEF Shown, Client

\* What the steps of the page are, one field at a time.
LEMMA TypeScroll ==
    ASSUME Typed, NEW g \in Gets,
           \/ \E u \in Readers, now \in Times : Refresh(g, u, now) \/ Scroll(g, u, now)
           \/ Answer(g) \/ Apply(g) \/ Lose(g)
    PROVE  Typed' /\ UNCHANGED req
<1>0. /\ feed \in [Fans -> SUBSET Item] /\ \A u \in Fans : IsFiniteSet(feed[u])
      /\ client \in [Fans -> Client] /\ get \in [Gets -> Get] /\ get[g] \in Get
      /\ Readers \subseteq Fans /\ Times \subseteq Nat
  BY SocialAssumption DEF Typed, TypeOK
<1>1. /\ UNCHANGED <<liked, likes, rows, inSet, blogs, feed, req, ops, crossed>>
      /\ faults' \in Nat
  <2>1. faults \in Nat
    BY DEF Typed, TypeOK
  <2>2. CASE \E u \in Readers, now \in Times : Refresh(g, u, now) \/ Scroll(g, u, now)
    BY <2>1, <2>2 DEF Refresh, Scroll, likeVars, followVars, feedVars
  <2>3. CASE Answer(g) \/ Apply(g) \/ Lose(g)
    BY <2>1, <2>3 DEF Answer, Apply, Lose, Fault, likeVars, followVars, feedVars
  <2> QED BY <2>2, <2>3
<1>2. NoGet \in Get /\ NoGet.step = "none"
  BY DEF NoGet, Get
<1>3. client' \in [Fans -> Client] /\ get' \in [Gets -> Get] /\ GetsInv'
  <2>1. ASSUME NEW u \in Readers, NEW now \in Times, Refresh(g, u, now)
        PROVE  client' \in [Fans -> Client] /\ get' \in [Gets -> Get] /\ GetsInv'
    <3> DEFINE q == [[NoGet EXCEPT !.clear = TRUE, !.max = now + 1] EXCEPT !.step = "sent", !.user = u]
               c == [client[u] EXCEPT !.max = now + 1, !.os = 0]
    <3>0. u \in Fans /\ now + 1 \in Nat /\ client[u] \in Client
      BY <1>0
    <3>1. q \in Get /\ q.step = "sent" /\ q.user = u
      BY <3>0 DEF NoGet, Get
    <3>2. c \in Client
      BY <3>0 DEF Client
    <3>3. get' = [get EXCEPT ![g] = q] /\ client' = [client EXCEPT ![u] = c]
      BY <2>1 DEF Refresh, SendGet
    <3> HIDE DEF q, c
    <3>4. client' \in [Fans -> Client] /\ get' \in [Gets -> Get]
      BY <1>0, <3>1, <3>2, <3>3
    <3>5. GetsInv'
      BY <1>0, <3>1, <3>3 DEF GetsInv, Typed
    <3> QED BY <3>4, <3>5
  <2>2. ASSUME NEW u \in Readers, NEW now \in Times, Scroll(g, u, now)
        PROVE  client' \in [Fans -> Client] /\ get' \in [Gets -> Get] /\ GetsInv'
    <3> DEFINE l == IF client[u].os = 0 /\ client[u].seen # {} THEN "replaced" ELSE NoGet.list
               m == IF client[u].max = 0 THEN now + 1 ELSE client[u].max
               q == [[NoGet EXCEPT !.max = m, !.os = client[u].os, !.list = l]
                        EXCEPT !.step = "sent", !.user = u]
    <3>1. m \in Nat /\ client[u].os \in Nat /\ l \in {"same", "replaced"}
      BY <1>0 DEF Client, NoGet
    <3>2. get' = [get EXCEPT ![g] = q] /\ client' = client
      BY <2>2 DEF Scroll, SendGet
    <3> HIDE DEF l, m
    <3>3. q \in Get /\ q.step = "sent" /\ q.user = u
      BY <1>0, <3>1 DEF NoGet, Get
    <3> HIDE DEF q
    <3>4. client' \in [Fans -> Client] /\ get' \in [Gets -> Get]
      BY <1>0, <3>2, <3>3
    <3>5. GetsInv'
      BY <1>0, <3>2, <3>3 DEF GetsInv, Typed
    <3> QED BY <3>4, <3>5
  <2>3. CASE Answer(g)
    <3> DEFINE q     == get[g]
               inbox == feed[q.user]
               items == PageOf(inbox, q.max, q.os)
               due   == IF q.os = 0 THEN UpTo(inbox, q.max) \ items ELSE {}
               amiss == IF q.os > 0 /\ MinTime(items) = q.max THEN {"tied"} ELSE {}
               a     == [q EXCEPT !.step = "answered", !.items = items, !.max = 0, !.os = 0,
                                  !.due = due, !.amiss = amiss]
               new   == IF items = {} THEN NoGet ELSE a
    <3>1. q.user \in Fans /\ q \in Get
      BY <1>0, <2>3 DEF Answer, Typed, GetsInv
    <3>2. items \subseteq inbox /\ items \subseteq Item /\ IsFiniteSet(items) /\ due \subseteq Item
          /\ amiss \subseteq {"moved", "tied"}
      <4>1. items \subseteq inbox /\ due \subseteq inbox
        BY DEF PageOf, UpTo
      <4> HIDE DEF items, due
      <4> QED BY <1>0, <3>1, <4>1, FS_Subset
    <3>3. get' = [get EXCEPT ![g] = new] /\ client' = client
      BY <2>3 DEF Answer
    <3> HIDE DEF items, due, amiss
    <3>4. a \in Get /\ a.step = "answered" /\ a.user = q.user /\ a.items = items
      BY <3>1, <3>2 DEF Get
    <3> HIDE DEF a
    <3>5. /\ new \in Get
          /\ new.step # "none" => new.user \in Fans
          /\ new.step = "answered" => new.items # {} /\ IsFiniteSet(new.items)
      BY <1>2, <3>1, <3>2, <3>4
    <3> HIDE DEF new
    <3>6. get' \in [Gets -> Get] /\ \A h \in Gets : get'[h] = IF h = g THEN new ELSE get[h]
      BY <1>0, <3>3, <3>5
    <3>7. GetsInv'
      BY <3>5, <3>6 DEF GetsInv, Typed
    <3> QED BY <1>0, <3>3, <3>6, <3>7
  <2>4. CASE Apply(g)
    <3> DEFINE q == get[g]
               u == q.user
    <3>1. /\ u \in Fans /\ q \in Get /\ q.items # {} /\ IsFiniteSet(q.items)
      BY <1>0, <2>4 DEF Apply, Typed, GetsInv
    <3>2. client' \in [Fans -> Client]
      <4>1. client' = [client EXCEPT ![u] = Shown(client[u], q)]
        BY <2>4 DEF Apply
      <4>2. Shown(client[u], q) \in Client
        BY <1>0, <3>1, ShownTyped
      <4> HIDE DEF q, u
      <4> QED BY <1>0, <4>1, <4>2
    <3>3. ASSUME NEW h \in Gets
          PROVE  /\ get'[h] \in Get
                 /\ \/ get'[h] = NoGet
                    \/ /\ get'[h].step = get[h].step /\ get'[h].user = get[h].user
                       /\ get'[h].items = get[h].items
      <4> DEFINE l == Behind(get[h], Begins(q))
      <4>1. get'[h] = IF h = g THEN NoGet
                      ELSE IF get[h].user = u THEN [get[h] EXCEPT !.list = l] ELSE get[h]
        BY <2>4 DEF Apply
      <4>2. get[h] \in Get /\ l \in {"same", "grown", "replaced"}
        BY <1>0 DEF Behind, Get
      <4> HIDE DEF l
      <4>3. /\ [get[h] EXCEPT !.list = l] \in Get
            /\ [get[h] EXCEPT !.list = l].step = get[h].step
            /\ [get[h] EXCEPT !.list = l].user = get[h].user
            /\ [get[h] EXCEPT !.list = l].items = get[h].items
        BY <4>2 DEF Get
      <4> QED BY <1>2, <4>1, <4>2, <4>3
    <3>4. \E f : get' = [h \in Gets |-> f[h]]
      <4>1. get' = [h \in Gets |-> get'[h]]
        BY <2>4 DEF Apply
      <4> QED BY <4>1
    <3>5. get' \in [Gets -> Get]
      BY <3>3, <3>4
    <3>6. GetsInv'
      BY <1>2, <3>3 DEF GetsInv, Typed
    <3> QED BY <3>2, <3>5, <3>6
  <2>5. CASE Lose(g)
    <3>1. get' = [get EXCEPT ![g] = NoGet] /\ client' = client
      BY <2>5 DEF Lose
    <3>2. get' \in [Gets -> Get] /\ \A h \in Gets : get'[h] = IF h = g THEN NoGet ELSE get[h]
      BY <1>0, <1>2, <3>1
    <3> QED BY <1>0, <1>2, <3>1, <3>2 DEF GetsInv, Typed
  <2> QED BY <2>1, <2>2, <2>3, <2>4, <2>5
<1> QED BY <1>0, <1>1, <1>3 DEF Typed, TypeOK

LEMMA TypeInit == Init => TypeInv
<1> SUFFICES ASSUME Init PROVE TypeInv
  OBVIOUS
<1>1. IsFiniteSet(Early) /\ Early \subseteq Item
  <2>1. IsFiniteSet(1..Backlog)
    BY FS_Interval, SocialAssumption
  <2>2. IsFiniteSet(Early)
    <3> DEFINE f == [i \in 1..Backlog |-> [b |-> i, t |-> 2 * i]]
    <3>1. f \in Surjection(1..Backlog, Early)
      BY DEF Surjection, Early
    <3> QED BY <2>1, <3>1, FS_Surjection
  <2> QED BY <2>2, SocialAssumption DEF Early, Item
<1>2. /\ feed \in [Fans -> SUBSET Item] /\ \A u \in Fans : IsFiniteSet(feed[u])
  BY <1>1, FS_EmptySet DEF Init
<1>3. req \in [Requests -> Request]
  BY IdleTyped DEF Init
<1>4. client \in [Fans -> Client] /\ get \in [Gets -> Get] /\ GetsInv
  BY DEF Init, NoList, Client, NoGet, Get, GetsInv
<1>5. /\ liked \in Nat /\ likes \subseteq Fans /\ rows \in [Fans -> Nat]
      /\ inSet \in [Fans -> BOOLEAN] /\ blogs \in Nat
      /\ ops \in Nat /\ crossed \in Nat /\ faults \in Nat
  BY SocialAssumption, FS_Subset, FS_CardinalityType DEF Init
<1>6. Named
  BY DEF Init, Named, Liking, Idle
<1> QED BY <1>2, <1>3, <1>4, <1>5, <1>6 DEF TypeInv, Typed, TypeOK

LEMMA TypedStep == TypeInv /\ [Next]_vars => Typed'
<1> SUFFICES ASSUME TypeInv, [Next]_vars PROVE Typed'
  OBVIOUS
<1>1. ASSUME NEW p \in Requests, Serve(p) PROVE Typed'
  <2>1. CASE LikeDb(p) \/ LikeRedis(p) \/ \E u \in Fans : LikeStart(p, u)
    BY <2>1, TypeLikes DEF TypeInv, Typed, GetsInv
  <2>2. CASE \/ FollowDb(p) \/ FollowRedis(p)
             \/ \E u \in Fans, op \in {"save", "remove"} : FollowStart(p, u, op)
    BY <2>2, TypeFollows DEF TypeInv, Typed, GetsInv
  <2>3. CASE SaveBlog(p) \/ ListFans(p) \/ Stamp(p) \/ Deliver(p)
    BY <2>3, TypePublish DEF TypeInv
  <2> QED BY <1>1, <2>1, <2>2, <2>3 DEF Serve
<1>2. ASSUME NEW g \in Gets,
             \/ \E u \in Readers, now \in Times : Refresh(g, u, now) \/ Scroll(g, u, now)
             \/ Answer(g) \/ Apply(g) \/ Lose(g)
      PROVE  Typed'
  BY <1>2, TypeScroll DEF TypeInv
<1>3. CASE UNCHANGED vars
  BY <1>3 DEF vars, TypeInv, Typed, TypeOK, GetsInv, likeVars, followVars, feedVars, pageVars
<1> QED BY <1>1, <1>2, <1>3 DEF Next

----------------------------------------------------------------------------
(* How the steps move the requests                                         *)

Others(p) == \A q \in Requests \ {p} : req'[q] = req[q]

LikeOps == {"add", "sub", "zadd", "zrem"}

LEMMA GotoMoves ==
    ASSUME TypeOK, NEW p \in Requests, NEW op, Goto(p, op)
    PROVE  /\ Others(p)
           /\ req'[p].op = op
           /\ req'[p].user = req[p].user
  BY DEF Goto, Others, TypeOK, Request

LEMMA EndMoves ==
    ASSUME TypeOK, NEW p \in Requests, End(p)
    PROVE  Others(p) /\ req'[p] = Idle
  BY DEF End, Others, TypeOK

LEMMA ThrowMoves ==
    ASSUME TypeOK, NEW p \in Requests, Throw(p)
    PROVE  Others(p) /\ req'[p] = Idle /\ faults' = faults + 1
  BY EndMoves DEF Throw, Fault

LEMMA BeginMoves ==
    ASSUME TypeOK, NEW p \in Requests, NEW r, Begin(p, r)
    PROVE  Others(p) /\ req[p] = Idle /\ req'[p] = r
  BY DEF Begin, Others, TypeOK

\* Publishing and following have nothing to do with likes.
LEMMA ElsewhereMoves ==
    ASSUME TypeOK, NEW p \in Requests,
           \/ FollowDb(p) \/ FollowRedis(p)
           \/ \E u \in Fans, op \in {"save", "remove"} : FollowStart(p, u, op)
           \/ SaveBlog(p) \/ ListFans(p) \/ Stamp(p) \/ Deliver(p)
    PROVE  /\ Others(p)
           /\ req[p].op \notin LikeOps /\ req'[p].op \notin LikeOps
           /\ UNCHANGED <<liked, likes, crossed>>
           /\ faults' \in {faults, faults + 1}
<1> USE DEF LikeOps
<1>1. CASE FollowDb(p)
  <2>1. Others(p) /\ req'[p].op \notin LikeOps /\ faults' \in {faults, faults + 1}
    BY <1>1, GotoMoves, EndMoves, ThrowMoves DEF FollowDb, Idle
  <2> QED BY <1>1, <2>1 DEF FollowDb, likeVars
<1>2. CASE FollowRedis(p)
  <2>1. Others(p) /\ req'[p].op \notin LikeOps /\ faults' \in {faults, faults + 1}
    <3>1. CASE Throw(p)
      BY <3>1, ThrowMoves DEF Idle
    <3>2. CASE ~Throw(p)
      <4>1. End(p) /\ UNCHANGED faults
        BY <1>2, <3>2 DEF FollowRedis
      <4> QED BY <4>1, EndMoves DEF Idle
    <3> QED BY <3>1, <3>2
  <2> QED BY <1>2, <2>1 DEF FollowRedis, likeVars
<1>3. ASSUME NEW u \in Fans, NEW op \in {"save", "remove"}, FollowStart(p, u, op)
      PROVE  /\ Others(p)
             /\ req[p].op \notin LikeOps /\ req'[p].op \notin LikeOps
             /\ UNCHANGED <<liked, likes, crossed>>
             /\ faults' \in {faults, faults + 1}
  <2>1. Others(p) /\ req[p] = Idle /\ req'[p] = Ask(u, op)
    BY <1>3, BeginMoves DEF FollowStart
  <2>2. req[p].op = "none" /\ req'[p].op = op
    BY <2>1 DEF Ask, Idle
  <2>3. UNCHANGED <<liked, likes, crossed, faults>>
    BY <1>3 DEF FollowStart, likeVars
  <2> QED BY <2>1, <2>2, <2>3
<1>4. CASE SaveBlog(p)
  <2>1. Others(p) /\ req[p] = Idle /\ req'[p] = [Idle EXCEPT !.op = "list", !.b = blogs + 1]
    BY <1>4, BeginMoves DEF SaveBlog
  <2> QED BY <1>4, <2>1 DEF SaveBlog, likeVars, Idle
<1>5. CASE ListFans(p)
  <2>1. Others(p) /\ req'[p].op \notin LikeOps /\ faults' \in {faults, faults + 1}
    <3>1. CASE Throw(p)
      BY <3>1, ThrowMoves DEF Idle
    <3>2. CASE ~Throw(p)
      BY <1>5, <3>2 DEF ListFans, Others, TypeOK, Request
    <3> QED BY <3>1, <3>2
  <2> QED BY <1>5, <2>1 DEF ListFans, likeVars
<1>6. CASE Stamp(p)
  <2>1. Others(p) /\ req'[p].op \notin LikeOps
    <3>1. CASE End(p)
      BY <3>1, EndMoves DEF Idle
    <3>2. CASE ~End(p)
      <4>1. PICK row \in req[p].todo, now \in Times :
              req' = [req EXCEPT ![p].op = "deliver", ![p].user = row[1], ![p].t = now,
                                 ![p].todo = @ \ {row}]
        BY <1>6, <3>2 DEF Stamp
      <4>2. Others(p)
        BY <4>1 DEF Others, TypeOK
      <4>3. req'[p].op = "deliver"
        BY <4>1 DEF TypeOK, Request
      <4> QED BY <4>2, <4>3
    <3> QED BY <3>1, <3>2
  <2> QED BY <1>6, <2>1 DEF Stamp, likeVars
<1>7. CASE Deliver(p)
  <2>1. Others(p) /\ req'[p].op \notin LikeOps /\ faults' \in {faults, faults + 1}
    <3>1. CASE Throw(p)
      BY <3>1, ThrowMoves DEF Idle
    <3>2. CASE ~Throw(p)
      BY <1>7, <3>2 DEF Deliver, Others, TypeOK, Request
    <3> QED BY <3>1, <3>2
  <2> QED BY <1>7, <2>1 DEF Deliver, likeVars
<1> QED BY <1>1, <1>2, <1>3, <1>4, <1>5, <1>6, <1>7

LEMMA StartMoves ==
    ASSUME TypeOK, NEW p \in Requests, NEW u \in Fans, LikeStart(p, u)
    PROVE  /\ Others(p)
           /\ req[p].op \notin LikeOps
           /\ req'[p].op = (IF u \in likes THEN "sub" ELSE "add")
           /\ req'[p].user = u
           /\ UNCHANGED <<liked, likes, faults>>
           /\ crossed' = IF LikesOf(u) = {} THEN crossed ELSE crossed + 1
<1>1. Others(p) /\ req[p] = Idle /\ req'[p] = Ask(u, IF u \in likes THEN "sub" ELSE "add")
  BY BeginMoves DEF LikeStart
<1> QED BY <1>1 DEF LikeStart, likeVars, Ask, Idle, LikeOps

LEMMA LikeDbMoves ==
    ASSUME TypeOK, NEW p \in Requests, LikeDb(p)
    PROVE  /\ Others(p)
           /\ UNCHANGED <<likes, crossed>>
           /\ \/ /\ \/ req[p].op = "add" /\ liked' = liked + 1 /\ req'[p].op = "zadd"
                    \/ req[p].op = "sub" /\ liked' = liked - 1 /\ req'[p].op = "zrem"
                 /\ req'[p].user = req[p].user
                 /\ UNCHANGED faults
              \/ req[p].op \in {"add", "sub"} /\ req'[p] = Idle /\ UNCHANGED <<liked, faults>>
              \/ /\ req[p].op \in {"add", "sub"} /\ req'[p] = Idle
                 /\ faults' = faults + 1 /\ liked' \in {liked - 1, liked, liked + 1}
<1>1. UNCHANGED <<likes, crossed>> /\ req[p].op \in {"add", "sub"}
  BY DEF LikeDb
<1>2. CASE Throw(p)
  <2>1. Others(p) /\ req'[p] = Idle /\ faults' = faults + 1
    BY <1>2, ThrowMoves
  <2>2. faults' # faults
    BY <2>1 DEF TypeOK
  <2>3. liked' \in {liked - 1, liked, liked + 1}
    BY <2>2 DEF LikeDb
  <2> QED BY <1>1, <2>1, <2>3
<1>3. CASE ~Throw(p) /\ End(p) /\ UNCHANGED <<liked, faults>>
  BY <1>1, <1>3, EndMoves
<1>4. CASE /\ liked' = (IF req[p].op = "add" THEN liked + 1 ELSE liked - 1)
           /\ Goto(p, IF req[p].op = "add" THEN "zadd" ELSE "zrem")
           /\ UNCHANGED faults
  BY <1>1, <1>4, GotoMoves
<1> QED BY <1>2, <1>3, <1>4 DEF LikeDb

LEMMA LikeRedisMoves ==
    ASSUME TypeOK, NEW p \in Requests, LikeRedis(p)
    PROVE  /\ Others(p) /\ req'[p] = Idle
           /\ UNCHANGED <<liked, crossed>>
           /\ LET after == IF req[p].op = "zadd" THEN likes \cup {req[p].user}
                                                 ELSE likes \ {req[p].user}
              IN  \/ likes' = after /\ UNCHANGED faults
                  \/ faults' = faults + 1 /\ likes' \in {likes, after}
           /\ req[p].op \in {"zadd", "zrem"}
<1>1. CASE Throw(p)
  BY <1>1, ThrowMoves DEF LikeRedis
<1>2. CASE ~Throw(p)
  BY <1>2, EndMoves DEF LikeRedis
<1> QED BY <1>1, <1>2

LEMMA NamedStep == TypeInv /\ [Next]_vars => Named'
<1> SUFFICES ASSUME TypeInv, [Next]_vars PROVE Named'
  OBVIOUS
<1>0. TypeOK /\ Named
  BY DEF TypeInv, Typed
<1>1. ASSUME NEW p \in Requests, Serve(p) PROVE Named'
  <2>1. CASE LikeDb(p)
    BY <1>0, <2>1, LikeDbMoves DEF Named, Others, Liking, Idle
  <2>2. CASE LikeRedis(p)
    BY <1>0, <2>2, LikeRedisMoves DEF Named, Others, Liking, Idle
  <2>3. ASSUME NEW u \in Fans, LikeStart(p, u) PROVE Named'
    BY <1>0, <2>3, StartMoves DEF Named, Others, Liking
  <2>4. CASE \/ FollowDb(p) \/ FollowRedis(p)
             \/ \E u \in Fans, op \in {"save", "remove"} : FollowStart(p, u, op)
             \/ SaveBlog(p) \/ ListFans(p) \/ Stamp(p) \/ Deliver(p)
    BY <1>0, <2>4, ElsewhereMoves DEF Named, Others, Liking, LikeOps
  <2> QED BY <1>1, <2>1, <2>2, <2>3, <2>4 DEF Serve
<1>2. CASE UNCHANGED req
  BY <1>0, <1>2 DEF Named, Liking
<1> QED BY <1>1, <1>2 DEF Next, Refresh, Scroll, Answer, Apply, Lose, vars

LEMMA TypeInvAlways == Spec => []TypeInv
<1>1. TypeInv /\ [Next]_vars => TypeInv'
  BY TypedStep, NamedStep DEF TypeInv
<1> QED BY <1>1, TypeInit, PTL DEF Spec

\* Every variable keeps its type, whatever the constants are.
THEOREM TypeCorrect == Spec => []TypeOK
<1>1. Spec => []TypeInv
  BY TypeInvAlways, PTL
<1>2. TypeInv => TypeOK
  BY DEF TypeInv, Typed
<1> QED BY <1>1, <1>2, PTL

----------------------------------------------------------------------------
(* FollowedIsShared                                                        *)

(***************************************************************************)
(* ShareInv: as long as no call failed, a row has its member or a follow   *)
(* is about to add it.                                                     *)
(***************************************************************************)
Adding(u) == \E p \in Requests : req[p].op = "sadd" /\ req[p].user = u

ShareInv == faults = 0 => \A u \in Fans : rows[u] > 0 => inSet[u] \/ Adding(u)

\* Only a follow touches the rows and the set; every other step keeps the follows.
LEMMA FollowsKept ==
    ASSUME TypeOK, NEW p \in Requests,
           \/ LikeDb(p) \/ LikeRedis(p) \/ \E u \in Fans : LikeStart(p, u)
           \/ \E u \in Fans, op \in {"save", "remove"} : FollowStart(p, u, op)
           \/ SaveBlog(p) \/ ListFans(p) \/ Stamp(p) \/ Deliver(p)
    PROVE  /\ UNCHANGED <<rows, inSet>> /\ faults' \in {faults, faults + 1}
           /\ Others(p) /\ req[p].op # "sadd"
<1>1. CASE LikeDb(p)
  BY <1>1, LikeDbMoves DEF LikeDb, followVars
<1>2. CASE LikeRedis(p)
  BY <1>2, LikeRedisMoves DEF LikeRedis, followVars
<1>3. ASSUME NEW u \in Fans, LikeStart(p, u)
      PROVE  /\ UNCHANGED <<rows, inSet, faults>>
             /\ Others(p) /\ req[p].op # "sadd"
  <2>1. Others(p) /\ req[p] = Idle
    BY <1>3, BeginMoves DEF LikeStart
  <2>2. req[p].op # "sadd"
    BY <2>1 DEF Idle
  <2> QED BY <1>3, <2>1, <2>2 DEF LikeStart, followVars
<1>4. ASSUME NEW u \in Fans, NEW op \in {"save", "remove"}, FollowStart(p, u, op)
      PROVE  /\ UNCHANGED <<rows, inSet, faults>>
             /\ Others(p) /\ req[p].op # "sadd"
  <2>1. Others(p) /\ req[p] = Idle
    BY <1>4, BeginMoves DEF FollowStart
  <2>2. req[p].op # "sadd"
    BY <2>1 DEF Idle
  <2> QED BY <1>4, <2>1, <2>2 DEF FollowStart, followVars
<1>5. CASE SaveBlog(p)
  <2>1. req[p] = Idle
    BY <1>5, BeginMoves DEF SaveBlog
  <2>2. req[p].op # "sadd"
    BY <2>1 DEF Idle
  <2> QED BY <1>5, <2>2, ElsewhereMoves DEF SaveBlog, followVars
<1>6. CASE ListFans(p)
  BY <1>6, ElsewhereMoves DEF ListFans, followVars
<1>7. CASE Stamp(p)
  BY <1>7, ElsewhereMoves DEF Stamp, followVars
<1>8. CASE Deliver(p)
  BY <1>8, ElsewhereMoves DEF Deliver, followVars
<1> QED BY <1>1, <1>2, <1>3, <1>4, <1>5, <1>6, <1>7, <1>8

LEMMA ShareStep == TypeInv /\ ShareInv /\ [Next]_vars => ShareInv'
<1> SUFFICES ASSUME TypeInv, ShareInv, [Next]_vars, faults' = 0
             PROVE  \A u \in Fans : rows'[u] > 0 => inSet'[u] \/ Adding(u)'
  BY DEF ShareInv
<1>0. TypeOK /\ faults \in Nat /\ rows \in [Fans -> Nat] /\ inSet \in [Fans -> BOOLEAN]
  BY DEF TypeInv, Typed, TypeOK
<1>1. ASSUME NEW p \in Requests, Serve(p)
      PROVE  \A u \in Fans : rows'[u] > 0 => inSet'[u] \/ Adding(u)'
  <2>1. CASE \/ LikeDb(p) \/ LikeRedis(p) \/ \E u \in Fans : LikeStart(p, u)
             \/ \E u \in Fans, op \in {"save", "remove"} : FollowStart(p, u, op)
             \/ SaveBlog(p) \/ ListFans(p) \/ Stamp(p) \/ Deliver(p)
    <3>1. /\ UNCHANGED <<rows, inSet>> /\ faults' \in {faults, faults + 1}
          /\ Others(p) /\ req[p].op # "sadd"
      BY <1>0, <2>1, FollowsKept
    <3>2. \A u \in Fans : Adding(u) => Adding(u)'
      BY <3>1 DEF Adding, Others
    <3>3. faults = 0
      BY <1>0, <3>1
    <3> QED BY <3>1, <3>2, <3>3 DEF ShareInv
  <2>2. CASE FollowDb(p)
    <3>1. faults = 0 /\ ~Throw(p)
      BY <1>0, <2>2, ElsewhereMoves, ThrowMoves
    <3>2. Others(p) /\ req[p].op # "sadd"
      BY <1>0, <2>2, ElsewhereMoves DEF FollowDb
    <3>3. /\ rows' = [rows EXCEPT ![req[p].user] = IF req[p].op = "save" THEN @ + 1 ELSE 0]
          /\ UNCHANGED inSet
          /\ req[p].op \in {"save", "remove"}
          /\ req[p].op = "save" => Goto(p, "sadd")
      BY <2>2, <3>1 DEF FollowDb
    <3>4. req[p].op = "save" => req'[p].op = "sadd" /\ req'[p].user = req[p].user
      BY <1>0, <3>3, GotoMoves
    <3> SUFFICES ASSUME NEW u \in Fans, rows'[u] > 0, ~inSet[u] PROVE Adding(u)'
      BY <3>3
    <3>5. CASE u # req[p].user
      BY <1>0, <3>1, <3>2, <3>3, <3>5 DEF ShareInv, Adding, Others
    <3>6. CASE u = req[p].user
      <4>1. req[p].op = "save"
        BY <1>0, <3>3, <3>6
      <4> QED BY <3>4, <3>6, <4>1 DEF Adding
    <3> QED BY <3>5, <3>6
  <2>3. CASE FollowRedis(p)
    <3>1. faults = 0 /\ ~Throw(p)
      BY <1>0, <2>3, ElsewhereMoves, ThrowMoves
    <3>2. Others(p)
      BY <1>0, <2>3, ElsewhereMoves
    <3>3. /\ inSet' = [inSet EXCEPT ![req[p].user] = IF req[p].op = "sadd" THEN TRUE
                                                     ELSE inSet[req[p].user]]
          /\ UNCHANGED rows
      BY <2>3, <3>1 DEF FollowRedis, Kept
    <3> SUFFICES ASSUME NEW u \in Fans, rows[u] > 0, ~inSet'[u] PROVE Adding(u)'
      BY <3>3
    <3>4. ~inSet[u]
      BY <1>0, <3>3
    <3>5. PICK q \in Requests : req[q].op = "sadd" /\ req[q].user = u
      BY <3>1, <3>4 DEF ShareInv, Adding
    <3>6. q # p
      BY <1>0, <3>3, <3>5
    <3> QED BY <3>2, <3>5, <3>6 DEF Adding, Others
  <2> QED BY <1>1, <2>1, <2>2, <2>3 DEF Serve
<1>2. CASE UNCHANGED <<rows, inSet, req>> /\ faults' \in {faults, faults + 1}
  BY <1>2 DEF ShareInv, Adding, TypeInv, Typed, TypeOK
<1> QED BY <1>1, <1>2 DEF Next, Refresh, Scroll, Answer, Apply, Lose, Fault, vars, followVars

\* A fan with a follow row is among the common follows, in whatever order the
\* follows and unfollows of one fan cross.
THEOREM FollowedIsSharedCorrect == Spec => []FollowedIsShared
<1>1. Init => ShareInv
  <2> SUFFICES ASSUME Init, NEW u \in Fans, rows[u] > 0 PROVE inSet[u]
    BY DEF ShareInv
  <2>1. u \in EarlyFans
    BY DEF Init
  <2>2. inSet[u] = (u \in EarlyFans)
    BY Zenon DEF Init
  <2> QED BY <2>1, <2>2
<1>2. ShareInv => FollowedIsShared
  BY DEF ShareInv, Adding, FollowedIsShared
<1> QED BY <1>1, <1>2, ShareStep, TypeInvAlways, PTL DEF Spec

----------------------------------------------------------------------------
(* LikesDrift                                                              *)

(***************************************************************************)
(* DriftInv: a request is consistent when the set still is as it found it. *)
(* Among the requests of one fan in flight, at most all but one can go on  *)
(* to stray, or all if none is consistent.  So the drift of today and all  *)
(* that may still be added without another crossing stay within the bound. *)
(***************************************************************************)
Consistent(p) == IF req[p].op \in {"add", "zadd"} THEN req[p].user \notin likes
                                                  ELSE req[p].user \in likes

Likers  == {p \in Requests : Liking(p)}
Paired  == {u \in Fans : \E p \in Likers : req[p].user = u /\ Consistent(p)}
Slack   == crossed + faults - Cardinality(Likers) + Cardinality(Paired)

DriftInv == Drift <= Slack /\ -Drift <= Slack

LEMMA Finite ==
    ASSUME TypeOK
    PROVE  /\ IsFiniteSet(Likers) /\ IsFiniteSet(Paired) /\ IsFiniteSet(likes)
           /\ IsFiniteSet(Likers') /\ IsFiniteSet(Paired')
           /\ \A op : IsFiniteSet({p \in Requests : req[p].op = op})
           /\ \A op : IsFiniteSet({p \in Requests : req'[p].op = op})
  BY SocialAssumption, FS_Subset DEF TypeOK, Likers, Paired

LEMMA Counted ==
    ASSUME TypeOK
    PROVE  /\ Cardinality(Likers) \in Nat /\ Cardinality(Paired) \in Nat
           /\ Cardinality(likes) \in Nat
           /\ \A op : Doing(op) \in Nat
  BY Finite, FS_CardinalityType DEF Doing

\* The count of the requests about to do something.
LEMMA DoingMoves ==
    ASSUME TypeOK, NEW p \in Requests, Others(p), NEW op
    PROVE  /\ req[p].op = op /\ req'[p].op # op => Doing(op)' = Doing(op) - 1
           /\ req[p].op # op /\ req'[p].op = op => Doing(op)' = Doing(op) + 1
           /\ req[p].op # op /\ req'[p].op # op => Doing(op)' = Doing(op)
<1> DEFINE S == {q \in Requests : req[q].op = op}
           T == {q \in Requests : req'[q].op = op}
<1>1. Doing(op) = Cardinality(S) /\ Doing(op)' = Cardinality(T)
  BY DEF Doing
<1>2. IsFiniteSet(S) /\ IsFiniteSet(T)
  BY Finite
<1>3. req[p].op = op /\ req'[p].op # op => T = S \ {p} /\ p \in S
  BY DEF Others
<1>4. req[p].op # op /\ req'[p].op = op => T = S \cup {p} /\ p \notin S
  BY DEF Others
<1>5. req[p].op # op /\ req'[p].op # op => T = S
  BY DEF Others
<1> HIDE DEF S, T
<1> QED BY <1>1, <1>2, <1>3, <1>4, <1>5, FS_AddElement, FS_RemoveElement

\* A request that ends takes its fan out of the paired ones at most.
LEMMA LikerEnds ==
    ASSUME TypeOK, Named, NEW p \in Likers, Others(p), req'[p] = Idle,
           NEW u \in Fans, req[p].user = u,
           \A v \in Fans \ {u} : v \in likes' <=> v \in likes
    PROVE  /\ Cardinality(Likers)' = Cardinality(Likers) - 1
           /\ Cardinality(Paired)' >= Cardinality(Paired) - 1
           /\ likes' = likes /\ ~Consistent(p) => Cardinality(Paired)' = Cardinality(Paired)
<1>1. Likers' = Likers \ {p}
  BY DEF Likers, Liking, Others, Idle
<1>2. Cardinality(Likers)' = Cardinality(Likers) - 1
  BY <1>1, Finite, FS_RemoveElement
<1>3. \A q \in Likers \ {p} : req'[q] = req[q] /\ q \in Likers' /\ req[q].user \in Fans
  BY <1>1 DEF Others, Likers, Named
<1>4. Paired \ {u} \subseteq Paired'
  BY <1>3 DEF Paired, Consistent
<1>5. Cardinality(Paired)' >= Cardinality(Paired) - 1
  <2>1. Cardinality(Paired \ {u}) <= Cardinality(Paired')
    BY <1>4, Finite, FS_Subset
  <2>2. Cardinality(Paired \ {u}) >= Cardinality(Paired) - 1
    <3>1. Cardinality(Paired \ {u}) = IF u \in Paired THEN Cardinality(Paired) - 1
                                                     ELSE Cardinality(Paired)
      BY Finite, FS_RemoveElement
    <3> QED BY <3>1, Counted
  <2>3. Cardinality(Paired') \in Nat /\ Cardinality(Paired \ {u}) \in Nat
    BY Finite, FS_RemoveElement, FS_CardinalityType
  <2> QED BY <2>1, <2>2, <2>3, Counted
<1>6. ASSUME likes' = likes, ~Consistent(p) PROVE Paired' = Paired
  BY <1>1, <1>3, <1>6 DEF Paired, Consistent
<1> QED BY <1>2, <1>5, <1>6

\* Steps that leave the likes in flight alone.
LEMMA LikersKept ==
    ASSUME TypeOK, Named, NEW p \in Requests, Others(p), UNCHANGED likes,
           \/ ~Liking(p) /\ req'[p].op \notin LikeOps
           \/ /\ Liking(p) /\ req'[p].user = req[p].user
              /\ \/ req[p].op = "add" /\ req'[p].op = "zadd"
                 \/ req[p].op = "sub" /\ req'[p].op = "zrem"
    PROVE  UNCHANGED <<Likers, Paired>>
<1>1. Likers' = Likers
  BY DEF Likers, Liking, Others, LikeOps
<1>2. \A q \in Likers : req'[q].user = req[q].user /\ (Consistent(q)' <=> Consistent(q))
  BY DEF Likers, Liking, Others, LikeOps, Consistent
<1> QED BY <1>1, <1>2 DEF Paired

LEMMA DriftElsewhere ==
    ASSUME TypeInv, DriftInv, NEW p \in Requests, Others(p),
           ~Liking(p), req'[p].op \notin LikeOps,
           UNCHANGED <<liked, likes, crossed>>, faults' \in {faults, faults + 1}
    PROVE  DriftInv'
<1>0. TypeOK /\ Named /\ liked \in Nat /\ crossed \in Nat /\ faults \in Nat
  BY DEF TypeInv, Typed, TypeOK
<1>1. UNCHANGED <<Likers, Paired>>
  BY <1>0, LikersKept
<1>2. Doing("zadd")' = Doing("zadd") /\ Doing("zrem")' = Doing("zrem")
  BY <1>0, DoingMoves DEF Liking, LikeOps
<1> QED BY <1>0, <1>1, <1>2, Counted DEF DriftInv, Drift, Slack

\* A request that meets another one of its fan is a crossing.
LEMMA DriftStart ==
    ASSUME TypeInv, DriftInv, NEW p \in Requests, NEW u \in Fans, LikeStart(p, u)
    PROVE  DriftInv'
<1>0. TypeOK /\ Named /\ liked \in Nat /\ crossed \in Nat /\ faults \in Nat
  BY DEF TypeInv, Typed, TypeOK
<1>1. /\ Others(p)
      /\ req[p].op \notin LikeOps
      /\ req'[p].op = (IF u \in likes THEN "sub" ELSE "add")
      /\ req'[p].user = u
      /\ UNCHANGED <<liked, likes, faults>>
      /\ crossed' = IF LikesOf(u) = {} THEN crossed ELSE crossed + 1
  BY <1>0, StartMoves
<1>2. Likers' = Likers \cup {p} /\ p \notin Likers
  BY <1>1 DEF Likers, Liking, Others, LikeOps
<1>3. Cardinality(Likers)' = Cardinality(Likers) + 1
  BY <1>0, <1>2, Finite, FS_AddElement
<1>4. Paired' = Paired \cup {u}
  <2>1. \A q \in Likers : req'[q] = req[q]
    BY <1>1, <1>2 DEF Others, Likers
  <2>2. Consistent(p)'
    BY <1>1 DEF Consistent
  <2>3. \A q \in Likers : Consistent(q)' <=> Consistent(q)
    BY <1>1, <2>1 DEF Consistent
  <2> QED BY <1>1, <1>2, <2>1, <2>2, <2>3 DEF Paired
<1>5. Cardinality(Paired)' = IF u \in Paired THEN Cardinality(Paired) ELSE Cardinality(Paired) + 1
  BY <1>0, <1>4, Finite, FS_AddElement
<1>6. LikesOf(u) = {} => u \notin Paired
  BY DEF Paired, LikesOf, Likers
<1>7. Doing("zadd")' = Doing("zadd") /\ Doing("zrem")' = Doing("zrem")
  BY <1>0, <1>1, DoingMoves DEF LikeOps
<1>8. Drift' = Drift
  BY <1>1, <1>7 DEF Drift
<1>9. Slack' >= Slack
  BY <1>0, <1>1, <1>3, <1>5, <1>6, Counted DEF Slack
<1>10. Drift \in Int /\ Slack \in Int /\ Slack' \in Int
  BY <1>0, <1>1, <1>3, <1>5, Counted DEF Drift, Slack
<1> QED BY <1>8, <1>9, <1>10 DEF DriftInv

LEMMA DriftLikeDb ==
    ASSUME TypeInv, DriftInv, NEW p \in Requests, LikeDb(p)
    PROVE  DriftInv'
<1>0. TypeOK /\ Named /\ liked \in Nat /\ crossed \in Nat /\ faults \in Nat
  BY DEF TypeInv, Typed, TypeOK
<1>1. Others(p) /\ UNCHANGED <<likes, crossed>> /\ req[p].op \in {"add", "sub"}
  BY <1>0, LikeDbMoves DEF LikeDb
<1>2. p \in Likers /\ req[p].user \in Fans
  BY <1>0, <1>1 DEF Likers, Liking, Named
<1>3. CASE /\ \/ req[p].op = "add" /\ liked' = liked + 1 /\ req'[p].op = "zadd"
              \/ req[p].op = "sub" /\ liked' = liked - 1 /\ req'[p].op = "zrem"
           /\ req'[p].user = req[p].user
           /\ UNCHANGED faults
  <2>1. UNCHANGED <<Likers, Paired>>
    BY <1>0, <1>1, <1>3, LikersKept DEF Liking
  <2>2. CASE req[p].op = "add"
    <3>1. Doing("zadd")' = Doing("zadd") + 1 /\ Doing("zrem")' = Doing("zrem")
      BY <1>0, <1>1, <1>3, <2>2, DoingMoves
    <3> QED BY <1>0, <1>1, <1>3, <2>1, <2>2, <3>1, Counted DEF DriftInv, Drift, Slack
  <2>3. CASE req[p].op = "sub"
    <3>1. Doing("zadd")' = Doing("zadd") /\ Doing("zrem")' = Doing("zrem") + 1
      BY <1>0, <1>1, <1>3, <2>3, DoingMoves
    <3> QED BY <1>0, <1>1, <1>3, <2>1, <2>3, <3>1, Counted DEF DriftInv, Drift, Slack
  <2> QED BY <1>1, <2>2, <2>3
<1>4. CASE /\ req'[p] = Idle
           /\ \/ UNCHANGED <<liked, faults>>
              \/ faults' = faults + 1 /\ liked' \in {liked - 1, liked, liked + 1}
  <2>1. Doing("zadd")' = Doing("zadd") /\ Doing("zrem")' = Doing("zrem")
    BY <1>0, <1>1, <1>4, DoingMoves DEF Idle
  <2>2. /\ Cardinality(Likers)' = Cardinality(Likers) - 1
        /\ Cardinality(Paired)' >= Cardinality(Paired) - 1
    BY <1>0, <1>1, <1>2, <1>4, LikerEnds
  <2>3. Cardinality(Paired)' \in Nat
    BY <1>0, Finite, FS_CardinalityType
  <2> QED BY <1>0, <1>1, <1>4, <2>1, <2>2, <2>3, Counted DEF DriftInv, Drift, Slack
<1> QED BY <1>0, <1>3, <1>4, LikeDbMoves

LEMMA DriftLikeRedis ==
    ASSUME TypeInv, DriftInv, NEW p \in Requests, LikeRedis(p)
    PROVE  DriftInv'
<1> DEFINE u == req[p].user
           after == IF req[p].op = "zadd" THEN likes \cup {u} ELSE likes \ {u}
<1>0. TypeOK /\ Named /\ liked \in Nat /\ crossed \in Nat /\ faults \in Nat
  BY DEF TypeInv, Typed, TypeOK
<1>1. /\ Others(p) /\ req'[p] = Idle
      /\ UNCHANGED <<liked, crossed>>
      /\ \/ likes' = after /\ UNCHANGED faults
         \/ faults' = faults + 1 /\ likes' \in {likes, after}
      /\ req[p].op \in {"zadd", "zrem"}
  BY <1>0, LikeRedisMoves
<1>2. p \in Likers /\ u \in Fans
  BY <1>0, <1>1 DEF Likers, Liking, Named
<1>3. /\ Cardinality(Likers)' = Cardinality(Likers) - 1
      /\ Cardinality(Paired)' >= Cardinality(Paired) - 1
      /\ likes' = likes /\ ~Consistent(p) => Cardinality(Paired)' = Cardinality(Paired)
  <2>1. \A v \in Fans \ {u} : v \in likes' <=> v \in likes
    BY <1>1
  <2> QED BY <1>0, <1>1, <1>2, <2>1, LikerEnds
<1>4. Cardinality(Paired)' \in Nat
  BY <1>0, Finite, FS_CardinalityType
<1>5. \/ req[p].op = "zadd" /\ Doing("zadd")' = Doing("zadd") - 1 /\ Doing("zrem")' = Doing("zrem")
      \/ req[p].op = "zrem" /\ Doing("zadd")' = Doing("zadd") /\ Doing("zrem")' = Doing("zrem") - 1
  BY <1>0, <1>1, DoingMoves DEF Idle
<1>6. CASE likes' = likes
  <2>1. ASSUME likes' = after PROVE ~Consistent(p)
    <3>1. CASE req[p].op = "zadd"
      <4>1. u \in likes
        BY <1>6, <2>1, <3>1
      <4> QED BY <3>1, <4>1 DEF Consistent
    <3>2. CASE req[p].op = "zrem"
      <4>1. u \notin likes
        BY <1>6, <2>1, <3>2
      <4> QED BY <3>2, <4>1 DEF Consistent
    <3> QED BY <1>1, <3>1, <3>2
  <2>2. Slack' >= Slack + 1
    <3>1. CASE faults' = faults + 1
      BY <1>0, <1>1, <1>3, <1>4, <3>1, Counted DEF Slack
    <3>2. CASE likes' = after /\ UNCHANGED faults
      BY <1>0, <1>1, <1>3, <1>6, <2>1, <3>2, Counted DEF Slack
    <3> QED BY <1>1, <3>1, <3>2
  <2>3. Drift' \in {Drift - 1, Drift + 1}
    BY <1>0, <1>1, <1>5, <1>6, Counted DEF Drift
  <2>4. Drift \in Int /\ Slack \in Int /\ Slack' \in Int
    <3>1. faults' \in Nat
      BY <1>0, <1>1
    <3>2. Cardinality(Likers)' \in Int
      BY <1>0, <1>3, Counted
    <3> QED BY <1>0, <1>1, <1>4, <3>1, <3>2, Counted DEF Drift, Slack
  <2>5. Drift <= Slack /\ -Drift <= Slack
    BY DEF DriftInv
  <2>6. CASE Drift' = Drift - 1
    BY <2>2, <2>4, <2>5, <2>6 DEF DriftInv
  <2>7. CASE Drift' = Drift + 1
    BY <2>2, <2>4, <2>5, <2>7 DEF DriftInv
  <2> QED BY <2>3, <2>6, <2>7
<1>7. CASE likes' = after /\ likes' # likes
  <2>1. \/ req[p].op = "zadd" /\ Cardinality(likes') = Cardinality(likes) + 1
        \/ req[p].op = "zrem" /\ Cardinality(likes') = Cardinality(likes) - 1
    <3>1. CASE req[p].op = "zadd"
      <4>1. likes' = likes \cup {u} /\ u \notin likes
        BY <1>7, <3>1
      <4> QED BY <1>0, <3>1, <4>1, Finite, FS_AddElement
    <3>2. CASE req[p].op = "zrem"
      <4>1. likes' = likes \ {u} /\ u \in likes
        BY <1>7, <3>2
      <4> QED BY <1>0, <3>2, <4>1, Finite, FS_RemoveElement
    <3> QED BY <1>1, <3>1, <3>2
  <2>2. Drift' = Drift
    BY <1>0, <1>1, <1>5, <2>1, Counted DEF Drift
  <2>3. faults' \in {faults, faults + 1}
    BY <1>1
  <2> QED BY <1>0, <1>1, <1>3, <1>4, <2>2, <2>3, Counted DEF DriftInv, Drift, Slack
<1> QED BY <1>1, <1>6, <1>7

LEMMA DriftStep == TypeInv /\ DriftInv /\ [Next]_vars => DriftInv'
<1> SUFFICES ASSUME TypeInv, DriftInv, [Next]_vars PROVE DriftInv'
  OBVIOUS
<1>1. ASSUME NEW p \in Requests, Serve(p) PROVE DriftInv'
  <2>1. CASE LikeDb(p)
    BY <2>1, DriftLikeDb
  <2>2. CASE LikeRedis(p)
    BY <2>2, DriftLikeRedis
  <2>3. ASSUME NEW u \in Fans, LikeStart(p, u) PROVE DriftInv'
    BY <2>3, DriftStart
  <2>4. CASE \/ FollowDb(p) \/ FollowRedis(p)
             \/ \E u \in Fans, op \in {"save", "remove"} : FollowStart(p, u, op)
             \/ SaveBlog(p) \/ ListFans(p) \/ Stamp(p) \/ Deliver(p)
    <3>1. TypeOK
      BY DEF TypeInv, Typed
    <3>2. /\ Others(p)
          /\ req[p].op \notin LikeOps /\ req'[p].op \notin LikeOps
          /\ UNCHANGED <<liked, likes, crossed>>
          /\ faults' \in {faults, faults + 1}
      BY <2>4, <3>1, ElsewhereMoves
    <3>3. ~Liking(p)
      BY <3>2 DEF Liking, LikeOps
    <3> QED BY <3>2, <3>3, DriftElsewhere
  <2> QED BY <1>1, <2>1, <2>2, <2>3, <2>4 DEF Serve
<1>2. CASE UNCHANGED <<liked, likes, req, crossed>> /\ faults' \in {faults, faults + 1}
  <2>1. /\ Drift' = Drift
        /\ Slack' = faults' + crossed - Cardinality(Likers) + Cardinality(Paired)
    BY <1>2, Counted DEF TypeInv, Typed, TypeOK, Drift, Slack, Likers, Paired, Liking,
                         Consistent, Doing
  <2>2. Slack' = Slack \/ Slack' = Slack + 1
    BY <1>2, <2>1, Counted DEF TypeInv, Typed, TypeOK, Slack
  <2>3. Slack \in Int /\ Drift \in Int
    BY Counted DEF TypeInv, Typed, TypeOK, Slack, Drift
  <2> QED BY <2>1, <2>2, <2>3 DEF DriftInv
<1> QED BY <1>1, <1>2 DEF Next, Refresh, Scroll, Answer, Apply, Lose, Fault, vars, likeVars

\* The paired fans are no more than the requests in flight.
LEMMA PairedBound ==
    ASSUME TypeOK
    PROVE  Cardinality(Paired) <= Cardinality(Likers)
<1> DEFINE S == {p \in Likers : req[p].user \in Paired}
           f == [p \in S |-> req[p].user]
<1>1. f \in Surjection(S, Paired)
  BY DEF Surjection, Paired
<1>2. IsFiniteSet(S) /\ Cardinality(S) <= Cardinality(Likers)
  BY Finite, FS_Subset
<1>3. Cardinality(Paired) <= Cardinality(S) /\ Cardinality(S) \in Nat
  BY <1>1, <1>2, FS_Surjection, FS_CardinalityType
<1> QED BY <1>2, <1>3, Counted

\* The counter of likes strays from the set of likers by no more than the crossings
\* and the failed calls.
THEOREM LikesDriftCorrect == Spec => []LikesDrift
<1>1. Init => DriftInv
  <2> SUFFICES ASSUME Init PROVE DriftInv
    OBVIOUS
  <2>1. /\ Likers = {} /\ Paired = {}
        /\ {p \in Requests : req[p].op = "zadd"} = {}
        /\ {p \in Requests : req[p].op = "zrem"} = {}
    BY DEF Init, Likers, Paired, Liking, Idle
  <2>2. Cardinality(EarlyFans) \in Nat
    BY SocialAssumption, FS_Subset, FS_CardinalityType
  <2>3. liked = Cardinality(EarlyFans) /\ likes = EarlyFans /\ crossed = 0 /\ faults = 0
    BY DEF Init
  <2>4. Doing("zadd") = 0 /\ Doing("zrem") = 0
    BY <2>1, FS_EmptySet DEF Doing
  <2>5. Drift = 0
    BY <2>2, <2>3, <2>4 DEF Drift
  <2>6. Slack = 0
    BY <2>1, <2>3, FS_EmptySet DEF Slack
  <2> QED BY <2>5, <2>6 DEF DriftInv
<1>2. TypeInv /\ DriftInv => LikesDrift
  <2> SUFFICES ASSUME TypeInv, DriftInv PROVE LikesDrift
    OBVIOUS
  <2>1. TypeOK /\ liked \in Nat /\ crossed \in Nat /\ faults \in Nat
    BY DEF TypeInv, Typed, TypeOK
  <2>2. Slack <= crossed + faults /\ Slack \in Int
    BY <2>1, PairedBound, Counted DEF Slack
  <2>3. Drift \in Int
    BY <2>1, Counted DEF Drift
  <2> QED BY <2>1, <2>2, <2>3 DEF DriftInv, LikesDrift
<1> QED BY <1>1, <1>2, DriftStep, TypeInvAlways, PTL DEF Spec

----------------------------------------------------------------------------
(* NeverSkips and NeverRepeats                                             *)

(***************************************************************************)
(* A place in an inbox is a time and an offset within it, and it tells the *)
(* items above it from those below.  The strengthening says what a place   *)
(* is good for, and says it of the place of a list, of the place a request *)
(* on its way asks for, and of the list that an answer on its way would    *)
(* leave: what is due is below (GoesOn), what was shown is above (Exact).  *)
(***************************************************************************)
Unmoved(c) == c.amiss \cap {"moved", "mixed"} = {}

AtTime(inbox, t) == {i \in inbox : i.t = t}

GoesOn(inbox, c) ==
    Unmoved(c) => /\ c.os <= Cardinality(AtTime(inbox, c.max))
                  /\ \A i \in c.due : i \in inbox /\ ~Passed(inbox, c, i)

Exact(inbox, c) ==
    c.amiss = {} => /\ ~c.again
                    /\ \A b \in c.seen : \E i \in inbox : i.b = b /\ Passed(inbox, c, i)

OnePerNote(inbox) == \A i, j \in inbox : i.b = j.b => i = j

ListOK(inbox, c) == /\ c.seen = {} => c.os = 0
                    /\ c.os > 0 => GoesOn(inbox, c) /\ Exact(inbox, c)
                    /\ c.amiss = {} => ~c.again

At(c, q) == [c EXCEPT !.max = q.max, !.os = q.os]

SentOK(inbox, c, q) ==
    /\ q.clear => q.os = 0
    /\ ~q.clear /\ q.os = 0 => c.seen = {} \/ q.list = "replaced"
    /\ q.os > 0 => c.seen # {}
    /\ q.os > 0 /\ q.list # "replaced" => GoesOn(inbox, At(c, q))
    /\ q.os > 0 /\ q.list = "same" => Exact(inbox, At(c, q))

GetOK(inbox, c, q) ==
    /\ q.step = "sent" => SentOK(inbox, c, q)
    /\ q.step = "answered" => GoesOn(inbox, Shown(c, q)) /\ Exact(inbox, Shown(c, q))

ScrollInv ==
    /\ \A u \in Fans : OnePerNote(feed[u]) /\ ListOK(feed[u], client[u])
    /\ \A g \in Gets : GetOK(feed[get[g].user], client[get[g].user], get[g])

(***************************************************************************)
(* Places                                                                  *)
(***************************************************************************)

LEMMA RankType ==
    ASSUME NEW F \in SUBSET Item, IsFiniteSet(F), NEW max \in Nat, NEW i \in F
    PROVE  /\ IsFiniteSet({j \in UpTo(F, max) : Before(j, i)})
           /\ Rank(F, max, i) \in Nat
<1>1. {j \in UpTo(F, max) : Before(j, i)} \subseteq F
  BY DEF UpTo
<1>2. IsFiniteSet({j \in UpTo(F, max) : Before(j, i)})
  BY <1>1, FS_Subset
<1> QED BY <1>2, FS_CardinalityType DEF Rank

\* One item comes before another, never both ways.
LEMMA Ordered ==
    ASSUME NEW i \in Item, NEW j \in Item
    PROVE  /\ i # j => Before(i, j) \/ Before(j, i)
           /\ ~(Before(i, j) /\ Before(j, i))
           /\ i.t \in Nat /\ i.b \in Nat
           /\ \A k \in Item : Before(i, j) /\ Before(j, k) => Before(i, k)
  BY DEF Item, Before

LEMMA RankLess ==
    ASSUME NEW F \in SUBSET Item, IsFiniteSet(F), NEW max \in Nat,
           NEW i \in UpTo(F, max), NEW j \in F, Before(i, j)
    PROVE  Rank(F, max, i) < Rank(F, max, j)
<1> DEFINE A == {k \in UpTo(F, max) : Before(k, i)}
           B == {k \in UpTo(F, max) : Before(k, j)}
<1>1. i \in F /\ UpTo(F, max) \subseteq Item
  BY DEF UpTo
<1>2. A \subseteq B
  BY <1>1, Ordered
<1>3. i \in B /\ i \notin A
  BY <1>1, Ordered
<1>4. IsFiniteSet(B) /\ Rank(F, max, i) \in Nat /\ Rank(F, max, j) \in Nat
  BY <1>1, RankType
<1> HIDE DEF A, B
<1>5. Cardinality(A) <= Cardinality(B) /\ (Cardinality(A) = Cardinality(B) => A = B)
  BY <1>2, <1>4, FS_Subset
<1>6. Cardinality(A) # Cardinality(B)
  BY <1>3, <1>5
<1> QED BY <1>4, <1>5, <1>6 DEF Rank, A, B

\* The items of the time of a place come before those of earlier times.
LEMMA RankBelow ==
    ASSUME NEW F \in SUBSET Item, IsFiniteSet(F), NEW max \in Nat,
           NEW i \in F, i.t < max
    PROVE  Cardinality(AtTime(F, max)) <= Rank(F, max, i)
<1>1. AtTime(F, max) \subseteq {j \in UpTo(F, max) : Before(j, i)}
  BY DEF AtTime, UpTo, Before, Item
<1> QED BY <1>1, RankType, FS_Subset DEF Rank

\* The place after a page: below it is what was below and is not on the page; above it,
\* unless the page stays within a millisecond, is what was above and the page.
LEMMA PageStep ==
    ASSUME NEW F \in SUBSET Item, IsFiniteSet(F),
           NEW c, c.max \in Nat, c.os \in Nat, c.os <= Cardinality(AtTime(F, c.max)),
           NEW items, items = PageOf(F, c.max, c.os), items # {},
           NEW d, d.max = MinTime(items), d.os = Offset(items)
    PROVE  /\ d.os <= Cardinality(AtTime(F, d.max))
           /\ \A i \in F : ~Passed(F, c, i) /\ i \notin items => ~Passed(F, d, i)
           /\ d.max # c.max \/ c.os = 0 => \A i \in items : Passed(F, d, i)
           /\ \A i \in F : Passed(F, c, i) => /\ i \notin items
                                              /\ d.max # c.max => Passed(F, d, i)
<1> DEFINE last == {j \in items : j.t = d.max}
           R(i) == Rank(F, c.max, i)
<1>0. /\ items \subseteq F /\ items \subseteq Item /\ IsFiniteSet(items)
      /\ \A i \in items : i.t \in Nat /\ i.t <= c.max
      /\ \A i \in F : i \in items <=> i.t <= c.max /\ R(i) >= c.os /\ R(i) < c.os + Page
  <2>1. items \subseteq F
    BY DEF PageOf, UpTo
  <2> QED BY <2>1, FS_Subset DEF PageOf, UpTo, Item
<1>1. /\ d.max \in Nat /\ d.os \in Nat
      /\ \A i \in items : d.max <= i.t
      /\ d.max <= c.max
  BY <1>0, PageTyped
<1>2. IsFiniteSet(last) /\ Cardinality(last) = d.os /\ last \subseteq items
  BY <1>0, FS_Subset DEF Offset
<1>3. \A i \in F : i.t \in Nat /\ R(i) \in Nat /\ i \in Item
  BY RankType DEF Item
<1>4. Page \in Nat
  BY SocialAssumption
<1>5. d.os <= Cardinality(AtTime(F, d.max))
  <2>1. last \subseteq AtTime(F, d.max) /\ AtTime(F, d.max) \subseteq F
    BY <1>0 DEF AtTime
  <2> HIDE DEF last
  <2> QED BY <1>2, <2>1, FS_Subset
<1>6. ASSUME NEW i \in F, i.t < c.max
      PROVE  R(i) >= c.os
  <2>1. Cardinality(AtTime(F, c.max)) <= R(i)
    BY <1>6, RankBelow
  <2>2. Cardinality(AtTime(F, c.max)) \in Nat
    BY FS_Subset, FS_CardinalityType DEF AtTime
  <2> QED BY <1>3, <2>1, <2>2
<1>7. ASSUME NEW i \in F, ~Passed(F, c, i), i \notin items
      PROVE  ~Passed(F, d, i)
  <2>1. i.t <= c.max /\ R(i) >= c.os
    BY <1>3, <1>6, <1>7 DEF Passed
  <2>2. R(i) >= c.os + Page
    BY <1>0, <1>3, <1>4, <1>7, <2>1
  <2>3. ASSUME NEW j \in items PROVE Before(j, i)
    <3>1. R(j) < R(i)
      BY <1>0, <1>3, <1>4, <2>2
    <3>2. i \in UpTo(F, c.max)
      BY <2>1 DEF UpTo
    <3>3. ~Before(i, j)
      <4>1. Before(i, j) => R(i) < R(j)
        BY <1>0, <3>2, RankLess
      <4> QED BY <1>0, <1>3, <3>1, <4>1
    <3> QED BY <1>0, <1>3, <1>7, <3>3, Ordered
  <2>4. i.t <= d.max
    <3>1. PICK j \in items : j.t = d.max
      BY <1>0, PageTyped
    <3>2. j.t \in Nat /\ i.t \in Nat /\ Before(j, i)
      BY <1>0, <1>3, <2>3
    <3> QED BY <3>1, <3>2 DEF Before
  <2>5. CASE i.t < d.max
    BY <1>1, <1>3, <2>5 DEF Passed
  <2>6. CASE i.t = d.max
    <3>1. last \subseteq {j \in UpTo(F, d.max) : Before(j, i)}
      BY <1>0, <1>1, <2>3 DEF UpTo
    <3>2. d.os <= Rank(F, d.max, i)
      <4> HIDE DEF last
      <4> QED BY <1>1, <1>2, <3>1, RankType, FS_Subset DEF Rank
    <3>3. Rank(F, d.max, i) \in Nat
      BY <1>1, RankType
    <3> QED BY <1>1, <1>3, <2>6, <3>2, <3>3 DEF Passed
  <2> QED BY <1>1, <1>3, <2>4, <2>5, <2>6
<1>8. ASSUME d.max # c.max \/ c.os = 0, NEW i \in items
      PROVE  Passed(F, d, i)
  <2>1. CASE i.t > d.max
    BY <2>1 DEF Passed
  <2>2. CASE i.t = d.max
    <3> DEFINE A == {j \in UpTo(F, d.max) : Before(j, i)}
    <3>1. ASSUME NEW j \in A PROVE j \in last \ {i}
      <4>1. j \in F /\ i \in F /\ j.t = d.max /\ Before(j, i)
        BY <1>0, <1>1, <1>3, <2>2 DEF UpTo, Before
      <4>2. j # i
        BY <1>3, <4>1, Ordered
      <4>3. j \in UpTo(F, c.max)
        BY <1>1, <1>3, <4>1 DEF UpTo
      <4>4. R(j) < R(i)
        BY <4>1, <4>3, RankLess
      <4>5. R(j) >= c.os
        BY <1>1, <1>3, <1>6, <1>8, <4>1
      <4>6. j \in items
        BY <1>0, <1>1, <1>3, <1>4, <4>1, <4>4, <4>5
      <4> QED BY <4>1, <4>2, <4>6
    <3>2. i \in last
      BY <2>2
    <3> HIDE DEF last
    <3>3. IsFiniteSet(last \ {i}) /\ Cardinality(last \ {i}) = d.os - 1
      BY <1>2, <3>2, FS_RemoveElement
    <3>4. Cardinality(A) <= d.os - 1
      <4>1. A \subseteq last \ {i}
        BY <3>1
      <4> HIDE DEF A
      <4> QED BY <3>3, <4>1, FS_Subset
    <3>5. Rank(F, d.max, i) < d.os
      <4>1. Rank(F, d.max, i) \in Nat
        BY <1>0, <1>1, RankType
      <4> QED BY <1>1, <3>4, <4>1 DEF Rank
    <3> QED BY <2>2, <3>5 DEF Passed
  <2> QED BY <1>0, <1>1, <2>1, <2>2
<1>9. ASSUME NEW i \in F, Passed(F, c, i)
      PROVE  i \notin items /\ (d.max # c.max => Passed(F, d, i))
  <2>1. i \notin items
    BY <1>0, <1>3, <1>9 DEF Passed
  <2>2. i.t >= c.max
    BY <1>3, <1>9 DEF Passed
  <2> QED BY <1>1, <1>3, <2>1, <2>2 DEF Passed
<1> QED BY <1>5, <1>7, <1>8, <1>9

\* What a page adds to what is amiss, by what became of the list that asked for it.
Tag(l) == CASE l = "same" -> {} [] l = "grown" -> {"doubled"} [] l = "replaced" -> {"mixed"}

LEMMA Tagged == Tag("same") = {} /\ Tag("grown") = {"doubled"} /\ Tag("replaced") = {"mixed"}
  BY DEF Tag

\* What the list is after a page.
LEMMA ShownFields ==
    ASSUME NEW c \in Client, NEW q \in Get
    PROVE  /\ Shown(c, q).max = MinTime(q.items) /\ Shown(c, q).os = Offset(q.items)
           /\ q.clear \/ c.seen = {} =>
                /\ Shown(c, q).seen = Names(q.items) /\ Shown(c, q).due = q.due
                /\ ~Shown(c, q).again /\ Shown(c, q).amiss = q.amiss
           /\ ~q.clear /\ c.seen # {} =>
                /\ Shown(c, q).seen = c.seen \cup Names(q.items)
                /\ Shown(c, q).due = {i \in c.due : i.b \notin Names(q.items)}
                /\ Shown(c, q).again <=> c.again \/ Names(q.items) \cap c.seen # {}
                /\ Shown(c, q).amiss = c.amiss \cup q.amiss \cup Tag(q.list)
  BY DEF Shown, Client, Tag

LEMMA AtFields ==
    ASSUME NEW c \in Client, NEW q
    PROVE  /\ At(c, q).max = q.max /\ At(c, q).os = q.os
           /\ At(c, q).seen = c.seen /\ At(c, q).due = c.due
           /\ At(c, q).again = c.again /\ At(c, q).amiss = c.amiss
  BY DEF At, Client

\* A list that owes no more and is no better goes on from the same place.
LEMMA GoesOnLess ==
    ASSUME NEW F, NEW c, NEW d, GoesOn(F, c), d.max = c.max, d.os = c.os,
           d.due \subseteq c.due, Unmoved(d) => Unmoved(c)
    PROVE  GoesOn(F, d)
  BY DEF GoesOn, Passed

LEMMA ExactSame ==
    ASSUME NEW F, NEW c, NEW d, Exact(F, c), d.max = c.max, d.os = c.os,
           d.seen = c.seen, d.again => c.again, d.amiss = c.amiss
    PROVE  Exact(F, d)
  BY DEF Exact, Passed

(***************************************************************************)
(* A note arrives                                                          *)
(***************************************************************************)

LEMMA Arrives ==
    ASSUME NEW F \in SUBSET Item, IsFiniteSet(F), NEW item \in Item,
           NEW c, c.max \in Nat, c.os \in Nat
    PROVE  LET more == F \cup {item} IN
           /\ Cardinality(AtTime(F, c.max)) <= Cardinality(AtTime(more, c.max))
           /\ \A i \in F : Passed(more, c, i) => Passed(F, c, i)
           /\ (\A i \in F : i.t # item.t) => \A i \in F : Passed(F, c, i) => Passed(more, c, i)
<1> DEFINE more == F \cup {item}
           A(G, i) == {j \in UpTo(G, c.max) : Before(j, i)}
<1>1. more \in SUBSET Item /\ IsFiniteSet(more)
  BY FS_AddElement
<1>2. Cardinality(AtTime(F, c.max)) <= Cardinality(AtTime(more, c.max))
  <2>1. /\ AtTime(F, c.max) \subseteq AtTime(more, c.max)
        /\ AtTime(more, c.max) \subseteq more
    BY DEF AtTime
  <2> HIDE DEF more
  <2> QED BY <1>1, <2>1, FS_Subset
<1>3. ASSUME NEW i \in F
      PROVE  /\ Rank(F, c.max, i) \in Nat /\ Rank(more, c.max, i) \in Nat
             /\ Rank(F, c.max, i) <= Rank(more, c.max, i)
  <2>1. i \in more /\ A(F, i) \subseteq A(more, i)
    BY DEF UpTo
  <2>2. /\ Rank(F, c.max, i) \in Nat /\ Rank(more, c.max, i) \in Nat
        /\ IsFiniteSet(A(more, i))
    BY <1>1, <2>1, RankType
  <2> HIDE DEF more
  <2> QED BY <2>1, <2>2, FS_Subset DEF Rank
<1>4. ASSUME NEW i \in F, Passed(more, c, i)
      PROVE  Passed(F, c, i)
  <2>1. CASE i.t > c.max
    BY <2>1 DEF Passed
  <2>2. CASE i.t = c.max /\ Rank(more, c.max, i) < c.os
    <3> HIDE DEF more
    <3> QED BY <1>3, <2>2 DEF Passed
  <2> QED BY <1>4, <2>1, <2>2 DEF Passed
<1>5. ASSUME \A i \in F : i.t # item.t, NEW i \in F, Passed(F, c, i)
      PROVE  Passed(more, c, i)
  <2>1. CASE i.t > c.max
    BY <2>1 DEF Passed
  <2>2. CASE i.t = c.max /\ Rank(F, c.max, i) < c.os
    <3>1. item \notin A(more, i)
      BY <1>5, <2>2 DEF UpTo, Before, Item
    <3>2. A(more, i) = A(F, i)
      BY <3>1 DEF UpTo
    <3>3. Rank(more, c.max, i) = Rank(F, c.max, i)
      BY <3>2 DEF Rank
    <3> HIDE DEF more
    <3> QED BY <2>2, <3>3 DEF Passed
  <2> QED BY <1>5, <2>1, <2>2 DEF Passed
<1> QED BY <1>2, <1>4, <1>5

LEMMA Delivered ==
    ASSUME NEW F \in SUBSET Item, IsFiniteSet(F), NEW item \in Item,
           NEW c, NEW d, c.max \in Nat, c.os \in Nat,
           d.max = c.max, d.os = c.os, d.seen = c.seen, d.due = c.due,
           d.again => c.again, d.amiss = c.amiss \cup Upset(F, item)
    PROVE  LET more == {i \in F : i.b # item.b} \cup {item} IN
           /\ GoesOn(F, c) => GoesOn(more, d)
           /\ Exact(F, c) => Exact(more, d)
<1> DEFINE more == {i \in F : i.b # item.b} \cup {item}
<1>1. ASSUME "moved" \notin d.amiss
      PROVE  /\ more = F \cup {item}
             /\ Cardinality(AtTime(F, c.max)) <= Cardinality(AtTime(more, c.max))
             /\ \A i \in F : Passed(more, d, i) => Passed(F, c, i)
             /\ (\A i \in F : i.t # item.t) => \A i \in F : Passed(F, c, i) => Passed(more, d, i)
  <2>1. \A i \in F : i.b # item.b
    BY <1>1 DEF Upset
  <2>2. more = F \cup {item}
    BY <2>1
  <2>3. \A G, i : Passed(G, d, i) <=> Passed(G, c, i)
    BY DEF Passed
  <2> HIDE DEF more
  <2> QED BY <2>2, <2>3, Arrives
<1>2. ASSUME GoesOn(F, c), Unmoved(d)
      PROVE  /\ d.os <= Cardinality(AtTime(more, d.max))
             /\ \A i \in d.due : i \in more /\ ~Passed(more, d, i)
  <2>1. Unmoved(c) /\ "moved" \notin d.amiss
    BY <1>2 DEF Unmoved
  <2>2. /\ c.os <= Cardinality(AtTime(F, c.max))
        /\ \A i \in c.due : i \in F /\ ~Passed(F, c, i)
    BY <1>2, <2>1 DEF GoesOn
  <2>3. /\ Cardinality(AtTime(F, c.max)) \in Nat
        /\ Cardinality(AtTime(more, c.max)) \in Nat
    <3>1. IsFiniteSet(F \cup {item}) /\ more = F \cup {item}
      BY <1>1, <2>1, FS_AddElement
    <3>2. AtTime(F, c.max) \subseteq F /\ AtTime(more, c.max) \subseteq more
      BY DEF AtTime
    <3> HIDE DEF more
    <3> QED BY <3>1, <3>2, FS_Subset, FS_CardinalityType
  <2>4. /\ more = F \cup {item}
        /\ Cardinality(AtTime(F, c.max)) <= Cardinality(AtTime(more, c.max))
        /\ \A i \in F : Passed(more, d, i) => Passed(F, c, i)
    BY <1>1, <2>1
  <2> HIDE DEF more
  <2> QED BY <2>2, <2>3, <2>4
<1>3. ASSUME Exact(F, c), d.amiss = {}
      PROVE  /\ ~d.again
             /\ \A b \in d.seen : \E i \in more : i.b = b /\ Passed(more, d, i)
  <2>1. c.amiss = {} /\ Upset(F, item) = {}
    BY <1>3
  <2>2. \A i \in F : i.t # item.t
    BY <2>1 DEF Upset
  <2>3. ~c.again /\ \A b \in c.seen : \E i \in F : i.b = b /\ Passed(F, c, i)
    BY <1>3, <2>1 DEF Exact
  <2>4. more = F \cup {item} /\ \A i \in F : Passed(F, c, i) => Passed(more, d, i)
    BY <1>1, <1>3, <2>2
  <2> HIDE DEF more
  <2> QED BY <2>3, <2>4
<1> HIDE DEF more
<1>4. GoesOn(F, c) => GoesOn(more, d)
  BY <1>2 DEF GoesOn
<1>5. Exact(F, c) => Exact(more, d)
  BY <1>3 DEF Exact
<1> QED BY <1>4, <1>5 DEF more

\* To the list that was there, to a request on its way and to an answer on its way.
LEMMA ListDelivered ==
    ASSUME NEW F \in SUBSET Item, IsFiniteSet(F), NEW item \in Item,
           NEW c \in Client, OnePerNote(F), ListOK(F, c)
    PROVE  LET more == {i \in F : i.b # item.b} \cup {item}
               d    == [c EXCEPT !.amiss = @ \cup Upset(F, item)]
           IN  OnePerNote(more) /\ ListOK(more, d)
<1> DEFINE more == {i \in F : i.b # item.b} \cup {item}
           d    == [c EXCEPT !.amiss = @ \cup Upset(F, item)]
<1>1. /\ c.max \in Nat /\ c.os \in Nat
      /\ d.max = c.max /\ d.os = c.os /\ d.seen = c.seen /\ d.due = c.due
      /\ d.again = c.again /\ d.amiss = c.amiss \cup Upset(F, item)
  BY DEF Client
<1>2. OnePerNote(more)
  BY DEF OnePerNote
<1> HIDE DEF d
<1>3. (GoesOn(F, c) => GoesOn(more, d)) /\ (Exact(F, c) => Exact(more, d))
  BY <1>1, Delivered
<1> HIDE DEF more
<1>4. ListOK(more, d)
  BY <1>1, <1>3 DEF ListOK
<1> QED BY <1>2, <1>4 DEF more, d

LEMMA GetDelivered ==
    ASSUME NEW F \in SUBSET Item, IsFiniteSet(F), NEW item \in Item,
           NEW c \in Client, NEW q \in Get, GetOK(F, c, q),
           q.step = "answered" => q.items # {} /\ IsFiniteSet(q.items)
    PROVE  LET more == {i \in F : i.b # item.b} \cup {item}
               d    == [c EXCEPT !.amiss = @ \cup Upset(F, item)]
               r    == IF q.step = "answered"
                       THEN [q EXCEPT !.amiss = @ \cup Upset(F, item)] ELSE q
           IN  GetOK(more, d, r)
<1> DEFINE x    == Upset(F, item)
           more == {i \in F : i.b # item.b} \cup {item}
           d    == [c EXCEPT !.amiss = @ \cup x]
           r    == IF q.step = "answered" THEN [q EXCEPT !.amiss = @ \cup x] ELSE q
<1>0. x \subseteq {"moved", "tied"}
  BY DEF Upset
<1>1. /\ d \in Client
      /\ d.max = c.max /\ d.os = c.os /\ d.seen = c.seen /\ d.due = c.due
      /\ d.again = c.again /\ d.amiss = c.amiss \cup x
  <2> HIDE DEF x
  <2> QED BY <1>0 DEF Client
<1>2. CASE q.step = "sent"
  <2>1. r = q
    BY <1>2
  <2>2. q.max \in Nat /\ q.os \in Nat
    BY DEF Get
  <2> DEFINE a == At(c, q)
             b == At(d, q)
  <2>3. /\ a.max = q.max /\ a.os = q.os
        /\ b.max = a.max /\ b.os = a.os /\ b.seen = a.seen /\ b.due = a.due
        /\ (b.again => a.again) /\ b.amiss = a.amiss \cup x
    <3> HIDE DEF d, x
    <3> QED BY <1>1, AtFields
  <2> HIDE DEF a, b, d
  <2>4. (GoesOn(F, a) => GoesOn(more, b)) /\ (Exact(F, a) => Exact(more, b))
    BY <2>2, <2>3, Delivered
  <2>5. SentOK(F, c, q)
    BY <1>2 DEF GetOK
  <2> HIDE DEF more
  <2>6. SentOK(more, d, q)
    BY <1>1, <2>4, <2>5 DEF SentOK, a, b
  <2> HIDE DEF r
  <2>7. GetOK(more, d, r)
    BY <1>2, <2>1, <2>6 DEF GetOK
  <2> QED BY <2>7 DEF more, d, r, x
<1>3. CASE q.step = "answered"
  <2>1. /\ r \in Get
        /\ r.step = "answered" /\ (r.clear <=> q.clear) /\ r.items = q.items /\ r.due = q.due
        /\ r.list = q.list /\ r.amiss = q.amiss \cup x
    <3> HIDE DEF x
    <3> QED BY <1>0, <1>3 DEF Get
  <2> DEFINE a == Shown(c, q)
             b == Shown(d, r)
  <2> HIDE DEF d, r, x
  <2>2. /\ b.max = a.max /\ b.os = a.os /\ b.seen = a.seen /\ b.due = a.due
        /\ (b.again => a.again) /\ b.amiss = a.amiss \cup x
    <3>1. CASE q.clear \/ c.seen = {}
      BY <1>1, <2>1, <3>1, ShownFields
    <3>2. CASE ~q.clear /\ c.seen # {}
      <4>1. /\ a.seen = c.seen \cup Names(q.items) /\ b.seen = a.seen /\ b.due = a.due
            /\ b.max = a.max /\ b.os = a.os /\ (b.again => a.again)
        <5>1. /\ a.max = MinTime(q.items) /\ a.os = Offset(q.items)
              /\ a.seen = c.seen \cup Names(q.items)
              /\ a.due = {i \in c.due : i.b \notin Names(q.items)}
              /\ a.again <=> c.again \/ Names(q.items) \cap c.seen # {}
          BY <3>2, ShownFields
        <5>2. ~r.clear /\ d.seen # {}
          BY <1>1, <2>1, <3>2
        <5>3. /\ b.max = MinTime(r.items) /\ b.os = Offset(r.items)
              /\ b.seen = d.seen \cup Names(r.items)
              /\ b.due = {i \in d.due : i.b \notin Names(r.items)}
              /\ b.again <=> d.again \/ Names(r.items) \cap d.seen # {}
          BY <1>1, <2>1, <5>2, ShownFields
        <5> HIDE DEF a, b
        <5> QED BY <1>1, <2>1, <5>1, <5>3
      <4>2. /\ a.amiss = c.amiss \cup q.amiss \cup Tag(q.list)
            /\ b.amiss = d.amiss \cup r.amiss \cup Tag(q.list)
        BY <1>1, <2>1, <3>2, ShownFields
      <4>3. d.amiss = c.amiss \cup x /\ r.amiss = q.amiss \cup x
        BY <1>1, <2>1
      <4>4. b.amiss = a.amiss \cup x
        <5> HIDE DEF a, b
        <5> QED BY <4>2, <4>3
      <4> QED BY <4>1, <4>4
    <3> QED BY <3>1, <3>2
  <2>3. a.max \in Nat /\ a.os \in Nat
    <3>1. a \in Client
      BY <1>3, ShownTyped
    <3> QED BY <3>1 DEF Client
  <2> HIDE DEF a, b
  <2>4. (GoesOn(F, a) => GoesOn(more, b)) /\ (Exact(F, a) => Exact(more, b))
    BY <2>2, <2>3, Delivered DEF x
  <2> HIDE DEF more
  <2>5. GetOK(more, d, r)
    BY <1>3, <2>1, <2>4 DEF GetOK, a, b
  <2> QED BY <2>5 DEF more, d, r, x
<1>4. CASE q.step = "none"
  BY <1>4 DEF GetOK
<1> QED BY <1>2, <1>3, <1>4 DEF Get

(***************************************************************************)
(* A page is answered                                                      *)
(***************************************************************************)

LEMMA PageAnswered ==
    ASSUME NEW F \in SUBSET Item, IsFiniteSet(F), OnePerNote(F),
           NEW c \in Client, ListOK(F, c),
           NEW q \in Get, SentOK(F, c, q),
           NEW items, items = PageOf(F, q.max, q.os), items # {},
           NEW a \in Get, a.clear = q.clear, a.list = q.list, a.items = items,
           a.due = (IF q.os = 0 THEN UpTo(F, q.max) \ items ELSE {}),
           a.amiss = (IF q.os > 0 /\ MinTime(items) = q.max THEN {"tied"} ELSE {})
    PROVE  GoesOn(F, Shown(c, a)) /\ Exact(F, Shown(c, a))
<1> DEFINE s == Shown(c, a)
<1>0. /\ q.max \in Nat /\ q.os \in Nat /\ q.list \in {"same", "grown", "replaced"}
      /\ items \subseteq F /\ s.max = MinTime(items) /\ s.os = Offset(items)
  <2>1. items \subseteq F
    BY DEF PageOf, UpTo
  <2> QED BY <2>1, ShownFields DEF Get
<1> HIDE DEF s
<1>1. ASSUME q.os <= Cardinality(AtTime(F, q.max))
      PROVE  /\ s.os <= Cardinality(AtTime(F, s.max))
             /\ \A i \in F : ~Passed(F, q, i) /\ i \notin items => ~Passed(F, s, i)
             /\ s.max # q.max \/ q.os = 0 => \A i \in items : Passed(F, s, i)
             /\ \A i \in F : Passed(F, q, i) => /\ i \notin items
                                                /\ s.max # q.max => Passed(F, s, i)
  BY <1>0, <1>1, PageStep
<1>2. CASE q.clear \/ c.seen = {}
  <2>1. q.os = 0
    BY <1>0, <1>2 DEF SentOK
  <2>2. /\ s.seen = Names(items) /\ s.due = UpTo(F, q.max) \ items
        /\ ~s.again /\ s.amiss = {}
    BY <1>2, <2>1, ShownFields DEF s
  <2>3. q.os <= Cardinality(AtTime(F, q.max))
    BY <2>1, FS_Subset, FS_CardinalityType DEF AtTime
  <2>4. ASSUME NEW i \in s.due PROVE i \in F /\ ~Passed(F, s, i)
    <3>1. i \in F /\ i \notin items /\ i.t <= q.max /\ i.t \in Nat
      BY <2>2, <2>4 DEF UpTo, Item
    <3>2. ~Passed(F, q, i)
      <4>1. Rank(F, q.max, i) \in Nat
        BY <1>0, <3>1, RankType
      <4> QED BY <1>0, <2>1, <3>1, <4>1 DEF Passed
    <3> QED BY <1>1, <2>3, <3>1, <3>2
  <2>5. ASSUME NEW b \in s.seen PROVE \E i \in F : i.b = b /\ Passed(F, s, i)
    BY <1>0, <1>1, <2>1, <2>2, <2>3, <2>5 DEF Names
  <2>6. s.os <= Cardinality(AtTime(F, s.max))
    BY <1>1, <2>3
  <2>7. GoesOn(F, s)
    BY <2>4, <2>6 DEF GoesOn
  <2>8. Exact(F, s)
    BY <2>2, <2>5 DEF Exact
  <2> QED BY <2>7, <2>8 DEF s
<1>3. CASE ~q.clear /\ c.seen # {}
  <2> DEFINE old == At(c, q)
  <2>1. /\ s.seen = c.seen \cup Names(items)
        /\ s.due = {i \in c.due : i.b \notin Names(items)}
        /\ s.again <=> c.again \/ Names(items) \cap c.seen # {}
        /\ s.amiss = c.amiss \cup a.amiss \cup Tag(q.list)
    BY <1>3, ShownFields DEF s
  <2>2. CASE q.list = "replaced"
    <3>1. "mixed" \in s.amiss
      BY <2>1, <2>2, Tagged
    <3> QED BY <3>1 DEF GoesOn, Exact, Unmoved, s
  <2>3. CASE q.list # "replaced"
    <3>1. q.os > 0 /\ GoesOn(F, old) /\ (q.list = "same" => Exact(F, old))
      BY <1>0, <1>3, <2>3 DEF SentOK
    <3>2. /\ old.max = q.max /\ old.os = q.os /\ old.seen = c.seen /\ old.due = c.due
          /\ old.again = c.again /\ old.amiss = c.amiss
      BY AtFields
    <3> HIDE DEF old
    <3>3. \A i : Passed(F, old, i) <=> Passed(F, q, i)
      BY <3>2 DEF Passed
    <3>4. ASSUME Unmoved(s)
          PROVE  /\ q.os <= Cardinality(AtTime(F, q.max))
                 /\ \A i \in c.due : i \in F /\ ~Passed(F, q, i)
      <4>1. Unmoved(old)
        BY <2>1, <3>2, <3>4 DEF Unmoved
      <4> QED BY <3>1, <3>2, <3>3, <4>1 DEF GoesOn
    <3>5. GoesOn(F, s)
      <4> SUFFICES ASSUME Unmoved(s)
                   PROVE  /\ s.os <= Cardinality(AtTime(F, s.max))
                          /\ \A i \in s.due : i \in F /\ ~Passed(F, s, i)
        BY DEF GoesOn
      <4>1. \A i \in s.due : i \in c.due /\ i \notin items
        BY <2>1 DEF Names
      <4> QED BY <1>1, <3>4, <4>1
    <3>6. Exact(F, s)
      <4> SUFFICES ASSUME s.amiss = {}
                   PROVE  /\ ~s.again
                          /\ \A b \in s.seen : \E i \in F : i.b = b /\ Passed(F, s, i)
        BY DEF Exact
      <4>1. c.amiss = {} /\ a.amiss = {} /\ q.list = "same"
        <5>1. q.list # "grown"
          BY <2>1, Tagged
        <5> QED BY <1>0, <2>1, <2>3, <5>1
      <4>2. s.max # q.max /\ Unmoved(s)
        BY <1>0, <3>1, <4>1 DEF Unmoved
      <4>3. ~c.again /\ \A b \in c.seen : \E i \in F : i.b = b /\ Passed(F, q, i)
        BY <3>1, <3>2, <3>3, <4>1 DEF Exact
      <4>4. /\ \A i \in items : Passed(F, s, i)
            /\ \A i \in F : Passed(F, q, i) => i \notin items /\ Passed(F, s, i)
        BY <1>1, <3>4, <4>2
      <4>5. Names(items) \cap c.seen = {}
        <5> SUFFICES ASSUME NEW b \in Names(items), b \in c.seen PROVE FALSE
          OBVIOUS
        <5>1. PICK i \in F : i.b = b /\ Passed(F, q, i)
          BY <4>3
        <5>2. PICK j \in items : j.b = b
          BY DEF Names
        <5>3. i = j
          BY <1>0, <5>1, <5>2 DEF OnePerNote
        <5> QED BY <4>4, <5>1, <5>2, <5>3
      <4>6. ASSUME NEW b \in Names(items) PROVE \E i \in F : i.b = b /\ Passed(F, s, i)
        BY <1>0, <4>4 DEF Names
      <4>7. ~s.again
        BY <2>1, <4>3, <4>5
      <4> QED BY <2>1, <4>3, <4>4, <4>6, <4>7
    <3> QED BY <3>5, <3>6 DEF s
  <2> QED BY <2>2, <2>3
<1> QED BY <1>2, <1>3

(***************************************************************************)
(* An answer arrives                                                       *)
(***************************************************************************)

LEMMA ListShown ==
    ASSUME NEW F, NEW c \in Client, NEW q \in Get, q.items # {}, IsFiniteSet(q.items),
           GoesOn(F, Shown(c, q)), Exact(F, Shown(c, q))
    PROVE  ListOK(F, Shown(c, q)) /\ Shown(c, q).seen # {}
<1>1. Names(q.items) # {}
  BY DEF Names
<1>2. Shown(c, q).seen # {}
  BY <1>1, ShownFields
<1> QED BY <1>2 DEF ListOK, Exact

\* What it is to the other requests of the page.
LEMMA GetShown ==
    ASSUME NEW F, NEW c \in Client, NEW q \in Get, q.items # {}, IsFiniteSet(q.items),
           NEW h \in Get, GetOK(F, c, h), NEW begins, begins <=> q.clear \/ c.seen = {}
    PROVE  GetOK(F, Shown(c, q), [h EXCEPT !.list = Behind(h, begins)])
<1> DEFINE s == Shown(c, q)
           l == Behind(h, begins)
           k == [h EXCEPT !.list = l]
<1>1. /\ l \in {"same", "grown", "replaced"} /\ l # "same"
      /\ l = "grown" => ~begins /\ h.list \in {"same", "grown"}
      /\ begins \/ h.list = "replaced" => l = "replaced"
  BY DEF Behind, Get
<1> HIDE DEF l
<1>2. /\ k \in Get /\ k.list = l /\ k.step = h.step /\ (k.clear <=> h.clear)
      /\ k.max = h.max /\ k.os = h.os /\ k.items = h.items /\ k.due = h.due
      /\ k.amiss = h.amiss
  BY <1>1 DEF Get
<1>3. /\ s \in Client /\ s.seen # {}
      /\ ~begins => s.due \subseteq c.due /\ c.amiss \subseteq s.amiss /\ c.seen # {}
  <2>1. Names(q.items) # {}
    BY DEF Names
  <2> QED BY <2>1, ShownTyped, ShownFields
<1> HIDE DEF s, k
<1>4. CASE h.step = "sent"
  <2>1. SentOK(F, c, h)
    BY <1>4 DEF GetOK
  <2>2. h.os \in Nat
    BY DEF Get
  <2>3. ~k.clear /\ k.os = 0 => k.list = "replaced"
    BY <1>1, <1>2, <2>1 DEF SentOK
  <2>4. ASSUME k.os > 0, k.list # "replaced" PROVE GoesOn(F, At(s, k))
    <3>1. l = "grown" /\ ~begins /\ h.list # "replaced"
      BY <1>1, <1>2, <2>4
    <3>2. GoesOn(F, At(c, h))
      BY <1>2, <2>1, <2>4, <3>1 DEF SentOK
    <3>3. /\ At(s, k).max = At(c, h).max /\ At(s, k).os = At(c, h).os
          /\ At(s, k).due \subseteq At(c, h).due
          /\ Unmoved(At(s, k)) => Unmoved(At(c, h))
      BY <1>2, <1>3, <3>1, AtFields DEF Unmoved
    <3> QED BY <3>2, <3>3, GoesOnLess
  <2>5. SentOK(F, s, k)
    BY <1>1, <1>2, <1>3, <2>1, <2>3, <2>4 DEF SentOK
  <2> QED BY <1>2, <1>4, <2>5 DEF GetOK, s, k, l
<1>5. CASE h.step = "answered"
  <2>0. GoesOn(F, Shown(c, h)) /\ Exact(F, Shown(c, h))
    BY <1>5 DEF GetOK
  <2> DEFINE a == Shown(c, h)
             b == Shown(s, k)
  <2>1. a.max = b.max /\ a.os = b.os
    BY <1>2, <1>3, ShownFields
  <2>2. CASE h.clear
    <3>1. a.seen = b.seen /\ a.due = b.due /\ (b.again => a.again) /\ a.amiss = b.amiss
      BY <1>2, <1>3, <2>2, ShownFields
    <3> HIDE DEF a, b
    <3>2. GoesOn(F, b) /\ Exact(F, b)
      BY <2>0, <2>1, <3>1, GoesOnLess, ExactSame DEF a, Unmoved
    <3> QED BY <1>2, <1>5, <3>2 DEF GetOK, s, k, l, b
  <2>3. CASE ~h.clear
    <3>1. /\ b.due = {i \in s.due : i.b \notin Names(h.items)}
          /\ b.amiss = s.amiss \cup h.amiss \cup Tag(l)
      BY <1>2, <1>3, <2>3, ShownFields
    <3>2. b.amiss # {}
      BY <1>1, <3>1, Tagged
    <3>3. GoesOn(F, b)
      <4>1. CASE l = "replaced"
        <5>1. "mixed" \in b.amiss
          BY <3>1, <4>1, Tagged
        <5> QED BY <5>1 DEF GoesOn, Unmoved
      <4>2. CASE l = "grown"
        <5>1. ~begins /\ h.list \in {"same", "grown"} /\ c.seen # {}
          BY <1>1, <1>3, <4>2
        <5>2. /\ a.due = {i \in c.due : i.b \notin Names(h.items)}
              /\ a.amiss \subseteq c.amiss \cup h.amiss \cup {"doubled"}
          BY <2>3, <5>1, ShownFields, Tagged
        <5>3. b.due \subseteq a.due /\ (Unmoved(b) => Unmoved(a))
          <6> HIDE DEF a, b
          <6> QED BY <1>3, <3>1, <5>1, <5>2 DEF Unmoved
        <5> HIDE DEF a, b
        <5> QED BY <2>0, <2>1, <5>3, GoesOnLess DEF a
      <4> QED BY <1>1, <4>1, <4>2
    <3> HIDE DEF b
    <3>4. Exact(F, b)
      BY <3>2 DEF Exact
    <3> QED BY <1>2, <1>5, <3>3, <3>4 DEF GetOK, s, k, l, b
  <2> QED BY <2>2, <2>3
<1>6. CASE h.step = "none"
  BY <1>2, <1>6 DEF GetOK, k, l
<1> QED BY <1>4, <1>5, <1>6 DEF Get

(***************************************************************************)
(* A page is asked for                                                     *)
(***************************************************************************)

\* A refresh moves the place of the list, and of nothing under way.
LEMMA Refreshed ==
    ASSUME NEW F, NEW c \in Client, NEW m \in Nat, ListOK(F, c)
    PROVE  LET d == [c EXCEPT !.max = m, !.os = 0] IN
           /\ ListOK(F, d)
           /\ \A q \in Get : GetOK(F, c, q) => GetOK(F, d, q)
<1> DEFINE d == [c EXCEPT !.max = m, !.os = 0]
<1>1. /\ d \in Client /\ d.os = 0 /\ d.seen = c.seen /\ d.due = c.due
      /\ d.again = c.again /\ d.amiss = c.amiss
  BY DEF Client
<1>2. ListOK(F, d)
  BY <1>1 DEF ListOK
<1>3. ASSUME NEW q PROVE At(d, q) = At(c, q) /\ Shown(d, q) = Shown(c, q)
  BY ZenonT(30) DEF At, Shown, Client
<1> HIDE DEF d
<1>4. ASSUME NEW q \in Get, GetOK(F, c, q) PROVE GetOK(F, d, q)
  BY <1>1, <1>3, <1>4 DEF GetOK, SentOK
<1> QED BY <1>2, <1>4 DEF d

\* The next page is asked for from the place of the list.
LEMMA Scrolled ==
    ASSUME NEW F, NEW c \in Client, ListOK(F, c),
           NEW q \in Get, q.step = "sent", ~q.clear, q.os = c.os,
           c.os > 0 => q.max = c.max,
           q.list = (IF c.os = 0 /\ c.seen # {} THEN "replaced" ELSE "same")
    PROVE  GetOK(F, c, q)
<1>1. c.os \in Nat
  BY DEF Client
<1>2. ASSUME q.os > 0 PROVE GoesOn(F, At(c, q)) /\ Exact(F, At(c, q))
  <2>1. GoesOn(F, c) /\ Exact(F, c)
    BY <1>2 DEF ListOK
  <2>2. /\ At(c, q).max = c.max /\ At(c, q).os = c.os /\ At(c, q).due = c.due
        /\ At(c, q).seen = c.seen /\ At(c, q).again = c.again /\ At(c, q).amiss = c.amiss
    BY <1>2, AtFields
  <2> QED BY <2>1, <2>2, GoesOnLess, ExactSame DEF Unmoved
<1>3. SentOK(F, c, q)
  BY <1>1, <1>2 DEF SentOK, ListOK
<1> QED BY <1>3 DEF GetOK

(***************************************************************************)
(* Steps                                                                   *)
(***************************************************************************)

\* The facts every step starts from.
LEMMA ScrollTypes ==
    ASSUME Typed
    PROVE  /\ feed \in [Fans -> SUBSET Item] /\ \A u \in Fans : IsFiniteSet(feed[u])
           /\ client \in [Fans -> Client] /\ get \in [Gets -> Get]
           /\ \A g \in Gets : get[g].step # "none" => get[g].user \in Fans
           /\ \A g \in Gets : get[g].step = "answered" =>
                get[g].items # {} /\ IsFiniteSet(get[g].items)
           /\ Readers \subseteq Fans /\ Times \subseteq Nat
  BY SocialAssumption DEF Typed, TypeOK, GetsInv

LEMMA NoGetOK ==
    ASSUME NEW F, NEW c
    PROVE  GetOK(F, c, NoGet)
  BY DEF GetOK, NoGet

LEMMA ScrollDeliver ==
    ASSUME Typed, ScrollInv, NEW p \in Requests, Deliver(p)
    PROVE  ScrollInv'
<1> DEFINE v    == req[p].user
           item == [b |-> req[p].b, t |-> req[p].t]
           x    == Upset(feed[v], item)
           more == {i \in feed[v] : i.b # item.b} \cup {item}
<1>1. CASE UNCHANGED <<feed, pageVars>>
  BY <1>1 DEF ScrollInv, pageVars
<1>2. CASE /\ feed' = [feed EXCEPT ![v] = more]
           /\ client' = [client EXCEPT ![v].amiss = @ \cup x]
           /\ get' = [g \in Gets |-> IF get[g].user = v /\ get[g].step = "answered"
                        THEN [get[g] EXCEPT !.amiss = @ \cup x] ELSE get[g]]
  <2>1. item \in Item
    BY DEF Typed, TypeOK, Request, Item
  <2>2. v \in Fans => /\ feed'[v] = more
                      /\ client'[v] = [client[v] EXCEPT !.amiss = @ \cup x]
    <3> HIDE DEF v, more, x
    <3> QED BY <1>2, ScrollTypes
  <2>3. \A u \in Fans : u # v => feed'[u] = feed[u] /\ client'[u] = client[u]
    <3> HIDE DEF v, more, x
    <3> QED BY <1>2, ScrollTypes
  <2>4. ASSUME NEW u \in Fans
        PROVE  OnePerNote(feed'[u]) /\ ListOK(feed'[u], client'[u])
    <3>1. OnePerNote(feed[u]) /\ ListOK(feed[u], client[u])
      BY DEF ScrollInv
    <3>2. CASE u # v
      BY <2>3, <3>1, <3>2
    <3>3. CASE u = v
      <4>1. OnePerNote(more) /\ ListOK(more, [client[v] EXCEPT !.amiss = @ \cup x])
        <5> HIDE DEF v, item
        <5> QED BY <2>1, <3>1, <3>3, ListDelivered, ScrollTypes DEF x, more
      <4> QED BY <2>2, <3>3, <4>1
    <3> QED BY <3>2, <3>3
  <2>5. ASSUME NEW g \in Gets
        PROVE  GetOK(feed'[get'[g].user], client'[get'[g].user], get'[g])
    <3> DEFINE q == get[g]
               r == IF q.step = "answered" THEN [q EXCEPT !.amiss = @ \cup x] ELSE q
    <3>1. q \in Get /\ GetOK(feed[q.user], client[q.user], q)
      BY ScrollTypes DEF ScrollInv
    <3>2. get'[g] = IF q.user = v THEN r ELSE q
      BY <1>2
    <3>3. r.user = q.user /\ r.step = q.step
      <4> HIDE DEF x
      <4> QED BY <3>1 DEF Get
    <3>4. CASE q.step = "none"
      BY <3>2, <3>3, <3>4 DEF GetOK
    <3>5. CASE q.step # "none" /\ q.user # v
      <4>1. q.user \in Fans
        BY <3>5, ScrollTypes
      <4> QED BY <2>3, <3>1, <3>2, <3>5, <4>1
    <3>6. CASE q.step # "none" /\ q.user = v
      <4>1. v \in Fans /\ (q.step = "answered" => q.items # {} /\ IsFiniteSet(q.items))
        BY <3>6, ScrollTypes
      <4>2. GetOK(more, [client[v] EXCEPT !.amiss = @ \cup x], r)
        <5> HIDE DEF v, item, q
        <5> QED BY <2>1, <3>1, <3>6, <4>1, GetDelivered, ScrollTypes DEF x, more
      <4> QED BY <2>2, <3>2, <3>3, <3>6, <4>1, <4>2
    <3> QED BY <3>4, <3>5, <3>6
  <2> QED BY <2>4, <2>5 DEF ScrollInv
<1> QED BY <1>1, <1>2 DEF Deliver

\* Nothing else that serves a request touches an inbox or a page.
LEMMA Elsewhere ==
    ASSUME NEW p \in Requests, Serve(p)
    PROVE  Deliver(p) \/ UNCHANGED <<feed, client, get>>
<1>1. CASE \/ \E u \in Fans : LikeStart(p, u) \/ \E op \in {"save", "remove"} : FollowStart(p, u, op)
           \/ SaveBlog(p)
  BY <1>1 DEF LikeStart, FollowStart, SaveBlog, feedVars, pageVars
<1>2. CASE LikeDb(p) \/ LikeRedis(p) \/ FollowDb(p) \/ FollowRedis(p)
  BY <1>2 DEF LikeDb, LikeRedis, FollowDb, FollowRedis, feedVars, pageVars
<1>3. CASE ListFans(p) \/ Stamp(p)
  BY <1>3 DEF ListFans, Stamp, feedVars, pageVars
<1> QED BY <1>1, <1>2, <1>3 DEF Serve

\* A step that changes one request and leaves the rest.
LEMMA OneGet ==
    ASSUME Typed, ScrollInv, NEW g \in Gets, NEW r,
           get' = [get EXCEPT ![g] = r], UNCHANGED <<feed, client>>,
           GetOK(feed[r.user], client[r.user], r)
    PROVE  ScrollInv'
<1>1. \A h \in Gets : get'[h] = IF h = g THEN r ELSE get[h]
  BY ScrollTypes
<1> QED BY <1>1 DEF ScrollInv

(***************************************************************************)
(* No time is 0, which the page would take for no minTime.                 *)
(***************************************************************************)
Timed == /\ \A u \in Fans : \A i \in feed[u] : i.t # 0
         /\ \A u \in Fans : client[u].os > 0 => client[u].max # 0
         /\ \A p \in Requests : req[p].op = "deliver" => req[p].t # 0
         /\ \A g \in Gets : get[g].step = "answered" => \A i \in get[g].items : i.t # 0

\* What is stamped carries the time of a clock.
LEMMA Stamped ==
    ASSUME TypeOK, NEW p \in Requests, Serve(p)
    PROVE  Others(p) /\ (req'[p].op = "deliver" => req'[p].t # 0)
<1>1. CASE LikeDb(p) \/ LikeRedis(p)
  <2>1. CASE LikeDb(p)
    BY <2>1, LikeDbMoves DEF Idle
  <2>2. CASE LikeRedis(p)
    BY <2>2, LikeRedisMoves DEF Idle
  <2> QED BY <1>1, <2>1, <2>2
<1>2. ASSUME NEW u \in Fans, LikeStart(p, u)
      PROVE  Others(p) /\ req'[p].op # "deliver"
  BY <1>2, StartMoves
<1>3. ASSUME NEW u \in Fans, NEW op \in {"save", "remove"}, FollowStart(p, u, op)
      PROVE  Others(p) /\ req'[p].op # "deliver"
  <2>1. Others(p) /\ req'[p] = Ask(u, op)
    BY <1>3, BeginMoves DEF FollowStart
  <2> QED BY <2>1 DEF Ask, Idle
<1>4. CASE FollowDb(p)
  BY <1>4, GotoMoves, EndMoves, ThrowMoves DEF FollowDb, Idle
<1>5. CASE FollowRedis(p)
  <2>1. End(p) \/ Throw(p)
    BY <1>5 DEF FollowRedis
  <2> QED BY <2>1, EndMoves, ThrowMoves DEF Idle
<1>6. CASE SaveBlog(p)
  <2>1. Others(p) /\ req'[p] = [Idle EXCEPT !.op = "list", !.b = blogs + 1]
    BY <1>6, BeginMoves DEF SaveBlog
  <2> QED BY <2>1 DEF Idle
<1>7. CASE ListFans(p)
  <2>1. CASE Throw(p)
    BY <2>1, ThrowMoves DEF Idle
  <2>2. CASE ~Throw(p)
    BY <1>7, <2>2 DEF ListFans, Others, TypeOK, Request
  <2> QED BY <2>1, <2>2
<1>8. CASE Stamp(p)
  <2>1. CASE End(p)
    BY <2>1, EndMoves DEF Idle
  <2>2. CASE ~End(p)
    <3>1. PICK row \in req[p].todo, now \in Times :
            req' = [req EXCEPT ![p].op = "deliver", ![p].user = row[1], ![p].t = now,
                               ![p].todo = @ \ {row}]
      BY <1>8, <2>2 DEF Stamp
    <3>2. Others(p)
      BY <3>1 DEF Others, TypeOK
    <3>3. req'[p].t = now /\ now # 0
      BY <3>1, SocialAssumption DEF TypeOK, Request
    <3> QED BY <3>2, <3>3
  <2> QED BY <2>1, <2>2
<1>9. CASE Deliver(p)
  <2>1. CASE Throw(p)
    BY <2>1, ThrowMoves DEF Idle
  <2>2. CASE ~Throw(p)
    BY <1>9, <2>2 DEF Deliver, Others, TypeOK, Request
  <2> QED BY <2>1, <2>2
<1> QED BY <1>1, <1>2, <1>3, <1>4, <1>5, <1>6, <1>7, <1>8, <1>9 DEF Serve

LEMMA TimedServe ==
    ASSUME Typed, Timed, NEW p \in Requests, Serve(p)
    PROVE  Timed'
<1>1. \A o \in Requests : req'[o].op = "deliver" => req'[o].t # 0
  BY Stamped DEF Timed, Typed, Others
<1>2. CASE UNCHANGED <<feed, client, get>>
  BY <1>1, <1>2 DEF Timed
<1>3. CASE Deliver(p) /\ ~UNCHANGED <<feed, client, get>>
  <2> DEFINE v    == req[p].user
             item == [b |-> req[p].b, t |-> req[p].t]
             x    == Upset(feed[v], item)
             more == {i \in feed[v] : i.b # item.b} \cup {item}
  <2>1. /\ feed' = [feed EXCEPT ![v] = more]
        /\ client' = [client EXCEPT ![v].amiss = @ \cup x]
        /\ get' = [g \in Gets |-> IF get[g].user = v /\ get[g].step = "answered"
                     THEN [get[g] EXCEPT !.amiss = @ \cup x] ELSE get[g]]
    BY <1>3 DEF Deliver, pageVars
  <2>2. req[p].op = "deliver" /\ item.t # 0
    BY <1>3 DEF Deliver, Timed
  <2>3. ASSUME NEW u \in Fans PROVE \A i \in feed'[u] : i.t # 0
    <3>1. feed'[u] = IF u = v THEN more ELSE feed[u]
      BY <2>1, ScrollTypes
    <3> QED BY <2>2, <3>1 DEF Timed
  <2>4. ASSUME NEW u \in Fans
        PROVE  client'[u].os = client[u].os /\ client'[u].max = client[u].max
    <3>1. client'[u] = IF u = v THEN [client[u] EXCEPT !.amiss = @ \cup x] ELSE client[u]
      <4> HIDE DEF x, v
      <4> QED BY <2>1, ScrollTypes
    <3> QED BY <3>1, ScrollTypes DEF Client
  <2>5. ASSUME NEW g \in Gets
        PROVE  get'[g].step = get[g].step /\ get'[g].items = get[g].items
    BY <2>1, ScrollTypes DEF Get
  <2> QED BY <1>1, <2>3, <2>4, <2>5 DEF Timed
<1> QED BY <1>2, <1>3, Elsewhere

LEMMA TimedPage ==
    ASSUME Typed, Timed, NEW g \in Gets,
           \/ \E u \in Readers, now \in Times : Refresh(g, u, now) \/ Scroll(g, u, now)
           \/ Answer(g) \/ Apply(g) \/ Lose(g)
    PROVE  Timed'
<1>0. UNCHANGED <<feed, req>>
  BY TypeScroll DEF Refresh, Scroll, Answer, Apply, Lose, feedVars
<1>1. ASSUME NEW u \in Fans PROVE client'[u].os > 0 => client'[u].max # 0
  <2>1. CASE client'[u] = client[u]
    BY <2>1 DEF Timed
  <2>2. ASSUME NEW w \in Readers, NEW now \in Times, Refresh(g, w, now), client'[u] # client[u]
        PROVE  client'[u].os = 0
    <3>1. client' = [client EXCEPT ![w] = [client[w] EXCEPT !.max = now + 1, !.os = 0]]
      BY <2>2 DEF Refresh
    <3> QED BY <2>2, <3>1, ScrollTypes DEF Client
  <2>3. ASSUME Apply(g), client'[u] # client[u]
        PROVE  client'[u].max # 0
    <3> DEFINE q == get[g]
    <3>1. q.step = "answered" /\ client' = [client EXCEPT ![q.user] = Shown(client[q.user], q)]
      BY <2>3 DEF Apply
    <3>2. /\ q \in Get /\ q.items # {} /\ IsFiniteSet(q.items) /\ q.items \in SUBSET Item
          /\ \A i \in q.items : i.t # 0
      BY <3>1, ScrollTypes DEF Timed, Get
    <3> HIDE DEF q
    <3>3. u = q.user /\ client'[u] = Shown(client[u], q)
      BY <2>3, <3>1, ScrollTypes
    <3>4. client'[u].max = MinTime(q.items)
      BY <3>2, <3>3, ShownFields, ScrollTypes
    <3>5. MinTime(q.items) # 0
      BY <3>2, PageTyped
    <3> QED BY <3>4, <3>5
  <2>4. CASE Answer(g) \/ Lose(g) \/ \E w \in Readers, now \in Times : Scroll(g, w, now)
    <3>1. client' = client
      BY <2>4 DEF Answer, Lose, Scroll
    <3> QED BY <2>1, <3>1
  <2> QED BY <2>1, <2>2, <2>3, <2>4
<1>2. ASSUME NEW h \in Gets, get'[h].step = "answered" PROVE \A i \in get'[h].items : i.t # 0
  <2>1. CASE get'[h].items = get[h].items /\ get'[h].step = get[h].step
    BY <1>2, <2>1 DEF Timed
  <2>2. ASSUME NEW u \in Readers, NEW now \in Times, Refresh(g, u, now) \/ Scroll(g, u, now)
        PROVE  get'[h] = get[h] \/ get'[h].step = "sent"
    <3>1. \E r : get' = [get EXCEPT ![g] = r] /\ r.step = "sent"
      <4>0. \A m : [[NoGet EXCEPT !.clear = TRUE, !.max = m]
                       EXCEPT !.step = "sent", !.user = u].step = "sent"
        BY DEF NoGet
      <4>1. CASE Refresh(g, u, now)
        <5>1. get' = [get EXCEPT ![g] = [[NoGet EXCEPT !.clear = TRUE, !.max = now + 1]
                                            EXCEPT !.step = "sent", !.user = u]]
          BY <4>1 DEF Refresh, SendGet
        <5> QED BY <4>0, <5>1
      <4>2. CASE Scroll(g, u, now)
        <5> DEFINE m == IF client[u].max = 0 THEN now + 1 ELSE client[u].max
                   l == IF client[u].os = 0 /\ client[u].seen # {} THEN "replaced"
                                                                  ELSE NoGet.list
                   rec == [[NoGet EXCEPT !.max = m, !.os = client[u].os, !.list = l]
                              EXCEPT !.step = "sent", !.user = u]
        <5>1. get' = [get EXCEPT ![g] = rec]
          BY <4>2 DEF Scroll, SendGet
        <5> HIDE DEF m, l
        <5>2. rec.step = "sent"
          BY DEF NoGet
        <5> HIDE DEF rec
        <5> QED BY <5>1, <5>2
      <4> QED BY <2>2, <4>1, <4>2
    <3> QED BY <3>1, ScrollTypes
  <2>3. CASE Answer(g)
    <3> DEFINE q     == get[g]
               items == PageOf(feed[q.user], q.max, q.os)
    <3>1. q \in Get /\ q.user \in Fans /\ items \subseteq feed[q.user]
      BY <2>3, ScrollTypes DEF Answer, PageOf, UpTo
    <3>2. CASE h # g
      <4>1. get'[h] = get[h]
        BY <2>3, <3>2, ScrollTypes DEF Answer
      <4> QED BY <2>1, <4>1
    <3>3. CASE h = g
      <4>1. get'[h].items = items
        <5>1. get'[h] = NoGet \/ get'[h].items = items
          BY <2>3, <3>1, <3>3, ScrollTypes DEF Answer, Get
        <5>2. NoGet.step = "none"
          BY DEF NoGet
        <5> QED BY <1>2, <5>1, <5>2
      <4> QED BY <3>1, <4>1 DEF Timed
    <3> QED BY <3>2, <3>3
  <2>4. CASE Apply(g)
    <3> DEFINE l == Behind(get[h], Begins(get[g]))
    <3>1. get'[h] = IF h = g THEN NoGet
                    ELSE IF get[h].user = get[g].user THEN [get[h] EXCEPT !.list = l] ELSE get[h]
      BY <2>4 DEF Apply
    <3>2. get[h] \in Get
      BY ScrollTypes
    <3> HIDE DEF l
    <3>3. get'[h] = NoGet \/ (get'[h].items = get[h].items /\ get'[h].step = get[h].step)
      BY <3>1, <3>2 DEF Get
    <3> QED BY <1>2, <2>1, <3>3 DEF NoGet
  <2>5. CASE Lose(g)
    <3>1. get'[h] = NoGet \/ get'[h] = get[h]
      BY <2>5, ScrollTypes DEF Lose
    <3> QED BY <1>2, <2>1, <3>1 DEF NoGet
  <2> QED BY <1>2, <2>1, <2>2, <2>3, <2>4, <2>5
<1> QED BY <1>0, <1>1, <1>2 DEF Timed

(***************************************************************************)
(* The steps of a page                                                     *)
(***************************************************************************)

LEMMA ScrollRefresh ==
    ASSUME Typed, ScrollInv, NEW g \in Gets, NEW u \in Readers, NEW now \in Times,
           Refresh(g, u, now)
    PROVE  ScrollInv'
<1> DEFINE r == [[NoGet EXCEPT !.clear = TRUE, !.max = now + 1] EXCEPT !.step = "sent", !.user = u]
           d == [client[u] EXCEPT !.max = now + 1, !.os = 0]
<1>0. u \in Fans /\ now + 1 \in Nat /\ client[u] \in Client
  BY ScrollTypes
<1>1. get' = [get EXCEPT ![g] = r] /\ client' = [client EXCEPT ![u] = d] /\ feed' = feed
  BY DEF Refresh, SendGet, feedVars
<1>2. r.user = u /\ r.step = "sent" /\ r.clear /\ r.os = 0
  BY DEF NoGet
<1>3. ListOK(feed[u], d) /\ \A q \in Get : GetOK(feed[u], client[u], q) => GetOK(feed[u], d, q)
  BY <1>0, Refreshed DEF ScrollInv
<1>4. GetOK(feed[u], d, r)
  BY <1>2 DEF GetOK, SentOK
<1> HIDE DEF r, d
<1>5. /\ \A h \in Gets : get'[h] = IF h = g THEN r ELSE get[h]
      /\ \A v \in Fans : client'[v] = IF v = u THEN d ELSE client[v]
  BY <1>0, <1>1, ScrollTypes
<1>6. ASSUME NEW h \in Gets PROVE GetOK(feed[get'[h].user], client'[get'[h].user], get'[h])
  <2>1. get[h] \in Get /\ GetOK(feed[get[h].user], client[get[h].user], get[h])
    BY ScrollTypes DEF ScrollInv
  <2>2. CASE h = g
    BY <1>0, <1>2, <1>4, <1>5, <2>2
  <2>3. CASE h # g /\ get[h].step = "none"
    BY <1>5, <2>3 DEF GetOK
  <2>4. CASE h # g /\ get[h].step # "none"
    <3>1. get[h].user \in Fans
      BY <2>4, ScrollTypes
    <3> QED BY <1>3, <1>5, <2>1, <2>4, <3>1
  <2> QED BY <2>2, <2>3, <2>4
<1> QED BY <1>1, <1>3, <1>5, <1>6 DEF ScrollInv

LEMMA ScrollScroll ==
    ASSUME Typed, Timed, ScrollInv, NEW g \in Gets, NEW u \in Readers, NEW now \in Times,
           Scroll(g, u, now)
    PROVE  ScrollInv'
<1> DEFINE c == client[u]
           l == IF c.os = 0 /\ c.seen # {} THEN "replaced" ELSE "same"
           m == IF c.max = 0 THEN now + 1 ELSE c.max
           r == [[NoGet EXCEPT !.max = m, !.os = c.os, !.list = l]
                    EXCEPT !.step = "sent", !.user = u]
<1>0. u \in Fans /\ c \in Client /\ m \in Nat /\ c.os \in Nat /\ l \in {"same", "replaced"}
  BY ScrollTypes DEF Client
<1>1. get' = [get EXCEPT ![g] = r] /\ UNCHANGED <<feed, client>>
  BY DEF Scroll, SendGet, feedVars, NoGet
<1> HIDE DEF l, m
<1>2. /\ r \in Get /\ r.user = u /\ r.step = "sent" /\ ~r.clear
      /\ r.max = m /\ r.os = c.os /\ r.list = l
  BY <1>0 DEF NoGet, Get
<1> HIDE DEF r
<1>3. r.os = c.os /\ (c.os > 0 => r.max = c.max)
  BY <1>0, <1>2 DEF Timed, m
<1>4. GetOK(feed[u], c, r)
  BY <1>0, <1>2, <1>3, Scrolled DEF ScrollInv, l
<1> QED BY <1>1, <1>2, <1>4, OneGet

LEMMA ScrollAnswer ==
    ASSUME Typed, ScrollInv, NEW g \in Gets, Answer(g)
    PROVE  ScrollInv'
<1> DEFINE q     == get[g]
           u     == q.user
           c     == client[u]
           items == PageOf(feed[u], q.max, q.os)
           due   == IF q.os = 0 THEN UpTo(feed[u], q.max) \ items ELSE {}
           amiss == IF q.os > 0 /\ MinTime(items) = q.max THEN {"tied"} ELSE {}
           a     == [q EXCEPT !.step = "answered", !.items = items, !.max = 0, !.os = 0,
                              !.due = due, !.amiss = amiss]
           r     == IF items = {} THEN NoGet ELSE a
<1>0. q.step = "sent" /\ u \in Fans /\ q \in Get /\ c \in Client
  BY ScrollTypes DEF Answer
<1>1. get' = [get EXCEPT ![g] = r] /\ UNCHANGED <<feed, client>>
  BY DEF Answer, feedVars
<1>2. CASE items = {}
  BY <1>1, <1>2, NoGetOK, OneGet
<1>3. CASE items # {}
  <2>1. items \subseteq Item /\ due \subseteq Item /\ amiss \subseteq {"moved", "tied"}
    <3>1. items \subseteq feed[u] /\ due \subseteq feed[u]
      BY DEF PageOf, UpTo
    <3> HIDE DEF items, due
    <3> QED BY <1>0, <3>1, ScrollTypes
  <2>2. /\ OnePerNote(feed[u]) /\ ListOK(feed[u], c) /\ SentOK(feed[u], c, q)
    BY <1>0 DEF ScrollInv, GetOK
  <2> HIDE DEF items, due, amiss
  <2>3. /\ a \in Get /\ a.user = u /\ a.step = "answered" /\ a.clear = q.clear
        /\ a.list = q.list /\ a.items = items /\ a.due = due /\ a.amiss = amiss
    BY <1>0, <2>1 DEF Get
  <2>4. r = a
    BY <1>3
  <2> HIDE DEF a, r, q, u
  <2>5. GoesOn(feed[u], Shown(c, a)) /\ Exact(feed[u], Shown(c, a))
    <3>1. feed[u] \in SUBSET Item /\ IsFiniteSet(feed[u])
      BY <1>0, ScrollTypes
    <3> HIDE DEF c
    <3> QED BY <1>0, <1>3, <2>2, <2>3, <3>1, PageAnswered DEF items, due, amiss
  <2>6. GetOK(feed[u], c, a)
    BY <2>3, <2>5 DEF GetOK
  <2> QED BY <1>1, <2>3, <2>4, <2>6, OneGet
<1> QED BY <1>2, <1>3

LEMMA ScrollApply ==
    ASSUME Typed, ScrollInv, NEW g \in Gets, Apply(g)
    PROVE  ScrollInv'
<1> DEFINE q == get[g]
           u == q.user
           c == client[u]
           s == Shown(c, q)
           b == Begins(q)
<1>0. /\ q.step = "answered" /\ u \in Fans /\ q \in Get /\ c \in Client
      /\ q.items # {} /\ IsFiniteSet(q.items)
      /\ b <=> q.clear \/ c.seen = {}
  BY ScrollTypes DEF Apply, Begins
<1>1. /\ feed' = feed /\ client' = [client EXCEPT ![u] = s]
      /\ \A h \in Gets : get'[h] = IF h = g THEN NoGet
                                   ELSE IF get[h].user = u
                                   THEN [get[h] EXCEPT !.list = Behind(get[h], b)] ELSE get[h]
  BY DEF Apply, feedVars
<1>2. GoesOn(feed[u], s) /\ Exact(feed[u], s)
  BY <1>0 DEF ScrollInv, GetOK
<1> HIDE DEF b
<1>3. ListOK(feed[u], s)
  BY <1>0, <1>2, ListShown
<1>4. \A h \in Get : GetOK(feed[u], c, h) =>
        GetOK(feed[u], s, [h EXCEPT !.list = Behind(h, b)])
  BY <1>0, GetShown
<1> HIDE DEF s
<1>5. \A v \in Fans : client'[v] = IF v = u THEN s ELSE client[v]
  <2> HIDE DEF q
  <2> QED BY <1>0, <1>1, ScrollTypes
<1>6. ASSUME NEW v \in Fans PROVE OnePerNote(feed'[v]) /\ ListOK(feed'[v], client'[v])
  BY <1>1, <1>3, <1>5 DEF ScrollInv
<1>7. ASSUME NEW h \in Gets PROVE GetOK(feed'[get'[h].user], client'[get'[h].user], get'[h])
  <2>1. get[h] \in Get /\ GetOK(feed[get[h].user], client[get[h].user], get[h])
    BY ScrollTypes DEF ScrollInv
  <2>2. CASE h = g
    BY <1>1, <2>2, NoGetOK
  <2>3. CASE h # g /\ get[h].user = u
    <3> DEFINE k == [get[h] EXCEPT !.list = Behind(get[h], b)]
    <3>1. get'[h] = k
      BY <1>1, <2>3
    <3>2. k.user = u
      BY <2>1, <2>3 DEF Get
    <3>3. GetOK(feed[u], s, k)
      BY <1>4, <2>1, <2>3
    <3> HIDE DEF k
    <3> QED BY <1>0, <1>1, <1>5, <3>1, <3>2, <3>3
  <2>4. CASE h # g /\ get[h].user # u
    <3>1. get'[h] = get[h]
      BY <1>1, <2>4
    <3>2. CASE get[h].step = "none"
      BY <3>1, <3>2 DEF GetOK
    <3>3. CASE get[h].step # "none"
      <4>1. get[h].user \in Fans
        BY <3>3, ScrollTypes
      <4> QED BY <1>1, <1>5, <2>1, <2>4, <3>1, <4>1
    <3> QED BY <3>2, <3>3
  <2> QED BY <2>2, <2>3, <2>4
<1> QED BY <1>6, <1>7 DEF ScrollInv

LEMMA ScrollLose ==
    ASSUME Typed, ScrollInv, NEW g \in Gets, Lose(g)
    PROVE  ScrollInv'
<1>1. get' = [get EXCEPT ![g] = NoGet] /\ UNCHANGED <<feed, client>>
  BY DEF Lose, feedVars
<1> QED BY <1>1, NoGetOK, OneGet

PageInv == Timed /\ ScrollInv

LEMMA PageStepInv == TypeInv /\ PageInv /\ [Next]_vars => PageInv'
<1> SUFFICES ASSUME TypeInv, PageInv, [Next]_vars PROVE PageInv'
  OBVIOUS
<1>0. Typed /\ Timed /\ ScrollInv
  BY DEF TypeInv, PageInv
<1>1. ASSUME NEW p \in Requests, Serve(p) PROVE PageInv'
  <2>1. Timed'
    BY <1>0, <1>1, TimedServe
  <2>2. ScrollInv'
    <3>1. CASE Deliver(p)
      BY <1>0, <3>1, ScrollDeliver
    <3>2. CASE UNCHANGED <<feed, client, get>>
      BY <1>0, <3>2 DEF ScrollInv
    <3> QED BY <1>1, <3>1, <3>2, Elsewhere
  <2> QED BY <2>1, <2>2 DEF PageInv
<1>2. ASSUME NEW g \in Gets,
             \/ \E u \in Readers, now \in Times : Refresh(g, u, now) \/ Scroll(g, u, now)
             \/ Answer(g) \/ Apply(g) \/ Lose(g)
      PROVE  PageInv'
  <2>1. Timed'
    BY <1>0, <1>2, TimedPage
  <2>2. ScrollInv'
    BY <1>0, <1>2, ScrollRefresh, ScrollScroll, ScrollAnswer, ScrollApply, ScrollLose
  <2> QED BY <2>1, <2>2 DEF PageInv
<1>3. CASE UNCHANGED vars
  BY <1>0, <1>3 DEF vars, feedVars, pageVars, PageInv, ScrollInv, Timed
<1> QED BY <1>1, <1>2, <1>3 DEF Next

LEMMA PageInit == Init => PageInv
<1> SUFFICES ASSUME Init PROVE PageInv
  OBVIOUS
<1>1. \A i \in Early : i.t # 0
  BY SocialAssumption DEF Early
<1>2. OnePerNote(Early) /\ OnePerNote({})
  BY DEF Early, OnePerNote
<1>3. \A u \in Fans : (feed[u] = Early \/ feed[u] = {}) /\ client[u] = NoList
  BY DEF Init
<1>4. \A g \in Gets : get[g] = NoGet
  BY DEF Init
<1>5. Timed
  BY <1>1, <1>3, <1>4 DEF Timed, Init, NoList, NoGet, Idle
<1>6. \A u \in Fans : OnePerNote(feed[u]) /\ ListOK(feed[u], client[u])
  BY <1>2, <1>3 DEF ListOK, NoList
<1> QED BY <1>4, <1>5, <1>6, NoGetOK DEF PageInv, ScrollInv

LEMMA PageInvAlways == Spec => []PageInv
  BY PageInit, PageStepInv, TypeInvAlways, PTL DEF Spec

\* A list skips nothing, whatever crosses it but a note pushed again and a page that
\* another list asked for, for every size of a page and of an inbox.
THEOREM NeverSkipsCorrect == Spec => []NeverSkips
<1>1. PageInv => NeverSkips
  BY DEF PageInv, ScrollInv, ListOK, GoesOn, Unmoved, NeverSkips
<1> QED BY <1>1, PageInvAlways, PTL

\* And shows nothing twice, if its pages were asked for one after the other and none
\* stayed within a millisecond.
THEOREM NeverRepeatsCorrect == Spec => []NeverRepeats
<1>1. PageInv => NeverRepeats
  BY DEF PageInv, ScrollInv, ListOK, NeverRepeats
<1> QED BY <1>1, PageInvAlways, PTL
=============================================================================

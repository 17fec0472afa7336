------------------------------- MODULE Social -------------------------------
(***************************************************************************)
(* Notes of one author and the fans around them: likes (tb_blog.liked and  *)
(* blog:liked:{id}), follows (tb_follow and follows:{user}), the fan-out   *)
(* of a new note to the inboxes feed:{user}, and the scrolling of an inbox *)
(* by the page info.html, whose requests are asynchronous.  Likes are      *)
(* those of one note, keys of different notes having nothing in common.    *)
(*                                                                         *)
(* None of these handlers is transactional: each is a few calls to MySQL   *)
(* and Redis, and requests interleave between them.  The clocks of the     *)
(* JVMs and of the browsers agree on nothing.                              *)
(***************************************************************************)
EXTENDS Integers, FiniteSets

CONSTANTS
    Fans,        \* users who like and follow
    Readers,     \* fans who scroll
    Requests,    \* threads that serve a POST or PUT
    Gets,        \* bound: requests of pages under way at once
    None,        \* no user
    Page,        \* notes per page (2)
    Backlog,     \* notes every early fan already has, two milliseconds apart
    EarlyFans,   \* fans who followed before them, and like the note
    MaxOps,      \* bound: requests other than pages
    Times,       \* bound: milliseconds the clocks show
    MaxFaults    \* bound: failing calls

ASSUME SocialAssumption ==
    /\ None \notin Fans
    /\ EarlyFans \subseteq Fans /\ Readers \subseteq Fans
    /\ IsFiniteSet(Fans) /\ IsFiniteSet(Requests)
    /\ Page \in Nat \ {0}
    /\ Times \subseteq Nat \ {0}
    /\ {Backlog, MaxOps, MaxFaults} \subseteq Nat

VARIABLES
    liked,     \* tb_blog.liked
    likes,     \* members of blog:liked:{id}
    rows,      \* fan -> number of rows of tb_follow for this author
    inSet,     \* fan -> is the author in follows:{fan}
    blogs,     \* notes in tb_blog, named 1..blogs
    feed,      \* fan -> inbox: notes with their times
    req,       \* request -> what it is doing
    client,    \* fan -> the scrolling page
    get,       \* connection -> the request of a page it carries
    ops, crossed, faults

likeVars   == <<liked, likes>>
followVars == <<rows, inSet>>
feedVars   == <<blogs, feed>>
pageVars   == <<client, get>>
vars == <<likeVars, followVars, feedVars, req, pageVars, ops, crossed, faults>>

----------------------------------------------------------------------------
(* Data                                                                    *)

Item == [b : Nat, t : Nat]

Idle == [op |-> "none", user |-> None, b |-> 0, t |-> 0, todo |-> {}]

\* What a request does next.  "add" and "sub" are a like and its withdrawal.
Request == [op   : {"none", "add", "sub", "zadd", "zrem", "save", "sadd", "remove",
                    "srem", "list", "push", "deliver"},
            user : Fans \cup {None},
            b    : Nat,                    \* the note being published
            t    : Nat,                    \* the time stamped on a push
            todo : SUBSET (Fans \X Nat)]   \* follow rows still to push to

\* What the page keeps: params {minTime, offset}, and the notes of its list.  For the
\* properties: what the inbox held for the list when it was begun and the list has not
\* shown, whether a note was added that was there, and what befell the list:
\*   moved    a note that was in the inbox came again, with another time
\*   tied     a note came in the millisecond of another, or a page ended in the
\*            millisecond in which it began, of which the offset counts that page only
\*   doubled  it was given a page asked for before the page above it had come
\*   mixed    it was given a page that was not asked for by this list
Client == [max : Nat, os : Nat, seen : SUBSET Nat, due : SUBSET Item, again : BOOLEAN,
           amiss : SUBSET {"moved", "tied", "doubled", "mixed"}]

NoList == [max |-> 0, os |-> 0, seen |-> {}, due |-> {}, again |-> FALSE, amiss |-> {}]

\* The GET of a page and its answer.  For the properties: what else the inbox held for a
\* list that begins, what befell the page, and what has become of the list that asked.
Get == [step  : {"none", "sent", "answered"},
        user  : Fans \cup {None},
        clear : BOOLEAN,
        max   : Nat,
        os    : Nat,
        items : SUBSET Item,
        due   : SUBSET Item,
        amiss : SUBSET {"moved", "tied"},
        list  : {"same", "grown", "replaced"}]

NoGet == [step |-> "none", user |-> None, clear |-> FALSE, max |-> 0, os |-> 0,
          items |-> {}, due |-> {}, amiss |-> {}, list |-> "same"]

Early == {[b |-> i, t |-> 2 * i] : i \in 1..Backlog}

Init ==
    /\ likes = EarlyFans /\ liked = Cardinality(EarlyFans)
    /\ rows  = [u \in Fans |-> IF u \in EarlyFans THEN 1 ELSE 0]
    /\ inSet = [u \in Fans |-> u \in EarlyFans]
    /\ blogs = Backlog
    /\ feed  = [u \in Fans |-> IF u \in EarlyFans THEN Early ELSE {}]
    /\ req   = [p \in Requests |-> Idle]
    /\ client = [u \in Fans |-> NoList]
    /\ get = [g \in Gets |-> NoGet]
    /\ ops = 0 /\ crossed = 0 /\ faults = 0

Fault == /\ faults < MaxFaults
         /\ faults' = faults + 1

Begin(p, rec) ==
    /\ req[p] = Idle
    /\ ops < MaxOps
    /\ ops' = ops + 1
    /\ req' = [req EXCEPT ![p] = rec]

Ask(u, op) == [Idle EXCEPT !.op = op, !.user = u]

Goto(p, op) == req' = [req EXCEPT ![p].op = op]
End(p)      == req' = [req EXCEPT ![p] = Idle]

\* A call throws, applied or not: nothing catches it, the rest of the request is
\* not done.
Throw(p) == Fault /\ End(p)

----------------------------------------------------------------------------
(* Likes: likeBlog                                                         *)

Liking(p)     == req[p].op \in {"add", "sub", "zadd", "zrem"}
LikesOf(u)    == {p \in Requests : Liking(p) /\ req[p].user = u}

\* ZSCORE decides what the request is.
LikeStart(p, u) ==
    /\ Begin(p, Ask(u, IF u \in likes THEN "sub" ELSE "add"))
    /\ crossed' = IF LikesOf(u) = {} THEN crossed ELSE crossed + 1
    /\ UNCHANGED <<likeVars, followVars, feedVars, pageVars, faults>>

\* Fault for TypeOK: the column is signed.
LikeDbSigned(p) ==
    /\ req[p].op \in {"add", "sub"}
    /\ liked' = IF req[p].op = "add" THEN liked + 1 ELSE liked - 1
    /\ Goto(p, IF req[p].op = "add" THEN "zadd" ELSE "zrem")
    /\ UNCHANGED <<likes, followVars, feedVars, pageVars, ops, crossed, faults>>

\* UPDATE ... liked = liked + 1 or - 1.  The column is unsigned: below 0 it throws.
LikeDb(p) ==
    LET after == IF req[p].op = "add" THEN liked + 1 ELSE liked - 1 IN
    /\ req[p].op \in {"add", "sub"}
    /\ \/ /\ after \in Nat
          /\ liked' = after
          /\ Goto(p, IF req[p].op = "add" THEN "zadd" ELSE "zrem")
          /\ UNCHANGED faults
       \/ /\ after \notin Nat
          /\ End(p)
          /\ UNCHANGED <<liked, faults>>
       \/ Throw(p) /\ liked' \in {liked, after} \cap Nat
    /\ UNCHANGED <<likes, followVars, feedVars, pageVars, ops, crossed>>

\* Fault for LikesDrift: the set is toggled by what it holds now.
LikeRedisToggles(p) ==
    /\ req[p].op \in {"zadd", "zrem"}
    /\ likes' = IF req[p].user \in likes THEN likes \ {req[p].user}
                                          ELSE likes \cup {req[p].user}
    /\ End(p)
    /\ UNCHANGED <<liked, followVars, feedVars, pageVars, ops, crossed, faults>>

\* ZADD or ZREM, as decided at the start.
LikeRedis(p) ==
    /\ req[p].op \in {"zadd", "zrem"}
    /\ LET after == IF req[p].op = "zadd" THEN likes \cup {req[p].user}
                                         ELSE likes \ {req[p].user}
       IN  \/ likes' = after /\ End(p) /\ UNCHANGED faults
           \/ Throw(p) /\ likes' \in {likes, after}
    /\ UNCHANGED <<liked, followVars, feedVars, pageVars, ops, crossed>>

----------------------------------------------------------------------------
(* Follows: follow                                                         *)

FollowStart(p, u, op) ==
    /\ Begin(p, Ask(u, op))
    /\ UNCHANGED <<likeVars, followVars, feedVars, pageVars, crossed, faults>>

\* INSERT: tb_follow has no unique key.  DELETE: every row; none is no success.
FollowDb(p) ==
    LET u     == req[p].user
        after == [rows EXCEPT ![u] = IF req[p].op = "save" THEN @ + 1 ELSE 0]
    IN
    /\ req[p].op \in {"save", "remove"}
    /\ \/ /\ rows' = after
          /\ \/ req[p].op = "save" /\ Goto(p, "sadd")
             \/ req[p].op = "remove" /\ rows[u] > 0 /\ Goto(p, "srem")
             \/ req[p].op = "remove" /\ rows[u] = 0 /\ End(p)
          /\ UNCHANGED faults
       \/ Throw(p) /\ rows' \in {rows, after}
    /\ UNCHANGED <<likeVars, inSet, feedVars, pageVars, ops, crossed>>

\* Fault for FollowedIsShared: SREM with the id as text, which removes the member
\* even if a later follow has its row already.
Removed(u) == FALSE

\* SREM is given the id as a Long, which the string serializer refuses: it throws
\* and the member stays.
Kept(u) == inSet[u]

FollowRedis(p) ==
    LET u == req[p].user IN
    /\ req[p].op \in {"sadd", "srem"}
    /\ LET after == [inSet EXCEPT ![u] = IF req[p].op = "sadd" THEN TRUE ELSE Kept(u)]
       IN  \/ inSet' = after /\ End(p) /\ UNCHANGED faults
           \/ Throw(p) /\ inSet' \in {inSet, after}
    /\ UNCHANGED <<likeVars, rows, feedVars, pageVars, ops, crossed>>

----------------------------------------------------------------------------
(* Publishing: saveBlog                                                    *)

\* The note is saved.
SaveBlog(p) ==
    /\ Begin(p, [Idle EXCEPT !.op = "list", !.b = blogs + 1])
    /\ blogs' = blogs + 1
    /\ UNCHANGED <<likeVars, followVars, feed, pageVars, crossed, faults>>

\* The follow rows of the author are listed, one push to come for each.
ListFans(p) ==
    /\ req[p].op = "list"
    /\ \/ /\ req' = [req EXCEPT ![p].op = "push",
                               ![p].todo = {f \in Fans \X (1..MaxOps+1) : f[2] <= rows[f[1]]}]
          /\ UNCHANGED faults
       \/ Throw(p)
    /\ UNCHANGED <<likeVars, followVars, feedVars, pageVars, ops, crossed>>

\* The next push takes the currentTimeMillis of its JVM; after the last the request ends.
Stamp(p) ==
    /\ req[p].op = "push"
    /\ \/ \E row \in req[p].todo, now \in Times :
            req' = [req EXCEPT ![p].op = "deliver", ![p].user = row[1], ![p].t = now,
                               ![p].todo = @ \ {row}]
       \/ req[p].todo = {} /\ End(p)
    /\ UNCHANGED <<likeVars, followVars, feedVars, pageVars, ops, crossed, faults>>

\* What a note that comes does to the lists taken from an inbox.
Upset(inbox, item) ==
    {x \in {"moved", "tied"} : \E i \in inbox :
        IF x = "moved" THEN i.b = item.b ELSE i.b # item.b /\ i.t = item.t}

\* ZADD: a note that is there already gets the new time.
Deliver(p) ==
    LET u    == req[p].user
        item == [b |-> req[p].b, t |-> req[p].t]
        x    == Upset(feed[u], item)
    IN  /\ req[p].op = "deliver"
        /\ \/ /\ feed' = [feed EXCEPT ![u] = {i \in @ : i.b # item.b} \cup {item}]
              /\ client' = [client EXCEPT ![u].amiss = @ \cup x]
              /\ get' = [g \in Gets |->
                   IF get[g].user = u /\ get[g].step = "answered"
                   THEN [get[g] EXCEPT !.amiss = @ \cup x] ELSE get[g]]
              /\ \/ /\ req' = [req EXCEPT ![p].op = "push", ![p].user = None, ![p].t = 0]
                    /\ UNCHANGED faults
                 \/ Throw(p)
           \/ Throw(p) /\ UNCHANGED <<feed, pageVars>>
        /\ UNCHANGED <<likeVars, followVars, blogs, ops, crossed>>

----------------------------------------------------------------------------
(* Scrolling: queryBlogsOfFollow of info.html, queryBlogOfFollow            *)

SendGet(g, u, rec) ==
    /\ get[g] = NoGet
    /\ get' = [get EXCEPT ![g] = [rec EXCEPT !.step = "sent", !.user = u]]

\* The tab is opened or pulled down: minTime = now + 1 and offset 0, at once.
Refresh(g, u, now) ==
    /\ SendGet(g, u, [NoGet EXCEPT !.clear = TRUE, !.max = now + 1])
    /\ client' = [client EXCEPT ![u].max = now + 1, ![u].os = 0]
    /\ UNCHANGED <<likeVars, followVars, feedVars, req, ops, crossed, faults>>

\* The bottom is reached: the next page, whatever is under way.  A page without
\* minTime asks from now on.  After a refresh that brought nothing the list is still
\* the old one, and the parameters are not.
Scroll(g, u, now) ==
    LET c == client[u] IN
    /\ SendGet(g, u, [NoGet EXCEPT !.max  = IF c.max = 0 THEN now + 1 ELSE c.max,
                                !.os   = c.os,
                                !.list = IF c.os = 0 /\ c.seen # {} THEN "replaced" ELSE @])
    /\ UNCHANGED <<likeVars, followVars, feedVars, client, req, ops, crossed, faults>>

\* Fault for NeverSkips: scores below minTime are taken and the offset is kept.
UpToStrict(inbox, max) == {i \in inbox : i.t < max}

\* Items with a score of at most max.
UpTo(inbox, max) == {i \in inbox : i.t <= max}

\* ZREVRANGEBYSCORE order: later first, ties by member, larger first.
Before(i, j) == i.t > j.t \/ (i.t = j.t /\ i.b > j.b)

\* How many items the LIMIT counts before an item.
Rank(inbox, max, i) == Cardinality({j \in UpTo(inbox, max) : Before(j, i)})

\* The LIMIT: skip os items, take a page of them.
PageOf(inbox, max, os) ==
    {i \in UpTo(inbox, max) :
        Rank(inbox, max, i) >= os /\ Rank(inbox, max, i) < os + Page}

Names(items) == {i.b : i \in items}

\* Fault for NeverRepeats: the offset is not counted.
OffsetOne(items) == 1

\* minTime is the time of the last item, the offset counts the items of this page that
\* have that time.
MinTime(items) == CHOOSE t \in {i.t : i \in items} : \A i \in items : t <= i.t
Offset(items)  == Cardinality({i \in items : i.t = MinTime(items)})

\* The inbox is read.  An empty page is answered by no data, which changes nothing.
Answer(g) ==
    LET q     == get[g]
        inbox == feed[q.user]
        items == PageOf(inbox, q.max, q.os)
    IN  /\ q.step = "sent"
        /\ get' = [get EXCEPT ![g] =
             IF items = {} THEN NoGet
             ELSE [q EXCEPT !.step  = "answered", !.items = items, !.max = 0, !.os = 0,
                            !.due   = IF q.os = 0 THEN UpTo(inbox, q.max) \ items ELSE {},
                            !.amiss = IF q.os > 0 /\ MinTime(items) = q.max
                                      THEN {"tied"} ELSE {}]]
        /\ UNCHANGED <<likeVars, followVars, feedVars, client, req, ops, crossed, faults>>

\* The page is put in the place of the list or added to it.
Begins(q) == q.clear \/ client[q.user].seen = {}

Shown(c, q) ==
    LET pos == [c EXCEPT !.max = MinTime(q.items), !.os = Offset(q.items)] IN
    IF q.clear \/ c.seen = {}
    THEN [pos EXCEPT !.seen = Names(q.items), !.due = q.due, !.again = FALSE,
                     !.amiss = q.amiss]
    ELSE [pos EXCEPT !.seen  = @ \cup Names(q.items),
                     !.due   = {i \in @ : i.b \notin Names(q.items)},
                     !.again = @ \/ Names(q.items) \cap c.seen # {},
                     !.amiss = @ \cup q.amiss
                                 \cup (CASE q.list = "same"     -> {}
                                         [] q.list = "grown"    -> {"doubled"}
                                         [] q.list = "replaced" -> {"mixed"})]

\* What the page does to the list that another request was sent by.
Behind(q, begins) == IF begins THEN "replaced" ELSE IF q.list = "same" THEN "grown" ELSE q.list

\* The answer arrives, in whatever order.
Apply(g) ==
    LET q == get[g]
        u == q.user
    IN  /\ q.step = "answered"
        /\ client' = [client EXCEPT ![u] = Shown(@, q)]
        /\ get' = [h \in Gets |->
             IF h = g THEN NoGet
             ELSE IF get[h].user = u
             THEN [get[h] EXCEPT !.list = Behind(get[h], Begins(q))] ELSE get[h]]
        /\ UNCHANGED <<likeVars, followVars, feedVars, req, ops, crossed, faults>>

\* The GET or its answer is lost, which is only logged.
Lose(g) ==
    /\ get[g] # NoGet
    /\ Fault
    /\ get' = [get EXCEPT ![g] = NoGet]
    /\ UNCHANGED <<likeVars, followVars, feedVars, client, req, ops, crossed>>

----------------------------------------------------------------------------
Serve(p) == \/ \E u \in Fans : LikeStart(p, u) \/ \E op \in {"save", "remove"} : FollowStart(p, u, op)
            \/ SaveBlog(p)
            \/ LikeDb(p) \/ LikeRedis(p) \/ FollowDb(p) \/ FollowRedis(p)
            \/ ListFans(p) \/ Stamp(p) \/ Deliver(p)

Next == \/ \E p \in Requests : Serve(p)
        \/ \E g \in Gets :
             \/ \E u \in Readers, now \in Times : Refresh(g, u, now) \/ Scroll(g, u, now)
             \/ Answer(g) \/ Apply(g) \/ Lose(g)

Spec == Init /\ [][Next]_vars

----------------------------------------------------------------------------
(* Properties                                                              *)

\* The type invariant.
TypeOK == /\ liked \in Nat
          /\ likes \subseteq Fans
          /\ rows \in [Fans -> Nat]
          /\ inSet \in [Fans -> BOOLEAN]
          /\ blogs \in Nat
          /\ feed \in [Fans -> SUBSET Item]
          /\ req \in [Requests -> Request]
          /\ client \in [Fans -> Client]
          /\ get \in [Gets -> Get]
          /\ ops \in Nat /\ crossed \in Nat /\ faults \in Nat

Doing(op) == Cardinality({p \in Requests : req[p].op = op})

\* By how much the counter and the set of likers disagree, requests that have done
\* the one and not yet the other allowed for.
Drift == liked - Cardinality(likes) - Doing("zadd") + Doing("zrem")

\* Likes of different users never disturb each other: the counter strays from the set
\* by at most one for every request that met another one of the same user in flight,
\* and one for every call that failed.
LikesDrift == Drift <= crossed + faults /\ -Drift <= crossed + faults

\* Whoever has a follow row has the author in the set that common follows are taken
\* from, no follow of theirs being under way and no call having failed, in whatever
\* order follows and unfollows of one user cross.
FollowedIsShared ==
    \A u \in Fans :
        /\ rows[u] > 0
        /\ faults = 0
        /\ \A p \in Requests : req[p].op = "sadd" => req[p].user # u
        => inSet[u]

\* An item is above the place where the next page begins.
Passed(inbox, c, i) == \/ i.t > c.max
                       \/ i.t = c.max /\ Rank(inbox, c.max, i) < c.os

\* A list skips nothing: what the inbox held for it when it was begun is shown before the
\* list goes on below it.  Notes arrive meanwhile, in one millisecond or late with an older
\* time, pages are asked for twice and answered in any order; only a note pushed again and
\* a page that crosses a refresh can leave a gap.
NeverSkips ==
    \A u \in Fans :
        client[u].os > 0 /\ client[u].amiss \cap {"moved", "mixed"} = {} =>
            \A i \in client[u].due : ~Passed(feed[u], client[u], i)

\* A list shows nothing twice, notes of one millisecond that were there when it was begun
\* included, unless a page was asked for while the one above it was under way or began and
\* ended within a millisecond.
NeverRepeats == \A u \in Fans : client[u].amiss = {} => ~client[u].again
=============================================================================

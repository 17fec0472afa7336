------------------------------ MODULE Session ------------------------------
(***************************************************************************)
(* The login of one phone number and its sessions: captcha, counter of     *)
(* failed logins and token hash in Redis, the account in MySQL, and the    *)
(* threads of the servers, each of which keeps the user of its request in  *)
(* a ThreadLocal that the first interceptor fills and, after the request,  *)
(* empties.                                                                *)
(*                                                                         *)
(* Every call to Redis or MySQL is a step.  A key with a TTL may expire at *)
(* any moment.  Captchas and tokens are numbered as they are drawn, and 0  *)
(* is neither.  What a rejected request reads and leaves alone is no step. *)
(* A call that throws after it took effect is one that takes effect and a  *)
(* throw at the next one.                                                  *)
(***************************************************************************)
EXTENDS Integers, FiniteSets

CONSTANTS
    Threads,     \* threads that serve requests, of any JVM
    FailMax,     \* LOGIN_CODE_FAIL_MAX
    MaxCodes,    \* bound: captchas drawn
    MaxTokens,   \* bound: tokens drawn
    MaxFaults    \* bound: failing calls

ASSUME SessionAssumption ==
    /\ IsFiniteSet(Threads)
    /\ FailMax \in Nat \ {0}
    /\ {MaxCodes, MaxTokens, MaxFaults} \subseteq Nat

Codes  == 1..MaxCodes
Tokens == 1..MaxTokens

VARIABLES
    limit,      \* is there a login:code:limit key
    code,       \* login:code, 0 when there is none
    drawn,      \* captchas drawn so far
    fails,      \* login:code:fail, 0 when there is none
    timed,      \* does login:code:fail have a TTL
    account,    \* is there a row of tb_user
    issued,     \* tokens drawn so far
    session,    \* token -> "none", a hash without TTL, or one with it
    thread,     \* thread -> its request, and the user in its UserHolder
    uses,       \* captcha -> logins it was answered a token for
    met,        \* captchas that two logins held at once before either deleted it
    told,       \* tokens that were answered
    gone,       \* tokens whose logout was answered
    faults

redis == <<limit, code, drawn, fails, timed, issued, session>>
answered == <<uses, met, told, gone>>
vars  == <<redis, account, thread, answered, faults>>

Idle == "idle"

\* The next call of a request, what it carries, and the UserHolder.
Steps == {Idle, "send", "compare", "incr", "expire", "consume", "reset", "select", "create",
          "put", "live", "refresh", "gate", "delete"}
Requests == [pc: Steps, code: 0..MaxCodes, token: 0..MaxTokens, user: 0..MaxTokens]

\* The type invariant.
TypeOK ==
    /\ limit \in BOOLEAN
    /\ code \in 0..MaxCodes
    /\ drawn \in 0..MaxCodes
    /\ fails \in Nat
    /\ timed \in BOOLEAN
    /\ account \in BOOLEAN
    /\ issued \in 0..MaxTokens
    /\ session \in [Tokens -> {"none", "untimed", "timed"}]
    /\ thread \in [Threads -> Requests]
    /\ uses \in [Codes -> Nat]
    /\ met \subseteq Codes
    /\ told \subseteq Tokens
    /\ gone \subseteq Tokens
    /\ faults \in 0..MaxFaults

Init ==
    /\ limit = FALSE /\ code = 0 /\ drawn = 0
    /\ fails = 0 /\ timed = FALSE
    /\ account = FALSE
    /\ issued = 0
    /\ session = [t \in Tokens |-> "none"]
    /\ thread = [s \in Threads |-> [pc |-> Idle, code |-> 0, token |-> 0, user |-> 0]]
    /\ uses = [c \in Codes |-> 0] /\ met = {} /\ told = {} /\ gone = {}
    /\ faults = 0

----------------------------------------------------------------------------
(* Threads                                                                 *)

At(s, pc) == thread[s].pc = pc
To(s, pc, c, t, u) ==
    thread' = [thread EXCEPT ![s] = [pc |-> pc, code |-> c, token |-> t, user |-> u]]
Goto(s, pc) == To(s, pc, thread[s].code, thread[s].token, thread[s].user)

\* Fault for ActsAsItself: nobody empties the UserHolder.
DoneLeaks(s) == To(s, Idle, 0, 0, thread[s].user)

\* The request ends and afterCompletion empties the UserHolder.
Done(s) == To(s, Idle, 0, 0, 0)

\* A call throws.  Spring calls afterCompletion only for interceptors whose
\* preHandle returned, so a refresh that throws leaves its user behind.
Throw(s) ==
    /\ ~At(s, Idle)
    /\ faults < MaxFaults
    /\ faults' = faults + 1
    /\ IF At(s, "refresh") THEN To(s, Idle, 0, 0, thread[s].user) ELSE Done(s)
    /\ UNCHANGED <<redis, account, answered>>

----------------------------------------------------------------------------
(* sendCode                                                                *)

\* SET NX of the limit; a request that finds the key is refused.  The others
\* draw a captcha.
SetLimit(s) ==
    /\ At(s, Idle)
    /\ ~limit
    /\ drawn < MaxCodes
    /\ limit' = TRUE
    /\ drawn' = drawn + 1
    /\ To(s, "send", drawn + 1, 0, thread[s].user)
    /\ UNCHANGED <<code, fails, timed, issued, session, account, answered, faults>>

Send(s) ==
    /\ At(s, "send")
    /\ code' = thread[s].code
    /\ Done(s)
    /\ UNCHANGED <<limit, drawn, fails, timed, issued, session, account, answered, faults>>

----------------------------------------------------------------------------
(* login                                                                   *)

\* Fault for FailuresBounded: the comparison is off by one.
OpenOnceMore == fails <= FailMax

Open == fails < FailMax

\* The counter lets the request pass.  It brings a captcha it has seen, or a
\* wrong one.
Attempt(s, c) ==
    /\ At(s, Idle)
    /\ Open
    /\ To(s, "compare", c, 0, thread[s].user)
    /\ UNCHANGED <<redis, account, answered, faults>>

\* The logins that compared this captcha and have not deleted it.
Holding(c) == {q \in Threads : At(q, "consume") /\ thread[q].code = c}

Compare(s) ==
    LET c == thread[s].code
        right == code # 0 /\ code = c
    IN
    /\ At(s, "compare")
    /\ Goto(s, IF right THEN "consume" ELSE "incr")
    /\ met' = IF right /\ Holding(c) # {} THEN met \cup {c} ELSE met
    /\ UNCHANGED <<redis, account, uses, told, gone, faults>>

\* Fault for LockoutLifts: the first count is taken to be zero.
IncrFromZero(s) ==
    /\ At(s, "incr")
    /\ fails' = fails + 1
    /\ IF fails' = 0 THEN Goto(s, "expire") ELSE Done(s)
    /\ UNCHANGED <<limit, code, drawn, timed, issued, session, account, answered, faults>>

\* INCR creates the key without a TTL and keeps the TTL of an existing one.
Incr(s) ==
    /\ At(s, "incr")
    /\ fails' = fails + 1
    /\ IF fails = 0 THEN Goto(s, "expire") ELSE Done(s)
    /\ UNCHANGED <<limit, code, drawn, timed, issued, session, account, answered, faults>>

\* EXPIRE does nothing when the key is gone.
Expire(s) ==
    /\ At(s, "expire")
    /\ timed' = (fails > 0)
    /\ Done(s)
    /\ UNCHANGED <<limit, code, drawn, fails, issued, session, account, answered, faults>>

\* Fault for CaptchaOnce: the captcha is left to its TTL.
ConsumeLater(s) ==
    /\ At(s, "consume")
    /\ Goto(s, "reset")
    /\ UNCHANGED <<redis, account, answered, faults>>

\* The captcha is deleted, whichever is there by now.
Consume(s) ==
    /\ At(s, "consume")
    /\ code' = 0
    /\ Goto(s, "reset")
    /\ UNCHANGED <<limit, drawn, fails, timed, issued, session, account, answered, faults>>

\* Fault for TypeOK: a success takes one failure back.
ResetOne(s) ==
    /\ At(s, "reset")
    /\ fails' = fails - 1
    /\ timed' = FALSE
    /\ Goto(s, "select")
    /\ UNCHANGED <<limit, code, drawn, issued, session, account, answered, faults>>

Reset(s) ==
    /\ At(s, "reset")
    /\ fails' = 0
    /\ timed' = FALSE
    /\ Goto(s, "select")
    /\ UNCHANGED <<limit, code, drawn, issued, session, account, answered, faults>>

Select(s) ==
    /\ At(s, "select")
    /\ Goto(s, IF account THEN "put" ELSE "create")
    /\ UNCHANGED <<redis, account, answered, faults>>

\* The unique key on phone refuses a second row, and the login throws.
Create(s) ==
    /\ At(s, "create")
    /\ account' = TRUE
    /\ IF account THEN Done(s) ELSE Goto(s, "put")
    /\ UNCHANGED <<redis, answered, faults>>

\* A new token; its hash has no TTL yet.
Put(s) ==
    /\ At(s, "put")
    /\ issued < MaxTokens
    /\ issued' = issued + 1
    /\ session' = [session EXCEPT ![issued + 1] = "untimed"]
    /\ To(s, "live", thread[s].code, issued + 1, thread[s].user)
    /\ UNCHANGED <<limit, code, drawn, fails, timed, account, answered, faults>>

Live(s) ==
    LET t == thread[s].token IN
    /\ At(s, "live")
    /\ session' = [session EXCEPT ![t] = "timed"]
    /\ told' = told \cup {t}
    /\ uses' = [uses EXCEPT ![thread[s].code] = @ + 1]
    /\ Done(s)
    /\ UNCHANGED <<limit, code, drawn, fails, timed, issued, account, met, gone, faults>>

----------------------------------------------------------------------------
(* Requests with a token, or without                                       *)

\* RefreshTokenInterceptor reads the hash of the token and fills the
\* UserHolder; without a token or a hash it leaves the UserHolder alone.
Enter(s, t) ==
    /\ At(s, Idle)
    /\ IF t # 0 /\ session[t] # "none"
       THEN To(s, "refresh", 0, t, t)
       ELSE To(s, "gate", 0, t, thread[s].user)
    /\ UNCHANGED <<redis, account, answered, faults>>

\* Fault for SessionsEnd: the hash that was read is written again.
RefreshPuts(s) ==
    LET t == thread[s].token IN
    /\ At(s, "refresh")
    /\ session' = [session EXCEPT ![t] = "timed"]
    /\ Goto(s, "gate")
    /\ UNCHANGED <<limit, code, drawn, fails, timed, issued, account, answered, faults>>

\* EXPIRE again; it does nothing when the hash is gone by now.
Refresh(s) ==
    LET t == thread[s].token IN
    /\ At(s, "refresh")
    /\ session' = [session EXCEPT ![t] = IF @ = "none" THEN @ ELSE "timed"]
    /\ Goto(s, "gate")
    /\ UNCHANGED <<limit, code, drawn, fails, timed, issued, account, answered, faults>>

\* LoginInterceptor turns away whoever has no user; the others reach their
\* handler, which is logout or one that leaves the session alone.
Gate(s) ==
    /\ At(s, "gate")
    /\ \/ Done(s)
       \/ thread[s].user # 0 /\ thread[s].token # 0 /\ Goto(s, "delete")
    /\ UNCHANGED <<redis, account, answered, faults>>

\* logout
Delete(s) ==
    LET t == thread[s].token IN
    /\ At(s, "delete")
    /\ session' = [session EXCEPT ![t] = "none"]
    /\ gone' = gone \cup {t}
    /\ Done(s)
    /\ UNCHANGED <<limit, code, drawn, fails, timed, issued, account, uses, met, told, faults>>

----------------------------------------------------------------------------
(* TTLs                                                                    *)

LimitEnds ==
    /\ limit /\ limit' = FALSE
    /\ UNCHANGED <<code, drawn, fails, timed, issued, session, account, thread, answered, faults>>

CodeEnds ==
    /\ code # 0 /\ code' = 0
    /\ UNCHANGED <<limit, drawn, fails, timed, issued, session, account, thread, answered, faults>>

FailsEnd ==
    /\ timed /\ timed' = FALSE /\ fails' = 0
    /\ UNCHANGED <<limit, code, drawn, issued, session, account, thread, answered, faults>>

SessionEnds(t) ==
    /\ session[t] = "timed"
    /\ session' = [session EXCEPT ![t] = "none"]
    /\ UNCHANGED <<limit, code, drawn, fails, timed, issued, account, thread, answered, faults>>

----------------------------------------------------------------------------
(* The login and its sessions                                              *)

\* The thread's request goes on.
Goes(s) ==
    \/ Send(s) \/ Compare(s) \/ Incr(s) \/ Expire(s) \/ Consume(s) \/ Reset(s)
    \/ Select(s) \/ Create(s) \/ Put(s) \/ Live(s)
    \/ Refresh(s) \/ Gate(s) \/ Delete(s)

Next ==
    \/ \E s \in Threads :
         \/ SetLimit(s)
         \/ \E c \in 0..drawn : Attempt(s, c)
         \/ \E t \in {0} \cup told : Enter(s, t)
         \/ Goes(s)
         \/ Throw(s)
    \/ LimitEnds \/ CodeEnds \/ FailsEnd
    \/ \E t \in Tokens : SessionEnds(t)

Spec == Init /\ [][Next]_vars

\* Calls are blocking calls with time limits, and Redis expires its keys.
FairSpec ==
    /\ Spec
    /\ \A s \in Threads : WF_vars(Goes(s))
    /\ WF_vars(FailsEnd)

----------------------------------------------------------------------------
(* Properties                                                              *)

\* The counter is read long before it is raised.  Logins that pass it together
\* can raise it above the limit, but each only once.
FailuresBounded == fails < FailMax + Cardinality(Threads)

\* A captcha is compared and deleted by two calls.  It buys a second token only
\* for logins that both compared it before either deleted it, never more than
\* one for each thread, and none once a login was answered, whatever other
\* logins and sendCode do to its key meanwhile.
CaptchaOnce == \A c \in Codes :
    /\ uses[c] > 1 => c \in met
    /\ uses[c] <= Cardinality(Threads)
    /\ code = c => uses[c] = 0

\* A session that its user knows ends by itself, and one whose logout was
\* answered does not come back through a request that read it before.
SessionsEnd ==
    /\ \A t \in told : session[t] # "untimed"
    /\ \A t \in gone : session[t] = "none"

\* As long as no call fails, a request that reaches the gate or a handler acts
\* as the user of its own token, or as nobody.
ActsAsItself ==
    faults = 0 => \A s \in Threads :
        thread[s].pc \in {"gate", "delete"} => thread[s].user \in {0, thread[s].token}

\* Logins that are closed because of failures open again after a while, unless
\* a call failed: the one that gives the counter its TTL may be lost.
LockoutLifts == (~Open) ~> (Open \/ faults > 0)
=============================================================================

--------------------------- MODULE SessionProofs ---------------------------
(***************************************************************************)
(* What holds of the login of one phone number and of its sessions, for    *)
(* every number of threads, captchas, tokens and failing calls.            *)
(***************************************************************************)
EXTENDS Session, FiniteSetTheorems, TLAPS

----------------------------------------------------------------------------
(* Types                                                                   *)

\* The threads that are past the captcha.
After == {"reset", "select", "create", "put", "live"}

\* A thread that is about to use a captcha or a token has one.
Named ==
    \A s \in Threads :
        /\ thread[s].pc \in {"send", "consume"} \cup After => thread[s].code \in 1..drawn
        /\ thread[s].pc \in {"refresh", "gate", "delete"} => thread[s].token \in told \cup {0}
        /\ thread[s].pc \in {"refresh", "delete"} => thread[s].token # 0
        /\ thread[s].pc = "live" => thread[s].token \in 1..issued

TypeInv ==
    /\ TypeOK
    /\ code \in 0..drawn
    /\ told \subseteq 1..issued
    /\ gone \subseteq told
    /\ Named

\* Only the thread that moves changes.
Others(s) == \A q \in Threads \ {s} : thread'[q] = thread[q]

LEMMA ToMoves ==
    ASSUME TypeOK, NEW s \in Threads, NEW pc \in Steps, NEW c \in 0..MaxCodes,
           NEW t \in 0..MaxTokens, NEW u \in 0..MaxTokens, To(s, pc, c, t, u)
    PROVE  /\ thread' \in [Threads -> Requests]
           /\ Others(s)
           /\ thread'[s] = [pc |-> pc, code |-> c, token |-> t, user |-> u]
           /\ thread'[s].pc = pc /\ thread'[s].code = c
           /\ thread'[s].token = t /\ thread'[s].user = u
  BY DEF TypeOK, Requests, Others, To

LEMMA NamedTo ==
    ASSUME TypeInv, NEW s \in Threads, NEW pc \in Steps, NEW c \in 0..MaxCodes,
           NEW t \in 0..MaxTokens, NEW u \in 0..MaxTokens, To(s, pc, c, t, u),
           drawn' \in Nat, issued' \in Nat, drawn' >= drawn, issued' >= issued, told \subseteq told',
           pc \in {"send", "consume"} \cup After => c \in 1..drawn',
           pc \in {"refresh", "gate", "delete"} => t \in told' \cup {0},
           pc \in {"refresh", "delete"} => t # 0,
           pc = "live" => t \in 1..issued'
    PROVE  thread' \in [Threads -> Requests] /\ Named'
<1>1. /\ thread' \in [Threads -> Requests]
      /\ Others(s)
      /\ thread'[s] = [pc |-> pc, code |-> c, token |-> t, user |-> u]
  BY ToMoves DEF TypeInv
<1>2. drawn \in Nat /\ issued \in Nat
  BY SessionAssumption DEF TypeInv, TypeOK
<1>3. ASSUME NEW q \in Threads \ {s}
      PROVE  /\ thread'[q].pc \in {"send", "consume"} \cup After => thread'[q].code \in 1..drawn'
             /\ thread'[q].pc \in {"refresh", "gate", "delete"} => thread'[q].token \in told' \cup {0}
             /\ thread'[q].pc \in {"refresh", "delete"} => thread'[q].token # 0
             /\ thread'[q].pc = "live" => thread'[q].token \in 1..issued'
  <2>1. thread'[q] = thread[q]
    BY <1>1 DEF Others
  <2>2. 1..drawn \subseteq 1..drawn' /\ 1..issued \subseteq 1..issued'
    BY <1>2
  <2>3. Named
    BY DEF TypeInv
  <2> QED BY <2>1, <2>2, <2>3 DEF Named
<1> QED BY <1>1, <1>3 DEF Named

\* Everything but the threads.
Data ==
    /\ limit \in BOOLEAN /\ timed \in BOOLEAN /\ account \in BOOLEAN
    /\ drawn \in 0..MaxCodes /\ code \in 0..drawn
    /\ fails \in Nat
    /\ issued \in 0..MaxTokens
    /\ session \in [Tokens -> {"none", "untimed", "timed"}]
    /\ uses \in [Codes -> Nat] /\ met \subseteq Codes
    /\ told \subseteq 1..issued /\ gone \subseteq told
    /\ faults \in 0..MaxFaults

LEMMA Parts ==
    /\ TypeInv => Data /\ thread \in [Threads -> Requests] /\ Named
    /\ Data /\ thread \in [Threads -> Requests] /\ Named => TypeInv
  BY SessionAssumption DEF TypeInv, TypeOK, Data, Tokens

LEMMA TypeStep == TypeInv /\ [Next]_vars => TypeInv'
<1> DEFINE ThreadsOK == thread \in [Threads -> Requests] /\ Named
<1> SUFFICES ASSUME TypeInv, [Next]_vars PROVE Data' /\ ThreadsOK'
  BY SessionAssumption DEF TypeInv, TypeOK, Data, Tokens
<1>0. /\ Data /\ Named
      /\ \A s \in Threads : /\ thread[s].pc \in Steps /\ thread[s].code \in 0..MaxCodes
                             /\ thread[s].token \in 0..MaxTokens
                             /\ thread[s].user \in 0..MaxTokens
  BY Parts DEF Requests
<1>1. ASSUME NEW s \in Threads, SetLimit(s) PROVE Data' /\ ThreadsOK'
  <2>1. Data'
    BY <1>0, <1>1, SessionAssumption DEF SetLimit, Data, answered
  <2>2. ThreadsOK'
    BY <1>0, <1>1, SessionAssumption, NamedTo DEF SetLimit, Data, After, Steps, answered
  <2> QED BY <2>1, <2>2
<1>2. ASSUME NEW s \in Threads, NEW c \in 0..drawn, Attempt(s, c) PROVE Data' /\ ThreadsOK'
  <2>1. Data'
    BY <1>0, <1>2 DEF Attempt, Data, redis, answered
  <2>2. ThreadsOK'
    BY <1>0, <1>2, SessionAssumption, NamedTo DEF Attempt, Data, After, Steps, redis, answered
  <2> QED BY <2>1, <2>2
<1>3. ASSUME NEW s \in Threads, NEW t \in {0} \cup told, Enter(s, t) PROVE Data' /\ ThreadsOK'
  <2>1. Data'
    BY <1>0, <1>3 DEF Enter, Data, redis, answered
  <2>2. ThreadsOK'
    <3>1. /\ t \in 0..MaxTokens /\ 0 \in 0..MaxCodes /\ {"refresh", "gate"} \subseteq Steps
          /\ drawn \in Nat /\ issued \in Nat /\ thread[s].user \in 0..MaxTokens
      BY <1>0, SessionAssumption DEF Data, Steps
    <3>2. UNCHANGED <<drawn, issued, told>>
      BY <1>3 DEF Enter, redis, answered
    <3>3. CASE t # 0 /\ session[t] # "none"
      <4>1. To(s, "refresh", 0, t, t)
        BY <1>3, <3>3 DEF Enter
      <4> QED BY <3>1, <3>2, <3>3, <4>1, NamedTo DEF After
    <3>4. CASE ~(t # 0 /\ session[t] # "none")
      <4>1. To(s, "gate", 0, t, thread[s].user)
        BY <1>3, <3>4 DEF Enter
      <4> QED BY <3>1, <3>2, <4>1, NamedTo DEF After
    <3> QED BY <3>3, <3>4
  <2> QED BY <2>1, <2>2
<1>4. ASSUME NEW s \in Threads, Throw(s) PROVE Data' /\ ThreadsOK'
  <2>1. Data'
    BY <1>0, <1>4, SessionAssumption DEF Throw, Data, redis, answered
  <2>2. ThreadsOK'
    BY <1>0, <1>4, SessionAssumption, NamedTo DEF Throw, Done, Idle, Data, After, Steps, redis, answered
  <2> QED BY <2>1, <2>2
<1>5. ASSUME NEW s \in Threads, Goes(s) PROVE Data' /\ ThreadsOK'
  <2>1. CASE Send(s)
    <3>1. Data'
      BY <1>0, <2>1, SessionAssumption DEF Send, At, Data, Named, After, Codes, Tokens, answered
    <3>2. ThreadsOK'
      BY <1>0, <2>1, SessionAssumption, NamedTo
         DEF Send, At, Done, Idle, Data, Named, After, Steps, answered
    <3> QED BY <3>1, <3>2
  <2>2. CASE Compare(s)
    <3>1. Data'
      <4>1. met' = met \/ (met' = met \cup {thread[s].code} /\ thread[s].code \in 1..drawn)
        BY <1>0, <2>2, SessionAssumption DEF Compare, Data
      <4>2. met' \subseteq Codes
        BY <1>0, <4>1, SessionAssumption DEF Data, Codes
      <4> QED BY <1>0, <2>2, <4>2 DEF Compare, Data, redis
    <3>2. ThreadsOK'
      <4>1. (code # 0 /\ code = thread[s].code) => thread[s].code \in 1..drawn
        BY <1>0, SessionAssumption DEF Data
      <4>2. /\ drawn \in Nat /\ issued \in Nat /\ {"consume", "incr"} \subseteq Steps
            /\ UNCHANGED <<drawn, issued, told>>
        BY <1>0, <2>2, SessionAssumption DEF Compare, Data, Steps, redis
      <4>3. CASE code # 0 /\ code = thread[s].code
        <5>1. To(s, "consume", thread[s].code, thread[s].token, thread[s].user)
          BY <2>2, <4>3 DEF Compare, Goto
        <5> QED BY <1>0, <4>1, <4>2, <4>3, <5>1, NamedTo DEF After
      <4>4. CASE ~(code # 0 /\ code = thread[s].code)
        <5>1. To(s, "incr", thread[s].code, thread[s].token, thread[s].user)
          BY <2>2, <4>4 DEF Compare, Goto
        <5> QED BY <1>0, <4>2, <5>1, NamedTo DEF After
      <4> QED BY <4>3, <4>4
    <3> QED BY <3>1, <3>2
  <2>3. CASE Incr(s)
    <3>1. Data'
      BY <1>0, <2>3, SessionAssumption DEF Incr, At, Data, Named, After, Codes, Tokens, answered
    <3>2. ThreadsOK'
      <4>1. /\ drawn \in Nat /\ issued \in Nat /\ {"expire", Idle} \subseteq Steps
            /\ 0 \in 0..MaxCodes /\ 0 \in 0..MaxTokens /\ UNCHANGED <<drawn, issued, told>>
        BY <1>0, <2>3, SessionAssumption DEF Incr, Data, Steps, answered
      <4>2. CASE fails = 0
        <5>1. To(s, "expire", thread[s].code, thread[s].token, thread[s].user)
          BY <2>3, <4>2 DEF Incr, Goto
        <5> QED BY <1>0, <4>1, <5>1, NamedTo DEF After
      <4>3. CASE fails # 0
        <5>1. To(s, Idle, 0, 0, 0)
          BY <2>3, <4>3 DEF Incr, Done
        <5> QED BY <1>0, <4>1, <5>1, NamedTo DEF After, Idle
      <4> QED BY <4>2, <4>3
    <3> QED BY <3>1, <3>2
  <2>4. CASE Expire(s)
    <3>1. Data'
      BY <1>0, <2>4, SessionAssumption DEF Expire, At, Data, Named, After, Codes, Tokens, answered
    <3>2. ThreadsOK'
      BY <1>0, <2>4, SessionAssumption, NamedTo
         DEF Expire, At, Done, Idle, Data, Named, After, Steps, answered
    <3> QED BY <3>1, <3>2
  <2>5. CASE Consume(s)
    <3>1. Data'
      BY <1>0, <2>5, SessionAssumption DEF Consume, At, Data, Named, After, Codes, Tokens, answered
    <3>2. ThreadsOK'
      BY <1>0, <2>5, SessionAssumption, NamedTo
         DEF Consume, At, Goto, Data, Named, After, Steps, answered
    <3> QED BY <3>1, <3>2
  <2>6. CASE Reset(s)
    <3>1. Data'
      BY <1>0, <2>6, SessionAssumption DEF Reset, At, Data, Named, After, Codes, Tokens, answered
    <3>2. ThreadsOK'
      BY <1>0, <2>6, SessionAssumption, NamedTo
         DEF Reset, At, Goto, Data, Named, After, Steps, answered
    <3> QED BY <3>1, <3>2
  <2>7. CASE Select(s)
    <3>1. Data'
      BY <1>0, <2>7, SessionAssumption DEF Select, At, Data, Named, After, Codes, Tokens, redis, answered
    <3>2. ThreadsOK'
      BY <1>0, <2>7, SessionAssumption, NamedTo
         DEF Select, At, Goto, Data, Named, After, Steps, redis, answered
    <3> QED BY <3>1, <3>2
  <2>8. CASE Create(s)
    <3>1. Data'
      BY <1>0, <2>8, SessionAssumption DEF Create, At, Data, Named, After, Codes, Tokens, redis, answered
    <3>2. ThreadsOK'
      BY <1>0, <2>8, SessionAssumption, NamedTo
         DEF Create, At, Goto, Done, Idle, Data, Named, After, Steps, redis, answered
    <3> QED BY <3>1, <3>2
  <2>9. CASE Put(s)
    <3>1. Data'
      BY <1>0, <2>9, SessionAssumption DEF Put, At, Data, Named, After, Codes, Tokens, answered
    <3>2. ThreadsOK'
      <4>1. /\ drawn \in Nat /\ issued \in Nat /\ "live" \in Steps
            /\ issued + 1 \in 0..MaxTokens /\ issued' = issued + 1 /\ UNCHANGED <<drawn, told>>
        BY <1>0, <2>9, SessionAssumption DEF Put, Data, Steps, answered
      <4>2. thread[s].code \in 1..drawn
        BY <1>0, <2>9 DEF Put, At, Named, After
      <4>3. To(s, "live", thread[s].code, issued + 1, thread[s].user)
        BY <2>9 DEF Put
      <4> QED BY <1>0, <4>1, <4>2, <4>3, NamedTo DEF After
    <3> QED BY <3>1, <3>2
  <2>10. CASE Live(s)
    <3>1. Data'
      <4>1. thread[s].token \in 1..issued /\ thread[s].code \in 1..drawn
        BY <1>0, <2>10 DEF Live, At, Named, After
      <4>2. thread[s].code \in Codes
        BY <1>0, <4>1, SessionAssumption DEF Data, Codes
      <4>3. uses' \in [Codes -> Nat] /\ met' = met
        BY <1>0, <2>10, <4>2 DEF Live, Data
      <4> QED BY <1>0, <2>10, <4>1, <4>3 DEF Live, Data
    <3>2. ThreadsOK'
      BY <1>0, <2>10, SessionAssumption, NamedTo
         DEF Live, At, Done, Idle, Data, Named, After, Steps, answered
    <3> QED BY <3>1, <3>2
  <2>11. CASE Refresh(s)
    <3>1. Data'
      BY <1>0, <2>11, SessionAssumption DEF Refresh, At, Data, Named, After, Codes, Tokens, answered
    <3>2. ThreadsOK'
      BY <1>0, <2>11, SessionAssumption, NamedTo
         DEF Refresh, At, Goto, Data, Named, After, Steps, answered
    <3> QED BY <3>1, <3>2
  <2>12. CASE Gate(s)
    <3>1. Data'
      BY <1>0, <2>12, SessionAssumption DEF Gate, At, Data, Named, After, Codes, Tokens, redis, answered
    <3>2. ThreadsOK'
      <4>1. CASE Done(s)
        BY <1>0, <2>12, <4>1, SessionAssumption, NamedTo
           DEF Gate, Done, Idle, Data, After, Steps, redis, answered
      <4>2. CASE thread[s].user # 0 /\ thread[s].token # 0 /\ Goto(s, "delete")
        <5>1. thread[s].token \in told \cup {0}
          BY <1>0, <2>12, <4>2 DEF Gate, At, Named
        <5> QED BY <1>0, <2>12, <4>2, <5>1, SessionAssumption, NamedTo
                DEF Gate, Goto, Data, After, Steps, redis, answered
      <4> QED BY <2>12, <4>1, <4>2 DEF Gate
    <3> QED BY <3>1, <3>2
  <2>13. CASE Delete(s)
    <3>1. Data'
      BY <1>0, <2>13, SessionAssumption DEF Delete, At, Data, Named, After, Codes, Tokens, answered
    <3>2. ThreadsOK'
      BY <1>0, <2>13, SessionAssumption, NamedTo
         DEF Delete, At, Done, Idle, Data, Named, After, Steps, answered
    <3> QED BY <3>1, <3>2
  <2> QED BY <1>5, <2>1, <2>2, <2>3, <2>4, <2>5, <2>6, <2>7, <2>8, <2>9, <2>10, <2>11, <2>12, <2>13
          DEF Goes
<1>6. CASE LimitEnds \/ CodeEnds \/ FailsEnd \/ (\E t \in Tokens : SessionEnds(t))
  <2>1. CASE LimitEnds
    BY <1>0, <2>1, Parts DEF LimitEnds, Data, Named, answered
  <2>2. CASE CodeEnds
    BY <1>0, <2>2, Parts, SessionAssumption DEF CodeEnds, Data, Named, answered
  <2>3. CASE FailsEnd
    BY <1>0, <2>3, Parts DEF FailsEnd, Data, Named, answered
  <2>4. ASSUME NEW t \in Tokens, SessionEnds(t) PROVE Data' /\ ThreadsOK'
    BY <1>0, <2>4, Parts DEF SessionEnds, Data, Named, answered
  <2> QED BY <1>6, <2>1, <2>2, <2>3, <2>4
<1>7. CASE UNCHANGED vars
  BY <1>0, <1>7, Parts DEF vars, redis, answered, Data, Named
<1> QED BY <1>1, <1>2, <1>3, <1>4, <1>5, <1>6, <1>7 DEF Next

LEMMA TypeInit == Init => TypeInv
<1> SUFFICES ASSUME Init PROVE Data /\ thread \in [Threads -> Requests] /\ Named
  BY Parts
<1>1. Data
  <2>1. MaxCodes \in Nat /\ MaxTokens \in Nat /\ MaxFaults \in Nat
    BY SessionAssumption
  <2>2. drawn = 0 /\ code = 0 /\ fails = 0 /\ issued = 0 /\ faults = 0
    BY DEF Init
  <2>3. limit = FALSE /\ timed = FALSE /\ account = FALSE
    BY Zenon DEF Init
  <2>4. session \in [Tokens -> {"none", "untimed", "timed"}] /\ met = {} /\ told = {} /\ gone = {}
    BY DEF Init
  <2>5. code \in 0..drawn /\ told \subseteq 1..issued /\ gone \subseteq told /\ met \subseteq Codes
    BY <2>2, <2>4
  <2>6. drawn \in 0..MaxCodes /\ issued \in 0..MaxTokens /\ faults \in 0..MaxFaults /\ fails \in Nat
    BY <2>1, <2>2
  <2>7. limit \in BOOLEAN /\ timed \in BOOLEAN /\ account \in BOOLEAN
    BY <2>3
  <2>8. uses \in [Codes -> Nat]
    BY DEF Init
  <2> QED BY <2>4, <2>5, <2>6, <2>7, <2>8 DEF Data
<1>2. \A s \in Threads : thread[s] = [pc |-> Idle, code |-> 0, token |-> 0, user |-> 0]
  BY DEF Init
<1>3. thread \in [Threads -> Requests]
  BY SessionAssumption DEF Init, Requests, Steps
<1> QED BY <1>1, <1>2, <1>3 DEF Named, After, Idle

LEMMA TypeInvAlways == Spec => []TypeInv
  BY TypeInit, TypeStep, PTL DEF Spec

\* Every variable keeps its type.
THEOREM TypeCorrect == Spec => []TypeOK
<1>1. TypeInv => TypeOK
  BY DEF TypeInv
<1> QED BY <1>1, TypeInvAlways, PTL

\* What the steps of a thread do to it.
LEMMA Moves ==
    ASSUME TypeInv, NEW s \in Threads
    PROVE  /\ SetLimit(s) => /\ Others(s) /\ thread'[s].pc = "send" /\ thread'[s].code = drawn + 1
                             /\ thread'[s].user = thread[s].user
           /\ \A c \in 0..drawn : Attempt(s, c) =>
                 Others(s) /\ thread'[s].pc = "compare" /\ thread'[s].user = thread[s].user
           /\ \A t \in {0} \cup told : Enter(s, t) =>
                 /\ Others(s) /\ thread'[s].token = t
                 /\ \/ thread'[s].pc = "refresh" /\ thread'[s].user = t
                    \/ thread'[s].pc = "gate" /\ thread'[s].user = thread[s].user
           /\ Throw(s) => Others(s) /\ thread'[s].pc = Idle
           /\ \A pc \in Steps : Goto(s, pc) =>
                 /\ Others(s) /\ thread'[s].pc = pc /\ thread'[s].code = thread[s].code
                 /\ thread'[s].token = thread[s].token /\ thread'[s].user = thread[s].user
           /\ Done(s) => Others(s) /\ thread'[s].pc = Idle /\ thread'[s].user = 0
           /\ Put(s) => /\ Others(s) /\ thread'[s].pc = "live" /\ thread'[s].code = thread[s].code
                        /\ thread'[s].token = issued + 1 /\ thread'[s].user = thread[s].user
<1>0. /\ TypeOK /\ Data
      /\ thread[s].pc \in Steps /\ thread[s].code \in 0..MaxCodes
      /\ thread[s].token \in 0..MaxTokens /\ thread[s].user \in 0..MaxTokens
  BY Parts DEF TypeInv, Requests
<1>1. MaxCodes \in Nat /\ MaxTokens \in Nat /\ MaxFaults \in Nat
  BY SessionAssumption
<1>2. SetLimit(s) => /\ Others(s) /\ thread'[s].pc = "send" /\ thread'[s].code = drawn + 1
                     /\ thread'[s].user = thread[s].user
  BY <1>0, <1>1 DEF To, Others, TypeOK, SetLimit, Data, Steps
<1>3. ASSUME NEW c \in 0..drawn, Attempt(s, c)
      PROVE  Others(s) /\ thread'[s].pc = "compare" /\ thread'[s].user = thread[s].user
  BY <1>0, <1>1, <1>3 DEF To, Others, TypeOK, Attempt, Data, Steps
<1>4. ASSUME NEW t \in {0} \cup told, Enter(s, t)
      PROVE  /\ Others(s) /\ thread'[s].token = t
             /\ \/ thread'[s].pc = "refresh" /\ thread'[s].user = t
                \/ thread'[s].pc = "gate" /\ thread'[s].user = thread[s].user
  BY <1>0, <1>1, <1>4 DEF To, Others, TypeOK, Enter, Data, Steps
<1>5. Done(s) => Others(s) /\ thread'[s].pc = Idle /\ thread'[s].user = 0
  BY <1>0, <1>1 DEF To, Others, TypeOK, Done, Steps, Idle
<1>6. Throw(s) => Others(s) /\ thread'[s].pc = Idle
  BY <1>0, <1>1, <1>5 DEF To, Others, TypeOK, Throw, Done, Steps, Idle
<1>7. ASSUME NEW pc \in Steps, Goto(s, pc)
      PROVE  /\ Others(s) /\ thread'[s].pc = pc /\ thread'[s].code = thread[s].code
             /\ thread'[s].token = thread[s].token /\ thread'[s].user = thread[s].user
  BY <1>0, <1>7 DEF To, Others, TypeOK, Goto
<1>8. Put(s) => /\ Others(s) /\ thread'[s].pc = "live" /\ thread'[s].code = thread[s].code
                /\ thread'[s].token = issued + 1 /\ thread'[s].user = thread[s].user
  BY <1>0, <1>1 DEF To, Others, TypeOK, Put, Data, Steps
<1> QED BY <1>2, <1>3, <1>4, <1>5, <1>6, <1>7, <1>8

----------------------------------------------------------------------------
(* Captchas                                                                *)

\* The captchas that are drawn and not yet stored.
Unsent == {c \in Codes : \E s \in Threads : thread[s].pc = "send" /\ thread[s].code = c}

\* The captchas that a login was answered for.
Spent == {c \in Codes : uses[c] > 0}

(***************************************************************************)
(* CaptchaInv: a captcha is stored at most once, before anybody can bring  *)
(* it; and the one of a thread past the deletion is not there any more.    *)
(***************************************************************************)
CaptchaInv ==
    /\ code \notin Unsent
    /\ \A s, q \in Threads :
          s # q /\ thread[s].pc = "send" /\ thread[q].pc = "send" => thread[s].code # thread[q].code
    /\ \A s \in Threads :
          /\ thread[s].pc \in {"consume"} \cup After => thread[s].code \notin Unsent
          /\ thread[s].pc \in After => thread[s].code # code
    /\ \A c \in Spent : c \in 1..drawn /\ c # code /\ c \notin Unsent

\* A thread that stores nothing and stays with its captcha, or drops it.
LEMMA CaptchaKept ==
    ASSUME TypeInv, CaptchaInv, NEW s \in Threads, Others(s),
           code' = code \/ code' = 0, drawn' = drawn,
           thread'[s].pc # "send",
           \/ thread'[s].pc \notin {"consume"} \cup After
           \/ /\ thread'[s].code = thread[s].code
              /\ \/ thread'[s].pc = "consume" /\ thread[s].code = code
                 \/ thread'[s].pc \in After /\ thread[s].pc \in After
                 \/ thread'[s].pc \in After /\ thread[s].pc = "consume" /\ code' = 0,
           \/ uses' = uses
           \/ /\ uses' = [uses EXCEPT ![thread[s].code] = @ + 1]
              /\ thread[s].pc \in After
    PROVE  CaptchaInv'
<1>0. /\ Named /\ code \in 0..drawn /\ drawn \in Nat
  BY SessionAssumption DEF TypeInv, TypeOK
<1>1. \A q \in Threads : q # s => thread'[q] = thread[q]
  BY DEF Others
<1>2. Unsent' \subseteq Unsent
  BY <1>1 DEF Unsent
<1>3. \A q \in Threads : thread[q].pc = "send" => thread[q].code \in 1..drawn
  BY <1>0 DEF Named
<1>4. \A q \in Threads : thread[q].pc \in {"consume"} \cup After => thread[q].code \in 1..drawn
  BY <1>0 DEF Named
<1>5. code' \notin Unsent'
  <2>1. CASE code' = code
    BY <1>2, <2>1 DEF CaptchaInv
  <2>2. CASE code' = 0
    BY <1>1, <1>3, <2>2 DEF Unsent
  <2> QED BY <2>1, <2>2
<1>6. \A r, q \in Threads :
          r # q /\ thread'[r].pc = "send" /\ thread'[q].pc = "send" => thread'[r].code # thread'[q].code
  BY <1>1 DEF CaptchaInv
<1>7. ASSUME NEW q \in Threads
      PROVE  /\ thread'[q].pc \in {"consume"} \cup After => thread'[q].code \notin Unsent'
             /\ thread'[q].pc \in After => thread'[q].code # code'
  <2>1. CASE q # s
    <3>1. thread[q].pc \in After => thread[q].code # code'
      BY <1>4 DEF CaptchaInv
    <3> QED BY <1>1, <1>2, <2>1, <3>1 DEF CaptchaInv
  <2>2. CASE q = s
    <3>1. thread'[s].pc \in {"consume"} \cup After => thread[s].code \notin Unsent
      BY DEF CaptchaInv
    <3>2. thread'[s].pc \in After => thread[s].code # code'
      BY <1>4 DEF CaptchaInv, After
    <3> QED BY <1>2, <2>2, <3>1, <3>2
  <2> QED BY <2>1, <2>2
<1>8. \A c \in Spent' : c \in 1..drawn /\ c # code' /\ c \notin Unsent'
  <2> SUFFICES ASSUME NEW c \in Spent' PROVE c \in 1..drawn /\ c # code /\ c \notin Unsent
    BY <1>0, <1>2
  <2>1. CASE c \in Spent
    BY <2>1 DEF CaptchaInv
  <2>2. CASE c = thread[s].code /\ thread[s].pc \in After
    BY <1>4, <2>2 DEF CaptchaInv
  <2>3. c \in Spent \/ (c = thread[s].code /\ thread[s].pc \in After)
    <3>1. uses \in [Codes -> Nat] /\ Codes' = Codes
      BY DEF TypeInv, TypeOK, Codes
    <3> QED BY <3>1 DEF Spent
  <2> QED BY <2>1, <2>2, <2>3
<1> QED BY <1>5, <1>6, <1>7, <1>8 DEF CaptchaInv

LEMMA CaptchaStep == TypeInv /\ CaptchaInv /\ [Next]_vars => CaptchaInv'
<1> SUFFICES ASSUME TypeInv, CaptchaInv, [Next]_vars PROVE CaptchaInv'
  OBVIOUS
<1>0. Named /\ code \in 0..drawn /\ drawn \in Nat
  BY SessionAssumption DEF TypeInv, TypeOK
<1>1. ASSUME NEW s \in Threads, SetLimit(s) PROVE CaptchaInv'
  <2>1. /\ Others(s) /\ thread'[s].pc = "send" /\ thread'[s].code = drawn + 1
        /\ drawn' = drawn + 1 /\ UNCHANGED <<code, Spent>>
    BY <1>1, Moves DEF SetLimit, answered, Spent
  <2>2. \A q \in Threads : q # s => thread'[q] = thread[q]
    BY <2>1 DEF Others
  <2>3. Unsent' \subseteq Unsent \cup {drawn + 1}
    BY <2>1, <2>2 DEF Unsent
  <2>4. \A q \in Threads : thread[q].pc \in {"send", "consume"} \cup After => thread[q].code \in 1..drawn
    BY <1>0 DEF Named
  <2>5. code' \notin Unsent'
    BY <1>0, <2>1, <2>3 DEF CaptchaInv
  <2>6. \A r, q \in Threads :
          r # q /\ thread'[r].pc = "send" /\ thread'[q].pc = "send" => thread'[r].code # thread'[q].code
    BY <1>0, <2>1, <2>2, <2>4 DEF CaptchaInv
  <2>7. \A q \in Threads :
          /\ thread'[q].pc \in {"consume"} \cup After => thread'[q].code \notin Unsent'
          /\ thread'[q].pc \in After => thread'[q].code # code'
    BY <1>0, <2>1, <2>2, <2>3, <2>4 DEF CaptchaInv, After
  <2>8. \A c \in Spent' : c \in 1..drawn' /\ c # code' /\ c \notin Unsent'
    BY <1>0, <2>1, <2>3 DEF CaptchaInv
  <2> QED BY <2>5, <2>6, <2>7, <2>8 DEF CaptchaInv
<1>2. ASSUME NEW s \in Threads, NEW c \in 0..drawn, Attempt(s, c) PROVE CaptchaInv'
  BY <1>2, Moves, CaptchaKept DEF Attempt, After, redis, answered
<1>3. ASSUME NEW s \in Threads, NEW t \in {0} \cup told, Enter(s, t) PROVE CaptchaInv'
  BY <1>3, Moves, CaptchaKept DEF Enter, After, redis, answered
<1>4. ASSUME NEW s \in Threads, Throw(s) PROVE CaptchaInv'
  BY <1>4, Moves, CaptchaKept DEF Throw, Idle, After, redis, answered
<1>5. ASSUME NEW s \in Threads, Goes(s) PROVE CaptchaInv'
  <2>1. CASE Send(s)
    <3>1. /\ Others(s) /\ thread'[s].pc = Idle /\ thread[s].pc = "send"
          /\ code' = thread[s].code /\ UNCHANGED <<drawn, Spent>>
      BY <2>1, Moves DEF Send, At, answered, Spent
    <3>2. \A q \in Threads : q # s => thread'[q] = thread[q]
      BY <3>1 DEF Others
    <3>3. Unsent' \subseteq Unsent
      BY <3>1, <3>2 DEF Unsent, Idle
    <3>4. code' \notin Unsent'
      BY <3>1, <3>2 DEF CaptchaInv, Unsent, Idle
    <3>5. code' \in Unsent
      <4>1. code' \in 1..drawn
        BY <1>0, <3>1 DEF Named
      <4>2. code' \in Codes
        BY <4>1, SessionAssumption DEF Codes, TypeInv, TypeOK
      <4> QED BY <3>1, <4>2 DEF Unsent
    <3>6. \A r, q \in Threads :
            r # q /\ thread'[r].pc = "send" /\ thread'[q].pc = "send" => thread'[r].code # thread'[q].code
      BY <3>1, <3>2 DEF CaptchaInv, Idle
    <3>7. \A q \in Threads :
            /\ thread'[q].pc \in {"consume"} \cup After => thread'[q].code \notin Unsent'
            /\ thread'[q].pc \in After => thread'[q].code # code'
      BY <3>1, <3>2, <3>3, <3>5 DEF CaptchaInv, Idle, After
    <3>8. \A c \in Spent' : c \in 1..drawn' /\ c # code' /\ c \notin Unsent'
      BY <3>1, <3>3, <3>5 DEF CaptchaInv
    <3> QED BY <3>4, <3>6, <3>7, <3>8 DEF CaptchaInv
  <2>2. CASE Compare(s)
    BY <2>2, Moves, CaptchaKept DEF Compare, At, After, Steps, redis
  <2>3. CASE Incr(s)
    BY <2>3, Moves, CaptchaKept DEF Incr, At, After, Steps, Idle, answered
  <2>4. CASE Expire(s)
    BY <2>4, Moves, CaptchaKept DEF Expire, At, After, Idle, answered
  <2>5. CASE Consume(s)
    BY <2>5, Moves, CaptchaKept DEF Consume, At, After, Steps, answered
  <2>6. CASE Reset(s)
    BY <2>6, Moves, CaptchaKept DEF Reset, At, After, Steps, answered
  <2>7. CASE Select(s)
    BY <2>7, Moves, CaptchaKept DEF Select, At, After, Steps, redis, answered
  <2>8. CASE Create(s)
    BY <2>8, Moves, CaptchaKept DEF Create, At, After, Steps, Idle, redis, answered
  <2>9. CASE Put(s)
    BY <2>9, Moves, CaptchaKept DEF Put, At, After, answered
  <2>10. CASE Live(s)
    BY <2>10, Moves, CaptchaKept DEF Live, At, After, Idle
  <2>11. CASE Refresh(s)
    BY <2>11, Moves, CaptchaKept DEF Refresh, At, After, Steps, answered
  <2>12. CASE Gate(s)
    BY <2>12, Moves, CaptchaKept DEF Gate, At, After, Steps, Idle, redis, answered
  <2>13. CASE Delete(s)
    BY <2>13, Moves, CaptchaKept DEF Delete, At, After, Idle
  <2> QED BY <1>5, <2>1, <2>2, <2>3, <2>4, <2>5, <2>6, <2>7, <2>8, <2>9, <2>10, <2>11, <2>12, <2>13
          DEF Goes
<1>6. CASE UNCHANGED <<drawn, thread, uses>> /\ (code' = code \/ code' = 0)
  <2>1. \A q \in Threads : thread[q].pc \in {"send", "consume"} \cup After => thread[q].code \in 1..drawn
    BY <1>0 DEF Named
  <2>2. Unsent' = Unsent /\ Spent' = Spent
    BY <1>6 DEF Unsent, Spent
  <2>3. 0 \notin Unsent
    BY <2>1 DEF Unsent
  <2>4. \A c \in Spent : c # 0
    BY DEF CaptchaInv
  <2> QED BY <1>6, <2>1, <2>2, <2>3, <2>4 DEF CaptchaInv
<1>7. CASE LimitEnds \/ CodeEnds \/ FailsEnd \/ (\E t \in Tokens : SessionEnds(t))
  BY <1>6, <1>7 DEF LimitEnds, CodeEnds, FailsEnd, SessionEnds, answered
<1>8. CASE UNCHANGED vars
  BY <1>6, <1>8 DEF vars, redis, answered
<1> QED BY <1>1, <1>2, <1>3, <1>4, <1>5, <1>7, <1>8 DEF Next

\* The logins that go on with this captcha.
Using(c) == {s \in Threads : thread[s].pc \in {"consume"} \cup After /\ thread[s].code = c}

(***************************************************************************)
(* OnceInv: the logins answered for a captcha and those under way with it  *)
(* are no more than the threads, and no more than one unless two logins    *)
(* compared it before either deleted it.                                   *)
(***************************************************************************)
OnceInv ==
    \A c \in Codes :
        /\ uses[c] + Cardinality(Using(c)) <= Cardinality(Threads)
        /\ c \notin met => uses[c] + Cardinality(Using(c)) <= 1

LEMMA UsingCounted ==
    ASSUME TypeOK, NEW c \in Codes
    PROVE  /\ IsFiniteSet(Using(c)) /\ Cardinality(Using(c)) \in Nat
           /\ IsFiniteSet(Using(c)') /\ Cardinality(Using(c)') \in Nat
           /\ Cardinality(Using(c)') <= Cardinality(Threads)
           /\ Cardinality(Threads) \in Nat
           /\ uses[c] \in Nat
<1>1. IsFiniteSet(Threads) /\ Using(c) \subseteq Threads /\ Using(c)' \subseteq Threads
  BY SessionAssumption DEF Using
<1>2. /\ IsFiniteSet(Using(c)) /\ IsFiniteSet(Using(c)')
      /\ Cardinality(Using(c)') <= Cardinality(Threads)
  BY <1>1, FS_Subset
<1>3. uses[c] \in Nat
  BY DEF TypeOK
<1> QED BY <1>1, <1>2, <1>3, FS_CardinalityType

\* Steps after which no other thread goes on with a captcha than before.
LEMMA OnceKept ==
    ASSUME TypeInv, OnceInv, NEW s \in Threads, Others(s), uses' = uses, met' = met,
           \/ thread'[s].pc \notin {"consume"} \cup After
           \/ thread[s].pc \in {"consume"} \cup After /\ thread'[s].code = thread[s].code
    PROVE  OnceInv'
<1>1. TypeOK
  BY DEF TypeInv
<1>2. ASSUME NEW c \in Codes
      PROVE  /\ uses[c] + Cardinality(Using(c)') <= Cardinality(Threads)
             /\ c \notin met => uses[c] + Cardinality(Using(c)') <= 1
  <2>1. Using(c)' \subseteq Using(c)
    BY DEF Using, Others
  <2>2. Cardinality(Using(c)') <= Cardinality(Using(c))
    BY <1>1, <2>1, UsingCounted, FS_Subset
  <2> QED BY <1>1, <2>2, UsingCounted DEF OnceInv
<1> QED BY <1>2 DEF OnceInv, Codes

LEMMA OnceStep == TypeInv /\ CaptchaInv /\ OnceInv /\ [Next]_vars => OnceInv'
<1> SUFFICES ASSUME TypeInv, CaptchaInv, OnceInv, [Next]_vars PROVE OnceInv'
  OBVIOUS
<1>0. TypeOK
  BY DEF TypeInv
<1>1. ASSUME NEW s \in Threads, SetLimit(s) PROVE OnceInv'
  BY <1>1, Moves, OnceKept DEF SetLimit, After, answered
<1>2. ASSUME NEW s \in Threads, NEW c \in 0..drawn, Attempt(s, c) PROVE OnceInv'
  BY <1>2, Moves, OnceKept DEF Attempt, After, answered
<1>3. ASSUME NEW s \in Threads, NEW t \in {0} \cup told, Enter(s, t) PROVE OnceInv'
  BY <1>3, Moves, OnceKept DEF Enter, After, answered
<1>4. ASSUME NEW s \in Threads, Throw(s) PROVE OnceInv'
  BY <1>4, Moves, OnceKept DEF Throw, Idle, After, answered
<1>5. ASSUME NEW s \in Threads, Goes(s) PROVE OnceInv'
  <2>1. CASE Send(s)
    BY <2>1, Moves, OnceKept DEF Send, Idle, After, answered
  <2>2. CASE Compare(s)
    <3>1. /\ Others(s) /\ thread[s].pc = "compare" /\ uses' = uses
          /\ thread'[s].code = thread[s].code
      BY <2>2, Moves DEF Compare, At, Steps
    <3>2. CASE code # 0 /\ code = thread[s].code
      <4>1. thread'[s].pc = "consume" /\ (Holding(code) # {} => met' = met \cup {code})
            /\ met \subseteq met'
        BY <2>2, <3>2, Moves DEF Compare, At, Steps
      <4>2. ASSUME NEW c \in Codes
            PROVE  /\ uses[c] + Cardinality(Using(c)') <= Cardinality(Threads)
                   /\ c \notin met' => uses[c] + Cardinality(Using(c)') <= 1
        <5>1. CASE c # code
          <6>1. Using(c)' = Using(c)
            BY <3>1, <3>2, <5>1 DEF Using, Others, After
          <6> QED BY <4>1, <6>1 DEF OnceInv
        <5>2. CASE c = code
          <6>1. uses[c] = 0
            BY <1>0, <5>2, UsingCounted DEF CaptchaInv, Spent
          <6>2. Using(c) = Holding(c)
            BY <5>2 DEF CaptchaInv, Using, Holding, At, After
          <6>3. Using(c)' = Using(c) \cup {s}
            BY <3>1, <3>2, <4>1, <5>2 DEF Using, Others
          <6>4. c \notin met' => Using(c)' = {s}
            BY <4>1, <5>2, <6>2, <6>3
          <6>5. Cardinality({s}) = 1
            BY FS_Singleton
          <6> QED BY <1>0, <6>1, <6>4, <6>5, UsingCounted
        <5> QED BY <5>1, <5>2
      <4> QED BY <3>1, <4>2 DEF OnceInv, Codes
    <3>3. CASE ~(code # 0 /\ code = thread[s].code)
      <4>1. thread'[s].pc = "incr" /\ met' = met
        BY <2>2, <3>3, Moves DEF Compare, Steps
      <4> QED BY <3>1, <4>1, OnceKept DEF After
    <3> QED BY <3>2, <3>3
  <2>3. CASE Incr(s)
    BY <2>3, Moves, OnceKept DEF Incr, At, After, Steps, Idle, answered
  <2>4. CASE Expire(s)
    BY <2>4, Moves, OnceKept DEF Expire, After, Idle, answered
  <2>5. CASE Consume(s)
    BY <2>5, Moves, OnceKept DEF Consume, At, After, Steps, answered
  <2>6. CASE Reset(s)
    BY <2>6, Moves, OnceKept DEF Reset, At, After, Steps, answered
  <2>7. CASE Select(s)
    BY <2>7, Moves, OnceKept DEF Select, At, After, Steps, answered
  <2>8. CASE Create(s)
    BY <2>8, Moves, OnceKept DEF Create, At, After, Steps, Idle, answered
  <2>9. CASE Put(s)
    BY <2>9, Moves, OnceKept DEF Put, At, After, answered
  <2>10. CASE Live(s)
    <3> DEFINE k == thread[s].code
    <3>1. /\ Others(s) /\ thread[s].pc = "live" /\ thread'[s].pc = Idle /\ met' = met
          /\ uses' = [uses EXCEPT ![k] = @ + 1]
      BY <2>10, Moves DEF Live, At
    <3>2. ASSUME NEW c \in Codes
          PROVE  uses'[c] + Cardinality(Using(c)') = uses[c] + Cardinality(Using(c))
      <4>1. CASE c # k
        <5>1. Using(c)' = Using(c) /\ uses'[c] = uses[c]
          BY <1>0, <3>1, <4>1 DEF Using, Others, After, Idle, TypeOK
        <5> QED BY <5>1
      <4>2. CASE c = k
        <5>1. Using(c)' = Using(c) \ {s} /\ s \in Using(c)
          BY <3>1, <4>2 DEF Using, Others, After, Idle
        <5>2. uses'[c] = uses[c] + 1
          BY <1>0, <3>1, <4>2 DEF TypeOK
        <5>3. Cardinality(Using(c)') = Cardinality(Using(c)) - 1
          BY <1>0, <5>1, UsingCounted, FS_RemoveElement
        <5> QED BY <1>0, <5>2, <5>3, UsingCounted
      <4> QED BY <4>1, <4>2
    <3> QED BY <3>1, <3>2 DEF OnceInv, Codes
  <2>11. CASE Refresh(s)
    BY <2>11, Moves, OnceKept DEF Refresh, At, After, Steps, answered
  <2>12. CASE Gate(s)
    BY <2>12, Moves, OnceKept DEF Gate, At, After, Steps, Idle, answered
  <2>13. CASE Delete(s)
    BY <2>13, Moves, OnceKept DEF Delete, After, Idle
  <2> QED BY <1>5, <2>1, <2>2, <2>3, <2>4, <2>5, <2>6, <2>7, <2>8, <2>9, <2>10, <2>11, <2>12, <2>13
          DEF Goes
<1>6. CASE UNCHANGED <<thread, uses, met>>
  BY <1>6 DEF OnceInv, Using, Codes
<1>7. CASE LimitEnds \/ CodeEnds \/ FailsEnd \/ (\E t \in Tokens : SessionEnds(t)) \/ UNCHANGED vars
  BY <1>6, <1>7 DEF LimitEnds, CodeEnds, FailsEnd, SessionEnds, vars, answered
<1> QED BY <1>1, <1>2, <1>3, <1>4, <1>5, <1>7 DEF Next

\* A captcha buys more than one token only for logins that compared it before
\* any of them deleted it, at most one for each thread, and none once a login
\* with it was answered.
THEOREM CaptchaOnceCorrect == Spec => []CaptchaOnce
<1>1. Init => CaptchaInv
  BY DEF Init, CaptchaInv, Unsent, Spent, After, Idle
<1>2. Init => OnceInv
  <2> SUFFICES ASSUME Init, NEW c \in Codes
               PROVE  uses[c] + Cardinality(Using(c)) = 0
    BY SessionAssumption, FS_CardinalityType DEF OnceInv
  <2>1. uses[c] = 0 /\ Using(c) = {}
    BY DEF Init, Using, After, Idle
  <2> QED BY <2>1, FS_EmptySet
<1>3. TypeInv /\ CaptchaInv /\ OnceInv => CaptchaOnce
  <2> SUFFICES ASSUME TypeInv, CaptchaInv, OnceInv, NEW c \in Codes
               PROVE  /\ uses[c] > 1 => c \in met
                      /\ uses[c] <= Cardinality(Threads)
                      /\ code = c => uses[c] = 0
    BY DEF CaptchaOnce
  <2>1. TypeOK
    BY DEF TypeInv
  <2>2. code = c => ~(uses[c] > 0)
    BY DEF CaptchaInv, Spent
  <2> QED BY <2>1, <2>2, UsingCounted DEF OnceInv
<1> QED BY <1>1, <1>2, <1>3, CaptchaStep, OnceStep, TypeInvAlways, PTL DEF Spec

----------------------------------------------------------------------------
(* Sessions                                                                *)

(***************************************************************************)
(* EndInv: a hash without a TTL belongs to a token that nobody knows, or   *)
(* that only the thread knows that is about to set the TTL.                *)
(***************************************************************************)
EndInv ==
    /\ SessionsEnd
    /\ \A s \in Threads : thread[s].pc = "live" => thread[s].token \notin told
    /\ \A s, q \in Threads :
          s # q /\ thread[s].pc = "live" /\ thread[q].pc = "live" => thread[s].token # thread[q].token

\* Steps that give no token.
LEMMA EndKept ==
    ASSUME TypeInv, EndInv, NEW s \in Threads, Others(s), thread'[s].pc # "live",
           UNCHANGED <<session, told, gone>>
    PROVE  EndInv'
  BY DEF EndInv, SessionsEnd, Others

LEMMA EndStep == TypeInv /\ EndInv /\ [Next]_vars => EndInv'
<1> SUFFICES ASSUME TypeInv, EndInv, [Next]_vars PROVE EndInv'
  OBVIOUS
<1>0. /\ Named /\ issued \in Nat /\ issued <= MaxTokens /\ MaxTokens \in Nat
      /\ told \subseteq 1..issued /\ gone \subseteq told /\ Tokens = 1..MaxTokens
      /\ session \in [Tokens -> {"none", "untimed", "timed"}]
  BY SessionAssumption DEF TypeInv, TypeOK, Tokens
<1>1. ASSUME NEW s \in Threads, SetLimit(s) PROVE EndInv'
  BY <1>1, Moves, EndKept DEF SetLimit, answered
<1>2. ASSUME NEW s \in Threads, NEW c \in 0..drawn, Attempt(s, c) PROVE EndInv'
  BY <1>2, Moves, EndKept DEF Attempt, redis, answered
<1>3. ASSUME NEW s \in Threads, NEW t \in {0} \cup told, Enter(s, t) PROVE EndInv'
  BY <1>3, Moves, EndKept DEF Enter, redis, answered
<1>4. ASSUME NEW s \in Threads, Throw(s) PROVE EndInv'
  BY <1>4, Moves, EndKept DEF Throw, Idle, redis, answered
<1>5. ASSUME NEW s \in Threads, Goes(s) PROVE EndInv'
  <2>1. CASE Send(s)
    BY <2>1, Moves, EndKept DEF Send, At, Steps, Idle, redis, answered
  <2>2. CASE Compare(s)
    BY <2>2, Moves, EndKept DEF Compare, At, Steps, Idle, redis, answered
  <2>3. CASE Incr(s)
    BY <2>3, Moves, EndKept DEF Incr, At, Steps, Idle, redis, answered
  <2>4. CASE Expire(s)
    BY <2>4, Moves, EndKept DEF Expire, At, Steps, Idle, redis, answered
  <2>5. CASE Consume(s)
    BY <2>5, Moves, EndKept DEF Consume, At, Steps, Idle, redis, answered
  <2>6. CASE Reset(s)
    BY <2>6, Moves, EndKept DEF Reset, At, Steps, Idle, redis, answered
  <2>7. CASE Select(s)
    BY <2>7, Moves, EndKept DEF Select, At, Steps, Idle, redis, answered
  <2>8. CASE Create(s)
    BY <2>8, Moves, EndKept DEF Create, At, Steps, Idle, redis, answered
  <2>9. CASE Put(s)
    <3>1. /\ Others(s) /\ thread'[s].pc = "live" /\ thread'[s].token = issued + 1
          /\ session' = [session EXCEPT ![issued + 1] = "untimed"] /\ UNCHANGED <<told, gone>>
      BY <2>9, Moves DEF Put, answered
    <3>2. \A q \in Threads : thread[q].pc = "live" => thread[q].token \in 1..issued
      BY <1>0 DEF Named
    <3>3. issued + 1 \notin 1..issued
      BY <1>0
    <3>4. \A x \in 1..issued : session'[x] = session[x]
      BY <1>0, <3>1, <3>3
    <3>5. SessionsEnd'
      BY <1>0, <3>1, <3>4 DEF EndInv, SessionsEnd
    <3>6. \A q \in Threads : q # s => thread'[q] = thread[q]
      BY <3>1 DEF Others
    <3> QED BY <1>0, <3>1, <3>2, <3>3, <3>5, <3>6 DEF EndInv
  <2>10. CASE Live(s)
    <3> DEFINE t == thread[s].token
    <3>1. /\ Others(s) /\ thread'[s].pc = Idle /\ thread[s].pc = "live"
          /\ session' = [session EXCEPT ![t] = "timed"] /\ told' = told \cup {t} /\ UNCHANGED gone
      BY <2>10, Moves DEF Live, At
    <3>2. t \in 1..issued /\ t \notin told
      BY <1>0, <3>1 DEF Named, EndInv
    <3>3. t \in Tokens /\ told \subseteq Tokens
      BY <1>0, <3>2
    <3>4. session'[t] = "timed" /\ \A x \in Tokens \ {t} : session'[x] = session[x]
      BY <1>0, <3>1, <3>3
    <3>5. SessionsEnd'
      BY <1>0, <3>1, <3>2, <3>3, <3>4 DEF EndInv, SessionsEnd
    <3>6. \A q \in Threads : q # s => thread'[q] = thread[q]
      BY <3>1 DEF Others
    <3> QED BY <3>1, <3>5, <3>6 DEF EndInv, Idle
  <2>11. CASE Refresh(s)
    <3> DEFINE t == thread[s].token
    <3>1. /\ Others(s) /\ thread'[s].pc = "gate"
          /\ session' = [session EXCEPT ![t] = IF @ = "none" THEN @ ELSE "timed"]
          /\ UNCHANGED <<told, gone>>
      BY <2>11, Moves DEF Refresh, Steps, answered
    <3>2. \A x \in Tokens :
             session'[x] = session[x] \/ (session[x] # "none" /\ session'[x] = "timed")
      BY <1>0, <3>1
    <3>3. told \subseteq Tokens /\ gone \subseteq Tokens
      BY <1>0
    <3>4. SessionsEnd'
      BY <3>1, <3>2, <3>3 DEF EndInv, SessionsEnd
    <3> QED BY <3>1, <3>4 DEF EndInv, Others
  <2>12. CASE Gate(s)
    BY <2>12, Moves, EndKept DEF Gate, At, Steps, Idle, redis, answered
  <2>13. CASE Delete(s)
    <3> DEFINE t == thread[s].token
    <3>1. /\ Others(s) /\ thread'[s].pc = Idle
          /\ session' = [session EXCEPT ![t] = "none"] /\ gone' = gone \cup {t} /\ UNCHANGED told
      BY <2>13, Moves DEF Delete
    <3>2. t \in told
      BY <1>0, <2>13 DEF Delete, At, Named
    <3>3. /\ told \subseteq Tokens /\ gone \subseteq Tokens
          /\ session \in [Tokens -> {"none", "untimed", "timed"}]
      BY <1>0
    <3>4. session'[t] = "none" /\ \A x \in Tokens \ {t} : session'[x] = session[x]
      BY <3>1, <3>2, <3>3
    <3>5. \A x \in told' : session'[x] # "untimed"
      BY <3>1, <3>3, <3>4 DEF EndInv, SessionsEnd
    <3>6. \A x \in gone' : session'[x] = "none"
      BY <3>1, <3>3, <3>4 DEF EndInv, SessionsEnd
    <3> QED BY <3>1, <3>5, <3>6 DEF EndInv, SessionsEnd, Others, Idle
  <2> QED BY <1>5, <2>1, <2>2, <2>3, <2>4, <2>5, <2>6, <2>7, <2>8, <2>9, <2>10, <2>11, <2>12, <2>13
          DEF Goes
<1>6. ASSUME NEW t \in Tokens, SessionEnds(t) PROVE EndInv'
  BY <1>0, <1>6 DEF EndInv, SessionsEnd, SessionEnds, answered
<1>7. CASE LimitEnds \/ CodeEnds \/ FailsEnd \/ UNCHANGED vars
  BY <1>7 DEF EndInv, SessionsEnd, LimitEnds, CodeEnds, FailsEnd, vars, redis, answered
<1> QED BY <1>1, <1>2, <1>3, <1>4, <1>5, <1>6, <1>7 DEF Next

\* A session that its user knows has a TTL, and a session that was logged out
\* of stays away.
THEOREM SessionsEndCorrect == Spec => []SessionsEnd
<1>1. Init => EndInv
  BY DEF Init, EndInv, SessionsEnd, Idle
<1>2. EndInv => SessionsEnd
  BY DEF EndInv
<1> QED BY <1>1, <1>2, EndStep, TypeInvAlways, PTL DEF Spec

----------------------------------------------------------------------------
(* The UserHolder                                                          *)

(***************************************************************************)
(* HolderInv: until a call fails, a thread has a user only between the     *)
(* interceptor that sets it and the end of that request.                   *)
(***************************************************************************)
HolderInv ==
    faults = 0 => \A s \in Threads :
        \/ thread[s].user = 0
        \/ thread[s].user = thread[s].token /\ thread[s].pc \in {"refresh", "gate", "delete"}

LEMMA HolderKept ==
    ASSUME TypeInv, HolderInv, NEW s \in Threads, Others(s), UNCHANGED faults,
           \/ thread'[s].user = 0
           \/ thread'[s].user = thread'[s].token /\ thread'[s].pc \in {"refresh", "gate", "delete"}
           \/ thread'[s].user = thread[s].user /\ thread[s].pc \notin {"refresh", "gate", "delete"}
    PROVE  HolderInv'
  BY DEF HolderInv, Others

LEMMA HolderStep == TypeInv /\ HolderInv /\ [Next]_vars => HolderInv'
<1> SUFFICES ASSUME TypeInv, HolderInv, [Next]_vars PROVE HolderInv'
  OBVIOUS
<1>1. ASSUME NEW s \in Threads, SetLimit(s) PROVE HolderInv'
  BY <1>1, Moves, HolderKept DEF SetLimit, At, Idle
<1>2. ASSUME NEW s \in Threads, NEW c \in 0..drawn, Attempt(s, c) PROVE HolderInv'
  BY <1>2, Moves, HolderKept DEF Attempt, At, Idle
<1>3. ASSUME NEW s \in Threads, NEW t \in {0} \cup told, Enter(s, t) PROVE HolderInv'
  BY <1>3, Moves, HolderKept DEF Enter, At, Idle
<1>4. ASSUME NEW s \in Threads, Throw(s) PROVE HolderInv'
  <2>1. faults' = faults + 1 /\ faults \in Nat
    BY <1>4, SessionAssumption DEF Throw, TypeInv, TypeOK
  <2> QED BY <2>1 DEF HolderInv
<1>5. ASSUME NEW s \in Threads, Goes(s) PROVE HolderInv'
  <2>1. CASE Send(s)
    BY <2>1, Moves, HolderKept DEF Send, At, Steps, Idle
  <2>2. CASE Compare(s)
    BY <2>2, Moves, HolderKept DEF Compare, At, Steps, Idle
  <2>3. CASE Incr(s)
    BY <2>3, Moves, HolderKept DEF Incr, At, Steps, Idle
  <2>4. CASE Expire(s)
    BY <2>4, Moves, HolderKept DEF Expire, At, Steps, Idle
  <2>5. CASE Consume(s)
    BY <2>5, Moves, HolderKept DEF Consume, At, Steps, Idle
  <2>6. CASE Reset(s)
    BY <2>6, Moves, HolderKept DEF Reset, At, Steps, Idle
  <2>7. CASE Select(s)
    BY <2>7, Moves, HolderKept DEF Select, At, Steps, Idle
  <2>8. CASE Create(s)
    BY <2>8, Moves, HolderKept DEF Create, At, Steps, Idle
  <2>9. CASE Put(s)
    BY <2>9, Moves, HolderKept DEF Put, At, Steps, Idle
  <2>10. CASE Live(s)
    BY <2>10, Moves, HolderKept DEF Live, At, Steps, Idle
  <2>11. CASE Refresh(s)
    <3>1. /\ Others(s) /\ UNCHANGED faults /\ thread[s].pc = "refresh" /\ thread'[s].pc = "gate"
          /\ thread'[s].user = thread[s].user /\ thread'[s].token = thread[s].token
      BY <2>11, Moves DEF Refresh, At, Steps
    <3> QED BY <3>1 DEF HolderInv, Others
  <2>12. CASE Gate(s)
    <3>1. CASE Done(s)
      BY <2>12, <3>1, Moves, HolderKept DEF Gate
    <3>2. CASE Goto(s, "delete")
      <4>1. /\ Others(s) /\ UNCHANGED faults /\ thread[s].pc = "gate" /\ thread'[s].pc = "delete"
            /\ thread'[s].user = thread[s].user /\ thread'[s].token = thread[s].token
        BY <2>12, <3>2, Moves DEF Gate, At, Steps
      <4> QED BY <4>1 DEF HolderInv, Others
    <3> QED BY <2>12, <3>1, <3>2 DEF Gate
  <2>13. CASE Delete(s)
    BY <2>13, Moves, HolderKept DEF Delete, At, Steps, Idle
  <2> QED BY <1>5, <2>1, <2>2, <2>3, <2>4, <2>5, <2>6, <2>7, <2>8, <2>9, <2>10, <2>11, <2>12, <2>13
          DEF Goes
<1>6. CASE UNCHANGED <<thread, faults>>
  BY <1>6 DEF HolderInv
<1>7. CASE LimitEnds \/ CodeEnds \/ FailsEnd \/ (\E t \in Tokens : SessionEnds(t)) \/ UNCHANGED vars
  BY <1>6, <1>7 DEF LimitEnds, CodeEnds, FailsEnd, SessionEnds, vars
<1> QED BY <1>1, <1>2, <1>3, <1>4, <1>5, <1>7 DEF Next

\* As long as no call fails, nobody acts as somebody else.
THEOREM ActsAsItselfCorrect == Spec => []ActsAsItself
<1>1. Init => HolderInv
  BY DEF Init, HolderInv
<1>2. HolderInv => ActsAsItself
  BY DEF HolderInv, ActsAsItself
<1> QED BY <1>1, <1>2, HolderStep, TypeInvAlways, PTL DEF Spec

----------------------------------------------------------------------------
(* The counter of failures                                                 *)

\* The logins that have passed the counter and may still raise it.
Raising == {s \in Threads : thread[s].pc \in {"compare", "incr"}}

(***************************************************************************)
(* FailuresInv: the counter and all that may still be added to it stay     *)
(* below the limit and the number of threads.                              *)
(***************************************************************************)
FailuresInv == fails + Cardinality(Raising) < FailMax + Cardinality(Threads)

LEMMA Counted ==
    ASSUME TypeOK
    PROVE  /\ IsFiniteSet(Raising) /\ Cardinality(Raising) \in Nat
           /\ IsFiniteSet(Raising') /\ Cardinality(Raising') \in Nat
           /\ Cardinality(Raising') <= Cardinality(Threads)
           /\ Cardinality(Threads) \in Nat
           /\ FailMax \in Nat /\ fails \in Nat
<1>1. IsFiniteSet(Threads) /\ Raising \subseteq Threads /\ Raising' \subseteq Threads
  BY SessionAssumption DEF Raising
<1>2. /\ IsFiniteSet(Raising) /\ IsFiniteSet(Raising')
      /\ Cardinality(Raising') <= Cardinality(Threads)
  BY <1>1, FS_Subset
<1> QED BY <1>1, <1>2, FS_CardinalityType, SessionAssumption DEF TypeOK

\* Steps after which no more logins can raise the counter than before.
LEMMA FailuresKept ==
    ASSUME TypeInv, FailuresInv, NEW s \in Threads, Others(s),
           fails' = fails \/ fails' = 0,
           \/ thread'[s].pc \notin {"compare", "incr"}
           \/ thread[s].pc = "compare"
    PROVE  FailuresInv'
<1>1. TypeOK
  BY DEF TypeInv
<1>2. Raising' \subseteq Raising
  BY DEF Raising, Others
<1>3. Cardinality(Raising') <= Cardinality(Raising)
  BY <1>1, <1>2, Counted, FS_Subset
<1> QED BY <1>1, <1>3, Counted DEF FailuresInv

LEMMA FailuresStep == TypeInv /\ FailuresInv /\ [Next]_vars => FailuresInv'
<1> SUFFICES ASSUME TypeInv, FailuresInv, [Next]_vars PROVE FailuresInv'
  OBVIOUS
<1>0. TypeOK
  BY DEF TypeInv
<1>1. ASSUME NEW s \in Threads, SetLimit(s) PROVE FailuresInv'
  BY <1>1, Moves, FailuresKept DEF SetLimit
<1>2. ASSUME NEW s \in Threads, NEW c \in 0..drawn, Attempt(s, c) PROVE FailuresInv'
  <2>1. fails' = fails /\ fails < FailMax
    BY <1>2 DEF Attempt, Open, redis
  <2> QED BY <1>0, <2>1, Counted DEF FailuresInv
<1>3. ASSUME NEW s \in Threads, NEW t \in {0} \cup told, Enter(s, t) PROVE FailuresInv'
  BY <1>3, Moves, FailuresKept DEF Enter, redis
<1>4. ASSUME NEW s \in Threads, Throw(s) PROVE FailuresInv'
  BY <1>4, Moves, FailuresKept DEF Throw, Idle, redis
<1>5. ASSUME NEW s \in Threads, Goes(s) PROVE FailuresInv'
  <2>1. CASE Send(s)
    BY <2>1, Moves, FailuresKept DEF Send, At, Steps, Idle, redis
  <2>2. CASE Compare(s)
    BY <2>2, Moves, FailuresKept DEF Compare, At, Steps, Idle, redis
  <2>3. CASE Incr(s)
    <3>1. /\ Others(s) /\ thread'[s].pc \notin {"compare", "incr"} /\ thread[s].pc = "incr"
          /\ fails' = fails + 1
      BY <2>3, Moves DEF Incr, At, Steps, Idle
    <3>2. Raising' = Raising \ {s} /\ s \in Raising
      BY <3>1 DEF Raising, Others
    <3>3. Cardinality(Raising') = Cardinality(Raising) - 1
      BY <1>0, <3>2, Counted, FS_RemoveElement
    <3> QED BY <1>0, <3>1, <3>3, Counted DEF FailuresInv
  <2>4. CASE Expire(s)
    BY <2>4, Moves, FailuresKept DEF Expire, At, Steps, Idle, redis
  <2>5. CASE Consume(s)
    BY <2>5, Moves, FailuresKept DEF Consume, At, Steps, Idle, redis
  <2>6. CASE Reset(s)
    BY <2>6, Moves, FailuresKept DEF Reset, At, Steps, Idle, redis
  <2>7. CASE Select(s)
    BY <2>7, Moves, FailuresKept DEF Select, At, Steps, Idle, redis
  <2>8. CASE Create(s)
    BY <2>8, Moves, FailuresKept DEF Create, At, Steps, Idle, redis
  <2>9. CASE Put(s)
    BY <2>9, Moves, FailuresKept DEF Put, At, Steps, Idle, redis
  <2>10. CASE Live(s)
    BY <2>10, Moves, FailuresKept DEF Live, At, Steps, Idle, redis
  <2>11. CASE Refresh(s)
    BY <2>11, Moves, FailuresKept DEF Refresh, At, Steps, Idle, redis
  <2>12. CASE Gate(s)
    BY <2>12, Moves, FailuresKept DEF Gate, At, Steps, Idle, redis
  <2>13. CASE Delete(s)
    BY <2>13, Moves, FailuresKept DEF Delete, At, Steps, Idle, redis
  <2> QED BY <1>5, <2>1, <2>2, <2>3, <2>4, <2>5, <2>6, <2>7, <2>8, <2>9, <2>10, <2>11, <2>12, <2>13
          DEF Goes
<1>6. CASE UNCHANGED thread /\ (fails' = fails \/ fails' = 0)
  <2>1. Raising' = Raising
    BY <1>6 DEF Raising
  <2> QED BY <1>0, <1>6, <2>1, Counted DEF FailuresInv
<1>7. CASE LimitEnds \/ CodeEnds \/ FailsEnd \/ (\E t \in Tokens : SessionEnds(t)) \/ UNCHANGED vars
  BY <1>6, <1>7 DEF LimitEnds, CodeEnds, FailsEnd, SessionEnds, vars, redis
<1> QED BY <1>1, <1>2, <1>3, <1>4, <1>5, <1>7 DEF Next

\* Logins that pass the counter together raise it above the limit by no more
\* than one each.
THEOREM FailuresBoundedCorrect == Spec => []FailuresBounded
<1>1. Init => FailuresInv
  <2> SUFFICES ASSUME Init PROVE FailuresInv
    OBVIOUS
  <2>1. Raising = {} /\ fails = 0
    BY DEF Init, Raising, Idle
  <2>2. FailMax \in Nat \ {0} /\ Cardinality(Threads) \in Nat
    BY SessionAssumption, FS_CardinalityType
  <2> QED BY <2>1, <2>2, FS_EmptySet DEF FailuresInv
<1>2. TypeInv /\ FailuresInv => FailuresBounded
  BY Counted DEF TypeInv, FailuresInv, FailuresBounded
<1> QED BY <1>1, <1>2, FailuresStep, TypeInvAlways, PTL DEF Spec
=============================================================================

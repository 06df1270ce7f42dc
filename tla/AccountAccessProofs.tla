------------------------- MODULE AccountAccessProofs -------------------------
(***************************************************************************)
(* Proofs about AccountAccess, for any users, devices, clients, codes,     *)
(* attempts and mishaps.                                                   *)
(***************************************************************************)
EXTENDS AccountAccess, SequenceTheorems, TLAPS

-----------------------------------------------------------------------------
(* The inductive invariant.                                                *)

Message == [op : {"token", "code", "get"}, user : Users, code : Codes \cup {None},
            for : Requests \cup {None}]

Request == [pc : Pcs, kind : Kinds \cup {None}, user : Users \cup {None},
            device : Devices \cup {None}, code : Codes \cup {None, Wrong},
            new : Codes \cup {None}, cached : Codes \cup {None}, tries : 0 .. MaxAttempts,
            channel : {"sms", "email", "none", None}, tfa : BOOLEAN,
            attempt : 0 .. MaxRetries - 1, aim : Aims]

\* An event about a device names it.
Happening == {e \in Event : e.what = "device" => e.device \in Devices}

\* All but the requests.
StoreOK ==
    /\ account \in [Users -> Account] /\ devices \in [Users -> Trusted]
    /\ otp \in [Users -> Codes \cup {None}] /\ tries \in [Users -> 0 .. MaxAttempts]
    /\ session \in [Users -> BOOLEAN]
    /\ redis \in Seq(Message)
    /\ mail \in SUBSET (Users \X Codes) /\ inbox \in [Users -> Codes \cup {None}]
    /\ events \in SUBSET Happening
    /\ secret \in [Users -> 0 .. MaxSecrets] /\ app \in [Users -> 0 .. MaxSecrets]
    /\ entitled \in SUBSET (Users \cup Requests)
    /\ mishaps \in 0 .. MaxMishaps

\* What a request needs where it is: a user, the device that is to be trusted, a code to
\* be sent, an attempt that is left.
Fits(x) ==
    x.pc \notin {"idle", "done"} =>
        /\ x.user \in Users
        /\ x.kind \in {"sign-up", "device"} => x.device \in Devices
        /\ x.pc = "emit" => x.kind = "sign-up"
        /\ x.pc \in {"otp", "tries", "count", "used", "reset"} => x.kind \in {"verify", "device"}
        /\ x.pc = "save" => x.kind = "device"
        /\ x.pc = "count" => x.tries < MaxAttempts
        /\ x.pc = "send" => x.new \in Codes

RequestsOK == /\ req \in [Requests -> Request]
              /\ \A r \in Requests : Fits(req[r])

\* Message m asks whether there is a token for request r; it brings the one of u.
Asks(m, r)   == m.op = "get" /\ m.for = r
Brings(m, u) == m.op = "token" /\ m.user = u

\* A refresh that waits for Redis has one question in the queue; users ask none.
QueueOK ==
    \A i \in DOMAIN redis : redis[i].op = "get" =>
        /\ redis[i].for \in Clients
        /\ req[redis[i].for].pc = "wait" /\ req[redis[i].for].user = redis[i].user
        /\ \A j \in DOMAIN redis : Asks(redis[j], redis[i].for) => j = i

\* The token of u is among those stored in s, or one of the first n messages of q brings it.
Stored(s, q, u, n) == s[u] = TRUE \/ \E i \in DOMAIN q : i <= n /\ Brings(q[i], u)

\* Who may count on a token has one, at the latest when the queue is empty; a refresh
\* that may count on one finds it when its question is served, and did not before it asked.
Kept ==
    /\ \A u \in Users \cap entitled : Stored(session, redis, u, Len(redis))
    /\ \A i \in DOMAIN redis :
          redis[i].op = "get" /\ redis[i].for \in entitled
          => Stored(session, redis, redis[i].user, i)
    /\ \A r \in Clients : req[r].pc = "idle" => r \notin entitled

AccessInv == StoreOK /\ RequestsOK /\ QueueOK /\ Kept

-----------------------------------------------------------------------------
(* Requests, codes and the queue.                                          *)

LEMMA NoReqTyped ==
    /\ NoReq \in Request /\ NoReq.pc = "idle"
    /\ \A r \in Requests, a \in Aims :
          /\ Answered(r, a) \in Request /\ Answered(r, a).pc \in {"idle", "done"}
          /\ r \in Clients => Answered(r, a).pc = "done"
<1>1. 0 \in 0 .. MaxAttempts /\ 0 \in 0 .. MaxRetries - 1
    BY AccessAssumption DEF AccessAssumption
<1>2. NoReq \in Request /\ NoReq.pc = "idle"
    BY <1>1 DEF NoReq, Request, Pcs, Aims
<1>3. ASSUME NEW a \in Aims
      PROVE  /\ [NoReq EXCEPT !.aim = a] \in Request
             /\ [NoReq EXCEPT !.aim = a].pc = "idle"
    BY <1>2 DEF Request
<1>4. [NoReq EXCEPT !.pc = "done"] \in Request /\ [NoReq EXCEPT !.pc = "done"].pc = "done"
    BY <1>2 DEF Request, Pcs
<1> QED
    BY <1>2, <1>3, <1>4, AccessAssumption DEF Answered, AccessAssumption

LEMMA NewOtpIsNew ==
    ASSUME Codes \ Around # {} PROVE NewOtp \in Codes /\ NewOtp \notin Around
BY DEF NewOtp

\* When the requests become q, those that wait for Redis still do, and a client that was
\* through does not begin again.
Undisturbed(q) ==
    \A s \in Requests : /\ req[s].pc = "wait" => q[s] = req[s]
                        /\ s \in Clients /\ q[s].pc = "idle" => req[s].pc = "idle"

\* Request r moves on, and is not one that waits for Redis.
LEMMA Moves ==
    ASSUME AccessInv, NEW r \in Requests, NEW x \in Request, Fits(x), req[r].pc # "wait",
           r \in Clients => x.pc # "idle", req' = [req EXCEPT ![r] = x]
    PROVE  RequestsOK' /\ Undisturbed(req')
BY DEF AccessInv, RequestsOK, Undisturbed

\* A request that is answered has nothing to fit.
LEMMA Answers ==
    ASSUME AccessInv, NEW r \in Requests, NEW a \in Aims, req[r].pc # "wait", Answer(r, a)
    PROVE  RequestsOK' /\ Undisturbed(req')
<1>1. /\ Answered(r, a) \in Request /\ Fits(Answered(r, a))
      /\ r \in Clients => Answered(r, a).pc # "idle"
    BY NoReqTyped DEF Fits
<1> QED
    BY <1>1, Moves DEF Answer

\* The queue and who counts on a token stay as they are.
LEMMA QueueStays ==
    ASSUME AccessInv, redis' = redis, session' = session, entitled' = entitled,
           Undisturbed(req')
    PROVE  QueueOK' /\ Kept'
<1>1. QueueOK'
    BY DEF AccessInv, QueueOK, Requests, Undisturbed
<1>2. Kept'
    BY DEF AccessInv, Kept, Requests, Undisturbed
<1> QED
    BY <1>1, <1>2

\* A message that asks nothing joins the queue.  Only a token lets somebody count on one.
LEMMA QueueGrows ==
    ASSUME AccessInv, NEW m \in Message, m.op # "get", redis' = Append(redis, m),
           session' = session,
           \/ entitled' = entitled
           \/ m.op = "token" /\ entitled' = entitled \cup {m.user},
           Undisturbed(req')
    PROVE  redis' \in Seq(Message) /\ QueueOK' /\ Kept'
<1>0. StoreOK /\ QueueOK /\ Kept
    BY DEF AccessInv
<1> DEFINE n == Len(redis)
<1>1. /\ redis \in Seq(Message) /\ n \in Nat /\ DOMAIN redis = 1 .. n
      /\ redis' \in Seq(Message) /\ DOMAIN redis' = 1 .. n + 1 /\ Len(redis') = n + 1
      /\ \A i \in 1 .. n : redis'[i] = redis[i]
      /\ redis'[n + 1] = m
    BY <1>0 DEF StoreOK
<1> HIDE DEF n
<1>2. ASSUME NEW i \in DOMAIN redis', redis'[i].op = "get"
      PROVE  i \in 1 .. n /\ redis'[i] = redis[i]
    BY <1>1, <1>2
<1>3. QueueOK'
    BY <1>0, <1>1, <1>2 DEF QueueOK, Asks, Requests, Undisturbed
<1>4. ASSUME NEW i \in 1 .. n, NEW u, Stored(session, redis, u, i)
      PROVE  Stored(session', redis', u, i) /\ Stored(session', redis', u, n + 1)
    BY <1>1, <1>4 DEF Stored
<1>5. ASSUME NEW u \in Users \cap entitled'
      PROVE  Stored(session', redis', u, n + 1)
    <2>1. CASE u \in entitled
        <3>1. Stored(session, redis, u, n)
            BY <1>0, <1>5, <2>1 DEF Kept, n
        <3> QED
            BY <1>1, <3>1 DEF Stored
    <2>2. CASE u \notin entitled
        BY <1>1, <1>5, <2>2 DEF Stored, Brings
    <2> QED
        BY <2>1, <2>2
<1>6. ASSUME NEW i \in DOMAIN redis', redis'[i].op = "get", redis'[i].for \in entitled'
      PROVE  Stored(session', redis', redis'[i].user, i)
    <2>1. i \in 1 .. n /\ redis'[i] = redis[i]
        BY <1>2, <1>6
    <2>2. redis[i].for \in entitled
        <3>1. redis[i].for \in Clients
            BY <1>0, <1>1, <1>6, <2>1 DEF QueueOK
        <3>2. redis[i].for # m.user
            BY <3>1, AccessAssumption DEF AccessAssumption, Message
        <3> QED
            BY <1>6, <2>1, <3>2
    <2> QED
        BY <1>0, <1>1, <1>4, <1>6, <2>1, <2>2 DEF Kept
<1>7. Kept'
    <2>1. ASSUME NEW s \in Clients, req'[s].pc = "idle" PROVE s \notin entitled'
        <3>1. s \notin entitled /\ s \notin Users
            BY <1>0, <2>1, AccessAssumption DEF Kept, Undisturbed, Requests, AccessAssumption
        <3> QED
            BY <3>1 DEF Message
    <2> QED
        BY <1>1, <1>5, <1>6, <2>1 DEF Kept
<1> QED
    BY <1>1, <1>3, <1>7

\* Nobody counts on the token of u any longer, and it goes.
LEMMA TokenGoes ==
    ASSUME AccessInv, NEW u \in Users, session' = [session EXCEPT ![u] = FALSE],
           entitled' = Disowned(u), redis' = redis, Undisturbed(req')
    PROVE  /\ session' \in [Users -> BOOLEAN] /\ entitled' \in SUBSET (Users \cup Requests)
           /\ QueueOK' /\ Kept'
<1>0. StoreOK /\ RequestsOK /\ QueueOK /\ Kept
    BY DEF AccessInv
<1>1. /\ session' \in [Users -> BOOLEAN] /\ entitled' \in SUBSET (Users \cup Requests)
      /\ entitled' \subseteq entitled /\ u \notin entitled'
      /\ \A r \in Requests : r \in entitled' => req[r].user # u
      /\ \A w \in Users \ {u} : session'[w] = session[w]
    BY <1>0 DEF StoreOK, Disowned, Of
<1>2. QueueOK'
    BY <1>0 DEF QueueOK, Requests, Undisturbed
<1>3. ASSUME NEW w \in Users \ {u}, NEW n, Stored(session, redis, w, n)
      PROVE  Stored(session', redis', w, n)
    BY <1>1, <1>3 DEF Stored
<1>4. ASSUME NEW w \in Users \cap entitled' PROVE Stored(session', redis', w, Len(redis'))
    BY <1>0, <1>1, <1>3 DEF Kept
<1>5. ASSUME NEW i \in DOMAIN redis', redis'[i].op = "get", redis'[i].for \in entitled'
      PROVE  Stored(session', redis', redis'[i].user, i)
    <2>1. /\ redis[i].for \in Requests /\ req[redis[i].for].user = redis[i].user
          /\ redis[i].for \in entitled
        BY <1>0, <1>1, <1>5 DEF QueueOK, Requests
    <2>2. redis[i] \in Message
        BY <1>0, <1>5 DEF StoreOK
    <2>3. redis[i].user \in Users \ {u}
        BY <1>1, <1>5, <2>1, <2>2 DEF Message
    <2> QED
        BY <1>0, <1>3, <1>5, <2>1, <2>3 DEF Kept
<1>6. \A r \in Clients : req'[r].pc = "idle" => r \notin entitled'
    BY <1>0, <1>1 DEF Kept, Undisturbed, Requests
<1> QED
    BY <1>1, <1>2, <1>4, <1>5, <1>6 DEF Kept

\* A client asks for a new token: its question joins the queue.
LEMMA AskRefreshKeeps ==
    ASSUME AccessInv, NEW r \in Clients, NEW u \in Users, AskRefresh(r, u)
    PROVE  AccessInv'
<1>0. StoreOK /\ RequestsOK /\ QueueOK /\ Kept
    BY DEF AccessInv
<1> DEFINE m == [op |-> "get", user |-> u, code |-> None, for |-> r]
           x == [req[r] EXCEPT !.pc = "wait", !.kind = "refresh", !.user = u]
           n == Len(redis)
<1>1. /\ req[r].pc = "idle" /\ req' = [req EXCEPT ![r] = x] /\ redis' = Append(redis, m)
      /\ entitled' = IF u \in entitled THEN entitled \cup {r} ELSE entitled
      /\ session' = session
      /\ UNCHANGED <<account, devices, otp, tries, mail, inbox, events, secret, app, mishaps>>
    BY DEF AskRefresh, At, Rows, Keys, Totp
<1>2. r \in Requests /\ r \notin Users /\ r \notin entitled
    BY <1>0, <1>1, AccessAssumption DEF Kept, Requests, AccessAssumption
<1>3. /\ req[r] \in Request /\ x \in Request /\ x.pc = "wait" /\ x.kind = "refresh"
      /\ x.user = u
    <2>1. req[r] \in Request
        BY <1>0, <1>2 DEF RequestsOK
    <2>2. "wait" \in Pcs /\ "refresh" \in Kinds
        BY DEF Pcs, Kinds
    <2> QED
        BY <2>1, <2>2 DEF Request
<1>4. m \in Message /\ m.op = "get" /\ m.for = r /\ m.user = u
    BY <1>2 DEF Message
<1>5. /\ redis \in Seq(Message) /\ n \in Nat /\ DOMAIN redis = 1 .. n
      /\ redis' \in Seq(Message) /\ DOMAIN redis' = 1 .. n + 1 /\ Len(redis') = n + 1
      /\ \A i \in 1 .. n : redis'[i] = redis[i]
      /\ redis'[n + 1] = m
    BY <1>0, <1>1, <1>4 DEF StoreOK
<1> HIDE DEF x, m, n
<1>6. \A s \in Requests : req'[s] = IF s = r THEN x ELSE req[s]
    BY <1>0, <1>1, <1>3 DEF RequestsOK
<1>7. StoreOK'
    <2>1. entitled' \in SUBSET (Users \cup Requests)
        BY <1>0, <1>1, <1>2 DEF StoreOK
    <2> QED
        BY <1>0, <1>1, <1>5, <2>1 DEF StoreOK
<1>8. RequestsOK'
    BY <1>0, <1>1, <1>3, <1>6 DEF RequestsOK, Fits
<1>9. \A i \in 1 .. n : redis[i].op = "get" =>
         /\ redis[i].for \in Requests \ {r} /\ redis[i].for \in Clients
         /\ req'[redis[i].for] = req[redis[i].for]
    BY <1>0, <1>1, <1>5, <1>6 DEF QueueOK, Requests
<1>10. QueueOK'
    <2> SUFFICES ASSUME NEW i \in 1 .. n + 1, redis'[i].op = "get"
                 PROVE  /\ redis'[i].for \in Clients
                        /\ req'[redis'[i].for].pc = "wait"
                        /\ req'[redis'[i].for].user = redis'[i].user
                        /\ \A j \in 1 .. n + 1 : Asks(redis'[j], redis'[i].for) => j = i
        BY <1>5 DEF QueueOK
    <2>1. CASE i = n + 1
        BY <1>2, <1>3, <1>4, <1>5, <1>6, <1>9, <2>1 DEF Asks
    <2>2. CASE i \in 1 .. n
        BY <1>0, <1>4, <1>5, <1>9, <2>2 DEF QueueOK, Asks
    <2> QED
        BY <1>5, <2>1, <2>2
<1>11. ASSUME NEW i \in 1 .. n, NEW w, Stored(session, redis, w, i)
       PROVE  Stored(session', redis', w, i)
    BY <1>1, <1>5, <1>11 DEF Stored
<1>12. ASSUME NEW w, Stored(session, redis, w, n)
       PROVE  Stored(session', redis', w, n + 1)
    BY <1>1, <1>5, <1>12 DEF Stored
<1>13. ASSUME NEW w \in Users \cap entitled'
       PROVE  Stored(session', redis', w, n + 1)
    BY <1>0, <1>1, <1>2, <1>12, <1>13 DEF Kept, n
<1>14. ASSUME NEW i \in 1 .. n + 1, redis'[i].op = "get", redis'[i].for \in entitled'
       PROVE  Stored(session', redis', redis'[i].user, i)
    <2>1. CASE i = n + 1
        <3>1. u \in Users \cap entitled'
            BY <1>1, <1>2, <1>4, <1>5, <1>14, <2>1
        <3> QED
            BY <1>4, <1>5, <1>13, <2>1, <3>1
    <2>2. CASE i \in 1 .. n
        BY <1>0, <1>1, <1>5, <1>9, <1>11, <1>14, <2>2 DEF Kept
    <2> QED
        BY <1>5, <2>1, <2>2
<1>15. \A s \in Clients : req'[s].pc = "idle" => s \notin entitled'
    BY <1>0, <1>1, <1>3, <1>6 DEF Kept, Requests
<1> QED
    BY <1>5, <1>7, <1>8, <1>10, <1>13, <1>14, <1>15 DEF AccessInv, Kept

\* The redis service serves the first message.
LEMMA RedisStepKeeps ==
    ASSUME AccessInv, RedisStep
    PROVE  AccessInv'
<1>0. StoreOK /\ RequestsOK /\ QueueOK /\ Kept
    BY DEF AccessInv
<1> DEFINE m == Head(redis)
           n == Len(redis) - 1
           y == [req[m.for] EXCEPT !.pc = IF session[m.user] THEN "found" ELSE "missing"]
<1>1. /\ redis \in Seq(Message) /\ redis # <<>> /\ redis' = Tail(redis) /\ Serve(m)
    BY <1>0 DEF StoreOK, RedisStep
<1>2. /\ n \in Nat /\ DOMAIN redis = 1 .. n + 1 /\ Len(redis) = n + 1
      /\ redis' \in Seq(Message) /\ DOMAIN redis' = 1 .. n /\ Len(redis') = n
      /\ \A i \in 1 .. n : redis'[i] = redis[i + 1]
      /\ m = redis[1] /\ m \in Message
    BY <1>1
<1>3. UNCHANGED <<account, devices, tries, mail, inbox, events, secret, app, entitled, mishaps>>
    BY <1>1 DEF Serve, Rows, Totp, Past
<1>4. /\ m.user \in Users
      /\ m.op = "token" => /\ session' = [session EXCEPT ![m.user] = TRUE]
                           /\ otp' = otp /\ req' = req
      /\ m.op = "code" => /\ \E c \in Left(m.user, m.code) : otp' = [otp EXCEPT ![m.user] = c]
                          /\ session' = session /\ req' = req
      /\ m.op = "get" => /\ otp' = otp /\ session' = session
                         /\ Go(m.for, IF session[m.user] THEN "found" ELSE "missing")
      /\ m.op \in {"token", "code", "get"}
    BY <1>1, <1>2 DEF Serve, Message
<1>5. m.op = "get" =>
         /\ m.for \in Clients /\ m.for \in Requests /\ req[m.for].pc = "wait"
         /\ req[m.for].user = m.user /\ req' = [req EXCEPT ![m.for] = y]
         /\ req[m.for] \in Request
    BY <1>0, <1>2, <1>4 DEF QueueOK, RequestsOK, Requests, Go
<1>6. m.op = "get" =>
         /\ y \in Request /\ y.pc \in {"found", "missing"} /\ y.user = m.user
         /\ y.kind = req[m.for].kind /\ y.device = req[m.for].device
    <2>1. "found" \in Pcs /\ "missing" \in Pcs
        BY DEF Pcs
    <2> QED
        BY <1>5, <2>1 DEF Request
<1> HIDE DEF m, n, y
<1>7. StoreOK'
    <2>1. otp' \in [Users -> Codes \cup {None}]
        BY <1>0, <1>4 DEF StoreOK, Left
    <2>2. session' \in [Users -> BOOLEAN]
        BY <1>0, <1>4 DEF StoreOK
    <2> QED
        BY <1>0, <1>2, <1>3, <2>1, <2>2 DEF StoreOK
<1>8. RequestsOK'
    <2>1. CASE m.op = "get"
        <3>1. Fits(req[m.for]) /\ req[m.for].pc = "wait"
            BY <1>0, <1>5, <2>1 DEF RequestsOK
        <3>2. /\ y.pc \in {"found", "missing"} /\ y.user \in Users
              /\ y.kind = req[m.for].kind /\ y.device = req[m.for].device
            BY <1>4, <1>6, <2>1
        <3>3. Fits(y)
            BY <3>1, <3>2 DEF Fits
        <3>4. \A s \in Requests : req'[s] = IF s = m.for THEN y ELSE req[s]
            BY <1>0, <1>5, <2>1 DEF RequestsOK
        <3>5. req' \in [Requests -> Request]
            BY <1>0, <1>5, <1>6, <2>1 DEF RequestsOK
        <3> QED
            BY <1>0, <3>3, <3>4, <3>5 DEF RequestsOK
    <2>2. CASE m.op # "get"
        BY <1>0, <1>4, <2>2 DEF RequestsOK
    <2> QED
        BY <2>1, <2>2
<1>9. ASSUME NEW i \in 1 .. n, redis'[i].op = "get"
      PROVE  req'[redis'[i].for] = req[redis'[i].for]
    <2>1. CASE m.op = "get"
        <3>1. redis'[i].for # m.for /\ redis'[i].for \in Requests
            BY <1>0, <1>2, <1>9, <2>1 DEF QueueOK, Asks, Requests
        <3> QED
            BY <1>0, <1>5, <2>1, <3>1 DEF RequestsOK
    <2>2. CASE m.op # "get"
        BY <1>4, <2>2
    <2> QED
        BY <2>1, <2>2
<1>10. QueueOK'
    <2> SUFFICES ASSUME NEW i \in 1 .. n, redis'[i].op = "get"
                 PROVE  /\ redis'[i].for \in Clients
                        /\ req'[redis'[i].for].pc = "wait"
                        /\ req'[redis'[i].for].user = redis'[i].user
                        /\ \A j \in 1 .. n : Asks(redis'[j], redis'[i].for) => j = i
        BY <1>2 DEF QueueOK
    <2>1. i + 1 \in 1 .. n + 1 /\ redis'[i] = redis[i + 1]
        BY <1>2
    <2>2. /\ redis'[i].for \in Clients
          /\ req[redis'[i].for].pc = "wait" /\ req[redis'[i].for].user = redis'[i].user
          /\ \A j \in 1 .. n + 1 : Asks(redis[j], redis'[i].for) => j = i + 1
        BY <1>0, <1>2, <2>1 DEF QueueOK
    <2>3. \A j \in 1 .. n : Asks(redis'[j], redis'[i].for) => j = i
        BY <1>2, <2>2
    <2> QED
        BY <1>9, <2>2, <2>3
<1>11. ASSUME NEW u \in Users, NEW i \in 0 .. n, Stored(session, redis, u, i + 1)
       PROVE  Stored(session', redis', u, i)
    <2>0. session \in [Users -> BOOLEAN]
        BY <1>0 DEF StoreOK
    <2>1. CASE session[u] = TRUE
        <3>1. session'[u] = TRUE
            BY <1>4, <2>0, <2>1
        <3> QED
            BY <3>1 DEF Stored
    <2>2. CASE Brings(m, u)
        <3>1. session'[u] = TRUE
            BY <1>4, <2>0, <2>2 DEF Brings
        <3> QED
            BY <3>1 DEF Stored
    <2>3. CASE \E j \in 2 .. n + 1 : j <= i + 1 /\ Brings(redis[j], u)
        <3>1. PICK j \in 2 .. n + 1 : j <= i + 1 /\ Brings(redis[j], u)
            BY <2>3
        <3>2. j - 1 \in 1 .. n /\ j - 1 <= i /\ redis'[j - 1] = redis[j]
            BY <1>2, <3>1
        <3> QED
            BY <1>2, <3>1, <3>2 DEF Stored
    <2>4. CASE session[u] # TRUE
        <3>1. PICK j \in 1 .. n + 1 : j <= i + 1 /\ Brings(redis[j], u)
            BY <1>2, <1>11, <2>4 DEF Stored
        <3>2. j = 1 \/ j \in 2 .. n + 1
            BY <1>2, <3>1
        <3> QED
            BY <1>2, <2>2, <2>3, <3>1, <3>2
    <2> QED
        BY <2>1, <2>4
<1>12. ASSUME NEW u \in Users \cap entitled' PROVE Stored(session', redis', u, n)
    <2>1. Stored(session, redis, u, n + 1)
        BY <1>0, <1>2, <1>3, <1>12 DEF Kept
    <2> QED
        BY <1>2, <1>11, <2>1
<1>13. ASSUME NEW i \in 1 .. n, redis'[i].op = "get", redis'[i].for \in entitled'
       PROVE  Stored(session', redis', redis'[i].user, i)
    <2>1. i + 1 \in 1 .. n + 1 /\ redis'[i] = redis[i + 1] /\ redis[i + 1] \in Message
        BY <1>1, <1>2
    <2>2. Stored(session, redis, redis[i + 1].user, i + 1) /\ redis[i + 1].user \in Users
        BY <1>0, <1>2, <1>3, <1>13, <2>1 DEF Kept, Message
    <2> QED
        BY <1>11, <2>1, <2>2
<1>14. \A s \in Clients : req'[s].pc = "idle" => s \notin entitled'
    <2>1. CASE m.op = "get"
        BY <1>0, <1>3, <1>5, <1>6, <2>1 DEF Kept, RequestsOK, Requests
    <2>2. CASE m.op # "get"
        BY <1>0, <1>3, <1>4, <2>2 DEF Kept
    <2> QED
        BY <2>1, <2>2
<1> QED
    BY <1>2, <1>7, <1>8, <1>10, <1>12, <1>13, <1>14 DEF AccessInv, Kept

-----------------------------------------------------------------------------
(* Handlers.                                                               *)

\* What the handlers of codes, log-ins and devices leave as it is.
LEMMA Frame ==
    ASSUME AccessInv, StoreOK', RequestsOK', Undisturbed(req'),
           redis' = redis, session' = session, entitled' = entitled
    PROVE  AccessInv'
BY QueueStays DEF AccessInv

\* The record of a request that goes on at pc.
LEMMA Goes ==
    ASSUME AccessInv, NEW r \in Requests, NEW pc \in Pcs \ {"idle"}, Go(r, pc),
           req[r].pc # "wait",
           pc = "done" \/ req[r].pc \notin {"idle", "done"},
           pc \notin {"emit", "otp", "tries", "count", "send"},
           pc \in {"used", "reset"} => req[r].kind \in {"verify", "device"},
           pc = "save" => req[r].kind = "device"
    PROVE  RequestsOK' /\ Undisturbed(req')
<1> DEFINE x == [req[r] EXCEPT !.pc = pc]
<1>1. req[r] \in Request /\ Fits(req[r]) /\ req' = [req EXCEPT ![r] = x]
    BY DEF AccessInv, RequestsOK, Go
<1>2. /\ x \in Request /\ x.pc = pc /\ x.user = req[r].user /\ x.kind = req[r].kind
      /\ x.device = req[r].device
    BY <1>1 DEF Request
<1> HIDE DEF x
<1>3. Fits(x)
    BY <1>1, <1>2 DEF Fits
<1> QED
    BY <1>1, <1>2, <1>3, Moves

\* A request begins.
LEMMA AskKeeps ==
    ASSUME AccessInv, NEW r \in Requests, NEW kind \in Kinds,
           NEW pc \in {"emit", "user", "issue", "otp", "out", "token"},
           NEW u \in Users, NEW d \in Devices \cup {None}, NEW c \in Codes \cup {None, Wrong},
           kind \in {"sign-up", "device"} => d \in Devices,
           pc = "emit" => kind = "sign-up",
           pc = "otp" => kind \in {"verify", "device"},
           Ask(r, kind, pc, u, d, c), UNCHANGED Post
    PROVE  AccessInv'
<1> DEFINE x == [req[r] EXCEPT !.pc = pc, !.kind = kind, !.user = u, !.device = d, !.code = c]
<1>0. StoreOK /\ RequestsOK
    BY DEF AccessInv
<1>1. req[r] \in Request /\ req[r].pc = "idle" /\ req' = [req EXCEPT ![r] = x]
    BY <1>0 DEF RequestsOK, Ask, At
<1>2. /\ x \in Request /\ x.pc = pc /\ x.user = u /\ x.kind = kind /\ x.device = d
    <2>1. pc \in Pcs
        BY DEF Pcs
    <2> QED
        BY <1>1, <2>1 DEF Request
<1> HIDE DEF x
<1>3. Fits(x)
    BY <1>2 DEF Fits
<1>4. RequestsOK' /\ Undisturbed(req')
    BY <1>1, <1>2, <1>3, Moves
<1>5. /\ redis' = redis /\ session' = session /\ entitled' = entitled
      /\ StoreOK'
    BY <1>0 DEF Ask, Post, Rows, Keys, Totp, Past, StoreOK
<1> QED
    BY <1>4, <1>5, Frame

\* What a handler finds in its request.
LEMMA Running ==
    ASSUME AccessInv, NEW r \in Requests
    PROVE  /\ StoreOK /\ req[r] \in Request /\ Fits(req[r])
           /\ req[r].pc \notin {"idle", "done"} => Of(r) \in Users
BY DEF AccessInv, RequestsOK, Fits, Of

LEMMA EmitDeviceKeeps ==
    ASSUME AccessInv, NEW r \in Requests, EmitDevice(r)
    PROVE  AccessInv'
<1>1. /\ StoreOK /\ req[r] \in Request /\ Of(r) \in Users /\ req[r].pc = "emit"
      /\ req[r].device \in Devices /\ Go(r, "issue")
      /\ UNCHANGED <<Rows, Keys, redis, mail, inbox, Totp, Past>>
      /\ events' = events \cup {[what |-> "device", user |-> Of(r), device |-> req[r].device]}
    BY Running DEF EmitDevice, At, Fits
<1>2. [what |-> "device", user |-> Of(r), device |-> req[r].device] \in Happening
    BY <1>1 DEF Happening, Event
<1>3. "issue" \in Pcs
    BY DEF Pcs
<1>4. RequestsOK' /\ Undisturbed(req')
    BY <1>1, <1>3, Goes
<1>5. events' \in SUBSET Happening
    BY <1>1, <1>2 DEF StoreOK
<1>6. StoreOK' /\ redis' = redis /\ session' = session /\ entitled' = entitled
    BY <1>1, <1>5 DEF StoreOK, Rows, Keys, Totp, Past
<1> QED
    BY <1>4, <1>6, Frame

LEMMA CommitUserKeeps ==
    ASSUME AccessInv, NEW r \in Requests, CommitUser(r)
    PROVE  AccessInv'
<1>1. /\ StoreOK /\ Of(r) \in Users /\ req[r].pc = "commit" /\ Answer(r, "verify")
      /\ account' = [account EXCEPT ![Of(r)].is = TRUE]
      /\ UNCHANGED <<devices, Keys, Post, Totp, Past>>
    BY Running DEF CommitUser, At
<1>2. account' \in [Users -> Account]
    BY <1>1 DEF StoreOK, Account
<1>3. "verify" \in Aims
    BY DEF Aims
<1>4. RequestsOK' /\ Undisturbed(req')
    BY <1>1, <1>3, Answers
<1>5. StoreOK' /\ redis' = redis /\ session' = session /\ entitled' = entitled
    BY <1>1, <1>2 DEF StoreOK, Keys, Post, Totp, Past
<1> QED
    BY <1>4, <1>5, Frame

LEMMA LoginUserKeeps ==
    ASSUME AccessInv, NEW r \in Requests, LoginUser(r)
    PROVE  AccessInv'
<1> DEFINE pc == IF ~account[Of(r)].verified THEN "issue"
                 ELSE IF Of(r) \in Admins THEN "token" ELSE "device"
           x == [req[r] EXCEPT !.tfa = account[Of(r)].tfa, !.pc = pc]
<1>1. /\ StoreOK /\ req[r] \in Request /\ Of(r) \in Users /\ req[r].pc = "user"
      /\ Fits(req[r]) /\ req' = [req EXCEPT ![r] = x]
      /\ UNCHANGED <<Rows, Keys, Post, Totp, Past>>
    BY Running DEF LoginUser, At, Verified
<1>2. pc \in Pcs /\ pc \in {"issue", "token", "device"}
    BY DEF Pcs
<1>3. account[Of(r)].tfa \in BOOLEAN
    BY <1>1 DEF StoreOK, Account
<1> HIDE DEF pc
<1>4. /\ x \in Request /\ x.pc = pc /\ x.user = req[r].user /\ x.kind = req[r].kind
      /\ x.device = req[r].device
    BY <1>1, <1>2, <1>3 DEF Request
<1> HIDE DEF x
<1>5. Fits(x)
    BY <1>1, <1>2, <1>4 DEF Fits
<1>6. RequestsOK' /\ Undisturbed(req')
    BY <1>1, <1>2, <1>4, <1>5, Moves
<1>7. StoreOK' /\ redis' = redis /\ session' = session /\ entitled' = entitled
    BY <1>1 DEF StoreOK, Rows, Keys, Post, Totp, Past
<1> QED
    BY <1>6, <1>7, Frame

LEMMA LoginDeviceKeeps ==
    ASSUME AccessInv, NEW r \in Requests, LoginDevice(r)
    PROVE  AccessInv'
<1>1. /\ StoreOK /\ req[r] \in Request /\ Of(r) \in Users /\ req[r].pc = "device"
      /\ Fits(req[r]) /\ UNCHANGED <<Rows, Keys, Post, Totp, Past>>
    BY Running DEF LoginDevice, At
<1>2. StoreOK' /\ redis' = redis /\ session' = session /\ entitled' = entitled
    BY <1>1 DEF StoreOK, Rows, Keys, Post, Totp, Past
<1>3. "login" \in Aims /\ "2fa" \in Aims /\ "token" \in Pcs /\ "first" \in Pcs
    BY DEF Aims, Pcs
<1> DEFINE x == [req[r] EXCEPT !.pc = "token"]
           y == [req[r] EXCEPT !.pc = "first", !.channel = ChannelOf(r)]
<1>4. \/ req' = [req EXCEPT ![r] = x]
      \/ Answer(r, "login")
      \/ Answer(r, "2fa")
      \/ LastKnown(Of(r)) # None /\ req' = [req EXCEPT ![r] = y]
    BY DEF LoginDevice, Answer
<1>5. /\ x \in Request /\ x.pc = "token" /\ x.user = req[r].user /\ x.kind = req[r].kind
      /\ x.device = req[r].device
    BY <1>1, <1>3 DEF Request
<1>6. ASSUME LastKnown(Of(r)) # None
      PROVE  /\ y \in Request /\ y.pc = "first" /\ y.user = req[r].user
             /\ y.kind = req[r].kind /\ y.device = req[r].device
    <2>1. LastKnown(Of(r)) \in Devices
        BY <1>1, <1>6 DEF StoreOK, Trusted, LastKnown
    <2>2. ChannelOf(r) \in {"sms", "email", "none", None}
        BY <2>1, AccessAssumption DEF ChannelOf, AccessAssumption
    <2> HIDE DEF x
    <2> QED
        BY <1>1, <1>3, <2>2 DEF Request
<1> HIDE DEF x, y
<1>7. Fits(x) /\ (LastKnown(Of(r)) # None => Fits(y))
    BY <1>1, <1>5, <1>6 DEF Fits
<1>8. CASE req' = [req EXCEPT ![r] = x]
    BY <1>1, <1>2, <1>5, <1>7, <1>8, Moves, Frame
<1>9. CASE Answer(r, "login") \/ Answer(r, "2fa")
    BY <1>1, <1>2, <1>3, <1>9, Answers, Frame
<1>10. CASE LastKnown(Of(r)) # None /\ req' = [req EXCEPT ![r] = y]
    BY <1>1, <1>2, <1>6, <1>7, <1>10, Moves, Frame
<1> QED
    BY <1>4, <1>8, <1>9, <1>10

\* A token is on its way, and its user counts on it.
LEMMA TokenComes ==
    ASSUME AccessInv, NEW r \in Requests, NEW u \in Users, req[r].pc # "wait",
           SetKey(u), entitled' = entitled \cup {u}, Answer(r, "in"),
           UNCHANGED <<Rows, Keys, mail, inbox, events, Totp, mishaps>>
    PROVE  AccessInv'
<1> DEFINE m == [op |-> "token", user |-> u, code |-> None, for |-> None]
<1>1. m \in Message /\ m.op = "token" /\ m.user = u
    BY DEF Message
<1>2. redis' = Append(redis, m)
    BY DEF SetKey
<1> HIDE DEF m
<1>3. "in" \in Aims
    BY DEF Aims
<1>4. RequestsOK' /\ Undisturbed(req')
    BY <1>3, Answers
<1>5. session' = session
    BY DEF Keys
<1>6. redis' \in Seq(Message) /\ QueueOK' /\ Kept'
    BY <1>1, <1>2, <1>4, <1>5, QueueGrows
<1>7. entitled' \in SUBSET (Users \cup Requests)
    BY DEF AccessInv, StoreOK
<1>8. StoreOK'
    BY <1>6, <1>7 DEF AccessInv, StoreOK, Rows, Keys, Totp
<1> QED
    BY <1>4, <1>6, <1>8 DEF AccessInv

LEMMA TokenKeeps ==
    ASSUME AccessInv, NEW r \in Requests, Token(r) \/ Refresh(r)
    PROVE  AccessInv'
<1>1. /\ Of(r) \in Users /\ req[r].pc # "wait" /\ SetKey(Of(r)) /\ Answer(r, "in")
      /\ entitled' = entitled \cup {Of(r)}
      /\ UNCHANGED <<Rows, Keys, mail, inbox, events, Totp, mishaps>>
    BY Running DEF Token, Refresh, At
<1> QED
    BY <1>1, TokenComes

\* A new code is stored.
LEMMA NewOtpStored ==
    ASSUME AccessInv, NEW r \in Requests, Of(r) \in Users, Codes \ Around # {},
           SetOtp(Of(r), NewOtp), RequestsOK', Undisturbed(req'),
           UNCHANGED <<Rows, tries, session, Post, Totp, entitled, mishaps>>
    PROVE  AccessInv'
<1>1. otp' \in [Users -> Codes \cup {None}]
    BY NewOtpIsNew DEF AccessInv, StoreOK, SetOtp
<1>2. StoreOK' /\ redis' = redis /\ session' = session /\ entitled' = entitled
    BY <1>1 DEF AccessInv, StoreOK, Rows, Post, Totp
<1> QED
    BY <1>2, Frame

LEMMA IssueKeeps ==
    ASSUME AccessInv, NEW r \in Requests, Issue(r)
    PROVE  AccessInv'
<1> DEFINE x == [req[r] EXCEPT !.pc = "send", !.new = NewOtp]
<1>1. /\ req[r] \in Request /\ Of(r) \in Users /\ req[r].pc = "issue" /\ Fits(req[r])
      /\ req' = [req EXCEPT ![r] = x] /\ NewOtp \in Codes
    BY Running, NewOtpIsNew DEF Issue, At
<1>2. "send" \in Pcs
    BY DEF Pcs
<1>3. /\ x \in Request /\ x.pc = "send" /\ x.user = req[r].user /\ x.kind = req[r].kind
      /\ x.device = req[r].device /\ x.new = NewOtp
    BY <1>1, <1>2 DEF Request
<1> HIDE DEF x
<1>4. Fits(x)
    BY <1>1, <1>3 DEF Fits
<1>5. RequestsOK' /\ Undisturbed(req')
    BY <1>1, <1>3, <1>4, Moves
<1> QED
    BY <1>1, <1>5, NewOtpStored DEF Issue

LEMMA IssueFirstKeeps ==
    ASSUME AccessInv, NEW r \in Requests, IssueFirst(r)
    PROVE  AccessInv'
<1> DEFINE x == [req[r] EXCEPT !.pc = "send", !.new = NewOtp]
           y == [req[r] EXCEPT !.pc = "issue"]
<1>1. /\ req[r] \in Request /\ Of(r) \in Users /\ req[r].pc = "first" /\ Fits(req[r])
      /\ NewOtp \in Codes
    BY Running, NewOtpIsNew DEF IssueFirst, At
<1>2. \/ req' = [req EXCEPT ![r] = x]
      \/ req' = [req EXCEPT ![r] = y]
      \/ Answer(r, "login")
    BY DEF IssueFirst, Answer
<1>3. "send" \in Pcs /\ "issue" \in Pcs /\ "login" \in Aims
    BY DEF Pcs, Aims
<1>4. /\ x \in Request /\ x.pc = "send" /\ x.user = req[r].user /\ x.kind = req[r].kind
      /\ x.device = req[r].device /\ x.new = NewOtp
    BY <1>1, <1>3 DEF Request
<1>5. /\ y \in Request /\ y.pc = "issue" /\ y.user = req[r].user /\ y.kind = req[r].kind
      /\ y.device = req[r].device
    BY <1>1, <1>3 DEF Request
<1> HIDE DEF x, y
<1>6. Fits(x) /\ Fits(y)
    BY <1>1, <1>4, <1>5 DEF Fits
<1>7. ASSUME req' = [req EXCEPT ![r] = x] PROVE RequestsOK' /\ Undisturbed(req')
    BY <1>1, <1>4, <1>6, <1>7, Moves
<1>8. ASSUME req' = [req EXCEPT ![r] = y] PROVE RequestsOK' /\ Undisturbed(req')
    BY <1>1, <1>5, <1>6, <1>8, Moves
<1>9. ASSUME Answer(r, "login") PROVE RequestsOK' /\ Undisturbed(req')
    BY <1>1, <1>3, <1>9, Answers
<1>10. RequestsOK' /\ Undisturbed(req')
    BY <1>2, <1>7, <1>8, <1>9
<1> QED
    BY <1>1, <1>10, NewOtpStored DEF IssueFirst

LEMMA SendKeeps ==
    ASSUME AccessInv, NEW r \in Requests, Send(r)
    PROVE  AccessInv'
<1> DEFINE m == [op |-> "code", user |-> Of(r), code |-> req[r].new, for |-> None]
           x == [req[r] EXCEPT !.pc = "commit"]
           y == [req[r] EXCEPT !.pc = "clear"]
<1>1. /\ StoreOK /\ req[r] \in Request /\ Of(r) \in Users /\ req[r].pc = "send"
      /\ Fits(req[r]) /\ req[r].new \in Codes
      /\ mail' = mail \cup {<<Of(r), req[r].new>>}
      /\ redis' = redis \/ redis' = Append(redis, m)
      /\ req' = [req EXCEPT ![r] = Sent(r)]
      /\ UNCHANGED <<Rows, Keys, inbox, events, Totp, Past>>
    BY Running DEF Send, At, Fits
<1>2. req[r].aim \in Aims /\ "verify" \in Aims /\ "device" \in Aims
    BY <1>1 DEF Request, Aims
<1>3. "commit" \in Pcs /\ "clear" \in Pcs
    BY DEF Pcs
<1>4. /\ x \in Request /\ x.pc = "commit" /\ x.user = req[r].user /\ x.kind = req[r].kind
      /\ x.device = req[r].device
    BY <1>1, <1>3 DEF Request
<1>5. /\ y \in Request /\ y.pc = "clear" /\ y.user = req[r].user /\ y.kind = req[r].kind
      /\ y.device = req[r].device
    BY <1>1, <1>3 DEF Request
<1>6. Sent(r) \in {x, y} \/ \E a \in Aims : Sent(r) = Answered(r, a)
    BY <1>2 DEF Sent, Detected
<1>7. m \in Message /\ m.op = "code"
    BY <1>1 DEF Message
<1> HIDE DEF m, x, y
<1>8. Fits(x) /\ Fits(y)
    BY <1>1, <1>4, <1>5 DEF Fits
<1>9. ASSUME Sent(r) \in {x, y} PROVE RequestsOK' /\ Undisturbed(req')
    BY <1>1, <1>4, <1>5, <1>8, <1>9, Moves
<1>10. ASSUME \E a \in Aims : Sent(r) = Answered(r, a) PROVE RequestsOK' /\ Undisturbed(req')
    BY <1>1, <1>10, Answers DEF Answer
<1>11. RequestsOK' /\ Undisturbed(req')
    BY <1>6, <1>9, <1>10
<1>12. session' = session /\ entitled' = entitled
    BY <1>1 DEF Keys, Past
<1>13. redis' \in Seq(Message) /\ QueueOK' /\ Kept'
    <2>1. CASE redis' = redis
        BY <1>1, <1>11, <1>12, <2>1, QueueStays DEF StoreOK
    <2>2. CASE redis' = Append(redis, m)
        BY <1>7, <1>11, <1>12, <2>2, QueueGrows
    <2> QED
        BY <1>1, <2>1, <2>2
<1>14. mail' \in SUBSET (Users \X Codes)
    BY <1>1 DEF StoreOK
<1>15. StoreOK'
    BY <1>1, <1>13, <1>14 DEF StoreOK, Rows, Keys, Totp, Past
<1> QED
    BY <1>11, <1>13, <1>15 DEF AccessInv

LEMMA ReadOtpKeeps ==
    ASSUME AccessInv, NEW r \in Requests, ReadOtp(r)
    PROVE  AccessInv'
<1> DEFINE pc == IF otp[Of(r)] = None THEN "issue" ELSE "tries"
           x == [req[r] EXCEPT !.cached = otp[Of(r)], !.pc = pc]
<1>1. /\ StoreOK /\ req[r] \in Request /\ Of(r) \in Users /\ req[r].pc = "otp"
      /\ Fits(req[r]) /\ req' = [req EXCEPT ![r] = x]
      /\ UNCHANGED <<Rows, Keys, Post, Totp, Past>>
    BY Running DEF ReadOtp, At
<1>2. pc \in Pcs /\ pc \in {"issue", "tries"} /\ otp[Of(r)] \in Codes \cup {None}
    BY <1>1 DEF Pcs, StoreOK
<1> HIDE DEF pc
<1>3. /\ x \in Request /\ x.pc = pc /\ x.user = req[r].user /\ x.kind = req[r].kind
      /\ x.device = req[r].device
    BY <1>1, <1>2 DEF Request
<1> HIDE DEF x
<1>4. Fits(x)
    BY <1>1, <1>2, <1>3 DEF Fits
<1>5. RequestsOK' /\ Undisturbed(req')
    BY <1>1, <1>2, <1>3, <1>4, Moves
<1>6. StoreOK' /\ redis' = redis /\ session' = session /\ entitled' = entitled
    BY <1>1 DEF StoreOK, Rows, Keys, Post, Totp, Past
<1> QED
    BY <1>5, <1>6, Frame

LEMMA ReadTriesKeeps ==
    ASSUME AccessInv, NEW r \in Requests, ReadTries(r)
    PROVE  AccessInv'
<1> DEFINE n == Attempt(Of(r))
           pc == IF AtLimit(n) THEN "issue"
                 ELSE IF req[r].code # req[r].cached THEN "count" ELSE "used"
           x == [req[r] EXCEPT !.tries = n, !.cached = None, !.pc = pc]
<1>1. /\ StoreOK /\ req[r] \in Request /\ Of(r) \in Users /\ req[r].pc = "tries"
      /\ Fits(req[r]) /\ req' = [req EXCEPT ![r] = x]
      /\ UNCHANGED <<Rows, Keys, Post, Totp, Past>>
    BY Running DEF ReadTries, At
<1>2. n \in 0 .. MaxAttempts
    BY <1>1, AccessAssumption DEF StoreOK, Attempt, AccessAssumption
<1>3. pc \in Pcs /\ pc \in {"issue", "count", "used"} /\ (pc = "count" => n < MaxAttempts)
    BY <1>2, AccessAssumption DEF Pcs, AtLimit, AccessAssumption
<1> HIDE DEF pc, n
<1>4. /\ x \in Request /\ x.pc = pc /\ x.user = req[r].user /\ x.kind = req[r].kind
      /\ x.device = req[r].device /\ x.tries = n
    BY <1>1, <1>2, <1>3 DEF Request
<1> HIDE DEF x
<1>5. Fits(x)
    BY <1>1, <1>3, <1>4 DEF Fits
<1>6. RequestsOK' /\ Undisturbed(req')
    BY <1>1, <1>3, <1>4, <1>5, Moves
<1>7. StoreOK' /\ redis' = redis /\ session' = session /\ entitled' = entitled
    BY <1>1 DEF StoreOK, Rows, Keys, Post, Totp, Past
<1> QED
    BY <1>6, <1>7, Frame

\* The attempts are counted, or begin anew.
LEMMA CountKeeps ==
    ASSUME AccessInv, NEW r \in Requests, Count(r) \/ Clear(r)
    PROVE  AccessInv'
<1>1. /\ StoreOK /\ req[r] \in Request /\ Of(r) \in Users /\ req[r].pc # "wait"
      /\ req[r].pc = "count" => req[r].tries < MaxAttempts
      /\ Answer(r, req[r].aim)
      /\ \/ req[r].pc = "count" /\ tries' = [tries EXCEPT ![Of(r)] = req[r].tries + 1]
         \/ tries' = [tries EXCEPT ![Of(r)] = 0]
      /\ UNCHANGED <<Rows, otp, session, Post, Totp, Past>>
    BY Running DEF Count, Clear, At, Fits
<1>2. req[r].aim \in Aims /\ req[r].tries \in 0 .. MaxAttempts /\ MaxAttempts \in Nat
    BY <1>1, AccessAssumption DEF Request, AccessAssumption
<1>3. tries' \in [Users -> 0 .. MaxAttempts]
    BY <1>1, <1>2 DEF StoreOK
<1>4. RequestsOK' /\ Undisturbed(req')
    BY <1>1, <1>2, Answers
<1>5. StoreOK' /\ redis' = redis /\ session' = session /\ entitled' = entitled
    BY <1>1, <1>3 DEF StoreOK, Rows, Post, Totp, Past
<1> QED
    BY <1>4, <1>5, Frame

LEMMA UsedKeeps ==
    ASSUME AccessInv, NEW r \in Requests, Used(r)
    PROVE  AccessInv'
<1> DEFINE pc == IF At(r, "used") THEN "reset" ELSE "reset again"
<1>1. /\ StoreOK /\ Of(r) \in Users /\ req[r].pc \in {"used", "used again"} /\ Fits(req[r])
      /\ Go(r, pc) /\ otp' = [otp EXCEPT ![Of(r)] = None]
      /\ UNCHANGED <<Rows, tries, session, Post, Totp, entitled, mishaps>>
    BY Running DEF Used
<1>2. pc \in Pcs /\ pc \in {"reset", "reset again"}
      /\ (pc = "reset" => req[r].kind \in {"verify", "device"})
    BY <1>1 DEF Pcs, Fits, At
<1> HIDE DEF pc
<1>3. RequestsOK' /\ Undisturbed(req')
    BY <1>1, <1>2, Goes
<1>4. otp' \in [Users -> Codes \cup {None}]
    BY <1>1 DEF StoreOK
<1>5. StoreOK' /\ redis' = redis /\ session' = session /\ entitled' = entitled
    BY <1>1, <1>4 DEF StoreOK, Rows, Post, Totp
<1> QED
    BY <1>3, <1>5, Frame

LEMMA ResetKeeps ==
    ASSUME AccessInv, NEW r \in Requests, Reset(r)
    PROVE  AccessInv'
<1> DEFINE pc == IF req[r].kind = "verify" THEN "used again" ELSE "save"
<1>1. /\ StoreOK /\ Of(r) \in Users /\ req[r].pc = "reset" /\ Fits(req[r])
      /\ Go(r, pc) /\ tries' = [tries EXCEPT ![Of(r)] = 0]
      /\ UNCHANGED <<Rows, otp, session, Post, Totp, Past>>
    BY Running DEF Reset, At
<1>2. pc \in Pcs /\ pc \in {"used again", "save"} /\ (pc = "save" => req[r].kind = "device")
    BY <1>1 DEF Pcs, Fits
<1> HIDE DEF pc
<1>3. RequestsOK' /\ Undisturbed(req')
    BY <1>1, <1>2, Goes
<1>4. tries' \in [Users -> 0 .. MaxAttempts]
    BY <1>1, AccessAssumption DEF StoreOK, AccessAssumption
<1>5. StoreOK' /\ redis' = redis /\ session' = session /\ entitled' = entitled
    BY <1>1, <1>4 DEF StoreOK, Rows, Post, Totp, Past
<1> QED
    BY <1>3, <1>5, Frame

LEMMA ResetAgainKeeps ==
    ASSUME AccessInv, NEW r \in Requests, ResetAgain(r)
    PROVE  AccessInv'
<1> DEFINE e == [what |-> "verified", user |-> Of(r), device |-> None]
<1>1. /\ StoreOK /\ Of(r) \in Users /\ req[r].pc = "reset again" /\ Answer(r, "login")
      /\ tries' = [tries EXCEPT ![Of(r)] = 0] /\ events' = events \cup {e}
      /\ UNCHANGED <<Rows, otp, session, redis, mail, inbox, Totp, Past>>
    BY Running DEF ResetAgain, At
<1>2. e \in Happening /\ "login" \in Aims
    BY <1>1 DEF Happening, Event, Aims
<1> HIDE DEF e
<1>3. RequestsOK' /\ Undisturbed(req')
    BY <1>1, <1>2, Answers
<1>4. tries' \in [Users -> 0 .. MaxAttempts] /\ events' \in SUBSET Happening
    <2>1. tries' \in [Users -> 0 .. MaxAttempts]
        <3>1. /\ tries \in [Users -> 0 .. MaxAttempts] /\ Of(r) \in Users
              /\ tries' = [tries EXCEPT ![Of(r)] = 0]
            BY <1>1 DEF StoreOK
        <3>2. 0 \in 0 .. MaxAttempts
            BY AccessAssumption DEF AccessAssumption
        <3> QED
            BY <3>1, <3>2
    <2>2. events' \in SUBSET Happening
        BY <1>1, <1>2 DEF StoreOK
    <2> QED
        BY <2>1, <2>2
<1>5. StoreOK' /\ redis' = redis /\ session' = session /\ entitled' = entitled
    BY <1>1, <1>4 DEF StoreOK, Rows, Totp, Past
<1> QED
    BY <1>3, <1>5, Frame

LEMMA TrustTyped ==
    ASSUME StoreOK, NEW u \in Users, NEW d \in Devices, Trust(u, d) \/ TrustFirst(u, d)
    PROVE  devices' \in [Users -> Trusted]
<1>1. devices \in [Users -> Trusted] /\ devices[u] \in Trusted
    BY DEF StoreOK
<1>2. \A e \in {d, devices[u].last} : [known |-> devices[u].known \cup {d}, last |-> e] \in Trusted
    BY <1>1 DEF Trusted
<1>3. \E e \in {d, devices[u].last} :
         devices' = [devices EXCEPT ![u] = [known |-> devices[u].known \cup {d}, last |-> e]]
    BY DEF Trust, TrustFirst
<1> QED
    BY <1>1, <1>2, <1>3

LEMMA SaveKeeps ==
    ASSUME AccessInv, NEW r \in Requests, Save(r)
    PROVE  AccessInv'
<1>1. /\ StoreOK /\ Of(r) \in Users /\ req[r].pc = "save" /\ req[r].device \in Devices
      /\ Trust(Of(r), req[r].device) /\ Answer(r, "login")
      /\ UNCHANGED <<account, Keys, Post, Totp, Past>>
    BY Running DEF Save, At, Fits
<1>2. "login" \in Aims
    BY DEF Aims
<1>3. RequestsOK' /\ Undisturbed(req')
    BY <1>1, <1>2, Answers
<1>4. devices' \in [Users -> Trusted]
    BY <1>1, TrustTyped
<1>5. StoreOK' /\ redis' = redis /\ session' = session /\ entitled' = entitled
    BY <1>1, <1>4 DEF StoreOK, Keys, Post, Totp, Past
<1> QED
    BY <1>3, <1>5, Frame

LEMMA MishapTyped ==
    ASSUME StoreOK, Mishap PROVE mishaps' \in 0 .. MaxMishaps
BY AccessAssumption DEF StoreOK, Mishap, AccessAssumption

LEMMA SaveConflictKeeps ==
    ASSUME AccessInv, NEW r \in Requests, SaveConflict(r)
    PROVE  AccessInv'
<1> DEFINE x == [req[r] EXCEPT !.pc = "otp", !.attempt = req[r].attempt + 1,
                               !.cached = None, !.tries = 0]
<1>1. /\ StoreOK /\ req[r] \in Request /\ req[r].pc = "save" /\ Fits(req[r]) /\ Mishap
      /\ UNCHANGED <<Rows, Keys, Post, Totp, entitled>>
    BY Running DEF SaveConflict, At
<1>2. \/ req[r].attempt < MaxRetries - 1 /\ req' = [req EXCEPT ![r] = x]
      \/ Answer(r, req[r].aim)
    BY DEF SaveConflict, Answer
<1>3. "otp" \in Pcs /\ req[r].aim \in Aims /\ 0 \in 0 .. MaxAttempts
    <2>1. "otp" \in Pcs
        BY DEF Pcs
    <2>2. req[r].aim \in Aims
        BY <1>1 DEF Request
    <2> QED
        BY <2>1, <2>2, AccessAssumption DEF AccessAssumption
<1>4. req[r].attempt < MaxRetries - 1 => req[r].attempt + 1 \in 0 .. MaxRetries - 1
    BY <1>1, AccessAssumption DEF Request, AccessAssumption
<1>5. req[r].attempt < MaxRetries - 1 =>
         /\ x \in Request /\ x.pc = "otp" /\ x.user = req[r].user /\ x.kind = req[r].kind
         /\ x.device = req[r].device
    BY <1>1, <1>3, <1>4 DEF Request
<1> HIDE DEF x
<1>6. req[r].attempt < MaxRetries - 1 => Fits(x)
    BY <1>1, <1>5 DEF Fits
<1>7. RequestsOK' /\ Undisturbed(req')
    BY <1>1, <1>2, <1>3, <1>5, <1>6, Moves, Answers
<1>8. StoreOK' /\ redis' = redis /\ session' = session /\ entitled' = entitled
    BY <1>1, MishapTyped DEF StoreOK, Rows, Keys, Post, Totp
<1> QED
    BY <1>7, <1>8, Frame

LEMMA RefuseRefreshKeeps ==
    ASSUME AccessInv, NEW r \in Requests, RefuseRefresh(r)
    PROVE  AccessInv'
<1>1. /\ StoreOK /\ req[r].pc = "missing" /\ Answer(r, "login")
      /\ UNCHANGED <<Rows, Keys, Post, Totp, Past>>
    BY Running DEF RefuseRefresh, At
<1>2. "login" \in Aims
    BY DEF Aims
<1>3. RequestsOK' /\ Undisturbed(req')
    BY <1>1, <1>2, Answers
<1>4. StoreOK' /\ redis' = redis /\ session' = session /\ entitled' = entitled
    BY <1>1 DEF StoreOK, Rows, Keys, Post, Totp, Past
<1> QED
    BY <1>3, <1>4, Frame

LEMMA SignoutKeeps ==
    ASSUME AccessInv, NEW r \in Requests, Signout(r)
    PROVE  AccessInv'
<1>1. /\ StoreOK /\ Of(r) \in Users /\ req[r].pc = "out" /\ Go(r, "out again")
      /\ session' = [session EXCEPT ![Of(r)] = FALSE] /\ entitled' = Disowned(Of(r))
      /\ UNCHANGED <<Rows, otp, tries, Post, Totp, mishaps>>
    BY Running DEF Signout, At
<1>2. "out again" \in Pcs
    BY DEF Pcs
<1>3. RequestsOK' /\ Undisturbed(req')
    BY <1>1, <1>2, Goes
<1>4. redis' = redis
    BY <1>1 DEF Post
<1>5. /\ session' \in [Users -> BOOLEAN] /\ entitled' \in SUBSET (Users \cup Requests)
      /\ QueueOK' /\ Kept'
    BY <1>1, <1>3, <1>4, TokenGoes
<1>6. StoreOK'
    BY <1>1, <1>5 DEF StoreOK, Rows, Post, Totp
<1> QED
    BY <1>3, <1>5, <1>6 DEF AccessInv

LEMMA SignoutOtpKeeps ==
    ASSUME AccessInv, NEW r \in Requests, SignoutOtp(r)
    PROVE  AccessInv'
<1>1. /\ StoreOK /\ Of(r) \in Users /\ req[r].pc = "out again" /\ Answer(r, "login")
      /\ otp' = [otp EXCEPT ![Of(r)] = None]
      /\ UNCHANGED <<Rows, tries, session, Post, Totp, Past>>
    BY Running DEF SignoutOtp, At
<1>2. "login" \in Aims
    BY DEF Aims
<1>3. RequestsOK' /\ Undisturbed(req')
    BY <1>1, <1>2, Answers
<1>4. otp' \in [Users -> Codes \cup {None}]
    BY <1>1 DEF StoreOK
<1>5. StoreOK' /\ redis' = redis /\ session' = session /\ entitled' = entitled
    BY <1>1, <1>4 DEF StoreOK, Rows, Post, Totp, Past
<1> QED
    BY <1>3, <1>5, Frame

LEMMA Generate2FaKeeps ==
    ASSUME AccessInv, NEW r \in Requests, NEW u \in Users, Generate2Fa(r, u)
    PROVE  AccessInv'
<1>1. /\ StoreOK /\ req[r].pc = "idle" /\ Go(r, "done") /\ app[u] < MaxSecrets
      /\ app' = [app EXCEPT ![u] = app[u] + 1]
      /\ secret' = [secret EXCEPT ![u] = IF secret[u] = 0 THEN app[u] + 1 ELSE secret[u]]
      /\ UNCHANGED <<Rows, Keys, Post, Past>>
    BY DEF AccessInv, Generate2Fa, At
<1>2. "done" \in Pcs
    BY DEF Pcs
<1>3. RequestsOK' /\ Undisturbed(req')
    BY <1>1, <1>2, Goes
<1>4. app[u] \in 0 .. MaxSecrets /\ secret[u] \in 0 .. MaxSecrets /\ MaxSecrets \in Nat
    BY <1>1, AccessAssumption DEF StoreOK, AccessAssumption
<1>5. app[u] + 1 \in 0 .. MaxSecrets
    BY <1>1, <1>4
<1>6. app' \in [Users -> 0 .. MaxSecrets] /\ secret' \in [Users -> 0 .. MaxSecrets]
    BY <1>1, <1>4, <1>5 DEF StoreOK
<1>7. StoreOK' /\ redis' = redis /\ session' = session /\ entitled' = entitled
    BY <1>1, <1>6 DEF StoreOK, Rows, Keys, Post, Past
<1> QED
    BY <1>3, <1>7, Frame

LEMMA Verify2FaKeeps ==
    ASSUME AccessInv, NEW r \in Requests, NEW u \in Users, NEW what \in {"enable", "disable"},
           Verify2Fa(r, u, what)
    PROVE  AccessInv'
<1> DEFINE e == [what |-> what, user |-> u, device |-> None]
<1>1. /\ StoreOK /\ req[r].pc = "idle" /\ Go(r, "done") /\ events' = events \cup {e}
      /\ UNCHANGED <<Rows, Keys, redis, mail, inbox, Totp, Past>>
    BY DEF AccessInv, Verify2Fa, At
<1>2. e \in Happening /\ "done" \in Pcs
    BY DEF Happening, Event, Pcs
<1> HIDE DEF e
<1>3. RequestsOK' /\ Undisturbed(req')
    BY <1>1, <1>2, Goes
<1>4. events' \in SUBSET Happening
    BY <1>1, <1>2 DEF StoreOK
<1>5. StoreOK' /\ redis' = redis /\ session' = session /\ entitled' = entitled
    BY <1>1, <1>4 DEF StoreOK, Rows, Keys, Totp, Past
<1> QED
    BY <1>3, <1>5, Frame

\* The requests do not change.
LEMMA Idle ==
    ASSUME AccessInv, req' = req
    PROVE  RequestsOK' /\ Undisturbed(req')
BY DEF AccessInv, RequestsOK, Undisturbed

LEMMA HandleEventKeeps ==
    ASSUME AccessInv, NEW e \in Event, HandleEvent(e)
    PROVE  AccessInv'
<1>1. /\ StoreOK /\ e \in Happening /\ events' = events \ {e} /\ e.user \in Users
      /\ UNCHANGED <<Keys, redis, mail, inbox, Totp, req, Past>>
    BY DEF AccessInv, StoreOK, HandleEvent, Event
<1>2. account' \in [Users -> Account] /\ devices' \in [Users -> Trusted]
    <2>1. CASE e.what = "device"
        <3>1. e.device \in Devices /\ TrustFirst(e.user, e.device) /\ account' = account
            BY <1>1, <2>1 DEF Happening, HandleEvent
        <3> QED
            BY <1>1, <3>1, TrustTyped DEF StoreOK
    <2>2. CASE e.what # "device"
        <3>1. /\ devices' = devices
              /\ account' = [account EXCEPT
                    ![e.user].verified = account[e.user].verified \/ e.what = "verified",
                    ![e.user].tfa = (account[e.user].tfa \/ e.what = "enable")
                                    /\ e.what # "disable"]
            BY <2>2 DEF HandleEvent
        <3>2. account \in [Users -> Account]
            BY <1>1 DEF StoreOK
        <3>3. account' \in [Users -> Account]
            BY <1>1, <3>1, <3>2 DEF Account
        <3> QED
            BY <1>1, <3>1, <3>3 DEF StoreOK
    <2> QED
        BY <2>1, <2>2
<1>3. req' = req /\ redis' = redis /\ session' = session /\ entitled' = entitled
    BY <1>1 DEF Keys, Past
<1>4. StoreOK'
    BY <1>1, <1>2 DEF StoreOK, Keys, Totp, Past
<1> QED
    BY <1>3, <1>4, Idle, Frame

LEMMA DeliverKeeps ==
    ASSUME AccessInv, NEW m \in Users \X Codes, Deliver(m)
    PROVE  AccessInv'
<1>1. /\ StoreOK /\ mail' = mail \ {m} /\ inbox' = [inbox EXCEPT ![m[1]] = m[2]]
      /\ m[1] \in Users /\ m[2] \in Codes
      /\ UNCHANGED <<Rows, Keys, redis, events, Totp, req, Past>>
    BY DEF AccessInv, Deliver
<1>2. inbox' \in [Users -> Codes \cup {None}]
    BY <1>1 DEF StoreOK
<1>3. req' = req /\ redis' = redis /\ session' = session /\ entitled' = entitled
    BY <1>1 DEF Keys, Past
<1>4. StoreOK'
    BY <1>1, <1>2 DEF StoreOK, Rows, Keys, Totp, Past
<1> QED
    BY <1>3, <1>4, Idle, Frame

LEMMA LoseKeeps ==
    ASSUME AccessInv, Lose
    PROVE  AccessInv'
<1>1. /\ StoreOK /\ Mishap /\ mail' \subseteq mail /\ events' \subseteq events
      /\ UNCHANGED <<Rows, Keys, redis, inbox, Totp, req, entitled>>
    BY DEF AccessInv, Lose
<1>2. req' = req /\ redis' = redis /\ session' = session /\ entitled' = entitled
    BY <1>1 DEF Keys
<1>3. StoreOK'
    BY <1>1, MishapTyped DEF StoreOK, Rows, Keys, Totp
<1> QED
    BY <1>2, <1>3, Idle, Frame

LEMMA ExpireKeeps ==
    ASSUME AccessInv, NEW u \in Users, Expire(u)
    PROVE  AccessInv'
<1>1. /\ StoreOK /\ Mishap /\ UNCHANGED <<Rows, Post, Totp, req>>
    BY DEF AccessInv, Expire
<1>2. req' = req /\ redis' = redis /\ RequestsOK' /\ Undisturbed(req')
    BY <1>1, Idle DEF Post
<1>3. CASE /\ otp' = [otp EXCEPT ![u] = None]
           /\ UNCHANGED <<tries, session, entitled>>
    <2>1. otp' \in [Users -> Codes \cup {None}]
        BY <1>1, <1>3 DEF StoreOK
    <2>2. StoreOK'
        BY <1>1, <1>3, <2>1, MishapTyped DEF StoreOK, Rows, Post, Totp
    <2> QED
        BY <1>2, <1>3, <2>2, Frame
<1>4. CASE /\ tries' = [tries EXCEPT ![u] = 0]
           /\ UNCHANGED <<otp, session, entitled>>
    <2>1. tries' \in [Users -> 0 .. MaxAttempts]
        BY <1>1, <1>4, AccessAssumption DEF StoreOK, AccessAssumption
    <2>2. StoreOK'
        BY <1>1, <1>4, <2>1, MishapTyped DEF StoreOK, Rows, Post, Totp
    <2> QED
        BY <1>2, <1>4, <2>2, Frame
<1>5. CASE /\ session' = [session EXCEPT ![u] = FALSE]
           /\ entitled' = Disowned(u)
           /\ UNCHANGED <<otp, tries>>
    <2>1. /\ session' \in [Users -> BOOLEAN] /\ entitled' \in SUBSET (Users \cup Requests)
          /\ QueueOK' /\ Kept'
        BY <1>2, <1>5, TokenGoes
    <2>2. StoreOK'
        BY <1>1, <1>5, <2>1, MishapTyped DEF StoreOK, Rows, Post, Totp
    <2> QED
        BY <1>2, <2>1, <2>2 DEF AccessInv
<1> QED
    BY <1>3, <1>4, <1>5 DEF Expire

-----------------------------------------------------------------------------
(* All steps.                                                              *)

LEMMA AskedKeeps ==
    ASSUME AccessInv, NEW r \in Requests, NEW u \in Users, NEW d \in Devices,
           NEW c \in Codes \cup {Wrong},
           \/ r = u /\ AskSignUp(u)
           \/ AskLogin(r, u, d) \/ AskForget(r, u) \/ AskVerify(r, u, c)
           \/ AskDevice(r, u, d, c) \/ AskSignout(r, u) \/ AskLogin2Fa(r, u)
    PROVE  AccessInv'
<1>1. {"sign-up", "login", "forget", "verify", "device", "sign-out"} \subseteq Kinds
    BY DEF Kinds
<1>2. CASE r = u /\ AskSignUp(u)
    <2>1. Origin[u] \in Devices
        BY AccessAssumption DEF AccessAssumption
    <2>2. Ask(r, "sign-up", "emit", u, Origin[u], None) /\ UNCHANGED Post
        BY <1>2 DEF AskSignUp
    <2> QED
        BY <1>1, <2>1, <2>2, AskKeeps
<1>3. CASE AskLogin(r, u, d)
    BY <1>1, <1>3, AskKeeps DEF AskLogin
<1>4. CASE AskForget(r, u)
    BY <1>1, <1>4, AskKeeps DEF AskForget
<1>5. CASE AskVerify(r, u, c)
    BY <1>1, <1>5, AskKeeps DEF AskVerify
<1>6. CASE AskDevice(r, u, d, c)
    BY <1>1, <1>6, AskKeeps DEF AskDevice
<1>7. CASE AskSignout(r, u)
    BY <1>1, <1>7, AskKeeps DEF AskSignout
<1>8. CASE AskLogin2Fa(r, u)
    BY <1>1, <1>8, AskKeeps DEF AskLogin2Fa
<1> QED
    BY <1>2, <1>3, <1>4, <1>5, <1>6, <1>7, <1>8

LEMMA PersistKeeps ==
    ASSUME AccessInv, NEW u \in Users, Persist(u)
    PROVE  AccessInv'
<1>1. u \in Requests /\ Own[u] \in Devices /\ inbox[u] \in Codes \cup {None}
    BY AccessAssumption DEF Requests, AccessAssumption, AccessInv, StoreOK
<1>2. CASE AskSignUp(u) \/ AskLogin(u, u, Own[u]) \/ AskLogin2Fa(u, u) \/ AskForget(u, u)
    BY <1>1, <1>2, AskedKeeps
<1>3. CASE inbox[u] # None /\ (AskVerify(u, u, inbox[u]) \/ AskDevice(u, u, Own[u], inbox[u]))
    BY <1>1, <1>3, AskedKeeps
<1> QED
    BY <1>2, <1>3 DEF Persist

LEMMA MeddleKeeps ==
    ASSUME AccessInv, NEW r \in Clients, Meddle(r)
    PROVE  AccessInv'
<1>1. r \in Requests
    BY DEF Requests
<1>2. PICK u \in Users :
        \/ AskForget(r, u) \/ AskRefresh(r, u) \/ AskSignout(r, u) \/ AskLogin2Fa(r, u)
        \/ Generate2Fa(r, u) \/ \E what \in {"enable", "disable"} : Verify2Fa(r, u, what)
        \/ \E d \in Devices, c \in {inbox[u], Wrong} \ {None} :
              AskLogin(r, u, d) \/ AskVerify(r, u, c) \/ AskDevice(r, u, d, c)
    BY DEF Meddle
<1>3. inbox[u] \in Codes \cup {None} /\ Origin[u] \in Devices
    BY AccessAssumption DEF AccessAssumption, AccessInv, StoreOK
<1>4. CASE AskForget(r, u) \/ AskSignout(r, u) \/ AskLogin2Fa(r, u)
    BY <1>1, <1>3, <1>4, AskedKeeps
<1>5. ASSUME NEW d \in Devices, NEW c \in {inbox[u], Wrong} \ {None},
             AskLogin(r, u, d) \/ AskVerify(r, u, c) \/ AskDevice(r, u, d, c)
      PROVE  AccessInv'
    <2>1. c \in Codes \cup {Wrong}
        BY <1>3
    <2> QED
        BY <1>1, <1>5, <2>1, AskedKeeps
<1>6. CASE AskRefresh(r, u)
    BY <1>6, AskRefreshKeeps
<1>7. CASE Generate2Fa(r, u)
    BY <1>1, <1>7, Generate2FaKeeps
<1>8. CASE \E what \in {"enable", "disable"} : Verify2Fa(r, u, what)
    BY <1>1, <1>8, Verify2FaKeeps
<1> QED
    BY <1>2, <1>4, <1>5, <1>6, <1>7, <1>8

LEMMA StepKeeps ==
    ASSUME AccessInv, NEW r \in Requests, Step(r)
    PROVE  AccessInv'
<1>1. CASE EmitDevice(r) \/ CommitUser(r)
    BY <1>1, EmitDeviceKeeps, CommitUserKeeps
<1>2. CASE LoginUser(r) \/ LoginDevice(r) \/ Token(r) \/ Refresh(r)
    BY <1>2, LoginUserKeeps, LoginDeviceKeeps, TokenKeeps
<1>3. CASE IssueFirst(r) \/ Issue(r) \/ Send(r)
    BY <1>3, IssueFirstKeeps, IssueKeeps, SendKeeps
<1>4. CASE ReadOtp(r) \/ ReadTries(r) \/ Count(r) \/ Clear(r)
    BY <1>4, ReadOtpKeeps, ReadTriesKeeps, CountKeeps
<1>5. CASE Used(r) \/ Reset(r) \/ ResetAgain(r) \/ Save(r)
    BY <1>5, UsedKeeps, ResetKeeps, ResetAgainKeeps, SaveKeeps
<1>6. CASE RefuseRefresh(r) \/ Signout(r) \/ SignoutOtp(r)
    BY <1>6, RefuseRefreshKeeps, SignoutKeeps, SignoutOtpKeeps
<1> QED
    BY <1>1, <1>2, <1>3, <1>4, <1>5, <1>6 DEF Step

LEMMA NextKeeps == AccessInv /\ [Next]_vars => AccessInv'
<1> SUFFICES ASSUME AccessInv, [Next]_vars PROVE AccessInv'
    OBVIOUS
<1>1. CASE UNCHANGED vars
    <2>1. StoreOK' /\ req' = req /\ redis' = redis /\ session' = session /\ entitled' = entitled
        BY <1>1 DEF vars, AccessInv, StoreOK
    <2> QED
        BY <2>1, Idle, Frame
<1>2. ASSUME NEW u \in Users, Persist(u) \/ Expire(u) PROVE AccessInv'
    BY <1>2, PersistKeeps, ExpireKeeps
<1>3. ASSUME NEW r \in Clients, Meddle(r) PROVE AccessInv'
    BY <1>3, MeddleKeeps
<1>4. ASSUME NEW r \in Requests, Step(r) \/ SaveConflict(r) PROVE AccessInv'
    BY <1>4, StepKeeps, SaveConflictKeeps
<1>5. CASE RedisStep
    BY <1>5, RedisStepKeeps
<1>6. ASSUME NEW e \in Event, HandleEvent(e) PROVE AccessInv'
    BY <1>6, HandleEventKeeps
<1>7. ASSUME NEW m \in Users \X Codes, Deliver(m) PROVE AccessInv'
    BY <1>7, DeliverKeeps
<1>8. CASE Lose
    BY <1>8, LoseKeeps
<1> QED
    BY <1>1, <1>2, <1>3, <1>4, <1>5, <1>6, <1>7, <1>8 DEF Next

LEMMA InitKeeps == Init => AccessInv
<1> SUFFICES ASSUME Init PROVE AccessInv
    OBVIOUS
<1>1. account \in [Users -> Account]
    <2>1. [is |-> FALSE, verified |-> FALSE, tfa |-> FALSE] \in Account
        BY DEF Account
    <2>2. [is : {TRUE}, verified : {TRUE}, tfa : BOOLEAN] \subseteq Account
        BY DEF Account
    <2> QED
        BY <2>1, <2>2 DEF Init
<1>2. devices \in [Users -> Trusted]
    BY DEF Init, Trusted
<1>3. redis = <<>> /\ redis \in Seq(Message) /\ DOMAIN redis = {}
    BY DEF Init
<1>4. /\ secret \in [Users -> 0 .. MaxSecrets] /\ app \in [Users -> 0 .. MaxSecrets]
      /\ tries \in [Users -> 0 .. MaxAttempts] /\ mishaps \in 0 .. MaxMishaps
    BY AccessAssumption DEF Init, AccessAssumption
<1>5. StoreOK
    BY <1>1, <1>2, <1>3, <1>4 DEF Init, StoreOK
<1>6. ASSUME NEW r \in Requests PROVE req[r] \in Request /\ req[r].pc = "idle"
    <2>1. /\ NoReq \in Request /\ NoReq.pc = "idle" /\ NoReq.aim \in Aims /\ "login" \in Aims
        BY NoReqTyped DEF Request, Aims
    <2>2. \E a \in Aims : req[r] = [NoReq EXCEPT !.aim = a]
        BY <2>1 DEF Init
    <2> QED
        BY <2>1, <2>2 DEF Request
<1>7. RequestsOK
    BY <1>6 DEF Init, RequestsOK, Fits
<1>8. QueueOK
    BY <1>3 DEF QueueOK
<1>9. Kept
    BY <1>3 DEF Init, Kept
<1> QED
    BY <1>5, <1>7, <1>8, <1>9 DEF AccessInv

LEMMA Invariant == Spec => []AccessInv
BY InitKeeps, NextKeeps, PTL DEF Spec

-----------------------------------------------------------------------------
(* The theorems.                                                           *)

\* Rows, keys, queues and requests keep their shape; in particular the attempts never
\* pass their limit, however many verifications read them at the same time.
THEOREM TypeCorrect == Spec => []TypeOK
<1>1. AccessInv => TypeOK
    BY DEF AccessInv, StoreOK, RequestsOK, Happening, Message, Request, TypeOK
<1> QED
    BY <1>1, Invariant, PTL

\* Only the redis service lets a request go on that waits for its answer.
LEMMA OnlyRedisAnswers ==
    ASSUME AccessInv, [Next]_vars, ~RedisStep, NEW r \in Requests, req[r].pc = "wait"
    PROVE  req'[r] = req[r]
<1>0. req \in [Requests -> Request]
    BY DEF AccessInv, RequestsOK
<1>1. ASSUME NEW s \in Requests, NEW x, req[s].pc # "wait", req' = [req EXCEPT ![s] = x]
      PROVE  req'[r] = req[r]
    BY <1>0, <1>1
<1>2. ASSUME NEW s \in Requests, Step(s) \/ SaveConflict(s) PROVE req'[r] = req[r]
    <2>1. CASE EmitDevice(s) \/ CommitUser(s)
        BY <1>1, <2>1 DEF EmitDevice, CommitUser, At, Go, Answer
    <2>2. CASE LoginUser(s) \/ LoginDevice(s)
        BY <1>1, <2>2 DEF LoginUser, LoginDevice, At
    <2>3. CASE Token(s) \/ Refresh(s) \/ RefuseRefresh(s)
        BY <1>1, <2>3 DEF Token, Refresh, RefuseRefresh, At, Answer
    <2>4. CASE IssueFirst(s) \/ Issue(s) \/ Send(s)
        BY <1>1, <2>4 DEF IssueFirst, Issue, Send, At
    <2>5. CASE ReadOtp(s) \/ ReadTries(s)
        BY <1>1, <2>5 DEF ReadOtp, ReadTries, At
    <2>6. CASE Count(s) \/ Clear(s) \/ Used(s) \/ Reset(s) \/ ResetAgain(s)
        BY <1>1, <2>6 DEF Count, Clear, Used, Reset, ResetAgain, At, Answer, Go
    <2>7. CASE Save(s) \/ SaveConflict(s)
        BY <1>1, <2>7 DEF Save, SaveConflict, At, Answer
    <2>8. CASE Signout(s) \/ SignoutOtp(s)
        BY <1>1, <2>8 DEF Signout, SignoutOtp, At, Answer, Go
    <2> QED
        BY <1>2, <2>1, <2>2, <2>3, <2>4, <2>5, <2>6, <2>7, <2>8 DEF Step
<1>3. ASSUME NEW s \in Requests, NEW kind, NEW pc, NEW u, NEW d, NEW c,
             Ask(s, kind, pc, u, d, c)
      PROVE  req'[r] = req[r]
    BY <1>1, <1>3 DEF Ask, At
<1>4. ASSUME NEW u \in Users, Persist(u) PROVE req'[r] = req[r]
    <2>1. u \in Requests
        BY DEF Requests
    <2> QED
        BY <1>3, <1>4, <2>1 DEF Persist, AskSignUp, AskLogin, AskLogin2Fa, AskForget, AskVerify,
                                AskDevice
<1>5. ASSUME NEW s \in Clients, Meddle(s) PROVE req'[r] = req[r]
    <2>1. s \in Requests
        BY DEF Requests
    <2>2. ASSUME NEW u \in Users,
                 \/ AskRefresh(s, u) \/ Generate2Fa(s, u)
                 \/ \E what \in {"enable", "disable"} : Verify2Fa(s, u, what)
          PROVE  req'[r] = req[r]
        BY <1>1, <2>1, <2>2 DEF AskRefresh, Generate2Fa, Verify2Fa, At, Go
    <2> QED
        BY <1>3, <1>5, <2>1, <2>2 DEF Meddle, AskForget, AskSignout, AskLogin2Fa, AskLogin,
                                      AskVerify, AskDevice
<1>6. ASSUME NEW u \in Users, Expire(u) PROVE req'[r] = req[r]
    BY <1>6 DEF Expire
<1>7. ASSUME NEW e \in Event, HandleEvent(e) PROVE req'[r] = req[r]
    BY <1>7 DEF HandleEvent
<1>8. ASSUME NEW m \in Users \X Codes, Deliver(m) PROVE req'[r] = req[r]
    BY <1>8 DEF Deliver
<1>9. CASE Lose
    BY <1>9 DEF Lose
<1>10. CASE UNCHANGED vars
    BY <1>10 DEF vars
<1> QED
    BY <1>2, <1>4, <1>5, <1>6, <1>7, <1>8, <1>9, <1>10 DEF Next

\* A refresh is refused only to somebody who is not entitled to a token any longer: the
\* token that a log-in sends to Redis is stored before the question of a later refresh is
\* served, whoever else logs in, signs out or refreshes meanwhile.
THEOREM EntitledAreServed == Spec => NoFalseRefusal
<1> DEFINE Served == \A r \in Requests :
                        (At(r, "wait") /\ req'[r].pc = "missing") => r \notin entitled
<1>1. AccessInv /\ [Next]_vars => Served
    <2> SUFFICES ASSUME AccessInv, [Next]_vars, NEW r \in Requests,
                        req[r].pc = "wait", req'[r].pc = "missing", r \in entitled
                 PROVE  FALSE
        BY DEF At
    <2> DEFINE m == Head(redis)
    <2>1. RedisStep
        BY OnlyRedisAnswers
    <2>2. /\ StoreOK /\ RequestsOK /\ QueueOK /\ Kept
          /\ redis \in Seq(Message) /\ redis # <<>> /\ Serve(m)
        BY <2>1 DEF AccessInv, StoreOK, RedisStep
    <2>3. m = redis[1] /\ 1 \in DOMAIN redis /\ m \in Message
        BY <2>2
    <2> HIDE DEF m
    <2>4. m.op = "get" /\ Go(m.for, IF session[m.user] THEN "found" ELSE "missing")
        BY <2>2, <2>3 DEF Serve, Message
    <2>5. m.for \in Requests /\ req \in [Requests -> Request]
        BY <2>2, <2>3, <2>4 DEF QueueOK, RequestsOK, Requests
    <2>6. m.for = r /\ ~session[m.user]
        <3>1. m.for = r
            BY <2>4, <2>5 DEF Go
        <3> QED
            BY <2>4, <2>5, <3>1 DEF Go, Request
    <2>7. Stored(session, redis, m.user, 1)
        BY <2>2, <2>3, <2>4, <2>6 DEF Kept
    <2> QED
        BY <2>2, <2>3, <2>4, <2>6, <2>7 DEF Stored, Brings
<1>2. AccessInv /\ [Next]_vars => [Served]_vars
    BY <1>1
<1>3. Spec => [][Served]_vars
    BY <1>2, Invariant, PTL DEF Spec
<1> QED
    BY <1>3 DEF NoFalseRefusal

\* A code that is stored is new, or the one that was; or the key goes.
LEMMA OnlyNewOtps ==
    ASSUME AccessInv, [Next]_vars, NEW u \in Users
    PROVE  otp'[u] \in {None, otp[u]} \/ otp'[u] \notin Around
<1>0. otp \in [Users -> Codes \cup {None}]
    BY DEF AccessInv, StoreOK
<1>1. ASSUME NEW r \in Requests, IssueFirst(r) \/ Issue(r)
      PROVE  otp'[u] = otp[u] \/ otp'[u] \notin Around
    <2>1. otp' = [otp EXCEPT ![Of(r)] = NewOtp] /\ NewOtp \notin Around
        BY <1>1, NewOtpIsNew DEF IssueFirst, Issue, SetOtp
    <2> HIDE DEF NewOtp, Around
    <2> QED
        BY <1>0, <2>1
<1>2. ASSUME NEW w, otp' = otp \/ otp' = [otp EXCEPT ![w] = None]
      PROVE  otp'[u] \in {None, otp[u]}
    BY <1>0, <1>2
<1>3. ASSUME NEW r \in Requests, Step(r) \/ SaveConflict(r), ~IssueFirst(r), ~Issue(r)
      PROVE  otp'[u] \in {None, otp[u]}
    <2>1. CASE Used(r) \/ SignoutOtp(r)
        BY <1>2, <2>1 DEF Used, SignoutOtp
    <2>2. CASE \/ EmitDevice(r) \/ CommitUser(r) \/ LoginUser(r) \/ LoginDevice(r) \/ Token(r)
               \/ Send(r) \/ ReadOtp(r) \/ ReadTries(r)
        BY <1>2, <2>2 DEF EmitDevice, CommitUser, LoginUser, LoginDevice, Token, Send, ReadOtp,
                          ReadTries, Keys
    <2>3. CASE \/ Count(r) \/ Reset(r) \/ ResetAgain(r) \/ Clear(r) \/ Save(r)
               \/ SaveConflict(r) \/ Refresh(r) \/ RefuseRefresh(r) \/ Signout(r)
        BY <1>2, <2>3 DEF Count, Reset, ResetAgain, Clear, Save, SaveConflict, Refresh,
                          RefuseRefresh, Signout, Keys
    <2> QED
        BY <1>3, <2>1, <2>2, <2>3 DEF Step
<1>4. ASSUME NEW w \in Users, Persist(w) PROVE otp'[u] \in {None, otp[u]}
    BY <1>2, <1>4 DEF Persist, AskSignUp, AskLogin, AskLogin2Fa, AskForget, AskVerify, AskDevice,
                      Ask, Keys
<1>5. ASSUME NEW r \in Clients, Meddle(r) PROVE otp'[u] \in {None, otp[u]}
    BY <1>2, <1>5 DEF Meddle, AskForget, AskRefresh, AskSignout, AskLogin2Fa, Generate2Fa,
                      Verify2Fa, AskLogin, AskVerify, AskDevice, Ask, Keys
<1>6. CASE RedisStep
    <2> DEFINE m == Head(redis)
    <2>1. Serve(m) /\ m \in Message
        <3>1. redis \in Seq(Message) /\ redis # <<>> /\ Serve(m)
            BY <1>6 DEF AccessInv, StoreOK, RedisStep
        <3> QED
            BY <3>1
    <2> HIDE DEF m
    <2>2. otp' = otp \/ \E c \in {None, otp[m.user]} : otp' = [otp EXCEPT ![m.user] = c]
        BY <2>1 DEF Serve, Message, Left
    <2>3. m.user \in Users
        BY <2>1 DEF Message
    <2> QED
        BY <1>0, <2>2, <2>3
<1>7. ASSUME NEW w \in Users, Expire(w) PROVE otp'[u] \in {None, otp[u]}
    BY <1>2, <1>7 DEF Expire
<1>8. ASSUME \/ \E e \in Event : HandleEvent(e)
             \/ \E m \in Users \X Codes : Deliver(m)
             \/ Lose \/ UNCHANGED vars
      PROVE  otp'[u] \in {None, otp[u]}
    BY <1>2, <1>8 DEF HandleEvent, Deliver, Lose, Keys, vars
<1> QED
    BY <1>1, <1>3, <1>4, <1>5, <1>6, <1>7, <1>8 DEF Next

\* A code that was replaced, used up, dropped at sign-out or expired never becomes valid
\* again: what is stored is a code that nobody has, although the gateway's handlers and
\* the redis service write the key without a transaction.
THEOREM OldCodesStayInvalid == Spec => OnlyNewCodes
<1> DEFINE New == \A u \in Users : otp'[u] \notin {None, otp[u]} => otp'[u] \notin Around
<1>1. AccessInv /\ [Next]_vars => [New]_vars
    BY OnlyNewOtps
<1>2. Spec => [][New]_vars
    BY <1>1, Invariant, PTL DEF Spec
<1> QED
    BY <1>2 DEF OnlyNewCodes
=============================================================================

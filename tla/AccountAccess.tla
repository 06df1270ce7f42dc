---------------------------- MODULE AccountAccess ----------------------------
(***************************************************************************)
(* The way into an account: sign-up, one-time codes and their attempts,    *)
(* trusted devices, two-factor authentication, refresh tokens, sign-out.   *)
(* The rows are in MySQL; a code, the attempts and a refresh token are keys*)
(* of an email in Redis, read and written by the cache manager without a   *)
(* transaction, and by the redis service through its queue.                *)
(*                                                                         *)
(* A user stands for the email as well; a device for its fingerprint.      *)
(***************************************************************************)
EXTENDS Integers, Sequences

CONSTANTS
    Users, Devices,
    Admins,       \* users who need no known device
    Own,          \* the device a user wants to log in with
    Origin,       \* the device a user's sign-up is taken for
    Channel,      \* how a code reaches whoever was last seen on a device
    Clients,      \* requests of anybody, one each, besides those of the users
    Codes,        \* bound: codes that are around at the same time
    MaxAttempts,  \* DEFAULT_MAX_ATTEMPTS
    MaxRetries,   \* maxRetries of executeTransaction
    MaxSecrets,   \* bound: secrets generated for a user
    MaxMishaps,   \* bound: keys that expire, messages that are lost, conflicts
    None          \* no code, no device, no answer

ASSUME AccessAssumption ==
    /\ Admins \subseteq Users
    /\ Own \in [Users -> Devices] /\ Origin \in [Users -> Devices]
    /\ Channel \in [Devices -> {"sms", "email", "none"}]
    /\ Users \cap Clients = {}
    /\ Codes \subseteq Nat \ {0}
    /\ MaxAttempts \in Nat \ {0, 1} /\ MaxRetries \in Nat \ {0}
    /\ MaxSecrets \in Nat \ {0} /\ MaxMishaps \in Nat
    /\ None \notin Users \cup Devices \cup Codes \cup {0}

VARIABLES
    account,    \* the row of a user: is there one, is_email_verified, is_two_factor_enabled
    devices,    \* the trusted devices of a user: which, and the one seen last
    otp,        \* `${email}:otp`
    tries,      \* `${email}:otp-attempts`, 0 if there is none
    session,    \* is there a `${email}:refresh-token`?
    redis,      \* the queue of the redis service
    mail,       \* codes on their way to a user, by email or SMS
    inbox,      \* the code a user has received last
    events,     \* events on their way to the users and the auth service
    secret,     \* TOTP_SECRET_<id> in the secret store, 0 if there is none
    app,        \* the secret in the user's authenticator app
    req,        \* the request of a client, or the present one of a user
    entitled,   \* history: who may count on a refresh token
    mishaps

vars == <<account, devices, otp, tries, session, redis, mail, inbox, events,
          secret, app, req, entitled, mishaps>>

Rows  == <<account, devices>>
Keys  == <<otp, tries, session>>
Post  == <<redis, mail, inbox, events>>
Totp  == <<secret, app>>
Past  == <<entitled, mishaps>>

Requests == Users \cup Clients
Account  == [is : BOOLEAN, verified : BOOLEAN, tfa : BOOLEAN]
Trusted  == [known : SUBSET Devices, last : Devices \cup {None}]
Event    == [what : {"device", "verified", "enable", "disable"}, user : Users,
             device : Devices \cup {None}]
Wrong    == 0     \* what is typed by mistake
Kinds    == {"sign-up", "login", "verify", "device", "forget", "refresh", "sign-out"}
Pcs      == {"idle", "done", "emit", "user", "device", "first", "issue", "send", "commit",
             "otp", "tries", "count", "used", "reset", "used again", "reset again",
             "clear", "save", "token", "wait", "found", "missing", "out", "out again"}
\* What the user is told, and what is to be done next.
Aims     == {"sign-up", "verify", "device", "login", "2fa", "in"}

NoReq == [pc |-> "idle", kind |-> None, user |-> None, device |-> None, code |-> None,
          new |-> None, cached |-> None, tries |-> 0, channel |-> None, tfa |-> FALSE,
          attempt |-> 0, aim |-> "sign-up"]

\* What earlier requests may have left: nobody, or somebody who has signed up with
\* some device, with or without two-factor authentication.
Init ==
    /\ account \in [Users -> {[is |-> FALSE, verified |-> FALSE, tfa |-> FALSE]}
                             \cup [is : {TRUE}, verified : {TRUE}, tfa : BOOLEAN]]
    /\ \E d \in Devices :
         devices = [u \in Users |-> IF account[u].is THEN [known |-> {d}, last |-> d]
                                                     ELSE [known |-> {}, last |-> None]]
    /\ otp = [u \in Users |-> None]
    /\ tries = [u \in Users |-> 0]
    /\ session = [u \in Users |-> FALSE]
    /\ redis = <<>> /\ mail = {} /\ inbox = [u \in Users |-> None] /\ events = {}
    /\ secret = [u \in Users |-> IF account[u].tfa THEN 1 ELSE 0]
    /\ app = secret
    /\ req = [r \in Requests |->
                [NoReq EXCEPT !.aim = IF r \in Users /\ account[r].is THEN "login" ELSE @]]
    /\ entitled = {} /\ mishaps = 0

-----------------------------------------------------------------------------
(* Requests.                                                               *)

At(r, pc) == req[r].pc = pc
Of(r)     == req[r].user

\* r goes on at pc.
Go(r, pc) == req' = [req EXCEPT ![r].pc = pc]

\* r is answered.  A user remembers what to do next, a client is through.
Answered(r, aim) ==
    IF r \in Users THEN [NoReq EXCEPT !.aim = aim] ELSE [NoReq EXCEPT !.pc = "done"]

Answer(r, aim) == req' = [req EXCEPT ![r] = Answered(r, aim)]

Mishap == /\ mishaps < MaxMishaps
          /\ mishaps' = mishaps + 1

\* get-user-by-field: there is a user with the address.
Registered(u) == account[u].is

\* The gateway's routes: a request for user u, on device d, with a code c.
Ask(r, kind, pc, u, d, c) ==
    /\ At(r, "idle")
    /\ req' = [req EXCEPT ![r] =
         [@ EXCEPT !.pc = pc, !.kind = kind, !.user = u, !.device = d, !.code = c]]
    /\ UNCHANGED <<Rows, Keys, Totp, Past>>

\* generateOTP: a code nobody has; which one makes no difference.
Around == {otp[u] : u \in Users} \cup {inbox[u] : u \in Users} \cup {m[2] : m \in mail}
          \cup UNION {{req[r].code, req[r].new, req[r].cached} : r \in Requests}
          \cup {redis[i].code : i \in DOMAIN redis}
NewOtp == CHOOSE c \in Codes \ Around : TRUE

\* cacheManager.set(`${email}:otp`): the code there was is forgotten.
SetOtp(u, c) == otp' = [otp EXCEPT ![u] = c]

\* set-key, an event to the redis service.
SetKey(u) == redis' = Append(redis, [op |-> "token", user |-> u, code |-> None, for |-> None])

-----------------------------------------------------------------------------
(* Codes: sent by sendNewOtp, handleLogin, handleForgetPassword, createUser.*)

\* handleLogin stores a code before it looks whether it can be sent; for a desktop
\* it then takes another one.
IssueFirst(r) ==
    /\ At(r, "first")
    /\ Codes \ Around # {}
    /\ SetOtp(Of(r), NewOtp)
    /\ req' = [req EXCEPT ![r] =
         CASE @.channel = "sms"   -> [@ EXCEPT !.pc = "send", !.new = NewOtp]
           [] @.channel = "email" -> [@ EXCEPT !.pc = "issue"]
           [] OTHER               -> Answered(r, "login")]
    /\ UNCHANGED <<Rows, tries, session, Post, Totp, entitled, mishaps>>

Issue(r) ==
    /\ At(r, "issue")
    /\ Codes \ Around # {}
    /\ SetOtp(Of(r), NewOtp)
    /\ req' = [req EXCEPT ![r].pc = "send", ![r].new = NewOtp]
    /\ UNCHANGED <<Rows, tries, session, Post, Totp, entitled, mishaps>>

\* Mutation: the limit is passed once.
PastLimit(n) == n > MaxAttempts

AtLimit(n) == n >= MaxAttempts

\* Mutation: the attempts stay at their limit when a new code is sent.
SentAtLimit(r) ==
    CASE req[r].kind = "sign-up" -> [req[r] EXCEPT !.pc = "commit"]
      [] req[r].kind = "login"   -> Answered(r, IF req[r].channel = None THEN "verify"
                                                                         ELSE "device")
      [] OTHER                   -> Answered(r, req[r].aim)

\* "Please check your email for the OTP", or "We detected a login attempt from an
\* unrecognized device."
Detected(r) == Answered(r, IF req[r].channel = None THEN "verify" ELSE "device")

\* What r does when its code is sent.  The verification says that a new one is on its
\* way, after it has reset the attempts if they were at their limit.
Sent(r) ==
    CASE req[r].kind = "sign-up"       -> [req[r] EXCEPT !.pc = "commit"]
      [] req[r].kind = "login"         -> Detected(r)
      [] AtLimit(req[r].tries)         -> [req[r] EXCEPT !.pc = "clear"]
      [] OTHER                         -> Answered(r, req[r].aim)

Send(r) ==
    /\ At(r, "send")
    /\ mail' = mail \cup {<<Of(r), req[r].new>>}
    /\ redis' = IF req[r].kind = "sign-up"
                THEN Append(redis, [op |-> "code", user |-> Of(r), code |-> req[r].new,
                                    for |-> None])
                ELSE redis
    /\ req' = [req EXCEPT ![r] = Sent(r)]
    /\ UNCHANGED <<Rows, Keys, inbox, events, Totp, Past>>

-----------------------------------------------------------------------------
(* Sign-up.                                                                *)

\* A log-in knows the address that was forwarded, a sign-up only that of the connection:
\* behind a proxy the device that signs up is another one.
AskSignUp(u) ==
    /\ ~account[u].is /\ req[u].aim = "sign-up"
    /\ Ask(u, "sign-up", "emit", u, Origin[u], None)
    /\ UNCHANGED Post

\* createUser announces the device, before the code and before its commit.
EmitDevice(r) ==
    /\ At(r, "emit")
    /\ events' = events \cup {[what |-> "device", user |-> Of(r), device |-> req[r].device]}
    /\ Go(r, "issue")
    /\ UNCHANGED <<Rows, Keys, redis, mail, inbox, Totp, Past>>

CommitUser(r) ==
    /\ At(r, "commit")
    /\ account' = [account EXCEPT ![Of(r)].is = TRUE]
    /\ Answer(r, "verify")
    /\ UNCHANGED <<devices, Keys, Post, Totp, Past>>

-----------------------------------------------------------------------------
(* handleLogin                                                             *)

AskLogin(r, u, d) ==
    /\ account[u].is
    /\ Ask(r, "login", "user", u, d, None)
    /\ UNCHANGED Post

\* verify-user: the row as it is now; the password is right.
Verified(u) == account[u]

LoginUser(r) ==
    /\ At(r, "user")
    /\ LET a == Verified(Of(r))
       IN  req' = [req EXCEPT ![r].tfa = a.tfa,
                              ![r].pc = IF ~a.verified THEN "issue"
                                        ELSE IF Of(r) \in Admins THEN "token" ELSE "device"]
    /\ UNCHANGED <<Rows, Keys, Post, Totp, Past>>

Known(u, d) == d \in devices[u].known
LastKnown(u) == devices[u].last

\* getLastKnownDevices: the newest of the trusted ones decides how a code is sent.
ChannelOf(r) == Channel[LastKnown(Of(r))]

LoginDevice(r) ==
    /\ At(r, "device")
    /\ req' = [req EXCEPT ![r] =
         IF Known(Of(r), @.device) THEN [@ EXCEPT !.pc = "token"]
         ELSE IF LastKnown(Of(r)) = None THEN Answered(r, "login")
         ELSE IF @.tfa THEN Answered(r, "2fa")
         ELSE [@ EXCEPT !.pc = "first", !.channel = ChannelOf(r)]]
    /\ UNCHANGED <<Rows, Keys, Post, Totp, Past>>

\* The tokens are signed, the refresh token is on its way to Redis, and the user is in.
Token(r) ==
    /\ At(r, "token")
    /\ SetKey(Of(r))
    /\ entitled' = entitled \cup {Of(r)}
    /\ Answer(r, "in")
    /\ UNCHANGED <<Rows, Keys, mail, inbox, events, Totp, mishaps>>

-----------------------------------------------------------------------------
(* handleForgetPassword                                                    *)

AskForget(r, u) ==
    /\ Registered(u)
    /\ Ask(r, "forget", "issue", u, None, None)
    /\ UNCHANGED Post

-----------------------------------------------------------------------------
(* handleVerifyOtp and handleVerifyNewDevice, with verifyOtp               *)

AskVerify(r, u, c) ==
    /\ Registered(u)
    /\ Ask(r, "verify", "otp", u, None, c)
    /\ UNCHANGED Post

AskDevice(r, u, d, c) ==
    /\ Registered(u)
    /\ Ask(r, "device", "otp", u, d, c)
    /\ UNCHANGED Post

\* "The OTP has expired.  Please check email ... for a new OTP."
ReadOtp(r) ==
    /\ At(r, "otp")
    /\ req' = [req EXCEPT ![r].cached = otp[Of(r)],
                          ![r].pc = IF otp[Of(r)] = None THEN "issue" ELSE "tries"]
    /\ UNCHANGED <<Rows, Keys, Post, Totp, Past>>

\* Number(get) || 1: the first attempt is number 1.
Attempt(u) == IF tries[u] = 0 THEN 1 ELSE tries[u]

ReadTries(r) ==
    /\ At(r, "tries")
    /\ LET n == Attempt(Of(r))
       IN  req' = [req EXCEPT ![r].tries = n, ![r].cached = None,
                              ![r].pc = IF AtLimit(n) THEN "issue"
                                        ELSE IF req[r].code # req[r].cached THEN "count"
                                        ELSE "used"]
    /\ UNCHANGED <<Rows, Keys, Post, Totp, Past>>

\* "Invalid OTP.  You have ... attempt(s) remaining."
Count(r) ==
    /\ At(r, "count")
    /\ tries' = [tries EXCEPT ![Of(r)] = req[r].tries + 1]
    /\ Answer(r, req[r].aim)
    /\ UNCHANGED <<Rows, otp, session, Post, Totp, Past>>

\* The code is right: it is taken out, whichever code is there by now.  The caller
\* for an email takes out the code and the attempts once more.
Used(r) ==
    /\ req[r].pc \in {"used", "used again"}
    /\ otp' = [otp EXCEPT ![Of(r)] = None]
    /\ Go(r, IF At(r, "used") THEN "reset" ELSE "reset again")
    /\ UNCHANGED <<Rows, tries, session, Post, Totp, entitled, mishaps>>

Reset(r) ==
    /\ At(r, "reset")
    /\ tries' = [tries EXCEPT ![Of(r)] = 0]
    /\ Go(r, IF req[r].kind = "verify" THEN "used again" ELSE "save")
    /\ UNCHANGED <<Rows, otp, session, Post, Totp, Past>>

ResetAgain(r) ==
    /\ At(r, "reset again")
    /\ tries' = [tries EXCEPT ![Of(r)] = 0]
    /\ events' = events \cup {[what |-> "verified", user |-> Of(r), device |-> None]}
    /\ Answer(r, "login")
    /\ UNCHANGED <<Rows, otp, session, redis, mail, inbox, Totp, Past>>

\* "You have entered the wrong OTP more than ... times."
Clear(r) ==
    /\ At(r, "clear")
    /\ tries' = [tries EXCEPT ![Of(r)] = 0]
    /\ Answer(r, req[r].aim)
    /\ UNCHANGED <<Rows, otp, session, Post, Totp, Past>>

Trust(u, d) ==
    devices' = [devices EXCEPT ![u] = [known |-> devices[u].known \cup {d}, last |-> d]]

Save(r) ==
    /\ At(r, "save")
    /\ Trust(Of(r), req[r].device)
    /\ Answer(r, "login")
    /\ UNCHANGED <<account, Keys, Post, Totp, Past>>

\* The insert waits for the row of the user in vain: executeTransaction runs the
\* whole operation again, verifyOtp included, or gives up.
SaveConflict(r) ==
    /\ At(r, "save")
    /\ Mishap
    /\ req' = [req EXCEPT ![r] =
         IF @.attempt < MaxRetries - 1
         THEN [@ EXCEPT !.pc = "otp", !.attempt = req[r].attempt + 1, !.cached = None,
                        !.tries = 0]
         ELSE Answered(r, @.aim)]
    /\ UNCHANGED <<Rows, Keys, Post, Totp, entitled>>

-----------------------------------------------------------------------------
(* handleRefreshToken, handleSignout                                       *)

AskRefresh(r, u) ==
    /\ account[u].is
    /\ At(r, "idle")
    /\ req' = [req EXCEPT ![r] = [@ EXCEPT !.pc = "wait", !.kind = "refresh", !.user = u]]
    /\ redis' = Append(redis, [op |-> "get", user |-> u, code |-> None, for |-> r])
    /\ entitled' = IF u \in entitled THEN entitled \cup {r} ELSE entitled
    /\ UNCHANGED <<Rows, Keys, mail, inbox, events, Totp, mishaps>>

\* The new token goes where the old one is.
Refresh(r) ==
    /\ At(r, "found")
    /\ SetKey(Of(r))
    /\ entitled' = entitled \cup {Of(r)}
    /\ Answer(r, "in")
    /\ UNCHANGED <<Rows, Keys, mail, inbox, events, Totp, mishaps>>

\* "Email ... doesn't have any refresh token cached in Redis."
RefuseRefresh(r) ==
    /\ At(r, "missing")
    /\ Answer(r, "login")
    /\ UNCHANGED <<Rows, Keys, Post, Totp, Past>>

\* Nobody counts on the token of u any longer.
Disowned(u) == entitled \ ({u} \cup {r \in Requests : Of(r) = u})

AskSignout(r, u) ==
    /\ account[u].is
    /\ Ask(r, "sign-out", "out", u, None, None)
    /\ UNCHANGED Post

Signout(r) ==
    /\ At(r, "out")
    /\ session' = [session EXCEPT ![Of(r)] = FALSE]
    /\ entitled' = Disowned(Of(r))
    /\ Go(r, "out again")
    /\ UNCHANGED <<Rows, otp, tries, Post, Totp, mishaps>>

SignoutOtp(r) ==
    /\ At(r, "out again")
    /\ otp' = [otp EXCEPT ![Of(r)] = None]
    /\ Answer(r, "login")
    /\ UNCHANGED <<Rows, tries, session, Post, Totp, Past>>

-----------------------------------------------------------------------------
(* Two-factor authentication.  A TOTP is right if it comes from the secret *)
(* that is stored.                                                         *)

\* handleGenerate2Fa: the store refuses a name that is there, setSecret only logs it,
\* and the QR code of the new secret is shown and scanned.
Generate2Fa(r, u) ==
    /\ account[u].is
    /\ At(r, "idle") /\ Go(r, "done")
    /\ app[u] < MaxSecrets
    /\ app' = [app EXCEPT ![u] = @ + 1]
    /\ secret' = [secret EXCEPT ![u] = IF @ = 0 THEN app[u] + 1 ELSE @]
    /\ UNCHANGED <<Rows, Keys, Post, Past>>

RightTotp(u) == secret[u] # 0 /\ app[u] = secret[u]

\* handleVerify2Fa: the users service is told, the user is answered at once.
Verify2Fa(r, u, what) ==
    /\ RightTotp(u)
    /\ At(r, "idle") /\ Go(r, "done")
    /\ events' = events \cup {[what |-> what, user |-> u, device |-> None]}
    /\ UNCHANGED <<Rows, Keys, redis, mail, inbox, Totp, Past>>

\* handleLogin2Fa
AskLogin2Fa(r, u) ==
    /\ RightTotp(u)
    /\ Ask(r, "login", "token", u, None, None)
    /\ UNCHANGED Post

-----------------------------------------------------------------------------
(* The redis service: one queue, one connection, in order.                 *)

\* Mutation: the cache manager can read what the redis service has written.
LeftReadable(u, c) == {c}

\* sign-up's set-key: a plain value where the cache manager expects its own format,
\* or, if the cache manager keeps its keys apart, a key that it never reads.
Left(u, c) == {None, otp[u]}

Serve(m) ==
    /\ CASE m.op = "token" -> /\ session' = [session EXCEPT ![m.user] = TRUE]
                              /\ UNCHANGED <<otp, req>>
         [] m.op = "code"  -> /\ \E c \in Left(m.user, m.code) :
                                    otp' = [otp EXCEPT ![m.user] = c]
                              /\ UNCHANGED <<session, req>>
         [] m.op = "get"   -> /\ Go(m.for, IF session[m.user] THEN "found" ELSE "missing")
                              /\ UNCHANGED <<otp, session>>
    /\ UNCHANGED <<Rows, tries, mail, inbox, events, Totp, Past>>

\* Mutation: a later message may overtake an earlier one.
RedisOvertakes ==
    \E i \in DOMAIN redis :
        /\ redis' = SubSeq(redis, 1, i - 1) \o SubSeq(redis, i + 1, Len(redis))
        /\ Serve(redis[i])

RedisStep ==
    /\ redis # <<>>
    /\ redis' = Tail(redis)
    /\ Serve(Head(redis))

-----------------------------------------------------------------------------
(* Events of the users and the auth service, in any order.                 *)

\* The device of a sign-up bears the time of the sign-up: any other one was seen later.
TrustFirst(u, d) ==
    devices' = [devices EXCEPT ![u] =
        [known |-> devices[u].known \cup {d},
         last  |-> IF devices[u].last = None THEN d ELSE devices[u].last]]

\* handleCreateDevice: the insert waits for the row of the user.
\* handleUpdateEmailVerified, handleEnable2Fa, handleDisable2Fa: one column each.
HandleEvent(e) ==
    /\ e \in events
    /\ account[e.user].is
    /\ events' = events \ {e}
    /\ IF e.what = "device"
       THEN TrustFirst(e.user, e.device) /\ UNCHANGED account
       ELSE /\ account' = [account EXCEPT
                 ![e.user].verified = @ \/ e.what = "verified",
                 ![e.user].tfa = (@ \/ e.what = "enable") /\ e.what # "disable"]
            /\ UNCHANGED devices
    /\ UNCHANGED <<Keys, redis, mail, inbox, Totp, req, Past>>

Deliver(m) ==
    /\ m \in mail
    /\ mail' = mail \ {m}
    /\ inbox' = [inbox EXCEPT ![m[1]] = m[2]]
    /\ UNCHANGED <<Rows, Keys, redis, events, Totp, req, Past>>

\* A crash takes what a service had taken from its queue.
Lose ==
    /\ Mishap
    /\ \/ \E m \in mail : mail' = mail \ {m} /\ UNCHANGED events
       \/ \E e \in events : events' = events \ {e} /\ UNCHANGED mail
    /\ UNCHANGED <<Rows, Keys, redis, inbox, Totp, req, entitled>>

Expire(u) ==
    /\ Mishap
    /\ \/ /\ otp' = [otp EXCEPT ![u] = None]
          /\ UNCHANGED <<tries, session, entitled>>
       \/ /\ tries' = [tries EXCEPT ![u] = 0]
          /\ UNCHANGED <<otp, session, entitled>>
       \/ /\ session' = [session EXCEPT ![u] = FALSE]
          /\ entitled' = Disowned(u)
          /\ UNCHANGED <<otp, tries>>
    /\ UNCHANGED <<Rows, Post, Totp, req>>

-----------------------------------------------------------------------------
\* What a user does who wants in and never gives up: read the mail
\* that is coming, then do what the last answer asks for, or have a new code sent; after
\* "OTP is not correct" from handleLogin2Fa, log in once more.
Persist(u) ==
    /\ ~\E c \in Codes : <<u, c>> \in mail
    /\ \/ AskSignUp(u)
       \/ req[u].aim = "login" /\ AskLogin(u, u, Own[u])
       \/ req[u].aim = "2fa" /\ AskLogin2Fa(u, u)
       \/ req[u].aim = "2fa" /\ ~RightTotp(u) /\ AskLogin(u, u, Own[u])
       \/ req[u].aim \in {"verify", "device"} /\ inbox[u] = None /\ AskForget(u, u)
       \/ req[u].aim = "verify" /\ inbox[u] # None /\ AskVerify(u, u, inbox[u])
       \/ req[u].aim = "device" /\ inbox[u] # None /\ AskDevice(u, u, Own[u], inbox[u])

\* Anybody else who knows the password and the mailbox.
Meddle(r) ==
    \E u \in Users :
        \/ AskForget(r, u) \/ AskRefresh(r, u) \/ AskSignout(r, u) \/ AskLogin2Fa(r, u)
        \/ Generate2Fa(r, u) \/ \E what \in {"enable", "disable"} : Verify2Fa(r, u, what)
        \/ \E d \in Devices, c \in {inbox[u], Wrong} \ {None} :
              AskLogin(r, u, d) \/ AskVerify(r, u, c) \/ AskDevice(r, u, d, c)

Step(r) ==
    \/ EmitDevice(r) \/ CommitUser(r)
    \/ LoginUser(r) \/ LoginDevice(r) \/ Token(r)
    \/ IssueFirst(r) \/ Issue(r) \/ Send(r)
    \/ ReadOtp(r) \/ ReadTries(r) \/ Count(r) \/ Used(r) \/ Reset(r) \/ ResetAgain(r)
    \/ Clear(r) \/ Save(r)
    \/ Refresh(r) \/ RefuseRefresh(r) \/ Signout(r) \/ SignoutOtp(r)

Next ==
    \/ \E u \in Users : Persist(u) \/ Expire(u)
    \/ \E r \in Clients : Meddle(r)
    \/ \E r \in Requests : Step(r) \/ SaveConflict(r)
    \/ RedisStep
    \/ \E e \in Event : HandleEvent(e)
    \/ \E m \in Users \X Codes : Deliver(m)
    \/ Lose

Spec == Init /\ [][Next]_vars

\* A handler that runs goes on, the queues are served, a user persists.
Fairness == /\ \A r \in Requests : WF_vars(Step(r))
            /\ \A u \in Users : WF_vars(Persist(u))
            /\ WF_vars(RedisStep)
            /\ \A e \in Event : WF_vars(HandleEvent(e))
            /\ \A m \in Users \X Codes : WF_vars(Deliver(m))

FairSpec == Spec /\ Fairness

-----------------------------------------------------------------------------
(* Properties.                                                             *)

TypeOK ==
    /\ account \in [Users -> Account]
    /\ devices \in [Users -> Trusted]
    /\ otp \in [Users -> Codes \cup {None}]
    /\ tries \in [Users -> 0 .. MaxAttempts]
    /\ session \in [Users -> BOOLEAN]
    /\ redis \in Seq([op : {"token", "code", "get"}, user : Users,
                      code : Codes \cup {None}, for : Requests \cup {None}])
    /\ mail \in SUBSET (Users \X Codes)
    /\ inbox \in [Users -> Codes \cup {None}]
    /\ events \in SUBSET Event
    /\ secret \in [Users -> 0 .. MaxSecrets] /\ app \in [Users -> 0 .. MaxSecrets]
    /\ req \in [Requests -> [pc : Pcs, kind : Kinds \cup {None}, user : Users \cup {None},
                             device : Devices \cup {None}, code : Codes \cup {None, Wrong},
                             new : Codes \cup {None}, cached : Codes \cup {None},
                             tries : 0 .. MaxAttempts,
                             channel : {"sms", "email", "none", None}, tfa : BOOLEAN,
                             attempt : 0 .. MaxRetries - 1, aim : Aims]]
    /\ entitled \in SUBSET (Users \cup Requests)
    /\ mishaps \in 0 .. MaxMishaps

\* Whoever has been let in, and has not signed out since, is not told that there is no
\* refresh token: the token is stored by an event, but before it is looked for.  This
\* rests on the redis service keeping its queue: a set-key that was lost is not modelled.
NoFalseRefusal ==
    [][\A r \in Requests :
          (At(r, "wait") /\ req'[r].pc = "missing") => r \notin entitled]_vars

\* A code that was replaced, used up or expired never becomes valid again, although
\* several parties write the key: what becomes valid is a code nobody has seen.
OnlyNewCodes ==
    [][\A u \in Users : otp'[u] \notin {None, otp[u]} => otp'[u] \notin Around]_vars

\* Who signs up, or comes with a new device, and does what the answers ask for, gets in,
\* although others who know the password and the mailbox verify codes, sign out and
\* switch two-factor authentication meanwhile.  Three ways to be locked out remain.
LockedOut(u) ==
    \/ account[u].is /\ LastKnown(u) = None                     \* the device was lost
    \/ /\ LastKnown(u) # None /\ ~Known(u, Own[u])             \* no code can be sent
       /\ Channel[LastKnown(u)] = "none"
    \/ account[u].tfa /\ ~RightTotp(u) /\ ~Known(u, Own[u])     \* a secret never stored
GetsIn == \A u \in Users : <>[](req[u].aim = "in" \/ LockedOut(u))
=============================================================================

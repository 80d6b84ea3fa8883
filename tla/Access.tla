--------------------------------- MODULE Access ---------------------------------
(***************************************************************************)
(* Admin users, their passwords and sessions, and the pages that manage    *)
(* them: requests of several browsers whose handlers make one database     *)
(* call after another, any of which may fail and leave what came before.   *)
(*                                                                         *)
(* Passwords are numbered in the order in which they come to be set, and 0 *)
(* is one that is nobody's.  All attempts fall in one rate-limit window.   *)
(***************************************************************************)
EXTENDS Naturals, FiniteSets

CONSTANTS
    Names,              \* usernames
    First,              \* the admin that is set up at the start
    Browsers,
    IpOf,               \* the address a browser's requests come from
    loginRateLimitMax,
    MaxRequests,        \* bound: requests sent
    NoName, NoSession

ASSUME AccessAssumption ==
    /\ First \in Names
    /\ loginRateLimitMax \in Nat
    /\ MaxRequests \in Nat
    /\ Browsers # {}
    /\ Browsers \cap (0 .. MaxRequests) = {}
    /\ NoName \notin Names
    /\ NoSession \notin Browsers \cup (0 .. MaxRequests)

\* A session is named for the request that made it, or for the browser it was there in.
SessionIds == Browsers \cup (1 .. MaxRequests)

Requests == 1 .. MaxRequests

VARIABLES
    password,   \* admin_users: the password, 0 for no such user
    latest,     \* the password set last
    sessions,   \* admin_sessions
    attempts,   \* login_attempts
    lock,       \* the request that holds the rows of admin_users, 0 for none
    request,    \* the requests by number
    sent,       \* how many there are
    browser,    \* AdminLoginPage, AdminLayout and AdminUsers in each browser
    unfinished  \* history: passwords set by a change that has not deleted the old sessions

serverVars == <<password, latest, sessions, attempts, lock, unfinished>>
vars == <<serverVars, request, sent, browser>>

Passwords == 0 .. MaxRequests + 1

\* version is the password a session was given for; overtaken tells that the user's
\* sessions were deleted after that password was checked and before the session was made.
Sessions == [id : SessionIds, user : Names, version : Passwords, overtaken : BOOLEAN]

Attempts == [id : Requests, user : Names, ip : {IpOf[b] : b \in Browsers}, success : BOOLEAN,
             checked : BOOLEAN]

Request == [kind : {"none", "login", "logout", "list", "create", "delete", "change"},
            from : Browsers, cookie : SessionIds \cup {NoSession}, name : Names \cup {NoName},
            typed : Passwords, user : Names \cup {NoName}, version : Passwords,
            overtaken : BOOLEAN, users : SUBSET Names,
            pc : {"sent", "authorised", "recorded", "checking", "verified", "marked", "locked",
                  "counted", "updated", "revoked", "done", "refused", "unauthorised"}]

Browser == [page : {"login", "console", "users"}, cookie : SessionIds \cup {NoSession},
            probing : BOOLEAN, loading : BOOLEAN, users : SUBSET Names,
            current : Names \cup {NoName}, busy : SUBSET {"login", "create", "change"}]

Idle == [kind |-> "none", from |-> CHOOSE b \in Browsers : TRUE, cookie |-> NoSession,
         name |-> NoName, typed |-> 0, user |-> NoName, version |-> 0, overtaken |-> FALSE,
         users |-> {}, pc |-> "sent"]

TypeOK ==
    /\ password \in [Names -> Passwords]
    /\ latest \in Passwords
    /\ \A u \in Names : password[u] <= latest
    /\ sessions \subseteq Sessions
    /\ \A s \in sessions : password[s.user] # 0 /\ s.version # 0 /\ s.version <= latest
    /\ \A s, t \in sessions : s.id = t.id => s = t
    /\ attempts \subseteq Attempts
    /\ \A a, b \in attempts : a.id = b.id => a = b
    /\ lock \in 0 .. MaxRequests
    /\ request \in [Requests -> Request]
    /\ sent \in 0 .. MaxRequests
    /\ browser \in [Browsers -> Browser]
    /\ unfinished \in [Names -> SUBSET Passwords]

LoggedOut == [page |-> "login", cookie |-> NoSession, probing |-> FALSE, loading |-> FALSE,
              users |-> {}, current |-> NoName, busy |-> {}]

\* The console with none of the users' page open.
Opening(cookie) == [LoggedOut EXCEPT !.page = "console", !.cookie = cookie, !.probing = TRUE]

Users == {u \in Names : password[u] # 0}

Showing(user) == [page |-> "users", cookie |-> NoSession, probing |-> FALSE, loading |-> FALSE,
                  users |-> Users, current |-> user, busy |-> {}]

\* Some users there are, and some browsers are logged in and show them.
Init ==
    /\ \E others \in SUBSET Names :
         password = [u \in Names |-> IF u \in others \cup {First} THEN 1 ELSE 0]
    /\ latest = 1
    /\ \E user \in [Browsers -> Users \cup {NoName}] :
         LET in == {b \in Browsers : user[b] # NoName}
         IN  /\ sessions = {[id |-> b, user |-> user[b], version |-> 1, overtaken |-> FALSE] : b \in in}
             /\ browser = [b \in Browsers |->
                   IF b \in in THEN [Showing(user[b]) EXCEPT !.cookie = b] ELSE LoggedOut]
    /\ attempts = {}
    /\ lock = 0
    /\ request = [i \in Requests |-> Idle]
    /\ sent = 0
    /\ unfinished = [u \in Names |-> {}]

(***************************************************************************)
(* The pages.                                                              *)
(***************************************************************************)

\* A request carries the cookie its browser has when it is sent.
Send(b, kind, name, typed) ==
    /\ sent < MaxRequests
    /\ sent' = sent + 1
    /\ request' = [request EXCEPT ![sent + 1] =
          [Idle EXCEPT !.kind = kind, !.from = b, !.cookie = browser[b].cookie,
                       !.name = name, !.typed = typed]]
    /\ UNCHANGED serverVars

Starts(b, form) ==
    /\ form \notin browser[b].busy
    /\ browser' = [browser EXCEPT ![b].busy = @ \cup {form}]

\* A username and any password: the user's, an older one, or nobody's.
SubmitLogin(b) ==
    /\ browser[b].page = "login"
    /\ Starts(b, "login")
    /\ \E u \in Names, typed \in 0 .. latest : Send(b, "login", u, typed)

\* The admin's pages are opened by their address: the layout asks whether it may.
Visit(b) ==
    /\ browser[b].page = "login"
    /\ browser' = [browser EXCEPT ![b] = Opening(browser[b].cookie)]
    /\ UNCHANGED <<serverVars, request, sent>>

OpenUsers(b) ==
    /\ browser[b].page = "console"
    /\ browser' = [browser EXCEPT ![b].page = "users", ![b].loading = TRUE]
    /\ Send(b, "list", NoName, 0)

SignOut(b) ==
    /\ browser[b].page # "login"
    /\ Send(b, "logout", NoName, 0)
    /\ UNCHANGED browser

\* The page of users is ready once their list has come, or has not.
Ready(b) == browser[b].page = "users" /\ ~browser[b].loading

SubmitCreate(b) ==
    /\ Ready(b)
    /\ Starts(b, "create")
    /\ \E u \in Names : Send(b, "create", u, 0)

canDelete(b, u) == Cardinality(browser[b].users) > 1 /\ u # browser[b].current

Delete(b) ==
    /\ Ready(b)
    /\ \E u \in browser[b].users : canDelete(b, u) /\ Send(b, "delete", u, 0)
    /\ UNCHANGED browser

SubmitChange(b) ==
    /\ Ready(b)
    /\ Starts(b, "change")
    /\ \E typed \in 0 .. latest : Send(b, "change", NoName, typed)

(***************************************************************************)
(* The server, one database call after another.                            *)
(***************************************************************************)

At(i, kind, pc) == request[i].kind = kind /\ request[i].pc = pc

Goes(i, pc) == request' = [request EXCEPT ![i].pc = pc]

Client == UNCHANGED <<sent, browser>>

\* The login handler: the attempt is recorded as failed before anything is counted.
RecordLoginAttempt(i) ==
    /\ At(i, "login", "sent")
    /\ attempts' = attempts \cup
          {[id |-> i, user |-> request[i].name, ip |-> IpOf[request[i].from], success |-> FALSE,
            checked |-> FALSE]}
    /\ Goes(i, "recorded")
    /\ UNCHANGED <<password, latest, sessions, lock, unfinished>> /\ Client

Failed == {a \in attempts : ~a.success}

FailedByIp(ip) == {a \in Failed : a.ip = ip}

FailedByUsername(u) == {a \in Failed : a.user = u}

OwnAttempt(i) == CHOOSE a \in attempts : a.id = i

\* Mutated form: one more than the maximum reaches the password check.
TooManyByOne(i) ==
    \/ Cardinality(FailedByIp(IpOf[request[i].from])) > loginRateLimitMax + 1
    \/ Cardinality(FailedByUsername(request[i].name)) > loginRateLimitMax + 1

\* The counts include the attempt itself.
TooMany(i) ==
    \/ Cardinality(FailedByIp(IpOf[request[i].from])) > loginRateLimitMax
    \/ Cardinality(FailedByUsername(request[i].name)) > loginRateLimitMax

RefuseLogin(i) ==
    /\ At(i, "login", "recorded")
    /\ TooMany(i)
    /\ attempts' = attempts \ {OwnAttempt(i)}
    /\ Goes(i, "refused")
    /\ UNCHANGED <<password, latest, sessions, lock, unfinished>> /\ Client

AllowLogin(i) ==
    /\ At(i, "login", "recorded")
    /\ ~TooMany(i)
    /\ attempts' = (attempts \ {OwnAttempt(i)}) \cup {[OwnAttempt(i) EXCEPT !.checked = TRUE]}
    /\ Goes(i, "checking")
    /\ UNCHANGED <<password, latest, sessions, lock, unfinished>> /\ Client

\* GetAdminByUsername, and bcrypt on what it returned.
CheckPassword(i) ==
    /\ At(i, "login", "checking")
    /\ LET u == request[i].name
       IN  IF password[u] # 0 /\ password[u] = request[i].typed
           THEN request' = [request EXCEPT ![i].pc = "verified", ![i].user = u,
                                           ![i].version = password[u]]
           ELSE Goes(i, "refused")
    /\ UNCHANGED serverVars /\ Client

MarkLoginAttemptSucceeded(i) ==
    /\ At(i, "login", "verified")
    /\ attempts' = (attempts \ {OwnAttempt(i)}) \cup {[OwnAttempt(i) EXCEPT !.success = TRUE]}
    /\ Goes(i, "marked")
    /\ UNCHANGED <<password, latest, sessions, lock, unfinished>> /\ Client

\* newAdminSession, for a login or a changed password; its user must exist, and a
\* transaction that may delete the user is waited for.
CreateAdminSession(i) ==
    /\ lock = 0
    /\ At(i, "login", "marked") \/ At(i, "change", "revoked")
    /\ LET r == request[i]
       IN  IF password[r.user] # 0
           THEN /\ sessions' = sessions \cup
                      {[id |-> i, user |-> r.user, version |-> r.version, overtaken |-> r.overtaken]}
                /\ Goes(i, "done")
           ELSE Goes(i, "refused") /\ UNCHANGED sessions
    /\ UNCHANGED <<password, latest, attempts, lock, unfinished>> /\ Client

\* requireAdmin: the session of the cookie, whose user is the one who asks.
RequireAdmin(i) ==
    /\ request[i].kind \in {"list", "create", "delete", "change"}
    /\ request[i].pc = "sent"
    /\ LET mine == {s \in sessions : s.id = request[i].cookie}
       IN  IF mine = {} THEN Goes(i, "unauthorised")
           ELSE \E s \in mine :
                  request' = [request EXCEPT ![i].pc = "authorised", ![i].user = s.user]
    /\ UNCHANGED serverVars /\ Client

ListAdminUsers(i) ==
    /\ At(i, "list", "authorised")
    /\ request' = [request EXCEPT ![i].pc = "done", ![i].users = Users]
    /\ UNCHANGED serverVars /\ Client

CreateAdminUser(i) ==
    /\ At(i, "create", "authorised")
    /\ LET u == request[i].name
       IN  IF password[u] = 0
           THEN /\ latest' = latest + 1
                /\ password' = [password EXCEPT ![u] = latest']
                /\ Goes(i, "done")
           ELSE Goes(i, "refused") /\ UNCHANGED <<password, latest>>
    /\ UNCHANGED <<sessions, attempts, lock, unfinished>> /\ Client

\* Mutated form: the rows are not locked before they are counted.
LockUsersNot(i) ==
    /\ At(i, "delete", "authorised")
    /\ request[i].name # request[i].user
    /\ lock' = i
    /\ Goes(i, "locked")
    /\ UNCHANGED <<password, latest, sessions, attempts, unfinished>> /\ Client

\* DeleteAdminUser: SELECT ... FOR UPDATE waits for a transaction that holds the rows.
LockUsers(i) ==
    /\ At(i, "delete", "authorised")
    /\ request[i].name # request[i].user
    /\ lock = 0
    /\ lock' = i
    /\ Goes(i, "locked")
    /\ UNCHANGED <<password, latest, sessions, attempts, unfinished>> /\ Client

\* A request that has checked a password and has yet to make its session.
Between(j) ==
    \/ request[j].kind = "login" /\ request[j].pc \in {"verified", "marked"}
    \/ request[j].kind = "change" /\ request[j].pc \in {"updated", "revoked"}

\* The sessions of u are deleted by i, and not those that others have yet to make.
Overtakes(i, u, pc) ==
    request' = [j \in Requests |->
        IF j = i THEN [request[i] EXCEPT !.pc = pc]
        ELSE IF Between(j) /\ request[j].user = u
        THEN [request[j] EXCEPT !.overtaken = TRUE] ELSE request[j]]

MoreThanOne == \E u, v \in Users : u # v

CountUsers(i) ==
    /\ At(i, "delete", "locked")
    /\ IF MoreThanOne THEN Goes(i, "counted") /\ UNCHANGED lock
       ELSE Goes(i, "refused") /\ lock' = 0
    /\ UNCHANGED <<password, latest, sessions, attempts, unfinished>> /\ Client

\* Mutated form: the user's sessions are left.
DeleteAdminUserAlone(i) ==
    /\ At(i, "delete", "counted")
    /\ lock' = 0
    /\ password' = [password EXCEPT ![request[i].name] = 0]
    /\ Goes(i, "done")
    /\ UNCHANGED <<latest, sessions, attempts, unfinished>> /\ Client

\* The user's sessions go with the user.
DeleteAdminUser(i) ==
    /\ At(i, "delete", "counted")
    /\ lock' = 0
    /\ LET u == request[i].name
       IN  /\ password' = [password EXCEPT ![u] = 0]
           /\ sessions' = {s \in sessions : s.user # u}
           /\ unfinished' = [unfinished EXCEPT ![u] = {}]
           /\ Overtakes(i, u, IF password[u] # 0 THEN "done" ELSE "refused")
    /\ UNCHANGED <<latest, attempts>> /\ Client

\* handleAdminChangePassword
CheckCurrentPassword(i) ==
    /\ At(i, "change", "authorised")
    /\ password[request[i].user] # 0
    /\ password[request[i].user] = request[i].typed
    /\ Goes(i, "verified")
    /\ UNCHANGED serverVars /\ Client

UpdateAdminUserPassword(i) ==
    /\ lock = 0
    /\ At(i, "change", "verified")
    /\ password[request[i].user] # 0
    /\ latest' = latest + 1
    /\ password' = [password EXCEPT ![request[i].user] = latest']
    /\ unfinished' = [unfinished EXCEPT ![request[i].user] = @ \cup {latest'}]
    /\ request' = [request EXCEPT ![i].pc = "updated", ![i].version = latest']
    /\ UNCHANGED <<sessions, attempts, lock>> /\ Client

\* Done for this change and for those before it; one after it has its own to delete.
Revoked(i) ==
    /\ At(i, "change", "updated")
    /\ LET u == request[i].user
       IN  /\ unfinished' = [unfinished EXCEPT ![u] = {v \in @ : v > request[i].version}]
           /\ Overtakes(i, u, "revoked")
    /\ UNCHANGED <<password, latest, attempts, lock>> /\ Client

\* Mutated form: only the session the password was changed in is deleted.
DeleteOwnSession(i) ==
    /\ Revoked(i)
    /\ sessions' = {s \in sessions : s.id # request[i].cookie}

DeleteAdminSessionsByUsername(i) ==
    /\ Revoked(i)
    /\ sessions' = {s \in sessions : s.user # request[i].user}

DeleteAdminSession(i) ==
    /\ At(i, "logout", "sent")
    /\ sessions' = {s \in sessions : s.id # request[i].cookie}
    /\ Goes(i, "done")
    /\ UNCHANGED <<password, latest, attempts, lock, unfinished>> /\ Client

\* A name or a password that will not do, a database call that fails, a connection that
\* breaks or an answer that is lost: what was done before stays, but a transaction's rows.
Fail(i) ==
    /\ request[i].kind # "none"
    /\ request[i].pc \notin {"refused", "unauthorised"}
    /\ Goes(i, "refused")
    /\ lock' = IF lock = i THEN 0 ELSE lock
    /\ UNCHANGED <<password, latest, sessions, attempts, unfinished>> /\ Client

SessionExpires ==
    /\ \E s \in sessions : sessions' = sessions \ {s}
    /\ UNCHANGED <<password, latest, attempts, lock, unfinished, request, sent, browser>>

(***************************************************************************)
(* The answers.                                                            *)
(***************************************************************************)

\* The page a request was sent from, as it is by now.
Asking(i) == browser[request[i].from]

Answer(i, page) ==
    /\ browser' = [browser EXCEPT ![request[i].from] = page]
    /\ request' = [request EXCEPT ![i] = Idle]
    /\ UNCHANGED <<serverVars, sent>>

\* A page that has been left takes no answer; the cookie is the browser's all the same.
\* (One that is opened again may take its predecessor's here, which React would drop.)
OnUsers(p, q) == IF p.page = "users" THEN q ELSE p

LoginAnswered(i) ==
    /\ At(i, "login", "done")
    /\ Answer(i, Opening(i))

ListAnswered(i) ==
    /\ At(i, "list", "done")
    /\ Answer(i, OnUsers(Asking(i),
          [Asking(i) EXCEPT !.loading = FALSE, !.users = request[i].users,
                            !.current = request[i].user]))

CreateAnswered(i) ==
    /\ At(i, "create", "done")
    /\ Answer(i, OnUsers(Asking(i),
          [Asking(i) EXCEPT !.users = @ \cup {request[i].name}, !.busy = @ \ {"create"}]))

DeleteAnswered(i) ==
    /\ At(i, "delete", "done")
    /\ Answer(i, OnUsers(Asking(i), [Asking(i) EXCEPT !.users = @ \ {request[i].name}]))

ChangeAnswered(i) ==
    /\ At(i, "change", "done")
    /\ LET page == [Asking(i) EXCEPT !.cookie = i]
       IN  Answer(i, OnUsers(page, [page EXCEPT !.busy = @ \ {"change"}]))

\* The login page is shown whatever came of the call; an answer clears the cookie, whether
\* or not the session could be deleted.
LogoutAnswered(i) ==
    /\ request[i].kind = "logout"
    /\ request[i].pc \in {"done", "refused"}
    /\ \E cookie \in {NoSession, Asking(i).cookie} :
         /\ request[i].pc = "done" => cookie = NoSession
         /\ Answer(i, [LoggedOut EXCEPT !.cookie = cookie])

\* An error is shown, and the form can be sent again.
Refused(i) ==
    /\ request[i].kind \in {"login", "list", "create", "delete", "change"}
    /\ request[i].pc \in {"refused", "unauthorised"}
    /\ Answer(i, [Asking(i) EXCEPT !.busy = @ \ {request[i].kind},
                                   !.loading = @ /\ request[i].kind # "list"])

\* The settings the layout asks for once are refused to those who are not logged in.
LayoutProbed(b) ==
    /\ browser[b].probing
    /\ browser' = [browser EXCEPT ![b] =
          IF \E s \in sessions : s.id = browser[b].cookie THEN [@ EXCEPT !.probing = FALSE]
          ELSE [LoggedOut EXCEPT !.cookie = browser[b].cookie]]
    /\ UNCHANGED <<serverVars, request, sent>>

Pages(b) ==
    \/ SubmitLogin(b) \/ Visit(b) \/ OpenUsers(b) \/ SignOut(b) \/ SubmitCreate(b)
    \/ Delete(b) \/ SubmitChange(b) \/ LayoutProbed(b)

Login(i) ==
    \/ RecordLoginAttempt(i) \/ RefuseLogin(i) \/ AllowLogin(i) \/ CheckPassword(i)
    \/ MarkLoginAttemptSucceeded(i)

Manage(i) ==
    \/ RequireAdmin(i) \/ ListAdminUsers(i) \/ CreateAdminUser(i)
    \/ LockUsers(i) \/ CountUsers(i) \/ DeleteAdminUser(i)
    \/ CheckCurrentPassword(i) \/ UpdateAdminUserPassword(i) \/ DeleteAdminSessionsByUsername(i)
    \/ CreateAdminSession(i) \/ DeleteAdminSession(i) \/ Fail(i)

Answers(i) ==
    \/ LoginAnswered(i) \/ ListAnswered(i) \/ CreateAnswered(i) \/ DeleteAnswered(i)
    \/ ChangeAnswered(i) \/ LogoutAnswered(i) \/ Refused(i)

Next ==
    \/ \E b \in Browsers : Pages(b)
    \/ \E i \in Requests : Login(i) \/ Manage(i) \/ Answers(i)
    \/ SessionExpires

Spec == Init /\ [][Next]_vars

(***************************************************************************)
(* Properties.                                                             *)
(***************************************************************************)

\* There is always an admin who can log in, however many admins delete each other at the
\* same time on lists that are out of date (DeleteAdminUser, canDelete).
AnAdminRemains == Users # {}

\* A session rests on its user's password as it is now, but for two: one whose password was
\* checked before the user's sessions were deleted, by a change or with the user, and which
\* was made after; and one older than a change that has set its password and has not
\* deleted the sessions, as it has yet to or has failed to.  Neither overlapping changes of
\* one user, nor a user made anew under an old name, leave another
\* (handleAdminChangePassword).
OldPasswordIsOut ==
    \A s \in sessions :
        \/ s.version = password[s.user]
        \/ s.overtaken
        \/ \E v \in unfinished[s.user] : s.version < v

\* However logins interleave, no username and no address gets more failed passwords checked
\* in a window than loginRateLimitMax (handleAdminLogin records before it counts).
GuessesAreBounded ==
    /\ \A u \in Names : Cardinality({a \in FailedByUsername(u) : a.checked}) <= loginRateLimitMax
    /\ \A b \in Browsers :
         Cardinality({a \in FailedByIp(IpOf[b]) : a.checked}) <= loginRateLimitMax
=============================================================================

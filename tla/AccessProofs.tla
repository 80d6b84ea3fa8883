------------------------------ MODULE AccessProofs ------------------------------
(***************************************************************************)
(* Theorems about Access, for every set of names and browsers and every    *)
(* number of requests.                                                     *)
(***************************************************************************)
EXTENDS Access, FiniteSetTheorems, TLAPS

(***************************************************************************)
(* The inductive invariant.                                                *)
(***************************************************************************)

\* Requests are numbered as they are sent; the ones about a user name one, and those that
\* act for a user know whom.
RequestsOK ==
    \A i \in Requests :
        /\ i > sent => request[i].kind = "none"
        /\ request[i].kind \in {"login", "create", "delete"} => request[i].name \in Names
        /\ Between(i) \/ At(i, "change", "authorised") \/ At(i, "change", "verified")
             => request[i].user \in Names

\* Requests that may still set a password.
Pends(i) ==
    \/ request[i].kind = "create" /\ request[i].pc \in {"sent", "authorised"}
    \/ request[i].kind = "change" /\ request[i].pc \in {"sent", "authorised", "verified"}

Pending == {i \in Requests : Pends(i)}

\* Every request sets one password at most, so that there are numbers enough.
NumbersLeft == latest + Cardinality(Pending) <= sent + 1

\* A request that has yet to make its session.
Sessionless(i) ==
    /\ request[i].kind \in {"login", "change"}
    /\ request[i].pc \in {"sent", "authorised", "recorded", "checking", "verified", "marked",
                          "updated", "revoked"}

SessionsOfOldRequests ==
    \A s \in sessions : s.id \in Requests => s.id <= sent /\ ~Sessionless(s.id)

\* The attempt a request has recorded is there until the request is refused.
AttemptsOK ==
    /\ IsFiniteSet(attempts)
    /\ \A a \in attempts : a.id <= sent /\ ~At(a.id, "login", "sent")
    /\ \A i \in Requests :
         request[i].kind = "login" /\ request[i].pc \in {"recorded", "checking", "verified"} =>
           \E a \in attempts : a.id = i
    /\ \A a \in attempts : At(a.id, "login", "recorded") =>
         /\ a.user = request[a.id].name
         /\ a.ip = IpOf[request[a.id].from]
         /\ ~a.success /\ ~a.checked

\* Who counts the users holds their rows, and what it has counted is so until it is done.
LocksOK ==
    \A i \in Requests :
        /\ At(i, "delete", "locked") \/ At(i, "delete", "counted") => lock = i
        /\ At(i, "delete", "counted") => MoreThanOne

\* What a session may rest on.
Stands(u, version, overtaken) ==
    \/ version = password[u]
    \/ overtaken
    \/ \E v \in unfinished[u] : version < v

\* A request that has yet to make its session holds what a session may rest on.
VersionsOK ==
    \A i \in Requests : Between(i) =>
        /\ request[i].version # 0 /\ request[i].version <= latest
        /\ Stands(request[i].user, request[i].version, request[i].overtaken)

AccessInv ==
    /\ TypeOK
    /\ RequestsOK
    /\ NumbersLeft
    /\ SessionsOfOldRequests
    /\ AttemptsOK
    /\ LocksOK
    /\ VersionsOK
    /\ AnAdminRemains
    /\ OldPasswordIsOut
    /\ GuessesAreBounded

(***************************************************************************)
(* How requests and pages move.                                            *)
(***************************************************************************)
LEMMA IdleIsRequest ==
    /\ Idle \in Request
    /\ Idle.kind = "none"
BY AccessAssumption DEF Idle, Request, Passwords

LEMMA RequestFacts ==
    ASSUME TypeOK, NEW i \in Requests
    PROVE  /\ request[i] \in Request
           /\ request[i].from \in Browsers
           /\ browser[request[i].from] \in Browser
           /\ i # 0 /\ i \in SessionIds
BY AccessAssumption DEF TypeOK, Request, Requests, SessionIds

\* The pages as they are shown are pages.
LEMMA OpeningIsPage ==
    ASSUME NEW c \in SessionIds \cup {NoSession}
    PROVE  Opening(c) \in Browser /\ [LoggedOut EXCEPT !.cookie = c] \in Browser
BY DEF Opening, LoggedOut, Browser

LEMMA PagesTyped ==
    ASSUME TypeOK, RequestsOK, [Next]_vars
    PROVE  browser' \in [Browsers -> Browser]
<1>1. browser \in [Browsers -> Browser]
  BY DEF TypeOK
<1>2. ASSUME NEW b \in Browsers, Pages(b) PROVE browser' \in [Browsers -> Browser]
  <2>1. browser[b] \in Browser /\ browser[b].cookie \in SessionIds \cup {NoSession}
    BY <1>1 DEF Browser
  <2>2. CASE SubmitLogin(b) \/ SubmitCreate(b) \/ SubmitChange(b)
    BY <1>1, <2>1, <2>2 DEF SubmitLogin, SubmitCreate, SubmitChange, Starts, Browser
  <2>3. CASE Visit(b) \/ LayoutProbed(b)
    <3>1. [browser[b] EXCEPT !.probing = FALSE] \in Browser
      BY <2>1 DEF Browser
    <3>2. PICK page \in Browser : browser' = [browser EXCEPT ![b] = page]
      BY <2>1, <2>3, <3>1, OpeningIsPage DEF Visit, LayoutProbed
    <3>3. QED BY <1>1, <3>2
  <2>4. CASE OpenUsers(b)
    BY <1>1, <2>1, <2>4 DEF OpenUsers, Browser
  <2>5. CASE SignOut(b) \/ Delete(b)
    BY <1>1, <2>5 DEF SignOut, Delete
  <2>6. QED BY <1>2, <2>2, <2>3, <2>4, <2>5 DEF Pages
<1>3. ASSUME NEW i \in Requests, Login(i) \/ Manage(i) \/ Answers(i)
      PROVE  browser' \in [Browsers -> Browser]
  <2>1. request[i] \in Request /\ Asking(i) \in Browser /\ request[i].from \in Browsers
    BY RequestFacts DEF Asking
  <2>2. ASSUME NEW page \in Browser, Answer(i, page) PROVE browser' \in [Browsers -> Browser]
    BY <1>1, <2>1, <2>2 DEF Answer
  <2>3. CASE LoginAnswered(i)
    BY <2>2, <2>3, RequestFacts, OpeningIsPage DEF LoginAnswered
  <2>4. CASE ListAnswered(i)
    BY <2>1, <2>2, <2>4 DEF ListAnswered, OnUsers, Browser, Request
  <2>5. CASE CreateAnswered(i)
    BY <2>1, <2>2, <2>5 DEF CreateAnswered, OnUsers, Browser, At, RequestsOK
  <2>6. CASE DeleteAnswered(i)
    BY <2>1, <2>2, <2>6 DEF DeleteAnswered, OnUsers, Browser
  <2>7. CASE ChangeAnswered(i)
    BY <2>1, <2>2, <2>7, RequestFacts, ZenonT(60) DEF ChangeAnswered, OnUsers, Browser
  <2>8. CASE LogoutAnswered(i)
    BY <2>1, <2>2, <2>8, OpeningIsPage DEF LogoutAnswered, Browser
  <2>9. CASE Refused(i)
    BY <2>1, <2>2, <2>9 DEF Refused, Browser
  <2>10. CASE UNCHANGED browser
    BY <1>1, <2>10
  <2>11. QED BY <1>3, <2>3, <2>4, <2>5, <2>6, <2>7, <2>8, <2>9, <2>10
    DEF Login, Manage, Answers, RecordLoginAttempt, RefuseLogin, AllowLogin, CheckPassword,
        MarkLoginAttemptSucceeded, RequireAdmin, ListAdminUsers, CreateAdminUser, LockUsers,
        CountUsers, DeleteAdminUser, CheckCurrentPassword, UpdateAdminUserPassword,
        DeleteAdminSessionsByUsername, Revoked, CreateAdminSession, DeleteAdminSession, Fail,
        Client
<1>4. CASE SessionExpires \/ UNCHANGED vars
  BY <1>1, <1>4 DEF SessionExpires, vars
<1>5. QED BY <1>2, <1>3, <1>4 DEF Next

\* A page sends nothing, or the next request, which is about a user where it has to be.
IsSent(r) ==
    /\ sent < MaxRequests
    /\ sent' = sent + 1
    /\ request' = [request EXCEPT ![sent + 1] = r]
    /\ r.kind # "none" /\ r.pc = "sent"
    /\ r.kind \in {"login", "create", "delete"} => r.name \in Names

LEMMA PagesSend ==
    ASSUME TypeOK, NEW b \in Browsers, Pages(b)
    PROVE  /\ UNCHANGED serverVars
           /\ \/ UNCHANGED <<request, sent>>
              \/ \E r \in Request : IsSent(r)
<1>1. ASSUME NEW kind \in {"login", "logout", "list", "create", "delete", "change"},
             NEW name \in Names \cup {NoName}, NEW typed \in 0 .. latest,
             kind \in {"login", "create", "delete"} => name \in Names,
             Send(b, kind, name, typed)
      PROVE  \E r \in Request : IsSent(r)
  <2>1. browser[b].cookie \in SessionIds \cup {NoSession} /\ typed \in Passwords
    BY AccessAssumption DEF TypeOK, Browser, Passwords
  <2> DEFINE r == [Idle EXCEPT !.kind = kind, !.from = b, !.cookie = browser[b].cookie,
                               !.name = name, !.typed = typed]
  <2>2. r \in Request /\ r.kind = kind /\ r.pc = "sent" /\ r.name = name
    BY <2>1, IdleIsRequest, ZenonT(30) DEF Request, Idle
  <2>3. sent < MaxRequests /\ sent' = sent + 1 /\ request' = [request EXCEPT ![sent + 1] = r]
    BY <1>1 DEF Send
  <2> HIDE DEF r
  <2>4. QED BY <1>1, <2>2, <2>3 DEF IsSent
<1>2. 0 \in 0 .. latest
  BY AccessAssumption DEF TypeOK, Passwords
<1>3. CASE SubmitLogin(b) \/ SubmitChange(b) \/ OpenUsers(b) \/ SignOut(b)
           \/ SubmitCreate(b) \/ Delete(b)
  <2>1. browser[b].users \subseteq Names
    BY DEF TypeOK, Browser
  <2>2. UNCHANGED serverVars
    BY <1>3 DEF SubmitLogin, SubmitChange, OpenUsers, SignOut, SubmitCreate, Delete, Send
  <2>3. QED BY <1>1, <1>2, <1>3, <2>1, <2>2
    DEF SubmitLogin, SubmitChange, OpenUsers, SignOut, SubmitCreate, Delete
<1>4. CASE Visit(b) \/ LayoutProbed(b)
  BY <1>4 DEF Visit, LayoutProbed
<1>5. QED BY <1>3, <1>4 DEF Pages

\* An answer that has been taken ends its request.
LEMMA AnswersEnd ==
    ASSUME NEW i \in Requests, Answers(i)
    PROVE  /\ UNCHANGED <<serverVars, sent>>
           /\ request' = [request EXCEPT ![i] = Idle]
           /\ request[i].pc \in {"done", "refused", "unauthorised"}
<1>1. ASSUME NEW page, Answer(i, page)
      PROVE  UNCHANGED <<serverVars, sent>> /\ request' = [request EXCEPT ![i] = Idle]
  BY <1>1 DEF Answer
<1>2. QED BY <1>1
  DEF Answers, LoginAnswered, ListAnswered, CreateAnswered, DeleteAnswered, ChangeAnswered,
      LogoutAnswered, Refused, At

\* There is a number for the password a pending request will set.
LEMMA PendingFinite ==
    /\ IsFiniteSet(Requests) /\ IsFiniteSet(Pending) /\ Cardinality(Pending) \in Nat
    /\ Pending # {} => Cardinality(Pending) >= 1
<1>1. IsFiniteSet(Requests)
  BY AccessAssumption, FS_Interval DEF Requests
<1>2. IsFiniteSet(Pending)
  BY <1>1, FS_Subset DEF Pending
<1>3. Cardinality(Pending) \in Nat
  BY <1>2, FS_CardinalityType
<1>4. Pending # {} => Cardinality(Pending) # 0
  BY <1>2, FS_EmptySet
<1>5. QED BY <1>1, <1>2, <1>3, <1>4

LEMMA NextNumber ==
    ASSUME TypeOK, NumbersLeft, NEW i \in Pending
    PROVE  latest + 1 \in Passwords
<1>1. Cardinality(Pending) \in Nat /\ Cardinality(Pending) >= 1
  BY PendingFinite
<1>2. latest \in Nat /\ sent \in Nat /\ sent <= MaxRequests /\ MaxRequests \in Nat
  BY AccessAssumption DEF TypeOK, Passwords
<1>3. QED BY <1>1, <1>2 DEF NumbersLeft, Passwords

\* Who deletes a user's sessions overtakes all who are between a check and a session.
LEMMA Overtaking ==
    ASSUME TypeOK, NEW i \in Requests, NEW u,
           NEW pc \in {"done", "refused", "revoked"}, Overtakes(i, u, pc)
    PROVE  /\ request' \in [Requests -> Request]
           /\ \A j \in Requests :
                /\ j # i => request'[j] \in {request[j], [request[j] EXCEPT !.overtaken = TRUE]}
                /\ request'[j].kind = request[j].kind
                /\ request'[j].name = request[j].name
                /\ request'[j].from = request[j].from
                /\ j # i /\ Between(j) /\ request[j].user = u => request'[j].overtaken
           /\ request'[i].pc = pc
           /\ request'[i].user = request[i].user
           /\ request'[i].version = request[i].version
           /\ request'[i].overtaken = request[i].overtaken
<1>1. request \in [Requests -> Request]
  BY DEF TypeOK
<1> DEFINE after(j) == IF j = i THEN [request[i] EXCEPT !.pc = pc]
                       ELSE IF Between(j) /\ request[j].user = u
                       THEN [request[j] EXCEPT !.overtaken = TRUE] ELSE request[j]
<1>2. request' = [j \in Requests |-> after(j)]
  BY DEF Overtakes
<1>3. ASSUME NEW r \in Request
      PROVE  /\ [r EXCEPT !.pc = pc] \in Request
             /\ [r EXCEPT !.pc = pc].pc = pc
             /\ [r EXCEPT !.pc = pc].kind = r.kind
             /\ [r EXCEPT !.pc = pc].name = r.name
             /\ [r EXCEPT !.pc = pc].from = r.from
             /\ [r EXCEPT !.pc = pc].user = r.user
             /\ [r EXCEPT !.pc = pc].version = r.version
             /\ [r EXCEPT !.pc = pc].overtaken = r.overtaken
  BY DEF Request
<1>4. ASSUME NEW r \in Request
      PROVE  /\ [r EXCEPT !.overtaken = TRUE] \in Request
             /\ [r EXCEPT !.overtaken = TRUE].overtaken
             /\ [r EXCEPT !.overtaken = TRUE].kind = r.kind
             /\ [r EXCEPT !.overtaken = TRUE].name = r.name
             /\ [r EXCEPT !.overtaken = TRUE].from = r.from
  BY DEF Request
<1>5. ASSUME NEW j \in Requests
      PROVE  /\ after(j) \in Request
             /\ j # i => after(j) \in {request[j], [request[j] EXCEPT !.overtaken = TRUE]}
             /\ after(j).kind = request[j].kind
             /\ after(j).name = request[j].name
             /\ after(j).from = request[j].from
             /\ j # i /\ Between(j) /\ request[j].user = u => after(j).overtaken
  <2>1. request[j] \in Request
    BY <1>1
  <2>2. CASE j = i
    BY <1>3, <2>1, <2>2
  <2>3. CASE j # i /\ Between(j) /\ request[j].user = u
    BY <1>4, <2>1, <2>3
  <2>4. CASE j # i /\ ~(Between(j) /\ request[j].user = u)
    BY <2>1, <2>4
  <2>5. QED BY <2>2, <2>3, <2>4
<1>6. after(i) = [request[i] EXCEPT !.pc = pc] /\ request[i] \in Request
  BY <1>1
<1> HIDE DEF after
<1>7. QED BY <1>2, <1>3, <1>5, <1>6

LEMMA Overtakers ==
    ASSUME TypeOK, NEW i \in Requests
    PROVE  /\ DeleteAdminUser(i) =>
                /\ request[i].kind = "delete" /\ request[i].pc = "counted"
                /\ \E pc \in {"done", "refused"} : Overtakes(i, request[i].name, pc)
           /\ DeleteAdminSessionsByUsername(i) =>
                /\ request[i].kind = "change" /\ request[i].pc = "updated"
                /\ Overtakes(i, request[i].user, "revoked")
BY DEF DeleteAdminUser, DeleteAdminSessionsByUsername, Revoked, At

\* A step of the server keeps a request's sender, its name and what kind it is.
LEMMA ServerSteps ==
    ASSUME TypeOK, RequestsOK, NumbersLeft, NEW i \in Requests, Login(i) \/ Manage(i)
    PROVE  /\ request' \in [Requests -> Request]
           /\ sent' = sent
           /\ \A j \in Requests :
                /\ j # i => request'[j] \in {request[j], [request[j] EXCEPT !.overtaken = TRUE]}
                /\ request'[j].kind = request[j].kind
                /\ request'[j].name = request[j].name
                /\ request'[j].from = request[j].from
           /\ request[i].kind # "none"
<1> DEFINE Kept ==
      /\ request' \in [Requests -> Request]
      /\ \A j \in Requests :
           /\ j # i => request'[j] \in {request[j], [request[j] EXCEPT !.overtaken = TRUE]}
           /\ request'[j].kind = request[j].kind
           /\ request'[j].name = request[j].name
           /\ request'[j].from = request[j].from
<1>1. request \in [Requests -> Request] /\ request[i] \in Request
  BY DEF TypeOK
<1>2. ASSUME NEW pc \in {"recorded", "checking", "verified", "marked", "locked", "counted",
                         "revoked", "done", "refused", "unauthorised"}, Goes(i, pc)
      PROVE  Kept
  BY <1>1, <1>2 DEF Goes, Request
<1>3. CASE RecordLoginAttempt(i) \/ RefuseLogin(i) \/ AllowLogin(i)
           \/ MarkLoginAttemptSucceeded(i) \/ CreateAdminSession(i) \/ CreateAdminUser(i)
           \/ LockUsers(i) \/ CountUsers(i) \/ CheckCurrentPassword(i)
           \/ DeleteAdminSession(i) \/ Fail(i)
  <2>1. Kept
    BY <1>2, <1>3
    DEF RecordLoginAttempt, RefuseLogin, AllowLogin, MarkLoginAttemptSucceeded,
        CreateAdminSession, CreateAdminUser, LockUsers, CountUsers,
        CheckCurrentPassword, DeleteAdminSession, Fail
  <2>2. QED BY <1>3, <2>1
    DEF RecordLoginAttempt, RefuseLogin, AllowLogin, MarkLoginAttemptSucceeded,
        CreateAdminSession, CreateAdminUser, LockUsers, CountUsers,
        CheckCurrentPassword, DeleteAdminSession, Fail, Client, At
<1>4. CASE CheckPassword(i)
  <2>1. request[i].name \in Names /\ password[request[i].name] \in Passwords
    BY <1>4 DEF CheckPassword, At, RequestsOK, TypeOK
  <2>2. Kept
    BY <1>1, <1>2, <1>4, <2>1 DEF CheckPassword, Request
  <2>3. QED BY <1>4, <2>2 DEF CheckPassword, Client, At
<1>5. CASE RequireAdmin(i)
  <2>1. \A s \in sessions : s.user \in Names
    BY DEF TypeOK, Sessions
  <2>2. Kept
    BY <1>1, <1>2, <1>5, <2>1 DEF RequireAdmin, Request
  <2>3. QED BY <1>5, <2>2 DEF RequireAdmin, Client
<1>6. CASE ListAdminUsers(i)
  <2>1. Users \in SUBSET Names
    BY DEF Users
  <2>2. Kept
    BY <1>1, <1>6, <2>1 DEF ListAdminUsers, Request
  <2>3. QED BY <1>6, <2>2 DEF ListAdminUsers, Client, At
<1>7. CASE UpdateAdminUserPassword(i)
  <2>1. latest + 1 \in Passwords
    BY <1>7, NextNumber DEF UpdateAdminUserPassword, At, Pends, Pending
  <2>2. QED BY <1>1, <1>7, <2>1 DEF UpdateAdminUserPassword, Client, Request, At
<1>8. CASE DeleteAdminUser(i) \/ DeleteAdminSessionsByUsername(i)
  <2>1. Kept
    BY <1>8, Overtakers, Overtaking
  <2>2. sent' = sent
    BY <1>8 DEF DeleteAdminUser, DeleteAdminSessionsByUsername, Revoked, Client
  <2>3. QED BY <1>8, <2>1, <2>2, Overtakers
<1>9. QED BY <1>3, <1>4, <1>5, <1>6, <1>7, <1>8 DEF Login, Manage

LEMMA RequestsTyped ==
    ASSUME TypeOK, RequestsOK, NumbersLeft, [Next]_vars
    PROVE  request' \in [Requests -> Request] /\ sent' \in 0 .. MaxRequests
<1>1. request \in [Requests -> Request] /\ sent \in 0 .. MaxRequests /\ MaxRequests \in Nat
  BY AccessAssumption DEF TypeOK
<1>2. CASE \E b \in Browsers : Pages(b)
  BY <1>1, <1>2, PagesSend DEF IsSent
<1>3. CASE \E i \in Requests : Login(i) \/ Manage(i)
  <2>1. PICK i \in Requests : Login(i) \/ Manage(i)
    BY <1>3
  <2>2. request' \in [Requests -> Request] /\ sent' = sent
    BY <2>1, ServerSteps
  <2>3. QED BY <1>1, <2>2
<1>4. CASE \E i \in Requests : Answers(i)
  BY <1>1, <1>4, AnswersEnd, IdleIsRequest
<1>5. CASE SessionExpires \/ UNCHANGED vars
  BY <1>1, <1>5 DEF SessionExpires, vars
<1>6. QED BY <1>2, <1>3, <1>4, <1>5 DEF Next

\* What a step of the server does to the request it is about.
LEMMA PcSteps ==
    ASSUME TypeOK, RequestsOK, NEW i \in Requests, Login(i) \/ Manage(i)
    PROVE  /\ request'[i].pc # "sent"
           /\ (Between(i))' \/ (At(i, "change", "authorised"))' \/ (At(i, "change", "verified"))'
                => request'[i].user \in Names
           /\ (Pends(i))' => Pends(i)
           /\ latest' # latest => latest' = latest + 1 /\ Pends(i) /\ ~(Pends(i))'
<1> USE DEF Between, At, Pends
<1>1. request \in [Requests -> Request] /\ request[i] \in Request
  BY DEF TypeOK
<1>2. ASSUME NEW pc, Goes(i, pc)
      PROVE  /\ request'[i].pc = pc
             /\ request'[i].kind = request[i].kind /\ request'[i].user = request[i].user
  BY <1>1, <1>2 DEF Goes, Request
<1>3. CASE RecordLoginAttempt(i) \/ RefuseLogin(i) \/ AllowLogin(i)
           \/ CreateAdminSession(i) \/ LockUsers(i) \/ CountUsers(i)
           \/ DeleteAdminSession(i) \/ Fail(i)
  <2>1. PICK pc \in {"recorded", "checking", "done", "locked", "counted", "refused"} :
            Goes(i, pc)
    BY <1>3 DEF RecordLoginAttempt, RefuseLogin, AllowLogin, CreateAdminSession, LockUsers,
                CountUsers, DeleteAdminSession, Fail
  <2>2. latest' = latest
    BY <1>3 DEF RecordLoginAttempt, RefuseLogin, AllowLogin, CreateAdminSession, LockUsers,
                CountUsers, DeleteAdminSession, Fail
  <2>3. request'[i].pc = pc
    BY <1>2, <2>1
  <2>4. QED BY <2>1, <2>2, <2>3
<1>4. CASE MarkLoginAttemptSucceeded(i)
  BY <1>2, <1>4 DEF MarkLoginAttemptSucceeded, RequestsOK
<1>5. CASE CheckPassword(i)
  <2>1. request[i].name \in Names /\ latest' = latest
    BY <1>5 DEF CheckPassword, RequestsOK, serverVars
  <2>2. CASE password[request[i].name] # 0 /\ password[request[i].name] = request[i].typed
    <3>1. request'[i].pc = "verified" /\ request'[i].user = request[i].name
          /\ request'[i].kind = "login"
      BY <1>1, <1>5, <2>2 DEF CheckPassword, Request
    <3>2. QED BY <2>1, <3>1
  <2>3. CASE ~(password[request[i].name] # 0 /\ password[request[i].name] = request[i].typed)
    <3>1. request'[i].pc = "refused"
      BY <1>2, <1>5, <2>3 DEF CheckPassword
    <3>2. QED BY <2>1, <3>1
  <2>4. QED BY <2>2, <2>3
<1>6. CASE RequireAdmin(i)
  <2>1. \A s \in sessions : s.user \in Names
    BY DEF TypeOK, Sessions
  <2>2. /\ request'[i].kind = request[i].kind
        /\ \/ request'[i].pc = "unauthorised"
           \/ request'[i].pc = "authorised" /\ request'[i].user \in Names
    BY <1>1, <1>2, <1>6, <2>1 DEF RequireAdmin, Request
  <2>3. request[i].pc = "sent" /\ latest' = latest
    BY <1>6 DEF RequireAdmin, serverVars
  <2>4. QED BY <2>2, <2>3
<1>7. CASE ListAdminUsers(i)
  <2>1. request'[i].pc = "done" /\ latest' = latest
    BY <1>1, <1>7 DEF ListAdminUsers, Request, serverVars
  <2>2. QED BY <2>1
<1>8. CASE CreateAdminUser(i)
  <2>1. request'[i].pc \in {"done", "refused"}
    BY <1>2, <1>8 DEF CreateAdminUser
  <2>2. request[i].kind = "create" /\ request[i].pc = "authorised"
        /\ latest' \in {latest, latest + 1}
    BY <1>8 DEF CreateAdminUser
  <2>3. QED BY <2>1, <2>2
<1>9. CASE CheckCurrentPassword(i)
  BY <1>2, <1>9 DEF CheckCurrentPassword, RequestsOK, serverVars
<1>10. CASE UpdateAdminUserPassword(i)
  <2>1. request'[i].pc = "updated" /\ request'[i].user = request[i].user
    BY <1>1, <1>10 DEF UpdateAdminUserPassword, Request
  <2>2. QED BY <1>10, <2>1 DEF UpdateAdminUserPassword, RequestsOK
<1>11. CASE DeleteAdminUser(i) \/ DeleteAdminSessionsByUsername(i)
  <2>1. latest' = latest
    BY <1>11 DEF DeleteAdminUser, DeleteAdminSessionsByUsername, Revoked
  <2>2. request'[i].pc \in {"done", "refused", "revoked"} /\ request'[i].user = request[i].user
        /\ request'[i].kind = request[i].kind
    BY <1>11, Overtakers, Overtaking
  <2>3. request'[i].pc = "revoked" => request[i].kind = "change" /\ request[i].pc = "updated"
    BY <1>11, Overtakers, Overtaking
  <2>4. QED BY <2>1, <2>2, <2>3 DEF RequestsOK
<1>12. QED BY <1>3, <1>4, <1>5, <1>6, <1>7, <1>8, <1>9, <1>10, <1>11 DEF Login, Manage

LEMMA RequestsStayOK ==
    ASSUME TypeOK, RequestsOK, NumbersLeft, [Next]_vars
    PROVE  RequestsOK'
<1>1. request \in [Requests -> Request] /\ sent \in 0 .. MaxRequests /\ MaxRequests \in Nat
  BY AccessAssumption DEF TypeOK
<1>2. ASSUME NEW b \in Browsers, Pages(b) PROVE RequestsOK'
  <2>1. CASE UNCHANGED <<request, sent>>
    BY <2>1 DEF RequestsOK, Between, At
  <2>2. ASSUME NEW r \in Request, IsSent(r) PROVE RequestsOK'
    BY <1>1, <2>2 DEF RequestsOK, Between, At, IsSent, Requests
  <2>3. QED BY <1>2, <2>1, <2>2, PagesSend
<1>3. ASSUME NEW i \in Requests, Login(i) \/ Manage(i) PROVE RequestsOK'
  <2>1. ASSUME NEW j \in Requests, j # i
        PROVE  /\ request'[j].pc = request[j].pc
               /\ request'[j].user = request[j].user
               /\ request'[j].kind = request[j].kind
    BY <1>1, <1>3, <2>1, ServerSteps DEF Request
  <2>2. QED BY <1>1, <1>3, <2>1, ServerSteps, PcSteps DEF RequestsOK, Between, At
<1>4. ASSUME NEW i \in Requests, Answers(i) PROVE RequestsOK'
  BY <1>1, <1>4, AnswersEnd, IdleIsRequest DEF RequestsOK, Between, At
<1>5. CASE SessionExpires \/ UNCHANGED vars
  BY <1>5 DEF SessionExpires, vars, RequestsOK, Between, At
<1>6. QED BY <1>2, <1>3, <1>4, <1>5 DEF Next

LEMMA NumbersStayLeft ==
    ASSUME TypeOK, RequestsOK, NumbersLeft, [Next]_vars
    PROVE  NumbersLeft'
<1>1. request \in [Requests -> Request] /\ sent \in Nat /\ latest \in Nat
  BY AccessAssumption DEF TypeOK, Passwords
<1>2. IsFiniteSet(Pending) /\ Cardinality(Pending) \in Nat
  BY PendingFinite
<1>3. ASSUME Pending' \subseteq Pending, latest' = latest, sent' = sent PROVE NumbersLeft'
  <2>1. Cardinality(Pending') \in Nat /\ Cardinality(Pending') <= Cardinality(Pending)
    BY <1>2, <1>3, FS_Subset, FS_CardinalityType
  <2>2. QED BY <1>1, <1>2, <1>3, <2>1 DEF NumbersLeft
<1>4. ASSUME NEW b \in Browsers, Pages(b) PROVE NumbersLeft'
  <2>1. CASE UNCHANGED <<request, sent>>
    BY <1>3, <1>4, <2>1, PagesSend DEF Pends, Pending, serverVars
  <2>2. ASSUME NEW r \in Request, IsSent(r) PROVE NumbersLeft'
    <3>1. Pending' \subseteq Pending \cup {sent + 1}
      BY <1>1, <2>2 DEF Pends, Pending, IsSent
    <3>2. IsFiniteSet(Pending \cup {sent + 1})
          /\ Cardinality(Pending \cup {sent + 1}) <= Cardinality(Pending) + 1
      BY <1>2, FS_AddElement, SMTT(30)
    <3>3. Cardinality(Pending') <= Cardinality(Pending \cup {sent + 1})
          /\ Cardinality(Pending') \in Nat /\ Cardinality(Pending \cup {sent + 1}) \in Nat
      BY <3>1, <3>2, FS_Subset, FS_CardinalityType
    <3>4. latest' = latest
      BY <1>4, PagesSend DEF serverVars
    <3>5. sent' = sent + 1
      BY <2>2 DEF IsSent
    <3>6. QED BY <1>1, <1>2, <3>2, <3>3, <3>4, <3>5 DEF NumbersLeft
  <2>3. QED BY <1>4, <2>1, <2>2, PagesSend
<1>5. ASSUME NEW i \in Requests, Login(i) \/ Manage(i) PROVE NumbersLeft'
  <2>1. Pending' \subseteq Pending
    <3>1. ASSUME NEW j \in Requests, j # i, j \in Pending' PROVE j \in Pending
      <4>1. request'[j].pc = request[j].pc /\ request'[j].kind = request[j].kind
        BY <1>1, <1>5, <3>1, ServerSteps DEF Request
      <4>2. QED BY <3>1, <4>1 DEF Pends, Pending
    <3>2. Pending' \subseteq Requests
      BY DEF Pending
    <3>3. QED BY <1>5, <3>1, <3>2, PcSteps DEF Pending
  <2>2. sent' = sent
    BY <1>5, ServerSteps
  <2>3. CASE latest' # latest
    <3>1. latest' = latest + 1 /\ i \in Pending /\ i \notin Pending'
      BY <1>5, <2>3, PcSteps DEF Pending
    <3>2. IsFiniteSet(Pending \ {i}) /\ Cardinality(Pending \ {i}) = Cardinality(Pending) - 1
      BY <1>2, <3>1, FS_RemoveElement
    <3>3. Pending' \subseteq Pending \ {i}
      BY <2>1, <3>1
    <3>4. Cardinality(Pending') <= Cardinality(Pending \ {i}) /\ Cardinality(Pending') \in Nat
      BY <3>2, <3>3, FS_Subset, FS_CardinalityType
    <3>5. QED BY <1>1, <1>2, <2>2, <3>1, <3>2, <3>4 DEF NumbersLeft
  <2>4. QED BY <1>3, <2>1, <2>2, <2>3
<1>6. ASSUME NEW i \in Requests, Answers(i) PROVE NumbersLeft'
  <2>1. request' = [request EXCEPT ![i] = Idle] /\ UNCHANGED <<latest, sent>>
    BY <1>6, AnswersEnd DEF serverVars
  <2>2. QED BY <1>1, <1>3, <2>1, IdleIsRequest DEF Pends, Pending
<1>7. CASE SessionExpires \/ UNCHANGED vars
  BY <1>3, <1>7 DEF SessionExpires, vars, serverVars, Pends, Pending
<1>8. QED BY <1>4, <1>5, <1>6, <1>7 DEF Next

(***************************************************************************)
(* Which statements write which table.                                     *)
(***************************************************************************)
LEMMA Writers ==
    ASSUME TypeOK, [Next]_vars
    PROVE  /\ \/ UNCHANGED <<password, latest>>
              \/ \E i \in Requests : CreateAdminUser(i) \/ DeleteAdminUser(i)
                                     \/ UpdateAdminUserPassword(i)
           /\ \/ UNCHANGED unfinished
              \/ \E i \in Requests : DeleteAdminUser(i) \/ UpdateAdminUserPassword(i)
                                     \/ DeleteAdminSessionsByUsername(i)
           /\ \/ UNCHANGED lock
              \/ \E i \in Requests : LockUsers(i) \/ CountUsers(i) \/ DeleteAdminUser(i) \/ Fail(i)
           /\ \/ UNCHANGED sessions
              \/ \E i \in Requests : CreateAdminSession(i)
              \/ sessions' \subseteq sessions
           /\ \/ UNCHANGED attempts
              \/ \E i \in Requests : RecordLoginAttempt(i) \/ RefuseLogin(i) \/ AllowLogin(i)
                                     \/ MarkLoginAttemptSucceeded(i)
<1>1. CASE \E b \in Browsers : Pages(b)
  BY <1>1, PagesSend DEF serverVars
<1>2. CASE \E i \in Requests : Answers(i)
  BY <1>2, AnswersEnd DEF serverVars
<1>3. ASSUME NEW i \in Requests, Login(i) \/ Manage(i)
      PROVE  /\ \/ UNCHANGED <<password, latest>>
                \/ CreateAdminUser(i) \/ DeleteAdminUser(i) \/ UpdateAdminUserPassword(i)
             /\ \/ UNCHANGED unfinished
                \/ DeleteAdminUser(i) \/ UpdateAdminUserPassword(i)
                \/ DeleteAdminSessionsByUsername(i)
             /\ UNCHANGED lock \/ LockUsers(i) \/ CountUsers(i) \/ DeleteAdminUser(i) \/ Fail(i)
             /\ UNCHANGED sessions \/ CreateAdminSession(i) \/ sessions' \subseteq sessions
             /\ \/ UNCHANGED attempts
                \/ RecordLoginAttempt(i) \/ RefuseLogin(i) \/ AllowLogin(i)
                \/ MarkLoginAttemptSucceeded(i)
  <2>1. CASE CheckPassword(i) \/ RequireAdmin(i) \/ ListAdminUsers(i) \/ CheckCurrentPassword(i)
    BY <2>1 DEF CheckPassword, RequireAdmin, ListAdminUsers, CheckCurrentPassword, serverVars
  <2>2. CASE RecordLoginAttempt(i) \/ RefuseLogin(i) \/ AllowLogin(i)
             \/ MarkLoginAttemptSucceeded(i)
    BY <2>2 DEF RecordLoginAttempt, RefuseLogin, AllowLogin, MarkLoginAttemptSucceeded
  <2>3. CASE CreateAdminUser(i) \/ UpdateAdminUserPassword(i)
    BY <2>3 DEF CreateAdminUser, UpdateAdminUserPassword
  <2>4. CASE LockUsers(i) \/ CountUsers(i) \/ Fail(i)
    BY <2>4 DEF LockUsers, CountUsers, Fail
  <2>5. CASE DeleteAdminUser(i)
    BY <2>5 DEF DeleteAdminUser
  <2>6. CASE DeleteAdminSessionsByUsername(i)
    BY <2>6 DEF DeleteAdminSessionsByUsername, Revoked
  <2>7. CASE CreateAdminSession(i) \/ DeleteAdminSession(i)
    BY <2>7 DEF CreateAdminSession, DeleteAdminSession
  <2>8. QED BY <1>3, <2>1, <2>2, <2>3, <2>4, <2>5, <2>6, <2>7 DEF Login, Manage
<1>4. CASE SessionExpires \/ UNCHANGED vars
  BY <1>4 DEF SessionExpires, vars, serverVars
<1>5. CASE \E i \in Requests : Login(i) \/ Manage(i)
  BY <1>3, <1>5
<1>6. QED BY <1>1, <1>2, <1>4, <1>5 DEF Next

\* How passwords move: one comes to be set, with the next number, or a user is deleted.
LEMMA PasswordSteps ==
    ASSUME TypeOK, RequestsOK, NumbersLeft, [Next]_vars
    PROVE  \/ UNCHANGED <<password, latest>>
           \/ /\ latest' = latest + 1 /\ latest' \in Passwords
              /\ \E u \in Names : password' = [password EXCEPT ![u] = latest + 1]
           \/ /\ latest' = latest
              /\ \E u \in Names, i \in Requests :
                   /\ DeleteAdminUser(i) /\ u = request[i].name
                   /\ password' = [password EXCEPT ![u] = 0]
<1>1. ASSUME NEW i \in Requests, CreateAdminUser(i), latest' # latest
      PROVE  /\ latest' = latest + 1 /\ latest' \in Passwords
             /\ \E u \in Names : password' = [password EXCEPT ![u] = latest + 1]
  <2>1. i \in Pending /\ request[i].name \in Names
    BY <1>1 DEF CreateAdminUser, At, Pends, Pending, RequestsOK
  <2>2. latest' = latest + 1 /\ password' = [password EXCEPT ![request[i].name] = latest + 1]
    BY <1>1 DEF CreateAdminUser
  <2>3. QED BY <2>1, <2>2, NextNumber
<1>2. ASSUME NEW i \in Requests, CreateAdminUser(i), latest' = latest
      PROVE  UNCHANGED <<password, latest>>
  BY <1>2 DEF CreateAdminUser, TypeOK, Passwords
<1>3. ASSUME NEW i \in Requests, UpdateAdminUserPassword(i)
      PROVE  /\ latest' = latest + 1 /\ latest' \in Passwords
             /\ \E u \in Names : password' = [password EXCEPT ![u] = latest + 1]
  <2>1. i \in Pending /\ request[i].user \in Names
    BY <1>3 DEF UpdateAdminUserPassword, At, Pends, Pending, RequestsOK
  <2>2. latest' = latest + 1 /\ password' = [password EXCEPT ![request[i].user] = latest + 1]
    BY <1>3 DEF UpdateAdminUserPassword
  <2>3. QED BY <2>1, <2>2, NextNumber
<1>4. ASSUME NEW i \in Requests, DeleteAdminUser(i)
      PROVE  /\ latest' = latest /\ request[i].name \in Names
             /\ password' = [password EXCEPT ![request[i].name] = 0]
  BY <1>4 DEF DeleteAdminUser, At, RequestsOK
<1>5. CASE \E i \in Requests : CreateAdminUser(i)
  BY <1>1, <1>2, <1>5
<1>6. CASE \E i \in Requests : UpdateAdminUserPassword(i)
  BY <1>3, <1>6
<1>7. CASE \E i \in Requests : DeleteAdminUser(i)
  BY <1>4, <1>7
<1>8. QED BY <1>5, <1>6, <1>7, Writers

LEMMA PasswordsTyped ==
    ASSUME TypeOK, RequestsOK, NumbersLeft, [Next]_vars
    PROVE  /\ password' \in [Names -> Passwords]
           /\ latest' \in Passwords /\ latest' >= latest
           /\ \A u \in Names : password'[u] <= latest'
<1>1. /\ password \in [Names -> Passwords] /\ latest \in Passwords /\ Passwords \subseteq Nat
      /\ 0 \in Passwords /\ \A u \in Names : password[u] <= latest
  BY AccessAssumption DEF TypeOK, Passwords
<1>2. CASE UNCHANGED <<password, latest>>
  BY <1>1, <1>2
<1>3. CASE /\ latest' = latest + 1 /\ latest' \in Passwords
           /\ \E u \in Names : password' = [password EXCEPT ![u] = latest + 1]
  <2>1. PICK u \in Names : password' = [password EXCEPT ![u] = latest + 1]
    BY <1>3
  <2>2. \A v \in Names : password'[v] = IF v = u THEN latest + 1 ELSE password[v]
    BY <1>1, <2>1
  <2>3. latest \in Nat /\ \A v \in Names : password[v] \in Nat
    BY <1>1
  <2>4. \A v \in Names : password'[v] <= latest'
    BY <1>1, <1>3, <2>2, <2>3
  <2>5. password' \in [Names -> Passwords] /\ latest' >= latest
    BY <1>1, <1>3, <2>1, <2>3
  <2>6. QED BY <1>3, <2>4, <2>5
<1>4. CASE latest' = latest /\ \E u \in Names : password' = [password EXCEPT ![u] = 0]
  BY <1>1, <1>4
<1>5. QED BY <1>2, <1>3, <1>4, PasswordSteps


\* Only LockUsers and CountUsers lead where the rows are held.
LEMMA Holders ==
    ASSUME TypeOK, NEW i \in Requests, Login(i) \/ Manage(i),
           (At(i, "delete", "locked") \/ At(i, "delete", "counted"))'
    PROVE  LockUsers(i) \/ (CountUsers(i) /\ MoreThanOne)
<1> USE DEF At
<1>1. request \in [Requests -> Request] /\ request[i] \in Request
  BY DEF TypeOK
<1>2. ASSUME NEW pc, Goes(i, pc)
      PROVE  request'[i].pc = pc /\ request'[i].kind = request[i].kind
  BY <1>1, <1>2 DEF Goes, Request
<1>3. CASE RecordLoginAttempt(i) \/ RefuseLogin(i) \/ AllowLogin(i)
           \/ MarkLoginAttemptSucceeded(i) \/ CreateAdminSession(i) \/ CreateAdminUser(i)
           \/ CheckCurrentPassword(i) \/ DeleteAdminSession(i) \/ Fail(i)
  <2>1. \E pc \in {"recorded", "refused", "checking", "marked", "done", "verified"} : Goes(i, pc)
    BY <1>3 DEF RecordLoginAttempt, RefuseLogin, AllowLogin, MarkLoginAttemptSucceeded,
                CreateAdminSession, CreateAdminUser, CheckCurrentPassword, DeleteAdminSession,
                Fail
  <2>2. QED BY <1>2, <2>1
<1>4. CASE CheckPassword(i)
  <2>1. request'[i].pc \in {"verified", "refused"}
    BY <1>1, <1>2, <1>4 DEF CheckPassword, Request
  <2>2. QED BY <2>1
<1>5. CASE RequireAdmin(i)
  <2>1. request'[i].pc \in {"authorised", "unauthorised"}
    BY <1>1, <1>2, <1>5 DEF RequireAdmin, Request
  <2>2. QED BY <2>1
<1>6. CASE ListAdminUsers(i)
  <2>1. request'[i].pc = "done"
    BY <1>1, <1>6 DEF ListAdminUsers, Request
  <2>2. QED BY <2>1
<1>7. CASE UpdateAdminUserPassword(i)
  <2>1. request'[i].pc = "updated"
    BY <1>1, <1>7 DEF UpdateAdminUserPassword, Request
  <2>2. QED BY <2>1
<1>8. CASE DeleteAdminUser(i) \/ DeleteAdminSessionsByUsername(i)
  <2>1. request'[i].pc \in {"done", "refused", "revoked"}
    BY <1>8, Overtakers, Overtaking
  <2>2. QED BY <2>1
<1>9. CASE CountUsers(i)
  BY <1>2, <1>9 DEF CountUsers
<1>10. CASE LockUsers(i)
  BY <1>10
<1>11. QED BY <1>3, <1>4, <1>5, <1>6, <1>7, <1>8, <1>9, <1>10 DEF Login, Manage

\* The users that were counted are there until the rows are free again.
LEMMA CountedStay ==
    ASSUME TypeOK, RequestsOK, NumbersLeft, [Next]_vars, MoreThanOne,
           \A i \in Requests : ~DeleteAdminUser(i)
    PROVE  MoreThanOne'
<1>1. password \in [Names -> Passwords] /\ latest \in Nat
  BY AccessAssumption DEF TypeOK, Passwords
<1>2. CASE UNCHANGED <<password, latest>>
  BY <1>2 DEF MoreThanOne, Users
<1>3. CASE \E u \in Names : password' = [password EXCEPT ![u] = latest + 1]
  <2>1. Users \subseteq Users'
    BY <1>1, <1>3 DEF Users
  <2>2. QED BY <2>1 DEF MoreThanOne
<1>4. QED BY <1>2, <1>3, PasswordSteps

\* The rows are held by the request that counts them, and none is deleted meanwhile.
LEMMA LocksStayOK ==
    ASSUME TypeOK, RequestsOK, NumbersLeft, LocksOK, [Next]_vars
    PROVE  lock' \in 0 .. MaxRequests /\ LocksOK'
<1>1. request \in [Requests -> Request] /\ lock \in 0 .. MaxRequests
      /\ sent \in 0 .. MaxRequests /\ MaxRequests \in Nat
  BY AccessAssumption DEF TypeOK
<1>2. \A i \in Requests : i # 0 /\ i \in 0 .. MaxRequests
  BY AccessAssumption DEF Requests
<1>3. lock' \in 0 .. MaxRequests
  BY <1>1, <1>2, Writers DEF LockUsers, CountUsers, DeleteAdminUser, Fail
<1>4. ASSUME NEW j \in Requests, request'[j].pc = request[j].pc,
             request'[j].kind = request[j].kind,
             (At(j, "delete", "locked") \/ At(j, "delete", "counted"))'
      PROVE  lock' = j /\ ((At(j, "delete", "counted"))' => MoreThanOne')
  <2>1. lock = j /\ (At(j, "delete", "counted") => MoreThanOne)
    BY <1>4 DEF LocksOK, At
  <2>2. \A k \in Requests : ~LockUsers(k) /\ (CountUsers(k) \/ DeleteAdminUser(k) => k = j)
    BY <1>2, <2>1 DEF LockUsers, CountUsers, DeleteAdminUser, LocksOK
  <2>3. \A pc \in {"done", "refused", "counted"} : Goes(j, pc) => pc = request[j].pc
    BY <1>1, <1>4 DEF Goes, Request
  <2>4. ~CountUsers(j) /\ ~DeleteAdminUser(j) /\ ~Fail(j)
    <3>1. ~CountUsers(j) /\ ~Fail(j)
      BY <1>4, <2>3 DEF CountUsers, Fail, At
    <3>2. ~DeleteAdminUser(j)
      BY <1>4, Overtakers, Overtaking
    <3>3. QED BY <3>1, <3>2
  <2>5. lock' = lock
    BY <2>1, <2>2, <2>4, Writers DEF Fail
  <2>6. MoreThanOne => MoreThanOne'
    BY <2>2, <2>4, CountedStay
  <2>7. QED BY <1>4, <2>1, <2>5, <2>6 DEF At
<1>5. ASSUME NEW i \in Requests, Login(i) \/ Manage(i) PROVE LocksOK'
  <2>1. ASSUME NEW j \in Requests, j # i
        PROVE  request'[j].pc = request[j].pc /\ request'[j].kind = request[j].kind
    BY <1>1, <1>5, <2>1, ServerSteps DEF Request
  <2>2. CASE LockUsers(i)
    <3>1. lock' = i /\ request'[i].pc = "locked"
      BY <1>1, <2>2 DEF LockUsers, Goes, Request
    <3>2. QED BY <1>4, <2>1, <3>1 DEF LocksOK, At
  <2>3. CASE CountUsers(i) /\ MoreThanOne
    <3>1. lock' = i /\ MoreThanOne'
      BY <2>3 DEF CountUsers, LocksOK, MoreThanOne, Users
    <3>2. QED BY <1>4, <2>1, <3>1 DEF LocksOK
  <2>4. CASE ~(At(i, "delete", "locked") \/ At(i, "delete", "counted"))'
    BY <1>4, <2>1, <2>4 DEF LocksOK
  <2>5. QED BY <1>5, <2>2, <2>3, <2>4, Holders
<1>6. ASSUME NEW b \in Browsers, Pages(b) PROVE LocksOK'
  <2>1. CASE UNCHANGED <<request, sent>>
    BY <1>4, <2>1 DEF LocksOK
  <2>2. ASSUME NEW r \in Request, IsSent(r) PROVE LocksOK'
    BY <1>1, <1>4, <2>2 DEF LocksOK, At, IsSent, Requests
  <2>3. QED BY <1>6, <2>1, <2>2, PagesSend
<1>7. ASSUME NEW i \in Requests, Answers(i) PROVE LocksOK'
  BY <1>1, <1>4, <1>7, AnswersEnd, IdleIsRequest DEF LocksOK, At
<1>8. CASE SessionExpires \/ UNCHANGED vars
  <2>1. \A j \in Requests : request'[j].pc = request[j].pc /\ request'[j].kind = request[j].kind
    BY <1>8 DEF SessionExpires, vars
  <2>2. QED BY <1>3, <1>4, <2>1 DEF LocksOK
<1>9. QED BY <1>3, <1>5, <1>6, <1>7, <1>8 DEF Next

LEMMA AnAdminStays ==
    ASSUME TypeOK, RequestsOK, NumbersLeft, LocksOK, AnAdminRemains, [Next]_vars
    PROVE  AnAdminRemains'
<1>1. password \in [Names -> Passwords] /\ latest \in Nat
  BY AccessAssumption DEF TypeOK, Passwords
<1>2. CASE UNCHANGED <<password, latest>>
  BY <1>2 DEF AnAdminRemains, Users
<1>3. CASE \E u \in Names : password' = [password EXCEPT ![u] = latest + 1]
  <2>1. Users \subseteq Users'
    BY <1>1, <1>3 DEF Users
  <2>2. QED BY <2>1 DEF AnAdminRemains
<1>4. ASSUME NEW u \in Names, NEW i \in Requests, DeleteAdminUser(i),
             password' = [password EXCEPT ![u] = 0]
      PROVE  AnAdminRemains'
  <2>1. MoreThanOne
    BY <1>4 DEF DeleteAdminUser, LocksOK
  <2>2. PICK v \in Users : v # u
    BY <2>1 DEF MoreThanOne
  <2>3. v \in Users'
    BY <1>1, <1>4, <2>2 DEF Users
  <2>4. QED BY <2>3 DEF AnAdminRemains
<1>5. QED BY <1>2, <1>3, <1>4, PasswordSteps

(***************************************************************************)
(* Passwords that were checked.                                            *)
(***************************************************************************)

\* A request between its check and its session goes on as it was, has just checked the
\* user's password, or has just set it.
Continues(i) ==
    /\ Between(i)
    /\ request'[i].kind = request[i].kind
    /\ request'[i].user = request[i].user
    /\ request'[i].version = request[i].version
    /\ request[i].overtaken => request'[i].overtaken

Checks(i) ==
    /\ UNCHANGED serverVars
    /\ request'[i].kind = "login"
    /\ request'[i].user \in Names
    /\ request'[i].version = password[request'[i].user] /\ request'[i].version # 0

Sets(i) ==
    /\ latest' = latest + 1
    /\ request'[i].user \in Names
    /\ request'[i].version = latest + 1
    /\ password' = [password EXCEPT ![request'[i].user] = latest + 1]

LEMMA BetweenMoves ==
    ASSUME TypeOK, RequestsOK, NEW i \in Requests, Login(i) \/ Manage(i), (Between(i))'
    PROVE  Continues(i) \/ Checks(i) \/ Sets(i)
<1> USE DEF At
<1>1. request \in [Requests -> Request] /\ request[i] \in Request
  BY DEF TypeOK
<1>2. ASSUME NEW pc, Goes(i, pc)
      PROVE  /\ request'[i].pc = pc
             /\ request'[i].kind = request[i].kind
             /\ request'[i].user = request[i].user
             /\ request'[i].version = request[i].version
             /\ request'[i].overtaken = request[i].overtaken
  BY <1>1, <1>2 DEF Goes, Request
<1>3. CASE RecordLoginAttempt(i) \/ RefuseLogin(i) \/ AllowLogin(i) \/ CreateAdminSession(i)
           \/ CreateAdminUser(i) \/ LockUsers(i) \/ CountUsers(i)
           \/ DeleteAdminSession(i) \/ Fail(i)
  <2>1. \E pc \in {"recorded", "refused", "checking", "done", "locked", "counted"} : Goes(i, pc)
    BY <1>3 DEF RecordLoginAttempt, RefuseLogin, AllowLogin, CreateAdminSession,
                CreateAdminUser, LockUsers, CountUsers, DeleteAdminSession, Fail
  <2>2. QED BY <1>2, <2>1 DEF Between
<1>4. CASE MarkLoginAttemptSucceeded(i)
  BY <1>2, <1>4 DEF MarkLoginAttemptSucceeded, Between, Continues
<1>5. CASE CheckPassword(i)
  <2>1. CASE password[request[i].name] # 0 /\ password[request[i].name] = request[i].typed
    <3>1. /\ request'[i].kind = "login" /\ request'[i].user = request[i].name
          /\ request'[i].version = password[request[i].name]
      BY <1>1, <1>5, <2>1 DEF CheckPassword, Request
    <3>2. request[i].name \in Names /\ UNCHANGED serverVars
      BY <1>5 DEF CheckPassword, RequestsOK
    <3>3. QED BY <2>1, <3>1, <3>2 DEF Checks
  <2>2. CASE ~(password[request[i].name] # 0 /\ password[request[i].name] = request[i].typed)
    BY <1>2, <1>5, <2>2 DEF CheckPassword, Between
  <2>3. QED BY <2>1, <2>2
<1>6. CASE RequireAdmin(i)
  <2>1. request'[i].pc \in {"authorised", "unauthorised"}
    BY <1>1, <1>2, <1>6 DEF RequireAdmin, Request
  <2>2. QED BY <2>1 DEF Between
<1>7. CASE ListAdminUsers(i)
  <2>1. request'[i].pc = "done"
    BY <1>1, <1>7 DEF ListAdminUsers, Request
  <2>2. QED BY <2>1 DEF Between
<1>8. CASE CheckCurrentPassword(i)
  <2>1. request'[i].pc = "verified" /\ request'[i].kind = "change"
    BY <1>2, <1>8 DEF CheckCurrentPassword
  <2>2. QED BY <2>1 DEF Between
<1>9. CASE UpdateAdminUserPassword(i)
  <2>1. request'[i].user = request[i].user /\ request'[i].version = latest + 1
    BY <1>1, <1>9 DEF UpdateAdminUserPassword, Request
  <2>2. request[i].user \in Names
    BY <1>9 DEF UpdateAdminUserPassword, RequestsOK
  <2>3. QED BY <1>9, <2>1, <2>2 DEF UpdateAdminUserPassword, Sets
<1>10. CASE DeleteAdminUser(i) \/ DeleteAdminSessionsByUsername(i)
  <2>1. /\ request'[i].kind = request[i].kind
        /\ request'[i].user = request[i].user
        /\ request'[i].version = request[i].version
        /\ request'[i].overtaken = request[i].overtaken
    BY <1>10, Overtakers, Overtaking
  <2>2. Between(i)
    <3>1. CASE DeleteAdminUser(i)
      BY <2>1, <3>1, Overtakers DEF Between
    <3>2. CASE DeleteAdminSessionsByUsername(i)
      BY <3>2, Overtakers DEF Between
    <3>3. QED BY <1>10, <3>1, <3>2
  <2>3. QED BY <2>1, <2>2 DEF Continues
<1>11. QED BY <1>3, <1>4, <1>5, <1>6, <1>7, <1>8, <1>9, <1>10 DEF Login, Manage

LEMMA BetweenSteps ==
    ASSUME TypeOK, RequestsOK, NumbersLeft, [Next]_vars, NEW j \in Requests, (Between(j))'
    PROVE  Continues(j) \/ Checks(j) \/ Sets(j)
<1>1. request \in [Requests -> Request] /\ sent \in 0 .. MaxRequests /\ MaxRequests \in Nat
  BY AccessAssumption DEF TypeOK
<1>2. ASSUME request'[j] \in {request[j], [request[j] EXCEPT !.overtaken = TRUE]}
      PROVE  Continues(j)
  BY <1>1, <1>2 DEF Continues, Between, Request
<1>3. ASSUME NEW b \in Browsers, Pages(b) PROVE Continues(j)
  <2>1. CASE UNCHANGED <<request, sent>>
    BY <1>2, <2>1
  <2>2. ASSUME NEW r \in Request, IsSent(r) PROVE Continues(j)
    <3>1. j # sent + 1
      BY <1>1, <2>2 DEF IsSent, Between
    <3>2. QED BY <1>1, <1>2, <2>2, <3>1 DEF IsSent
  <2>3. QED BY <1>3, <2>1, <2>2, PagesSend
<1>4. ASSUME NEW i \in Requests, Login(i) \/ Manage(i)
      PROVE  Continues(j) \/ Checks(j) \/ Sets(j)
  <2>1. CASE i = j
    BY <1>4, <2>1, BetweenMoves
  <2>2. CASE i # j
    BY <1>2, <1>4, <2>2, ServerSteps
  <2>3. QED BY <2>1, <2>2
<1>5. ASSUME NEW i \in Requests, Answers(i) PROVE Continues(j)
  <2>1. request' = [request EXCEPT ![i] = Idle]
    BY <1>5, AnswersEnd
  <2>2. i # j
    BY <1>1, <2>1, IdleIsRequest DEF Between
  <2>3. QED BY <1>1, <1>2, <2>1, <2>2
<1>6. CASE SessionExpires \/ UNCHANGED vars
  BY <1>2, <1>6 DEF SessionExpires, vars
<1>7. QED BY <1>3, <1>4, <1>5, <1>6 DEF Next

\* How what sessions rest on moves.
LEMMA VersionSteps ==
    ASSUME TypeOK, RequestsOK, NumbersLeft, [Next]_vars
    PROVE  \/ UNCHANGED <<password, latest, unfinished>>
           \/ \E u \in Names : /\ password[u] = 0
                               /\ password' = [password EXCEPT ![u] = latest + 1]
                               /\ UNCHANGED unfinished
           \/ \E u \in Names : /\ latest' = latest + 1
                               /\ password' = [password EXCEPT ![u] = latest + 1]
                               /\ unfinished' = [unfinished EXCEPT ![u] = @ \cup {latest + 1}]
           \/ \E i \in Requests : DeleteAdminUser(i) \/ DeleteAdminSessionsByUsername(i)
<1>1. ASSUME NEW i \in Requests, CreateAdminUser(i)
      PROVE  \/ UNCHANGED <<password, latest, unfinished>>
             \/ \E u \in Names : /\ password[u] = 0
                                 /\ password' = [password EXCEPT ![u] = latest + 1]
                                 /\ UNCHANGED unfinished
  <2>1. request[i].name \in Names
    BY <1>1 DEF CreateAdminUser, At, RequestsOK
  <2>2. QED BY <1>1, <2>1 DEF CreateAdminUser
<1>2. ASSUME NEW i \in Requests, UpdateAdminUserPassword(i)
      PROVE  \E u \in Names : /\ latest' = latest + 1
                              /\ password' = [password EXCEPT ![u] = latest + 1]
                              /\ unfinished' = [unfinished EXCEPT ![u] = @ \cup {latest + 1}]
  <2>1. request[i].user \in Names
    BY <1>2 DEF UpdateAdminUserPassword, At, RequestsOK
  <2>2. QED BY <1>2, <2>1 DEF UpdateAdminUserPassword
<1>3. CASE UNCHANGED <<password, latest, unfinished>>
  BY <1>3
<1>4. QED BY <1>1, <1>2, <1>3, Writers

LEMMA UnfinishedTyped ==
    ASSUME TypeOK, RequestsOK, NumbersLeft, [Next]_vars
    PROVE  unfinished' \in [Names -> SUBSET Passwords]
<1>1. unfinished \in [Names -> SUBSET Passwords]
  BY DEF TypeOK
<1>2. latest' \in Passwords
  BY PasswordsTyped
<1>3. ASSUME NEW i \in Requests, DeleteAdminUser(i)
      PROVE  unfinished' \in [Names -> SUBSET Passwords]
  BY <1>1, <1>3 DEF DeleteAdminUser
<1>4. ASSUME NEW i \in Requests, DeleteAdminSessionsByUsername(i)
      PROVE  unfinished' \in [Names -> SUBSET Passwords]
  <2>1. PICK S \in SUBSET Passwords :
          unfinished' = [unfinished EXCEPT ![request[i].user] = S]
    <3>1. request[i].user \in Names
      BY <1>4 DEF DeleteAdminSessionsByUsername, Revoked, Between, At, RequestsOK
    <3>2. unfinished[request[i].user] \in SUBSET Passwords
      BY <1>1, <3>1
    <3>3. {v \in unfinished[request[i].user] : v > request[i].version} \in SUBSET Passwords
      BY <3>2
    <3>4. QED BY <1>4, <3>3 DEF DeleteAdminSessionsByUsername, Revoked
  <2>2. QED BY <1>1, <2>1
<1>5. CASE \E u \in Names : /\ latest' = latest + 1
                            /\ unfinished' = [unfinished EXCEPT ![u] = @ \cup {latest + 1}]
  <2>1. PICK u \in Names : unfinished' = [unfinished EXCEPT ![u] = @ \cup {latest + 1}]
    BY <1>5
  <2>2. unfinished[u] \cup {latest + 1} \in SUBSET Passwords
    BY <1>1, <1>2, <1>5
  <2>3. QED BY <1>1, <2>1, <2>2
<1>6. QED BY <1>1, <1>3, <1>4, <1>5, VersionSteps

\* What a session may rest on goes on being so, as long as none of its user's are deleted.
LEMMA StandsStill ==
    ASSUME TypeOK, RequestsOK, NumbersLeft, [Next]_vars,
           NEW u \in Names, NEW n \in Nat, NEW o, n # 0, n <= latest, Stands(u, n, o),
           \A i \in Requests : /\ DeleteAdminUser(i) => request[i].name # u
                               /\ DeleteAdminSessionsByUsername(i) => request[i].user # u
    PROVE  n = password'[u] \/ o \/ \E v \in unfinished'[u] : n < v
<1>1. /\ password \in [Names -> Passwords] /\ unfinished \in [Names -> SUBSET Passwords]
      /\ latest \in Nat
  BY AccessAssumption DEF TypeOK, Passwords
<1>2. n = password[u] \/ o \/ \E v \in unfinished[u] : n < v
  BY DEF Stands
<1>3. CASE password'[u] = password[u] /\ unfinished'[u] = unfinished[u]
  BY <1>2, <1>3
<1>4. ASSUME NEW w \in Names, password[w] = 0, password' = [password EXCEPT ![w] = latest + 1],
             UNCHANGED unfinished
      PROVE  n = password'[u] \/ o \/ \E v \in unfinished'[u] : n < v
  BY <1>1, <1>2, <1>4
<1>5. ASSUME NEW w \in Names, password' = [password EXCEPT ![w] = latest + 1],
             unfinished' = [unfinished EXCEPT ![w] = @ \cup {latest + 1}]
      PROVE  n = password'[u] \/ o \/ \E v \in unfinished'[u] : n < v
  <2>1. CASE w = u
    <3>1. latest + 1 \in unfinished'[u]
      BY <1>1, <1>5, <2>1
    <3>2. n < latest + 1
      BY <1>1
    <3>3. QED BY <3>1, <3>2
  <2>2. CASE w # u
    BY <1>1, <1>3, <1>5, <2>2
  <2>3. QED BY <2>1, <2>2
<1>6. ASSUME NEW i \in Requests, DeleteAdminUser(i) \/ DeleteAdminSessionsByUsername(i),
             DeleteAdminUser(i) => request[i].name # u,
             DeleteAdminSessionsByUsername(i) => request[i].user # u
      PROVE  password'[u] = password[u] /\ unfinished'[u] = unfinished[u]
  <2>1. ASSUME NEW w, w # u, NEW S, UNCHANGED password \/ password' = [password EXCEPT ![w] = 0],
               unfinished' = [unfinished EXCEPT ![w] = S]
        PROVE  password'[u] = password[u] /\ unfinished'[u] = unfinished[u]
    BY <1>1, <2>1
  <2>2. CASE DeleteAdminUser(i)
    <3>1. /\ password' = [password EXCEPT ![request[i].name] = 0]
          /\ unfinished' = [unfinished EXCEPT ![request[i].name] = {}]
      BY <2>2 DEF DeleteAdminUser
    <3>2. request[i].name # u
      BY <1>6, <2>2
    <3>3. QED BY <2>1, <3>1, <3>2
  <2>3. CASE DeleteAdminSessionsByUsername(i)
    <3>1. UNCHANGED password /\ \E S : unfinished' = [unfinished EXCEPT ![request[i].user] = S]
      BY <2>3 DEF DeleteAdminSessionsByUsername, Revoked
    <3>2. request[i].user # u
      BY <1>6, <2>3
    <3>3. QED BY <2>1, <3>1, <3>2
  <2>4. QED BY <1>6, <2>2, <2>3
<1>7. CASE \E i \in Requests : DeleteAdminUser(i) \/ DeleteAdminSessionsByUsername(i)
  <2>1. password'[u] = password[u] /\ unfinished'[u] = unfinished[u]
    BY <1>6, <1>7
  <2>2. QED BY <1>3, <2>1
<1>8. QED BY <1>3, <1>4, <1>5, <1>7, VersionSteps

LEMMA VersionsStayOK ==
    ASSUME TypeOK, RequestsOK, NumbersLeft, VersionsOK, [Next]_vars
    PROVE  VersionsOK'
<1>1. /\ password \in [Names -> Passwords] /\ unfinished \in [Names -> SUBSET Passwords]
      /\ latest \in Nat /\ Passwords \subseteq Nat
      /\ request \in [Requests -> Request]
      /\ \A u \in Names : password[u] <= latest
  BY AccessAssumption DEF TypeOK, Passwords
<1>2. latest' \in Nat /\ latest' >= latest
  BY <1>1, PasswordsTyped
<1> SUFFICES ASSUME NEW j \in Requests, (Between(j))'
             PROVE  /\ request'[j].version # 0 /\ request'[j].version <= latest'
                    /\ \/ request'[j].version = password'[request'[j].user]
                       \/ request'[j].overtaken
                       \/ \E v \in unfinished'[request'[j].user] : request'[j].version < v
  BY DEF VersionsOK, Stands
<1>3. CASE Continues(j)
  <2> DEFINE u == request[j].user
             n == request[j].version
             o == request[j].overtaken
  <2>1. /\ u \in Names /\ n \in Nat /\ n # 0 /\ n <= latest
        /\ Stands(u, n, o)
    BY <1>1, <1>3 DEF Continues, RequestsOK, VersionsOK, Request
  <2>2. request'[j].user = u /\ request'[j].version = n /\ (o => request'[j].overtaken)
    BY <1>3 DEF Continues
  <2>3. ASSUME NEW i \in Requests, DeleteAdminUser(i), request[i].name = u
        PROVE  request'[j].overtaken
    <3>1. i # j
      BY <1>3, <2>3, Overtakers DEF Continues, Between
    <3>2. QED BY <1>3, <2>3, <3>1, Overtakers, Overtaking DEF Continues
  <2>4. ASSUME NEW i \in Requests, i # j, DeleteAdminSessionsByUsername(i), request[i].user = u
        PROVE  request'[j].overtaken
    BY <1>3, <2>4, Overtakers, Overtaking DEF Continues
  <2>5. ASSUME NEW i \in Requests, i = j, DeleteAdminSessionsByUsername(i)
        PROVE  n = password'[u] \/ o \/ \E v \in unfinished'[u] : n < v
    <3>1. /\ UNCHANGED password
          /\ unfinished' = [unfinished EXCEPT ![u] = {v \in @ : v > n}]
      BY <2>5 DEF DeleteAdminSessionsByUsername, Revoked
    <3>2. unfinished'[u] = {v \in unfinished[u] : v > n}
      BY <1>1, <2>1, <3>1
    <3>3. \A v \in unfinished[u] : v \in Nat
      BY <1>1, <2>1
    <3>4. (\E v \in unfinished[u] : n < v) => \E v \in unfinished'[u] : n < v
      BY <2>1, <3>2, <3>3
    <3>5. QED BY <2>1, <3>1, <3>4 DEF Stands
  <2>6. CASE \A i \in Requests : /\ DeleteAdminUser(i) => request[i].name # u
                                 /\ DeleteAdminSessionsByUsername(i) => request[i].user # u
    <3>1. n = password'[u] \/ o \/ \E v \in unfinished'[u] : n < v
      <4> HIDE DEF u, n, o
      <4>1. QED BY <2>1, <2>6, StandsStill
    <3>2. QED BY <1>2, <1>1, <2>1, <2>2, <3>1
  <2>7. ASSUME ~(\A i \in Requests : /\ DeleteAdminUser(i) => request[i].name # u
                                     /\ DeleteAdminSessionsByUsername(i) => request[i].user # u)
        PROVE  request'[j].overtaken \/ n = password'[u] \/ o \/ \E v \in unfinished'[u] : n < v
    <3> HIDE DEF u, n, o
    <3>1. \/ \E i \in Requests : DeleteAdminUser(i) /\ request[i].name = u
          \/ \E i \in Requests : i # j /\ DeleteAdminSessionsByUsername(i) /\ request[i].user = u
          \/ \E i \in Requests : i = j /\ DeleteAdminSessionsByUsername(i)
      BY <2>7
    <3>2. QED BY <2>3, <2>4, <2>5, <3>1
  <2>8. n <= latest'
    BY <1>1, <1>2, <2>1
  <2>9. QED BY <2>1, <2>2, <2>6, <2>7, <2>8
<1>4. CASE Checks(j)
  <2>1. password' = password /\ latest' = latest /\ request'[j].user \in Names
    BY <1>4 DEF Checks, serverVars
  <2>2. request'[j].version = password[request'[j].user] /\ request'[j].version # 0
    BY <1>4 DEF Checks
  <2>3. QED BY <1>1, <2>1, <2>2
<1>5. CASE Sets(j)
  <2>1. /\ request'[j].user \in Names /\ request'[j].version = latest + 1
        /\ latest' = latest + 1
        /\ password' = [password EXCEPT ![request'[j].user] = latest + 1]
    BY <1>5 DEF Sets
  <2>2. password'[request'[j].user] = latest + 1
    BY <1>1, <2>1
  <2>3. QED BY <1>1, <2>1, <2>2
<1>6. QED BY <1>3, <1>4, <1>5, BetweenSteps

(***************************************************************************)
(* Sessions.                                                               *)
(***************************************************************************)

\* A request whose time to make a session is over does not make another.
LEMMA SessionlessSteps ==
    ASSUME TypeOK, RequestsOK, NumbersLeft, [Next]_vars,
           NEW j \in Requests, j <= sent, ~Sessionless(j)
    PROVE  ~(Sessionless(j))'
<1>1. request \in [Requests -> Request] /\ sent \in 0 .. MaxRequests /\ MaxRequests \in Nat
  BY AccessAssumption DEF TypeOK
<1>2. ASSUME request'[j].pc = request[j].pc, request'[j].kind = request[j].kind
      PROVE  ~(Sessionless(j))'
  BY <1>2 DEF Sessionless
<1>3. CASE \E b \in Browsers : Pages(b)
  <2>1. request'[j] = request[j]
    BY <1>1, <1>3, PagesSend DEF IsSent, Requests
  <2>2. QED BY <1>2, <2>1
<1>4. ASSUME NEW i \in Requests, i # j, Login(i) \/ Manage(i) PROVE ~(Sessionless(j))'
  BY <1>1, <1>2, <1>4, ServerSteps DEF Request
<1>5. CASE Login(j) \/ Manage(j)
  <2>1. request'[j].kind = request[j].kind
    BY <1>5, ServerSteps
  <2>2. CASE request[j].kind \notin {"login", "change"}
    BY <2>1, <2>2 DEF Sessionless
  <2>3. CASE request[j].kind \in {"login", "change"}
    <3>1. Fail(j)
      BY <1>5, <2>3
      DEF Login, Manage, RecordLoginAttempt, RefuseLogin, AllowLogin, CheckPassword,
          MarkLoginAttemptSucceeded, RequireAdmin, ListAdminUsers, CreateAdminUser, LockUsers,
          CountUsers, DeleteAdminUser, CheckCurrentPassword, UpdateAdminUserPassword,
          DeleteAdminSessionsByUsername, Revoked, CreateAdminSession, DeleteAdminSession,
          Sessionless, At
    <3>2. request'[j].pc = "refused"
      BY <1>1, <3>1 DEF Fail, Goes, Request
    <3>3. QED BY <3>2 DEF Sessionless
  <2>4. QED BY <2>2, <2>3
<1>6. ASSUME NEW i \in Requests, Answers(i) PROVE ~(Sessionless(j))'
  <2>1. CASE i = j
    BY <1>1, <1>6, <2>1, AnswersEnd, IdleIsRequest DEF Sessionless
  <2>2. CASE i # j
    BY <1>1, <1>2, <1>6, <2>2, AnswersEnd
  <2>3. QED BY <2>1, <2>2
<1>7. CASE SessionExpires \/ UNCHANGED vars
  BY <1>2, <1>7 DEF SessionExpires, vars
<1>8. QED BY <1>3, <1>4, <1>5, <1>6, <1>7 DEF Next

\* What a session that stays is worth: its user is there, and it rests on what it may.
LEMMA SessionsThatStay ==
    ASSUME TypeOK, RequestsOK, NumbersLeft, OldPasswordIsOut, [Next]_vars,
           NEW s \in sessions, s \in sessions'
    PROVE  /\ password'[s.user] # 0 /\ s.version # 0 /\ s.version <= latest'
           /\ \/ s.version = password'[s.user]
              \/ s.overtaken
              \/ \E v \in unfinished'[s.user] : s.version < v
<1>1. /\ password \in [Names -> Passwords]
      /\ latest \in Nat /\ latest' \in Nat /\ latest' >= latest
      /\ s.user \in Names /\ s.version \in Nat
      /\ password[s.user] # 0 /\ s.version # 0 /\ s.version <= latest
  BY PasswordsTyped, AccessAssumption DEF TypeOK, Passwords, Sessions
<1>2. password'[s.user] # 0
  <2>1. CASE UNCHANGED <<password, latest>>
    BY <1>1, <2>1
  <2>2. CASE \E u \in Names : password' = [password EXCEPT ![u] = latest + 1]
    BY <1>1, <2>2
  <2>3. ASSUME NEW i \in Requests, DeleteAdminUser(i),
               password' = [password EXCEPT ![request[i].name] = 0]
        PROVE  password'[s.user] # 0
    <3>1. s.user # request[i].name
      BY <2>3 DEF DeleteAdminUser
    <3>2. QED BY <1>1, <2>3, <3>1
  <2>4. QED BY <2>1, <2>2, <2>3, PasswordSteps
<1>3. \A i \in Requests : /\ DeleteAdminUser(i) => request[i].name # s.user
                          /\ DeleteAdminSessionsByUsername(i) => request[i].user # s.user
  BY DEF DeleteAdminUser, DeleteAdminSessionsByUsername
<1>4. Stands(s.user, s.version, s.overtaken)
  BY DEF OldPasswordIsOut, Stands
<1>5. \/ s.version = password'[s.user]
      \/ s.overtaken
      \/ \E v \in unfinished'[s.user] : s.version < v
  BY <1>1, <1>3, <1>4, StandsStill
<1>6. s.version <= latest'
  BY <1>1
<1>7. QED BY <1>1, <1>2, <1>5, <1>6

\* The session a request makes.
LEMMA NewSession ==
    ASSUME TypeOK, RequestsOK, SessionsOfOldRequests, VersionsOK,
           NEW i \in Requests, CreateAdminSession(i), ~(sessions' \subseteq sessions)
    PROVE  \E s \in Sessions :
             /\ sessions' = sessions \cup {s}
             /\ s.id = i /\ i <= sent /\ ~(Sessionless(i))'
             /\ \A t \in sessions : t.id # i
             /\ password'[s.user] # 0 /\ s.version # 0 /\ s.version <= latest'
             /\ \/ s.version = password'[s.user]
                \/ s.overtaken
                \/ \E v \in unfinished'[s.user] : s.version < v
<1>1. request \in [Requests -> Request] /\ request[i] \in Request
  BY DEF TypeOK
<1>2. Between(i) /\ Sessionless(i)
  BY DEF CreateAdminSession, At, Between, Sessionless
<1>3. request[i].user \in Names /\ i <= sent
  <2>1. request[i].user \in Names /\ ~(i > sent)
    BY <1>2 DEF RequestsOK, Between
  <2>2. QED BY <2>1, AccessAssumption DEF TypeOK, Requests
<1> DEFINE s == [id |-> i, user |-> request[i].user, version |-> request[i].version,
                 overtaken |-> request[i].overtaken]
<1>4. /\ sessions' = sessions \cup {s} /\ password[request[i].user] # 0
      /\ UNCHANGED <<password, latest, unfinished>>
  BY DEF CreateAdminSession
<1>5. ~(Sessionless(i))'
  <2>1. request'[i].pc \in {"done", "refused"}
    BY <1>1 DEF CreateAdminSession, Goes, Request
  <2>2. QED BY <2>1 DEF Sessionless
<1>6. s \in Sessions
  BY <1>1, <1>3, RequestFacts DEF Sessions, Request
<1>7. \A t \in sessions : t.id # i
  BY <1>2 DEF SessionsOfOldRequests
<1>8. s.version # 0 /\ s.version <= latest /\ Stands(s.user, s.version, s.overtaken)
  BY <1>2 DEF VersionsOK
<1>9. QED BY <1>3, <1>4, <1>5, <1>6, <1>7, <1>8 DEF Stands

LEMMA SessionsStayOK ==
    ASSUME TypeOK, RequestsOK, NumbersLeft, SessionsOfOldRequests, VersionsOK,
           OldPasswordIsOut, [Next]_vars
    PROVE  /\ sessions' \subseteq Sessions
           /\ \A s \in sessions' : password'[s.user] # 0 /\ s.version # 0 /\ s.version <= latest'
           /\ \A s, t \in sessions' : s.id = t.id => s = t
           /\ SessionsOfOldRequests'
           /\ OldPasswordIsOut'
<1>1. /\ sessions \subseteq Sessions /\ \A s, t \in sessions : s.id = t.id => s = t
      /\ sent \in Nat /\ sent' \in Nat
  BY RequestsTyped, AccessAssumption DEF TypeOK
<1>2. sent' >= sent
  <2>1. CASE \E b \in Browsers : Pages(b)
    BY <1>1, <2>1, PagesSend DEF IsSent
  <2>2. CASE \E i \in Requests : Login(i) \/ Manage(i)
    BY <1>1, <2>2, ServerSteps
  <2>3. CASE \E i \in Requests : Answers(i)
    BY <1>1, <2>3, AnswersEnd
  <2>4. CASE SessionExpires \/ UNCHANGED vars
    BY <1>1, <2>4 DEF SessionExpires, vars
  <2>5. QED BY <2>1, <2>2, <2>3, <2>4 DEF Next
<1>3. ASSUME NEW s \in sessions, s.id \in Requests
      PROVE  s.id <= sent' /\ ~(Sessionless(s.id))'
  <2>1. s.id <= sent /\ ~Sessionless(s.id)
    BY <1>3 DEF SessionsOfOldRequests
  <2>2. ~(Sessionless(s.id))'
    BY <1>3, <2>1, SessionlessSteps
  <2>3. s.id \in Nat
    BY <1>3 DEF Requests
  <2>4. QED BY <1>1, <1>2, <2>1, <2>2, <2>3
<1>4. CASE sessions' \subseteq sessions
  BY <1>1, <1>3, <1>4, SessionsThatStay DEF SessionsOfOldRequests, OldPasswordIsOut
<1>5. ASSUME NEW i \in Requests, CreateAdminSession(i), ~(sessions' \subseteq sessions)
      PROVE  /\ sessions' \subseteq Sessions
             /\ \A s \in sessions' : password'[s.user] # 0 /\ s.version # 0 /\ s.version <= latest'
             /\ \A s, t \in sessions' : s.id = t.id => s = t
             /\ SessionsOfOldRequests'
             /\ OldPasswordIsOut'
  <2>1. PICK n \in Sessions :
             /\ sessions' = sessions \cup {n}
             /\ n.id = i /\ i <= sent /\ ~(Sessionless(i))'
             /\ \A t \in sessions : t.id # i
             /\ password'[n.user] # 0 /\ n.version # 0 /\ n.version <= latest'
             /\ \/ n.version = password'[n.user]
                \/ n.overtaken
                \/ \E v \in unfinished'[n.user] : n.version < v
    BY <1>5, NewSession
  <2>2. i <= sent'
    BY <1>1, <1>2, <2>1 DEF Requests
  <2>3. QED BY <1>1, <1>3, <2>1, <2>2, SessionsThatStay DEF SessionsOfOldRequests, OldPasswordIsOut
<1>6. QED BY <1>4, <1>5, Writers

(***************************************************************************)
(* Login attempts.                                                         *)
(***************************************************************************)

\* A login whose attempt is recorded and stands.
Counted(i) ==
    request[i].kind = "login" /\ request[i].pc \in {"recorded", "checking", "verified"}

LEMMA LoginMoves ==
    ASSUME TypeOK, RequestsOK, NEW i \in Requests, Login(i) \/ Manage(i)
    PROVE  /\ ~(At(i, "login", "sent"))'
           /\ (Counted(i))' => Counted(i) \/ RecordLoginAttempt(i)
           /\ (At(i, "login", "recorded"))' => RecordLoginAttempt(i)
<1> USE DEF At, Counted
<1>1. request \in [Requests -> Request] /\ request[i] \in Request
  BY DEF TypeOK
<1>2. request'[i].pc # "sent"
  BY PcSteps
<1>3. ASSUME NEW pc, Goes(i, pc)
      PROVE  request'[i].pc = pc /\ request'[i].kind = request[i].kind
  BY <1>1, <1>3 DEF Goes, Request
<1>4. CASE RecordLoginAttempt(i)
  BY <1>2, <1>4
<1>5. CASE RefuseLogin(i) \/ CreateAdminSession(i) \/ CreateAdminUser(i)
           \/ LockUsers(i) \/ CountUsers(i) \/ DeleteAdminSession(i)
           \/ Fail(i) \/ MarkLoginAttemptSucceeded(i)
  <2>1. \E pc \in {"refused", "done", "locked", "counted", "marked"} : Goes(i, pc)
    BY <1>5 DEF RefuseLogin, CreateAdminSession, MarkLoginAttemptSucceeded,
                CreateAdminUser, LockUsers, CountUsers, DeleteAdminSession, Fail
  <2>2. QED BY <1>2, <1>3, <2>1
<1>6. CASE AllowLogin(i)
  BY <1>2, <1>3, <1>6 DEF AllowLogin
<1>7. CASE CheckPassword(i)
  <2>1. request'[i].pc \in {"verified", "refused"}
    BY <1>1, <1>3, <1>7 DEF CheckPassword, Request
  <2>2. QED BY <1>7, <2>1 DEF CheckPassword
<1>8. CASE RequireAdmin(i)
  <2>1. request'[i].pc \in {"authorised", "unauthorised"}
    BY <1>1, <1>3, <1>8 DEF RequireAdmin, Request
  <2>2. QED BY <2>1
<1>9. CASE ListAdminUsers(i)
  <2>1. request'[i].pc = "done"
    BY <1>1, <1>9 DEF ListAdminUsers, Request
  <2>2. QED BY <2>1
<1>10. CASE CheckCurrentPassword(i)
  BY <1>2, <1>3, <1>10 DEF CheckCurrentPassword
<1>11. CASE UpdateAdminUserPassword(i)
  <2>1. request'[i].pc = "updated"
    BY <1>1, <1>11 DEF UpdateAdminUserPassword, Request
  <2>2. QED BY <2>1
<1>12. CASE DeleteAdminUser(i) \/ DeleteAdminSessionsByUsername(i)
  <2>1. request'[i].pc \in {"done", "refused", "revoked"}
    BY <1>12, Overtakers, Overtaking
  <2>2. QED BY <2>1
<1>13. QED BY <1>4, <1>5, <1>6, <1>7, <1>8, <1>9, <1>10, <1>11, <1>12 DEF Login, Manage

LEMMA LoginSteps ==
    ASSUME TypeOK, RequestsOK, NumbersLeft, [Next]_vars, NEW j \in Requests
    PROVE  /\ (At(j, "login", "sent"))' => j > sent \/ At(j, "login", "sent")
           /\ (Counted(j))' => Counted(j) \/ RecordLoginAttempt(j)
           /\ (At(j, "login", "recorded"))' =>
                \/ RecordLoginAttempt(j)
                \/ /\ At(j, "login", "recorded")
                   /\ request'[j].name = request[j].name
                   /\ request'[j].from = request[j].from
<1> USE DEF At, Counted
<1>1. request \in [Requests -> Request] /\ sent \in 0 .. MaxRequests /\ MaxRequests \in Nat
  BY AccessAssumption DEF TypeOK
<1>2. CASE /\ request'[j].pc = request[j].pc /\ request'[j].kind = request[j].kind
           /\ request'[j].name = request[j].name /\ request'[j].from = request[j].from
  BY <1>2
<1>3. ASSUME NEW b \in Browsers, Pages(b),
             request'[j] # request[j]
      PROVE  j > sent /\ request'[j].pc = "sent"
  BY <1>1, <1>3, PagesSend DEF IsSent, Requests
<1>4. ASSUME NEW i \in Requests, i # j, Login(i) \/ Manage(i)
      PROVE  /\ request'[j].pc = request[j].pc /\ request'[j].kind = request[j].kind
             /\ request'[j].name = request[j].name /\ request'[j].from = request[j].from
  BY <1>1, <1>4, ServerSteps DEF Request
<1>5. ASSUME NEW i \in Requests, Answers(i), request'[j] # request[j]
      PROVE  request'[j].kind = "none"
  BY <1>1, <1>5, AnswersEnd, IdleIsRequest
<1>6. CASE \E b \in Browsers : Pages(b)
  BY <1>2, <1>3, <1>6
<1>7. CASE \E i \in Requests : Login(i) \/ Manage(i)
  BY <1>2, <1>4, <1>7, LoginMoves
<1>8. CASE \E i \in Requests : Answers(i)
  BY <1>2, <1>5, <1>8
<1>9. CASE SessionExpires \/ UNCHANGED vars
  BY <1>2, <1>9 DEF SessionExpires, vars
<1>10. QED BY <1>6, <1>7, <1>8, <1>9 DEF Next

\* What a statement does to the attempts.
Records(i, n) ==
    /\ RecordLoginAttempt(i)
    /\ attempts' = attempts \cup {n}
    /\ n.id = i /\ i <= sent /\ \A a \in attempts : a.id # i
    /\ n.user = request[i].name /\ n.ip = IpOf[request[i].from] /\ ~n.success /\ ~n.checked

Refuses(i, o) ==
    /\ RefuseLogin(i)
    /\ o \in attempts /\ o.id = i
    /\ attempts' = attempts \ {o}

Replaces(i, o, n) ==
    /\ o \in attempts /\ o.id = i /\ n.id = i /\ n.user = o.user /\ n.ip = o.ip
    /\ attempts' = (attempts \ {o}) \cup {n}
    /\ \/ AllowLogin(i) /\ ~o.success /\ o.user = request[i].name /\ o.ip = IpOf[request[i].from]
       \/ MarkLoginAttemptSucceeded(i) /\ n.success

LEMMA OwnAttempts ==
    ASSUME TypeOK, AttemptsOK, NEW i \in Requests, Counted(i)
    PROVE  /\ OwnAttempt(i) \in attempts /\ OwnAttempt(i).id = i
           /\ At(i, "login", "recorded") =>
                /\ OwnAttempt(i).user = request[i].name
                /\ OwnAttempt(i).ip = IpOf[request[i].from]
                /\ ~OwnAttempt(i).success
<1>1. \E a \in attempts : a.id = i
  BY DEF AttemptsOK, Counted
<1>2. OwnAttempt(i) \in attempts /\ OwnAttempt(i).id = i
  BY <1>1 DEF OwnAttempt
<1>3. QED BY <1>2 DEF AttemptsOK

LEMMA AttemptSteps ==
    ASSUME TypeOK, RequestsOK, AttemptsOK, [Next]_vars
    PROVE  \/ UNCHANGED attempts
           \/ \E i \in Requests, n \in Attempts : Records(i, n)
           \/ \E i \in Requests, o \in attempts : Refuses(i, o)
           \/ \E i \in Requests, o \in attempts, n \in Attempts : Replaces(i, o, n)
<1>1. attempts \subseteq Attempts
  BY DEF TypeOK
<1>2. ASSUME NEW i \in Requests, RecordLoginAttempt(i)
      PROVE  \E n \in Attempts : Records(i, n)
  <2> DEFINE n == [id |-> i, user |-> request[i].name, ip |-> IpOf[request[i].from],
                   success |-> FALSE, checked |-> FALSE]
  <2>1. At(i, "login", "sent") /\ attempts' = attempts \cup {n}
    BY <1>2 DEF RecordLoginAttempt
  <2>2. request[i].name \in Names /\ ~(i > sent)
    BY <2>1 DEF RequestsOK, At
  <2>3. n \in Attempts
    BY <2>2, RequestFacts DEF Attempts
  <2>4. i <= sent
    BY <2>2, AccessAssumption DEF TypeOK, Requests
  <2>5. \A a \in attempts : a.id # i
    BY <2>1 DEF AttemptsOK
  <2>6. Records(i, n)
    BY <1>2, <2>1, <2>4, <2>5 DEF Records
  <2>7. QED BY <2>3, <2>6
<1>3. ASSUME NEW i \in Requests, RefuseLogin(i)
      PROVE  \E o \in attempts : Refuses(i, o)
  <2>1. OwnAttempt(i) \in attempts /\ OwnAttempt(i).id = i
    BY <1>3, OwnAttempts DEF RefuseLogin, At, Counted
  <2>2. Refuses(i, OwnAttempt(i))
    BY <1>3, <2>1 DEF RefuseLogin, Refuses
  <2>3. QED BY <2>1, <2>2
<1>4. ASSUME NEW i \in Requests, AllowLogin(i) \/ MarkLoginAttemptSucceeded(i)
      PROVE  \E o \in attempts, n \in Attempts : Replaces(i, o, n)
  <2> DEFINE o == OwnAttempt(i)
  <2>1. /\ o \in attempts /\ o.id = i
        /\ AllowLogin(i) =>
             o.user = request[i].name /\ o.ip = IpOf[request[i].from] /\ ~o.success
    BY <1>4, OwnAttempts DEF AllowLogin, MarkLoginAttemptSucceeded, At, Counted
  <2>2. o \in Attempts
    BY <1>1, <2>1
  <2>3. CASE AllowLogin(i)
    <3> DEFINE n == [o EXCEPT !.checked = TRUE]
    <3>1. n \in Attempts /\ n.id = i /\ n.user = o.user /\ n.ip = o.ip
      BY <2>1, <2>2 DEF Attempts
    <3>2. attempts' = (attempts \ {o}) \cup {n}
      BY <2>3 DEF AllowLogin
    <3> HIDE DEF n, o
    <3>3. Replaces(i, o, n)
      BY <2>1, <2>3, <3>1, <3>2 DEF Replaces
    <3>4. QED BY <2>1, <3>1, <3>3
  <2>4. CASE MarkLoginAttemptSucceeded(i)
    <3> DEFINE n == [o EXCEPT !.success = TRUE]
    <3>1. n \in Attempts /\ n.id = i /\ n.user = o.user /\ n.ip = o.ip /\ n.success
      BY <2>1, <2>2 DEF Attempts
    <3>2. attempts' = (attempts \ {o}) \cup {n}
      BY <2>4 DEF MarkLoginAttemptSucceeded
    <3> HIDE DEF n, o
    <3>3. Replaces(i, o, n)
      BY <2>1, <2>4, <3>1, <3>2 DEF Replaces
    <3>4. QED BY <2>1, <3>1, <3>3
  <2>5. QED BY <1>4, <2>3, <2>4
<1>5. QED BY <1>2, <1>3, <1>4, Writers

LEMMA SentGrows ==
    ASSUME TypeOK, RequestsOK, NumbersLeft, [Next]_vars
    PROVE  sent \in Nat /\ sent' \in Nat /\ sent' >= sent
<1>1. sent \in Nat /\ sent' \in Nat
  BY RequestsTyped, AccessAssumption DEF TypeOK
<1>2. CASE \E b \in Browsers : Pages(b)
  BY <1>1, <1>2, PagesSend DEF IsSent
<1>3. CASE \E i \in Requests : Login(i) \/ Manage(i)
  BY <1>1, <1>3, ServerSteps
<1>4. CASE \E i \in Requests : Answers(i)
  BY <1>1, <1>4, AnswersEnd
<1>5. CASE SessionExpires \/ UNCHANGED vars
  BY <1>1, <1>5 DEF SessionExpires, vars
<1>6. QED BY <1>1, <1>2, <1>3, <1>4, <1>5 DEF Next

LEMMA AttemptsTyped ==
    ASSUME TypeOK, RequestsOK, AttemptsOK, [Next]_vars
    PROVE  /\ attempts' \subseteq Attempts
           /\ \A a, b \in attempts' : a.id = b.id => a = b
           /\ IsFiniteSet(attempts')
<1>1. /\ attempts \subseteq Attempts /\ \A a, b \in attempts : a.id = b.id => a = b
      /\ IsFiniteSet(attempts)
  BY DEF TypeOK, AttemptsOK
<1>2. CASE UNCHANGED attempts
  BY <1>1, <1>2
<1>3. ASSUME NEW i \in Requests, NEW n \in Attempts, Records(i, n)
      PROVE  /\ attempts' \subseteq Attempts
             /\ \A a, b \in attempts' : a.id = b.id => a = b
             /\ IsFiniteSet(attempts')
  BY <1>1, <1>3, FS_AddElement DEF Records
<1>4. ASSUME NEW i \in Requests, NEW o \in attempts, Refuses(i, o)
      PROVE  /\ attempts' \subseteq Attempts
             /\ \A a, b \in attempts' : a.id = b.id => a = b
             /\ IsFiniteSet(attempts')
  BY <1>1, <1>4, FS_RemoveElement DEF Refuses
<1>5. ASSUME NEW i \in Requests, NEW o \in attempts, NEW n \in Attempts, Replaces(i, o, n)
      PROVE  /\ attempts' \subseteq Attempts
             /\ \A a, b \in attempts' : a.id = b.id => a = b
             /\ IsFiniteSet(attempts')
  <2>1. attempts' = (attempts \ {o}) \cup {n} /\ n.id = o.id
    BY <1>5 DEF Replaces
  <2>2. IsFiniteSet(attempts')
    BY <1>1, <2>1, FS_RemoveElement, FS_AddElement
  <2>3. QED BY <1>1, <2>1, <2>2
<1>6. QED BY <1>2, <1>3, <1>4, <1>5, AttemptSteps

LEMMA AttemptsStayOK ==
    ASSUME TypeOK, RequestsOK, NumbersLeft, AttemptsOK, [Next]_vars
    PROVE  AttemptsOK'
<1>1. /\ request \in [Requests -> Request] /\ attempts \subseteq Attempts
      /\ \A a, b \in attempts : a.id = b.id => a = b
      /\ Requests \subseteq Nat /\ \A a \in attempts : a.id \in Requests
  BY DEF TypeOK, Attempts, Requests
<1>2. \A i \in Requests, pc \in {"recorded", "checking", "refused", "marked"} :
        Goes(i, pc) => request'[i].pc = pc
  BY <1>1 DEF Goes, Request
<1>3. \A a \in attempts' :
        \/ a.id \in Requests /\ \E b \in attempts : b.id = a.id
        \/ a.id \in Requests /\ a.id <= sent /\ request'[a.id].pc = "recorded"
  BY <1>1, <1>2, AttemptSteps, ZenonT(60) DEF Records, Refuses, Replaces, RecordLoginAttempt
<1>4. ASSUME NEW a \in attempts' PROVE a.id <= sent' /\ ~(At(a.id, "login", "sent"))'
  <2>1. CASE \E b \in attempts : b.id = a.id
    <3>1. a.id \in Requests /\ a.id <= sent /\ ~At(a.id, "login", "sent")
      BY <1>1, <2>1 DEF AttemptsOK
    <3>2. PICK j \in Requests : j = a.id
      BY <3>1
    <3>3. ~(j > sent)
      BY <1>1, <3>1, <3>2, SentGrows
    <3>4. ~(At(j, "login", "sent"))'
      BY <3>1, <3>2, <3>3, LoginSteps
    <3>5. j <= sent'
      BY <1>1, <3>1, <3>2, SentGrows
    <3>6. QED BY <3>2, <3>4, <3>5
  <2>2. CASE a.id \in Requests /\ a.id <= sent /\ request'[a.id].pc = "recorded"
    <3>1. PICK j \in Requests : j = a.id
      BY <2>2
    <3>2. j <= sent'
      BY <1>1, <2>2, <3>1, SentGrows
    <3>3. ~(At(j, "login", "sent"))'
      BY <2>2, <3>1 DEF At
    <3>4. QED BY <3>1, <3>2, <3>3
  <2>3. QED BY <1>3, <2>1, <2>2
<1>5. ASSUME NEW j \in Requests, (Counted(j))' PROVE \E a \in attempts' : a.id = j
  <2>1. CASE RecordLoginAttempt(j)
    <3> DEFINE n == [id |-> j, user |-> request[j].name, ip |-> IpOf[request[j].from],
                     success |-> FALSE, checked |-> FALSE]
    <3>1. n \in attempts'
      BY <2>1 DEF RecordLoginAttempt
    <3>2. n.id = j
      OBVIOUS
    <3>3. QED BY <3>1, <3>2
  <2>2. CASE Counted(j)
    <3>1. PICK a \in attempts : a.id = j
      BY <2>2 DEF AttemptsOK, Counted
    <3>2. ~RefuseLogin(j)
      BY <1>2, <1>5 DEF RefuseLogin, Counted
    <3>3. \A i \in Requests, o \in attempts : Refuses(i, o) => a \in attempts'
      BY <3>1, <3>2 DEF Refuses
    <3>4. \A i \in Requests, o \in attempts, n \in Attempts :
            Replaces(i, o, n) => \E b \in attempts' : b.id = j
      BY <1>1, <3>1 DEF Replaces
    <3>5. QED BY <3>1, <3>3, <3>4, AttemptSteps DEF Records
  <2>3. QED BY <1>5, <2>1, <2>2, LoginSteps
<1>6. ASSUME NEW a \in attempts', (At(a.id, "login", "recorded"))'
      PROVE  /\ a.user = request'[a.id].name
             /\ a.ip = IpOf[request'[a.id].from]
             /\ ~a.success /\ ~a.checked
  <2> DEFINE j == a.id
  <2>1. j \in Requests /\ request'[j].pc = "recorded"
    BY <1>1, <1>3, <1>6 DEF At
  <2>2. ~AllowLogin(j) /\ ~MarkLoginAttemptSucceeded(j)
    BY <1>2, <2>1 DEF AllowLogin, MarkLoginAttemptSucceeded
  <2>3. CASE RecordLoginAttempt(j)
    <3>1. a = [id |-> j, user |-> request[j].name, ip |-> IpOf[request[j].from],
               success |-> FALSE, checked |-> FALSE]
      BY <1>1, <2>3 DEF RecordLoginAttempt, AttemptsOK
    <3>2. request'[j].name = request[j].name /\ request'[j].from = request[j].from
      BY <1>1, <2>1, <2>3 DEF RecordLoginAttempt, Goes, Request
    <3> HIDE DEF j
    <3>3. QED BY <3>1, <3>2 DEF j
  <2>4. CASE /\ At(j, "login", "recorded") /\ request'[j].name = request[j].name
             /\ request'[j].from = request[j].from
    <3>1. a \in attempts
      <4>1. \A i \in Requests, n \in Attempts : Records(i, n) => n # a
        BY <2>1, <2>4 DEF Records, RecordLoginAttempt, At
      <4>2. \A i \in Requests, o \in attempts, n \in Attempts : Replaces(i, o, n) => n # a
        BY <2>2 DEF Replaces
      <4>3. QED BY <4>1, <4>2, AttemptSteps DEF Records, Refuses, Replaces
    <3>2. QED BY <2>4, <3>1 DEF AttemptsOK
  <2>5. QED BY <1>6, <2>1, <2>3, <2>4, LoginSteps
<1>7. QED BY <1>4, <1>5, <1>6, AttemptsTyped DEF AttemptsOK, Counted

(***************************************************************************)
(* Guesses.                                                                *)
(***************************************************************************)

\* Exchanging a member of a set adds none.
LEMMA Exchange ==
    ASSUME NEW F, IsFiniteSet(F), NEW o \in F, NEW n, NEW G, G \subseteq (F \ {o}) \cup {n}
    PROVE  IsFiniteSet(G) /\ Cardinality(G) <= Cardinality(F)
<1> DEFINE S == F \ {o}
           T == S \cup {n}
<1>1. IsFiniteSet(S) /\ Cardinality(S) = Cardinality(F) - 1 /\ G \subseteq T
  BY FS_RemoveElement
<1> HIDE DEF S
<1>2. Cardinality(S) \in Nat /\ Cardinality(F) \in Nat
  BY <1>1, FS_CardinalityType
<1>3. IsFiniteSet(T) /\ Cardinality(T) \in {Cardinality(S), Cardinality(S) + 1}
  BY <1>1, FS_AddElement
<1> HIDE DEF T
<1>4. IsFiniteSet(G) /\ Cardinality(G) <= Cardinality(T)
  BY <1>1, <1>3, FS_Subset
<1>5. Cardinality(G) \in Nat
  BY <1>4, FS_CardinalityType
<1>6. QED BY <1>1, <1>2, <1>3, <1>4, <1>5

\* The guesses of one class of attempts: a request allowed past the limit check is the
\* only one that adds to them, and the failed attempts of its class were within the limit.
GuessesOf(F) == {a \in F : a.checked}

LEMMA GuessesOfOneClass ==
    ASSUME TypeOK, AttemptsOK, NEW F, NEW Fn, F \subseteq Failed, Fn \subseteq Failed',
           Cardinality(GuessesOf(F)) <= loginRateLimitMax,
           \/ UNCHANGED attempts /\ Fn = F
           \/ \E i \in Requests, n \in Attempts : Records(i, n) /\ Fn \subseteq F \cup {n}
           \/ \E i \in Requests, o \in attempts : Refuses(i, o) /\ Fn \subseteq F
           \/ \E i \in Requests, o \in attempts, n \in Attempts :
                /\ Replaces(i, o, n)
                /\ \/ Fn \subseteq F
                   \/ /\ o \in F /\ Fn \subseteq (F \ {o}) \cup {n}
                      /\ Cardinality(F) <= loginRateLimitMax
    PROVE  Cardinality(GuessesOf(Fn)) <= loginRateLimitMax
<1>1. IsFiniteSet(F) /\ loginRateLimitMax \in Nat
  <2>1. F \subseteq attempts
    BY DEF Failed
  <2>2. QED BY <2>1, AccessAssumption, FS_Subset DEF AttemptsOK
<1>2. IsFiniteSet(GuessesOf(F)) /\ Cardinality(GuessesOf(F)) \in Nat /\ Cardinality(F) \in Nat
  BY <1>1, FS_Subset, FS_CardinalityType DEF GuessesOf
<1>3. ASSUME GuessesOf(Fn) \subseteq GuessesOf(F)
      PROVE  Cardinality(GuessesOf(Fn)) <= loginRateLimitMax
  <2>1. Cardinality(GuessesOf(Fn)) <= Cardinality(GuessesOf(F))
        /\ Cardinality(GuessesOf(Fn)) \in Nat
    BY <1>2, <1>3, FS_Subset, FS_CardinalityType
  <2>2. QED BY <1>1, <1>2, <2>1
<1>4. CASE Fn \subseteq F
  BY <1>3, <1>4 DEF GuessesOf
<1>5. ASSUME NEW i \in Requests, NEW n \in Attempts, Records(i, n), Fn \subseteq F \cup {n}
      PROVE  Cardinality(GuessesOf(Fn)) <= loginRateLimitMax
  BY <1>3, <1>5 DEF GuessesOf, Records
<1>6. ASSUME NEW n, NEW o \in F, Fn \subseteq (F \ {o}) \cup {n},
             Cardinality(F) <= loginRateLimitMax
      PROVE  Cardinality(GuessesOf(Fn)) <= loginRateLimitMax
  <2>1. GuessesOf(Fn) \subseteq (F \ {o}) \cup {n}
    BY <1>6 DEF GuessesOf
  <2>2. IsFiniteSet(GuessesOf(Fn)) /\ Cardinality(GuessesOf(Fn)) <= Cardinality(F)
    BY <1>1, <2>1, Exchange
  <2>3. Cardinality(GuessesOf(Fn)) \in Nat
    BY <2>2, FS_CardinalityType
  <2>4. QED BY <1>1, <1>2, <1>6, <2>2, <2>3
<1>7. QED BY <1>4, <1>5, <1>6

LEMMA GuessesStayBounded ==
    ASSUME TypeOK, RequestsOK, AttemptsOK, GuessesAreBounded, [Next]_vars
    PROVE  GuessesAreBounded'
<1> USE DEF Failed
<1>1. \A F : F \subseteq attempts => Cardinality(F) \in Nat /\ loginRateLimitMax \in Nat
  BY AccessAssumption, FS_Subset, FS_CardinalityType DEF AttemptsOK
<1>2. ASSUME NEW u \in Names
      PROVE  Cardinality({a \in (FailedByUsername(u))' : a.checked}) <= loginRateLimitMax
  <2> DEFINE F == FailedByUsername(u)
             Fn == (FailedByUsername(u))'
  <2>1. F = {a \in attempts : ~a.success /\ a.user = u}
        /\ Fn = {a \in attempts' : ~a.success /\ a.user = u}
    BY DEF FailedByUsername
  <2>2. Cardinality(GuessesOf(F)) <= loginRateLimitMax
    BY DEF GuessesAreBounded, GuessesOf
  <2>3. ASSUME NEW i \in Requests, NEW o \in attempts, NEW n \in Attempts, Replaces(i, o, n)
        PROVE  \/ Fn \subseteq F
               \/ o \in F /\ Fn \subseteq (F \ {o}) \cup {n} /\ Cardinality(F) <= loginRateLimitMax
    <3>1. CASE MarkLoginAttemptSucceeded(i) /\ n.success
      BY <2>1, <2>3, <3>1 DEF Replaces
    <3>2. CASE o.user # u
      BY <2>1, <2>3, <3>2 DEF Replaces
    <3>3. CASE AllowLogin(i) /\ ~o.success /\ o.user = request[i].name /\ o.user = u
      <4>1. ~(Cardinality(F) > loginRateLimitMax)
        BY <3>3 DEF AllowLogin, TooMany
      <4>2. Cardinality(F) <= loginRateLimitMax
        BY <1>1, <2>1, <4>1
      <4>3. QED BY <2>1, <2>3, <3>3, <4>2 DEF Replaces
    <3>4. QED BY <2>3, <3>1, <3>2, <3>3 DEF Replaces
  <2>4. UNCHANGED attempts => Fn = F
    BY <2>1
  <2>5. \A i \in Requests, n \in Attempts : Records(i, n) => Fn \subseteq F \cup {n}
    BY <2>1 DEF Records
  <2>6. \A i \in Requests, o \in attempts : Refuses(i, o) => Fn \subseteq F
    BY <2>1 DEF Refuses
  <2>7. F \subseteq Failed /\ Fn \subseteq Failed'
    BY <2>1
  <2> HIDE DEF F, Fn
  <2>8. Cardinality(GuessesOf(Fn)) <= loginRateLimitMax
    BY <2>2, <2>3, <2>4, <2>5, <2>6, <2>7, AttemptSteps, GuessesOfOneClass
  <2>9. QED BY <2>8 DEF GuessesOf, Fn
<1>3. ASSUME NEW b \in Browsers
      PROVE  Cardinality({a \in (FailedByIp(IpOf[b]))' : a.checked}) <= loginRateLimitMax
  <2> DEFINE F == FailedByIp(IpOf[b])
             Fn == (FailedByIp(IpOf[b]))'
  <2>1. F = {a \in attempts : ~a.success /\ a.ip = IpOf[b]}
        /\ Fn = {a \in attempts' : ~a.success /\ a.ip = IpOf[b]}
    BY DEF FailedByIp
  <2>2. Cardinality(GuessesOf(F)) <= loginRateLimitMax
    BY DEF GuessesAreBounded, GuessesOf
  <2>3. ASSUME NEW i \in Requests, NEW o \in attempts, NEW n \in Attempts, Replaces(i, o, n)
        PROVE  \/ Fn \subseteq F
               \/ o \in F /\ Fn \subseteq (F \ {o}) \cup {n} /\ Cardinality(F) <= loginRateLimitMax
    <3>1. CASE MarkLoginAttemptSucceeded(i) /\ n.success
      BY <2>1, <2>3, <3>1 DEF Replaces
    <3>2. CASE o.ip # IpOf[b]
      BY <2>1, <2>3, <3>2 DEF Replaces
    <3>3. CASE AllowLogin(i) /\ ~o.success /\ o.ip = IpOf[request[i].from] /\ o.ip = IpOf[b]
      <4>1. ~(Cardinality(F) > loginRateLimitMax)
        BY <3>3 DEF AllowLogin, TooMany
      <4>2. Cardinality(F) <= loginRateLimitMax
        BY <1>1, <2>1, <4>1
      <4>3. QED BY <2>1, <2>3, <3>3, <4>2 DEF Replaces
    <3>4. QED BY <2>3, <3>1, <3>2, <3>3 DEF Replaces
  <2>4. UNCHANGED attempts => Fn = F
    BY <2>1
  <2>5. \A i \in Requests, n \in Attempts : Records(i, n) => Fn \subseteq F \cup {n}
    BY <2>1 DEF Records
  <2>6. \A i \in Requests, o \in attempts : Refuses(i, o) => Fn \subseteq F
    BY <2>1 DEF Refuses
  <2>7. F \subseteq Failed /\ Fn \subseteq Failed'
    BY <2>1
  <2> HIDE DEF F, Fn
  <2>8. Cardinality(GuessesOf(Fn)) <= loginRateLimitMax
    BY <2>2, <2>3, <2>4, <2>5, <2>6, <2>7, AttemptSteps, GuessesOfOneClass
  <2>9. QED BY <2>8 DEF GuessesOf, Fn
<1>4. QED BY <1>2, <1>3 DEF GuessesAreBounded

(***************************************************************************)
(* The theorems.                                                           *)
(***************************************************************************)
LEMMA InitInv == Init => AccessInv
<1> SUFFICES ASSUME Init PROVE AccessInv
  OBVIOUS
<1>1. /\ 0 \in Passwords /\ 1 \in Passwords /\ 0 \in 0 .. MaxRequests /\ MaxRequests \in Nat
      /\ \A b \in Browsers : b \in SessionIds /\ b \notin Requests
  BY AccessAssumption DEF Passwords, SessionIds, Requests
<1>2. PICK others \in SUBSET Names :
        password = [u \in Names |-> IF u \in others \cup {First} THEN 1 ELSE 0]
  BY DEF Init
<1>3. /\ password \in [Names -> Passwords] /\ password[First] = 1
      /\ \A u \in Names : password[u] \in {0, 1}
      /\ latest = 1 /\ Users \subseteq Names /\ First \in Users
  BY <1>1, <1>2, AccessAssumption DEF Init, Users
<1>4. PICK user \in [Browsers -> Users \cup {NoName}] :
         LET in == {b \in Browsers : user[b] # NoName}
         IN  /\ sessions = {[id |-> b, user |-> user[b], version |-> 1, overtaken |-> FALSE] : b \in in}
             /\ browser = [b \in Browsers |->
                   IF b \in in THEN [Showing(user[b]) EXCEPT !.cookie = b] ELSE LoggedOut]
  BY DEF Init
<1>5. \A b \in Browsers : user[b] # NoName => user[b] \in Users /\ user[b] \in Names
  BY <1>3, <1>4
<1>6. /\ sessions \subseteq Sessions
      /\ \A s \in sessions : s.id \in Browsers /\ password[s.user] # 0 /\ s.version = 1
      /\ \A s, t \in sessions : s.id = t.id => s = t
  <2> DEFINE S(b) == [id |-> b, user |-> user[b], version |-> 1, overtaken |-> FALSE]
  <2>1. \A s \in sessions : \E b \in Browsers : user[b] # NoName /\ s = S(b)
    BY <1>4
  <2>2. ASSUME NEW b \in Browsers, user[b] # NoName
        PROVE  /\ S(b) \in Sessions /\ S(b).id = b /\ S(b).user = user[b] /\ S(b).version = 1
               /\ password[user[b]] # 0
    BY <1>1, <1>5, <2>2 DEF Sessions, Users
  <2> HIDE DEF S
  <2>3. QED BY <2>1, <2>2
<1>7. browser \in [Browsers -> Browser]
  <2>1. ASSUME NEW b \in Browsers, user[b] # NoName
        PROVE  [Showing(user[b]) EXCEPT !.cookie = b] \in Browser
    BY <1>1, <1>3, <1>5, <2>1 DEF Showing, Browser
  <2>2. LoggedOut \in Browser
    BY DEF LoggedOut, Browser
  <2>3. QED BY <1>4, <2>1, <2>2
<1>8. /\ attempts = {} /\ lock = 0 /\ request = [i \in Requests |-> Idle] /\ sent = 0
      /\ unfinished = [u \in Names |-> {}]
  BY DEF Init
<1>9. request \in [Requests -> Request] /\ \A i \in Requests : request[i].kind = "none"
  BY <1>8, IdleIsRequest
<1>10. TypeOK
  BY <1>1, <1>3, <1>6, <1>7, <1>8, <1>9 DEF TypeOK
<1>11. RequestsOK /\ LocksOK
  BY <1>9 DEF RequestsOK, LocksOK, Between, At
<1>12. NumbersLeft
  <2>1. Pending = {}
    BY <1>9 DEF Pending, Pends
  <2>2. QED BY <1>3, <1>8, <2>1, FS_EmptySet DEF NumbersLeft
<1>13. SessionsOfOldRequests
  BY <1>1, <1>6 DEF SessionsOfOldRequests
<1>14. AttemptsOK
  BY <1>8, <1>9, FS_EmptySet DEF AttemptsOK
<1>15. VersionsOK /\ OldPasswordIsOut
  <2>1. \A s \in sessions : s.user \in Names /\ s.version = 1 /\ password[s.user] # 0
    BY <1>6 DEF Sessions
  <2>2. \A s \in sessions : s.version = password[s.user]
    BY <1>3, <2>1
  <2>3. QED BY <1>9, <2>2 DEF VersionsOK, OldPasswordIsOut, Between
<1>16. AnAdminRemains
  BY <1>3 DEF AnAdminRemains
<1>17. GuessesAreBounded
  <2>1. Failed = {}
    BY <1>8 DEF Failed
  <2>2. Cardinality({}) = 0 /\ loginRateLimitMax \in Nat
    BY FS_EmptySet, AccessAssumption
  <2>3. ASSUME NEW u \in Names
        PROVE  {a \in FailedByUsername(u) : a.checked} = {}
    BY <2>1 DEF FailedByUsername
  <2>4. ASSUME NEW b \in Browsers
        PROVE  {a \in FailedByIp(IpOf[b]) : a.checked} = {}
    BY <2>1 DEF FailedByIp
  <2>5. 0 <= loginRateLimitMax
    BY <2>2
  <2>6. \A u \in Names :
          Cardinality({a \in FailedByUsername(u) : a.checked}) <= loginRateLimitMax
    BY <2>2, <2>3, <2>5
  <2>7. \A b \in Browsers :
          Cardinality({a \in FailedByIp(IpOf[b]) : a.checked}) <= loginRateLimitMax
    BY <2>2, <2>4, <2>5
  <2>8. QED BY <2>6, <2>7 DEF GuessesAreBounded
<1>18. QED BY <1>10, <1>11, <1>12, <1>13, <1>14, <1>15, <1>16, <1>17 DEF AccessInv

LEMMA NextInv == AccessInv /\ [Next]_vars => AccessInv'
<1> SUFFICES ASSUME AccessInv, [Next]_vars PROVE AccessInv'
  OBVIOUS
<1>1. /\ TypeOK /\ RequestsOK /\ NumbersLeft /\ SessionsOfOldRequests /\ AttemptsOK
      /\ LocksOK /\ VersionsOK /\ AnAdminRemains /\ OldPasswordIsOut /\ GuessesAreBounded
  BY DEF AccessInv
<1>2. TypeOK'
  BY <1>1, PasswordsTyped, SessionsStayOK, AttemptsTyped, LocksStayOK, RequestsTyped,
     PagesTyped, UnfinishedTyped DEF TypeOK
<1>3. RequestsOK' /\ NumbersLeft'
  BY <1>1, RequestsStayOK, NumbersStayLeft
<1>4. SessionsOfOldRequests' /\ OldPasswordIsOut'
  BY <1>1, SessionsStayOK
<1>5. AttemptsOK' /\ GuessesAreBounded'
  BY <1>1, AttemptsStayOK, GuessesStayBounded
<1>6. LocksOK' /\ AnAdminRemains'
  BY <1>1, LocksStayOK, AnAdminStays
<1>7. VersionsOK'
  BY <1>1, VersionsStayOK
<1>8. QED BY <1>2, <1>3, <1>4, <1>5, <1>6, <1>7 DEF AccessInv

LEMMA AccessInvariant == Spec => []AccessInv
BY InitInv, NextInv, PTL DEF Spec

\* Every reachable state is type-correct: session and attempt ids are unique, a session's
\* user exists, and password numbers suffice for the requests there are (the tables of
\* admin_users, admin_sessions and login_attempts and what their handlers hold).
THEOREM TypeCorrect == Spec => []TypeOK
<1>1. AccessInv => TypeOK
  BY DEF AccessInv
<1>2. QED BY <1>1, AccessInvariant, PTL

\* The last admin cannot be deleted, for any number of admins who delete one another at the
\* same time (DeleteAdminUser).
THEOREM TheLastAdminStays == Spec => []AnAdminRemains
<1>1. AccessInv => AnAdminRemains
  BY DEF AccessInv
<1>2. QED BY <1>1, AccessInvariant, PTL

\* For any users, browsers and requests, a session rests on its user's password as it is,
\* or was made by a request that a delete of that user's sessions fell into, or is older
\* than a change that has set its password and not deleted the sessions
\* (handleAdminChangePassword).
THEOREM OldPasswordsAreOut == Spec => []OldPasswordIsOut
<1>1. AccessInv => OldPasswordIsOut
  BY DEF AccessInv
<1>2. QED BY <1>1, AccessInvariant, PTL

\* In one window no username and no address gets more than loginRateLimitMax wrong
\* passwords checked, however many logins run at the same time (handleAdminLogin).
THEOREM GuessesStayRare == Spec => []GuessesAreBounded
<1>1. AccessInv => GuessesAreBounded
  BY DEF AccessInv
<1>2. QED BY <1>1, AccessInvariant, PTL

=============================================================================

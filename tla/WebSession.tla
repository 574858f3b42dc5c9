----------------------------- MODULE WebSession -----------------------------
(***************************************************************************)
(* One browser tab and the auth service: the interceptors of api-client.ts,*)
(* useAuthStore and its copy in localStorage, AuthGuard, the login page and*)
(* the sign-out button, composed with RefreshTokens (the calls a login or  *)
(* a refresh makes) and Gateway (what a request is answered).              *)
(*                                                                         *)
(* The requests are those any page may make through `apiClient`.  A        *)
(* request is a slot; it is also the name of the refresh call it makes.    *)
(* The cookies repeat localStorage and are read by nothing; role, profile  *)
(* and theme are left to the module Workspace.  The two tokens of a pair   *)
(* and its row share one number.                                           *)
(*                                                                         *)
(* Fifteen minutes may pass between any two steps, so any access token may *)
(* be found expired: a request remembers only whether its token was signed *)
(* by the service.                                                         *)
(*                                                                         *)
(* The login form sends a field `tenantId` that LoginUserDto has not, so   *)
(* with ForbidNonWhitelisted = TRUE, as in main.ts, no login of the form   *)
(* is accepted; FALSE is the deployment the documents describe.            *)
(***************************************************************************)
EXTENDS RefreshTokens

CONSTANTS Request,                \* slots for requests of the pages
          Login,                  \* the call the login form makes
          Routes,                 \* gateway routes the requests go to
          Roles,                  \* the employee's roles, as loginUser reads them
          Development,            \* NODE_ENV = 'development'
          ForbidNonWhitelisted

ASSUME SessionAssumption == /\ Call = Request \cup {Login} /\ Login \notin Request
                            /\ Development \in BOOLEAN
                            /\ ForbidNonWhitelisted \in BOOLEAN

VARIABLES store,         \* useAuthStore
          local,         \* localStorage
          isRefreshing,
          requests,      \* with failedQueue: the requests in state "queued"
          form,          \* the login form: "idle" or "loading"
          page           \* "public": sign-in and home; "private": the dashboard layout

clientVars == <<store, local, isRefreshing, requests, form, page>>
vars == <<rows, expired, calls, store, local, isRefreshing, requests, form, page>>

G == INSTANCE Gateway

ASSUME RoutesAssumption == Routes \subseteq G!Guarded

Maybe(S) == S \cup {None}
Settled == [state |-> "idle", signed |-> FALSE, retried |-> FALSE]
SignedOut == [access |-> None, refresh |-> None, tenant |-> FALSE, authenticated |-> FALSE]
Nothing == [access |-> None, refresh |-> None, tenant |-> FALSE]

TypeOK ==
    /\ AuthTypeOK
    /\ store \in [access : Maybe(Token), refresh : Maybe(Token), tenant : BOOLEAN, authenticated : BOOLEAN]
    /\ local \in [access : Maybe(Token), refresh : Maybe(Token), tenant : BOOLEAN]
    /\ isRefreshing \in BOOLEAN
    /\ requests \in [Request -> [state   : {"idle", "sent", "queued", "refreshing"},
                                 signed  : BOOLEAN,
                                 retried : BOOLEAN]]
    /\ form \in {"idle", "loading"}
    /\ page \in {"public", "private"}

Init == /\ AuthInit
        /\ store = SignedOut
        /\ local = Nothing
        /\ isRefreshing = FALSE
        /\ requests = [q \in Request |-> Settled]
        /\ form = "idle"
        /\ page = "public"

-----------------------------------------------------------------------------
\* The store.
SetAuth(access, refresh) ==
    /\ store' = [access |-> access, refresh |-> refresh, tenant |-> TRUE, authenticated |-> TRUE]
    /\ local' = [access |-> access, refresh |-> refresh, tenant |-> TRUE]

SetAccessToken_StoreOnly(access) == store' = [store EXCEPT !.access = access] /\ UNCHANGED local
SetAccessToken(access) ==
    /\ store' = [store EXCEPT !.access = access]
    /\ local' = [local EXCEPT !.access = access]

ClearAuth == store' = SignedOut /\ local' = Nothing

\* The request interceptor, and the refresh token the response interceptor reads.
Bearer == IF store.access # None THEN store.access ELSE local.access
HeldRefresh == IF store.refresh # None THEN store.refresh ELSE local.refresh

\* What loginUser signs into an access token: roles, and no permissions.  The
\* strategy finds no claims in a token that is missing, a mock, or expired.
Signed == [sub |-> "employee", tenantId |-> "tenant", roles |-> Roles, permissions |-> {}]
Claims(q) == {None} \cup (IF requests[q].signed THEN {Signed} ELSE {})

Statuses(q) ==
    {G!Status(route, claims, None, IF route \in DOMAIN G!Body THEN G!Body[route].required ELSE {}) :
        route \in Routes, claims \in Claims(q)}

-----------------------------------------------------------------------------
\* A page makes a request: the request interceptor attaches the token.
Send(q) ==
    /\ page = "private"
    /\ requests[q].state = "idle"
    /\ requests' = [requests EXCEPT ![q].state = "sent", ![q].signed = Bearer \in Row]
    /\ UNCHANGED <<rows, expired, calls, store, local, isRefreshing, form, page>>

\* An answer other than 401, of the gateway or of the service behind it, or none
\* at all: the promise is settled, and the slot is free again.
AnswerRequest(q) ==
    /\ requests[q].state = "sent"
    /\ Statuses(q) # {401}
    /\ requests' = [requests EXCEPT ![q] = Settled]
    /\ UNCHANGED <<rows, expired, calls, store, local, isRefreshing, form, page>>

NetworkError(q) ==
    /\ requests[q].state = "sent"
    /\ requests' = [requests EXCEPT ![q] = Settled]
    /\ UNCHANGED <<rows, expired, calls, store, local, isRefreshing, form, page>>

Unauthorized(q) == requests[q].state = "sent" /\ 401 \in Statuses(q)

\* The response interceptor gets a 401 ...
\* ... of a request that was sent again already,
RejectRetried(q) ==
    /\ Unauthorized(q)
    /\ requests[q].retried
    /\ requests' = [requests EXCEPT ![q] = Settled]
    /\ UNCHANGED <<rows, expired, calls, store, local, isRefreshing, form, page>>

\* ... while a refresh is on its way,
Enqueue(q) ==
    /\ Unauthorized(q)
    /\ ~requests[q].retried
    /\ isRefreshing
    /\ requests' = [requests EXCEPT ![q].state = "queued", ![q].signed = FALSE]
    /\ UNCHANGED <<rows, expired, calls, store, local, isRefreshing, form, page>>

\* ... with no refresh token left: the early return leaves isRefreshing set,
SignOutUnrefreshed(q) ==
    /\ Unauthorized(q)
    /\ ~requests[q].retried /\ ~isRefreshing
    /\ HeldRefresh = None
    /\ isRefreshing' = TRUE
    /\ ClearAuth
    /\ requests' = [requests EXCEPT ![q] = Settled]
    /\ UNCHANGED <<rows, expired, calls, form, page>>

\* A deviation: the flag is not set.
StartRefresh_Unflagged(q) ==
    /\ Unauthorized(q)
    /\ ~requests[q].retried /\ ~isRefreshing
    /\ HeldRefresh # None
    /\ ReceiveRefresh(q, HeldRefresh)
    /\ requests' = [requests EXCEPT ![q] = [state |-> "refreshing", signed |-> FALSE, retried |-> TRUE]]
    /\ UNCHANGED <<rows, expired, store, local, isRefreshing, form, page>>

\* ... or it posts the refresh.  (A slot whose earlier call still runs waits.)
StartRefresh(q) ==
    /\ Unauthorized(q)
    /\ ~requests[q].retried /\ ~isRefreshing
    /\ HeldRefresh # None
    /\ isRefreshing' = TRUE
    /\ ReceiveRefresh(q, HeldRefresh)
    /\ requests' = [requests EXCEPT ![q] = [state |-> "refreshing", signed |-> FALSE, retried |-> TRUE]]
    /\ UNCHANGED <<rows, expired, store, local, form, page>>

Waiting(q) == {q} \cup {p \in Request : requests[p].state = "queued"}

\* The refresh is answered: only the access token is kept, and the request and
\* the queued ones, which are not marked as retried, are sent again with it.
\* (The client also looks whether the answer has an access token; an answer of
\* this service always has.)
FinishRefresh(q) ==
    /\ requests[q].state = "refreshing" /\ calls[q].step = "answered"
    /\ SetAccessToken(calls[q].pair)
    /\ isRefreshing' = FALSE
    /\ requests' = [p \in Request |-> IF p \in Waiting(q)
                                      THEN [requests[p] EXCEPT !.state = "sent", !.signed = TRUE]
                                      ELSE requests[p]]
    /\ calls' = [calls EXCEPT ![q] = Idle]
    /\ UNCHANGED <<rows, expired, form, page>>

\* A deviation: the queue is not processed.
FailRefresh_KeepsQueue(q) ==
    /\ requests[q].state = "refreshing"
    /\ ClearAuth
    /\ isRefreshing' = FALSE
    /\ requests' = [requests EXCEPT ![q] = Settled]
    /\ UNCHANGED <<rows, expired, calls, form, page>>

\* The refresh is refused, fails, or its answer is lost while the call goes on.
FailRefresh(q) ==
    /\ requests[q].state = "refreshing"
    /\ ClearAuth
    /\ isRefreshing' = FALSE
    /\ requests' = [p \in Request |-> IF p \in Waiting(q) THEN Settled ELSE requests[p]]
    /\ \/ calls[q].step \in {"refused", "failed"} /\ calls' = [calls EXCEPT ![q] = Idle]
       \/ UNCHANGED calls
    /\ UNCHANGED <<rows, expired, form, page>>

-----------------------------------------------------------------------------
\* The login page: isLoading disables the button.
LoginForm == {"tenantId", "email", "password"}

SubmitLogin ==
    /\ page = "public" /\ form = "idle"
    /\ G!Status("login", None, None, LoginForm) = 200
    /\ form' = "loading"
    /\ LoginUser(Login)
    /\ UNCHANGED <<store, local, isRefreshing, requests, page>>

FinishLogin ==
    /\ form = "loading" /\ calls[Login].step = "answered"
    /\ SetAuth(calls[Login].pair, calls[Login].pair)
    /\ calls' = [calls EXCEPT ![Login] = Idle]
    /\ form' = "idle"
    /\ page' = "private"
    /\ UNCHANGED <<rows, expired, isRefreshing, requests>>

\* A deviation: the form stays in a state of its own.
FailLogin_ShowsError ==
    /\ form = "loading"
    /\ form' = "error"
    /\ UNCHANGED <<rows, expired, calls, store, local, isRefreshing, requests, page>>

\* An error answer is shown; with no answer at all a development build signs in
\* with two mock tokens.
FailLogin ==
    /\ form = "loading"
    /\ form' = "idle"
    /\ \/ /\ calls[Login].step = "failed"
          /\ calls' = [calls EXCEPT ![Login] = Idle]
          /\ UNCHANGED <<store, local, page>>
       \/ /\ UNCHANGED calls
          /\ IF Development
             THEN SetAuth(Mock, Mock) /\ page' = "private"
             ELSE UNCHANGED <<store, local, page>>
    /\ UNCHANGED <<rows, expired, isRefreshing, requests>>

\* The sign-out button of the Sidebar.
HandleLogout ==
    /\ page = "private"
    /\ ClearAuth
    /\ page' = "public"
    /\ UNCHANGED <<rows, expired, calls, isRefreshing, requests, form>>

\* A deviation: an access token is enough to take a session over.
Hydrate_AnyToken ==
    /\ page = "private"
    /\ local.access # None /\ ~store.authenticated
    /\ SetAuth(local.access, local.refresh)
    /\ UNCHANGED <<rows, expired, calls, isRefreshing, requests, form, page>>

\* AuthGuard's effect: take the session over from localStorage, or go to the
\* login page when there is no token.
Hydrate ==
    /\ page = "private"
    /\ local.access # None /\ local.tenant /\ ~store.authenticated
    /\ SetAuth(local.access, local.refresh)
    /\ UNCHANGED <<rows, expired, calls, isRefreshing, requests, form, page>>

RedirectToLogin ==
    /\ page = "private"
    /\ store.access = None /\ local.access = None
    /\ page' = "public"
    /\ UNCHANGED <<rows, expired, calls, store, local, isRefreshing, requests, form>>

\* A page is loaded anew: everything but localStorage starts again, and the
\* calls in progress go on with nobody waiting for them.
Reload ==
    /\ store' = SignedOut
    /\ isRefreshing' = FALSE
    /\ requests' = [q \in Request |-> Settled]
    /\ form' = "idle"
    /\ page' \in {"public", "private"}
    /\ UNCHANGED <<rows, expired, calls, local>>

Awaited(c) == IF c = Login THEN form = "loading" ELSE requests[c].state = "refreshing"

DropAnswer(c) ==
    /\ calls[c].step \in {"answered", "refused", "failed"}
    /\ ~Awaited(c)
    /\ calls' = [calls EXCEPT ![c] = Idle]
    /\ UNCHANGED <<rows, expired>> /\ UNCHANGED clientVars

\* The service goes on with a call.
AuthStep(c) ==
    /\ RefreshToken(c) \/ RevokeToken(c) \/ StoreRotated(c) \/ StoreLogin(c)
    /\ UNCHANGED clientVars

AuthFails(c) == Fail(c) /\ UNCHANGED clientVars

\* Seven days pass.
ExpireToken(r) == Expire(r) /\ UNCHANGED clientVars

Answer(q) == \/ AnswerRequest(q) \/ RejectRetried(q) \/ Enqueue(q) \/ SignOutUnrefreshed(q)
             \/ StartRefresh(q) \/ FinishRefresh(q)

Next == \/ \E q \in Request : Send(q) \/ Answer(q) \/ NetworkError(q) \/ FailRefresh(q)
        \/ \E c \in Call : AuthStep(c) \/ AuthFails(c) \/ DropAnswer(c)
        \/ SubmitLogin \/ FinishLogin \/ FailLogin \/ HandleLogout
        \/ Hydrate \/ RedirectToLogin \/ Reload
        \/ \E r \in Row : ExpireToken(r)

Spec == Init /\ [][Next]_vars

\* A request gets an answer, a refresh gets an answer or an error, the service
\* ends its calls.  (A call that finds no row left in the bound fails.)
Fairness ==
    /\ \A q \in Request :
        /\ WF_vars(Answer(q))
        /\ WF_vars(calls[q].step \in {"refused", "failed"} /\ FailRefresh(q))
    /\ \A c \in Call : /\ WF_vars(AuthStep(c))
                       /\ WF_vars(Stored = Row /\ AuthFails(c))
                       /\ WF_vars(DropAnswer(c))

FairSpec == Spec /\ Fairness

-----------------------------------------------------------------------------
\* A queued request waits behind the flag: a refresh that ends, in whatever
\* way, leaves no request in the queue behind.
QueueBehindFlag == (\E q \in Request : requests[q].state = "queued") => isRefreshing

\* Two requests of a page never refresh at once, whatever 401s come when.
OneRefreshAtATime ==
    \A p, q \in Request :
        requests[p].state = "refreshing" /\ requests[q].state = "refreshing" => p = q

\* Signed in means signed in everywhere: the store has all of a session and
\* localStorage the same, after every rotation, sign-out, reload and late answer.
SessionIsWhole ==
    store.authenticated =>
        /\ store.access # None /\ store.tenant
        /\ local = [access |-> store.access, refresh |-> store.refresh, tenant |-> TRUE]

\* Signed out means signed out: a tab is signed in by its login form, or from a
\* session that a login has left in localStorage in full.  The access token that
\* a refresh of the old session stores after the sign-out is never taken for one,
\* through whatever reloads follow.
SignedOutStaysOut ==
    [][~store.authenticated /\ store'.authenticated =>
          \/ form = "loading" /\ form' = "idle"
          \/ local.refresh # None /\ UNCHANGED local]_vars

\* A rotation stores a row only after it has revoked the one it replaces.
PredecessorRevoked ==
    \A r \in Stored : rows[r].replaces # None => rows[rows[r].replaces].status = "revoked"

\* A row was revoked and the call that did it stored no other.
Broken ==
    \E r \in Row : /\ rows[r].status = "revoked"
                   /\ \A s \in Row : rows[s].replaces # r
                   /\ \A c \in Call : ~(calls[c].step = "revoked" /\ calls[c].row = r)

\* The session of the tab has a row behind it, or a call about to store one,
\* unless a rotation failed between its two saves: however refreshes overlap
\* and reloads abandon them, only that failure loses the session's last row.
SessionBacked ==
    /\ store.refresh \in Row
    /\ ~Broken
    => \/ Active # {}
       \/ \E c \in Call : calls[c].step = "revoked"

\* The tab never stores the rotated refresh token and goes on presenting the one
\* it logged in with, whose own row is revoked by then.  No row is found for that
\* token only while another call is between its two writes, or once a call has
\* failed there: however calls overlap, the employee's last row is never one that
\* was replaced, and any unrevoked row will do.
GoodTokenAccepted ==
    [][\A c \in Call :
        /\ calls[c].step = "received" /\ calls'[c].step = "refused"
        /\ calls[c].token \in Row \ expired
        => Broken \/ \E k \in Call : calls[k].step = "revoked"]_vars

\* requirements.md, FR-FE-1.2: refresh rotation is handled seamlessly.
EveryRequestSettles ==
    \A q \in Request : requests[q].state \in {"sent", "queued", "refreshing"}
                           ~> requests[q].state = "idle"
=============================================================================

-------------------------- MODULE WebSession_proofs --------------------------
(***************************************************************************)
(* Proofs about WebSession and the RefreshTokens it is composed of, for    *)
(* any number of requests in flight, of rows and of overlapping calls.     *)
(*                                                                         *)
(* The invariant has two halves.  ServiceInv is about the rows and the     *)
(* calls of the auth service only; ClientInv about the tab.  A step is     *)
(* first classified by what it does to the service (Quiet, or one of four  *)
(* actions that concern rows), so that the many actions of the tab need no *)
(* case of their own in the proof about the service.                       *)
(***************************************************************************)
EXTENDS WebSession, TLAPS

\* A call holds stored rows only, was given a stored token or a mock, and has revoked
\* the row it is to replace.
CallsHoldRows ==
    \A c \in Call :
        /\ calls[c].step = "received" /\ calls[c].token \in Row => calls[c].token \in Stored
        /\ calls[c].step \in {"matched", "revoked"} => calls[c].row \in Stored
        /\ calls[c].step = "revoked" => rows[calls[c].row].status = "revoked"
        /\ calls[c].step = "answered" => calls[c].pair \in Stored

\* A row replaces an older one, which is revoked.
Replaces(r) ==
    rows[r].replaces # None =>
        /\ rows[r].replaces \in Row
        /\ rows[r].replaces < r
        /\ rows[r].status # "unused"
        /\ rows[rows[r].replaces].status = "revoked"

\* The rows are stored one after the other.
RowsInOrder == \E m \in 0..MaxRow : \A r \in Row : r \in Stored <=> r <= m

ServiceInv == /\ AuthTypeOK
              /\ CallsHoldRows
              /\ \A r \in Row : Replaces(r)
              /\ RowsInOrder

\* The refresh tokens of the tab were stored, unless they are mocks.
TokensStored == /\ store.refresh \in Row => store.refresh \in Stored
                /\ local.refresh \in Row => local.refresh \in Stored

\* localStorage has a refresh token whenever it has a tenant.
LocalIsWhole == local.tenant => local.refresh # None

\* Behind every refresh there is the flag.
RefreshBehindFlag == \A q \in Request : requests[q].state = "refreshing" => isRefreshing

ClientInv == /\ TypeOK
             /\ QueueBehindFlag
             /\ RefreshBehindFlag
             /\ OneRefreshAtATime
             /\ SessionIsWhole
             /\ TokensStored
             /\ LocalIsWhole

IInv == ServiceInv /\ ClientInv

-----------------------------------------------------------------------------
(* What a step does to the service.                                        *)

\* No row is touched, and a call that is touched holds no row afterwards and no
\* token but one of the tab.
Quiet == /\ UNCHANGED rows
         /\ expired' \subseteq Row
         /\ calls' \in [Call -> CallState]
         /\ \A c \in Call : \/ calls'[c] = calls[c]
                            \/ /\ calls'[c].step \notin {"matched", "revoked", "answered"}
                               /\ calls'[c].step = "received" =>
                                      calls'[c].token \in {store.refresh, local.refresh}

RowStep(c) == RefreshToken(c) \/ RevokeToken(c) \/ StoreLogin(c) \/ StoreRotated(c)

\* An idle, ended or received call is a call.
LEMMA CallStates ==
    ASSUME NEW token \in Token
    PROVE  /\ Idle \in CallState /\ Idle.step = "idle"
           /\ \A s \in {"refused", "failed"} :
                  /\ [Idle EXCEPT !.step = s] \in CallState
                  /\ [Idle EXCEPT !.step = s].step = s
BY DEF Idle, CallState, Token

\* Every step of the system is quiet for the service or one of the four actions
\* about rows.
LEMMA StepKinds ==
    ASSUME AuthTypeOK, store.refresh \in Maybe(Token), local.refresh \in Maybe(Token), [Next]_vars
    PROVE  Quiet \/ \E c \in Call : RowStep(c)
<1> USE SessionAssumption DEF AuthTypeOK
<1>1. CASE UNCHANGED vars
  BY <1>1 DEF vars, Quiet
<1>2. ASSUME NEW c \in Call, calls[c] \in CallState,
             \/ calls' = [calls EXCEPT ![c] = Idle]
             \/ \E s \in {"refused", "failed"} : calls' = Ended(c, s)
             \/ calls' = [calls EXCEPT ![c].step = "login"]
             \/ \E t \in Token : /\ t \in {store.refresh, local.refresh}
                                 /\ calls' = [calls EXCEPT ![c].step = "received", ![c].token = t],
             UNCHANGED rows, expired' \subseteq Row
      PROVE  Quiet
  BY <1>2 DEF Quiet, Ended, Idle, CallState
<1>3. ASSUME UNCHANGED calls, UNCHANGED rows, expired' \subseteq Row
      PROVE  Quiet
  BY <1>3 DEF Quiet
<1>4. ASSUME NEW q \in Request,
             Send(q) \/ Answer(q) \/ NetworkError(q) \/ FailRefresh(q)
      PROVE  Quiet
  <2> q \in Call
    OBVIOUS
  <2>1. CASE Send(q) \/ AnswerRequest(q) \/ RejectRetried(q) \/ Enqueue(q) \/ SignOutUnrefreshed(q)
             \/ NetworkError(q)
    BY <2>1, <1>3 DEF Send, AnswerRequest, RejectRetried, Enqueue, SignOutUnrefreshed, NetworkError
  <2>2. CASE StartRefresh(q)
    <3>1. HeldRefresh \in Token /\ HeldRefresh \in {store.refresh, local.refresh}
      BY <2>2 DEF StartRefresh, HeldRefresh, Maybe
    <3>2. QED
      BY <2>2, <3>1, <1>2 DEF StartRefresh, ReceiveRefresh
  <2>3. CASE FinishRefresh(q) \/ FailRefresh(q)
    BY <2>3, <1>2, <1>3 DEF FinishRefresh, FailRefresh
  <2>4. QED
    BY <1>4, <2>1, <2>2, <2>3 DEF Answer
<1>5. ASSUME NEW c \in Call, AuthFails(c) \/ DropAnswer(c)
      PROVE  Quiet
  BY <1>5, <1>2 DEF AuthFails, Fail, DropAnswer
<1>6. ASSUME NEW c \in Call, AuthStep(c)
      PROVE  RowStep(c)
  BY <1>6 DEF AuthStep, RowStep
<1>7. CASE SubmitLogin \/ FinishLogin \/ FailLogin
  <2> Login \in Call
    OBVIOUS
  <2>1. CASE SubmitLogin
    BY <2>1, <1>2 DEF SubmitLogin, LoginUser
  <2>2. CASE FinishLogin
    BY <2>2, <1>2 DEF FinishLogin
  <2>3. CASE FailLogin
    BY <2>3, <1>2, <1>3 DEF FailLogin
  <2>4. QED
    BY <1>7, <2>1, <2>2, <2>3
<1>8. CASE HandleLogout \/ Hydrate \/ RedirectToLogin \/ Reload
  BY <1>8, <1>3 DEF HandleLogout, Hydrate, RedirectToLogin, Reload
<1>9. ASSUME NEW r \in Row, ExpireToken(r)
      PROVE  Quiet
  BY <1>9, <1>3 DEF ExpireToken, Expire
<1>10. QED
  BY <1>1, <1>4, <1>5, <1>6, <1>7, <1>8, <1>9 DEF Next

-----------------------------------------------------------------------------
(* The service keeps its half of the invariant.                            *)

\* A step that touches no row and gives no call a row.
LEMMA QuietStep ==
    ASSUME ServiceInv, TokensStored, Quiet
    PROVE  ServiceInv' /\ Stored \subseteq Stored'
<1> USE DEF Quiet
<1>1. AuthTypeOK'
  BY DEF ServiceInv, AuthTypeOK
<1>2. Stored' = Stored
  BY DEF Stored
<1>3. CallsHoldRows'
  BY <1>2 DEF ServiceInv, CallsHoldRows, TokensStored
<1>4. \A r \in Row : Replaces(r)'
  BY DEF ServiceInv, Replaces
<1>5. RowsInOrder'
  BY <1>2 DEF ServiceInv, RowsInOrder
<1>6. QED
  BY <1>1, <1>2, <1>3, <1>4, <1>5 DEF ServiceInv

\* refreshToken reads the rows and takes a match, or refuses.
LEMMA RefreshTokenStep ==
    ASSUME NEW c \in Call, ServiceInv, RefreshToken(c)
    PROVE  ServiceInv' /\ Stored \subseteq Stored'
<1> USE DEF ServiceInv, RefreshToken
<1>1. PICK x \in CallState :
          /\ calls' = [calls EXCEPT ![c] = x]
          /\ x.step \in {"matched", "refused"}
          /\ x.step = "matched" => x.row \in Active
  <2> DEFINE Taken(r) == [Idle EXCEPT !.step = "matched", !.row = r]
             Refused == [Idle EXCEPT !.step = "refused"]
  <2>1. \/ \E r \in Active : calls' = [calls EXCEPT ![c] = Taken(r)]
        \/ calls' = [calls EXCEPT ![c] = Refused]
    BY Zenon DEF Ended
  <2>2. Refused \in CallState /\ Refused.step = "refused"
    BY DEF Idle, CallState
  <2>3. ASSUME NEW r \in Active
        PROVE  Taken(r) \in CallState /\ Taken(r).step = "matched" /\ Taken(r).row = r
    BY <2>3 DEF Active, Idle, CallState
  <2> HIDE DEF Taken, Refused
  <2>4. CASE calls' = [calls EXCEPT ![c] = Refused]
    BY <2>2, <2>4
  <2>5. ASSUME NEW r \in Active, calls' = [calls EXCEPT ![c] = Taken(r)]
        PROVE  \E x \in CallState : /\ calls' = [calls EXCEPT ![c] = x]
                                    /\ x.step \in {"matched", "refused"}
                                    /\ x.step = "matched" => x.row \in Active
    BY <2>3, <2>5
  <2>6. QED
    BY <2>1, <2>4, <2>5
<1>2. AuthTypeOK' /\ Stored' = Stored
  BY <1>1 DEF AuthTypeOK, Stored
<1>3. CallsHoldRows'
  BY <1>1, <1>2 DEF CallsHoldRows, AuthTypeOK, Active, Stored
<1>4. \A r \in Row : Replaces(r)'
  BY DEF Replaces
<1>5. QED
  BY <1>2, <1>3, <1>4 DEF RowsInOrder

\* The matched row is revoked before any other takes its place.
LEMMA RevokeTokenStep ==
    ASSUME NEW c \in Call, ServiceInv, TokensStored, RevokeToken(c)
    PROVE  ServiceInv' /\ Stored \subseteq Stored'
<1> USE DEF ServiceInv, RevokeToken
<1>1. calls[c].row \in Row /\ calls[c].row \in Stored
  BY DEF CallsHoldRows, Stored
<1>2. CASE calls[c].row \in expired
  <2>1. LET x == [Idle EXCEPT !.step = "refused"] IN x \in CallState /\ x.step = "refused"
    BY DEF Idle, CallState
  <2>2. Quiet
    BY <1>2, <2>1 DEF Quiet, Ended, AuthTypeOK
  <2>3. QED
    BY <2>2, QuietStep
<1>3. CASE calls[c].row \notin expired
  <2> DEFINE r0 == calls[c].row
  <2>1. /\ calls' = [calls EXCEPT ![c].step = "revoked"]
        /\ rows' = [rows EXCEPT ![r0].status = "revoked"]
        /\ expired' = expired
    BY <1>3
  <2>2. AuthTypeOK'
    BY <1>1, <2>1 DEF AuthTypeOK, CallState, RowState
  <2>3. /\ rows'[r0].status = "revoked"
        /\ \A r \in Row : /\ rows'[r].replaces = rows[r].replaces
                          /\ r # r0 => rows'[r] = rows[r]
    BY <1>1, <2>1 DEF AuthTypeOK, RowState
  <2>4. Stored' = Stored
    BY <1>1, <2>3 DEF Stored
  <2>5. CallsHoldRows'
    BY <1>1, <2>1, <2>3, <2>4 DEF CallsHoldRows, AuthTypeOK, CallState, Stored
  <2>6. \A r \in Row : Replaces(r)'
    BY <1>1, <2>3, <2>4 DEF Replaces, Stored
  <2>7. QED
    BY <2>2, <2>4, <2>5, <2>6 DEF RowsInOrder
<1>4. QED
  BY <1>2, <1>3

\* A pair is returned once its row is stored, the next in order.
LEMMA StoreStep ==
    ASSUME NEW c \in Call, ServiceInv, UNCHANGED expired, NEW old \in Row \cup {None}, Store(c, old),
           old # None => rows[old].status = "revoked"
    PROVE  ServiceInv' /\ Stored \subseteq Stored'
<1> USE DEF ServiceInv
<1> DEFINE New == [status |-> "active", replaces |-> old]
<1>1. PICK r \in Row \ Stored :
          /\ \A s \in Row \ Stored : r <= s
          /\ rows' = [rows EXCEPT ![r] = New]
          /\ calls' = [calls EXCEPT ![c] = [Idle EXCEPT !.step = "answered", !.pair = r]]
  BY DEF Store
<1>2. New \in RowState /\ New.status = "active" /\ New.replaces = old
  BY DEF RowState
<1>3. LET x == [Idle EXCEPT !.step = "answered", !.pair = r]
      IN  x \in CallState /\ x.step = "answered" /\ x.pair = r
  BY DEF Idle, CallState
<1>4. /\ rows'[r] = New
      /\ \A s \in Row : s # r => rows'[s] = rows[s]
  BY <1>1 DEF AuthTypeOK
<1> HIDE DEF New
<1>5. AuthTypeOK'
  BY <1>1, <1>2, <1>3 DEF AuthTypeOK
<1>6. Stored' = Stored \cup {r}
  BY <1>2, <1>4 DEF Stored
<1>7. rows[r].status = "unused" /\ r \in Nat
  BY TokenAssumption DEF Stored, Row
<1>8. CallsHoldRows'
  <2>1. ASSUME NEW d \in Call
        PROVE  /\ calls'[d].step = "received" /\ calls'[d].token \in Row =>
                      calls'[d].token \in Stored'
               /\ calls'[d].step \in {"matched", "revoked"} => calls'[d].row \in Stored'
               /\ calls'[d].step = "revoked" => rows'[calls'[d].row].status = "revoked"
               /\ calls'[d].step = "answered" => calls'[d].pair \in Stored'
    <3>1. CASE d = c
      BY <1>1, <1>3, <1>6, <3>1 DEF AuthTypeOK
    <3>2. CASE d # c
      <4>1. calls'[d] = calls[d]
        BY <1>1, <3>2 DEF AuthTypeOK
      <4>2. /\ calls[d].step = "received" /\ calls[d].token \in Row =>
                   calls[d].token \in Stored
            /\ calls[d].step \in {"matched", "revoked"} => calls[d].row \in Stored
            /\ calls[d].step = "revoked" => rows[calls[d].row].status = "revoked"
            /\ calls[d].step = "answered" => calls[d].pair \in Stored
        BY DEF CallsHoldRows
      <4>3. \A s \in Stored : s \in Stored' /\ rows'[s] = rows[s]
        BY <1>4, <1>6, <1>7 DEF Stored
      <4>4. QED
        BY <4>1, <4>2, <4>3
    <3>3. QED
      BY <3>1, <3>2
  <2>2. QED
    BY <2>1 DEF CallsHoldRows
<1>9. PICK m \in 0..MaxRow : \A s \in Row : s \in Stored <=> s <= m
  BY DEF RowsInOrder
<1>10. r = m + 1
  BY <1>1, <1>9, TokenAssumption DEF Row
<1>11. RowsInOrder'
  <2>1. m + 1 \in 0..MaxRow
    BY <1>10, TokenAssumption DEF Row
  <2>2. \A s \in Row : s \in Stored' <=> s <= m + 1
    BY <1>6, <1>9, <1>10, TokenAssumption DEF Row
  <2>3. QED
    BY <2>1, <2>2 DEF RowsInOrder
<1>12. ASSUME NEW s \in Row, rows'[s].replaces # None
      PROVE  /\ rows'[s].replaces \in Row
             /\ rows'[s].replaces < s
             /\ rows'[s].status # "unused"
             /\ rows'[rows'[s].replaces].status = "revoked"
  <2>1. CASE s = r
    <3>1. rows'[s].replaces = old /\ rows'[s].status = "active"
      BY <1>2, <1>4, <2>1
    <3>2. old \in Row /\ old \in Stored /\ old # r /\ rows[old].status = "revoked"
      BY <1>7, <1>12, <3>1 DEF Stored
    <3>3. old < r
      BY <3>2, <1>9, <1>10, TokenAssumption DEF Row
    <3>4. QED
      BY <1>4, <2>1, <3>1, <3>2, <3>3
  <2>2. CASE s # r
    <3>1. rows'[s] = rows[s]
      BY <1>4, <2>2
    <3>2. /\ rows[s].replaces \in Row /\ rows[s].replaces < s
          /\ rows[s].status # "unused"
          /\ rows[rows[s].replaces].status = "revoked"
      BY <1>12, <3>1 DEF Replaces
    <3>3. rows[s].replaces # r
      BY <3>2, <1>7
    <3>4. QED
      BY <1>4, <3>1, <3>2, <3>3
  <2>3. QED
    BY <2>1, <2>2
<1>13. \A s \in Row : Replaces(s)'
  BY <1>12 DEF Replaces
<1>14. QED
  BY <1>5, <1>6, <1>8, <1>11, <1>13

\* Every step keeps the service's half of the invariant, and no stored row goes.
LEMMA ServicePreserved ==
    ASSUME IInv, [Next]_vars
    PROVE  ServiceInv' /\ Stored \subseteq Stored'
<1>1. Quiet \/ \E c \in Call : RowStep(c)
  BY StepKinds DEF IInv, ServiceInv, ClientInv, TypeOK
<1>2. ASSUME NEW c \in Call, StoreLogin(c) \/ StoreRotated(c)
      PROVE  ServiceInv' /\ Stored \subseteq Stored'
  <2>1. CASE StoreLogin(c)
    BY <2>1, StoreStep DEF StoreLogin, IInv
  <2>2. CASE StoreRotated(c)
    <3>1. calls[c].row \in Row /\ rows[calls[c].row].status = "revoked"
      BY <2>2 DEF StoreRotated, IInv, ServiceInv, CallsHoldRows, Stored
    <3>2. QED
      BY <2>2, <3>1, StoreStep DEF StoreRotated, IInv
  <2>3. QED
    BY <1>2, <2>1, <2>2
<1>3. QED
  BY <1>1, <1>2, QuietStep, RefreshTokenStep, RevokeTokenStep DEF RowStep, IInv, ClientInv

-----------------------------------------------------------------------------
(* The tab keeps its half of the invariant.                                *)

\* The requests of the tab.
RequestState == [state   : {"idle", "sent", "queued", "refreshing"},
                 signed  : BOOLEAN,
                 retried : BOOLEAN]

RequestsInv == /\ requests \in [Request -> RequestState]
               /\ isRefreshing \in BOOLEAN
               /\ QueueBehindFlag
               /\ RefreshBehindFlag
               /\ OneRefreshAtATime

\* The session of the tab.
StoreInv == /\ store \in [access : Maybe(Token), refresh : Maybe(Token), tenant : BOOLEAN,
                          authenticated : BOOLEAN]
            /\ local \in [access : Maybe(Token), refresh : Maybe(Token), tenant : BOOLEAN]
            /\ form \in {"idle", "loading"}
            /\ page \in {"public", "private"}
            /\ SessionIsWhole
            /\ TokensStored
            /\ LocalIsWhole

\* A request gets another state and mark, and no other request is touched.
LEMMA Marked ==
    ASSUME requests \in [Request -> RequestState], NEW q \in Request,
           NEW s \in {"sent", "queued"}, NEW b \in BOOLEAN,
           requests' = [requests EXCEPT ![q].state = s, ![q].signed = b]
    PROVE  /\ requests' \in [Request -> RequestState]
           /\ requests'[q].state = s
           /\ \A p \in Request : p # q => requests'[p] = requests[p]
<1> DEFINE F == [requests EXCEPT ![q].state = s]
           x == [F[q] EXCEPT !.signed = b]
<1>1. /\ F \in [Request -> RequestState]
      /\ F[q].state = s
      /\ \A p \in Request : p # q => F[p] = requests[p]
  BY DEF RequestState
<1>2. requests' = [F EXCEPT ![q].signed = b]
  OBVIOUS
<1> HIDE DEF F
<1>3. requests' = [F EXCEPT ![q] = x]
  BY <1>2, Zenon
<1>4. x \in RequestState /\ x.state = F[q].state
  BY <1>1 DEF RequestState
<1> HIDE DEF x
<1>5. QED
  BY <1>1, <1>3, <1>4

\* A request sent again with a new token.
LEMMA SentAgain ==
    ASSUME NEW x \in RequestState
    PROVE  LET y == [x EXCEPT !.state = "sent", !.signed = TRUE]
           IN  y \in RequestState /\ y.state = "sent"
BY DEF RequestState

\* Every step keeps what ties the phase of a request to the flag and the queue.
LEMMA RequestsPreserved ==
    ASSUME IInv, [Next]_vars
    PROVE  RequestsInv'
<1> USE SessionAssumption DEF IInv, ClientInv, RequestsInv, RequestState, TypeOK, ServiceInv, AuthTypeOK
<1> USE DEF QueueBehindFlag, RefreshBehindFlag, OneRefreshAtATime
<1>1. CASE UNCHANGED <<requests, isRefreshing>>
  BY <1>1
<1>2. CASE UNCHANGED vars
  BY <1>2 DEF vars
<1>3. ASSUME NEW q \in Request, Send(q)
      PROVE  RequestsInv'
  <2>1. UNCHANGED isRefreshing
    BY <1>3 DEF Send
  <2> DEFINE b == Bearer \in Row
  <2>2. requests' = [requests EXCEPT ![q].state = "sent", ![q].signed = b]
    BY <1>3 DEF Send
  <2>3. b \in BOOLEAN
    BY SMT
  <2> HIDE DEF b
  <2>4. requests \in [Request -> RequestState]
    BY DEF RequestState
  <2>5. /\ requests' \in [Request -> RequestState]
        /\ requests'[q].state = "sent"
        /\ \A p \in Request : p # q => requests'[p] = requests[p]
    BY <2>2, <2>3, <2>4, Marked
  <2>6. QED
    BY <2>1, <2>5
<1>4. ASSUME NEW q \in Request, AnswerRequest(q) \/ NetworkError(q) \/ RejectRetried(q)
      PROVE  RequestsInv'
  <2>1. UNCHANGED isRefreshing /\ requests' = [requests EXCEPT ![q] = Settled]
    BY <1>4 DEF AnswerRequest, NetworkError, RejectRetried
  <2>2. /\ requests' \in [Request -> RequestState]
        /\ requests'[q].state = "idle"
        /\ \A p \in Request : p # q => requests'[p] = requests[p]
    BY <2>1 DEF Settled, RequestState
  <2>3. QED
    BY <2>1, <2>2
<1>5. ASSUME NEW q \in Request, Enqueue(q)
      PROVE  RequestsInv'
  <2>1. /\ UNCHANGED isRefreshing /\ isRefreshing
        /\ requests' = [requests EXCEPT ![q].state = "queued", ![q].signed = FALSE]
    BY <1>5 DEF Enqueue
  <2>2. /\ requests' \in [Request -> RequestState]
        /\ requests'[q].state = "queued"
        /\ \A p \in Request : p # q => requests'[p] = requests[p]
    <3>1. requests \in [Request -> RequestState]
      BY DEF RequestState
    <3>2. QED
      BY <2>1, <3>1, Marked
  <2>3. QED
    BY <2>1, <2>2
<1>6. ASSUME NEW q \in Request, SignOutUnrefreshed(q)
      PROVE  RequestsInv'
  BY <1>6 DEF SignOutUnrefreshed, Settled
<1>7. ASSUME NEW q \in Request, StartRefresh(q)
      PROVE  RequestsInv'
  <2>1. /\ ~isRefreshing /\ isRefreshing'
        /\ requests' = [requests EXCEPT ![q] = [state |-> "refreshing", signed |-> FALSE, retried |-> TRUE]]
    BY <1>7 DEF StartRefresh
  <2>2. QED
    BY <2>1
<1>8. ASSUME NEW q \in Request, FinishRefresh(q) \/ FailRefresh(q)
      PROVE  RequestsInv'
  <2>1. requests[q].state = "refreshing" /\ isRefreshing' = FALSE
    BY <1>8 DEF FinishRefresh, FailRefresh
  <2>2. \A p \in Request : p # q => requests[p].state # "refreshing"
    BY <2>1
  <2>3. /\ requests' \in [Request -> RequestState]
        /\ \A p \in Request : IF p \in Waiting(q) THEN requests'[p].state \in {"sent", "idle"}
                                                  ELSE requests'[p] = requests[p]
    <3>1. CASE FinishRefresh(q)
      <4>1. requests' = [p \in Request |-> IF p \in Waiting(q)
                                          THEN [requests[p] EXCEPT !.state = "sent", !.signed = TRUE]
                                          ELSE requests[p]]
        BY <3>1 DEF FinishRefresh
      <4>2. requests \in [Request -> RequestState]
        BY DEF RequestState
      <4>3. \A p \in Request : LET y == [requests[p] EXCEPT !.state = "sent", !.signed = TRUE]
                               IN  y \in RequestState /\ y.state = "sent"
        BY <4>2, SentAgain
      <4>4. QED
        BY <4>1, <4>2, <4>3
    <3>2. CASE FailRefresh(q)
      <4>1. requests' = [p \in Request |-> IF p \in Waiting(q) THEN Settled ELSE requests[p]]
        BY <3>2 DEF FailRefresh
      <4>2. QED
        BY <4>1 DEF Settled, RequestState
    <3>3. QED
      BY <1>8, <3>1, <3>2
  <2>4. \A p \in Request : requests'[p].state \in {"sent", "idle"}
    BY <2>2, <2>3 DEF Waiting
  <2>5. QED
    BY <2>1, <2>3, <2>4
<1>9. CASE SubmitLogin \/ FinishLogin \/ FailLogin \/ HandleLogout \/ Hydrate \/ RedirectToLogin
  BY <1>1, <1>9 DEF SubmitLogin, FinishLogin, FailLogin, HandleLogout, Hydrate, RedirectToLogin
<1>10. CASE Reload
  BY <1>10 DEF Reload, Settled
<1>11. ASSUME NEW c \in Call, AuthStep(c) \/ AuthFails(c) \/ DropAnswer(c)
       PROVE  RequestsInv'
  BY <1>1, <1>11 DEF AuthStep, AuthFails, DropAnswer, clientVars
<1>12. ASSUME NEW r \in Row, ExpireToken(r)
       PROVE  RequestsInv'
  BY <1>1, <1>12 DEF ExpireToken, clientVars
<1>13. QED
  BY <1>2, <1>3, <1>4, <1>5, <1>6, <1>7, <1>8, <1>9, <1>10, <1>11, <1>12 DEF Next, Answer

\* What a step writes to the store or to localStorage is a pair just answered,
\* mocks, what localStorage held, or nothing.
LEMMA StorePreserved ==
    ASSUME IInv, [Next]_vars
    PROVE  StoreInv'
<1> USE SessionAssumption, TokenAssumption
    DEF IInv, ClientInv, StoreInv, TypeOK, Maybe, Token
<1>1. Stored \subseteq Stored' /\ Row \subseteq Nat /\ Stored \subseteq Row
  BY ServicePreserved DEF Row, Stored
<1> USE DEF SessionIsWhole, TokensStored, LocalIsWhole
<1>2. CASE UNCHANGED <<store, local, form, page>>
  BY <1>1, <1>2
<1>3. CASE UNCHANGED vars
  BY <1>2, <1>3 DEF vars
<1>4. ASSUME NEW q \in Request,
             Send(q) \/ AnswerRequest(q) \/ NetworkError(q) \/ RejectRetried(q) \/ Enqueue(q)
             \/ StartRefresh(q)
      PROVE  StoreInv'
  BY <1>2, <1>4 DEF Send, AnswerRequest, NetworkError, RejectRetried, Enqueue, StartRefresh
<1>0. ASSUME ClearAuth, form' \in {"idle", "loading"}, page' \in {"public", "private"}
      PROVE  StoreInv'
  <2>1. /\ store' = SignedOut /\ local' = Nothing
        /\ None \notin Row
    BY <1>0, <1>1 DEF ClearAuth
  <2>2. /\ SignedOut \in [access : Maybe(Token), refresh : Maybe(Token), tenant : BOOLEAN,
                          authenticated : BOOLEAN]
        /\ Nothing \in [access : Maybe(Token), refresh : Maybe(Token), tenant : BOOLEAN]
    BY DEF SignedOut, Nothing
  <2>3. /\ ~SignedOut.authenticated /\ SignedOut.refresh = None
        /\ Nothing.refresh = None /\ ~Nothing.tenant
    BY DEF SignedOut, Nothing
  <2>4. SessionIsWhole'
    BY <2>1, <2>3
  <2>5. TokensStored' /\ LocalIsWhole'
    BY <2>1, <2>3
  <2>6. QED
    BY <1>0, <2>1, <2>2, <2>4, <2>5
<1>5. ASSUME NEW q \in Request, SignOutUnrefreshed(q) \/ FailRefresh(q)
      PROVE  StoreInv'
  BY <1>0, <1>5 DEF SignOutUnrefreshed, FailRefresh
<1>6. ASSUME NEW q \in Request, FinishRefresh(q)
      PROVE  StoreInv'
  <2>1. calls[q].pair \in Row
    BY <1>1, <1>6 DEF FinishRefresh, ServiceInv, CallsHoldRows
  <2>2. /\ store' = [store EXCEPT !.access = calls[q].pair]
        /\ local' = [local EXCEPT !.access = calls[q].pair]
        /\ UNCHANGED <<form, page>>
    BY <1>6 DEF FinishRefresh, SetAccessToken
  <2>3. /\ store'.access = calls[q].pair /\ store'.refresh = store.refresh
        /\ store'.tenant = store.tenant /\ store'.authenticated = store.authenticated
        /\ local'.access = calls[q].pair /\ local'.refresh = local.refresh
        /\ local'.tenant = local.tenant
        /\ store' \in [access : Maybe(Token), refresh : Maybe(Token), tenant : BOOLEAN,
                       authenticated : BOOLEAN]
        /\ local' \in [access : Maybe(Token), refresh : Maybe(Token), tenant : BOOLEAN]
    BY <2>1, <2>2
  <2>4. calls[q].pair # None
    BY <1>1, <2>1
  <2>5. TokensStored' /\ LocalIsWhole'
    BY <1>1, <2>3
  <2>6. SessionIsWhole'
    <3> SUFFICES ASSUME store.authenticated
                 PROVE  /\ store'.access # None /\ store'.tenant
                        /\ local' = [access |-> store'.access, refresh |-> store'.refresh,
                                     tenant |-> TRUE]
      BY <2>3
    <3>1. store.tenant /\ local.refresh = store.refresh /\ local.tenant = TRUE
      OBVIOUS
    <3>2. local' = [access |-> local'.access, refresh |-> local'.refresh, tenant |-> local'.tenant]
      BY <2>3
    <3>3. QED
      BY <2>3, <2>4, <3>1, <3>2
  <2>7. QED
    BY <2>2, <2>3, <2>5, <2>6
<1>7. ASSUME NEW a \in Token, NEW t \in Token, SetAuth(a, t),
             t \in Row => t \in Stored,
             form' \in {"idle", "loading"}, page' \in {"public", "private"}
      PROVE  StoreInv'
  BY <1>1, <1>7 DEF SetAuth
<1>8. CASE SubmitLogin
  BY <1>1, <1>8 DEF SubmitLogin
<1>9. CASE FinishLogin
  <2>1. calls[Login].pair \in Stored
    BY <1>9 DEF FinishLogin, ServiceInv, CallsHoldRows
  <2>2. QED
    BY <1>1, <1>7, <1>9, <2>1 DEF FinishLogin
<1>10. CASE FailLogin
  <2>1. UNCHANGED <<store, local, page>> \/ (SetAuth(Mock, Mock) /\ page' = "private")
    BY <1>10 DEF FailLogin
  <2>2. form' = "idle"
    BY <1>10 DEF FailLogin
  <2>3. CASE UNCHANGED <<store, local, page>>
    BY <1>1, <2>2, <2>3
  <2>4. CASE SetAuth(Mock, Mock) /\ page' = "private"
    BY <1>1, <1>7, <2>2, <2>4
  <2>5. QED
    BY <2>1, <2>3, <2>4
<1>11. CASE HandleLogout
  BY <1>0, <1>11 DEF HandleLogout
<1>12. CASE Hydrate
  <2>1. local.access \in Token /\ local.refresh \in Token
    BY <1>12 DEF Hydrate
  <2>2. QED
    BY <1>1, <1>7, <1>12, <2>1 DEF Hydrate
<1>13. CASE RedirectToLogin
  BY <1>1, <1>13 DEF RedirectToLogin
<1>14. CASE Reload
  BY <1>1, <1>14 DEF Reload, SignedOut
<1>15. ASSUME NEW c \in Call, AuthStep(c) \/ AuthFails(c) \/ DropAnswer(c)
       PROVE  StoreInv'
  BY <1>2, <1>15 DEF AuthStep, AuthFails, DropAnswer, clientVars
<1>16. ASSUME NEW r \in Row, ExpireToken(r)
       PROVE  StoreInv'
  BY <1>2, <1>16 DEF ExpireToken, clientVars
<1>17. QED
  BY <1>3, <1>4, <1>5, <1>6, <1>8, <1>9, <1>10, <1>11, <1>12, <1>13, <1>14, <1>15, <1>16
     DEF Next, Answer

-----------------------------------------------------------------------------
\* A fresh tab at a service that stored nothing yet.
LEMMA InitialState == Init => IInv
<1> SUFFICES ASSUME Init PROVE IInv
  OBVIOUS
<1> USE TokenAssumption, SessionAssumption DEF Init, AuthInit
<1>1. Unused \in RowState /\ Unused.status = "unused" /\ Unused.replaces = None
  BY DEF Unused, RowState
<1>2. Idle \in CallState /\ Idle.step = "idle"
  BY DEF Idle, CallState
<1>3. AuthTypeOK
  BY <1>1, <1>2 DEF AuthTypeOK
<1>4. Stored = {}
  BY <1>1 DEF Stored
<1>5. ServiceInv
  <2>1. CallsHoldRows /\ \A r \in Row : Replaces(r)
    BY <1>1, <1>2 DEF CallsHoldRows, Replaces
  <2>2. RowsInOrder
    <3>1. 0 \in 0..MaxRow /\ \A r \in Row : r \in Stored <=> r <= 0
      BY <1>4 DEF Row
    <3>2. QED
      BY <3>1 DEF RowsInOrder
  <2>3. QED
    BY <1>3, <2>1, <2>2 DEF ServiceInv
<1>6. TypeOK
  BY <1>3 DEF TypeOK, SignedOut, Nothing, Settled, Maybe
<1>7. \A q \in Request : requests[q].state = "idle"
  BY DEF Settled
<1>8. QueueBehindFlag /\ RefreshBehindFlag /\ OneRefreshAtATime
  BY <1>7 DEF QueueBehindFlag, RefreshBehindFlag, OneRefreshAtATime
<1>9. SessionIsWhole /\ TokensStored /\ LocalIsWhole
  BY DEF SessionIsWhole, TokensStored, LocalIsWhole, SignedOut, Nothing, Row
<1>10. QED
  BY <1>5, <1>6, <1>8, <1>9 DEF IInv, ClientInv

\* Every step of the tab and of the service keeps the invariant.
LEMMA InvariantStep == IInv /\ [Next]_vars => IInv'
<1> SUFFICES ASSUME IInv, [Next]_vars PROVE IInv'
  OBVIOUS
<1>1. ServiceInv' /\ RequestsInv' /\ StoreInv'
  BY ServicePreserved, RequestsPreserved, StorePreserved
<1>2. QED
  BY <1>1 DEF IInv, ClientInv, TypeOK, ServiceInv, RequestsInv, RequestState, StoreInv

\* The inductive invariant: each request's phase fits the queue, the flag, the stores and the
\* calls of the service.
THEOREM InvariantHolds == Spec => []IInv
BY InitialState, InvariantStep, PTL DEF Spec

\* Type correctness of the tab and of the service.
THEOREM TypeCorrect == Spec => []TypeOK
<1>1. IInv => TypeOK
  BY DEF IInv, ClientInv
<1>2. QED
  BY <1>1, InvariantHolds, PTL

\* No request is left in the queue of a refresh that has ended.
THEOREM QueueHasRefresh == Spec => []QueueBehindFlag
<1>1. IInv => QueueBehindFlag
  BY DEF IInv, ClientInv
<1>2. QED
  BY <1>1, InvariantHolds, PTL

\* However many requests get a 401 at once, one of them refreshes.
THEOREM RefreshesExclude == Spec => []OneRefreshAtATime
<1>1. IInv => OneRefreshAtATime
  BY DEF IInv, ClientInv
<1>2. QED
  BY <1>1, InvariantHolds, PTL

\* The store and localStorage agree whenever the tab is signed in.
THEOREM SessionStaysWhole == Spec => []SessionIsWhole
<1>1. IInv => SessionIsWhole
  BY DEF IInv, ClientInv
<1>2. QED
  BY <1>1, InvariantHolds, PTL

\* Of two rows one of which replaced the other, the older is revoked.
THEOREM RotationRevokes == Spec => []PredecessorRevoked
<1>1. IInv => PredecessorRevoked
  BY DEF IInv, ServiceInv, Replaces, PredecessorRevoked, Stored
<1>2. QED
  BY <1>1, InvariantHolds, PTL

\* Of the rows that are stored the last can not have been replaced: an employee
\* without an unrevoked row is in the middle of a rotation, or one has failed.
LEMMA LastRow ==
    ASSUME ServiceInv, Stored # {}, Active = {}
    PROVE  Broken \/ \E k \in Call : calls[k].step = "revoked"
<1> SUFFICES ASSUME ~Broken, \A k \in Call : calls[k].step # "revoked" PROVE FALSE
  OBVIOUS
<1>1. PICK m \in 0..MaxRow : \A r \in Row : r \in Stored <=> r <= m
  BY DEF ServiceInv, RowsInOrder
<1>2. m \in Row /\ m \in Stored
  BY <1>1, TokenAssumption DEF Row, Stored
<1>3. rows[m].status = "revoked"
  BY <1>2 DEF ServiceInv, AuthTypeOK, RowState, Stored, Active
<1>4. PICK s \in Row : rows[s].replaces = m
  BY <1>2, <1>3 DEF Broken
<1>5. m < s /\ s \in Stored
  BY <1>2, <1>4, TokenAssumption DEF ServiceInv, Replaces, Stored, Row
<1>6. QED
  BY <1>1, <1>5, TokenAssumption DEF Row

\* A signed-in tab has a row left unless a rotation failed half way.
THEOREM SessionKeepsRow == Spec => []SessionBacked
<1>1. IInv => SessionBacked
  BY LastRow DEF IInv, ClientInv, TokensStored, SessionBacked
<1>2. QED
  BY <1>1, InvariantHolds, PTL

\* Nothing signs a tab in but its login form and a session in localStorage.
THEOREM SignedOutUntilLogin == Spec => SignedOutStaysOut
<1> DEFINE SignsIn == ~store.authenticated /\ store'.authenticated
           Entitled == \/ form = "loading" /\ form' = "idle"
                       \/ local.refresh # None /\ UNCHANGED local
<1>1. ASSUME IInv, [Next]_vars
      PROVE  [SignsIn => Entitled]_vars
  <2> SUFFICES ASSUME SignsIn
               PROVE  Entitled
    OBVIOUS
  <2> USE <1>1
  <2>1. CASE UNCHANGED store
    BY <2>1
  <2>2. ASSUME ClearAuth \/ store' = SignedOut
        PROVE  FALSE
    BY <2>2 DEF ClearAuth, SignedOut
  <2>3. ASSUME NEW q \in Request,
               Send(q) \/ Answer(q) \/ NetworkError(q) \/ FailRefresh(q)
        PROVE  Entitled
    <3>1. CASE FinishRefresh(q)
      BY <3>1 DEF FinishRefresh, SetAccessToken, IInv, ClientInv, TypeOK
    <3>2. CASE SignOutUnrefreshed(q) \/ FailRefresh(q)
      BY <2>2, <3>2 DEF SignOutUnrefreshed, FailRefresh
    <3>3. QED
      BY <2>1, <2>3, <3>1, <3>2
         DEF Send, Answer, AnswerRequest, RejectRetried, Enqueue, StartRefresh, NetworkError
  <2>4. CASE Hydrate
    <3>1. local.tenant = TRUE /\ local.refresh # None
      BY <2>4 DEF Hydrate, IInv, ClientInv, LocalIsWhole, TypeOK
    <3>2. local' = [access |-> local.access, refresh |-> local.refresh, tenant |-> TRUE]
      BY <2>4 DEF Hydrate, SetAuth
    <3>3. local' = local
      BY <3>1, <3>2 DEF IInv, ClientInv, TypeOK
    <3>4. QED
      BY <3>1, <3>3
  <2>5. CASE SubmitLogin \/ FinishLogin \/ FailLogin
    BY <2>1, <2>5 DEF SubmitLogin, FinishLogin, FailLogin
  <2>6. CASE HandleLogout \/ RedirectToLogin \/ Reload \/ UNCHANGED vars
    BY <2>1, <2>2, <2>6 DEF HandleLogout, RedirectToLogin, Reload, vars
  <2>7. ASSUME NEW c \in Call, AuthStep(c) \/ AuthFails(c) \/ DropAnswer(c)
        PROVE  Entitled
    BY <2>1, <2>7 DEF AuthStep, AuthFails, DropAnswer, clientVars
  <2>8. ASSUME NEW r \in Row, ExpireToken(r)
        PROVE  Entitled
    BY <2>1, <2>8 DEF ExpireToken, clientVars
  <2>9. QED
    BY <2>3, <2>4, <2>5, <2>6, <2>7, <2>8 DEF Next
<1>2. QED
  BY <1>1, InvariantHolds, PTL DEF Spec, SignedOutStaysOut

\* Only refreshToken refuses a call that was just received.
LEMMA RefusedByService ==
    ASSUME AuthTypeOK, [Next]_vars, NEW c \in Call,
           calls[c].step = "received", calls'[c].step = "refused"
    PROVE  RefreshToken(c)
<1> USE SessionAssumption DEF AuthTypeOK
<1> SUFFICES ASSUME ~RefreshToken(c) PROVE FALSE
  OBVIOUS
<1>1. calls' # calls
  OBVIOUS
<1>2. ASSUME NEW d \in Call, NEW x, calls' = [calls EXCEPT ![d] = x]
      PROVE  d = c /\ x.step = "refused"
  BY <1>2
<1>3. ASSUME NEW q \in Request,
             Send(q) \/ Answer(q) \/ NetworkError(q) \/ FailRefresh(q)
      PROVE  FALSE
  <2>1. CASE Send(q) \/ AnswerRequest(q) \/ RejectRetried(q) \/ Enqueue(q) \/ SignOutUnrefreshed(q)
             \/ NetworkError(q)
    BY <2>1, <1>1 DEF Send, AnswerRequest, RejectRetried, Enqueue, SignOutUnrefreshed, NetworkError
  <2>2. CASE StartRefresh(q)
    BY <2>2 DEF StartRefresh, ReceiveRefresh, CallState
  <2>3. CASE FinishRefresh(q) \/ FailRefresh(q)
    BY <2>3, <1>1, <1>2 DEF FinishRefresh, FailRefresh, Idle
  <2>4. QED
    BY <1>3, <2>1, <2>2, <2>3 DEF Answer
<1>4. ASSUME NEW d \in Call, AuthStep(d)
      PROVE  FALSE
  <2>1. CASE RefreshToken(d)
    <3>1. \A r \in Row : [Idle EXCEPT !.step = "matched", !.row = r].step = "matched"
      BY DEF Idle
    <3>2. d # c
      BY <2>1
    <3>3. calls'[c] = calls[c]
      BY <2>1, <3>2 DEF RefreshToken, Ended
    <3>4. QED
      BY <3>3
  <2>2. CASE RevokeToken(d)
    BY <2>2 DEF RevokeToken, Ended
  <2>3. CASE StoreLogin(d) \/ StoreRotated(d)
    BY <2>3 DEF StoreLogin, StoreRotated, Store
  <2>4. QED
    BY <1>4, <2>1, <2>2, <2>3 DEF AuthStep
<1>5. ASSUME NEW d \in Call, AuthFails(d) \/ DropAnswer(d)
      PROVE  FALSE
  BY <1>5, <1>2 DEF AuthFails, Fail, Ended, DropAnswer, Idle
<1>6. CASE SubmitLogin
  BY <1>6 DEF SubmitLogin, LoginUser, CallState
<1>7. CASE FinishLogin \/ FailLogin
  BY <1>7, <1>1, <1>2 DEF FinishLogin, FailLogin, Idle
<1>8. CASE HandleLogout \/ Hydrate \/ RedirectToLogin \/ Reload \/ UNCHANGED vars
  BY <1>8, <1>1 DEF HandleLogout, Hydrate, RedirectToLogin, Reload, vars
<1>9. ASSUME NEW r \in Row, ExpireToken(r)
      PROVE  FALSE
  BY <1>9, <1>1 DEF ExpireToken, Expire
<1>10. QED
  BY <1>3, <1>4, <1>5, <1>6, <1>7, <1>8, <1>9 DEF Next

\* A token that the service signed and that has not expired is accepted as long as
\* no rotation is half way or has failed there.
THEOREM GoodTokensPass == Spec => GoodTokenAccepted
<1> DEFINE Refused(c) == /\ calls[c].step = "received" /\ calls'[c].step = "refused"
                         /\ calls[c].token \in Row \ expired
           Rotating == Broken \/ \E k \in Call : calls[k].step = "revoked"
<1>1. ASSUME IInv, [Next]_vars
      PROVE  [\A c \in Call : Refused(c) => Rotating]_vars
  <2> SUFFICES ASSUME NEW c \in Call, Refused(c)
               PROVE  Rotating
    OBVIOUS
  <2> USE <1>1, SessionAssumption DEF IInv, ServiceInv, AuthTypeOK
  <2>1. RefreshToken(c)
    BY RefusedByService DEF ClientInv, TypeOK
  <2>2. Active = {}
    BY <2>1 DEF RefreshToken, Verified, Matches, First72Bytes, Idle
  <2>3. Stored # {}
    BY DEF CallsHoldRows
  <2>4. QED
    BY <2>2, <2>3, LastRow
<1>2. QED
  BY <1>1, InvariantHolds, PTL DEF Spec, GoodTokenAccepted
=============================================================================

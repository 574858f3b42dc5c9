---------------------------- MODULE RefreshTokens ----------------------------
(***************************************************************************)
(* loginUser and refreshToken of auth-service.service.ts for one employee: *)
(* the rows of refresh_tokens, and the calls that read and write them with *)
(* no transaction.  A row's number also names the pair of tokens that was  *)
(* signed for it.  The module has no Next: WebSession composes its actions *)
(* with the web client that makes the calls.                               *)
(*                                                                         *)
(* No code of the repository takes status ACTIVE away from an employee, so *)
(* the two checks of it always pass.  A wrong password has no effect.      *)
(***************************************************************************)
EXTENDS Naturals, FiniteSets

CONSTANTS Call,      \* calls the service may be handling at once
          MaxRow,    \* bound: rows ever stored
          Mock,      \* a token the service did not sign
          None

ASSUME TokenAssumption == /\ MaxRow \in Nat \ {0}
                          /\ Mock \notin Nat
                          /\ None \notin Nat /\ None # Mock

VARIABLES rows,      \* refresh_tokens
          expired,   \* rows and refresh tokens older than seven days
          calls      \* the calls in progress

authVars == <<rows, expired, calls>>

Row == 1..MaxRow
Token == Row \cup {Mock}

\* `replaces` is history: the row that the call which stored this one revoked.
RowState == [status : {"unused", "active", "revoked"}, replaces : Row \cup {None}]
Unused == [status |-> "unused", replaces |-> None]

CallState == [step  : {"idle", "login", "received", "matched", "revoked",
                        "answered", "refused", "failed"},
              token : Token \cup {None},      \* the refresh token presented
              row   : Row \cup {None},        \* matchedToken
              pair  : Row \cup {None}]        \* the pair in the answer
Idle == [step |-> "idle", token |-> None, row |-> None, pair |-> None]

AuthTypeOK == /\ rows \in [Row -> RowState]
              /\ expired \subseteq Row
              /\ calls \in [Call -> CallState]

AuthInit == /\ rows = [r \in Row |-> Unused]
            /\ expired = {}
            /\ calls = [c \in Call |-> Idle]

-----------------------------------------------------------------------------
Stored == {r \in Row : rows[r].status # "unused"}
Active == {r \in Row : rows[r].status = "active"}

\* bcrypt reads the first 72 bytes of what it hashes.  In a refresh token they
\* are the header and the first half of the claim `sub`, so the tokens of one
\* employee agree on them and comparePasswords tells none of them apart.
First72Bytes(token) == "header and sub"
Matches_WholeToken(token, r) == token = r
Matches(token, r) == First72Bytes(token) = First72Bytes(r)

\* jwtService.verify: signed by this service, and not expired.
Verified(token) == token \in Row \ expired

Ended(c, step) == [calls EXCEPT ![c] = [Idle EXCEPT !.step = step]]

-----------------------------------------------------------------------------
\* The call arrives, as an RPC from the gateway.
LoginUser(c) ==
    /\ calls[c].step = "idle"
    /\ calls' = [calls EXCEPT ![c].step = "login"]
    /\ UNCHANGED <<rows, expired>>

ReceiveRefresh(c, token) ==
    /\ calls[c].step = "idle"
    /\ calls' = [calls EXCEPT ![c].step = "received", ![c].token = token]

\* The token is verified, the unrevoked rows are read in no particular order
\* and the first that matches is taken.
RefreshToken(c) ==
    /\ calls[c].step = "received"
    /\ LET found == {r \in Active : Matches(calls[c].token, r)}
       IN  IF Verified(calls[c].token) /\ found # {}
           THEN \E r \in found :
                    calls' = [calls EXCEPT ![c] = [Idle EXCEPT !.step = "matched", !.row = r]]
           ELSE calls' = Ended(c, "refused")
    /\ UNCHANGED <<rows, expired>>

\* A deviation: the row is left unrevoked.
RevokeToken_Skipped(c) ==
    /\ calls[c].step = "matched"
    /\ calls' = [calls EXCEPT ![c].step = "revoked"]
    /\ UNCHANGED <<rows, expired>>

\* The matched row is refused when it has expired, and revoked otherwise.
RevokeToken(c) ==
    /\ calls[c].step = "matched"
    /\ IF calls[c].row \in expired
       THEN calls' = Ended(c, "refused") /\ UNCHANGED rows
       ELSE /\ calls' = [calls EXCEPT ![c].step = "revoked"]
            /\ rows' = [rows EXCEPT ![calls[c].row].status = "revoked"]
    /\ UNCHANGED expired

\* A new pair is signed, its row stored, and the pair returned.
Store(c, old) ==
    \E r \in Row \ Stored :
        /\ \A s \in Row \ Stored : r <= s
        /\ rows' = [rows EXCEPT ![r] = [status |-> "active", replaces |-> old]]
        /\ calls' = [calls EXCEPT ![c] = [Idle EXCEPT !.step = "answered", !.pair = r]]

\* A deviation: the pair is returned and its row not saved.
StoreLogin_Unsaved(c) ==
    /\ calls[c].step = "login"
    /\ \E r \in Row \ Stored :
        calls' = [calls EXCEPT ![c] = [Idle EXCEPT !.step = "answered", !.pair = r]]
    /\ UNCHANGED <<rows, expired>>

StoreLogin(c) ==
    /\ calls[c].step = "login"
    /\ Store(c, None)
    /\ UNCHANGED expired

StoreRotated(c) ==
    /\ calls[c].step = "revoked"
    /\ Store(c, calls[c].row)
    /\ UNCHANGED expired

\* An exception, a lost connection or a crash: what was saved stays saved.
Fail(c) ==
    /\ calls[c].step \in {"login", "received", "matched", "revoked"}
    /\ calls' = Ended(c, "failed")
    /\ UNCHANGED <<rows, expired>>

\* Seven days pass for the oldest token and its row.
Expire(r) ==
    /\ r \in Stored \ expired
    /\ \A s \in 1..(r - 1) : s \in expired
    /\ expired' = expired \cup {r}
    /\ UNCHANGED <<rows, calls>>
=============================================================================

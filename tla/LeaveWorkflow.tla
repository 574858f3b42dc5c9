---------------------------- MODULE LeaveWorkflow ----------------------------
(***************************************************************************)
(* The leave service (apps/leave-service/src/leave-service.service.ts) for *)
(* one employee and one year: leave_balances, leave_requests,              *)
(* leave_approvals, outbox_events and audit_logs, and the RPC handlers     *)
(* that change them.                                                       *)
(*                                                                         *)
(* A handler runs as an async function: between two awaits the handlers of *)
(* other calls run.  Each element of Handlers is a slot in which one call  *)
(* is in progress, so |Handlers| is how many calls overlap.  Every         *)
(* transaction runs at READ COMMITTED and its writes appear at the commit. *)
(* A TypeORM save() of a loaded entity is a SELECT of the row by id        *)
(* followed by an UPDATE of the columns in which the entity in memory and  *)
(* the selected row differ.  No row has a version column and no query      *)
(* locks the rows it reads, so an entity loaded before another call's      *)
(* commit is written back over that commit.                                *)
(*                                                                         *)
(* Left out: wording, dates (a request is its number of days), approver    *)
(* ids and comments, tenants (every query is of one tenant's employee).    *)
(* The leave types exist already (ensureDefaultLeaveTypes finds them), and *)
(* so do the rows of employees and tenants that the foreign keys need:     *)
(* with the schema per service of DatabaseModule.forRoot nothing in src/   *)
(* writes those in leave's schema.                                         *)
(***************************************************************************)
EXTENDS Integers, Sequences, FiniteSets, Functions

CONSTANTS
    Handlers,      \* calls that can be in progress at the same time
    Requests,      \* ids of leave_requests rows
    BalanceRows,   \* ids of leave_balances rows
    LeaveTypes,    \* ids of the tenant's leave_types rows
    DayCounts,     \* values of totalDays a submission can have
    DefaultDays,   \* defaultDaysPerYear of each leave type
    MaxDecisions,  \* bound: no decision starts on a request with this many
    None           \* an absent row, an idle handler

ASSUME LeaveAssumption ==
    /\ DayCounts \subseteq Nat \ {0}
    /\ DefaultDays \in [LeaveTypes -> Nat]
    /\ IsFiniteSet(LeaveTypes)
    /\ MaxDecisions \in Nat

VARIABLES
    leaveBalances,   \* row id -> row, or None
    leaveRequests,   \* request id -> row, or None
    leaveApprovals,  \* request id -> its approval rows, in commit order
    outbox,          \* request id -> its outbox events, in commit order
    auditLogs,       \* the requests with a LEAVE_SUBMITTED audit row
    calls            \* handler -> the call in progress, or None

tables == <<leaveBalances, leaveRequests, leaveApprovals, outbox, auditLogs>>
vars == <<tables, calls>>

-----------------------------------------------------------------------------
(* Rows and calls in progress *)

Status == {"SUBMITTED", "MANAGER_APPROVED", "HR_VERIFIED", "REJECTED", "PAYROLL_LOCKED"}
Decision == {"APPROVED", "REJECTED", "VERIFIED"}
EventType == {"leave.submitted", "leave.approved", "leave.rejected", "leave.verified"}

\* allocatedDays is written once, from defaultDaysPerYear: DefaultDays[leaveTypeId].
Balance == [leaveTypeId : LeaveTypes, pendingDays : Nat, usedDays : Nat]
Request == [leaveTypeId : LeaveTypes, totalDays : DayCounts, status : Status]

\* A balance entity in a handler's memory.
BalanceEntity == [row : BalanceRows, pendingDays : Nat, usedDays : Nat]
Column == {"pendingDays", "usedDays", "status"}

(***************************************************************************)
(* Phases of a call:                                                       *)
(*   "creating"  submit found no balance row and is about to insert one;   *)
(*   "guarded"   reject or verify has read the request and passed its      *)
(*               guard, and is about to read the balance;                  *)
(*   "ready"     the entities are changed in memory, not yet saved;        *)
(*   "selected"  a decision's save of the balance has selected the row and *)
(*               knows the columns that differ;                            *)
(*   "saving"    so does the last save, and the commit follows.            *)
(***************************************************************************)
RequestCall ==
    [op : {"submit", "approve", "reject", "verify"},
     pc : {"creating", "guarded", "ready", "selected", "saving"},
     id : Requests, leaveTypeId : LeaveTypes, totalDays : DayCounts,
     balance : BalanceEntity \cup {None}, dirty : SUBSET Column]

\* getEmployeeLeaveBalances that found no balance row at all.
SeedCall == [op |-> "balances"]

\* The absence of a row is not a row, and an idle handler seeds nothing.
ASSUME NoneAssumption == None \notin Balance \cup BalanceEntity \cup Request /\ None # SeedCall

TypeOK ==
    /\ leaveBalances \in [BalanceRows -> Balance \cup {None}]
    /\ leaveRequests \in [Requests -> Request \cup {None}]
    /\ leaveApprovals \in [Requests -> Seq(Decision)]
    /\ outbox \in [Requests -> Seq(EventType)]
    /\ auditLogs \subseteq Requests
    /\ calls \in [Handlers -> RequestCall \cup {SeedCall, None}]

Idle(h) == calls[h] = None
InRequestCall(h) == calls[h] # None /\ calls[h] # SeedCall
At(h, phase) == InRequestCall(h) /\ calls[h].pc = phase

FreeRows == {r \in BalanceRows : leaveBalances[r] = None}
RowsOf(t) == {r \in BalanceRows \ FreeRows : leaveBalances[r].leaveTypeId = t}
NewBalance(t) == [leaveTypeId |-> t, pendingDays |-> 0, usedDays |-> 0]

Unused(q) == leaveRequests[q] = None /\ \A h \in Handlers : InRequestCall(h) => calls[h].id # q

Init ==
    /\ leaveBalances = [r \in BalanceRows |-> None]
    /\ leaveRequests = [q \in Requests |-> None]
    /\ leaveApprovals = [q \in Requests |-> <<>>]
    /\ outbox = [q \in Requests |-> <<>>]
    /\ auditLogs = {}
    /\ calls = [h \in Handlers |-> None]

-----------------------------------------------------------------------------
(* What each handler reads, refuses and writes *)

\* The guard on availableDays: allocatedDays - usedDays - pendingDays >= totalDays.
EnoughDays_UsedOnly(t, b, d) == b.usedDays + d <= DefaultDays[t]
EnoughDays(t, b, d) == b.usedDays + b.pendingDays + d <= DefaultDays[t]

\* The statuses in which a decision passes its guard.
Accepted_VerifySubmitted(op) ==
    CASE op = "approve" -> {"SUBMITTED"}
      [] op = "reject" -> Status \ {"REJECTED", "PAYROLL_LOCKED"}
      [] op = "verify" -> {"SUBMITTED", "MANAGER_APPROVED"}
Accepted_ApproveAny(op) ==
    CASE op = "approve" -> Status \ {"PAYROLL_LOCKED"}
      [] op = "reject" -> Status \ {"REJECTED", "PAYROLL_LOCKED"}
      [] op = "verify" -> {"MANAGER_APPROVED"}
Accepted(op) ==
    CASE op = "approve" -> {"SUBMITTED"}
      [] op = "reject" -> Status \ {"REJECTED", "PAYROLL_LOCKED"}
      [] op = "verify" -> {"MANAGER_APPROVED"}

\* The status each decision writes, its approval row and its outbox event.
NewStatus(op) ==
    CASE op = "approve" -> "MANAGER_APPROVED"
      [] op = "reject" -> "REJECTED"
      [] op = "verify" -> "HR_VERIFIED"

DecisionRow_RejectApproves(op) == IF op = "verify" THEN "VERIFIED" ELSE "APPROVED"
DecisionRow(op) ==
    CASE op = "approve" -> "APPROVED"
      [] op = "reject" -> "REJECTED"
      [] op = "verify" -> "VERIFIED"

Event(op) ==
    CASE op = "submit" -> "leave.submitted"
      [] op = "approve" -> "leave.approved"
      [] op = "reject" -> "leave.rejected"
      [] op = "verify" -> "leave.verified"

\* Math.max(0, a - b)
Minus_Unbounded(a, b) == a - b
Minus(a, b) == IF a > b THEN a - b ELSE 0

\* The loaded balance b of row r, as op changes it in memory for d days.
Changed_RejectCharges(op, r, b, d) ==
    [row |-> r,
     pendingDays |-> IF op = "submit" THEN b.pendingDays + d ELSE Minus(b.pendingDays, d),
     usedDays |-> IF op # "submit" THEN b.usedDays + d ELSE b.usedDays]
Changed_VerifyKeepsPending(op, r, b, d) ==
    [row |-> r,
     pendingDays |-> CASE op = "submit" -> b.pendingDays + d
                       [] op = "reject" -> Minus(b.pendingDays, d)
                       [] op = "verify" -> b.pendingDays,
     usedDays |-> IF op = "verify" THEN b.usedDays + d ELSE b.usedDays]
Changed(op, r, b, d) ==
    [row |-> r,
     pendingDays |-> IF op = "submit" THEN b.pendingDays + d ELSE Minus(b.pendingDays, d),
     usedDays |-> IF op = "verify" THEN b.usedDays + d ELSE b.usedDays]

-----------------------------------------------------------------------------
(* submitLeaveRequest, before its transaction *)

SubmitCall(phase, q, t, d, b) ==
    [op |-> "submit", pc |-> phase, id |-> q, leaveTypeId |-> t, totalDays |-> d,
     balance |-> b, dirty |-> {}]

\* The balance is found, and covers the days: the transaction opens on the copy read here.
\* With several rows for the type, findOne has no order and returns any of them.
SubmitLeaveRequest(h, q, t, d) ==
    /\ Idle(h) /\ Unused(q)
    /\ \E r \in RowsOf(t) :
         /\ EnoughDays(t, leaveBalances[r], d)
         /\ calls' = [calls EXCEPT ![h] =
                        SubmitCall("ready", q, t, d, Changed("submit", r, leaveBalances[r], d))]
    /\ UNCHANGED tables

\* No balance row: it is about to be created.
SubmitWithoutBalance(h, q, t, d) ==
    /\ Idle(h) /\ Unused(q)
    /\ RowsOf(t) = {}
    /\ calls' = [calls EXCEPT ![h] = SubmitCall("creating", q, t, d, None)]
    /\ UNCHANGED tables

\* The insert of the balance row commits on its own; then the guard on the new row.
CreateBalance(h) ==
    /\ At(h, "creating") /\ calls[h].op = "submit"
    /\ LET c == calls[h]
           b == NewBalance(c.leaveTypeId)
       IN \E r \in FreeRows :
            /\ leaveBalances' = [leaveBalances EXCEPT ![r] = b]
            /\ calls' = [calls EXCEPT ![h] =
                 IF EnoughDays(c.leaveTypeId, b, c.totalDays)
                   THEN SubmitCall("ready", c.id, c.leaveTypeId, c.totalDays,
                                   Changed("submit", r, b, c.totalDays))
                   ELSE None]
    /\ UNCHANGED <<leaveRequests, leaveApprovals, outbox, auditLogs>>

-----------------------------------------------------------------------------
(* The decisions, before and at the start of their transactions *)

\* The request is read, outside the transaction, and its status passes the guard.
ReadRequest(h, op, q, phase) ==
    /\ Idle(h)
    /\ leaveRequests[q] # None
    /\ leaveRequests[q].status \in Accepted(op)
    /\ Len(leaveApprovals[q]) < MaxDecisions
    /\ calls' = [calls EXCEPT ![h] =
         [op |-> op, pc |-> phase, id |-> q,
          leaveTypeId |-> leaveRequests[q].leaveTypeId,
          totalDays |-> leaveRequests[q].totalDays,
          balance |-> None, dirty |-> {}]]
    /\ UNCHANGED tables

ApproveLeaveRequest(h, q) == ReadRequest(h, "approve", q, "ready")
RejectLeaveRequest(h, q) == ReadRequest(h, "reject", q, "guarded")
VerifyLeaveRequest(h, q) == ReadRequest(h, "verify", q, "guarded")

\* reject and verify read the balance inside the transaction, if there is one.
FoundBalances(c) ==
    IF RowsOf(c.leaveTypeId) = {} THEN {None}
    ELSE {Changed(c.op, r, leaveBalances[r], c.totalDays) : r \in RowsOf(c.leaveTypeId)}

FindBalance(h) ==
    /\ At(h, "guarded")
    /\ \E b \in FoundBalances(calls[h]) :
         calls' = [calls EXCEPT ![h].pc = "ready", ![h].balance = b]
    /\ UNCHANGED tables

-----------------------------------------------------------------------------
(* The transactions *)

\* The columns that the SELECT of a save finds different from the entity in memory.
BalanceColumns == {"pendingDays", "usedDays"}
DirtyBalance(c) == {k \in BalanceColumns : leaveBalances[c.balance.row][k] # c.balance[k]}
DirtyRequest(c) == IF leaveRequests[c.id].status = NewStatus(c.op) THEN {} ELSE {"status"}

\* The save of the balance: its SELECT.
SelectBalance(h) ==
    /\ At(h, "ready")
    /\ calls[h].balance # None
    /\ calls' = [calls EXCEPT ![h].pc = IF calls[h].op = "submit" THEN "saving" ELSE "selected",
                              ![h].dirty = DirtyBalance(calls[h])]
    /\ UNCHANGED tables

\* A decision that has updated its balance row holds the row until its transaction ends: the
\* UPDATE of another call waits.
UpdatesBalance(c) == c.balance # None /\ c.dirty \cap BalanceColumns # {}

RowLocked(h) ==
    \E g \in Handlers \ {h} :
        /\ At(g, "saving") /\ calls[g].op # "submit"
        /\ UpdatesBalance(calls[g]) /\ calls[g].balance.row = calls[h].balance.row

CanUpdateBalance(h) == UpdatesBalance(calls[h]) => ~RowLocked(h)

\* The UPDATE of the balance, if there is anything to update, and the SELECT of the save of
\* the request.
SelectRequest(h) ==
    /\ At(h, "selected") \/ (At(h, "ready") /\ calls[h].balance = None)
    /\ calls[h].op # "submit"
    /\ CanUpdateBalance(h)
    /\ calls' = [calls EXCEPT ![h].pc = "saving", ![h].dirty = @ \cup DirtyRequest(calls[h])]
    /\ UNCHANGED tables

\* The balance row after the UPDATE of its dirty columns.
SavedBalance(c) ==
    [leaveBalances[c.balance.row] EXCEPT
       !.pendingDays = IF "pendingDays" \in c.dirty THEN c.balance.pendingDays ELSE @,
       !.usedDays = IF "usedDays" \in c.dirty THEN c.balance.usedDays ELSE @]

SaveBalance(c) ==
    leaveBalances' = IF c.balance = None THEN leaveBalances
                     ELSE [leaveBalances EXCEPT ![c.balance.row] = SavedBalance(c)]

InsertEvent_OnlyOnChange(c) ==
    outbox' = IF c.op # "submit" /\ "status" \notin c.dirty THEN outbox
              ELSE [outbox EXCEPT ![c.id] = Append(@, Event(c.op))]
InsertEvent(c) == outbox' = [outbox EXCEPT ![c.id] = Append(@, Event(c.op))]

\* The transaction of submitLeaveRequest commits.
CommitSubmit(h) ==
    /\ At(h, "saving") /\ calls[h].op = "submit"
    /\ CanUpdateBalance(h)
    /\ LET c == calls[h]
       IN /\ SaveBalance(c)
          /\ leaveRequests' = [leaveRequests EXCEPT ![c.id] =
               [leaveTypeId |-> c.leaveTypeId, totalDays |-> c.totalDays, status |-> "SUBMITTED"]]
          /\ InsertEvent(c)
          /\ auditLogs' = auditLogs \cup {c.id}
    /\ calls' = [calls EXCEPT ![h] = None]
    /\ UNCHANGED leaveApprovals

\* The transaction of approve, reject or verify commits.
CommitDecision(h) ==
    /\ At(h, "saving") /\ calls[h].op # "submit"
    /\ LET c == calls[h]
       IN /\ SaveBalance(c)
          /\ leaveRequests' = IF "status" \in c.dirty
               THEN [leaveRequests EXCEPT ![c.id].status = NewStatus(c.op)]
               ELSE leaveRequests
          /\ leaveApprovals' = [leaveApprovals EXCEPT ![c.id] = Append(@, DecisionRow(c.op))]
          /\ InsertEvent(c)
    /\ calls' = [calls EXCEPT ![h] = None]
    /\ UNCHANGED auditLogs

\* A statement fails, the connection is lost or the process dies: what the call had not
\* committed is rolled back.  A balance row that submit created stays.
Abort(h) ==
    /\ ~Idle(h)
    /\ calls' = [calls EXCEPT ![h] = None]
    /\ UNCHANGED tables

-----------------------------------------------------------------------------
(* getEmployeeLeaveBalances *)

NothingToSeed_AnyTypeMissing == \A t \in LeaveTypes : RowsOf(t) # {}
NothingToSeed == BalanceRows # FreeRows

GetEmployeeLeaveBalances(h) ==
    /\ Idle(h)
    /\ calls' = IF NothingToSeed THEN calls ELSE [calls EXCEPT ![h] = SeedCall]
    /\ UNCHANGED tables

\* One save() of the new rows, one transaction: a row for each leave type.
SeedBalances(h) ==
    /\ calls[h] = SeedCall
    /\ \E new \in [LeaveTypes -> FreeRows] :
         /\ \A t, u \in LeaveTypes : t # u => new[t] # new[u]
         /\ leaveBalances' = [r \in BalanceRows |->
              IF \E t \in LeaveTypes : new[t] = r
                THEN NewBalance(CHOOSE t \in LeaveTypes : new[t] = r)
                ELSE leaveBalances[r]]
    /\ calls' = [calls EXCEPT ![h] = None]
    /\ UNCHANGED <<leaveRequests, leaveApprovals, outbox, auditLogs>>

-----------------------------------------------------------------------------

Submit(h) ==
    \E q \in Requests, t \in LeaveTypes, d \in DayCounts :
        SubmitLeaveRequest(h, q, t, d) \/ SubmitWithoutBalance(h, q, t, d)

Decide(h) ==
    \E q \in Requests :
        ApproveLeaveRequest(h, q) \/ RejectLeaveRequest(h, q) \/ VerifyLeaveRequest(h, q)

Next ==
    \E h \in Handlers :
        \/ Submit(h) \/ CreateBalance(h)
        \/ Decide(h) \/ FindBalance(h)
        \/ SelectBalance(h) \/ SelectRequest(h) \/ CommitSubmit(h) \/ CommitDecision(h) \/ Abort(h)
        \/ GetEmployeeLeaveBalances(h) \/ SeedBalances(h)

Spec == Init /\ [][Next]_vars

-----------------------------------------------------------------------------
(* Properties that hold however many calls overlap *)

Exists(q) == leaveRequests[q] # None
Has(q, decision) == \E i \in 1..Len(leaveApprovals[q]) : leaveApprovals[q][i] = decision

\* Every HR verification in a request's history comes after a manager's approval of the same
\* request, although verify checks the status outside its transaction and other calls may
\* have changed it by the time it commits.
VerifiedOnlyAfterApproval ==
    \A q \in Requests : \A i \in 1..Len(leaveApprovals[q]) :
        leaveApprovals[q][i] = "VERIFIED" =>
            \E j \in 1..(i - 1) : leaveApprovals[q][j] = "APPROVED"

\* The status of a request is one that a committed decision wrote, and a request with no
\* decision yet is the only one in SUBMITTED: a stale save never resurrects SUBMITTED.
StatusBackedByDecision ==
    \A q \in Requests : Exists(q) =>
        LET status == leaveRequests[q].status IN
        /\ status = "SUBMITTED" <=> leaveApprovals[q] = <<>>
        /\ status = "MANAGER_APPROVED" => Has(q, "APPROVED")
        /\ status = "REJECTED" => Has(q, "REJECTED")
        /\ status = "HR_VERIFIED" => Has(q, "VERIFIED")

\* Transactional outbox: the events of a request are leave.submitted and then one for each
\* approval row in the same order, whichever transactions aborted, and no event exists of a
\* request that was never inserted.
EventOfDecision(decision) ==
    CASE decision = "APPROVED" -> "leave.approved"
      [] decision = "REJECTED" -> "leave.rejected"
      [] decision = "VERIFIED" -> "leave.verified"

OutboxMatchesHistory ==
    \A q \in Requests :
        IF Exists(q)
        THEN /\ Len(outbox[q]) = Len(leaveApprovals[q]) + 1
             /\ outbox[q][1] = "leave.submitted"
             /\ \A i \in 1..Len(leaveApprovals[q]) :
                  outbox[q][i + 1] = EventOfDecision(leaveApprovals[q][i])
             /\ q \in auditLogs
        ELSE outbox[q] = <<>> /\ leaveApprovals[q] = <<>> /\ q \notin auditLogs

\* What a call in progress read earlier and relies on at its commit.
Backed(c) ==
    /\ c.op = "submit" => ~Exists(c.id)
    /\ c.op # "submit" => Exists(c.id)
    /\ c.balance # None => c.balance.row \notin FreeRows
    /\ c.op = "verify" => Has(c.id, "APPROVED")
    /\ c.op # "submit" /\ c.pc = "saving" /\ "status" \notin c.dirty =>
         leaveRequests[c.id].status # "SUBMITTED"

\* Whatever commits between a call's guard and its own commit, the call still finds what it
\* relies on: a submission's id is its own, a decision's request and a loaded balance row
\* exist, a verification's request has been approved, and a save that leaves the status
\* alone does not leave SUBMITTED behind.
CallsBacked ==
    \A h \in Handlers : InRequestCall(h) =>
        /\ Backed(calls[h])
        /\ calls[h].op = "submit" =>
             \A g \in Handlers \ {h} : InRequestCall(g) => calls[g].id # calls[h].id

\* Days of the given requests, and days recorded in a column of a type's balance rows.
Days(S) == SumFunction([q \in S |-> leaveRequests[q].totalDays])
Recorded(t, k) == SumFunction([r \in RowsOf(t) |-> leaveBalances[r][k]])
OfType(t) == {q \in Requests : Exists(q) /\ leaveRequests[q].leaveTypeId = t}
Verifications(q) == {i \in 1..Len(leaveApprovals[q]) : leaveApprovals[q][i] = "VERIFIED"}

\* The days of the HR verifications that were committed.
VerifiedDays(t) ==
    SumFunction([q \in OfType(t) |-> leaveRequests[q].totalDays * Cardinality(Verifications(q))])

\* No lost update, stale save or duplicate balance row charges an employee more used days
\* than the HR verifications that were committed.
UsedNeverOverstated ==
    \A t \in LeaveTypes : Recorded(t, "usedDays") <= VerifiedDays(t)

-----------------------------------------------------------------------------
(* Properties that hold when calls do not overlap (aborts included) *)

InStatus(t, S) == {q \in OfType(t) : leaveRequests[q].status \in S}

\* An employee never has two balance rows for one leave type: nothing in the schema
\* says so, only the order of the finds and the inserts does.
OneRowPerType == \A t \in LeaveTypes : Cardinality(RowsOf(t)) <= 1

\* The days of the requests that are submitted, approved or verified never exceed the
\* allocation: submitLeaveRequest's guard, kept by every decision and every abort.
NeverOverAllocated ==
    \A t \in LeaveTypes :
        Days(InStatus(t, {"SUBMITTED", "MANAGER_APPROVED", "HR_VERIFIED"})) <= DefaultDays[t]

\* usedDays is what HR verified.  pendingDays never exceeds what is waiting for a decision,
\* and equals it unless a request was rejected after its verification: reject then gives
\* back, from the other requests' pending days, days that are already used.
LedgerMatchesHistory ==
    \A t \in LeaveTypes :
        LET open == Days(InStatus(t, {"SUBMITTED", "MANAGER_APPROVED"})) IN
        /\ Recorded(t, "usedDays") = Days({q \in OfType(t) : Has(q, "VERIFIED")})
        /\ Recorded(t, "pendingDays") <= open
        /\ (\A q \in OfType(t) : ~(Has(q, "VERIFIED") /\ Has(q, "REJECTED"))) =>
             Recorded(t, "pendingDays") = open

StatusSteps ==
    {<<"SUBMITTED", "MANAGER_APPROVED">>, <<"SUBMITTED", "REJECTED">>,
     <<"MANAGER_APPROVED", "HR_VERIFIED">>, <<"MANAGER_APPROVED", "REJECTED">>}

Moves(q, steps) ==
    Exists(q) /\ leaveRequests'[q].status # leaveRequests[q].status =>
        <<leaveRequests[q].status, leaveRequests'[q].status>> \in steps

\* A request's status moves only along the state machine of docs/backend/lld.md:81-88, plus
\* the step the code adds to it: a verified request can still be rejected.
StatusFollowsGuards ==
    [][\A q \in Requests : Moves(q, StatusSteps \cup {<<"HR_VERIFIED", "REJECTED">>})]_vars

-----------------------------------------------------------------------------
(* What the documents say, and the code does not do *)

\* docs/backend/lld.md:87: REJECTED is a final status.
RejectedIsFinal ==
    [][\A q \in Requests :
         Exists(q) /\ leaveRequests[q].status = "REJECTED" =>
             leaveRequests'[q].status = "REJECTED"]_vars

=============================================================================

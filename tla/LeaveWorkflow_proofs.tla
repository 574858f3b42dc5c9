------------------------ MODULE LeaveWorkflow_proofs ------------------------
(***************************************************************************)
(* Theorems about LeaveWorkflow, for every set of handlers, requests,      *)
(* balance rows and leave types, every allocation and every bound.         *)
(*                                                                         *)
(*   TypeCorrect          Spec => []TypeOK                                 *)
(*   InvariantHolds       Spec => []IInv, the inductive invariant          *)
(*   ...                  and the safety properties it implies             *)
(*   UsedIsVerified       Spec => []UsedNeverOverstated, from ChargeInv    *)
(***************************************************************************)
EXTENDS LeaveWorkflow, Sums_proofs

-----------------------------------------------------------------------------
(* Types *)

\* A handler whose call is neither idle nor a seeding is in a RequestCall.
LEMMA CallTyped ==
    ASSUME TypeOK, NEW h \in Handlers, InRequestCall(h)
    PROVE  calls[h] \in RequestCall
  BY DEF TypeOK, InRequestCall

\* What a handler makes of a balance row it loaded is a balance entity: the column arithmetic
\* of submit, reject and verify never leaves the natural numbers.
LEMMA ChangedTyped ==
    ASSUME NEW op, NEW r \in BalanceRows, NEW b \in Balance, NEW d \in DayCounts
    PROVE  Changed(op, r, b, d) \in BalanceEntity
  <1>1. d \in Nat
    BY LeaveAssumption DEF LeaveAssumption
  <1>2. b.pendingDays \in Nat /\ b.usedDays \in Nat
    BY DEF Balance
  <1>3. Minus(b.pendingDays, d) \in Nat
    BY <1>1, <1>2 DEF Minus
  <1> QED
    BY <1>1, <1>2, <1>3 DEF Changed, BalanceEntity

\* A row of a leave type exists, and is a balance of that type.
LEMMA RowTyped ==
    ASSUME TypeOK, NEW t, NEW r \in RowsOf(t)
    PROVE  r \in BalanceRows /\ leaveBalances[r] \in Balance
  BY DEF TypeOK, RowsOf, FreeRows

\* A call's UPDATE of its balance row leaves the table typed.
LEMMA SaveBalanceTyped ==
    ASSUME TypeOK, NEW c \in RequestCall, SaveBalance(c),
           c.balance # None => c.balance.row \notin FreeRows
    PROVE  leaveBalances' \in [BalanceRows -> Balance \cup {None}]
  <1>1. CASE c.balance = None
    BY <1>1 DEF SaveBalance, TypeOK
  <1>2. CASE c.balance # None
    <2>1. c.balance \in BalanceEntity
      BY <1>2 DEF RequestCall
    <2>2. leaveBalances[c.balance.row] \in Balance
      BY <1>2, <2>1 DEF TypeOK, BalanceEntity, FreeRows
    <2>3. SavedBalance(c) \in Balance
      BY <2>1, <2>2 DEF SavedBalance, Balance, BalanceEntity
    <2> QED
      BY <1>2, <2>1, <2>3 DEF SaveBalance, TypeOK
  <1> QED
    BY <1>1, <1>2


\* A new call of submit, with no balance or a loaded one, is a RequestCall.
LEMMA SubmitCallTyped ==
    ASSUME NEW phase \in {"creating", "ready"}, NEW q \in Requests, NEW t \in LeaveTypes,
           NEW d \in DayCounts, NEW b \in BalanceEntity \cup {None}
    PROVE  SubmitCall(phase, q, t, d, b) \in RequestCall
  BY DEF SubmitCall, RequestCall

-----------------------------------------------------------------------------
(* Type correctness is inductive with CallsBacked: an UPDATE needs its row to exist. *)

\* Every step keeps the types.
LEMMA TypeStep ==
    ASSUME TypeOK, CallsBacked, [Next]_vars
    PROVE  TypeOK'
  <1>1. CASE UNCHANGED vars
    BY <1>1 DEF vars, tables, TypeOK
  <1>2. ASSUME NEW h \in Handlers, NEW q \in Requests, NEW t \in LeaveTypes, NEW d \in DayCounts,
               SubmitLeaveRequest(h, q, t, d)
        PROVE  TypeOK'
    <2>1. PICK r \in RowsOf(t) :
            calls' = [calls EXCEPT ![h] =
                        SubmitCall("ready", q, t, d, Changed("submit", r, leaveBalances[r], d))]
      BY <1>2 DEF SubmitLeaveRequest
    <2>2. SubmitCall("ready", q, t, d, Changed("submit", r, leaveBalances[r], d)) \in RequestCall
      BY RowTyped, ChangedTyped, SubmitCallTyped
    <2> QED
      BY <1>2, <2>1, <2>2 DEF SubmitLeaveRequest, tables, TypeOK
  <1>3. ASSUME NEW h \in Handlers, NEW q \in Requests, NEW t \in LeaveTypes, NEW d \in DayCounts,
               SubmitWithoutBalance(h, q, t, d)
        PROVE  TypeOK'
    <2>1. SubmitCall("creating", q, t, d, None) \in RequestCall
      BY SubmitCallTyped
    <2> QED
      BY <1>3, <2>1 DEF SubmitWithoutBalance, tables, TypeOK
  <1>4. ASSUME NEW h \in Handlers, CreateBalance(h)
        PROVE  TypeOK'
    <2> DEFINE c == calls[h]
               b == NewBalance(c.leaveTypeId)
    <2>1. c \in RequestCall
      BY <1>4, CallTyped DEF CreateBalance, At
    <2>2. b \in Balance
      BY <2>1 DEF RequestCall, NewBalance, Balance
    <2>3. PICK r \in FreeRows :
            /\ leaveBalances' = [leaveBalances EXCEPT ![r] = b]
            /\ calls' = [calls EXCEPT ![h] =
                 IF EnoughDays(c.leaveTypeId, b, c.totalDays)
                   THEN SubmitCall("ready", c.id, c.leaveTypeId, c.totalDays,
                                   Changed("submit", r, b, c.totalDays))
                   ELSE None]
      BY <1>4 DEF CreateBalance
    <2>4. r \in BalanceRows
      BY DEF FreeRows
    <2>5. SubmitCall("ready", c.id, c.leaveTypeId, c.totalDays,
                     Changed("submit", r, b, c.totalDays)) \in RequestCall
      <3>1. c.id \in Requests /\ c.leaveTypeId \in LeaveTypes /\ c.totalDays \in DayCounts
        BY <2>1 DEF RequestCall
      <3> HIDE DEF b, c
      <3> QED
        BY <2>2, <2>4, <3>1, ChangedTyped, SubmitCallTyped
    <2>6. leaveBalances' \in [BalanceRows -> Balance \cup {None}]
      <3> HIDE DEF b
      <3> QED
        BY <2>2, <2>3, <2>4 DEF TypeOK
    <2>7. calls' \in [Handlers -> RequestCall \cup {SeedCall, None}]
      <3> HIDE DEF b, c
      <3> QED
        BY <2>3, <2>5 DEF TypeOK
    <2> QED
      BY <1>4, <2>6, <2>7 DEF CreateBalance, TypeOK
  <1>5. ASSUME NEW h \in Handlers, NEW q \in Requests,
               NEW op \in {"approve", "reject", "verify"}, NEW phase \in {"guarded", "ready"},
               ReadRequest(h, op, q, phase)
        PROVE  TypeOK'
    <2>1. leaveRequests[q] \in Request
      BY <1>5 DEF ReadRequest, TypeOK
    <2>2. [op |-> op, pc |-> phase, id |-> q,
           leaveTypeId |-> leaveRequests[q].leaveTypeId,
           totalDays |-> leaveRequests[q].totalDays,
           balance |-> None, dirty |-> {}] \in RequestCall
      BY <2>1 DEF Request, RequestCall
    <2> QED
      BY <1>5, <2>2 DEF ReadRequest, tables, TypeOK
  <1>6. ASSUME NEW h \in Handlers, FindBalance(h)
        PROVE  TypeOK'
    <2>1. calls[h] \in RequestCall
      BY <1>6, CallTyped DEF FindBalance, At
    <2>2. FoundBalances(calls[h]) \subseteq BalanceEntity \cup {None}
      BY <2>1, RowTyped, ChangedTyped DEF FoundBalances, RequestCall
    <2>3. PICK b \in FoundBalances(calls[h]) :
            calls' = [calls EXCEPT ![h].pc = "ready", ![h].balance = b]
      BY <1>6 DEF FindBalance
    <2>4. [calls[h] EXCEPT !.pc = "ready", !.balance = b] \in RequestCall
      BY <2>1, <2>2 DEF RequestCall
    <2>5. calls' = [calls EXCEPT ![h] = [calls[h] EXCEPT !.pc = "ready", !.balance = b]]
      BY <2>3 DEF TypeOK
    <2> QED
      BY <1>6, <2>4, <2>5 DEF FindBalance, tables, TypeOK
  <1>7. ASSUME NEW h \in Handlers, SelectBalance(h) \/ SelectRequest(h)
        PROVE  TypeOK'
    <2>1. calls[h] \in RequestCall
      BY <1>7, CallTyped DEF SelectBalance, SelectRequest, At
    <2>2. DirtyBalance(calls[h]) \subseteq Column /\ DirtyRequest(calls[h]) \subseteq Column
      BY DEF DirtyBalance, DirtyRequest, BalanceColumns, Column
    <2>3. PICK p \in {"selected", "saving"}, D \in SUBSET Column :
            calls' = [calls EXCEPT ![h].pc = p, ![h].dirty = D]
      <3>1. CASE SelectBalance(h)
        BY <2>2, <3>1 DEF SelectBalance
      <3>2. CASE SelectRequest(h)
        <4>1. calls[h].dirty \cup DirtyRequest(calls[h]) \in SUBSET Column
          BY <2>1, <2>2 DEF RequestCall
        <4> QED
          BY <3>2, <4>1, <2>1 DEF SelectRequest, TypeOK
      <3> QED
        BY <1>7, <3>1, <3>2
    <2>4. [calls[h] EXCEPT !.pc = p, !.dirty = D] \in RequestCall
      BY <2>1 DEF RequestCall
    <2> QED
      BY <1>7, <2>3, <2>4 DEF SelectBalance, SelectRequest, tables, TypeOK
  <1>8. ASSUME NEW h \in Handlers, CommitSubmit(h)
        PROVE  TypeOK'
    <2>1. calls[h] \in RequestCall
      BY <1>8, CallTyped DEF CommitSubmit, At
    <2>2. leaveBalances' \in [BalanceRows -> Balance \cup {None}]
      BY <1>8, <2>1, SaveBalanceTyped DEF CommitSubmit, At, CallsBacked, Backed
    <2>3. leaveRequests' \in [Requests -> Request \cup {None}]
      BY <1>8, <2>1 DEF CommitSubmit, TypeOK, RequestCall, Request, Status
    <2>4. outbox' \in [Requests -> Seq(EventType)]
      BY <1>8, <2>1 DEF CommitSubmit, InsertEvent, Event, TypeOK, RequestCall, EventType
    <2> QED
      BY <1>8, <2>1, <2>2, <2>3, <2>4 DEF CommitSubmit, TypeOK, RequestCall
  <1>9. ASSUME NEW h \in Handlers, CommitDecision(h)
        PROVE  TypeOK'
    <2> DEFINE c == calls[h]
    <2>1. c \in RequestCall /\ c.op \in {"approve", "reject", "verify"}
      BY <1>9, CallTyped DEF CommitDecision, At, RequestCall
    <2>2. leaveBalances' \in [BalanceRows -> Balance \cup {None}]
      BY <1>9, <2>1, SaveBalanceTyped DEF CommitDecision, At, CallsBacked, Backed
    <2>3. leaveRequests[c.id] \in Request
      BY <1>9, <2>1 DEF CommitDecision, At, CallsBacked, Backed, Exists, TypeOK, RequestCall
    <2>4. leaveRequests' \in [Requests -> Request \cup {None}]
      <3>1. NewStatus(c.op) \in Status
        BY <2>1 DEF NewStatus, Status
      <3>2. [leaveRequests[c.id] EXCEPT !.status = NewStatus(c.op)] \in Request
        BY <2>3, <3>1 DEF Request
      <3> QED
        BY <1>9, <3>2 DEF CommitDecision, TypeOK
    <2>5. leaveApprovals' \in [Requests -> Seq(Decision)]
      <3>1. DecisionRow(c.op) \in Decision
        BY <2>1 DEF DecisionRow, Decision
      <3> QED
        BY <1>9, <2>1, <3>1 DEF CommitDecision, TypeOK, RequestCall
    <2>6. outbox' \in [Requests -> Seq(EventType)]
      <3>1. Event(c.op) \in EventType
        BY <2>1 DEF Event, EventType
      <3> QED
        BY <1>9, <2>1, <3>1 DEF CommitDecision, InsertEvent, TypeOK, RequestCall
    <2> QED
      BY <1>9, <2>2, <2>4, <2>5, <2>6 DEF CommitDecision, TypeOK
  <1>10. ASSUME NEW h \in Handlers, Abort(h)
         PROVE  TypeOK'
    BY <1>10 DEF Abort, tables, TypeOK
  <1>11. ASSUME NEW h \in Handlers, GetEmployeeLeaveBalances(h)
         PROVE  TypeOK'
    BY <1>11 DEF GetEmployeeLeaveBalances, tables, TypeOK
  <1>12. ASSUME NEW h \in Handlers, SeedBalances(h)
         PROVE  TypeOK'
    <2>1. \A t \in LeaveTypes : NewBalance(t) \in Balance
      BY DEF NewBalance, Balance
    <2> QED
      BY <1>12, <2>1 DEF SeedBalances, TypeOK
  <1> QED
    BY <1>1, <1>2, <1>3, <1>4, <1>5, <1>6, <1>7, <1>8, <1>9, <1>10, <1>11, <1>12
    DEF Next, Submit, Decide, ApproveLeaveRequest, RejectLeaveRequest, VerifyLeaveRequest

-----------------------------------------------------------------------------
(* What a step does to the history of the requests *)

history == <<leaveRequests, leaveApprovals, outbox, auditLogs>>

\* Only the two commits change the requests, their approval rows and their events.
LEMMA OnlyCommitsWriteHistory ==
    ASSUME [Next]_vars
    PROVE  \/ UNCHANGED history
           \/ \E h \in Handlers : CommitSubmit(h) \/ CommitDecision(h)
  <1>1. CASE UNCHANGED vars
    BY <1>1 DEF vars, tables, history
  <1>2. ASSUME NEW h \in Handlers, Submit(h) \/ CreateBalance(h)
        PROVE  UNCHANGED history
    BY <1>2 DEF Submit, SubmitLeaveRequest, SubmitWithoutBalance, CreateBalance, tables, history
  <1>3. ASSUME NEW h \in Handlers, Decide(h) \/ FindBalance(h) \/ SelectBalance(h)
                                     \/ SelectRequest(h) \/ Abort(h)
        PROVE  UNCHANGED history
    BY <1>3 DEF Decide, ApproveLeaveRequest, RejectLeaveRequest, VerifyLeaveRequest, ReadRequest,
                FindBalance, SelectBalance, SelectRequest, Abort, tables, history
  <1>4. ASSUME NEW h \in Handlers, GetEmployeeLeaveBalances(h) \/ SeedBalances(h)
        PROVE  UNCHANGED history
    BY <1>4 DEF GetEmployeeLeaveBalances, SeedBalances, tables, history
  <1> QED
    BY <1>1, <1>2, <1>3, <1>4 DEF Next

\* A submission that commits inserts a request that did not exist, and its first event.
LEMMA CommitSubmitWrites ==
    ASSUME TypeOK, CallsBacked, NEW h \in Handlers, CommitSubmit(h)
    PROVE  \E q \in Requests :
           /\ q = calls[h].id /\ leaveRequests[q] = None
           /\ leaveRequests'[q] \in Request /\ leaveRequests'[q].status = "SUBMITTED"
           /\ leaveApprovals' = leaveApprovals
           /\ outbox'[q] = Append(outbox[q], "leave.submitted")
           /\ auditLogs' = auditLogs \cup {q}
           /\ \A p \in Requests \ {q} :
                leaveRequests'[p] = leaveRequests[p] /\ outbox'[p] = outbox[p]
  <1> DEFINE q == calls[h].id
  <1>1. calls[h] \in RequestCall /\ calls[h].op = "submit"
    BY CallTyped DEF CommitSubmit, At
  <1>2. q \in Requests /\ leaveRequests[q] = None
    BY <1>1 DEF CommitSubmit, At, CallsBacked, Backed, Exists, RequestCall
  <1>3. leaveRequests'[q] \in Request /\ leaveRequests'[q].status = "SUBMITTED"
    BY <1>1, <1>2 DEF CommitSubmit, TypeOK, RequestCall, Request, Status
  <1>4. /\ outbox'[q] = Append(outbox[q], "leave.submitted")
        /\ \A p \in Requests \ {q} :
             leaveRequests'[p] = leaveRequests[p] /\ outbox'[p] = outbox[p]
    BY <1>1, <1>2 DEF CommitSubmit, InsertEvent, Event, TypeOK
  <1> QED
    BY <1>2, <1>3, <1>4 DEF CommitSubmit

\* A decision that commits appends its row and its event to an existing request, and leaves
\* it in the decision's status, or in the status it had if the save saw nothing to change.
LEMMA CommitDecisionWrites ==
    ASSUME TypeOK, CallsBacked, NEW h \in Handlers, CommitDecision(h)
    PROVE  \E q \in Requests, op \in {"approve", "reject", "verify"} :
           /\ q = calls[h].id /\ op = calls[h].op
           /\ leaveRequests[q] # None /\ leaveRequests'[q] # None
           /\ leaveRequests'[q].leaveTypeId = leaveRequests[q].leaveTypeId
           /\ leaveRequests'[q].totalDays = leaveRequests[q].totalDays
           /\ op = "verify" => Has(q, "APPROVED")
           /\ \/ leaveRequests'[q].status = NewStatus(op)
              \/ /\ leaveRequests'[q].status = leaveRequests[q].status
                 /\ leaveRequests[q].status # "SUBMITTED"
           /\ leaveApprovals'[q] = Append(leaveApprovals[q], DecisionRow(op))
           /\ outbox'[q] = Append(outbox[q], Event(op))
           /\ auditLogs' = auditLogs
           /\ \A p \in Requests \ {q} :
                /\ leaveRequests'[p] = leaveRequests[p]
                /\ leaveApprovals'[p] = leaveApprovals[p]
                /\ outbox'[p] = outbox[p]
  <1> DEFINE c == calls[h]
             q == c.id
  <1>1. c \in RequestCall /\ c.op \in {"approve", "reject", "verify"}
    BY CallTyped DEF CommitDecision, At, RequestCall
  <1>2. /\ q \in Requests /\ leaveRequests[q] # None /\ leaveRequests[q] \in Request
        /\ c.op = "verify" => Has(q, "APPROVED")
    BY <1>1 DEF CommitDecision, At, CallsBacked, Backed, Exists, RequestCall, TypeOK
  <1>3. "status" \notin c.dirty => leaveRequests[q].status # "SUBMITTED"
    BY <1>1 DEF CommitDecision, At, CallsBacked, Backed
  <1>4. /\ leaveApprovals'[q] = Append(leaveApprovals[q], DecisionRow(c.op))
        /\ outbox'[q] = Append(outbox[q], Event(c.op))
        /\ \A p \in Requests \ {q} :
             leaveApprovals'[p] = leaveApprovals[p] /\ outbox'[p] = outbox[p]
    BY <1>2 DEF CommitDecision, InsertEvent, TypeOK
  <1>5. \A p \in Requests \ {q} : leaveRequests'[p] = leaveRequests[p]
    BY <1>2 DEF CommitDecision, TypeOK
  <1>6. CASE "status" \in c.dirty
    <2>1. leaveRequests'[q] = [leaveRequests[q] EXCEPT !.status = NewStatus(c.op)]
      BY <1>2, <1>6 DEF CommitDecision, TypeOK
    <2>2. NewStatus(c.op) \in Status
      BY <1>1 DEF NewStatus, Status
    <2>3. leaveRequests'[q] \in Request /\ leaveRequests'[q].status = NewStatus(c.op)
      BY <1>2, <2>1, <2>2 DEF Request
    <2>4. leaveRequests'[q] # None
      BY <2>3, NoneAssumption
    <2>5. /\ leaveRequests'[q].leaveTypeId = leaveRequests[q].leaveTypeId
          /\ leaveRequests'[q].totalDays = leaveRequests[q].totalDays
      BY <1>2, <2>1 DEF Request
    <2> QED
      BY <1>1, <1>2, <1>4, <1>5, <2>3, <2>4, <2>5 DEF CommitDecision
  <1>7. CASE "status" \notin c.dirty
    <2>1. leaveRequests' = leaveRequests
      BY <1>7 DEF CommitDecision
    <2> QED
      BY <1>1, <1>2, <1>3, <1>4, <1>5, <1>7, <2>1 DEF CommitDecision
  <1> QED
    BY <1>6, <1>7

-----------------------------------------------------------------------------
(* The history invariants *)

\* The status, the approval row and the event of each decision.
LEMMA DecisionTable ==
    /\ NewStatus("approve") = "MANAGER_APPROVED"
    /\ NewStatus("reject") = "REJECTED"
    /\ NewStatus("verify") = "HR_VERIFIED"
    /\ DecisionRow("approve") = "APPROVED"
    /\ DecisionRow("reject") = "REJECTED"
    /\ DecisionRow("verify") = "VERIFIED"
    /\ Event("approve") = EventOfDecision("APPROVED")
    /\ Event("reject") = EventOfDecision("REJECTED")
    /\ Event("verify") = EventOfDecision("VERIFIED")
  <1>1. /\ NewStatus("approve") = "MANAGER_APPROVED"
        /\ NewStatus("reject") = "REJECTED"
        /\ NewStatus("verify") = "HR_VERIFIED"
    BY DEF NewStatus
  <1>2. /\ DecisionRow("approve") = "APPROVED"
        /\ DecisionRow("reject") = "REJECTED"
        /\ DecisionRow("verify") = "VERIFIED"
    BY DEF DecisionRow
  <1>3. /\ Event("approve") = "leave.approved"
        /\ Event("reject") = "leave.rejected"
        /\ Event("verify") = "leave.verified"
    BY DEF Event
  <1>4. /\ EventOfDecision("APPROVED") = "leave.approved"
        /\ EventOfDecision("REJECTED") = "leave.rejected"
        /\ EventOfDecision("VERIFIED") = "leave.verified"
    BY DEF EventOfDecision
  <1> QED
    BY <1>1, <1>2, <1>3, <1>4

\* A decision in a request's history stays there.
LEMMA HasPersists ==
    ASSUME TypeOK, CallsBacked, [Next]_vars, NEW q \in Requests, NEW decision \in Decision,
           Has(q, decision)
    PROVE  Has(q, decision)'
  <1>1. leaveApprovals[q] \in Seq(Decision)
    BY DEF TypeOK
  <1>2. \/ leaveApprovals'[q] = leaveApprovals[q]
        \/ \E row : leaveApprovals'[q] = Append(leaveApprovals[q], row)
    BY OnlyCommitsWriteHistory, CommitSubmitWrites, CommitDecisionWrites DEF history
  <1> QED
    BY <1>1, <1>2 DEF Has

\* A decision just appended is in the history.
LEMMA HasAppended ==
    ASSUME TypeOK, NEW q \in Requests, NEW decision \in Decision,
           leaveApprovals'[q] = Append(leaveApprovals[q], decision)
    PROVE  Has(q, decision)'
  <1>1. leaveApprovals[q] \in Seq(Decision)
    BY DEF TypeOK
  <1>2. /\ Len(leaveApprovals'[q]) = Len(leaveApprovals[q]) + 1
        /\ leaveApprovals'[q][Len(leaveApprovals[q]) + 1] = decision
    BY <1>1
  <1> QED
    BY <1>1, <1>2 DEF Has

\* No step puts a verification before every approval: the only verification appended is that
\* of a call whose request has been approved (CallsBacked).
LEMMA VerifiedStep ==
    ASSUME TypeOK, CallsBacked, VerifiedOnlyAfterApproval, [Next]_vars
    PROVE  VerifiedOnlyAfterApproval'
  <1>1. CASE UNCHANGED history
    BY <1>1 DEF history, VerifiedOnlyAfterApproval
  <1>2. ASSUME NEW h \in Handlers, CommitSubmit(h)
        PROVE  VerifiedOnlyAfterApproval'
    BY <1>2, CommitSubmitWrites DEF VerifiedOnlyAfterApproval
  <1>3. ASSUME NEW h \in Handlers, CommitDecision(h)
        PROVE  VerifiedOnlyAfterApproval'
    <2>1. PICK q \in Requests, op \in {"approve", "reject", "verify"} :
            /\ op = "verify" => Has(q, "APPROVED")
            /\ leaveApprovals'[q] = Append(leaveApprovals[q], DecisionRow(op))
            /\ \A p \in Requests \ {q} : leaveApprovals'[p] = leaveApprovals[p]
      BY <1>3, CommitDecisionWrites
    <2> DEFINE rows == leaveApprovals[q]
    <2>2. rows \in Seq(Decision)
      BY <2>1 DEF TypeOK
    <2>3. DecisionRow(op) = "VERIFIED" => \E j \in 1..Len(rows) : rows[j] = "APPROVED"
      BY <2>1, DecisionTable DEF Has
    <2>4. ASSUME NEW i \in 1..Len(leaveApprovals'[q]), leaveApprovals'[q][i] = "VERIFIED"
          PROVE  \E j \in 1..(i - 1) : leaveApprovals'[q][j] = "APPROVED"
      <3>1. Len(leaveApprovals'[q]) = Len(rows) + 1
        BY <2>1, <2>2
      <3>2. \A j \in 1..Len(rows) : leaveApprovals'[q][j] = rows[j]
        BY <2>1, <2>2
      <3>3. CASE i = Len(rows) + 1
        <4>1. DecisionRow(op) = "VERIFIED"
          BY <2>1, <2>2, <2>4, <3>3
        <4> QED
          BY <2>2, <2>3, <3>2, <3>3, <4>1
      <3>4. CASE i \in 1..Len(rows)
        <4>1. PICK j \in 1..(i - 1) : rows[j] = "APPROVED"
          BY <2>1, <2>4, <3>2, <3>4 DEF VerifiedOnlyAfterApproval
        <4> QED
          BY <2>2, <3>2, <3>4, <4>1
      <3> QED
        BY <2>2, <3>1, <3>3, <3>4
    <2>5. ASSUME NEW p \in Requests \ {q}, NEW i \in 1..Len(leaveApprovals'[p]),
                 leaveApprovals'[p][i] = "VERIFIED"
          PROVE  \E j \in 1..(i - 1) : leaveApprovals'[p][j] = "APPROVED"
      BY <2>1, <2>5 DEF VerifiedOnlyAfterApproval
    <2> QED
      BY <2>1, <2>4, <2>5 DEF VerifiedOnlyAfterApproval
  <1> QED
    BY <1>1, <1>2, <1>3, OnlyCommitsWriteHistory

\* No step leaves a status without the decision that wrote it, nor SUBMITTED with one.
LEMMA StatusStep ==
    ASSUME TypeOK, TypeOK', CallsBacked, StatusBackedByDecision, OutboxMatchesHistory, [Next]_vars
    PROVE  StatusBackedByDecision'
  <1>1. CASE UNCHANGED history
    BY <1>1 DEF history, StatusBackedByDecision, Exists, Has
  <1>2. ASSUME NEW h \in Handlers, CommitSubmit(h)
        PROVE  StatusBackedByDecision'
    <2>1. PICK q \in Requests :
            /\ leaveRequests[q] = None
            /\ leaveRequests'[q].status = "SUBMITTED"
            /\ leaveApprovals' = leaveApprovals
            /\ \A p \in Requests \ {q} : leaveRequests'[p] = leaveRequests[p]
      BY <1>2, CommitSubmitWrites
    <2>2. leaveApprovals'[q] = <<>>
      BY <2>1 DEF OutboxMatchesHistory, Exists
    <2> QED
      BY <2>1, <2>2 DEF StatusBackedByDecision, Exists, Has
  <1>3. ASSUME NEW h \in Handlers, CommitDecision(h)
        PROVE  StatusBackedByDecision'
    <2>1. PICK q \in Requests, op \in {"approve", "reject", "verify"} :
            /\ leaveRequests[q] # None
            /\ \/ leaveRequests'[q].status = NewStatus(op)
               \/ /\ leaveRequests'[q].status = leaveRequests[q].status
                  /\ leaveRequests[q].status # "SUBMITTED"
            /\ leaveApprovals'[q] = Append(leaveApprovals[q], DecisionRow(op))
            /\ \A p \in Requests \ {q} :
                 /\ leaveRequests'[p] = leaveRequests[p]
                 /\ leaveApprovals'[p] = leaveApprovals[p]
      BY <1>3, CommitDecisionWrites
    <2>2. DecisionRow(op) \in Decision
      BY <2>1, DecisionTable DEF Decision
    <2>3. Has(q, DecisionRow(op))' /\ leaveApprovals'[q] # <<>>
      <3>1. Has(q, DecisionRow(op))'
        BY <2>1, <2>2, HasAppended
      <3>2. leaveApprovals[q] \in Seq(Decision)
        BY <2>1 DEF TypeOK
      <3> QED
        BY <2>1, <2>2, <3>1, <3>2
    <2>4. LET status == leaveRequests'[q].status IN
          /\ status # "SUBMITTED"
          /\ status = "MANAGER_APPROVED" => Has(q, "APPROVED")'
          /\ status = "REJECTED" => Has(q, "REJECTED")'
          /\ status = "HR_VERIFIED" => Has(q, "VERIFIED")'
      <3>1. CASE leaveRequests'[q].status = NewStatus(op)
        BY <2>1, <2>3, <3>1, DecisionTable
      <3>2. CASE /\ leaveRequests'[q].status = leaveRequests[q].status
                 /\ leaveRequests[q].status # "SUBMITTED"
        BY <2>1, <3>2, HasPersists DEF StatusBackedByDecision, Exists, Decision
      <3> QED
        BY <2>1, <3>1, <3>2
    <2>5. ASSUME NEW p \in Requests \ {q}, Exists(p)'
          PROVE  LET status == leaveRequests'[p].status IN
                 /\ status = "SUBMITTED" <=> leaveApprovals'[p] = <<>>
                 /\ status = "MANAGER_APPROVED" => Has(p, "APPROVED")'
                 /\ status = "REJECTED" => Has(p, "REJECTED")'
                 /\ status = "HR_VERIFIED" => Has(p, "VERIFIED")'
      BY <2>1, <2>5 DEF StatusBackedByDecision, Exists, Has
    <2> QED
      BY <2>1, <2>3, <2>4, <2>5 DEF StatusBackedByDecision
  <1> QED
    BY <1>1, <1>2, <1>3, OnlyCommitsWriteHistory

\* No step separates a request's events from its approval rows.
LEMMA OutboxStep ==
    ASSUME TypeOK, CallsBacked, OutboxMatchesHistory, [Next]_vars
    PROVE  OutboxMatchesHistory'
  <1>1. CASE UNCHANGED history
    BY <1>1 DEF history, OutboxMatchesHistory, Exists
  <1>2. ASSUME NEW h \in Handlers, CommitSubmit(h)
        PROVE  OutboxMatchesHistory'
    <2>1. PICK q \in Requests :
            /\ leaveRequests[q] = None /\ leaveRequests'[q] # None
            /\ leaveApprovals' = leaveApprovals
            /\ outbox'[q] = Append(outbox[q], "leave.submitted")
            /\ auditLogs' = auditLogs \cup {q}
            /\ \A p \in Requests \ {q} :
                 leaveRequests'[p] = leaveRequests[p] /\ outbox'[p] = outbox[p]
      BY <1>2, CommitSubmitWrites, NoneAssumption
    <2>2. outbox[q] = <<>> /\ leaveApprovals'[q] = <<>>
      BY <2>1 DEF OutboxMatchesHistory, Exists
    <2>3. outbox'[q] = <<"leave.submitted">>
      BY <2>1, <2>2
    <2>4. Len(outbox'[q]) = 1 /\ outbox'[q][1] = "leave.submitted" /\ Len(leaveApprovals'[q]) = 0
      BY <2>2, <2>3
    <2>5. ASSUME NEW p \in Requests
          PROVE  IF leaveRequests'[p] # None
                 THEN /\ Len(outbox'[p]) = Len(leaveApprovals'[p]) + 1
                      /\ outbox'[p][1] = "leave.submitted"
                      /\ \A i \in 1..Len(leaveApprovals'[p]) :
                           outbox'[p][i + 1] = EventOfDecision(leaveApprovals'[p][i])
                      /\ p \in auditLogs'
                 ELSE outbox'[p] = <<>> /\ leaveApprovals'[p] = <<>> /\ p \notin auditLogs'
      <3>1. CASE p = q
        BY <2>1, <2>4, <3>1
      <3>2. CASE p # q
        BY <2>1, <3>2 DEF OutboxMatchesHistory, Exists
      <3> QED
        BY <3>1, <3>2
    <2> QED
      BY <2>5 DEF OutboxMatchesHistory, Exists
  <1>3. ASSUME NEW h \in Handlers, CommitDecision(h)
        PROVE  OutboxMatchesHistory'
    <2>1. PICK q \in Requests, op \in {"approve", "reject", "verify"} :
            /\ leaveRequests[q] # None /\ leaveRequests'[q] # None
            /\ leaveApprovals'[q] = Append(leaveApprovals[q], DecisionRow(op))
            /\ outbox'[q] = Append(outbox[q], Event(op))
            /\ auditLogs' = auditLogs
            /\ \A p \in Requests \ {q} :
                 /\ leaveRequests'[p] = leaveRequests[p]
                 /\ leaveApprovals'[p] = leaveApprovals[p]
                 /\ outbox'[p] = outbox[p]
      BY <1>3, CommitDecisionWrites
    <2>2. leaveApprovals[q] \in Seq(Decision) /\ outbox[q] \in Seq(EventType)
      BY <2>1 DEF TypeOK
    <2>3. Event(op) = EventOfDecision(DecisionRow(op))
      BY <2>1, DecisionTable
    <2>4. /\ Len(outbox[q]) = Len(leaveApprovals[q]) + 1
          /\ outbox[q][1] = "leave.submitted"
          /\ \A i \in 1..Len(leaveApprovals[q]) :
               outbox[q][i + 1] = EventOfDecision(leaveApprovals[q][i])
          /\ q \in auditLogs
      BY <2>1 DEF OutboxMatchesHistory, Exists
    <2>5. /\ Len(outbox'[q]) = Len(leaveApprovals'[q]) + 1
          /\ outbox'[q][1] = "leave.submitted"
          /\ q \in auditLogs'
      BY <2>1, <2>2, <2>4
    <2>6. ASSUME NEW i \in 1..Len(leaveApprovals'[q])
          PROVE  outbox'[q][i + 1] = EventOfDecision(leaveApprovals'[q][i])
      <3>1. CASE i = Len(leaveApprovals[q]) + 1
        BY <2>1, <2>2, <2>3, <2>4, <3>1
      <3>2. CASE i \in 1..Len(leaveApprovals[q])
        BY <2>1, <2>2, <2>4, <3>2
      <3> QED
        <4>1. Len(leaveApprovals'[q]) = Len(leaveApprovals[q]) + 1
          BY <2>1, <2>2
        <4> QED
          BY <2>2, <3>1, <3>2, <4>1
    <2>7. ASSUME NEW p \in Requests
          PROVE  IF leaveRequests'[p] # None
                 THEN /\ Len(outbox'[p]) = Len(leaveApprovals'[p]) + 1
                      /\ outbox'[p][1] = "leave.submitted"
                      /\ \A i \in 1..Len(leaveApprovals'[p]) :
                           outbox'[p][i + 1] = EventOfDecision(leaveApprovals'[p][i])
                      /\ p \in auditLogs'
                 ELSE outbox'[p] = <<>> /\ leaveApprovals'[p] = <<>> /\ p \notin auditLogs'
      <3>1. CASE p = q
        BY <2>1, <2>5, <2>6, <3>1
      <3>2. CASE p # q
        BY <2>1, <3>2 DEF OutboxMatchesHistory, Exists
      <3> QED
        BY <3>1, <3>2
    <2> QED
      BY <2>7 DEF OutboxMatchesHistory, Exists
  <1> QED
    BY <1>1, <1>2, <1>3, OnlyCommitsWriteHistory

-----------------------------------------------------------------------------
(* CallsBacked is inductive with the status invariant *)

\* No balance row is ever removed.
LEMMA RowsPersist ==
    ASSUME TypeOK, CallsBacked, [Next]_vars
    PROVE  FreeRows' \subseteq FreeRows
  <1>1. ASSUME NEW h \in Handlers, CommitSubmit(h) \/ CommitDecision(h)
        PROVE  FreeRows' \subseteq FreeRows
    <2> DEFINE c == calls[h]
    <2>1. c \in RequestCall /\ SaveBalance(c)
      BY <1>1, CallTyped DEF CommitSubmit, CommitDecision, At
    <2>2. c.balance # None => c.balance \in BalanceEntity /\ leaveBalances[c.balance.row] \in Balance
      BY <1>1, <2>1 DEF CommitSubmit, CommitDecision, At, CallsBacked, Backed, FreeRows, TypeOK,
                        RequestCall, BalanceEntity
    <2>3. c.balance # None => SavedBalance(c) # None
      <3>1. c.balance # None => SavedBalance(c) \in Balance
        BY <2>2 DEF SavedBalance, Balance, BalanceEntity
      <3> QED
        BY <3>1, NoneAssumption
    <2> HIDE DEF c
    <2> QED
      BY <2>1, <2>2, <2>3 DEF SaveBalance, FreeRows, TypeOK, BalanceEntity
  <1>2. ASSUME NEW h \in Handlers, CreateBalance(h)
        PROVE  FreeRows' \subseteq FreeRows
    BY <1>2 DEF CreateBalance, FreeRows, TypeOK
  <1>3. ASSUME NEW h \in Handlers, SeedBalances(h)
        PROVE  FreeRows' \subseteq FreeRows
    <2>1. PICK new \in [LeaveTypes -> FreeRows] :
            leaveBalances' = [r \in BalanceRows |->
              IF \E t \in LeaveTypes : new[t] = r
                THEN NewBalance(CHOOSE t \in LeaveTypes : new[t] = r)
                ELSE leaveBalances[r]]
      BY <1>3 DEF SeedBalances
    <2> QED
      BY <2>1 DEF FreeRows
  <1>4. CASE UNCHANGED leaveBalances
    BY <1>4 DEF FreeRows
  <1> QED
    BY <1>1, <1>2, <1>3, <1>4
    DEF Next, Submit, Decide, SubmitLeaveRequest, SubmitWithoutBalance,
        ApproveLeaveRequest, RejectLeaveRequest, VerifyLeaveRequest, ReadRequest, FindBalance,
        SelectBalance, SelectRequest, Abort, GetEmployeeLeaveBalances, tables, vars

\* A commit updates a row, if any, and neither its type nor that it exists.
LEMMA CommitKeepsRows ==
    ASSUME TypeOK, CallsBacked, NEW h \in Handlers, CommitSubmit(h) \/ CommitDecision(h)
    PROVE  \A t : RowsOf(t)' = RowsOf(t)
  <1> DEFINE c == calls[h]
  <1>1. c \in RequestCall /\ SaveBalance(c)
    BY CallTyped DEF CommitSubmit, CommitDecision, At
  <1>2. c.balance # None =>
          /\ c.balance.row \in BalanceRows /\ leaveBalances[c.balance.row] \in Balance
          /\ c.balance \in BalanceEntity
    BY <1>1 DEF CommitSubmit, CommitDecision, At, CallsBacked, Backed, FreeRows, TypeOK,
                RequestCall, BalanceEntity
  <1>3. c.balance # None =>
          /\ SavedBalance(c) # None
          /\ SavedBalance(c).leaveTypeId = leaveBalances[c.balance.row].leaveTypeId
          /\ leaveBalances[c.balance.row] # None
    <2>1. c.balance # None => SavedBalance(c) \in Balance
      BY <1>2 DEF SavedBalance, Balance, BalanceEntity
    <2>2. c.balance # None =>
            SavedBalance(c).leaveTypeId = leaveBalances[c.balance.row].leaveTypeId
      BY <1>2 DEF SavedBalance, Balance
    <2> QED
      BY <1>2, <2>1, <2>2, NoneAssumption
  <1> HIDE DEF c
  <1>4. \A r \in BalanceRows :
          /\ leaveBalances'[r] = None <=> leaveBalances[r] = None
          /\ leaveBalances'[r] # None => leaveBalances'[r].leaveTypeId = leaveBalances[r].leaveTypeId
    BY <1>1, <1>2, <1>3 DEF SaveBalance, TypeOK
  <1> QED
    BY <1>4 DEF RowsOf, FreeRows

\* A request stays, and never returns to SUBMITTED; only its own submission inserts it.
LEMMA RequestsPersist ==
    ASSUME TypeOK, CallsBacked, [Next]_vars, NEW q \in Requests
    PROVE  /\ leaveRequests[q] # None => leaveRequests'[q] # None
           /\ leaveRequests[q] # None /\ leaveRequests[q].status # "SUBMITTED" =>
                leaveRequests'[q].status # "SUBMITTED"
  <1>1. CASE UNCHANGED history
    BY <1>1 DEF history
  <1>2. ASSUME NEW h \in Handlers, CommitSubmit(h)
        PROVE  leaveRequests[q] # None => leaveRequests'[q] = leaveRequests[q]
    BY <1>2, CommitSubmitWrites
  <1>3. ASSUME NEW h \in Handlers, CommitDecision(h)
        PROVE  /\ leaveRequests[q] # None => leaveRequests'[q] # None
               /\ leaveRequests[q] # None /\ leaveRequests[q].status # "SUBMITTED" =>
                    leaveRequests'[q].status # "SUBMITTED"
    <2>1. \A op \in {"approve", "reject", "verify"} : NewStatus(op) # "SUBMITTED"
      BY DecisionTable
    <2> QED
      BY <1>3, <2>1, CommitDecisionWrites
  <1> QED
    BY <1>1, <1>2, <1>3, OnlyCommitsWriteHistory

\* What backs a call in progress outlives the commits of the others.
LEMMA BackedPersists ==
    ASSUME TypeOK, CallsBacked, [Next]_vars, NEW c \in RequestCall, Backed(c),
           c.op = "submit" => leaveRequests'[c.id] = None
    PROVE  Backed(c)'
  <1>1. c.id \in Requests
    BY DEF RequestCall
  <1>2. c.op = "verify" => Has(c.id, "APPROVED")'
    BY <1>1, HasPersists DEF Backed, Decision
  <1>3. c.balance # None => c.balance.row \notin FreeRows'
    BY RowsPersist DEF Backed
  <1>4. c.op # "submit" => leaveRequests'[c.id] # None
    BY <1>1, RequestsPersist DEF Backed, Exists
  <1>5. c.op # "submit" /\ c.pc = "saving" /\ "status" \notin c.dirty =>
          leaveRequests'[c.id].status # "SUBMITTED"
    BY <1>1, RequestsPersist DEF Backed, Exists
  <1> QED
    BY <1>2, <1>3, <1>4, <1>5 DEF Backed, Exists

\* A handler's step leaves the other handlers' calls alone; its own call afterwards, if any, is
\* the one it was, a submission of an unused id, or a decision on an existing request.
StepOf(h) ==
    /\ \A g \in Handlers \ {h} : calls'[g] = calls[g]
    /\ InRequestCall(h)' =>
         \/ /\ InRequestCall(h)
            /\ calls'[h].id = calls[h].id /\ calls'[h].op = calls[h].op
         \/ calls'[h].op = "submit" /\ Unused(calls'[h].id)
         \/ calls'[h].op # "submit" /\ leaveRequests[calls'[h].id] # None

\* What backs a call at the end of each of its own steps.
LEMMA OwnStep ==
    ASSUME TypeOK, CallsBacked, StatusBackedByDecision, Next
    PROVE  \E h \in Handlers :
             /\ StepOf(h)
             /\ InRequestCall(h)' => Backed(calls[h])'
             /\ \A q \in Requests : leaveRequests[q] = None /\ leaveRequests'[q] # None =>
                  InRequestCall(h) /\ ~InRequestCall(h)'
                  /\ calls[h].op = "submit" /\ calls[h].id = q
  <1> DEFINE Goal(h) ==
               /\ StepOf(h)
               /\ InRequestCall(h)' => Backed(calls[h])'
               /\ \A q \in Requests : leaveRequests[q] = None /\ leaveRequests'[q] # None =>
                    InRequestCall(h) /\ ~InRequestCall(h)'
                    /\ calls[h].op = "submit" /\ calls[h].id = q
  <1>1. ASSUME NEW h \in Handlers, NEW q \in Requests, NEW t \in LeaveTypes, NEW d \in DayCounts,
               SubmitLeaveRequest(h, q, t, d)
        PROVE  Goal(h)
    <2>1. PICK r \in RowsOf(t) :
            calls' = [calls EXCEPT ![h] =
                        SubmitCall("ready", q, t, d, Changed("submit", r, leaveBalances[r], d))]
      BY <1>1 DEF SubmitLeaveRequest
    <2>2. /\ calls'[h] = SubmitCall("ready", q, t, d, Changed("submit", r, leaveBalances[r], d))
          /\ \A g \in Handlers \ {h} : calls'[g] = calls[g]
          /\ UNCHANGED tables /\ Unused(q)
      BY <1>1, <2>1 DEF SubmitLeaveRequest, TypeOK
    <2>3. /\ calls'[h].op = "submit" /\ calls'[h].id = q
          /\ calls'[h].balance.row = r /\ r \notin FreeRows
      BY <2>2 DEF SubmitCall, Changed, RowsOf
    <2> QED
      BY <2>2, <2>3 DEF StepOf, Backed, Unused, Exists, FreeRows, tables
  <1>2. ASSUME NEW h \in Handlers, NEW q \in Requests, NEW t \in LeaveTypes, NEW d \in DayCounts,
               SubmitWithoutBalance(h, q, t, d)
        PROVE  Goal(h)
    <2>1. /\ calls'[h] = SubmitCall("creating", q, t, d, None)
          /\ \A g \in Handlers \ {h} : calls'[g] = calls[g]
          /\ UNCHANGED tables /\ Unused(q)
      BY <1>2 DEF SubmitWithoutBalance, TypeOK
    <2>2. calls'[h].op = "submit" /\ calls'[h].id = q /\ calls'[h].balance = None
      BY <2>1 DEF SubmitCall
    <2> QED
      BY <2>1, <2>2 DEF StepOf, Backed, Unused, Exists, FreeRows, tables
  <1>3. ASSUME NEW h \in Handlers, CreateBalance(h)
        PROVE  Goal(h)
    <2> DEFINE c == calls[h]
               b == NewBalance(c.leaveTypeId)
    <2>1. c \in RequestCall /\ InRequestCall(h) /\ c.pc = "creating"
      BY <1>3, CallTyped DEF CreateBalance, At
    <2>2. b \in Balance
      BY <2>1 DEF RequestCall, NewBalance, Balance
    <2>3. PICK r \in FreeRows :
            /\ leaveBalances' = [leaveBalances EXCEPT ![r] = b]
            /\ calls' = [calls EXCEPT ![h] =
                 IF EnoughDays(c.leaveTypeId, b, c.totalDays)
                   THEN SubmitCall("ready", c.id, c.leaveTypeId, c.totalDays,
                                   Changed("submit", r, b, c.totalDays))
                   ELSE None]
      BY <1>3 DEF CreateBalance
    <2>4. r \in BalanceRows /\ leaveBalances'[r] = b /\ r \notin FreeRows'
      <3> HIDE DEF b
      <3> QED
        BY <2>2, <2>3, NoneAssumption DEF FreeRows, TypeOK
    <2>5. CASE calls'[h] = None
      BY <1>3, <2>3, <2>5 DEF CreateBalance, StepOf, InRequestCall, TypeOK
    <2>6. CASE calls'[h] = SubmitCall("ready", c.id, c.leaveTypeId, c.totalDays,
                                      Changed("submit", r, b, c.totalDays))
      <3>1. calls'[h].op = "submit" /\ calls'[h].id = c.id /\ calls'[h].balance.row = r
        BY <2>6 DEF SubmitCall, Changed
      <3>2. c.op = "submit"
        BY <1>3 DEF CreateBalance
      <3>3. ~Exists(c.id)
        BY <2>1, <3>2 DEF CallsBacked, Backed
      <3>4. \A g \in Handlers \ {h} : calls'[g] = calls[g]
        BY <2>3 DEF TypeOK
      <3> QED
        BY <1>3, <2>1, <2>4, <3>1, <3>2, <3>3, <3>4 DEF CreateBalance, StepOf, Backed, Exists
    <2> QED
      BY <2>3, <2>5, <2>6 DEF TypeOK
  <1>4. ASSUME NEW h \in Handlers, NEW q \in Requests,
               NEW op \in {"approve", "reject", "verify"}, NEW phase \in {"guarded", "ready"},
               ReadRequest(h, op, q, phase)
        PROVE  Goal(h)
    <2>1. /\ calls'[h].op = op /\ calls'[h].id = q /\ calls'[h].pc = phase
          /\ calls'[h].balance = None
          /\ \A g \in Handlers \ {h} : calls'[g] = calls[g]
          /\ UNCHANGED tables /\ leaveRequests[q] # None
          /\ leaveRequests[q].status \in Accepted(op)
      BY <1>4 DEF ReadRequest, TypeOK
    <2>2. op = "verify" => Has(q, "APPROVED")
      <3>1. Accepted("verify") = {"MANAGER_APPROVED"}
        BY DEF Accepted
      <3> QED
        BY <2>1, <3>1 DEF StatusBackedByDecision, Exists
    <2> QED
      BY <2>1, <2>2 DEF StepOf, Backed, Exists, Has, FreeRows, tables
  <1>5. ASSUME NEW h \in Handlers, FindBalance(h)
        PROVE  Goal(h)
    <2>1. calls[h] \in RequestCall /\ InRequestCall(h) /\ calls[h].pc = "guarded"
      BY <1>5, CallTyped DEF FindBalance, At
    <2>2. Backed(calls[h])
      BY <2>1 DEF CallsBacked
    <2>3. /\ calls'[h].op = calls[h].op /\ calls'[h].id = calls[h].id /\ calls'[h].pc = "ready"
          /\ calls'[h].balance = None \/ calls'[h].balance.row \notin FreeRows
      <3>1. \A b \in FoundBalances(calls[h]) : b = None \/ b.row \notin FreeRows
        BY DEF FoundBalances, Changed, RowsOf
      <3>2. PICK b \in FoundBalances(calls[h]) :
              calls' = [calls EXCEPT ![h].pc = "ready", ![h].balance = b]
        BY <1>5 DEF FindBalance
      <3>3. calls'[h] = [calls[h] EXCEPT !.pc = "ready", !.balance = b]
        BY <3>2 DEF TypeOK
      <3> QED
        BY <2>1, <3>1, <3>3 DEF RequestCall
    <2>4. UNCHANGED tables /\ \A g \in Handlers \ {h} : calls'[g] = calls[g]
      BY <1>5 DEF FindBalance, TypeOK
    <2> QED
      BY <2>1, <2>2, <2>3, <2>4 DEF StepOf, Backed, Exists, Has, FreeRows, tables
  <1>6. ASSUME NEW h \in Handlers, SelectBalance(h) \/ SelectRequest(h)
        PROVE  Goal(h)
    <2>1. calls[h] \in RequestCall /\ InRequestCall(h)
      BY <1>6, CallTyped DEF SelectBalance, SelectRequest, At
    <2>2. Backed(calls[h])
      BY <2>1 DEF CallsBacked
    <2>3. PICK p, D : /\ calls' = [calls EXCEPT ![h].pc = p, ![h].dirty = D]
                      /\ \/ p = "saving" /\ calls[h].op = "submit"
                         \/ p = "selected"
                         \/ DirtyRequest(calls[h]) \subseteq D
      <3>1. CASE SelectBalance(h)
        BY <3>1 DEF SelectBalance
      <3>2. CASE SelectRequest(h)
        <4> DEFINE E == calls[h].dirty \cup DirtyRequest(calls[h])
        <4>1. calls' = [calls EXCEPT ![h].pc = "saving", ![h].dirty = E]
          BY <2>1, <3>2 DEF SelectRequest, TypeOK, RequestCall
        <4>2. DirtyRequest(calls[h]) \subseteq E
          OBVIOUS
        <4> HIDE DEF E
        <4> QED
          BY <4>1, <4>2
      <3> QED
        BY <1>6, <3>1, <3>2
    <2>4. /\ calls'[h].op = calls[h].op /\ calls'[h].id = calls[h].id
          /\ calls'[h].balance = calls[h].balance
          /\ calls'[h].pc = p /\ calls'[h].dirty = D
      <3>1. calls'[h] = [calls[h] EXCEPT !.pc = p, !.dirty = D]
        BY <2>3 DEF TypeOK
      <3> QED
        BY <2>1, <3>1 DEF RequestCall
    <2>5. UNCHANGED tables /\ \A g \in Handlers \ {h} : calls'[g] = calls[g]
      BY <1>6 DEF SelectBalance, SelectRequest, TypeOK
    <2>6. calls[h].op # "submit" /\ p = "saving" /\ "status" \notin D =>
            leaveRequests[calls[h].id].status # "SUBMITTED"
      <3>1. calls[h].op # "submit" => NewStatus(calls[h].op) # "SUBMITTED"
        BY <2>1, DecisionTable DEF RequestCall
      <3> QED
        BY <2>3, <3>1 DEF DirtyRequest
    <2> QED
      BY <2>1, <2>2, <2>4, <2>5, <2>6 DEF StepOf, Backed, Exists, Has, FreeRows, tables
  <1>7. ASSUME NEW h \in Handlers, CommitSubmit(h)
        PROVE  Goal(h)
    <2>1. /\ calls'[h] = None /\ InRequestCall(h) /\ calls[h].op = "submit"
          /\ \A g \in Handlers \ {h} : calls'[g] = calls[g]
          /\ \A q \in Requests \ {calls[h].id} : leaveRequests'[q] = leaveRequests[q]
      BY <1>7 DEF CommitSubmit, At, TypeOK
    <2> QED
      BY <2>1 DEF StepOf, InRequestCall
  <1>8. ASSUME NEW h \in Handlers, CommitDecision(h)
        PROVE  Goal(h)
    <2>1. calls'[h] = None /\ \A g \in Handlers \ {h} : calls'[g] = calls[g]
      BY <1>8 DEF CommitDecision, TypeOK
    <2>2. \A q \in Requests : leaveRequests[q] = None => leaveRequests'[q] = None
      BY <1>8, CommitDecisionWrites
    <2> QED
      BY <2>1, <2>2 DEF StepOf, InRequestCall
  <1>9. ASSUME NEW h \in Handlers, Abort(h) \/ SeedBalances(h)
        PROVE  Goal(h)
    <2>1. /\ calls'[h] = None /\ \A g \in Handlers \ {h} : calls'[g] = calls[g]
          /\ UNCHANGED leaveRequests
      BY <1>9 DEF Abort, SeedBalances, tables, TypeOK
    <2> QED
      BY <2>1 DEF StepOf, InRequestCall
  <1>10. ASSUME NEW h \in Handlers, GetEmployeeLeaveBalances(h)
         PROVE  Goal(h)
    <2>1. /\ calls'[h] \in {None, SeedCall} /\ \A g \in Handlers \ {h} : calls'[g] = calls[g]
          /\ UNCHANGED leaveRequests
      BY <1>10 DEF GetEmployeeLeaveBalances, Idle, tables, TypeOK
    <2> QED
      BY <2>1 DEF StepOf, InRequestCall
  <1> HIDE DEF Goal
  <1>11. \E h \in Handlers : Goal(h)
    BY <1>1, <1>2, <1>3, <1>4, <1>5, <1>6, <1>7, <1>8, <1>9, <1>10
    DEF Next, Submit, Decide, ApproveLeaveRequest, RejectLeaveRequest, VerifyLeaveRequest
  <1> QED
    BY <1>11 DEF Goal

\* Every step keeps every call in progress backed.
LEMMA CallsStep ==
    ASSUME TypeOK, TypeOK', CallsBacked, StatusBackedByDecision, [Next]_vars
    PROVE  CallsBacked'
  <1>1. CASE UNCHANGED vars
    BY <1>1 DEF vars, tables, CallsBacked, Backed, InRequestCall, Exists, Has, FreeRows
  <1>2. CASE Next
    <2>1. PICK h \in Handlers :
            /\ StepOf(h)
            /\ InRequestCall(h)' => Backed(calls[h])'
            /\ \A q \in Requests : leaveRequests[q] = None /\ leaveRequests'[q] # None =>
                 InRequestCall(h) /\ ~InRequestCall(h)'
                 /\ calls[h].op = "submit" /\ calls[h].id = q
      BY <1>2, OwnStep
    <2>2. ASSUME NEW g \in Handlers \ {h}, InRequestCall(g)'
          PROVE  Backed(calls[g])'
      <3>1. calls'[g] = calls[g] /\ InRequestCall(g) /\ calls[g] \in RequestCall
        BY <2>1, <2>2, CallTyped DEF StepOf, InRequestCall
      <3>2. Backed(calls[g])
        BY <3>1 DEF CallsBacked
      <3>3. calls[g].op = "submit" => leaveRequests'[calls[g].id] = None
        <4>1. calls[g].id \in Requests
          BY <3>1 DEF RequestCall
        <4>2. calls[g].op = "submit" =>
                leaveRequests[calls[g].id] = None
                /\ (InRequestCall(h) => calls[h].id # calls[g].id)
          BY <3>1, <3>2 DEF CallsBacked, Backed, Exists
        <4> QED
          BY <2>1, <4>1, <4>2
      <3>4. \A c \in RequestCall : c = calls[g] => Backed(c)'
        BY <1>2, <3>2, <3>3, BackedPersists
      <3> QED
        BY <3>1, <3>4 DEF Backed, Exists, Has, FreeRows
    <2>3. ASSUME NEW g \in Handlers, NEW f \in Handlers \ {g},
                 InRequestCall(g)', InRequestCall(f)', calls'[g].op = "submit"
          PROVE  calls'[f].id # calls'[g].id
      <3>1. CASE g # h /\ f # h
        BY <2>1, <2>3, <3>1 DEF StepOf, InRequestCall, CallsBacked
      <3>2. CASE g = h
        <4>1. calls'[f] = calls[f] /\ InRequestCall(f)
          BY <2>1, <2>3, <3>2 DEF StepOf, InRequestCall
        <4> QED
          BY <2>1, <2>3, <3>2, <4>1 DEF StepOf, Unused, CallsBacked
      <3>3. CASE f = h
        <4>1. calls'[g] = calls[g] /\ InRequestCall(g)
          BY <2>1, <2>3, <3>3 DEF StepOf, InRequestCall
        <4>2. leaveRequests[calls[g].id] = None
          BY <2>3, <4>1 DEF CallsBacked, Backed, Exists
        <4> QED
          BY <2>1, <2>3, <3>3, <4>1, <4>2 DEF StepOf, Unused, CallsBacked
      <3> QED
        BY <3>1, <3>2, <3>3
    <2> QED
      BY <2>1, <2>2, <2>3 DEF CallsBacked
  <1> QED
    BY <1>1, <1>2

-----------------------------------------------------------------------------
(* The inductive invariant, and the theorems *)

IInv ==
    /\ TypeOK
    /\ CallsBacked
    /\ VerifiedOnlyAfterApproval
    /\ StatusBackedByDecision
    /\ OutboxMatchesHistory

\* The empty database satisfies the invariant.
LEMMA InitInv == Init => IInv
  <1> SUFFICES ASSUME Init PROVE IInv
    OBVIOUS
  <1>1. TypeOK
    BY DEF Init, TypeOK
  <1>2. CallsBacked
    BY DEF Init, CallsBacked, InRequestCall
  <1>3. VerifiedOnlyAfterApproval
    BY DEF Init, VerifiedOnlyAfterApproval
  <1>4. StatusBackedByDecision
    BY DEF Init, StatusBackedByDecision, Exists
  <1>5. OutboxMatchesHistory
    BY DEF Init, OutboxMatchesHistory, Exists
  <1> QED
    BY <1>1, <1>2, <1>3, <1>4, <1>5 DEF IInv

\* The inductive invariant holds throughout every behaviour of the leave service, however
\* many calls overlap and wherever they abort.
THEOREM InvariantHolds == Spec => []IInv
  <1>1. IInv /\ [Next]_vars => IInv'
    BY TypeStep, CallsStep, VerifiedStep, StatusStep, OutboxStep DEF IInv
  <1> QED
    BY InitInv, <1>1, PTL DEF Spec

\* Type correctness: among others, pendingDays and usedDays never become negative.
THEOREM TypeCorrect == Spec => []TypeOK
  BY InvariantHolds, PTL DEF IInv

\* What a call read outside its transaction still backs it at its commit.
THEOREM CallsStayBacked == Spec => []CallsBacked
  BY InvariantHolds, PTL DEF IInv

\* No request is verified by HR that a manager has not approved.
THEOREM ApprovalBeforeVerification == Spec => []VerifiedOnlyAfterApproval
  BY InvariantHolds, PTL DEF IInv

\* A request's status is always one that a committed decision wrote.
THEOREM StatusHasDecision == Spec => []StatusBackedByDecision
  BY InvariantHolds, PTL DEF IInv

\* The transactional outbox: events and approval rows correspond one to one, in order.
THEOREM OutboxComplete == Spec => []OutboxMatchesHistory
  BY InvariantHolds, PTL DEF IInv

-----------------------------------------------------------------------------
(* Used days.  Each verification that commits is charged to the balance    *)
(* row that its call had loaded: Charged(A) says that A[r] days of the     *)
(* history can be charged to row r such that no row, and no copy of one in *)
(* a call's memory, records more.  A commit that overwrites another's only *)
(* loses days, so the charges never fall behind.                           *)

Rows == BalanceRows \ FreeRows

\* The days a call's commit adds to the history.
VerifyDays(c) == IF c.op = "verify" THEN c.totalDays ELSE 0

\* A call works with its request's terms and a row of its type, and its copy of the row
\* records at most the days charged to the row and its own.
CallCharged(c, A) ==
    /\ c.op # "submit" => /\ leaveRequests[c.id].leaveTypeId = c.leaveTypeId
                          /\ leaveRequests[c.id].totalDays = c.totalDays
    /\ c.balance # None =>
         /\ leaveBalances[c.balance.row].leaveTypeId = c.leaveTypeId
         /\ c.balance.usedDays <= A[c.balance.row] + VerifyDays(c)

Charged(A) ==
    /\ A \in [BalanceRows -> Nat]
    /\ \A r \in Rows : leaveBalances[r].usedDays <= A[r]
    /\ \A r \in FreeRows : A[r] = 0
    /\ \A h \in Handlers : InRequestCall(h) => CallCharged(calls[h], A)
    /\ \A t \in LeaveTypes : SumFunctionOnSet(A, RowsOf(t)) <= VerifiedDays(t)

Finite == IsFiniteSet(Rows) /\ IsFiniteSet(auditLogs)

ChargeInv == IInv /\ Finite /\ \E A : Charged(A)

\* Finitely many rows and requests exist at any time, however many ids there are.
LEMMA FiniteSums ==
    ASSUME IInv, Finite, NEW t
    PROVE  IsFiniteSet(RowsOf(t)) /\ IsFiniteSet(OfType(t))
  <1>1. RowsOf(t) \subseteq Rows
    BY DEF RowsOf, Rows
  <1>2. OfType(t) \subseteq auditLogs
    BY DEF OfType, IInv, OutboxMatchesHistory
  <1> QED
    BY <1>1, <1>2, FS_Subset DEF Finite

\* The terms of the sum of verified days are natural numbers.
LEMMA VerificationsFinite ==
    ASSUME TypeOK, NEW q \in Requests
    PROVE  IsFiniteSet(Verifications(q)) /\ Cardinality(Verifications(q)) \in Nat
  <1>1. Len(leaveApprovals[q]) \in Nat
    BY DEF TypeOK
  <1>2. IsFiniteSet(1..Len(leaveApprovals[q]))
    BY <1>1, FS_Interval
  <1>3. Verifications(q) \subseteq 1..Len(leaveApprovals[q])
    BY DEF Verifications
  <1> QED
    BY <1>2, <1>3, FS_Subset, FS_CardinalityType

\* What one request adds to the verified days of its type.
LEMMA VerifiedTerm ==
    ASSUME TypeOK, NEW t, NEW q \in OfType(t)
    PROVE  /\ leaveRequests[q].totalDays \in Nat
           /\ leaveRequests[q].totalDays * Cardinality(Verifications(q)) \in Nat
  <1>1. q \in Requests /\ leaveRequests[q] \in Request
    BY DEF OfType, Exists, TypeOK
  <1>2. leaveRequests[q].totalDays \in Nat
    BY <1>1, LeaveAssumption DEF Request
  <1>3. Cardinality(Verifications(q)) \in Nat
    BY <1>1, VerificationsFinite
  <1>4. \A m, n \in Nat : m * n \in Nat
    OBVIOUS
  <1> QED
    BY <1>2, <1>3, <1>4

\* A submission commits: a request whose verifications are still to come.
LEMMA SubmitVerifiesNothing ==
    ASSUME IInv, Finite, NEW h \in Handlers, CommitSubmit(h), NEW t
    PROVE  /\ VerifiedDays(t) \in Nat /\ VerifiedDays(t)' \in Nat
           /\ VerifiedDays(t) <= VerifiedDays(t)'
  <1> DEFINE f == [q \in OfType(t) |-> leaveRequests[q].totalDays * Cardinality(Verifications(q))]
             S == OfType(t)
             g == [q \in OfType(t)' |->
                     leaveRequests'[q].totalDays * Cardinality(Verifications(q)')]
             T == OfType(t)'
  <1>1. PICK q \in Requests :
          /\ leaveRequests[q] = None /\ leaveRequests'[q] \in Request
          /\ leaveApprovals' = leaveApprovals
          /\ \A p \in Requests \ {q} : leaveRequests'[p] = leaveRequests[p]
    BY CommitSubmitWrites DEF IInv
  <1>2. VerifiedDays(t) = SumFunctionOnSet(f, S) /\ VerifiedDays(t)' = SumFunctionOnSet(g, T)
    BY DEF VerifiedDays, SumFunction
  <1>3. IsFiniteSet(T) /\ S \subseteq T
    <2>1. S \subseteq T /\ T \subseteq S \cup {q}
      BY <1>1 DEF OfType, Exists
    <2>2. IsFiniteSet(S \cup {q})
      BY FiniteSums, FS_AddElement
    <2> HIDE DEF S, T
    <2> QED
      BY <2>1, <2>2, FS_Subset
  <1>4. \A p \in S : f[p] \in Nat /\ f[p] = g[p]
    <2>1. \A p \in S : f[p] \in Nat
      BY VerifiedTerm DEF IInv
    <2>2. \A p \in S : Verifications(p)' = Verifications(p) /\ leaveRequests'[p] = leaveRequests[p]
      BY <1>1 DEF Verifications, OfType, Exists
    <2> QED
      BY <1>3, <2>1, <2>2
  <1>5. \A p \in T : g[p] \in Nat
    <2>1. ASSUME q \in T PROVE g[q] \in Nat
      <3>1. Verifications(q)' = Verifications(q)
        BY <1>1 DEF Verifications
      <3>2. Cardinality(Verifications(q)) \in Nat
        BY VerificationsFinite DEF IInv
      <3>3. leaveRequests'[q].totalDays \in Nat
        BY <1>1, LeaveAssumption DEF Request
      <3>4. \A m, n \in Nat : m * n \in Nat
        OBVIOUS
      <3>5. leaveRequests'[q].totalDays * Cardinality(Verifications(q)') \in Nat
        BY <3>1, <3>2, <3>3, <3>4
      <3> QED
        BY <2>1, <3>5
    <2>2. ASSUME NEW p \in T, p # q PROVE p \in S
      BY <1>1, <2>2 DEF OfType, Exists
    <2> HIDE DEF S, T, f, g
    <2> QED
      BY <1>4, <2>1, <2>2
  <1> HIDE DEF S, T, f, g
  <1>6. \A p \in S : f[p] \in Nat /\ f[p] <= g[p]
    BY <1>4
  <1>7. SumFunctionOnSet(f, S) <= SumFunctionOnSet(g, T)
    BY <1>3, <1>5, <1>6, SumMonotonic
  <1>8. SumFunctionOnSet(f, S) \in Nat /\ SumFunctionOnSet(g, T) \in Nat
    <2>1. IsFiniteSet(S)
      BY <1>3, FS_Subset
    <2> QED
      BY <1>3, <1>5, <1>6, <2>1, SumType
  <1> QED
    BY <1>2, <1>7, <1>8

\* A decision commits: the days of a verification are added to those of its type.
LEMMA DecisionVerifies ==
    ASSUME IInv, Finite, NEW h \in Handlers, CommitDecision(h), NEW t
    PROVE  /\ OfType(t)' = OfType(t)
           /\ VerifiedDays(t) \in Nat
           /\ VerifiedDays(t)' = VerifiedDays(t) +
                IF calls[h].op = "verify" /\ leaveRequests[calls[h].id].leaveTypeId = t
                  THEN leaveRequests[calls[h].id].totalDays ELSE 0
  <1> DEFINE f == [q \in OfType(t) |-> leaveRequests[q].totalDays * Cardinality(Verifications(q))]
             S == OfType(t)
             g == [q \in OfType(t)' |->
                     leaveRequests'[q].totalDays * Cardinality(Verifications(q)')]
  <1>1. PICK q \in Requests, op \in {"approve", "reject", "verify"} :
        /\ q = calls[h].id /\ op = calls[h].op
        /\ leaveRequests[q] # None /\ leaveRequests'[q] # None
        /\ leaveRequests'[q].leaveTypeId = leaveRequests[q].leaveTypeId
        /\ leaveRequests'[q].totalDays = leaveRequests[q].totalDays
        /\ leaveApprovals'[q] = Append(leaveApprovals[q], DecisionRow(op))
        /\ \A p \in Requests \ {q} :
             leaveRequests'[p] = leaveRequests[p] /\ leaveApprovals'[p] = leaveApprovals[p]
    BY CommitDecisionWrites DEF IInv
  <1> DEFINE days == leaveRequests[q].totalDays
             n == Cardinality(Verifications(q))
  <1>2. OfType(t)' = S
    BY <1>1 DEF OfType, Exists
  <1>3. VerifiedDays(t) = SumFunctionOnSet(f, S) /\ VerifiedDays(t)' = SumFunctionOnSet(g, S)
    BY <1>2 DEF VerifiedDays, SumFunction
  <1>4. IsFiniteSet(S) /\ \A p \in S : f[p] \in Nat
    BY FiniteSums, VerifiedTerm DEF IInv
  <1>5. SumFunctionOnSet(f, S) \in Nat
    <2> HIDE DEF S, f
    <2> QED
      BY <1>4, SumType
  <1>6. \A p \in S \ {q} : f[p] = g[p]
    <2>1. \A p \in S \ {q} :
            Verifications(p)' = Verifications(p) /\ leaveRequests'[p] = leaveRequests[p]
      BY <1>1 DEF Verifications, OfType
    <2> QED
      BY <1>2, <2>1
  <1>7. /\ leaveRequests[q].totalDays \in Nat /\ n \in Nat
        /\ Cardinality(Verifications(q)') = IF op = "verify" THEN n + 1 ELSE n
    <2> DEFINE rows == leaveApprovals[q]
    <2>1. rows \in Seq(Decision) /\ leaveRequests[q].totalDays \in Nat
      BY <1>1, LeaveAssumption DEF IInv, TypeOK, Request
    <2>2. DecisionRow(op) = "VERIFIED" <=> op = "verify"
      BY <1>1, DecisionTable
    <2>3. Verifications(q)' = IF op = "verify" THEN Verifications(q) \cup {Len(rows) + 1}
                              ELSE Verifications(q)
      <3>1. /\ Len(leaveApprovals'[q]) = Len(rows) + 1
            /\ leaveApprovals'[q][Len(rows) + 1] = DecisionRow(op)
            /\ \A i \in 1..Len(rows) : leaveApprovals'[q][i] = rows[i]
        BY <1>1, <2>1
      <3>2. Len(rows) \in Nat
        BY <2>1
      <3> QED
        BY <2>2, <3>1, <3>2 DEF Verifications
    <2>4. Len(rows) + 1 \notin Verifications(q)
      BY <2>1 DEF Verifications
    <2>5. IsFiniteSet(Verifications(q)) /\ n \in Nat
      BY <1>1, VerificationsFinite DEF IInv
    <2> QED
      BY <2>1, <2>3, <2>4, <2>5, FS_AddElement
  <1>8. CASE q \in S
    <2>1. f[q] = days * n /\ g[q] = days * Cardinality(Verifications(q)')
      BY <1>1, <1>2, <1>8
    <2>2. leaveRequests[q].leaveTypeId = t
      BY <1>8 DEF OfType
    <2> HIDE DEF n, days, S, f, g
    <2>3. days \in Nat /\ n \in Nat
      BY <1>7 DEF days
    <2>4. /\ days * n \in Nat /\ days * (n + 1) \in Nat
          /\ days * (n + 1) = days * n + days
      BY <2>3
    <2>5. g[q] = f[q] + (IF op = "verify" THEN days ELSE 0) /\ f[q] \in Nat /\ g[q] \in Nat
      BY <1>7, <2>1, <2>3, <2>4
    <2>6. \A p \in S : f[p] \in Nat /\ g[p] \in Nat
      BY <1>4, <1>6, <2>5
    <2>7. SumFunctionOnSet(g, S) + f[q] = SumFunctionOnSet(f, S) + g[q]
      BY <1>4, <1>6, <1>8, <2>6, SumChange
    <2>8. SumFunctionOnSet(g, S) \in Nat
      BY <1>4, <2>6, SumType
    <2>9. SumFunctionOnSet(g, S) = SumFunctionOnSet(f, S) + (IF op = "verify" THEN days ELSE 0)
      <3> DEFINE a == IF op = "verify" THEN days ELSE 0
      <3>1. a \in Nat
        BY <2>3
      <3> HIDE DEF a
      <3>2. g[q] = f[q] + a
        BY <2>5 DEF a
      <3>3. SumFunctionOnSet(g, S) = SumFunctionOnSet(f, S) + a
        BY <1>5, <2>5, <2>7, <2>8, <3>1, <3>2
      <3> QED
        BY <3>3 DEF a
    <2> QED
      BY <1>1, <1>2, <1>3, <1>5, <2>2, <2>9 DEF days, S
  <1>9. CASE q \notin S
    <2>1. leaveRequests[q].leaveTypeId # t
      BY <1>1, <1>9 DEF OfType, Exists
    <2>2. \A p \in S : f[p] \in Nat /\ f[p] = g[p]
      BY <1>4, <1>6, <1>9
    <2>3. SumFunctionOnSet(f, S) = SumFunctionOnSet(g, S)
      <3> HIDE DEF S, f, g
      <3> QED
        BY <1>4, <2>2, SumSame
    <2> QED
      BY <1>1, <1>2, <1>3, <1>5, <2>1, <2>3
  <1> QED
    BY <1>8, <1>9

\* A balance row keeps its leave type.
LEMMA RowTypesPersist ==
    ASSUME TypeOK, CallsBacked, [Next]_vars, NEW r \in Rows
    PROVE  /\ r \in BalanceRows /\ leaveBalances'[r] # None
           /\ leaveBalances'[r].leaveTypeId = leaveBalances[r].leaveTypeId
  <1>1. r \in BalanceRows /\ leaveBalances[r] # None
    BY DEF Rows, FreeRows
  <1>2. leaveBalances'[r] # None
    BY <1>1, RowsPersist DEF FreeRows
  <1>3. ASSUME NEW h \in Handlers, CommitSubmit(h) \/ CommitDecision(h)
        PROVE  leaveBalances'[r].leaveTypeId = leaveBalances[r].leaveTypeId
    <2>1. r \in RowsOf(leaveBalances[r].leaveTypeId)
      BY <1>1 DEF RowsOf, FreeRows
    <2>2. \A t : r \in RowsOf(t) => r \in RowsOf(t)'
      BY <1>3, CommitKeepsRows
    <2>3. \A t : r \in RowsOf(t)' => leaveBalances'[r].leaveTypeId = t
      BY DEF RowsOf
    <2>4. \A t : r \in RowsOf(t) => leaveBalances'[r].leaveTypeId = t
      BY <2>2, <2>3
    <2> QED
      BY <2>1, <2>4
  <1>4. ASSUME NEW h \in Handlers, CreateBalance(h)
        PROVE  leaveBalances'[r].leaveTypeId = leaveBalances[r].leaveTypeId
    BY <1>1, <1>4 DEF CreateBalance, FreeRows, TypeOK
  <1>5. ASSUME NEW h \in Handlers, SeedBalances(h)
        PROVE  leaveBalances'[r].leaveTypeId = leaveBalances[r].leaveTypeId
    <2>1. PICK new \in [LeaveTypes -> FreeRows] :
            leaveBalances' = [s \in BalanceRows |->
              IF \E t \in LeaveTypes : new[t] = s
                THEN NewBalance(CHOOSE t \in LeaveTypes : new[t] = s)
                ELSE leaveBalances[s]]
      BY <1>5 DEF SeedBalances
    <2> QED
      BY <1>1, <2>1 DEF FreeRows
  <1>6. CASE UNCHANGED leaveBalances
    BY <1>1, <1>6
  <1> QED
    BY <1>1, <1>2, <1>3, <1>4, <1>5, <1>6
    DEF Next, Submit, Decide, SubmitLeaveRequest, SubmitWithoutBalance,
        ApproveLeaveRequest, RejectLeaveRequest, VerifyLeaveRequest, ReadRequest, FindBalance,
        SelectBalance, SelectRequest, Abort, GetEmployeeLeaveBalances, tables, vars

\* A request keeps its leave type and its days.
LEMMA TermsPersist ==
    ASSUME TypeOK, CallsBacked, [Next]_vars, NEW q \in Requests, leaveRequests[q] # None
    PROVE  /\ leaveRequests'[q].leaveTypeId = leaveRequests[q].leaveTypeId
           /\ leaveRequests'[q].totalDays = leaveRequests[q].totalDays
  BY OnlyCommitsWriteHistory, CommitSubmitWrites, CommitDecisionWrites DEF history

\* A call stays charged while others step, and more is charged to the rows.
LEMMA ChargedPersists ==
    ASSUME TypeOK, CallsBacked, [Next]_vars, NEW c \in RequestCall, Backed(c),
           NEW A \in [BalanceRows -> Nat], NEW B \in [BalanceRows -> Nat],
           \A r \in BalanceRows : A[r] <= B[r], CallCharged(c, A)
    PROVE  CallCharged(c, B)'
  <1>1. c.op # "submit" => /\ leaveRequests'[c.id].leaveTypeId = c.leaveTypeId
                           /\ leaveRequests'[c.id].totalDays = c.totalDays
    <2>1. c.id \in Requests /\ (c.op # "submit" => leaveRequests[c.id] # None)
      BY DEF RequestCall, Backed, Exists
    <2> QED
      BY <2>1, TermsPersist DEF CallCharged
  <1>2. c.balance # None =>
          /\ leaveBalances'[c.balance.row].leaveTypeId = c.leaveTypeId
          /\ c.balance.usedDays <= B[c.balance.row] + VerifyDays(c)
    <2> SUFFICES ASSUME c.balance # None
                 PROVE  /\ leaveBalances'[c.balance.row].leaveTypeId = c.leaveTypeId
                        /\ c.balance.usedDays <= B[c.balance.row] + VerifyDays(c)
      OBVIOUS
    <2>1. c.balance.row \in Rows /\ c.balance.row \in BalanceRows /\ c.balance.usedDays \in Nat
      BY DEF Backed, Rows, RequestCall, BalanceEntity
    <2>2. VerifyDays(c) \in Nat
      BY LeaveAssumption DEF VerifyDays, RequestCall
    <2>3. /\ leaveBalances[c.balance.row].leaveTypeId = c.leaveTypeId
          /\ c.balance.usedDays <= A[c.balance.row] + VerifyDays(c)
      BY DEF CallCharged
    <2>4. A[c.balance.row] \in Nat /\ B[c.balance.row] \in Nat /\ A[c.balance.row] <= B[c.balance.row]
      BY <2>1
    <2>5. c.balance.usedDays <= B[c.balance.row] + VerifyDays(c)
      <3> HIDE DEF VerifyDays
      <3> QED
        BY <2>1, <2>2, <2>3, <2>4
    <2> QED
      BY <2>1, <2>3, <2>5, RowTypesPersist
  <1> QED
    BY <1>1, <1>2 DEF CallCharged, VerifyDays

\* What a handler makes of a row it loaded is charged like the row, and with its own days.
LEMMA LoadedCharged ==
    ASSUME TypeOK, NEW A \in [BalanceRows -> Nat], NEW t, NEW r \in RowsOf(t),
           leaveBalances[r].usedDays <= A[r], NEW c \in RequestCall, c.leaveTypeId = t,
           c.balance = Changed(c.op, r, leaveBalances[r], c.totalDays)
    PROVE  /\ leaveBalances[c.balance.row].leaveTypeId = c.leaveTypeId
           /\ c.balance.usedDays <= A[c.balance.row] + VerifyDays(c)
  <1>1. r \in BalanceRows /\ leaveBalances[r] \in Balance /\ leaveBalances[r].leaveTypeId = t
    BY RowTyped DEF RowsOf
  <1>2. leaveBalances[r].usedDays \in Nat /\ A[r] \in Nat /\ c.totalDays \in Nat
    BY <1>1, LeaveAssumption DEF Balance, RequestCall
  <1>3. /\ c.balance.row = r
        /\ c.balance.usedDays = IF c.op = "verify" THEN leaveBalances[r].usedDays + c.totalDays
                                ELSE leaveBalances[r].usedDays
    BY DEF Changed
  <1> QED
    BY <1>1, <1>2, <1>3 DEF VerifyDays

\* Each of a call's own steps leaves the call, if it goes on, charged.
LEMMA OwnCharged ==
    ASSUME IInv, NEW A, Charged(A), Next
    PROVE  \E h \in Handlers :
             /\ \A g \in Handlers \ {h} : calls'[g] = calls[g]
             /\ InRequestCall(h)' => CallCharged(calls[h], A)'
             /\ \/ UNCHANGED tables
                \/ CreateBalance(h) \/ SeedBalances(h) \/ CommitSubmit(h) \/ CommitDecision(h)
  <1> USE DEF IInv
  <1> DEFINE Goal(h) ==
               /\ \A g \in Handlers \ {h} : calls'[g] = calls[g]
               /\ InRequestCall(h)' => CallCharged(calls[h], A)'
               /\ \/ UNCHANGED tables
                  \/ CreateBalance(h) \/ SeedBalances(h) \/ CommitSubmit(h) \/ CommitDecision(h)
  <1>1. ASSUME NEW h \in Handlers, NEW q \in Requests, NEW t \in LeaveTypes, NEW d \in DayCounts,
               SubmitLeaveRequest(h, q, t, d)
        PROVE  Goal(h)
    <2>1. PICK r \in RowsOf(t) :
            calls' = [calls EXCEPT ![h] =
                        SubmitCall("ready", q, t, d, Changed("submit", r, leaveBalances[r], d))]
      BY <1>1 DEF SubmitLeaveRequest
    <2> DEFINE c == SubmitCall("ready", q, t, d, Changed("submit", r, leaveBalances[r], d))
    <2>2. /\ calls'[h] = c /\ UNCHANGED tables
          /\ \A g \in Handlers \ {h} : calls'[g] = calls[g]
      BY <1>1, <2>1 DEF SubmitLeaveRequest, TypeOK
    <2>3. /\ c.op = "submit" /\ c.leaveTypeId = t
          /\ c.balance = Changed(c.op, r, leaveBalances[r], c.totalDays)
      BY DEF SubmitCall
    <2>4. c \in RequestCall
      BY RowTyped, ChangedTyped, SubmitCallTyped
    <2>5. leaveBalances[r].usedDays <= A[r] /\ A \in [BalanceRows -> Nat]
      BY DEF Charged, Rows, RowsOf
    <2> HIDE DEF c
    <2>6. /\ leaveBalances[c.balance.row].leaveTypeId = c.leaveTypeId
          /\ c.balance.usedDays <= A[c.balance.row] + VerifyDays(c)
      BY <2>3, <2>4, <2>5, LoadedCharged
    <2>7. CallCharged(calls[h], A)'
      BY <2>2, <2>3, <2>6 DEF CallCharged, VerifyDays, tables
    <2> QED
      BY <2>2, <2>7
  <1>2. ASSUME NEW h \in Handlers, NEW q \in Requests, NEW t \in LeaveTypes, NEW d \in DayCounts,
               SubmitWithoutBalance(h, q, t, d)
        PROVE  Goal(h)
    <2>1. /\ calls'[h] = SubmitCall("creating", q, t, d, None) /\ UNCHANGED tables
          /\ \A g \in Handlers \ {h} : calls'[g] = calls[g]
      BY <1>2 DEF SubmitWithoutBalance, TypeOK
    <2>2. calls'[h].op = "submit" /\ calls'[h].balance = None
      BY <2>1 DEF SubmitCall
    <2> QED
      BY <2>1, <2>2 DEF CallCharged
  <1>3. ASSUME NEW h \in Handlers, CreateBalance(h)
        PROVE  Goal(h)
    <2> DEFINE c == calls[h]
               b == NewBalance(c.leaveTypeId)
    <2>1. c \in RequestCall
      BY <1>3, CallTyped DEF CreateBalance, At
    <2>2. PICK r \in FreeRows :
            /\ leaveBalances' = [leaveBalances EXCEPT ![r] = b]
            /\ calls' = [calls EXCEPT ![h] =
                 IF EnoughDays(c.leaveTypeId, b, c.totalDays)
                   THEN SubmitCall("ready", c.id, c.leaveTypeId, c.totalDays,
                                   Changed("submit", r, b, c.totalDays))
                   ELSE None]
      BY <1>3 DEF CreateBalance
    <2>3. \A g \in Handlers \ {h} : calls'[g] = calls[g]
      BY <2>2 DEF TypeOK
    <2>4. CASE calls'[h] = None
      BY <1>3, <2>3, <2>4 DEF InRequestCall
    <2>5. CASE calls'[h] = SubmitCall("ready", c.id, c.leaveTypeId, c.totalDays,
                                      Changed("submit", r, b, c.totalDays))
      <3>1. /\ calls'[h].op = "submit" /\ calls'[h].leaveTypeId = c.leaveTypeId
            /\ calls'[h].balance.row = r /\ calls'[h].balance.usedDays = 0
        BY <2>5 DEF SubmitCall, Changed, NewBalance
      <3>2. r \in BalanceRows /\ leaveBalances'[r].leaveTypeId = c.leaveTypeId
        BY <2>2 DEF FreeRows, TypeOK, NewBalance
      <3>3. A[r] \in Nat
        BY <3>2 DEF Charged
      <3>4. calls'[h].balance.usedDays <= A[r] + 0
        BY <3>1, <3>3
      <3>5. CallCharged(calls[h], A)'
        BY <3>1, <3>2, <3>4 DEF CallCharged, VerifyDays
      <3> QED
        BY <1>3, <2>3, <3>5
    <2> QED
      BY <2>2, <2>4, <2>5 DEF TypeOK
  <1>4. ASSUME NEW h \in Handlers, NEW q \in Requests,
               NEW op \in {"approve", "reject", "verify"}, NEW phase \in {"guarded", "ready"},
               ReadRequest(h, op, q, phase)
        PROVE  Goal(h)
    <2>1. /\ calls'[h].id = q /\ calls'[h].balance = None
          /\ calls'[h].leaveTypeId = leaveRequests[q].leaveTypeId
          /\ calls'[h].totalDays = leaveRequests[q].totalDays
          /\ \A g \in Handlers \ {h} : calls'[g] = calls[g]
          /\ UNCHANGED tables
      BY <1>4 DEF ReadRequest, TypeOK
    <2> QED
      BY <2>1 DEF CallCharged, tables
  <1>5. ASSUME NEW h \in Handlers, FindBalance(h)
        PROVE  Goal(h)
    <2>1. calls[h] \in RequestCall /\ CallCharged(calls[h], A)
      BY <1>5, CallTyped DEF FindBalance, At, Charged
    <2>2. PICK b \in FoundBalances(calls[h]) :
            calls' = [calls EXCEPT ![h].pc = "ready", ![h].balance = b]
      BY <1>5 DEF FindBalance
    <2>3. /\ calls'[h] = [calls[h] EXCEPT !.pc = "ready", !.balance = b]
          /\ UNCHANGED tables /\ \A g \in Handlers \ {h} : calls'[g] = calls[g]
      BY <1>5, <2>2 DEF FindBalance, TypeOK
    <2>4. /\ calls'[h].op = calls[h].op /\ calls'[h].id = calls[h].id
          /\ calls'[h].leaveTypeId = calls[h].leaveTypeId
          /\ calls'[h].totalDays = calls[h].totalDays /\ calls'[h].balance = b
      BY <2>1, <2>3 DEF RequestCall
    <2>5. ASSUME b # None
          PROVE  /\ leaveBalances[b.row].leaveTypeId = calls[h].leaveTypeId
                 /\ b.usedDays <= A[b.row] + VerifyDays(calls[h])
      <3>1. PICK r \in RowsOf(calls[h].leaveTypeId) :
              b = Changed(calls[h].op, r, leaveBalances[r], calls[h].totalDays)
        BY <2>5 DEF FoundBalances
      <3> DEFINE c == [calls[h] EXCEPT !.balance = b]
      <3>2. b \in BalanceEntity
        BY <2>1, <3>1, RowTyped, ChangedTyped DEF RequestCall
      <3>3. /\ c \in RequestCall /\ c.op = calls[h].op /\ c.leaveTypeId = calls[h].leaveTypeId
            /\ c.totalDays = calls[h].totalDays /\ c.balance = b
        BY <2>1, <3>2 DEF RequestCall
      <3>4. leaveBalances[r].usedDays <= A[r] /\ A \in [BalanceRows -> Nat]
        BY DEF Charged, Rows, RowsOf
      <3> HIDE DEF c
      <3>5. /\ leaveBalances[c.balance.row].leaveTypeId = c.leaveTypeId
            /\ c.balance.usedDays <= A[c.balance.row] + VerifyDays(c)
        BY <3>1, <3>3, <3>4, LoadedCharged
      <3> QED
        BY <3>3, <3>5 DEF VerifyDays
    <2>6. CallCharged(calls[h], A)'
      BY <2>1, <2>3, <2>4, <2>5 DEF CallCharged, VerifyDays, tables
    <2> QED
      BY <2>3, <2>6
  <1>6. ASSUME NEW h \in Handlers, SelectBalance(h) \/ SelectRequest(h)
        PROVE  Goal(h)
    <2>1. calls[h] \in RequestCall /\ CallCharged(calls[h], A)
      BY <1>6, CallTyped DEF SelectBalance, SelectRequest, At, Charged
    <2>2. PICK p, D : calls' = [calls EXCEPT ![h].pc = p, ![h].dirty = D]
      BY <1>6 DEF SelectBalance, SelectRequest, TypeOK
    <2>3. /\ calls'[h] = [calls[h] EXCEPT !.pc = p, !.dirty = D]
          /\ UNCHANGED tables /\ \A g \in Handlers \ {h} : calls'[g] = calls[g]
      BY <1>6, <2>2 DEF SelectBalance, SelectRequest, TypeOK
    <2>4. /\ calls'[h].op = calls[h].op /\ calls'[h].id = calls[h].id
          /\ calls'[h].leaveTypeId = calls[h].leaveTypeId
          /\ calls'[h].totalDays = calls[h].totalDays
          /\ calls'[h].balance = calls[h].balance
      BY <2>1, <2>3 DEF RequestCall
    <2>5. CallCharged(calls[h], A)'
      BY <2>1, <2>3, <2>4 DEF CallCharged, VerifyDays, tables
    <2> QED
      BY <2>3, <2>5
  <1>7. ASSUME NEW h \in Handlers, CommitSubmit(h) \/ CommitDecision(h) \/ SeedBalances(h) \/ Abort(h)
        PROVE  Goal(h)
    <2>1. calls'[h] = None /\ \A g \in Handlers \ {h} : calls'[g] = calls[g]
      BY <1>7 DEF CommitSubmit, CommitDecision, SeedBalances, Abort, TypeOK
    <2>2. \/ UNCHANGED tables
          \/ CreateBalance(h) \/ SeedBalances(h) \/ CommitSubmit(h) \/ CommitDecision(h)
      BY <1>7 DEF Abort
    <2> QED
      BY <2>1, <2>2 DEF InRequestCall
  <1>8. ASSUME NEW h \in Handlers, GetEmployeeLeaveBalances(h)
        PROVE  Goal(h)
    <2>1. /\ calls'[h] \in {None, SeedCall} /\ \A g \in Handlers \ {h} : calls'[g] = calls[g]
          /\ UNCHANGED tables
      BY <1>8 DEF GetEmployeeLeaveBalances, Idle, TypeOK
    <2> QED
      BY <2>1 DEF InRequestCall
  <1> HIDE DEF Goal
  <1>9. \E h \in Handlers : Goal(h)
    BY <1>1, <1>2, <1>3, <1>4, <1>5, <1>6, <1>7, <1>8
    DEF Next, Submit, Decide, ApproveLeaveRequest, RejectLeaveRequest, VerifyLeaveRequest
  <1> QED
    BY <1>9 DEF Goal

\* Every step that adds to neither rows nor history.
LEMMA ChargedUntouched ==
    ASSUME NEW A, Charged(A), UNCHANGED tables,
           \A g \in Handlers : InRequestCall(g)' => CallCharged(calls[g], A)'
    PROVE  Charged(A)'
  <1>1. FreeRows' = FreeRows /\ Rows' = Rows /\ \A t : RowsOf(t)' = RowsOf(t)
    BY DEF FreeRows, Rows, RowsOf, tables
  <1>2. \A t : VerifiedDays(t)' = VerifiedDays(t)
    BY DEF VerifiedDays, OfType, Exists, Verifications, tables
  <1> QED
    BY <1>1, <1>2 DEF Charged, tables

\* New rows are charged nothing.
LEMMA ChargedNewRows ==
    ASSUME IInv, Finite, Finite', [Next]_vars, NEW A, Charged(A),
           UNCHANGED <<leaveRequests, leaveApprovals, outbox, auditLogs>>,
           \A r \in Rows : leaveBalances'[r] = leaveBalances[r],
           \A r \in Rows' \ Rows : leaveBalances'[r].usedDays = 0,
           \A g \in Handlers : InRequestCall(g)' => CallCharged(calls[g], A)'
    PROVE  Charged(A)'
  <1>1. A \in [BalanceRows -> Nat] /\ \A r \in FreeRows : A[r] = 0
    BY DEF Charged
  <1>2. Rows \subseteq Rows' /\ FreeRows' \subseteq FreeRows /\ Rows' \subseteq BalanceRows
    BY RowsPersist DEF IInv, Rows
  <1>3. \A r \in Rows' : leaveBalances'[r].usedDays <= A[r]
    <2>1. ASSUME NEW r \in Rows' \ Rows PROVE leaveBalances'[r].usedDays <= A[r]
      <3>1. leaveBalances'[r].usedDays = 0 /\ A[r] \in Nat
        BY <1>1, <1>2
      <3> QED
        BY <3>1
    <2>2. ASSUME NEW r \in Rows PROVE leaveBalances'[r].usedDays <= A[r]
      BY DEF Charged
    <2> QED
      BY <2>1, <2>2
  <1>4. ASSUME NEW t \in LeaveTypes
        PROVE  SumFunctionOnSet(A, RowsOf(t)') <= VerifiedDays(t)'
    <2> DEFINE S == RowsOf(t)
               T == RowsOf(t)'
    <2>1. S \subseteq T
      BY <1>2 DEF RowsOf, Rows
    <2>2. IsFiniteSet(T)
      <3>1. T \subseteq Rows'
        BY DEF RowsOf, Rows
      <3> QED
        BY <3>1, FS_Subset DEF Finite
    <2>3. \A r \in T : A[r] \in Nat
      BY <1>1 DEF RowsOf
    <2>4. ASSUME NEW r \in T \ S PROVE A[r] = 0
      <3>1. CASE r \in FreeRows
        BY <1>1, <3>1
      <3>2. CASE r \notin FreeRows
        BY <3>2 DEF RowsOf, Rows
      <3> QED
        BY <3>1, <3>2
    <2>5. SumFunctionOnSet(A, T) = SumFunctionOnSet(A, S)
      <3> HIDE DEF S, T
      <3> QED
        BY <2>1, <2>2, <2>3, <2>4, SumSupport
    <2>6. VerifiedDays(t)' = VerifiedDays(t)
      BY DEF VerifiedDays, OfType, Exists, Verifications
    <2> QED
      BY <2>5, <2>6 DEF Charged
  <1> QED
    BY <1>1, <1>2, <1>3, <1>4 DEF Charged

\* A row that a commit saves records what it did, or what the call's copy does.
LEMMA SavedRow ==
    ASSUME IInv, NEW c \in RequestCall, Backed(c), SaveBalance(c)
    PROVE  /\ \A r \in Rows : c.balance = None \/ r # c.balance.row =>
                leaveBalances'[r] = leaveBalances[r]
           /\ c.balance # None =>
                /\ c.balance.row \in Rows
                /\ leaveBalances'[c.balance.row].usedDays
                     \in {c.balance.usedDays, leaveBalances[c.balance.row].usedDays}
  <1>1. CASE c.balance = None
    BY <1>1 DEF SaveBalance
  <1>2. CASE c.balance # None
    <2>1. c.balance.row \in Rows /\ c.balance.row \in BalanceRows
      BY <1>2 DEF Backed, Rows, RequestCall, BalanceEntity
    <2>2. leaveBalances[c.balance.row] \in Balance
      BY <2>1 DEF IInv, TypeOK, Rows, FreeRows
    <2>3. leaveBalances' = [leaveBalances EXCEPT ![c.balance.row] = SavedBalance(c)]
      BY <1>2 DEF SaveBalance
    <2>4. SavedBalance(c).usedDays \in {c.balance.usedDays, leaveBalances[c.balance.row].usedDays}
      BY <2>2 DEF SavedBalance, Balance
    <2>5. leaveBalances'[c.balance.row] = SavedBalance(c)
      BY <2>1, <2>3 DEF IInv, TypeOK
    <2>6. \A r \in Rows : r # c.balance.row => leaveBalances'[r] = leaveBalances[r]
      BY <2>3 DEF Rows, IInv, TypeOK
    <2> QED
      BY <1>2, <2>1, <2>4, <2>5, <2>6
  <1> QED
    BY <1>1, <1>2

\* A commit: the days it verifies are charged to the row that its call had loaded.
LEMMA ChargedCommit ==
    ASSUME IInv, Finite, NEW h \in Handlers, CommitSubmit(h) \/ CommitDecision(h),
           NEW A, Charged(A)
    PROVE  \E B : Charged(B)'
  <1> USE DEF IInv
  <1> DEFINE c == calls[h]
             e == VerifyDays(c)
  <1>1. /\ c \in RequestCall /\ InRequestCall(h) /\ Backed(c) /\ CallCharged(c, A)
        /\ SaveBalance(c) /\ e \in Nat
    <2>1. InRequestCall(h) /\ SaveBalance(c)
      BY DEF CommitSubmit, CommitDecision, At
    <2>2. c \in RequestCall /\ Backed(c) /\ CallCharged(c, A)
      BY <2>1, CallTyped DEF CallsBacked, Charged
    <2>3. e \in Nat
      BY <2>2, LeaveAssumption DEF VerifyDays, RequestCall
    <2> QED
      BY <2>1, <2>2, <2>3
  <1>2. A \in [BalanceRows -> Nat]
    BY DEF Charged
  <1>3. PICK row, own : row = c.balance /\ own = c
    OBVIOUS
  <1>4. PICK n \in Nat : n = e
    BY <1>1
  <1> DEFINE B == IF row = None THEN A ELSE [A EXCEPT ![row.row] = @ + n]
  <1>5. row # None => row.row \in Rows /\ row.row \in BalanceRows /\ row.usedDays \in Nat
    BY <1>1, <1>3 DEF Backed, Rows, RequestCall, BalanceEntity
  <1>6. B \in [BalanceRows -> Nat] /\ \A r \in BalanceRows : A[r] <= B[r]
    BY <1>2, <1>5
  <1>7. FreeRows' = FreeRows /\ Rows' = Rows /\ \A t : RowsOf(t)' = RowsOf(t)
    <2>1. \A t : RowsOf(t)' = RowsOf(t)
      BY CommitKeepsRows
    <2>2. \A r \in BalanceRows \ FreeRows : r \in RowsOf(leaveBalances[r].leaveTypeId)
      BY DEF RowsOf
    <2>3. \A r \in BalanceRows \ FreeRows' : \E t : r \in RowsOf(t)'
      BY DEF RowsOf
    <2>4. \A t : RowsOf(t) \cap FreeRows = {} /\ RowsOf(t)' \cap FreeRows' = {}
      BY DEF RowsOf
    <2>5. FreeRows' = FreeRows
      BY <2>1, <2>2, <2>3, <2>4 DEF FreeRows
    <2> QED
      BY <2>1, <2>5 DEF Rows
  <1>8. \A r \in Rows : leaveBalances'[r].usedDays <= B[r]
    <2>1. ASSUME NEW r \in Rows, row = None \/ r # row.row
          PROVE  leaveBalances'[r].usedDays <= B[r]
      <3>1. leaveBalances'[r] = leaveBalances[r]
        BY <1>1, <1>3, <2>1, SavedRow
      <3>2. leaveBalances[r].usedDays <= A[r] /\ B[r] = A[r]
        BY <1>2, <2>1 DEF Charged, Rows
      <3> QED
        BY <3>1, <3>2
    <2>2. ASSUME row # None PROVE leaveBalances'[row.row].usedDays <= B[row.row]
      <3>1. /\ leaveBalances[row.row].usedDays <= A[row.row]
            /\ row.usedDays <= A[row.row] + n
        BY <1>1, <1>3, <1>4, <1>5, <2>2 DEF Charged, CallCharged
      <3>2. B[row.row] = A[row.row] + n /\ A[row.row] \in Nat
        BY <1>2, <1>5, <2>2
      <3>3. leaveBalances'[row.row].usedDays \in {row.usedDays, leaveBalances[row.row].usedDays}
        BY <1>1, <1>3, <2>2, SavedRow
      <3>4. leaveBalances[row.row].usedDays \in Nat
        BY <1>5, <2>2 DEF TypeOK, Rows, FreeRows, Balance
      <3> HIDE DEF B
      <3> QED
        BY <1>5, <2>2, <3>1, <3>2, <3>3, <3>4
    <2> QED
      BY <2>1, <2>2
  <1>9. \A r \in FreeRows : B[r] = 0
    BY <1>2, <1>5 DEF Charged, FreeRows, Rows
  <1>10. ASSUME NEW g \in Handlers, InRequestCall(g)'
         PROVE  CallCharged(calls[g], B)'
    <2>1. calls'[g] = calls[g] /\ g # h /\ InRequestCall(g)
      BY <1>10 DEF CommitSubmit, CommitDecision, TypeOK, InRequestCall
    <2>2. calls[g] \in RequestCall /\ Backed(calls[g]) /\ CallCharged(calls[g], A)
      BY <2>1, CallTyped DEF CallsBacked, Charged
    <2>3. Next
      BY DEF Next
    <2>4. \A d \in RequestCall : d = calls[g] => CallCharged(d, B)'
      <3> HIDE DEF B
      <3> QED
        BY <1>2, <1>6, <2>2, <2>3, ChargedPersists
    <2> HIDE DEF B
    <2> QED
      BY <2>1, <2>2, <2>4 DEF CallCharged, VerifyDays
  <1>11. ASSUME NEW t \in LeaveTypes
         PROVE  SumFunctionOnSet(B, RowsOf(t)) <= VerifiedDays(t)'
    <2> DEFINE S == RowsOf(t)
    <2>1. IsFiniteSet(S) /\ \A r \in S : A[r] \in Nat /\ B[r] \in Nat
      BY <1>2, <1>6, FiniteSums DEF RowsOf
    <2>2. SumFunctionOnSet(A, S) <= VerifiedDays(t)
      BY DEF Charged
    <2>3. SumFunctionOnSet(A, S) \in Nat /\ SumFunctionOnSet(B, S) \in Nat
      <3> HIDE DEF S, B
      <3> QED
        BY <2>1, SumType
    <2>4. CASE row = None \/ row.row \notin S \/ n = 0
      <3>1. \A r \in S : A[r] \in Nat /\ A[r] = B[r]
        BY <1>2, <2>1, <2>4 DEF RowsOf
      <3>2. SumFunctionOnSet(A, S) = SumFunctionOnSet(B, S)
        <4> HIDE DEF S, B
        <4> QED
          BY <2>1, <3>1, SumSame
      <3>3. VerifiedDays(t) <= VerifiedDays(t)' /\ VerifiedDays(t) \in Int /\ VerifiedDays(t)' \in Int
        <4>1. CASE CommitSubmit(h)
          BY <4>1, SubmitVerifiesNothing
        <4>2. CASE CommitDecision(h)
          <5> DEFINE a == IF calls[h].op = "verify" /\ leaveRequests[calls[h].id].leaveTypeId = t
                          THEN leaveRequests[calls[h].id].totalDays ELSE 0
          <5>1. a \in Nat
            <6>1. c.id \in Requests /\ (calls[h].op = "verify" => leaveRequests[c.id] # None)
              BY <1>1 DEF Backed, Exists, RequestCall
            <6>2. calls[h].op = "verify" => leaveRequests[c.id].totalDays \in Nat
              BY <6>1, LeaveAssumption DEF TypeOK, Request
            <6> QED
              BY <6>2
          <5>2. VerifiedDays(t) \in Nat /\ VerifiedDays(t)' = VerifiedDays(t) + a
            BY <4>2, DecisionVerifies
          <5> HIDE DEF a
          <5> QED
            BY <5>1, <5>2
        <4> QED
          BY <4>1, <4>2
      <3> QED
        BY <2>2, <2>3, <3>2, <3>3
    <2>5. CASE row # None /\ row.row \in S /\ n # 0
      <3>1. c.op = "verify" /\ CommitDecision(h) /\ n = c.totalDays
        BY <1>4, <2>5 DEF VerifyDays, CommitSubmit
      <3>2. /\ leaveRequests[c.id].leaveTypeId = t
            /\ leaveRequests[c.id].totalDays = n
        <4>1. leaveBalances[row.row].leaveTypeId = t
          BY <2>5 DEF RowsOf
        <4> QED
          BY <1>1, <1>3, <2>5, <3>1, <4>1 DEF CallCharged
      <3>3. VerifiedDays(t) \in Nat /\ VerifiedDays(t)' = VerifiedDays(t) + n
        BY <3>1, <3>2, DecisionVerifies
      <3>4. B[row.row] = A[row.row] + n /\ \A r \in S \ {row.row} : A[r] = B[r]
        BY <1>2, <1>5, <2>5 DEF RowsOf
      <3>5. SumFunctionOnSet(B, S) + A[row.row] = SumFunctionOnSet(A, S) + B[row.row]
        <4> HIDE DEF S, B
        <4> QED
          BY <2>1, <2>5, <3>4, SumChange
      <3>6. A[row.row] \in Nat
        BY <1>2, <1>5, <2>5
      <3>7. SumFunctionOnSet(B, S) = SumFunctionOnSet(A, S) + n
        <4> HIDE DEF S, B
        <4> QED
          BY <1>4, <2>3, <3>4, <3>5, <3>6
      <3> HIDE DEF B
      <3> QED
        BY <1>4, <2>2, <2>3, <3>3, <3>7
    <2> QED
      BY <2>4, <2>5
  <1> QED
    <2> HIDE DEF B
    <2> QED
      BY <1>6, <1>7, <1>8, <1>9, <1>10, <1>11 DEF Charged

\* A transaction inserts finitely many rows.
LEMMA FiniteStep ==
    ASSUME IInv, Finite, [Next]_vars
    PROVE  Finite'
  <1> USE DEF IInv
  <1>1. IsFiniteSet(auditLogs')
    <2>1. PICK q : auditLogs' \subseteq auditLogs \cup {q}
      <3>1. auditLogs' = auditLogs \/ \E q : auditLogs' = auditLogs \cup {q}
        BY OnlyCommitsWriteHistory, CommitSubmitWrites, CommitDecisionWrites DEF history
      <3> QED
        BY <3>1
    <2> QED
      BY <2>1, FS_AddElement, FS_Subset DEF Finite
  <1>2. ASSUME NEW h \in Handlers, CommitSubmit(h) \/ CommitDecision(h)
        PROVE  IsFiniteSet(Rows')
    <2>1. Rows' \subseteq Rows
      <3>1. \A r \in Rows' : \E t : r \in RowsOf(t)'
        BY DEF RowsOf, Rows
      <3>2. \A r \in Rows' : \E t : r \in RowsOf(t)
        BY <1>2, <3>1, CommitKeepsRows
      <3> QED
        BY <3>2 DEF RowsOf, Rows
    <2> QED
      BY <2>1, FS_Subset DEF Finite
  <1>3. ASSUME NEW h \in Handlers, CreateBalance(h)
        PROVE  IsFiniteSet(Rows')
    <2>1. PICK r : \A s \in BalanceRows : s # r => leaveBalances'[s] = leaveBalances[s]
      BY <1>3 DEF CreateBalance, TypeOK
    <2>2. Rows' \subseteq Rows \cup {r}
      BY <2>1 DEF Rows, FreeRows
    <2> QED
      BY <2>2, FS_AddElement, FS_Subset DEF Finite
  <1>4. ASSUME NEW h \in Handlers, SeedBalances(h)
        PROVE  IsFiniteSet(Rows')
    <2>1. PICK new \in [LeaveTypes -> FreeRows] :
            leaveBalances' = [s \in BalanceRows |->
              IF \E t \in LeaveTypes : new[t] = s
                THEN NewBalance(CHOOSE t \in LeaveTypes : new[t] = s)
                ELSE leaveBalances[s]]
      BY <1>4 DEF SeedBalances
    <2> DEFINE N == {new[t] : t \in LeaveTypes}
    <2>2. new \in Surjection(LeaveTypes, N)
      BY DEF Surjection
    <2>3. IsFiniteSet(N)
      BY <2>2, FS_Surjection, LeaveAssumption
    <2>4. \A s \in BalanceRows : s \notin N => leaveBalances'[s] = leaveBalances[s]
      BY <2>1
    <2>5. Rows' \subseteq Rows \cup N
      BY <2>4 DEF Rows, FreeRows
    <2> QED
      BY <2>3, <2>5, FS_Union, FS_Subset DEF Finite
  <1>5. ASSUME UNCHANGED leaveBalances
        PROVE  IsFiniteSet(Rows')
    <2>1. Rows' = Rows
      BY <1>5 DEF Rows, FreeRows
    <2> QED
      BY <2>1 DEF Finite
  <1>6. \/ UNCHANGED leaveBalances
        \/ \E h \in Handlers : \/ CommitSubmit(h) \/ CommitDecision(h)
                              \/ CreateBalance(h) \/ SeedBalances(h)
    BY DEF Next, Submit, Decide, SubmitLeaveRequest, SubmitWithoutBalance,
        ApproveLeaveRequest, RejectLeaveRequest, VerifyLeaveRequest, ReadRequest, FindBalance,
        SelectBalance, SelectRequest, Abort, GetEmployeeLeaveBalances, tables, vars
  <1> QED
    BY <1>1, <1>2, <1>3, <1>4, <1>5, <1>6 DEF Finite

\* The rows that a step creates record no days, and it changes no other row.
LEMMA NewRowsEmpty ==
    ASSUME TypeOK, NEW h \in Handlers, CreateBalance(h) \/ SeedBalances(h)
    PROVE  /\ UNCHANGED history
           /\ \A r \in Rows : leaveBalances'[r] = leaveBalances[r]
           /\ \A r \in Rows' \ Rows : \E t : leaveBalances'[r] = NewBalance(t)
  <1>1. UNCHANGED history
    BY DEF CreateBalance, SeedBalances, history
  <1>2. ASSUME CreateBalance(h)
        PROVE  /\ \A r \in Rows : leaveBalances'[r] = leaveBalances[r]
               /\ \A r \in Rows' \ Rows : \E t : leaveBalances'[r] = NewBalance(t)
    <2>1. PICK r \in FreeRows :
            leaveBalances' = [leaveBalances EXCEPT ![r] = NewBalance(calls[h].leaveTypeId)]
      BY <1>2 DEF CreateBalance
    <2>2. /\ leaveBalances'[r] = NewBalance(calls[h].leaveTypeId)
          /\ \A s \in BalanceRows : s # r => leaveBalances'[s] = leaveBalances[s]
      BY <2>1 DEF FreeRows, TypeOK
    <2> QED
      BY <2>2 DEF Rows, FreeRows
  <1>3. ASSUME SeedBalances(h)
        PROVE  /\ \A r \in Rows : leaveBalances'[r] = leaveBalances[r]
               /\ \A r \in Rows' \ Rows : \E t : leaveBalances'[r] = NewBalance(t)
    <2>1. PICK new \in [LeaveTypes -> FreeRows] :
            leaveBalances' = [s \in BalanceRows |->
              IF \E t \in LeaveTypes : new[t] = s
                THEN NewBalance(CHOOSE t \in LeaveTypes : new[t] = s)
                ELSE leaveBalances[s]]
      BY <1>3 DEF SeedBalances
    <2>2. \A s \in BalanceRows :
            \/ (\E t \in LeaveTypes : new[t] = s) /\ \E t : leaveBalances'[s] = NewBalance(t)
            \/ ~(\E t \in LeaveTypes : new[t] = s) /\ leaveBalances'[s] = leaveBalances[s]
      BY <2>1
    <2> QED
      BY <2>2 DEF Rows, FreeRows
  <1> QED
    BY <1>1, <1>2, <1>3

\* Every step leaves charges that cover the rows.
LEMMA ChargeStep == ChargeInv /\ IInv' /\ [Next]_vars => ChargeInv'
  <1> SUFFICES ASSUME ChargeInv, IInv', [Next]_vars PROVE ChargeInv'
    OBVIOUS
  <1>1. IInv /\ Finite /\ Finite'
    BY FiniteStep DEF ChargeInv
  <1>2. PICK A : Charged(A)
    BY DEF ChargeInv
  <1>3. TypeOK /\ CallsBacked /\ A \in [BalanceRows -> Nat]
    BY <1>1, <1>2 DEF IInv, Charged
  <1>4. CASE UNCHANGED vars
    <2>1. \A g \in Handlers : InRequestCall(g)' => CallCharged(calls[g], A)'
      BY <1>2, <1>4 DEF Charged, InRequestCall, CallCharged, VerifyDays, tables, vars
    <2>2. Charged(A)'
      BY <1>2, <1>4, <2>1, ChargedUntouched DEF vars
    <2> QED
      BY <1>1, <2>2 DEF ChargeInv
  <1>5. CASE Next
    <2>1. PICK h \in Handlers :
            /\ \A g \in Handlers \ {h} : calls'[g] = calls[g]
            /\ InRequestCall(h)' => CallCharged(calls[h], A)'
            /\ \/ UNCHANGED tables
               \/ CreateBalance(h) \/ SeedBalances(h) \/ CommitSubmit(h) \/ CommitDecision(h)
      BY <1>1, <1>2, <1>5, OwnCharged
    <2>2. ASSUME NEW g \in Handlers, InRequestCall(g)'
          PROVE  CallCharged(calls[g], A)'
      <3>1. CASE g = h
        BY <2>1, <2>2, <3>1
      <3>2. CASE g # h
        <4>1. calls'[g] = calls[g] /\ InRequestCall(g)
          BY <2>1, <2>2, <3>2 DEF InRequestCall
        <4>2. calls[g] \in RequestCall /\ Backed(calls[g]) /\ CallCharged(calls[g], A)
          BY <1>2, <1>3, <4>1, CallTyped DEF CallsBacked, Charged
        <4>3. \A r \in BalanceRows : A[r] <= A[r]
          BY <1>3
        <4>4. \A d \in RequestCall : d = calls[g] => CallCharged(d, A)'
          BY <1>3, <1>5, <4>2, <4>3, ChargedPersists
        <4> QED
          BY <4>1, <4>2, <4>4 DEF CallCharged, VerifyDays
      <3> QED
        BY <3>1, <3>2
    <2>3. CASE UNCHANGED tables
      BY <1>1, <1>2, <2>2, <2>3, ChargedUntouched DEF ChargeInv
    <2>4. CASE CreateBalance(h) \/ SeedBalances(h)
      <3>1. UNCHANGED history /\ \A r \in Rows : leaveBalances'[r] = leaveBalances[r]
        BY <1>3, <2>4, NewRowsEmpty
      <3>2. ASSUME NEW r \in Rows' \ Rows PROVE leaveBalances'[r].usedDays = 0
        <4>1. \E t : leaveBalances'[r] = NewBalance(t)
          BY <1>3, <2>4, NewRowsEmpty
        <4> QED
          BY <4>1 DEF NewBalance
      <3>3. Charged(A)'
        BY <1>1, <1>2, <1>5, <2>2, <3>1, <3>2, ChargedNewRows DEF history
      <3> QED
        BY <1>1, <3>3 DEF ChargeInv
    <2>5. CASE CommitSubmit(h) \/ CommitDecision(h)
      BY <1>1, <1>2, <2>5, ChargedCommit DEF ChargeInv
    <2> QED
      BY <2>1, <2>3, <2>4, <2>5
  <1> QED
    BY <1>4, <1>5

\* The empty database charges nothing.
LEMMA ChargeInit == Init => ChargeInv
  <1> SUFFICES ASSUME Init PROVE ChargeInv
    OBVIOUS
  <1>1. IInv
    BY InitInv
  <1>2. Rows = {} /\ FreeRows = BalanceRows /\ \A t : RowsOf(t) = {} /\ OfType(t) = {}
    BY DEF Init, Rows, FreeRows, RowsOf, OfType, Exists
  <1>3. Finite
    BY <1>2, FS_EmptySet DEF Init, Finite
  <1> DEFINE A == [r \in BalanceRows |-> 0]
  <1>4. ASSUME NEW t \in LeaveTypes PROVE SumFunctionOnSet(A, RowsOf(t)) <= VerifiedDays(t)
    <2> DEFINE f == [q \in OfType(t) |->
                       leaveRequests[q].totalDays * Cardinality(Verifications(q))]
    <2>1. VerifiedDays(t) = SumFunctionOnSet(f, {})
      BY <1>2 DEF VerifiedDays, SumFunction
    <2> HIDE DEF A, f
    <2> QED
      BY <1>2, <2>1, SumEmpty
  <1>5. A \in [BalanceRows -> Nat] /\ \A r \in FreeRows : A[r] = 0
    BY <1>2
  <1>6. \A h \in Handlers : ~InRequestCall(h)
    BY DEF Init, InRequestCall
  <1>7. Charged(A)
    <2> HIDE DEF A
    <2> QED
      BY <1>2, <1>4, <1>5, <1>6 DEF Charged
  <1> HIDE DEF A
  <1> QED
    BY <1>1, <1>3, <1>7 DEF ChargeInv

\* However many calls overlap, whatever rows are duplicated and wherever calls abort, no
\* employee is charged more used days of a leave type than HR verified.
THEOREM UsedIsVerified == Spec => []UsedNeverOverstated
  <1>1. ChargeInv => UsedNeverOverstated
    <2> SUFFICES ASSUME ChargeInv, NEW t \in LeaveTypes
                 PROVE  Recorded(t, "usedDays") <= VerifiedDays(t)
      BY DEF UsedNeverOverstated
    <2>1. PICK A : Charged(A)
      BY DEF ChargeInv
    <2> DEFINE S == RowsOf(t)
               g == [r \in RowsOf(t) |-> leaveBalances[r].usedDays]
    <2>2. Recorded(t, "usedDays") = SumFunctionOnSet(g, S)
      BY DEF Recorded, SumFunction
    <2>3. IsFiniteSet(S)
      BY FiniteSums DEF ChargeInv
    <2>4. \A r \in S : A[r] \in Nat /\ g[r] \in Nat /\ g[r] <= A[r]
      BY <2>1, RowTyped DEF ChargeInv, IInv, Charged, Rows, RowsOf, Balance
    <2>5. \A q \in OfType(t) :
            leaveRequests[q].totalDays * Cardinality(Verifications(q)) \in Nat
      BY VerifiedTerm DEF ChargeInv, IInv
    <2>6. VerifiedDays(t) \in Nat
      <3> DEFINE f == [q \in OfType(t) |->
                         leaveRequests[q].totalDays * Cardinality(Verifications(q))]
                 T == OfType(t)
      <3>1. \A q \in T : f[q] \in Nat
        BY <2>5
      <3>2. IsFiniteSet(T)
        BY FiniteSums DEF ChargeInv
      <3>3. VerifiedDays(t) = SumFunctionOnSet(f, T)
        BY DEF VerifiedDays, SumFunction
      <3> HIDE DEF f, T
      <3> QED
        BY <3>1, <3>2, <3>3, SumType
    <2>7. SumFunctionOnSet(A, S) <= VerifiedDays(t)
      BY <2>1 DEF Charged
    <2> HIDE DEF S, g
    <2>8. SumFunctionOnSet(g, S) <= SumFunctionOnSet(A, S)
      BY <2>3, <2>4, SumMonotonic
    <2>9. SumFunctionOnSet(g, S) \in Nat /\ SumFunctionOnSet(A, S) \in Nat
      BY <2>3, <2>4, SumType
    <2> QED
      BY <2>2, <2>6, <2>7, <2>8, <2>9
  <1>2. ChargeInv /\ IInv' /\ [Next]_vars => ChargeInv'
    BY ChargeStep
  <1> QED
    BY <1>1, <1>2, ChargeInit, InvariantHolds, PTL DEF Spec
=============================================================================

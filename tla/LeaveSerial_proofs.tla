------------------------- MODULE LeaveSerial_proofs -------------------------
(***************************************************************************)
(* Theorems about LeaveWorkflow when calls do not overlap, for any number  *)
(* of requests, rows and leave types, and wherever calls abort.            *)
(*                                                                         *)
(* A call then finds at its last statement what it found at its first      *)
(* (CallInv), which no call can rely on once two overlap.  LedgerInv adds  *)
(* that the balance row and the requests of a type tell the same days.     *)
(***************************************************************************)
EXTENDS LeaveWorkflow_proofs

\* One handler at most.
OneCall == \A g, h \in Handlers : g = h

\* No two rows of one leave type.
RowsDiffer == \A t \in LeaveTypes : \A r, s \in RowsOf(t) : r = s

\* What a call read when it began still holds.
CallInv(h) ==
    /\ calls[h] = SeedCall => FreeRows = BalanceRows
    /\ InRequestCall(h) =>
         /\ calls[h].pc = "creating" => RowsOf(calls[h].leaveTypeId) = {}
         /\ calls[h].op # "submit" =>
              leaveRequests[calls[h].id].status \in Accepted(calls[h].op)

SerialInv == /\ IInv
             /\ RowsDiffer
             /\ \A h \in Handlers : CallInv(h)

\* A call about a request is not a seeding.
LEMMA RequestCallsDiffer ==
    ASSUME NEW c \in RequestCall
    PROVE  c # SeedCall
  BY DEF RequestCall, SeedCall

-----------------------------------------------------------------------------
(* Steps that write no table *)

LEMMA RowsUntouched ==
    ASSUME UNCHANGED leaveBalances
    PROVE  FreeRows' = FreeRows /\ \A t : RowsOf(t)' = RowsOf(t)
  BY DEF FreeRows, RowsOf

\* A call begins or goes on, or ends with nothing saved.
LEMMA TablesStep ==
    ASSUME OneCall, SerialInv, NEW h \in Handlers, UNCHANGED tables,
           \/ Submit(h) \/ Decide(h) \/ FindBalance(h) \/ SelectBalance(h) \/ SelectRequest(h)
           \/ Abort(h) \/ GetEmployeeLeaveBalances(h)
    PROVE  RowsDiffer' /\ CallInv(h)'
  <1> USE DEF SerialInv, IInv
  <1>1. FreeRows' = FreeRows /\ \A t : RowsOf(t)' = RowsOf(t)
    BY RowsUntouched DEF tables
  <1>2. RowsDiffer'
    BY <1>1 DEF RowsDiffer
  <1>3. CASE Abort(h)
    <2>1. calls'[h] = None
      BY <1>3 DEF Abort, TypeOK
    <2> QED
      BY <1>2, <2>1, NoneAssumption DEF CallInv, InRequestCall
  <1>4. CASE GetEmployeeLeaveBalances(h)
    <2>1. CASE NothingToSeed
      <3>1. calls' = calls
        BY <1>4, <2>1 DEF GetEmployeeLeaveBalances
      <3> QED
        BY <1>1, <1>2, <3>1 DEF CallInv, InRequestCall, tables
    <2>2. CASE ~NothingToSeed
      <3>1. calls'[h] = SeedCall /\ FreeRows = BalanceRows
        BY <1>4, <2>2 DEF GetEmployeeLeaveBalances, NothingToSeed, TypeOK
      <3> QED
        BY <1>1, <1>2, <3>1 DEF CallInv, InRequestCall
    <2> QED
      BY <2>1, <2>2
  <1>5. ASSUME NEW q \in Requests, NEW t \in LeaveTypes, NEW d \in DayCounts,
               SubmitLeaveRequest(h, q, t, d)
        PROVE  CallInv(h)'
    <2>1. PICK r \in RowsOf(t) :
            calls' = [calls EXCEPT ![h] =
                        SubmitCall("ready", q, t, d, Changed("submit", r, leaveBalances[r], d))]
      BY <1>5 DEF SubmitLeaveRequest
    <2>2. SubmitCall("ready", q, t, d, Changed("submit", r, leaveBalances[r], d)) \in RequestCall
      BY RowTyped, ChangedTyped, SubmitCallTyped
    <2>3. calls'[h] # SeedCall /\ calls'[h].pc = "ready" /\ calls'[h].op = "submit"
      BY <2>1, <2>2, RequestCallsDiffer DEF TypeOK, SubmitCall
    <2> QED
      BY <2>3 DEF CallInv
  <1>6. ASSUME NEW q \in Requests, NEW t \in LeaveTypes, NEW d \in DayCounts,
               SubmitWithoutBalance(h, q, t, d)
        PROVE  CallInv(h)'
    <2>1. SubmitCall("creating", q, t, d, None) \in RequestCall
      BY SubmitCallTyped
    <2>2. /\ calls'[h] # SeedCall /\ calls'[h].leaveTypeId = t /\ calls'[h].op = "submit"
          /\ RowsOf(t) = {}
      BY <1>6, <2>1, RequestCallsDiffer DEF SubmitWithoutBalance, TypeOK, SubmitCall
    <2> QED
      BY <1>1, <2>2 DEF CallInv
  <1>7. ASSUME NEW q \in Requests, NEW op \in {"approve", "reject", "verify"},
               NEW phase \in {"ready", "guarded"}, ReadRequest(h, op, q, phase)
        PROVE  CallInv(h)'
    <2>1. /\ calls'[h].op = op /\ calls'[h].id = q /\ calls'[h].pc = phase
          /\ leaveRequests[q].status \in Accepted(op)
      BY <1>7 DEF ReadRequest, TypeOK
    <2>2. calls'[h] # SeedCall
      BY <2>1 DEF SeedCall
    <2> QED
      BY <2>1, <2>2 DEF CallInv, tables
  <1>8. CASE FindBalance(h) \/ SelectBalance(h) \/ SelectRequest(h)
    <2>1. calls[h] \in RequestCall /\ InRequestCall(h)
      BY <1>8, CallTyped DEF FindBalance, SelectBalance, SelectRequest, At
    <2>2. \E p \in {"ready", "selected", "saving"} : \E e, s :
            calls'[h] = [calls[h] EXCEPT !.pc = p, !.balance = e, !.dirty = s]
      <3>1. CASE FindBalance(h)
        <4>1. PICK e : calls' = [calls EXCEPT ![h].pc = "ready", ![h].balance = e]
          BY <3>1 DEF FindBalance
        <4>2. calls'[h] = [calls[h] EXCEPT !.pc = "ready", !.balance = e, !.dirty = calls[h].dirty]
          BY <2>1, <4>1 DEF TypeOK, RequestCall
        <4> QED
          BY <4>2
      <3>2. CASE SelectBalance(h) \/ SelectRequest(h)
        <4>1. \E p \in {"selected", "saving"} : \E s :
                calls' = [calls EXCEPT ![h].pc = p, ![h].dirty = s]
          <5>1. CASE SelectBalance(h)
            BY <5>1 DEF SelectBalance
          <5>2. CASE SelectRequest(h)
            BY <5>2 DEF SelectRequest, TypeOK
          <5> QED
            BY <3>2, <5>1, <5>2
        <4>2. PICK p \in {"selected", "saving"} :
                \E s : calls' = [calls EXCEPT ![h].pc = p, ![h].dirty = s]
          BY <4>1
        <4>3. PICK s : calls' = [calls EXCEPT ![h].pc = p, ![h].dirty = s]
          BY <4>2
        <4>4. calls'[h] = [calls[h] EXCEPT !.pc = p, !.balance = calls[h].balance, !.dirty = s]
          BY <2>1, <4>3 DEF TypeOK, RequestCall
        <4> QED
          BY <4>4
      <3> QED
        BY <1>8, <3>1, <3>2
    <2>3. /\ calls'[h].op = calls[h].op /\ calls'[h].id = calls[h].id
          /\ calls'[h].pc # "creating"
      BY <2>1, <2>2 DEF RequestCall
    <2>4. calls'[h] # SeedCall
      BY <2>1, <2>3 DEF SeedCall, RequestCall
    <2> QED
      BY <1>2, <2>1, <2>4, <2>3 DEF CallInv, tables
  <1> QED
    BY <1>2, <1>3, <1>4, <1>5, <1>6, <1>7, <1>8
    DEF Submit, Decide, ApproveLeaveRequest, RejectLeaveRequest, VerifyLeaveRequest

-----------------------------------------------------------------------------
(* Steps that write the tables *)

\* The row a submission creates is the first of its type.
LEMMA CreateBalanceStep ==
    ASSUME SerialInv, NEW h \in Handlers, CreateBalance(h)
    PROVE  RowsDiffer' /\ CallInv(h)'
  <1> USE DEF SerialInv, IInv
  <1> DEFINE c == calls[h]
             b == NewBalance(c.leaveTypeId)
  <1>1. c \in RequestCall /\ RowsOf(c.leaveTypeId) = {}
    BY CallTyped DEF CreateBalance, At, CallInv
  <1>2. PICK r \in FreeRows :
          /\ leaveBalances' = [leaveBalances EXCEPT ![r] = b]
          /\ calls' = [calls EXCEPT ![h] =
               IF EnoughDays(c.leaveTypeId, b, c.totalDays)
                 THEN SubmitCall("ready", c.id, c.leaveTypeId, c.totalDays,
                                 Changed("submit", r, b, c.totalDays))
                 ELSE None]
    BY DEF CreateBalance
  <1>3. /\ leaveBalances'[r] = b /\ b.leaveTypeId = c.leaveTypeId
        /\ \A s \in BalanceRows : s # r => leaveBalances'[s] = leaveBalances[s]
    BY <1>2 DEF FreeRows, TypeOK, NewBalance
  <1>4. ASSUME NEW t \in LeaveTypes, NEW s \in RowsOf(t)'
        PROVE  s \in RowsOf(t) \/ (s = r /\ t = c.leaveTypeId)
    BY <1>3, <1>4 DEF RowsOf, FreeRows
  <1>5. RowsDiffer'
    BY <1>1, <1>4 DEF RowsDiffer
  <1>6. CallInv(h)'
    <2>1. CASE calls'[h] = None
      BY <2>1, NoneAssumption DEF CallInv, InRequestCall
    <2>2. CASE calls'[h] = SubmitCall("ready", c.id, c.leaveTypeId, c.totalDays,
                                      Changed("submit", r, b, c.totalDays))
      <3>1. calls'[h].op = "submit" /\ calls'[h].pc = "ready"
        BY <2>2 DEF SubmitCall
      <3>2. calls'[h] # SeedCall
        BY <3>1 DEF SeedCall
      <3> QED
        BY <3>1, <3>2 DEF CallInv
    <2> QED
      BY <1>2, <2>1, <2>2 DEF TypeOK
  <1> QED
    BY <1>5, <1>6

\* The rows that seeding creates are the first of all, one for each type.
LEMMA SeedBalancesStep ==
    ASSUME SerialInv, NEW h \in Handlers, SeedBalances(h)
    PROVE  RowsDiffer' /\ CallInv(h)'
  <1> USE DEF SerialInv, IInv
  <1>1. FreeRows = BalanceRows
    BY DEF SeedBalances, CallInv
  <1>2. PICK new \in [LeaveTypes -> FreeRows] :
          /\ \A t, u \in LeaveTypes : t # u => new[t] # new[u]
          /\ leaveBalances' = [r \in BalanceRows |->
               IF \E t \in LeaveTypes : new[t] = r
                 THEN NewBalance(CHOOSE t \in LeaveTypes : new[t] = r)
                 ELSE leaveBalances[r]]
    BY DEF SeedBalances
  <1>3. ASSUME NEW t \in LeaveTypes, NEW r \in RowsOf(t)'
        PROVE  r = new[t]
    <2>1. r \in BalanceRows /\ leaveBalances'[r] # None /\ leaveBalances'[r].leaveTypeId = t
      BY <1>3 DEF RowsOf, FreeRows
    <2>2. leaveBalances[r] = None
      BY <1>1, <2>1 DEF FreeRows
    <2>3. \E u \in LeaveTypes : new[u] = r
      BY <1>2, <2>1, <2>2
    <2> DEFINE u == CHOOSE u \in LeaveTypes : new[u] = r
    <2>4. u \in LeaveTypes /\ new[u] = r
      BY <2>3
    <2>5. leaveBalances'[r] = NewBalance(u)
      BY <1>2, <2>1, <2>3
    <2> HIDE DEF u
    <2>6. u = t
      BY <2>1, <2>5 DEF NewBalance
    <2> QED
      BY <2>4, <2>6
  <1>4. RowsDiffer'
    BY <1>3 DEF RowsDiffer
  <1>5. CallInv(h)'
    BY NoneAssumption DEF SeedBalances, TypeOK, CallInv, InRequestCall
  <1> QED
    BY <1>4, <1>5

\* No call is in progress at first, and there is no balance row.
LEMMA SerialInit == Init => SerialInv
  <1> SUFFICES ASSUME Init PROVE SerialInv
    OBVIOUS
  <1>1. IInv
    BY InitInv
  <1>2. FreeRows = BalanceRows /\ \A h \in Handlers : calls[h] = None
    BY DEF Init, FreeRows
  <1> QED
    BY <1>1, <1>2, NoneAssumption DEF SerialInv, RowsDiffer, RowsOf, CallInv, InRequestCall

\* A step of the one call in progress keeps what it relies on.
LEMMA SerialStep == OneCall /\ SerialInv /\ [Next]_vars => SerialInv'
  <1> SUFFICES ASSUME OneCall, SerialInv, [Next]_vars PROVE SerialInv'
    OBVIOUS
  <1>1. IInv'
    BY TypeStep, CallsStep, VerifiedStep, StatusStep, OutboxStep DEF IInv, SerialInv
  <1>2. CASE UNCHANGED vars
    <2>1. FreeRows' = FreeRows /\ \A t : RowsOf(t)' = RowsOf(t)
      BY <1>2, RowsUntouched DEF vars, tables
    <2> QED
      BY <1>1, <1>2, <2>1 DEF SerialInv, RowsDiffer, CallInv, InRequestCall, vars, tables
  <1>3. ASSUME NEW h \in Handlers,
               \/ Submit(h) \/ Decide(h) \/ FindBalance(h) \/ SelectBalance(h) \/ SelectRequest(h)
               \/ Abort(h) \/ GetEmployeeLeaveBalances(h)
        PROVE  RowsDiffer' /\ CallInv(h)'
    <2>1. UNCHANGED tables
      BY <1>3 DEF Submit, SubmitLeaveRequest, SubmitWithoutBalance, Decide, ApproveLeaveRequest,
                  RejectLeaveRequest, VerifyLeaveRequest, ReadRequest, FindBalance, SelectBalance,
                  SelectRequest, Abort, GetEmployeeLeaveBalances
    <2> QED
      BY <1>3, <2>1, TablesStep
  <1>4. ASSUME NEW h \in Handlers, CommitSubmit(h) \/ CommitDecision(h)
        PROVE  RowsDiffer' /\ CallInv(h)'
    <2>1. RowsDiffer'
      BY <1>4, CommitKeepsRows DEF SerialInv, IInv, RowsDiffer
    <2>2. calls'[h] = None
      BY <1>4 DEF CommitSubmit, CommitDecision, SerialInv, IInv, TypeOK
    <2> QED
      BY <2>1, <2>2, NoneAssumption DEF CallInv, InRequestCall
  <1>5. ASSUME NEW h \in Handlers, RowsDiffer', CallInv(h)'
        PROVE  SerialInv'
    BY <1>1, <1>5 DEF OneCall, SerialInv
  <1> QED
    BY <1>2, <1>3, <1>4, <1>5, CreateBalanceStep, SeedBalancesStep DEF Next

\* Without overlapping calls an employee never gets a second balance row for a leave type,
\* whether the row is created by a submission or by a first look at the balances.
THEOREM OneRowWhenSerial ==
    ASSUME OneCall
    PROVE  Spec => []OneRowPerType
  <1>1. SerialInv => OneRowPerType
    <2> SUFFICES ASSUME SerialInv, NEW t \in LeaveTypes PROVE Cardinality(RowsOf(t)) <= 1
      BY DEF OneRowPerType
    <2>1. CASE RowsOf(t) = {}
      BY <2>1, FS_EmptySet
    <2>2. CASE RowsOf(t) # {}
      <3>1. PICK r : RowsOf(t) = {r}
        BY <2>2 DEF SerialInv, RowsDiffer
      <3> QED
        BY <3>1, FS_Singleton
    <2> QED
      BY <2>1, <2>2
  <1> QED
    BY <1>1, SerialInit, SerialStep, PTL DEF Spec

\* Without overlapping calls a request's status moves only as the guards of the decisions say,
\* although each guard is passed outside the transaction that writes the status.
THEOREM StatusGuardedWhenSerial ==
    ASSUME OneCall
    PROVE  Spec => StatusFollowsGuards
  <1> DEFINE Guarded == \A q \in Requests :
               Moves(q, StatusSteps \cup {<<"HR_VERIFIED", "REJECTED">>})
  <1>1. ASSUME SerialInv, [Next]_vars PROVE [Guarded]_vars
    <2>1. CASE UNCHANGED history
      BY <2>1 DEF Moves, history
    <2>2. ASSUME NEW h \in Handlers, CommitSubmit(h) \/ CommitDecision(h)
          PROVE  Guarded
      <3> DEFINE c == calls[h]
      <3>1. /\ c \in RequestCall /\ InRequestCall(h)
            /\ c.op # "submit" => leaveRequests[c.id].status \in Accepted(c.op)
            /\ c.op = "submit" => leaveRequests[c.id] = None
        BY <1>1, <2>2, CallTyped
        DEF CommitSubmit, CommitDecision, At, SerialInv, IInv, CallInv, CallsBacked, Backed, Exists
      <3>2. CASE CommitSubmit(h)
        <4>1. /\ c.op = "submit"
              /\ \A q \in Requests : q # c.id => leaveRequests'[q] = leaveRequests[q]
          BY <1>1, <3>2 DEF CommitSubmit, SerialInv, IInv, TypeOK
        <4> QED
          BY <3>1, <4>1 DEF Moves, Exists
      <3>3. CASE CommitDecision(h)
        <4>1. c.op \in {"approve", "reject", "verify"}
          BY <3>1, <3>3 DEF CommitDecision, RequestCall
        <4>2. ASSUME NEW q \in Requests, leaveRequests'[q].status # leaveRequests[q].status
              PROVE  /\ q = c.id
                     /\ leaveRequests'[q].status = NewStatus(c.op)
          <5>1. leaveRequests' = [leaveRequests EXCEPT ![c.id].status = NewStatus(c.op)]
            BY <3>3, <4>2 DEF CommitDecision
          <5>2. q = c.id
            BY <1>1, <4>2, <5>1 DEF SerialInv, IInv, TypeOK
          <5>3. leaveRequests[c.id] \in Request
            BY <1>1, <3>1, <3>3 DEF CommitDecision, SerialInv, IInv, TypeOK, CallsBacked, Backed,
                                   Exists, RequestCall
          <5> QED
            BY <1>1, <5>1, <5>2, <5>3 DEF SerialInv, IInv, TypeOK, Request
        <4>3. \A s \in Accepted(c.op) :
                <<s, NewStatus(c.op)>> \in StatusSteps \cup {<<"HR_VERIFIED", "REJECTED">>}
          BY <4>1 DEF Accepted, NewStatus, Status, StatusSteps
        <4> QED
          BY <3>1, <4>1, <4>2, <4>3 DEF Moves
      <3> QED
        BY <2>2, <3>2, <3>3
    <2> QED
      BY <1>1, <2>1, <2>2, OnlyCommitsWriteHistory
  <1>2. Spec => []SerialInv
    BY SerialInit, SerialStep, PTL DEF Spec
  <1> QED
    BY <1>1, <1>2, PTL DEF Spec, StatusFollowsGuards

-----------------------------------------------------------------------------
(* The ledger.  An employee's balance row of a type records what the       *)
(* history of the requests of that type says.                              *)

Open == {"SUBMITTED", "MANAGER_APPROVED"}
Active == {"SUBMITTED", "MANAGER_APPROVED", "HR_VERIFIED"}
Verified(t) == {q \in OfType(t) : Has(q, "VERIFIED")}
NoneRejectedAfter(t) == \A q \in OfType(t) : ~(Has(q, "VERIFIED") /\ Has(q, "REJECTED"))

\* The entity that a call loaded is still what its operation makes of the row.
Fresh(c) ==
    /\ c.pc = "guarded" => c.op \in {"reject", "verify"}
    /\ c.balance = None <=> c.op = "approve" \/ c.pc \in {"creating", "guarded"}
    /\ c.balance # None =>
         LET r == c.balance.row IN
         /\ r \in RowsOf(c.leaveTypeId)
         /\ c.balance = Changed(c.op, r, leaveBalances[r], c.totalDays)
         /\ c.op = "submit" => EnoughDays(c.leaveTypeId, leaveBalances[r], c.totalDays)
         /\ c.pc \in {"selected", "saving"} => DirtyBalance(c) \subseteq c.dirty
    /\ c.op # "submit" /\ c.pc = "saving" => "status" \in c.dirty

\* The active requests are covered by the days recorded, which is what a submission's guard
\* looks at: the days that a rejection takes off pendingDays are at most the request's own.
Ledger(t) ==
    LET open == Days(InStatus(t, Open))
        active == Days(InStatus(t, Active))
        used == Recorded(t, "usedDays")
        pending == Recorded(t, "pendingDays")
    IN /\ RowsOf(t) = {} => OfType(t) = {}
       /\ used = Days(Verified(t))
       /\ pending <= open
       /\ NoneRejectedAfter(t) => pending = open
       /\ active <= used + pending
       /\ active <= DefaultDays[t]

OpenUnverified ==
    \A q \in Requests : Exists(q) /\ leaveRequests[q].status \in Open => ~Has(q, "VERIFIED")

LedgerInv ==
    /\ ChargeInv /\ SerialInv
    /\ \A h \in Handlers : InRequestCall(h) => Fresh(calls[h])
    /\ OpenUnverified
    /\ \A t \in LeaveTypes : Ledger(t)

\* Sums of days that differ by one request.
DaysIn(R, S) == SumFunction([q \in S |-> R[q].totalDays])

\* The days of finitely many requests add up to a natural number.
LEMMA DaysType ==
    ASSUME NEW S, IsFiniteSet(S), NEW R, \A q \in S : R[q].totalDays \in Nat
    PROVE  DaysIn(R, S) \in Nat
  <1> DEFINE f == [q \in S |-> R[q].totalDays]
  <1>1. DaysIn(R, S) = SumFunctionOnSet(f, S) /\ \A q \in S : f[q] \in Nat
    BY DEF DaysIn, SumFunction
  <1> HIDE DEF f
  <1> QED
    BY <1>1, SumType

\* The days of requests that keep theirs.
LEMMA DaysSame ==
    ASSUME NEW S, IsFiniteSet(S), NEW R, NEW P,
           \A q \in S : R[q].totalDays \in Nat /\ P[q].totalDays = R[q].totalDays
    PROVE  DaysIn(P, S) = DaysIn(R, S)
  <1> DEFINE f == [q \in S |-> R[q].totalDays]
             g == [q \in S |-> P[q].totalDays]
  <1>1. DaysIn(R, S) = SumFunctionOnSet(f, S) /\ DaysIn(P, S) = SumFunctionOnSet(g, S)
    BY DEF DaysIn, SumFunction
  <1>2. \A q \in S : f[q] \in Nat /\ f[q] = g[q]
    OBVIOUS
  <1> HIDE DEF f, g
  <1> QED
    BY <1>1, <1>2, SumSame

\* One more request.
LEMMA DaysAdd ==
    ASSUME NEW S, IsFiniteSet(S), NEW q, q \notin S, NEW R, NEW P,
           NEW n \in Nat, P[q].totalDays = n,
           \A p \in S : R[p].totalDays \in Nat /\ P[p].totalDays = R[p].totalDays
    PROVE  DaysIn(P, S \cup {q}) = DaysIn(R, S) + n
  <1> DEFINE f == [p \in S |-> R[p].totalDays]
             g == [p \in S \cup {q} |-> P[p].totalDays]
  <1>1. /\ DaysIn(R, S) = SumFunctionOnSet(f, S)
        /\ DaysIn(P, S \cup {q}) = SumFunctionOnSet(g, S \cup {q})
    BY DEF DaysIn, SumFunction
  <1>2. /\ \A p \in S : f[p] \in Nat /\ f[p] = g[p]
        /\ g[q] \in Nat /\ g[q] = n
    OBVIOUS
  <1> HIDE DEF f, g
  <1>3. SumFunctionOnSet(g, S \cup {q}) = SumFunctionOnSet(f, S) + g[q]
    <2>1. \A p \in S : f[p] \in Nat /\ f[p] = g[p]
      BY <1>2
    <2>2. g[q] \in Nat
      BY <1>2
    <2> QED
      BY <2>1, <2>2, SumExtend
  <1> QED
    BY <1>1, <1>2, <1>3

\* One request less.
LEMMA DaysRemove ==
    ASSUME NEW S, IsFiniteSet(S), NEW q \in S, NEW R, NEW P,
           \A p \in S : R[p].totalDays \in Nat /\ P[p].totalDays = R[p].totalDays
    PROVE  DaysIn(R, S) = DaysIn(P, S \ {q}) + R[q].totalDays
  <1> DEFINE T == S \ {q}
             f == [p \in S |-> R[p].totalDays]
             g == [p \in T |-> P[p].totalDays]
  <1>1. DaysIn(R, S) = SumFunctionOnSet(f, S) /\ DaysIn(P, T) = SumFunctionOnSet(g, T)
    BY DEF DaysIn, SumFunction
  <1>2. \A p \in S : f[p] \in Nat
    OBVIOUS
  <1>3. \A p \in T : g[p] \in Nat /\ g[p] = f[p]
    OBVIOUS
  <1>4. f[q] = R[q].totalDays
    OBVIOUS
  <1>5. IsFiniteSet(T)
    BY FS_RemoveElement
  <1> HIDE DEF f, g
  <1>6. SumFunctionOnSet(f, S) = SumFunctionOnSet(f, T) + f[q]
    BY <1>2, SumRemove
  <1> HIDE DEF T
  <1>7. SumFunctionOnSet(g, T) = SumFunctionOnSet(f, T)
    BY <1>3, <1>5, SumSame
  <1> QED
    BY <1>1, <1>4, <1>6, <1>7 DEF T

\* The sum over the one row of a type.
LEMMA OneTerm ==
    ASSUME NEW S, NEW r, S = {r}, NEW B, NEW k, B[r][k] \in Nat
    PROVE  SumFunction([s \in S |-> B[s][k]]) = B[r][k]
  <1> DEFINE f == [s \in S |-> B[s][k]]
  <1>1. SumFunction(f) = SumFunctionOnSet(f, {r}) /\ f[r] = B[r][k]
    BY DEF SumFunction
  <1> HIDE DEF f
  <1>2. SumFunctionOnSet(f, {r}) = f[r]
    BY <1>1, SumOne
  <1> QED
    BY <1>1, <1>2 DEF f

\* Without a row nothing is recorded, with one its columns are.
LEMMA RecordedRow ==
    ASSUME TypeOK, RowsDiffer, NEW t \in LeaveTypes, NEW k \in {"usedDays", "pendingDays"}
    PROVE  /\ RowsOf(t) = {} => Recorded(t, k) = 0
           /\ \A r \in RowsOf(t) : RowsOf(t) = {r} /\ Recorded(t, k) = leaveBalances[r][k]
           /\ Recorded(t, k) \in Nat
  <1>1. CASE RowsOf(t) = {}
    <2> DEFINE f == [s \in {} |-> leaveBalances[s][k]]
    <2>1. Recorded(t, k) = SumFunctionOnSet(f, {})
      BY <1>1 DEF Recorded, SumFunction
    <2> HIDE DEF f
    <2> QED
      BY <1>1, <2>1, SumEmpty
  <1>2. ASSUME NEW r \in RowsOf(t)
        PROVE  /\ RowsOf(t) = {r} /\ Recorded(t, k) = leaveBalances[r][k]
               /\ Recorded(t, k) \in Nat
    <2>1. RowsOf(t) = {r}
      BY DEF RowsDiffer
    <2>2. leaveBalances[r][k] \in Nat
      BY RowTyped DEF Balance
    <2> QED
      BY <2>1, <2>2, OneTerm DEF Recorded
  <1> QED
    BY <1>1, <1>2

-----------------------------------------------------------------------------
(* The entity in the hands of the one call *)

\* A decision in progress is about a request of the type and days that the call carries.
LEMMA CallTerms ==
    ASSUME LedgerInv, NEW h \in Handlers, InRequestCall(h)
    PROVE  /\ calls[h] \in RequestCall /\ Backed(calls[h]) /\ Fresh(calls[h])
           /\ calls[h].totalDays \in Nat /\ calls[h].totalDays # 0
           /\ calls[h].op # "submit" =>
                /\ leaveRequests[calls[h].id] \in Request
                /\ leaveRequests[calls[h].id].leaveTypeId = calls[h].leaveTypeId
                /\ leaveRequests[calls[h].id].totalDays = calls[h].totalDays
                /\ leaveRequests[calls[h].id].status \in Accepted(calls[h].op)
                /\ calls[h].id \in OfType(calls[h].leaveTypeId)
                /\ RowsOf(calls[h].leaveTypeId) # {}
  <1> DEFINE c == calls[h]
  <1>1. c \in RequestCall /\ Backed(c) /\ Fresh(c)
    BY CallTyped DEF LedgerInv, ChargeInv, IInv, CallsBacked
  <1>2. c.totalDays \in Nat /\ c.totalDays # 0
    BY <1>1, LeaveAssumption DEF RequestCall
  <1>3. ASSUME c.op # "submit"
        PROVE  /\ leaveRequests[c.id] \in Request
               /\ leaveRequests[c.id].leaveTypeId = c.leaveTypeId
               /\ leaveRequests[c.id].totalDays = c.totalDays
               /\ leaveRequests[c.id].status \in Accepted(c.op)
               /\ c.id \in OfType(c.leaveTypeId)
               /\ RowsOf(c.leaveTypeId) # {}
    <2>1. c.id \in Requests /\ Exists(c.id) /\ c.leaveTypeId \in LeaveTypes
      BY <1>1, <1>3 DEF Backed, RequestCall
    <2>2. leaveRequests[c.id] \in Request
      BY <2>1 DEF Exists, LedgerInv, ChargeInv, IInv, TypeOK
    <2>3. /\ leaveRequests[c.id].leaveTypeId = c.leaveTypeId
          /\ leaveRequests[c.id].totalDays = c.totalDays
      BY <1>3 DEF LedgerInv, ChargeInv, Charged, CallCharged
    <2>4. leaveRequests[c.id].status \in Accepted(c.op)
      BY <1>3 DEF LedgerInv, SerialInv, CallInv
    <2>5. c.id \in OfType(c.leaveTypeId)
      BY <2>1, <2>3 DEF OfType
    <2>6. RowsOf(c.leaveTypeId) # {}
      BY <2>1, <2>5 DEF LedgerInv, Ledger
    <2> QED
      BY <2>2, <2>3, <2>4, <2>5, <2>6
  <1> QED
    BY <1>1, <1>2, <1>3

\* What makes an entity fresh is in the tables only.
LEMMA FreshUntouched ==
    ASSUME UNCHANGED tables
    PROVE  \A c : Fresh(c)' <=> Fresh(c)
  <1>1. \A t : RowsOf(t)' = RowsOf(t)
    BY RowsUntouched DEF tables
  <1>2. \A c : DirtyBalance(c)' = DirtyBalance(c)
    BY DEF DirtyBalance, tables
  <1> QED
    BY <1>1, <1>2 DEF Fresh, tables

\* The statuses that a decision accepts do not include the one it writes.
LEMMA AcceptedIsNotNew ==
    ASSUME NEW op \in {"approve", "reject", "verify"}
    PROVE  NewStatus(op) \notin Accepted(op)
  BY DEF NewStatus, Accepted, Status

\* A loaded row is an entity, not the absence of one.
LEMMA LoadedExists ==
    ASSUME TypeOK, NEW t, NEW r \in RowsOf(t), NEW op, NEW d \in DayCounts
    PROVE  Changed(op, r, leaveBalances[r], d) # None
  BY RowTyped, ChangedTyped, NoneAssumption

\* Every step of the one call leaves its entity fresh.
LEMMA FreshStep ==
    ASSUME OneCall, LedgerInv, Next, NEW g \in Handlers, InRequestCall(g)'
    PROVE  Fresh(calls[g])'
  <1> USE DEF LedgerInv, ChargeInv, IInv
  <1>1. ASSUME NEW h \in Handlers, NEW q \in Requests, NEW t \in LeaveTypes, NEW d \in DayCounts,
               SubmitLeaveRequest(h, q, t, d)
        PROVE  Fresh(calls[h])'
    <2>1. PICK r \in RowsOf(t) :
            /\ EnoughDays(t, leaveBalances[r], d)
            /\ calls' = [calls EXCEPT ![h] =
                 SubmitCall("ready", q, t, d, Changed("submit", r, leaveBalances[r], d))]
      BY <1>1 DEF SubmitLeaveRequest
    <2> DEFINE c == SubmitCall("ready", q, t, d, Changed("submit", r, leaveBalances[r], d))
    <2>2. calls'[h] = c /\ UNCHANGED tables
      BY <1>1, <2>1 DEF SubmitLeaveRequest, TypeOK
    <2>3. Changed("submit", r, leaveBalances[r], d) # None
      BY LoadedExists
    <2>4. /\ c.op = "submit" /\ c.leaveTypeId = t /\ c.totalDays = d /\ c.pc = "ready"
          /\ c.balance = Changed("submit", r, leaveBalances[r], d) /\ c.balance.row = r
      BY DEF SubmitCall, Changed
    <2> HIDE DEF c
    <2>5. Fresh(c)
      BY <2>1, <2>3, <2>4 DEF Fresh
    <2> QED
      BY <2>2, <2>5, FreshUntouched
  <1>2. ASSUME NEW h \in Handlers, NEW q \in Requests, NEW t \in LeaveTypes, NEW d \in DayCounts,
               SubmitWithoutBalance(h, q, t, d)
        PROVE  Fresh(calls[h])'
    <2> DEFINE c == SubmitCall("creating", q, t, d, None)
    <2>1. calls'[h] = c /\ UNCHANGED tables
      BY <1>2 DEF SubmitWithoutBalance, TypeOK
    <2>2. c.op = "submit" /\ c.pc = "creating" /\ c.balance = None
      BY DEF SubmitCall
    <2> HIDE DEF c
    <2>3. Fresh(c)
      BY <2>2 DEF Fresh
    <2> QED
      BY <2>1, <2>3, FreshUntouched
  <1>3. ASSUME NEW h \in Handlers, CreateBalance(h), InRequestCall(h)'
        PROVE  Fresh(calls[h])'
    <2>1. calls[h] \in RequestCall
      BY <1>3, CallTyped DEF CreateBalance, At
    <2>2. PICK q \in Requests, t \in LeaveTypes, d \in DayCounts :
            q = calls[h].id /\ t = calls[h].leaveTypeId /\ d = calls[h].totalDays
      BY <2>1 DEF RequestCall
    <2> DEFINE b == NewBalance(t)
    <2>3. PICK r \in FreeRows :
            /\ leaveBalances' = [leaveBalances EXCEPT ![r] = b]
            /\ calls' = [calls EXCEPT ![h] =
                 IF EnoughDays(t, b, d)
                   THEN SubmitCall("ready", q, t, d, Changed("submit", r, b, d))
                   ELSE None]
      BY <1>3, <2>2 DEF CreateBalance
    <2>4. b \in Balance /\ b.leaveTypeId = t
      BY DEF NewBalance, Balance
    <2>5. leaveBalances'[r] = b /\ r \in BalanceRows /\ b # None
      <3> HIDE DEF b
      <3> QED
        BY <2>3, <2>4, NoneAssumption DEF FreeRows, TypeOK
    <2>6. calls'[h] = SubmitCall("ready", q, t, d, Changed("submit", r, b, d)) /\ EnoughDays(t, b, d)
      BY <1>3, <2>3 DEF TypeOK, InRequestCall
    <2>7. r \in RowsOf(t)'
      BY <2>4, <2>5 DEF RowsOf, FreeRows
    <2>8. Changed("submit", r, b, d) # None
      <3> HIDE DEF b
      <3> QED
        BY <2>4, <2>5, ChangedTyped, NoneAssumption
    <2>9. PICK c : c = calls'[h]
      OBVIOUS
    <2>10. /\ c.op = "submit" /\ c.leaveTypeId = t /\ c.totalDays = d /\ c.pc = "ready"
           /\ c.balance = Changed("submit", r, b, d) /\ c.balance.row = r
      BY <2>6, <2>9 DEF SubmitCall, Changed
    <2>11. Fresh(c)'
      <3> HIDE DEF b
      <3> QED
        BY <2>5, <2>6, <2>7, <2>8, <2>10 DEF Fresh
    <2> QED
      BY <2>9, <2>11 DEF Fresh, DirtyBalance
  <1>4. ASSUME NEW h \in Handlers, NEW q \in Requests,
               NEW op \in {"approve", "reject", "verify"}, NEW phase \in {"guarded", "ready"},
               ReadRequest(h, op, q, phase), op = "approve" <=> phase = "ready"
        PROVE  Fresh(calls[h])'
    <2>1. PICK c : c = calls'[h]
      OBVIOUS
    <2>2. /\ c.op = op /\ c.pc = phase /\ c.balance = None
          /\ UNCHANGED tables
      BY <1>4, <2>1 DEF ReadRequest, TypeOK
    <2>3. Fresh(c)
      BY <1>4, <2>2 DEF Fresh
    <2> QED
      BY <2>1, <2>2, <2>3, FreshUntouched DEF Fresh, DirtyBalance
  <1>5. ASSUME NEW h \in Handlers, FindBalance(h)
        PROVE  Fresh(calls[h])'
    <2>1. /\ calls[h] \in RequestCall /\ InRequestCall(h) /\ calls[h].pc = "guarded"
          /\ Fresh(calls[h])
      BY <1>5, CallTyped DEF FindBalance, At
    <2>2. PICK e \in FoundBalances(calls[h]) :
            calls' = [calls EXCEPT ![h].pc = "ready", ![h].balance = e]
      BY <1>5 DEF FindBalance
    <2>3. PICK c : c = calls'[h]
      OBVIOUS
    <2>4. /\ c = [calls[h] EXCEPT !.pc = "ready", !.balance = e]
          /\ UNCHANGED tables
      BY <1>5, <2>2, <2>3 DEF FindBalance, TypeOK
    <2>5. /\ c.op = calls[h].op /\ c.leaveTypeId = calls[h].leaveTypeId
          /\ c.totalDays = calls[h].totalDays /\ c.pc = "ready" /\ c.balance = e
      BY <2>1, <2>4 DEF RequestCall
    <2>6. c.op \in {"reject", "verify"}
      BY <2>1, <2>5 DEF Fresh
    <2>7. PICK r \in RowsOf(c.leaveTypeId) :
            e = Changed(c.op, r, leaveBalances[r], c.totalDays)
      <3>1. RowsOf(c.leaveTypeId) # {}
        BY <2>1, <2>5, <2>6, CallTerms
      <3> QED
        BY <2>5, <3>1 DEF FoundBalances
    <2>8. e # None /\ e.row = r
      <3>1. c.totalDays \in DayCounts
        BY <2>1, <2>5 DEF RequestCall
      <3> QED
        BY <2>7, <3>1, LoadedExists DEF Changed
    <2>9. Fresh(c)
      BY <2>5, <2>6, <2>7, <2>8 DEF Fresh
    <2> QED
      BY <2>3, <2>4, <2>9, FreshUntouched DEF Fresh, DirtyBalance
  <1>6. ASSUME NEW h \in Handlers, SelectBalance(h)
        PROVE  Fresh(calls[h])'
    <2>1. /\ calls[h] \in RequestCall /\ calls[h].pc = "ready" /\ calls[h].balance # None
          /\ Fresh(calls[h])
      BY <1>6, CallTyped DEF SelectBalance, At
    <2>2. PICK c : c = calls'[h]
      OBVIOUS
    <2>3. /\ UNCHANGED tables
          /\ c = [calls[h] EXCEPT
                    !.pc = IF calls[h].op = "submit" THEN "saving" ELSE "selected",
                    !.dirty = DirtyBalance(calls[h])]
      BY <1>6, <2>2 DEF SelectBalance, TypeOK
    <2>4. /\ c.op = calls[h].op /\ c.leaveTypeId = calls[h].leaveTypeId
          /\ c.totalDays = calls[h].totalDays /\ c.balance = calls[h].balance
          /\ c.pc = IF calls[h].op = "submit" THEN "saving" ELSE "selected"
          /\ c.dirty = DirtyBalance(calls[h])
      BY <2>1, <2>3 DEF RequestCall
    <2>5. DirtyBalance(c) \subseteq c.dirty
      BY <2>4 DEF DirtyBalance
    <2>6. Fresh(c)
      BY <2>1, <2>4, <2>5 DEF Fresh
    <2> QED
      BY <2>2, <2>3, <2>6, FreshUntouched DEF Fresh, DirtyBalance
  <1>7. ASSUME NEW h \in Handlers, SelectRequest(h)
        PROVE  Fresh(calls[h])'
    <2>1. /\ calls[h] \in RequestCall /\ InRequestCall(h) /\ calls[h].op # "submit"
          /\ calls[h].pc = "selected" \/ (calls[h].pc = "ready" /\ calls[h].balance = None)
          /\ Fresh(calls[h])
      BY <1>7, CallTyped DEF SelectRequest, At
    <2>2. PICK c : c = calls'[h]
      OBVIOUS
    <2>3. /\ UNCHANGED tables
          /\ c = [calls[h] EXCEPT !.pc = "saving",
                                  !.dirty = calls[h].dirty \cup DirtyRequest(calls[h])]
      BY <1>7, <2>1, <2>2 DEF SelectRequest, TypeOK, RequestCall
    <2>4. /\ c.op = calls[h].op /\ c.leaveTypeId = calls[h].leaveTypeId
          /\ c.totalDays = calls[h].totalDays /\ c.balance = calls[h].balance
          /\ c.pc = "saving" /\ c.dirty = calls[h].dirty \cup DirtyRequest(calls[h])
      BY <2>1, <2>3 DEF RequestCall
    <2>5. c.balance # None => DirtyBalance(c) \subseteq c.dirty
      <3>1. DirtyBalance(c) = DirtyBalance(calls[h])
        BY <2>4 DEF DirtyBalance
      <3> QED
        BY <2>1, <2>4, <3>1 DEF Fresh
    <2>6. "status" \in c.dirty
      <3>1. leaveRequests[calls[h].id].status # NewStatus(calls[h].op)
        <4>1. calls[h].op \in {"approve", "reject", "verify"}
          BY <2>1 DEF RequestCall
        <4> QED
          BY <2>1, <4>1, CallTerms, AcceptedIsNotNew
      <3> QED
        BY <2>4, <3>1 DEF DirtyRequest
    <2>7. Fresh(c)
      BY <2>1, <2>4, <2>5, <2>6 DEF Fresh
    <2> QED
      BY <2>2, <2>3, <2>7, FreshUntouched DEF Fresh, DirtyBalance
  <1>8. ASSUME NEW h \in Handlers, \/ CommitSubmit(h) \/ CommitDecision(h) \/ Abort(h)
                                   \/ SeedBalances(h) \/ GetEmployeeLeaveBalances(h)
        PROVE  ~InRequestCall(h)'
    <2>1. calls'[h] \in {None, SeedCall}
      BY <1>8 DEF CommitSubmit, CommitDecision, Abort, SeedBalances, GetEmployeeLeaveBalances,
                  Idle, TypeOK
    <2> QED
      BY <2>1 DEF InRequestCall
  <1>9. \A h \in Handlers : g = h
    BY DEF OneCall
  <1>10. ASSUME NEW h \in Handlers, Submit(h) \/ Decide(h)
         PROVE  Fresh(calls[h])'
    BY <1>1, <1>2, <1>4, <1>10
    DEF Submit, Decide, ApproveLeaveRequest, RejectLeaveRequest, VerifyLeaveRequest
  <1> QED
    BY <1>3, <1>5, <1>6, <1>7, <1>8, <1>9, <1>10 DEF Next

-----------------------------------------------------------------------------
(* What the commits do to the columns *)

\* The row after a commit is the entity that the call had in memory.
LEMMA SavedIsEntity ==
    ASSUME TypeOK, NEW c \in RequestCall, Fresh(c), c.pc = "saving", SaveBalance(c),
           c.balance # None
    PROVE  LET r == c.balance.row IN
           /\ r \in RowsOf(c.leaveTypeId)
           /\ leaveBalances'[r].pendingDays =
                IF c.op = "submit" THEN leaveBalances[r].pendingDays + c.totalDays
                ELSE Minus(leaveBalances[r].pendingDays, c.totalDays)
           /\ leaveBalances'[r].usedDays =
                IF c.op = "verify" THEN leaveBalances[r].usedDays + c.totalDays
                ELSE leaveBalances[r].usedDays
           /\ \A s \in BalanceRows : s # r => leaveBalances'[s] = leaveBalances[s]
  <1> DEFINE r == c.balance.row
  <1>1. /\ r \in RowsOf(c.leaveTypeId) /\ DirtyBalance(c) \subseteq c.dirty
        /\ c.balance = Changed(c.op, r, leaveBalances[r], c.totalDays)
    BY DEF Fresh
  <1>2. r \in BalanceRows /\ leaveBalances[r] \in Balance
    BY <1>1, RowTyped
  <1>3. leaveBalances' = [leaveBalances EXCEPT ![r] = SavedBalance(c)]
    BY DEF SaveBalance
  <1>4. /\ SavedBalance(c).pendingDays = c.balance.pendingDays
        /\ SavedBalance(c).usedDays = c.balance.usedDays
    <2>1. /\ "pendingDays" \notin c.dirty => leaveBalances[r].pendingDays = c.balance.pendingDays
          /\ "usedDays" \notin c.dirty => leaveBalances[r].usedDays = c.balance.usedDays
      BY <1>1 DEF DirtyBalance, BalanceColumns
    <2> QED
      BY <1>2, <2>1 DEF SavedBalance, Balance
  <1>5. /\ c.balance.pendingDays =
             IF c.op = "submit" THEN leaveBalances[r].pendingDays + c.totalDays
             ELSE Minus(leaveBalances[r].pendingDays, c.totalDays)
        /\ c.balance.usedDays =
             IF c.op = "verify" THEN leaveBalances[r].usedDays + c.totalDays
             ELSE leaveBalances[r].usedDays
    <2> HIDE DEF r
    <2> QED
      BY <1>1 DEF Changed
  <1>6. /\ leaveBalances'[r] = SavedBalance(c)
        /\ \A s \in BalanceRows : s # r => leaveBalances'[s] = leaveBalances[s]
    BY <1>2, <1>3 DEF TypeOK
  <1> QED
    BY <1>1, <1>4, <1>5, <1>6

\* The columns after a commit, as sums.
LEMMA CommitRecords ==
    ASSUME LedgerInv, RowsDiffer', TypeOK', NEW h \in Handlers, CommitSubmit(h) \/ CommitDecision(h),
           NEW t \in LeaveTypes
    PROVE  LET c == calls[h]
               used == Recorded(t, "usedDays")
               pending == Recorded(t, "pendingDays")
           IN
           /\ RowsOf(t)' = RowsOf(t)
           /\ used \in Nat /\ pending \in Nat
           /\ IF c.balance # None /\ c.leaveTypeId = t
              THEN /\ used' = IF c.op = "verify" THEN used + c.totalDays ELSE used
                   /\ pending' = IF c.op = "submit" THEN pending + c.totalDays
                                 ELSE Minus(pending, c.totalDays)
                   /\ c.op = "submit" => used + pending + c.totalDays <= DefaultDays[t]
              ELSE used' = used /\ pending' = pending
  <1> USE DEF LedgerInv, ChargeInv, SerialInv, IInv
  <1> DEFINE c == calls[h]
  <1>1. /\ c \in RequestCall /\ Fresh(c) /\ c.pc = "saving" /\ SaveBalance(c)
    BY CallTyped DEF CommitSubmit, CommitDecision, At
  <1>2. \A u : RowsOf(u)' = RowsOf(u)
    BY CommitKeepsRows
  <1>3. Recorded(t, "usedDays") \in Nat /\ Recorded(t, "pendingDays") \in Nat
    BY RecordedRow
  <1>4. CASE c.balance # None /\ c.leaveTypeId = t
    <2>1. PICK r : r = c.balance.row
      OBVIOUS
    <2>2. /\ r \in RowsOf(t)
          /\ leaveBalances'[r].pendingDays =
                IF c.op = "submit" THEN leaveBalances[r].pendingDays + c.totalDays
                ELSE Minus(leaveBalances[r].pendingDays, c.totalDays)
          /\ leaveBalances'[r].usedDays =
                IF c.op = "verify" THEN leaveBalances[r].usedDays + c.totalDays
                ELSE leaveBalances[r].usedDays
      BY <1>1, <1>4, <2>1, SavedIsEntity
    <2>3. /\ RowsOf(t) = {r}
          /\ Recorded(t, "usedDays") = leaveBalances[r].usedDays
          /\ Recorded(t, "pendingDays") = leaveBalances[r].pendingDays
      BY <2>2, RecordedRow
    <2>4. leaveBalances'[r].usedDays \in Nat /\ leaveBalances'[r].pendingDays \in Nat
      <3>1. r \in BalanceRows /\ leaveBalances'[r] # None
        BY <1>2, <2>2 DEF RowsOf, FreeRows
      <3> QED
        BY <3>1 DEF TypeOK, Balance
    <2>5. /\ Recorded(t, "usedDays")' = leaveBalances'[r].usedDays
          /\ Recorded(t, "pendingDays")' = leaveBalances'[r].pendingDays
      <3>1. /\ SumFunction([s \in RowsOf(t) |-> leaveBalances'[s]["usedDays"]])
                 = leaveBalances'[r]["usedDays"]
            /\ SumFunction([s \in RowsOf(t) |-> leaveBalances'[s]["pendingDays"]])
                 = leaveBalances'[r]["pendingDays"]
        BY <2>3, <2>4, OneTerm
      <3> QED
        BY <1>2, <3>1 DEF Recorded
    <2>6. c.op = "submit" =>
            leaveBalances[r].usedDays + leaveBalances[r].pendingDays + c.totalDays <= DefaultDays[t]
      BY <1>1, <1>4, <2>1 DEF Fresh, EnoughDays
    <2> QED
      BY <1>2, <1>3, <1>4, <2>2, <2>3, <2>5, <2>6
  <1>5. CASE c.balance = None \/ c.leaveTypeId # t
    <2>1. \A r \in RowsOf(t) : leaveBalances'[r] = leaveBalances[r]
      <3>1. CASE c.balance = None
        BY <1>1, <3>1 DEF SaveBalance
      <3>2. CASE c.balance # None /\ c.leaveTypeId # t
        <4>1. PICK s : s = c.balance.row
          OBVIOUS
        <4>2. /\ s \in RowsOf(c.leaveTypeId)
              /\ \A r \in BalanceRows : r # s => leaveBalances'[r] = leaveBalances[r]
          BY <1>1, <3>2, <4>1, SavedIsEntity
        <4> QED
          BY <3>2, <4>2 DEF RowsOf
      <3> QED
        BY <1>5, <3>1, <3>2
    <2>2. /\ Recorded(t, "usedDays")' = Recorded(t, "usedDays")
          /\ Recorded(t, "pendingDays")' = Recorded(t, "pendingDays")
      BY <1>2, <2>1 DEF Recorded
    <2> QED
      BY <1>2, <1>3, <1>5, <2>2
  <1> QED
    BY <1>4, <1>5

-----------------------------------------------------------------------------
(* What the commits do to the history *)

\* Finitely many requests, each of some days.
LEMMA FiniteRequests ==
    ASSUME LedgerInv, NEW t
    PROVE  /\ IsFiniteSet(OfType(t))
           /\ \A q \in OfType(t) : leaveRequests[q].totalDays \in Nat
           /\ \A X : InStatus(t, X) \subseteq OfType(t) /\ IsFiniteSet(InStatus(t, X))
           /\ Verified(t) \subseteq OfType(t) /\ IsFiniteSet(Verified(t))
  <1>1. IsFiniteSet(OfType(t))
    BY FiniteSums DEF LedgerInv, ChargeInv
  <1>2. \A q \in OfType(t) : leaveRequests[q].totalDays \in Nat
    BY VerifiedTerm DEF LedgerInv, ChargeInv, IInv
  <1>3. (\A X : InStatus(t, X) \subseteq OfType(t)) /\ Verified(t) \subseteq OfType(t)
    BY DEF InStatus, Verified
  <1> QED
    BY <1>1, <1>2, <1>3, FS_Subset

\* The days of a type's requests in some statuses, and of those verified.
InDays(t, X) == Days(InStatus(t, X))

\* The days of a set of requests before and after a request enters it, leaves it or neither.
LEMMA DaysMove ==
    ASSUME LedgerInv, NEW t, NEW S, NEW T, S \subseteq OfType(t), NEW q \in Requests,
           \A p \in Requests \ {q} : leaveRequests'[p] = leaveRequests[p],
           leaveRequests'[q].totalDays \in Nat,
           q \in S => leaveRequests'[q].totalDays = leaveRequests[q].totalDays
    PROVE  /\ DaysIn(leaveRequests, S) \in Nat
           /\ T = S => DaysIn(leaveRequests', T) = DaysIn(leaveRequests, S)
           /\ T = S \cup {q} /\ q \notin S =>
                DaysIn(leaveRequests', T) = DaysIn(leaveRequests, S) + leaveRequests'[q].totalDays
           /\ T = S \ {q} /\ q \in S =>
                /\ DaysIn(leaveRequests', T) \in Nat
                /\ DaysIn(leaveRequests, S) =
                     DaysIn(leaveRequests', T) + leaveRequests'[q].totalDays
  <1>1. IsFiniteSet(S)
    BY FiniteRequests, FS_Subset
  <1>2. \A p \in S : leaveRequests[p].totalDays \in Nat
    BY FiniteRequests
  <1>3. S \subseteq Requests
    BY DEF OfType
  <1>4. \A p \in S : /\ leaveRequests[p].totalDays \in Nat
                     /\ leaveRequests'[p].totalDays = leaveRequests[p].totalDays
    BY <1>2, <1>3
  <1>5. PICK R, P : R = leaveRequests /\ P = leaveRequests'
    OBVIOUS
  <1>6. \A p \in S : R[p].totalDays \in Nat /\ P[p].totalDays = R[p].totalDays
    BY <1>4, <1>5
  <1>7. DaysIn(R, S) \in Nat
    BY <1>1, <1>6, DaysType
  <1>8. DaysIn(P, S) = DaysIn(R, S)
    BY <1>1, <1>6, DaysSame
  <1>9. P[q].totalDays \in Nat
    BY <1>5
  <1>10. ASSUME q \notin S
         PROVE  DaysIn(P, S \cup {q}) = DaysIn(R, S) + P[q].totalDays
    <2>1. PICK n \in Nat : P[q].totalDays = n
      BY <1>9
    <2>2. DaysIn(P, S \cup {q}) = DaysIn(R, S) + n
      BY <1>1, <1>6, <1>10, <2>1, DaysAdd
    <2> QED
      BY <2>1, <2>2
  <1>11. ASSUME q \in S
         PROVE  DaysIn(P, S \ {q}) \in Nat /\ DaysIn(R, S) = DaysIn(P, S \ {q}) + P[q].totalDays
    <2>1. DaysIn(R, S) = DaysIn(P, S \ {q}) + R[q].totalDays
      BY <1>1, <1>6, <1>11, DaysRemove
    <2>2. DaysIn(P, S \ {q}) \in Nat
      <3>1. IsFiniteSet(S \ {q})
        BY <1>1, FS_RemoveElement
      <3>2. \A p \in S \ {q} : P[p].totalDays \in Nat
        BY <1>6
      <3> QED
        BY <3>1, <3>2, DaysType
    <2>3. P[q].totalDays = R[q].totalDays
      BY <1>6, <1>11
    <2> QED
      BY <2>1, <2>2, <2>3
  <1> QED
    BY <1>5, <1>7, <1>8, <1>10, <1>11

\* A submission adds an open request that has no verification.
LEMMA SubmitDays ==
    ASSUME LedgerInv, NEW h \in Handlers, CommitSubmit(h), NEW t \in LeaveTypes
    PROVE  LET c == calls[h]
               n == IF c.leaveTypeId = t THEN c.totalDays ELSE 0
           IN
           /\ \A X \in {Open, Active} :
                InDays(t, X) \in Nat /\ InDays(t, X)' = InDays(t, X) + n
           /\ Days(Verified(t))' = Days(Verified(t))
           /\ OfType(t) \subseteq OfType(t)'
           /\ c.leaveTypeId # t => OfType(t)' = OfType(t)
  <1> USE DEF LedgerInv, ChargeInv, IInv
  <1>1. /\ calls[h] \in RequestCall /\ Backed(calls[h])
        /\ calls[h].totalDays \in Nat
    BY CallTerms DEF CommitSubmit, At
  <1>2. PICK q \in Requests, type \in LeaveTypes, days \in Nat :
          q = calls[h].id /\ type = calls[h].leaveTypeId /\ days = calls[h].totalDays
    BY <1>1 DEF RequestCall
  <1>3. /\ leaveRequests[q] = None
        /\ leaveRequests'[q] =
             [leaveTypeId |-> type, totalDays |-> days, status |-> "SUBMITTED"]
        /\ \A p \in Requests \ {q} : leaveRequests'[p] = leaveRequests[p]
        /\ leaveApprovals' = leaveApprovals
    BY <1>1, <1>2 DEF CommitSubmit, Backed, Exists, TypeOK
  <1>4. leaveRequests'[q] # None
    BY CommitSubmitWrites, <1>2, NoneAssumption
  <1>5. leaveApprovals[q] = <<>>
    BY <1>3 DEF OutboxMatchesHistory, Exists
  <1>6. ~Has(q, "VERIFIED")' /\ \A p : Has(p, "VERIFIED")' <=> Has(p, "VERIFIED")
    BY <1>3, <1>5 DEF Has
  <1>7. OfType(t)' = IF type = t THEN OfType(t) \cup {q} ELSE OfType(t)
    BY <1>3, <1>4 DEF OfType, Exists
  <1>8. q \notin OfType(t)
    BY <1>3 DEF OfType, Exists
  <1>9. Verified(t)' = Verified(t)
    BY <1>6, <1>7, <1>8 DEF Verified
  <1>10. Days(Verified(t))' = Days(Verified(t))
    <2>1. DaysIn(leaveRequests', Verified(t)') = DaysIn(leaveRequests, Verified(t))
      BY <1>3, <1>8, <1>9, FiniteRequests, DaysMove
    <2> QED
      BY <2>1 DEF Days, DaysIn
  <1>11. ASSUME NEW X \in {Open, Active}
         PROVE  /\ InDays(t, X) \in Nat
                /\ InDays(t, X)' = InDays(t, X) + IF type = t THEN days ELSE 0
    <2>1. InStatus(t, X)' = IF type = t THEN InStatus(t, X) \cup {q} ELSE InStatus(t, X)
      <3>1. "SUBMITTED" \in X
        BY DEF Open, Active
      <3>2. \A p \in OfType(t) : leaveRequests'[p] = leaveRequests[p]
        BY <1>3, <1>8 DEF OfType
      <3> QED
        BY <1>3, <1>7, <3>1, <3>2 DEF InStatus
    <2>2. q \notin InStatus(t, X) /\ InStatus(t, X) \subseteq OfType(t)
      BY <1>8 DEF InStatus
    <2>3. leaveRequests'[q].totalDays = days
      BY <1>3
    <2>4. /\ DaysIn(leaveRequests, InStatus(t, X)) \in Nat
          /\ type # t => DaysIn(leaveRequests', InStatus(t, X)')
                           = DaysIn(leaveRequests, InStatus(t, X))
          /\ type = t => DaysIn(leaveRequests', InStatus(t, X)')
                           = DaysIn(leaveRequests, InStatus(t, X)) + days
      BY <1>2, <1>3, <2>1, <2>2, <2>3, DaysMove
    <2> QED
      BY <2>4 DEF InDays, Days, DaysIn
  <1> QED
    BY <1>2, <1>7, <1>10, <1>11

\* What a decision of the one call writes: its own status, for its own request.
LEMMA DecisionWrites ==
    ASSUME LedgerInv, NEW h \in Handlers, CommitDecision(h)
    PROVE  \E q \in Requests, op \in {"approve", "reject", "verify"}, days \in Nat :
           /\ q = calls[h].id /\ op = calls[h].op /\ days = calls[h].totalDays
           /\ Exists(q) /\ leaveRequests[q].leaveTypeId = calls[h].leaveTypeId
           /\ leaveRequests[q].totalDays = days
           /\ leaveRequests[q].status \in Accepted(op)
           /\ leaveRequests'[q] # None /\ leaveRequests'[q].status = NewStatus(op)
           /\ leaveRequests'[q].leaveTypeId = leaveRequests[q].leaveTypeId
           /\ leaveRequests'[q].totalDays = leaveRequests[q].totalDays
           /\ \A d : Has(q, d)' <=> Has(q, d) \/ DecisionRow(op) = d
           /\ \A p \in Requests \ {q} :
                /\ leaveRequests'[p] = leaveRequests[p]
                /\ \A d : Has(p, d)' <=> Has(p, d)
  <1> USE DEF LedgerInv, ChargeInv, IInv
  <1>1. /\ calls[h] \in RequestCall /\ Fresh(calls[h]) /\ Backed(calls[h])
        /\ calls[h].pc = "saving" /\ calls[h].op # "submit"
        /\ leaveRequests[calls[h].id] \in Request
        /\ leaveRequests[calls[h].id].leaveTypeId = calls[h].leaveTypeId
        /\ leaveRequests[calls[h].id].totalDays = calls[h].totalDays
        /\ leaveRequests[calls[h].id].status \in Accepted(calls[h].op)
        /\ calls[h].totalDays \in Nat
    BY CallTerms DEF CommitDecision, At
  <1>2. PICK q \in Requests, op \in {"approve", "reject", "verify"}, days \in Nat :
          q = calls[h].id /\ op = calls[h].op /\ days = calls[h].totalDays
    BY <1>1 DEF RequestCall
  <1>3. "status" \in calls[h].dirty
    BY <1>1 DEF Fresh
  <1>4. leaveRequests' = [leaveRequests EXCEPT ![q].status = NewStatus(op)]
    BY <1>2, <1>3 DEF CommitDecision
  <1>5. leaveRequests'[q].status = NewStatus(op)
    BY <1>1, <1>2, <1>4 DEF TypeOK, Request
  <1>6. /\ leaveRequests'[q] # None
        /\ leaveRequests'[q].leaveTypeId = leaveRequests[q].leaveTypeId
        /\ leaveRequests'[q].totalDays = leaveRequests[q].totalDays
        /\ leaveApprovals'[q] = Append(leaveApprovals[q], DecisionRow(op))
        /\ \A p \in Requests \ {q} :
             leaveRequests'[p] = leaveRequests[p] /\ leaveApprovals'[p] = leaveApprovals[p]
    BY <1>2, CommitDecisionWrites
  <1>7. \A d : Has(q, d)' <=> Has(q, d) \/ DecisionRow(op) = d
    <2>1. leaveApprovals[q] \in Seq(Decision) /\ Len(leaveApprovals[q]) \in Nat
      BY DEF TypeOK
    <2>2. /\ Len(leaveApprovals'[q]) = Len(leaveApprovals[q]) + 1
          /\ leaveApprovals'[q][Len(leaveApprovals[q]) + 1] = DecisionRow(op)
          /\ \A i \in 1..Len(leaveApprovals[q]) : leaveApprovals'[q][i] = leaveApprovals[q][i]
      BY <1>6, <2>1
    <2> QED
      BY <2>1, <2>2 DEF Has
  <1>8. \A p \in Requests \ {q} : \A d : Has(p, d)' <=> Has(p, d)
    BY <1>6 DEF Has
  <1>9. Exists(q)
    BY <1>1, <1>2 DEF Backed
  <1> QED
    BY <1>1, <1>2, <1>5, <1>6, <1>7, <1>8, <1>9

\* A decision moves its request's days from one status to another, and a verification counts
\* them once.
LEMMA DecisionDays ==
    ASSUME LedgerInv, NEW h \in Handlers, CommitDecision(h), NEW t \in LeaveTypes
    PROVE  LET c == calls[h]
               s == leaveRequests[c.id].status
           IN
           /\ OfType(t)' = OfType(t)
           /\ \A X \in {Open, Active} :
                /\ InDays(t, X) \in Nat /\ InDays(t, X)' \in Nat
                /\ c.leaveTypeId = t /\ s \in X /\ NewStatus(c.op) \notin X =>
                     InDays(t, X) = InDays(t, X)' + c.totalDays
                /\ c.leaveTypeId # t \/ (s \in X <=> NewStatus(c.op) \in X) =>
                     InDays(t, X)' = InDays(t, X)
           /\ Days(Verified(t)) \in Nat
           /\ Days(Verified(t))' = Days(Verified(t)) +
                IF c.op = "verify" /\ c.leaveTypeId = t THEN c.totalDays ELSE 0
  <1> USE DEF LedgerInv, ChargeInv, IInv
  <1>1. PICK q \in Requests, op \in {"approve", "reject", "verify"}, days \in Nat :
           /\ q = calls[h].id /\ op = calls[h].op /\ days = calls[h].totalDays
           /\ Exists(q) /\ leaveRequests[q].leaveTypeId = calls[h].leaveTypeId
           /\ leaveRequests[q].totalDays = days
           /\ leaveRequests[q].status \in Accepted(op)
           /\ leaveRequests'[q] # None /\ leaveRequests'[q].status = NewStatus(op)
           /\ leaveRequests'[q].leaveTypeId = leaveRequests[q].leaveTypeId
           /\ leaveRequests'[q].totalDays = leaveRequests[q].totalDays
           /\ \A d : Has(q, d)' <=> Has(q, d) \/ DecisionRow(op) = d
           /\ \A p \in Requests \ {q} :
                /\ leaveRequests'[p] = leaveRequests[p]
                /\ \A d : Has(p, d)' <=> Has(p, d)
    BY DecisionWrites
  <1>2. PICK type, s, n :
          type = calls[h].leaveTypeId /\ s = leaveRequests[q].status /\ n = NewStatus(op)
    OBVIOUS
  <1>3. OfType(t)' = OfType(t) /\ (q \in OfType(t) <=> type = t)
    BY <1>1, <1>2 DEF OfType, Exists
  <1>4. ASSUME NEW X \in {Open, Active}
        PROVE  /\ InDays(t, X) \in Nat /\ InDays(t, X)' \in Nat
               /\ type = t /\ s \in X /\ n \notin X => InDays(t, X) = InDays(t, X)' + days
               /\ type # t \/ (s \in X <=> n \in X) => InDays(t, X)' = InDays(t, X)
    <2>1. PICK S, T : S = InStatus(t, X) /\ T = InStatus(t, X)'
      OBVIOUS
    <2>2. /\ S \subseteq OfType(t)
          /\ \A p \in S : p # q => p \in T
          /\ \A p \in T : p # q => p \in S
          /\ q \in S <=> type = t /\ s \in X
          /\ q \in T <=> type = t /\ n \in X
      BY <1>1, <1>2, <1>3, <2>1 DEF InStatus, OfType
    <2>3. /\ leaveRequests'[q].totalDays = days
          /\ q \in S => leaveRequests'[q].totalDays = leaveRequests[q].totalDays
          /\ \A p \in Requests \ {q} : leaveRequests'[p] = leaveRequests[p]
      BY <1>1
    <2>4. /\ DaysIn(leaveRequests, S) \in Nat
          /\ T = S => DaysIn(leaveRequests', T) = DaysIn(leaveRequests, S)
          /\ T = S \cup {q} /\ q \notin S =>
                DaysIn(leaveRequests', T) = DaysIn(leaveRequests, S) + days
          /\ T = S \ {q} /\ q \in S =>
                /\ DaysIn(leaveRequests', T) \in Nat
                /\ DaysIn(leaveRequests, S) = DaysIn(leaveRequests', T) + days
      BY <1>1, <2>2, <2>3, DaysMove
    <2>5. InDays(t, X) = DaysIn(leaveRequests, S) /\ InDays(t, X)' = DaysIn(leaveRequests', T)
      BY <2>1 DEF InDays, Days, DaysIn
    <2>6. T = S \/ (T = S \cup {q} /\ q \notin S) \/ (T = S \ {q} /\ q \in S)
      BY <2>2
    <2>7. type = t /\ s \in X /\ n \notin X => T = S \ {q} /\ q \in S
      BY <2>2
    <2>8. type # t \/ (s \in X <=> n \in X) => T = S
      BY <2>2
    <2> QED
      BY <1>1, <2>4, <2>5, <2>6, <2>7, <2>8
  <1>5. /\ Days(Verified(t)) \in Nat
        /\ Days(Verified(t))' =
             Days(Verified(t)) + IF op = "verify" /\ type = t THEN days ELSE 0
    <2>1. PICK S, T : S = Verified(t) /\ T = Verified(t)'
      OBVIOUS
    <2>2. S \subseteq OfType(t)
      BY <2>1 DEF Verified
    <2>3. DecisionRow(op) = "VERIFIED" <=> op = "verify"
      BY <1>1, DecisionTable
    <2>4. op = "verify" => q \notin S
      <3>1. ASSUME op = "verify" PROVE ~Has(q, "VERIFIED")
        <4>1. leaveRequests[q].status \in Open
          BY <1>1, <3>1 DEF Accepted, Open
        <4> QED
          BY <1>1, <4>1 DEF OpenUnverified
      <3> QED
        BY <2>1, <3>1 DEF Verified
    <2>5. T = IF op = "verify" /\ type = t THEN S \cup {q} ELSE S
      <3>1. \A p \in OfType(t) : p \in T <=> p \in S \/ (p = q /\ op = "verify")
        BY <1>1, <1>3, <2>1, <2>3 DEF Verified, OfType
      <3>2. T \subseteq OfType(t)
        BY <1>3, <2>1 DEF Verified
      <3> QED
        BY <1>3, <2>2, <3>1, <3>2
    <2>6. /\ leaveRequests'[q].totalDays = days
          /\ q \in S => leaveRequests'[q].totalDays = leaveRequests[q].totalDays
          /\ \A p \in Requests \ {q} : leaveRequests'[p] = leaveRequests[p]
      BY <1>1
    <2>7. /\ DaysIn(leaveRequests, S) \in Nat
          /\ T = S => DaysIn(leaveRequests', T) = DaysIn(leaveRequests, S)
          /\ T = S \cup {q} /\ q \notin S =>
                DaysIn(leaveRequests', T) = DaysIn(leaveRequests, S) + days
      <3>1. days \in Nat /\ q \in Requests
        BY <1>1
      <3> HIDE DEF Verified
      <3> QED
        BY <2>2, <2>6, <3>1, DaysMove
    <2>8. /\ Days(Verified(t)) = DaysIn(leaveRequests, S)
          /\ Days(Verified(t))' = DaysIn(leaveRequests', T)
      BY <2>1 DEF Days, DaysIn
    <2> QED
      BY <1>1, <2>4, <2>5, <2>7, <2>8
  <1> QED
    BY <1>1, <1>2, <1>3, <1>4, <1>5

-----------------------------------------------------------------------------
(* The ledger is kept *)

\* A step that changes no row and no request keeps the ledger.
LEMMA LedgerUntouched ==
    ASSUME LedgerInv, UNCHANGED tables
    PROVE  OpenUnverified' /\ \A t \in LeaveTypes : Ledger(t)'
  <1>1. \A t : RowsOf(t)' = RowsOf(t) /\ OfType(t)' = OfType(t)
    BY DEF RowsOf, FreeRows, OfType, Exists, tables
  <1>2. \A q, d : Has(q, d)' <=> Has(q, d)
    BY DEF Has, tables
  <1>3. OpenUnverified'
    BY <1>2 DEF LedgerInv, OpenUnverified, Exists, tables
  <1>4. ASSUME NEW t \in LeaveTypes PROVE Ledger(t)'
    <2>1. /\ Days(InStatus(t, Open))' = Days(InStatus(t, Open))
          /\ Days(InStatus(t, Active))' = Days(InStatus(t, Active))
          /\ Days(Verified(t))' = Days(Verified(t))
      BY <1>1, <1>2 DEF Days, InStatus, Verified, tables
    <2>2. /\ Recorded(t, "usedDays")' = Recorded(t, "usedDays")
          /\ Recorded(t, "pendingDays")' = Recorded(t, "pendingDays")
      BY <1>1 DEF Recorded, tables
    <2>3. NoneRejectedAfter(t)' <=> NoneRejectedAfter(t)
      BY <1>1, <1>2 DEF NoneRejectedAfter
    <2> QED
      BY <1>1, <2>1, <2>2, <2>3 DEF LedgerInv, Ledger
  <1> QED
    BY <1>3, <1>4

\* New rows record nothing.
LEMMA LedgerNewRows ==
    ASSUME LedgerInv, Finite', TypeOK', NEW h \in Handlers, CreateBalance(h) \/ SeedBalances(h)
    PROVE  OpenUnverified' /\ \A t \in LeaveTypes : Ledger(t)'
  <1> USE DEF LedgerInv, ChargeInv, IInv
  <1>1. /\ UNCHANGED history
        /\ \A r \in Rows : leaveBalances'[r] = leaveBalances[r]
        /\ \A r \in Rows' \ Rows : \E t : leaveBalances'[r] = NewBalance(t)
    BY NewRowsEmpty
  <1>2. /\ \A t : OfType(t)' = OfType(t)
        /\ \A q, d : Has(q, d)' <=> Has(q, d)
    BY <1>1 DEF OfType, Exists, Has, history
  <1>3. OpenUnverified'
    BY <1>1, <1>2 DEF OpenUnverified, Exists, history
  <1>4. ASSUME NEW t \in LeaveTypes PROVE Ledger(t)'
    <2>1. /\ Days(InStatus(t, Open))' = Days(InStatus(t, Open))
          /\ Days(InStatus(t, Active))' = Days(InStatus(t, Active))
          /\ Days(Verified(t))' = Days(Verified(t))
      BY <1>1, <1>2 DEF Days, InStatus, Verified, history
    <2>2. NoneRejectedAfter(t)' <=> NoneRejectedAfter(t)
      BY <1>2 DEF NoneRejectedAfter
    <2>3. PICK S, T : S = RowsOf(t) /\ T = RowsOf(t)'
      OBVIOUS
    <2>4. S \subseteq T /\ IsFiniteSet(T)
      <3>1. Rows \subseteq Rows'
        BY RowsPersist, <1>1 DEF Rows, Next
      <3>2. S \subseteq T
        BY <1>1, <2>3, <3>1 DEF RowsOf, Rows
      <3>3. T \subseteq Rows'
        BY <2>3 DEF RowsOf, Rows
      <3> QED
        BY <3>2, <3>3, FS_Subset DEF Finite
    <2>5. ASSUME NEW k \in {"usedDays", "pendingDays"}
          PROVE  Recorded(t, k)' = Recorded(t, k)
      <3> DEFINE f == [r \in RowsOf(t) |-> leaveBalances[r][k]]
                 g == [r \in RowsOf(t)' |-> leaveBalances'[r][k]]
      <3>1. Recorded(t, k) = SumFunctionOnSet(f, S) /\ Recorded(t, k)' = SumFunctionOnSet(g, T)
        BY <2>3 DEF Recorded, SumFunction
      <3>2. \A r \in S : f[r] \in Nat /\ f[r] = g[r]
        <4>1. \A r \in S : leaveBalances[r] \in Balance /\ r \in Rows
          BY <2>3, RowTyped DEF RowsOf, Rows
        <4> QED
          BY <1>1, <2>3, <2>4, <4>1 DEF Balance
      <3>3. ASSUME NEW r \in T \ S PROVE g[r] = 0
        <4>1. r \in Rows' \ Rows
          BY <1>1, <2>3 DEF RowsOf, Rows
        <4>2. PICK u : leaveBalances'[r] = NewBalance(u)
          BY <1>1, <4>1
        <4>3. NewBalance(u)[k] = 0
          BY DEF NewBalance
        <4> QED
          BY <2>3, <4>2, <4>3
      <3> HIDE DEF f, g
      <3>4. \A r \in T : g[r] \in Nat
        BY <3>2, <3>3
      <3>5. SumFunctionOnSet(g, T) = SumFunctionOnSet(g, S)
        BY <2>4, <3>3, <3>4, SumSupport
      <3>6. SumFunctionOnSet(f, S) = SumFunctionOnSet(g, S)
        BY <2>4, <3>2, FS_Subset, SumSame
      <3> QED
        BY <3>1, <3>5, <3>6
    <2>6. /\ Recorded(t, "usedDays")' = Recorded(t, "usedDays")
          /\ Recorded(t, "pendingDays")' = Recorded(t, "pendingDays")
      BY <2>5
    <2>7. RowsOf(t)' = {} => OfType(t)' = {}
      BY <1>2, <2>3, <2>4 DEF Ledger
    <2> QED
      BY <2>1, <2>2, <2>6, <2>7 DEF Ledger
  <1> QED
    BY <1>3, <1>4

\* A submission that commits keeps the ledger: its days are covered by its guard, and are
\* added to the row and to the open requests alike.
LEMMA LedgerSubmit ==
    ASSUME LedgerInv, RowsDiffer', TypeOK', [Next]_vars, NEW h \in Handlers, CommitSubmit(h)
    PROVE  OpenUnverified' /\ \A t \in LeaveTypes : Ledger(t)'
  <1> USE DEF LedgerInv, ChargeInv, IInv
  <1>1. /\ calls[h] \in RequestCall /\ Fresh(calls[h])
        /\ calls[h].totalDays \in Nat /\ calls[h].op = "submit" /\ calls[h].pc = "saving"
    BY CallTerms DEF CommitSubmit, At
  <1>2. PICK q \in Requests :
          /\ leaveRequests[q] = None
          /\ leaveApprovals' = leaveApprovals
          /\ \A p \in Requests \ {q} : leaveRequests'[p] = leaveRequests[p]
    BY CommitSubmitWrites
  <1>3. \A p, d : Has(p, d)' <=> Has(p, d)
    BY <1>2 DEF Has
  <1>4. OpenUnverified'
    <2>1. ~Has(q, "VERIFIED")
      BY <1>2 DEF OutboxMatchesHistory, Exists, Has
    <2> QED
      BY <1>2, <1>3, <2>1 DEF OpenUnverified, Exists
  <1>5. ASSUME NEW t \in LeaveTypes PROVE Ledger(t)'
    <2>1. PICK type \in LeaveTypes, days \in Nat :
            type = calls[h].leaveTypeId /\ days = calls[h].totalDays
      BY <1>1 DEF RequestCall
    <2>2. PICK used \in Nat, pending \in Nat :
            used = Recorded(t, "usedDays") /\ pending = Recorded(t, "pendingDays")
      BY CommitRecords
    <2>3. calls[h].balance # None
      BY <1>1 DEF Fresh
    <2>4. /\ RowsOf(t)' = RowsOf(t)
          /\ Recorded(t, "usedDays")' = used
          /\ Recorded(t, "pendingDays")' = IF type = t THEN pending + days ELSE pending
          /\ type = t => used + pending + days <= DefaultDays[t]
      BY <1>1, <2>1, <2>2, <2>3, CommitRecords
    <2>5. /\ \A X \in {Open, Active} : /\ InDays(t, X) \in Nat
                                       /\ InDays(t, X)' = InDays(t, X) + IF type = t THEN days ELSE 0
          /\ Days(Verified(t))' = Days(Verified(t))
          /\ OfType(t) \subseteq OfType(t)'
          /\ type # t => OfType(t)' = OfType(t)
      BY <2>1, SubmitDays
    <2>6. PICK open \in Nat, active \in Nat : open = InDays(t, Open) /\ active = InDays(t, Active)
      BY <2>5
    <2>7. /\ RowsOf(t) = {} => OfType(t) = {}
          /\ used = Days(Verified(t))
          /\ pending <= open
          /\ NoneRejectedAfter(t) => pending = open
          /\ active <= used + pending
          /\ active <= DefaultDays[t]
      BY <2>2, <2>6 DEF Ledger, InDays
    <2>8. DefaultDays[t] \in Nat
      BY LeaveAssumption
    <2>9. NoneRejectedAfter(t)' => NoneRejectedAfter(t)
      BY <1>3, <2>5 DEF NoneRejectedAfter
    <2>10. RowsOf(t)' = {} => OfType(t)' = {}
      <3>1. type = t => RowsOf(t) # {}
        BY <1>1, <2>1, <2>3 DEF Fresh
      <3> QED
        BY <2>4, <2>5, <2>7, <3>1
    <2>11. /\ Recorded(t, "usedDays")' = Days(Verified(t))'
           /\ Recorded(t, "pendingDays")' <= InDays(t, Open)'
           /\ NoneRejectedAfter(t)' => Recorded(t, "pendingDays")' = InDays(t, Open)'
           /\ InDays(t, Active)' <= Recorded(t, "usedDays")' + Recorded(t, "pendingDays")'
           /\ InDays(t, Active)' <= DefaultDays[t]
      <3>1. CASE type = t
        <4>1. InDays(t, Open)' = open + days /\ InDays(t, Active)' = active + days
          BY <2>5, <2>6, <3>1
        <4> QED
          BY <2>4, <2>5, <2>7, <2>8, <2>9, <3>1, <4>1
      <3>2. CASE type # t
        <4>1. InDays(t, Open)' = open /\ InDays(t, Active)' = active
          BY <2>5, <2>6, <3>2
        <4> QED
          BY <2>4, <2>5, <2>7, <2>8, <2>9, <3>2, <4>1
      <3> QED
        BY <3>1, <3>2
    <2> QED
      BY <2>10, <2>11 DEF Ledger, InDays
  <1> QED
    BY <1>4, <1>5

\* What a decision makes of the numbers of its type: u and p recorded, o and a days of the
\* open and the active requests.
LEMMA DecisionArithmetic ==
    ASSUME NEW u \in Nat, NEW p \in Nat, NEW o \in Nat, NEW a \in Nat, NEW d \in Nat,
           p <= o, a <= u + p
    PROVE  /\ Minus(p, d) \in Nat /\ Minus(p, d) <= p
           /\ \A x \in Nat : o = x + d => Minus(p, d) <= x /\ (p = o => Minus(p, d) = x)
           /\ \A x \in Nat : a = x + d => x <= u + Minus(p, d)
           /\ a <= (u + d) + Minus(p, d)
  BY DEF Minus

\* A decision that commits keeps the ledger.
LEMMA LedgerDecision ==
    ASSUME LedgerInv, RowsDiffer', TypeOK', [Next]_vars, NEW h \in Handlers, CommitDecision(h)
    PROVE  OpenUnverified' /\ \A t \in LeaveTypes : Ledger(t)'
  <1> USE DEF LedgerInv, ChargeInv, IInv
  <1>1. PICK q \in Requests, op \in {"approve", "reject", "verify"}, days \in Nat :
           /\ q = calls[h].id /\ op = calls[h].op /\ days = calls[h].totalDays
           /\ Exists(q) /\ leaveRequests[q].leaveTypeId = calls[h].leaveTypeId
           /\ leaveRequests[q].totalDays = days
           /\ leaveRequests[q].status \in Accepted(op)
           /\ leaveRequests'[q] # None /\ leaveRequests'[q].status = NewStatus(op)
           /\ leaveRequests'[q].leaveTypeId = leaveRequests[q].leaveTypeId
           /\ leaveRequests'[q].totalDays = leaveRequests[q].totalDays
           /\ \A d : Has(q, d)' <=> Has(q, d) \/ DecisionRow(op) = d
           /\ \A p \in Requests \ {q} :
                /\ leaveRequests'[p] = leaveRequests[p]
                /\ \A d : Has(p, d)' <=> Has(p, d)
    BY DecisionWrites
  <1>2. PICK type, s : type = calls[h].leaveTypeId /\ s = leaveRequests[q].status
    OBVIOUS
  <1>3. \/ op = "approve" /\ s \in Open /\ NewStatus(op) \in Open
        \/ op = "verify" /\ s \in Open /\ NewStatus(op) \in Active \ Open
        \/ op = "reject" /\ s \in Active /\ NewStatus(op) \notin Active
    <2>1. CASE op = "approve"
      BY <1>1, <1>2, <2>1 DEF Accepted, NewStatus, Open
    <2>2. CASE op = "verify"
      BY <1>1, <1>2, <2>2 DEF Accepted, NewStatus, Open, Active
    <2>3. CASE op = "reject"
      BY <1>1, <1>2, <2>3 DEF Accepted, NewStatus, Active, Status
    <2> QED
      BY <1>1, <2>1, <2>2, <2>3
  <1>4. Open \subseteq Active
    BY DEF Open, Active
  <1>5. OpenUnverified'
    <2>1. leaveRequests'[q].status \in Open => ~Has(q, "VERIFIED")'
      <3>1. NewStatus(op) \in Open => op = "approve"
        BY <1>3, <1>4
      <3>2. op = "approve" => DecisionRow(op) # "VERIFIED"
        BY DecisionTable
      <3> QED
        BY <1>1, <1>2, <1>3, <3>1, <3>2 DEF OpenUnverified
    <2> QED
      BY <1>1, <2>1 DEF OpenUnverified, Exists
  <1>6. ASSUME NEW t \in LeaveTypes PROVE Ledger(t)'
    <2>1. PICK used \in Nat, pending \in Nat :
            used = Recorded(t, "usedDays") /\ pending = Recorded(t, "pendingDays")
      BY CommitRecords
    <2>2. /\ RowsOf(t)' = RowsOf(t)
          /\ IF calls[h].balance # None /\ type = t
             THEN /\ Recorded(t, "usedDays")' = IF op = "verify" THEN used + days ELSE used
                  /\ Recorded(t, "pendingDays")' = Minus(pending, days)
             ELSE Recorded(t, "usedDays")' = used /\ Recorded(t, "pendingDays")' = pending
      BY <1>1, <1>2, <2>1, CommitRecords
    <2>3. calls[h].balance = None <=> op = "approve"
      <3>1. Fresh(calls[h]) /\ calls[h].pc = "saving"
        BY DEF CommitDecision, At
      <3> QED
        BY <1>1, <3>1 DEF Fresh
    <2>4. /\ OfType(t)' = OfType(t)
          /\ \A X \in {Open, Active} :
                /\ InDays(t, X) \in Nat /\ InDays(t, X)' \in Nat
                /\ type = t /\ s \in X /\ NewStatus(op) \notin X =>
                     InDays(t, X) = InDays(t, X)' + days
                /\ type # t \/ (s \in X <=> NewStatus(op) \in X) =>
                     InDays(t, X)' = InDays(t, X)
          /\ Days(Verified(t)) \in Nat
          /\ Days(Verified(t))' = Days(Verified(t)) +
                IF op = "verify" /\ type = t THEN days ELSE 0
      BY <1>1, <1>2, DecisionDays
    <2>5. PICK open \in Nat, active \in Nat, open2 \in Nat, active2 \in Nat :
            /\ open = InDays(t, Open) /\ active = InDays(t, Active)
            /\ open2 = InDays(t, Open)' /\ active2 = InDays(t, Active)'
      BY <2>4
    <2>6. /\ RowsOf(t) = {} => OfType(t) = {}
          /\ used = Days(Verified(t))
          /\ pending <= open
          /\ NoneRejectedAfter(t) => pending = open
          /\ active <= used + pending
          /\ active <= DefaultDays[t]
      BY <2>1, <2>5 DEF Ledger, InDays
    <2>7. DefaultDays[t] \in Nat
      BY LeaveAssumption
    <2>8. NoneRejectedAfter(t)' => NoneRejectedAfter(t)
      <3>1. \A p \in OfType(t) : \A d : Has(p, d) => Has(p, d)'
        BY <1>1 DEF OfType
      <3> QED
        BY <2>4, <3>1 DEF NoneRejectedAfter
    <2>9. /\ Minus(pending, days) \in Nat /\ Minus(pending, days) <= pending
          /\ open = open2 + days =>
               Minus(pending, days) <= open2 /\ (pending = open => Minus(pending, days) = open2)
          /\ active = active2 + days => active2 <= used + Minus(pending, days)
          /\ active <= (used + days) + Minus(pending, days)
      <3>1. pending <= open /\ active <= used + pending
        BY <2>6
      <3>2. days \in Nat
        BY <1>1
      <3>3. /\ Minus(pending, days) \in Nat /\ Minus(pending, days) <= pending
            /\ \A x \in Nat : open = x + days =>
                 Minus(pending, days) <= x /\ (pending = open => Minus(pending, days) = x)
            /\ \A x \in Nat : active = x + days => x <= used + Minus(pending, days)
            /\ active <= (used + days) + Minus(pending, days)
        BY <3>1, <3>2, DecisionArithmetic
      <3> QED
        BY <3>3
    <2>10. /\ Recorded(t, "usedDays")' = Days(Verified(t))'
           /\ Recorded(t, "pendingDays")' <= open2
           /\ NoneRejectedAfter(t)' => Recorded(t, "pendingDays")' = open2
           /\ active2 <= Recorded(t, "usedDays")' + Recorded(t, "pendingDays")'
           /\ active2 <= DefaultDays[t]
      <3>1. CASE type # t \/ op = "approve"
        <4>1. open2 = open /\ active2 = active
          BY <1>3, <1>4, <2>4, <2>5, <3>1
        <4>2. /\ Recorded(t, "usedDays")' = used /\ Recorded(t, "pendingDays")' = pending
              /\ Days(Verified(t))' = Days(Verified(t))
          BY <2>2, <2>3, <2>4, <3>1
        <4> QED
          BY <2>6, <2>8, <4>1, <4>2
      <3>2. CASE type = t /\ op = "verify"
        <4>1. open = open2 + days /\ active2 = active
          BY <1>3, <1>4, <2>4, <2>5, <3>2
        <4>2. /\ Recorded(t, "usedDays")' = used + days
              /\ Recorded(t, "pendingDays")' = Minus(pending, days)
              /\ Days(Verified(t))' = Days(Verified(t)) + days
          BY <2>2, <2>3, <2>4, <3>2
        <4> QED
          BY <2>6, <2>8, <2>9, <4>1, <4>2
      <3>3. CASE type = t /\ op = "reject"
        <4>1. active = active2 + days
          BY <1>3, <2>4, <2>5, <3>3
        <4>2. /\ Recorded(t, "usedDays")' = used
              /\ Recorded(t, "pendingDays")' = Minus(pending, days)
              /\ Days(Verified(t))' = Days(Verified(t))
          BY <2>2, <2>3, <2>4, <3>3
        <4>3. active2 <= DefaultDays[t]
          BY <1>1, <2>5, <2>6, <2>7, <4>1
        <4>4. CASE s \in Open
          <5>1. open = open2 + days
            BY <1>3, <1>4, <2>4, <2>5, <3>3, <4>4
          <5> QED
            BY <2>6, <2>8, <2>9, <4>1, <4>2, <4>3, <5>1
        <4>5. CASE s \notin Open
          <5>1. open2 = open
            BY <1>3, <1>4, <2>4, <2>5, <3>3, <4>5
          <5>2. s = "HR_VERIFIED"
            BY <1>3, <3>3, <4>5 DEF Active, Open
          <5>3. ~NoneRejectedAfter(t)'
            <6>1. Has(q, "VERIFIED") /\ q \in OfType(t)
              BY <1>1, <1>2, <3>3, <5>2 DEF StatusBackedByDecision, OfType
            <6>2. Has(q, "VERIFIED")' /\ Has(q, "REJECTED")'
              BY <1>1, <3>3, <6>1, DecisionTable
            <6> QED
              BY <2>4, <6>1, <6>2 DEF NoneRejectedAfter
          <5>4. Minus(pending, days) <= open
            BY <2>1, <2>5, <2>6, <2>9
          <5> QED
            BY <2>6, <2>9, <4>1, <4>2, <4>3, <5>1, <5>3, <5>4
        <4> QED
          BY <4>4, <4>5
      <3> QED
        BY <1>1, <3>1, <3>2, <3>3
    <2> QED
      BY <2>2, <2>4, <2>5, <2>6, <2>10 DEF Ledger, InDays
  <1> QED
    BY <1>5, <1>6

\* Every step of the one call keeps the ledger.
LEMMA LedgerStep == OneCall /\ LedgerInv /\ [Next]_vars => LedgerInv'
  <1> SUFFICES ASSUME OneCall, LedgerInv, [Next]_vars PROVE LedgerInv'
    OBVIOUS
  <1>1. SerialInv' /\ IInv'
    BY SerialStep DEF LedgerInv, SerialInv
  <1>2. ChargeInv'
    BY <1>1, ChargeStep DEF LedgerInv
  <1>3. RowsDiffer' /\ TypeOK' /\ Finite'
    BY <1>1, <1>2 DEF SerialInv, IInv, ChargeInv
  <1>4. \A h \in Handlers : InRequestCall(h)' => Fresh(calls[h])'
    <2>1. CASE UNCHANGED vars
      <3>1. UNCHANGED tables /\ calls' = calls
        BY <2>1 DEF vars
      <3>2. \A c : Fresh(c)' <=> Fresh(c)
        BY <3>1, FreshUntouched
      <3> QED
        BY <3>1, <3>2 DEF LedgerInv, InRequestCall, Fresh, DirtyBalance
    <2> QED
      BY <2>1, FreshStep
  <1>5. OpenUnverified' /\ \A t \in LeaveTypes : Ledger(t)'
    <2>1. \/ UNCHANGED tables
          \/ \E h \in Handlers : CommitSubmit(h) \/ CommitDecision(h)
          \/ \E h \in Handlers : CreateBalance(h) \/ SeedBalances(h)
      BY DEF Next, Submit, Decide, SubmitLeaveRequest, SubmitWithoutBalance,
             ApproveLeaveRequest, RejectLeaveRequest, VerifyLeaveRequest, ReadRequest, FindBalance,
             SelectBalance, SelectRequest, Abort, GetEmployeeLeaveBalances, vars
    <2> QED
      BY <1>3, <2>1, LedgerUntouched, LedgerNewRows, LedgerSubmit, LedgerDecision
  <1> QED
    BY <1>1, <1>2, <1>4, <1>5 DEF LedgerInv

\* Nothing is recorded of nothing.
LEMMA LedgerInit == Init => LedgerInv
  <1> SUFFICES ASSUME Init PROVE LedgerInv
    OBVIOUS
  <1>1. ChargeInv /\ SerialInv
    BY ChargeInit, SerialInit
  <1>2. (\A h \in Handlers : ~InRequestCall(h)) /\ OpenUnverified
    BY DEF Init, InRequestCall, OpenUnverified, Exists
  <1>3. ASSUME NEW t \in LeaveTypes PROVE Ledger(t)
    <2>1. RowsOf(t) = {} /\ OfType(t) = {}
      BY DEF Init, RowsOf, FreeRows, OfType, Exists
    <2>2. Recorded(t, "usedDays") = 0 /\ Recorded(t, "pendingDays") = 0
      BY <1>1, <2>1, RecordedRow DEF SerialInv, IInv
    <2>3. Verified(t) = {} /\ InStatus(t, Open) = {} /\ InStatus(t, Active) = {}
      BY <2>1 DEF Verified, InStatus
    <2>4. Days({}) = 0
      <3> DEFINE f == [q \in {} |-> leaveRequests[q].totalDays]
      <3>1. Days({}) = SumFunctionOnSet(f, {})
        BY DEF Days, SumFunction
      <3> HIDE DEF f
      <3> QED
        BY <3>1, SumEmpty
    <2>5. DefaultDays[t] \in Nat
      BY LeaveAssumption
    <2> QED
      BY <2>1, <2>2, <2>3, <2>4, <2>5 DEF Ledger
  <1> QED
    BY <1>1, <1>2, <1>3 DEF LedgerInv

\* Without overlapping calls the days of the requests that are submitted, approved or verified
\* never exceed the allocation of their type.
THEOREM AllocationKeptWhenSerial ==
    ASSUME OneCall
    PROVE  Spec => []NeverOverAllocated
  <1>1. LedgerInv => NeverOverAllocated
    BY DEF LedgerInv, Ledger, NeverOverAllocated, Active
  <1> QED
    BY <1>1, LedgerInit, LedgerStep, PTL DEF Spec

\* Without overlapping calls the balance row of a type records what HR verified and at most
\* what waits for a decision, exactly that unless a request was rejected after its
\* verification.
THEOREM LedgerKeptWhenSerial ==
    ASSUME OneCall
    PROVE  Spec => []LedgerMatchesHistory
  <1>1. LedgerInv => LedgerMatchesHistory
    BY DEF LedgerInv, Ledger, LedgerMatchesHistory, Open, Verified, NoneRejectedAfter
  <1> QED
    BY <1>1, LedgerInit, LedgerStep, PTL DEF Spec
=============================================================================

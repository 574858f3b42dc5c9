----------------------------- MODULE PayrollRun -----------------------------
(***************************************************************************)
(* executePayrollRun (apps/payroll-service/src/payroll-service.service.ts) *)
(* for one tenant and one period, under the Redis lock of                  *)
(* libs/common/src/redis/redis.service.ts.                                 *)
(*                                                                         *)
(* Handlers are the calls in progress, in any number of payroll-service    *)
(* processes.  The lock is a key with the constant value 'LOCKED' and a    *)
(* time to live of 300 seconds; "lock" records which call set it, which    *)
(* the code does not know: releaseLock deletes the key whoever set it.     *)
(* payroll_runs has no unique constraint on tenant and period: the lock is *)
(* all that stands between the check for a completed run and the insert.   *)
(*                                                                         *)
(* Time is not modelled.  RunsFitTTL says whether every call ends within   *)
(* the 300 seconds; if it does, a lock expires only after the call that    *)
(* set it has ended without deleting it (it crashed, its SET was applied   *)
(* and the reply lost, or its DEL failed).  DelOnce says whether the Redis *)
(* client never sends a DEL again whose reply it lost: ioredis, as         *)
(* configured here (maxRetriesPerRequest 3), does when it reconnects.      *)
(*                                                                         *)
(* Each service connects to a schema of its own (DatabaseModule.forRoot),  *)
(* and no code writes employees, compensations or leave_requests in        *)
(* payroll's.  SharedSchema says whether the services are deployed over    *)
(* one schema instead, so that payroll reads what the others write.        *)
(*                                                                         *)
(* A pay slip keeps the source of its gross salary; the amounts are left   *)
(* out, and so is the audit row, which is written with the event.          *)
(***************************************************************************)
EXTENDS Naturals, Sequences, FiniteSets

CONSTANTS
    Handlers,      \* calls of executePayrollRun that can overlap
    Employees,     \* employees of the tenant
    Leaves,        \* leave_requests rows of the tenant
    PeriodLeaves,  \* those whose startDate or endDate starts with the period
    RunsFitTTL,    \* TRUE if no call outlives the time to live of its lock
    DelOnce,       \* TRUE if a DEL is applied at most once
    SharedSchema,  \* TRUE if payroll reads the rows that the other services write
    None           \* no call, no decision in progress

ASSUME RunAssumption ==
    /\ IsFiniteSet(Employees)
    /\ PeriodLeaves \subseteq Leaves
    /\ {RunsFitTTL, DelOnce, SharedSchema} \subseteq BOOLEAN
    /\ None \notin Handlers \cup {"MANAGER_APPROVED", "HR_VERIFIED", "REJECTED"}

VARIABLES
    lock,          \* the call that set the Redis key, or None when there is no key
    payrollRuns,   \* the COMPLETED runs of the period, in commit order
    leaveStatus,   \* leave -> its status
    outbox,        \* the payroll.executed events, by their employeeCount
    active,        \* employees with status ACTIVE
    compensated,   \* employees with a compensations row
    pc,            \* call -> where it is
    staff,         \* call -> the activeEmployees it has read
    drafts,        \* call -> the pay slips of its open transaction
    eligible,      \* call -> the leaves it has read and will lock
    decision       \* leave -> the status a leave-service call is about to write, or None

tables == <<payrollRuns, leaveStatus, outbox>>
people == <<active, compensated>>
locals == <<staff, drafts, eligible>>
vars == <<lock, tables, people, pc, locals, decision>>

\* The period as PayrollPeriod sees it: the slips of every completed run.
Period == INSTANCE PayrollPeriod
            WITH slips <- UNION {payrollRuns[i] : i \in 1..Len(payrollRuns)}

Phases == {"idle", "locked", "checked", "paying", "locking", "releasing"}
Critical == {"locked", "checked", "paying", "locking"}

TypeOK ==
    /\ lock \in Handlers \cup {None}
    /\ payrollRuns \in Seq(SUBSET Period!Slip)
    /\ leaveStatus \in [Leaves -> Period!LeaveStatus]
    /\ outbox \in Seq(Nat)
    /\ active \subseteq Employees
    /\ compensated \subseteq active
    /\ pc \in [Handlers -> Phases]
    /\ staff \in [Handlers -> SUBSET Employees]
    /\ drafts \in [Handlers -> SUBSET Period!Slip]
    /\ eligible \in [Handlers -> SUBSET PeriodLeaves]
    /\ decision \in [Leaves -> Period!Decided \cup {None}]

Init ==
    /\ lock = None
    /\ payrollRuns = <<>>
    /\ leaveStatus \in [Leaves -> Period!LeaveStatus]
    /\ outbox = <<>>
    /\ active = {}
    /\ compensated = {}
    /\ pc = [h \in Handlers |-> "idle"]
    /\ staff = [h \in Handlers |-> {}]
    /\ drafts = [h \in Handlers |-> {}]
    /\ eligible = [h \in Handlers |-> {}]
    /\ decision = [l \in Leaves |-> None]

Goto(h, phase) == pc' = [pc EXCEPT ![h] = phase]

-----------------------------------------------------------------------------
(* The lock *)

\* SET key LOCKED EX 300 NX: refused with 409 if the key is there.  A lost connection can
\* hide that the SET was applied: the caller is refused and the key stays.
AcquireLock_NoNX(h) ==
    /\ pc[h] = "idle"
    /\ lock' = h
    /\ Goto(h, "locked")
    /\ UNCHANGED <<tables, people, locals, decision>>
AcquireLock(h) ==
    /\ pc[h] = "idle"
    /\ lock = None
    /\ lock' = h
    /\ Goto(h, "locked") \/ UNCHANGED pc
    /\ UNCHANGED <<tables, people, locals, decision>>

\* The finally block: DEL deletes the key whoever set it; an error is logged and swallowed,
\* and the key stays.
ReleaseLock(h) ==
    /\ pc[h] = "releasing"
    /\ lock' \in {None, lock}
    /\ Goto(h, "idle")
    /\ UNCHANGED <<tables, people, locals, decision>>

\* The DEL is applied and its reply is lost: the client will send it again.
LoseDelReply(h) ==
    /\ ~DelOnce
    /\ pc[h] = "releasing"
    /\ lock' = None
    /\ UNCHANGED <<tables, people, pc, locals, decision>>

\* The time to live runs out.
ExpireLock_NoTTL == FALSE /\ UNCHANGED vars
ExpireLock ==
    /\ lock # None
    /\ RunsFitTTL => pc[lock] = "idle"
    /\ lock' = None
    /\ UNCHANGED <<tables, people, pc, locals, decision>>

-----------------------------------------------------------------------------
(* executePayrollRun under the lock *)

CheckExistingRun_Skipped(h) ==
    /\ pc[h] = "locked"
    /\ Goto(h, "checked")
    /\ UNCHANGED <<lock, tables, people, locals, decision>>
CheckExistingRun(h) ==
    /\ pc[h] = "locked"
    /\ Goto(h, IF payrollRuns = <<>> THEN "checked" ELSE "releasing")
    /\ UNCHANGED <<lock, tables, people, locals, decision>>

\* The ACTIVE employees in the schema that payroll connects to.
Visible == IF SharedSchema THEN active ELSE {}

FindActiveEmployees(h) ==
    /\ pc[h] = "checked"
    /\ Goto(h, IF Visible = {} THEN "releasing" ELSE "paying")
    /\ staff' = [staff EXCEPT ![h] = Visible]
    /\ UNCHANGED <<lock, tables, people, drafts, eligible, decision>>

Drafted(h) == {s.employee : s \in drafts[h]}

\* In the transaction, one employee read before it after the other: a slip from the
\* compensation row if there is one by now, and from the default of 3000 if not.
WritePaySlip(h, e) ==
    /\ pc[h] = "paying"
    /\ e \in staff[h] \ Drafted(h)
    /\ drafts' = [drafts EXCEPT ![h] = @ \cup
         {[employee |-> e, basis |-> IF e \in compensated THEN "salary" ELSE "default"]}]
    /\ UNCHANGED <<lock, tables, people, pc, staff, eligible, decision>>

\* The end of a call's use of its locals.
Forget(h) ==
    /\ staff' = [staff EXCEPT ![h] = {}]
    /\ drafts' = [drafts EXCEPT ![h] = {}]
    /\ eligible' = [eligible EXCEPT ![h] = {}]

\* After the last slip, the leaves to lock: approved or verified, of any period, and of those
\* the ones whose start or end is in this period.
FindEligibleLeaves_AnyPeriod(h) ==
    /\ pc[h] = "paying"
    /\ Drafted(h) = staff[h]
    /\ eligible' = [eligible EXCEPT ![h] =
         {l \in Leaves : leaveStatus[l] \in {"HR_VERIFIED", "MANAGER_APPROVED"}}]
    /\ Goto(h, "locking")
    /\ UNCHANGED <<lock, tables, people, staff, drafts, decision>>
FindEligibleLeaves(h) ==
    /\ pc[h] = "paying"
    /\ Drafted(h) = staff[h]
    /\ eligible' = [eligible EXCEPT ![h] =
         {l \in PeriodLeaves : leaveStatus[l] \in {"HR_VERIFIED", "MANAGER_APPROVED"}}]
    /\ Goto(h, "locking")
    /\ UNCHANGED <<lock, tables, people, staff, drafts, decision>>

\* The run is COMPLETED, the leaves read before are locked whatever their status has become,
\* the event is written: one commit.
CommitRun_CountsActive(h) ==
    /\ pc[h] = "locking"
    /\ payrollRuns' = Append(payrollRuns, drafts[h])
    /\ leaveStatus' = Period!Locked(eligible[h], leaveStatus)
    /\ outbox' = Append(outbox, Cardinality(active))
    /\ Goto(h, "releasing")
    /\ Forget(h)
    /\ UNCHANGED <<lock, people, decision>>
CommitRun(h) ==
    /\ pc[h] = "locking"
    /\ payrollRuns' = Append(payrollRuns, drafts[h])
    /\ leaveStatus' = Period!Locked(eligible[h], leaveStatus)
    /\ outbox' = Append(outbox, Cardinality(staff[h]))
    /\ Goto(h, "releasing")
    /\ Forget(h)
    /\ UNCHANGED <<lock, people, decision>>

\* An exception: the transaction, if any, is rolled back, and the finally block runs.
AbortRun(h) ==
    /\ pc[h] \in Critical
    /\ Goto(h, "releasing")
    /\ Forget(h)
    /\ UNCHANGED <<lock, tables, people, decision>>

\* The process dies: no finally block, the key stays until it expires.
Crash(h) ==
    /\ pc[h] # "idle"
    /\ Goto(h, "idle")
    /\ Forget(h)
    /\ UNCHANGED <<lock, tables, people, decision>>

-----------------------------------------------------------------------------
(* onboardEmployee of the auth service: the employee row, and then the compensation row,
   in two transactions. *)

OnboardEmployee(e) ==
    /\ e \notin active
    /\ active' = active \cup {e}
    /\ UNCHANGED <<lock, tables, compensated, pc, locals, decision>>

SaveCompensation(e) ==
    /\ e \in active \ compensated
    /\ compensated' = compensated \cup {e}
    /\ UNCHANGED <<lock, tables, active, pc, locals, decision>>

-----------------------------------------------------------------------------
(* The leave service: approve, reject and verify read a request and check its status, and
   later write the new one; one such call on a leave at a time.  LeaveWorkflow has the whole
   handlers. *)

BeginDecision(l) ==
    /\ decision[l] = None
    /\ \/ leaveStatus[l] = "SUBMITTED" /\ decision' = [decision EXCEPT ![l] = "MANAGER_APPROVED"]
       \/ leaveStatus[l] \notin {"REJECTED", "PAYROLL_LOCKED"}
            /\ decision' = [decision EXCEPT ![l] = "REJECTED"]
       \/ leaveStatus[l] = "MANAGER_APPROVED"
            /\ decision' = [decision EXCEPT ![l] = "HR_VERIFIED"]
    /\ UNCHANGED <<lock, tables, people, pc, locals>>

EndDecision(l) ==
    /\ decision[l] # None
    /\ leaveStatus' \in {leaveStatus, [leaveStatus EXCEPT ![l] = decision[l]]}
    /\ decision' = [decision EXCEPT ![l] = None]
    /\ UNCHANGED <<lock, payrollRuns, outbox, people, pc, locals>>

-----------------------------------------------------------------------------

\* The steps of a call that is not interrupted.
Proceed(h) ==
    \/ CheckExistingRun(h) \/ FindActiveEmployees(h)
    \/ \E e \in Employees : WritePaySlip(h, e)
    \/ FindEligibleLeaves(h) \/ CommitRun(h) \/ ReleaseLock(h)

Next ==
    \/ \E h \in Handlers :
         AcquireLock(h) \/ Proceed(h) \/ LoseDelReply(h) \/ AbortRun(h) \/ Crash(h)
    \/ ExpireLock
    \/ \E e \in Employees : OnboardEmployee(e) \/ SaveCompensation(e)
    \/ \E l \in Leaves : BeginDecision(l) \/ EndDecision(l)

Spec == Init /\ [][Next]_vars

\* Awaited calls return and Redis expires keys.  Nobody has to trigger a run, to fail or to
\* onboard employees.
Fairness == WF_vars(ExpireLock) /\ \A h \in Handlers : WF_vars(Proceed(h))

FairSpec == Spec /\ Fairness

-----------------------------------------------------------------------------
(* Properties *)

\* The lock's purpose: two calls for the same period are never both between the acquisition
\* of the lock and the end of the transaction.
MutualExclusion ==
    \A g, h \in Handlers : pc[g] \in Critical /\ pc[h] \in Critical => g = h

\* A period is paid once, though only a read before the transaction checks it.
OneRunPerPeriod == Len(payrollRuns) <= 1

\* Each completed run is announced by one event whose employeeCount is the number of
\* employees it really paid, though employees are onboarded while it runs.
RunsAnnounced ==
    /\ Len(outbox) = Len(payrollRuns)
    /\ \A i \in 1..Len(payrollRuns) :
         outbox[i] = Cardinality({s.employee : s \in payrollRuns[i]}) /\ outbox[i] > 0

\* The lock is never stuck: after a crash, a lost reply or a failed DEL it expires.
LockEventuallyFree == lock # None ~> lock = None

\* The runs implement the abstract period: paid at most once, one slip each, and leaves
\* locked only by the payment, in the same step and only those of the period.
ImplementsPeriod == Period!PeriodSpec

\* docs/backend/requirements.md:31 (FR-4.1): payroll runs for all active employees of a
\* tenant.  A run is refused for want of employees only if the tenant has none.
RefusedOnlyWithoutStaff ==
    [][\A h \in Handlers :
         FindActiveEmployees(h) /\ pc'[h] = "releasing" => active = {}]_vars

=============================================================================

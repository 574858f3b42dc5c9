---------------------------- MODULE PayrollPeriod ----------------------------
(***************************************************************************)
(* What payroll promises for one tenant and one period: the period is paid *)
(* at most once, every paid employee has one pay slip, and leaves become   *)
(* PAYROLL_LOCKED only in the step that pays, only those of the period.    *)
(* Between payments the leave service decides on leaves as it likes.  No   *)
(* lock, no worker and no failure is visible here: PayrollRun shows that   *)
(* executePayrollRun implements this.                                      *)
(***************************************************************************)
CONSTANTS
    Employees,     \* employees of the tenant
    Leaves,        \* leave_requests rows of the tenant
    PeriodLeaves   \* those whose startDate or endDate starts with the period

VARIABLES
    slips,         \* the pay slips of the period, none until it is paid
    leaveStatus    \* leave -> its status

periodVars == <<slips, leaveStatus>>

Decided == {"MANAGER_APPROVED", "HR_VERIFIED", "REJECTED"}
LeaveStatus == {"SUBMITTED", "PAYROLL_LOCKED"} \cup Decided
Basis == {"salary", "default"}
Slip == [employee : Employees, basis : Basis]

OneSlipEach(S) == \A s, t \in S : s.employee = t.employee => s = t

\* The statuses after payroll has locked the leaves in L.
Locked(L, status) == [l \in Leaves |-> IF l \in L THEN "PAYROLL_LOCKED" ELSE status[l]]

PeriodInit ==
    /\ slips = {}
    /\ leaveStatus \in [Leaves -> LeaveStatus]

Pay ==
    /\ slips = {}
    /\ slips' \in (SUBSET Slip) \ {{}}
    /\ OneSlipEach(slips')
    /\ \E L \in SUBSET PeriodLeaves : leaveStatus' = Locked(L, leaveStatus)

Decide ==
    /\ \E l \in Leaves, s \in Decided : leaveStatus' = [leaveStatus EXCEPT ![l] = s]
    /\ UNCHANGED slips

PeriodSpec == PeriodInit /\ [][Pay \/ Decide]_periodVars

=============================================================================

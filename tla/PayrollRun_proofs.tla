-------------------------- MODULE PayrollRun_proofs --------------------------
(***************************************************************************)
(* Theorems about PayrollRun, for every number of calls, employees and     *)
(* leaves.                                                                 *)
(*                                                                         *)
(* SlipInv needs nothing of the lock: it follows one call's transaction.   *)
(* LockInv is what the lock gives if no call outlives it (RunsFitTTL) and  *)
(* no DEL is applied twice (DelOnce): the call that is not idle is the one *)
(* that set the key, so no other call can commit between its check for a   *)
(* completed run and its own commit.                                       *)
(***************************************************************************)
EXTENDS PayrollRun, FiniteSetTheorems, TLAPS

-----------------------------------------------------------------------------
(* Types *)

USE DEF Period!Slip, Period!Basis, Period!LeaveStatus, Period!Decided

\* Every step leaves every variable in its type.
LEMMA TypeStep == TypeOK /\ [Next]_vars => TypeOK'
  <1> SUFFICES ASSUME TypeOK, [Next]_vars PROVE TypeOK'
    OBVIOUS
  <1> USE DEF TypeOK, Phases, Goto, tables, people, locals
  <1>1. ASSUME NEW h \in Handlers, AcquireLock(h) PROVE TypeOK'
    BY <1>1 DEF AcquireLock
  <1>2. ASSUME NEW h \in Handlers, CheckExistingRun(h) PROVE TypeOK'
    BY <1>2 DEF CheckExistingRun
  <1>3. ASSUME NEW h \in Handlers, FindActiveEmployees(h) PROVE TypeOK'
    BY <1>3 DEF FindActiveEmployees, Visible
  <1>4. ASSUME NEW h \in Handlers, NEW e \in Employees, WritePaySlip(h, e) PROVE TypeOK'
    BY <1>4 DEF WritePaySlip
  <1>5. ASSUME NEW h \in Handlers, FindEligibleLeaves(h) PROVE TypeOK'
    BY <1>5 DEF FindEligibleLeaves
  <1>6. ASSUME NEW h \in Handlers, CommitRun(h) PROVE TypeOK'
    <2>1. Cardinality(staff[h]) \in Nat
      BY RunAssumption, FS_Subset, FS_CardinalityType DEF RunAssumption
    <2>2. payrollRuns' \in Seq(SUBSET Period!Slip) /\ outbox' \in Seq(Nat)
      BY <1>6, <2>1 DEF CommitRun
    <2>3. leaveStatus' \in [Leaves -> Period!LeaveStatus]
      BY <1>6 DEF CommitRun, Period!Locked
    <2> QED
      BY <1>6, <2>2, <2>3 DEF CommitRun, Forget
  <1>7. ASSUME NEW h \in Handlers, ReleaseLock(h) PROVE TypeOK'
    BY <1>7 DEF ReleaseLock
  <1>8. ASSUME NEW h \in Handlers, LoseDelReply(h) PROVE TypeOK'
    BY <1>8 DEF LoseDelReply
  <1>9. ASSUME NEW h \in Handlers, AbortRun(h) \/ Crash(h) PROVE TypeOK'
    BY <1>9 DEF AbortRun, Crash, Forget
  <1>10. CASE ExpireLock
    BY <1>10 DEF ExpireLock
  <1>11. ASSUME NEW e \in Employees, OnboardEmployee(e) \/ SaveCompensation(e) PROVE TypeOK'
    BY <1>11 DEF OnboardEmployee, SaveCompensation
  <1>12. ASSUME NEW l \in Leaves, BeginDecision(l) PROVE TypeOK'
    BY <1>12 DEF BeginDecision
  <1>13. ASSUME NEW l \in Leaves, EndDecision(l) PROVE TypeOK'
    BY <1>13 DEF EndDecision
  <1>14. CASE UNCHANGED vars
    BY <1>14 DEF vars
  <1> QED
    BY <1>1, <1>2, <1>3, <1>4, <1>5, <1>6, <1>7, <1>8, <1>9, <1>10, <1>11, <1>12, <1>13,
       <1>14 DEF Next, Proceed

\* The initial state is typed.
LEMMA TypeInit == Init => TypeOK
  BY DEF Init, TypeOK, Phases

\* Type correctness of every reachable state.
THEOREM TypeCorrect == Spec => []TypeOK
  BY TypeInit, TypeStep, PTL DEF Spec


-----------------------------------------------------------------------------
(* What one call's transaction guarantees, with or without the lock *)

\* A call in its transaction pays at least one employee, drafts one slip each and no slip of
\* an employee it did not read; a call about to commit has drafted them all.
DraftsInv ==
    \A h \in Handlers :
        /\ Period!OneSlipEach(drafts[h])
        /\ Drafted(h) \subseteq staff[h]
        /\ pc[h] \in {"paying", "locking"} => staff[h] # {}
        /\ pc[h] = "locking" => Drafted(h) = staff[h]
        /\ pc[h] \notin {"paying", "locking"} => drafts[h] = {}

SlipInv == TypeOK /\ DraftsInv /\ RunsAnnounced

\* The drafts of every call keep their shape in every step: a slip is added only for an
\* employee that has none, whatever is onboarded or compensated meanwhile.
LEMMA DraftsStep == TypeOK /\ DraftsInv /\ [Next]_vars => DraftsInv'
  <1> SUFFICES ASSUME TypeOK, DraftsInv, [Next]_vars PROVE DraftsInv'
    OBVIOUS
  <1> USE DEF DraftsInv, Drafted, Period!OneSlipEach
  <1>1. ASSUME NEW h \in Handlers, AcquireLock(h) PROVE DraftsInv'
    BY <1>1 DEF AcquireLock, Goto, TypeOK, locals
  <1>2. ASSUME NEW h \in Handlers, CheckExistingRun(h) PROVE DraftsInv'
    BY <1>2 DEF CheckExistingRun, Goto, TypeOK, locals
  <1>3. ASSUME NEW h \in Handlers, FindActiveEmployees(h) PROVE DraftsInv'
    BY <1>3 DEF FindActiveEmployees, Goto, TypeOK
  <1>4. ASSUME NEW h \in Handlers, NEW e \in Employees, WritePaySlip(h, e) PROVE DraftsInv'
    <2>1. PICK basis \in Period!Basis :
            drafts' = [drafts EXCEPT ![h] = @ \cup {[employee |-> e, basis |-> basis]}]
      BY <1>4 DEF WritePaySlip
    <2>2. \A s \in drafts[h] : s.employee # e
      BY <1>4 DEF WritePaySlip
    <2>3. Period!OneSlipEach(drafts'[h])
      BY <2>1, <2>2 DEF TypeOK
    <2>4. Drafted(h)' = Drafted(h) \cup {e}
      <3> DEFINE slip == [employee |-> e, basis |-> basis]
      <3>1. drafts'[h] = drafts[h] \cup {slip} /\ slip.employee = e
        BY <2>1 DEF TypeOK
      <3> HIDE DEF slip
      <3> QED
        BY <3>1
    <2>5. \A g \in Handlers \ {h} : drafts'[g] = drafts[g]
      BY <2>1 DEF TypeOK
    <2>6. pc[h] = "paying" /\ UNCHANGED <<pc, staff>> /\ e \in staff[h]
      BY <1>4 DEF WritePaySlip
    <2> QED
      BY <2>3, <2>4, <2>5, <2>6
  <1>5. ASSUME NEW h \in Handlers, FindEligibleLeaves(h) PROVE DraftsInv'
    BY <1>5 DEF FindEligibleLeaves, Goto, TypeOK
  <1>6. ASSUME NEW h \in Handlers, CommitRun(h) \/ AbortRun(h) \/ Crash(h) PROVE DraftsInv'
    BY <1>6 DEF CommitRun, AbortRun, Crash, Forget, Goto, TypeOK
  <1>7. ASSUME NEW h \in Handlers, ReleaseLock(h) \/ LoseDelReply(h) PROVE DraftsInv'
    BY <1>7 DEF ReleaseLock, LoseDelReply, Goto, TypeOK, locals
  <1>8. UNCHANGED <<pc, locals>> => DraftsInv'
    BY DEF locals
  <1>9. CASE ExpireLock
    BY <1>8, <1>9 DEF ExpireLock
  <1>10. ASSUME NEW e \in Employees, OnboardEmployee(e) \/ SaveCompensation(e) PROVE DraftsInv'
    BY <1>8, <1>10 DEF OnboardEmployee, SaveCompensation
  <1>11. ASSUME NEW l \in Leaves, BeginDecision(l) \/ EndDecision(l) PROVE DraftsInv'
    BY <1>8, <1>11 DEF BeginDecision, EndDecision
  <1>12. CASE UNCHANGED vars
    BY <1>8, <1>12 DEF vars
  <1> QED
    BY <1>1, <1>2, <1>3, <1>4, <1>5, <1>6, <1>7, <1>9, <1>10, <1>11, <1>12 DEF Next, Proceed

\* Only a commit writes payroll_runs and its event.
LEMMA OnlyCommitsPay ==
    ASSUME [Next]_vars, ~ \E h \in Handlers : CommitRun(h)
    PROVE  UNCHANGED <<payrollRuns, outbox>>
  BY DEF Next, Proceed, AcquireLock, CheckExistingRun, FindActiveEmployees, WritePaySlip,
         FindEligibleLeaves, ReleaseLock, LoseDelReply, AbortRun, Crash, ExpireLock,
         OnboardEmployee, SaveCompensation, BeginDecision, EndDecision, vars, tables

\* A commit pays the employees it read, at least one, in one slip each.
LEMMA CommitPays ==
    ASSUME TypeOK, DraftsInv, NEW h \in Handlers, CommitRun(h)
    PROVE  /\ drafts[h] \in (SUBSET Period!Slip) \ {{}}
           /\ Period!OneSlipEach(drafts[h])
           /\ Cardinality({s.employee : s \in drafts[h]}) \in Nat \ {0}
           /\ payrollRuns' = Append(payrollRuns, drafts[h])
           /\ outbox' = Append(outbox, Cardinality({s.employee : s \in drafts[h]}))
  <1>1. Drafted(h) = staff[h] /\ staff[h] # {} /\ staff[h] \subseteq Employees
    BY DEF CommitRun, DraftsInv, TypeOK
  <1>2. IsFiniteSet(staff[h])
    BY <1>1, RunAssumption, FS_Subset DEF RunAssumption
  <1>3. Cardinality(staff[h]) \in Nat \ {0}
    BY <1>1, <1>2, FS_CardinalityType, FS_EmptySet
  <1>4. drafts[h] \in (SUBSET Period!Slip) \ {{}} /\ Period!OneSlipEach(drafts[h])
    BY <1>1 DEF Drafted, DraftsInv, TypeOK
  <1>5. {s.employee : s \in drafts[h]} = staff[h]
    BY <1>1 DEF Drafted
  <1>6. /\ payrollRuns' = Append(payrollRuns, drafts[h])
        /\ outbox' = Append(outbox, Cardinality(staff[h]))
    BY DEF CommitRun
  <1> HIDE DEF Period!Slip
  <1> QED
    BY <1>3, <1>4, <1>5, <1>6, Zenon

\* Completed runs and their events stay in step.
LEMMA RunsStep == SlipInv /\ [Next]_vars => RunsAnnounced'
  <1> SUFFICES ASSUME SlipInv, [Next]_vars PROVE RunsAnnounced'
    OBVIOUS
  <1> USE DEF SlipInv
  <1>1. CASE ~ \E h \in Handlers : CommitRun(h)
    BY <1>1, OnlyCommitsPay DEF RunsAnnounced
  <1>2. ASSUME NEW h \in Handlers, CommitRun(h) PROVE RunsAnnounced'
    <2> DEFINE n == Cardinality({s.employee : s \in drafts[h]})
    <2>1. /\ payrollRuns' = Append(payrollRuns, drafts[h])
          /\ outbox' = Append(outbox, n)
          /\ n \in Nat \ {0}
          /\ drafts[h] \in SUBSET Period!Slip
      BY <1>2, CommitPays
    <2>2. payrollRuns \in Seq(SUBSET Period!Slip) /\ outbox \in Seq(Nat)
      BY DEF TypeOK
    <2>3. Len(payrollRuns') = Len(payrollRuns) + 1 /\ Len(outbox') = Len(outbox) + 1
      BY <2>1, <2>2
    <2>4. ASSUME NEW i \in 1..Len(payrollRuns')
          PROVE  /\ outbox'[i] = Cardinality({s.employee : s \in payrollRuns'[i]})
                 /\ outbox'[i] > 0
      <3>1. CASE i = Len(payrollRuns) + 1
        <4>1. payrollRuns'[i] = drafts[h] /\ outbox'[i] = n
          BY <2>1, <2>2, <3>1 DEF RunsAnnounced
        <4> QED
          BY <4>1, <2>1
      <3>2. CASE i \in 1..Len(payrollRuns)
        <4>1. payrollRuns'[i] = payrollRuns[i] /\ outbox'[i] = outbox[i]
          BY <2>1, <2>2, <3>2 DEF RunsAnnounced
        <4> QED
          BY <4>1, <3>2 DEF RunsAnnounced
      <3> QED
        BY <2>2, <2>3, <3>1, <3>2
    <2> QED
      BY <2>3, <2>4 DEF RunsAnnounced
  <1> QED
    BY <1>1, <1>2

\* No call has a draft and no run is completed before the first call.
LEMMA SlipInit == Init => SlipInv
  BY TypeInit DEF Init, SlipInv, DraftsInv, Drafted, Period!OneSlipEach, RunsAnnounced

\* Without any assumption on the lock, every draft has at most one slip for each employee it
\* read, and every completed run has its event.
THEOREM SlipInvariant == Spec => []SlipInv
  <1>1. SlipInv /\ [Next]_vars => SlipInv'
    BY TypeStep, DraftsStep, RunsStep DEF SlipInv
  <1> QED
    BY SlipInit, <1>1, PTL DEF Spec

\* Without any assumption on the lock, the event of every completed run carries the number of
\* employees the run paid, and there is at least one.
THEOREM RunsAreAnnounced == Spec => []RunsAnnounced
  <1>1. SlipInv => RunsAnnounced
    BY DEF SlipInv
  <1> QED
    BY SlipInvariant, <1>1, PTL

-----------------------------------------------------------------------------
(* What the lock gives *)

\* A call that is not idle is the one that set the key.
LockHeld == \A h \in Handlers : pc[h] # "idle" => lock = h

\* Nobody has paid the period since a call that is about to pay it looked.
UnpaidSoFar ==
    \A h \in Handlers : pc[h] \in {"checked", "paying", "locking"} => payrollRuns = <<>>

LockInv == TypeOK /\ LockHeld /\ UnpaidSoFar /\ OneRunPerPeriod

\* If calls fit the time to live and no DEL is applied twice, the key is deleted only by the
\* call that set it, or after that call has ended.
LEMMA LockHeldStep ==
    ASSUME RunsFitTTL, DelOnce, TypeOK, LockHeld, [Next]_vars
    PROVE  LockHeld'
  <1> USE DEF LockHeld, TypeOK
  <1> None \notin Handlers
    BY RunAssumption DEF RunAssumption
  <1>1. ASSUME NEW h \in Handlers, AcquireLock(h) PROVE LockHeld'
    BY <1>1 DEF AcquireLock, Goto
  <1>2. ASSUME NEW h \in Handlers, ReleaseLock(h) PROVE LockHeld'
    BY <1>2 DEF ReleaseLock, Goto
  <1>3. CASE ExpireLock
    BY <1>3 DEF ExpireLock
  <1>4. ASSUME NEW h \in Handlers, Proceed(h) \/ AbortRun(h) \/ Crash(h), ~ReleaseLock(h)
        PROVE  LockHeld'
    <2>1. /\ pc[h] # "idle"
          /\ \A g \in Handlers \ {h} : pc'[g] = pc[g]
          /\ lock' = lock
      BY <1>4 DEF Proceed, CheckExistingRun, FindActiveEmployees, WritePaySlip,
                  FindEligibleLeaves, CommitRun, AbortRun, Crash, Critical, Goto
    <2> QED
      BY <2>1
  <1>5. UNCHANGED <<pc, lock>> => LockHeld'
    OBVIOUS
  <1>6. ASSUME NEW h \in Handlers, LoseDelReply(h) PROVE LockHeld'
    BY <1>6 DEF LoseDelReply
  <1>7. ASSUME NEW e \in Employees, OnboardEmployee(e) \/ SaveCompensation(e) PROVE LockHeld'
    BY <1>5, <1>7 DEF OnboardEmployee, SaveCompensation
  <1>8. ASSUME NEW l \in Leaves, BeginDecision(l) \/ EndDecision(l) PROVE LockHeld'
    BY <1>5, <1>8 DEF BeginDecision, EndDecision
  <1>9. CASE UNCHANGED vars
    BY <1>5, <1>9 DEF vars
  <1> QED
    BY <1>1, <1>2, <1>3, <1>4, <1>6, <1>7, <1>8, <1>9 DEF Next

\* Only the check for a completed run lets a call on, and only a commit, which the lock gives
\* to one call at a time, adds a run.
LEMMA UnpaidStep ==
    ASSUME TypeOK, LockHeld, UnpaidSoFar, OneRunPerPeriod, [Next]_vars
    PROVE  UnpaidSoFar' /\ OneRunPerPeriod'
  <1> USE DEF UnpaidSoFar, TypeOK
  <1>1. ASSUME NEW h \in Handlers, CommitRun(h) PROVE UnpaidSoFar' /\ OneRunPerPeriod'
    <2>1. payrollRuns = <<>> /\ \A g \in Handlers \ {h} : pc[g] = "idle"
      BY <1>1 DEF CommitRun, LockHeld
    <2>2. \A g \in Handlers : pc'[g] \in {"idle", "releasing"}
      BY <1>1, <2>1 DEF CommitRun, Goto
    <2>3. Len(payrollRuns') = 1
      BY <1>1, <2>1 DEF CommitRun
    <2> QED
      BY <2>2, <2>3 DEF OneRunPerPeriod
  <1>2. ASSUME ~ \E h \in Handlers : CommitRun(h) PROVE UnpaidSoFar' /\ OneRunPerPeriod'
    <2>1. payrollRuns' = payrollRuns
      BY <1>2, OnlyCommitsPay
    <2>2. ASSUME NEW h \in Handlers, pc'[h] \in {"checked", "paying", "locking"}
          PROVE  pc[h] \in {"checked", "paying", "locking"} \/ payrollRuns = <<>>
      <3>1. ASSUME NEW g \in Handlers, CheckExistingRun(g)
            PROVE  pc[h] \in {"checked", "paying", "locking"} \/ payrollRuns = <<>>
        BY <2>2, <3>1 DEF CheckExistingRun, Goto
      <3>2. ASSUME NEW g \in Handlers, FindActiveEmployees(g) \/ FindEligibleLeaves(g)
            PROVE  pc[h] \in {"checked", "paying", "locking"}
        BY <2>2, <3>2 DEF FindActiveEmployees, FindEligibleLeaves, Goto
      <3>3. ASSUME NEW g \in Handlers,
                   AcquireLock(g) \/ ReleaseLock(g) \/ AbortRun(g) \/ Crash(g)
            PROVE  pc[h] \in {"checked", "paying", "locking"}
        BY <2>2, <3>3 DEF AcquireLock, ReleaseLock, AbortRun, Crash, Goto
      <3>4. pc' = pc => pc[h] \in {"checked", "paying", "locking"}
        BY <2>2
      <3>5. CASE \E g \in Handlers :
                   LoseDelReply(g) \/ \E e \in Employees : WritePaySlip(g, e)
        BY <3>4, <3>5 DEF LoseDelReply, WritePaySlip
      <3>6. CASE ExpireLock \/ UNCHANGED vars
        BY <3>4, <3>6 DEF ExpireLock, vars
      <3>7. CASE \E e \in Employees : OnboardEmployee(e) \/ SaveCompensation(e)
        BY <3>4, <3>7 DEF OnboardEmployee, SaveCompensation
      <3>8. CASE \E l \in Leaves : BeginDecision(l) \/ EndDecision(l)
        BY <3>4, <3>8 DEF BeginDecision, EndDecision
      <3> QED
        BY <1>2, <3>1, <3>2, <3>3, <3>5, <3>6, <3>7, <3>8 DEF Next, Proceed
    <2> QED
      BY <2>1, <2>2 DEF OneRunPerPeriod
  <1> QED
    BY <1>1, <1>2

\* If calls fit the time to live and no DEL is applied twice, the holder of the key is the only
\* call between its SET and its DEL, and it commits only a period that is still unpaid.
THEOREM LockInvariant ==
    ASSUME RunsFitTTL, DelOnce
    PROVE  Spec => []LockInv
  <1>1. Init => LockInv
    BY TypeInit DEF Init, LockInv, LockHeld, UnpaidSoFar, OneRunPerPeriod
  <1>2. LockInv /\ [Next]_vars => LockInv'
    BY TypeStep, LockHeldStep, UnpaidStep DEF LockInv
  <1> QED
    BY <1>1, <1>2, PTL DEF Spec

\* Calls that fit the time to live of the lock are never in the critical section together.
THEOREM LockExcludes ==
    ASSUME RunsFitTTL, DelOnce
    PROVE  Spec => []MutualExclusion
  <1>1. LockInv => MutualExclusion
    BY DEF LockInv, LockHeld, MutualExclusion, Critical
  <1> QED
    BY LockInvariant, <1>1, PTL

\* Then a period is paid at most once, although payroll_runs has no unique constraint.
THEOREM PaidAtMostOnce ==
    ASSUME RunsFitTTL, DelOnce
    PROVE  Spec => []OneRunPerPeriod
  <1>1. LockInv => OneRunPerPeriod
    BY DEF LockInv
  <1> QED
    BY LockInvariant, <1>1, PTL

-----------------------------------------------------------------------------
(* The runs implement the abstract period *)

slips == UNION {payrollRuns[i] : i \in 1..Len(payrollRuns)}

\* The commit of a run is the abstract payment.
LEMMA CommitIsPay ==
    ASSUME TypeOK, DraftsInv, UnpaidSoFar, NEW h \in Handlers, CommitRun(h)
    PROVE  Period!Pay
  <1>1. payrollRuns = <<>>
    BY DEF CommitRun, UnpaidSoFar
  <1>2. slips = {}
    BY <1>1 DEF slips
  <1>3. /\ payrollRuns' = Append(payrollRuns, drafts[h])
        /\ drafts[h] \in (SUBSET Period!Slip) \ {{}}
        /\ Period!OneSlipEach(drafts[h])
    BY CommitPays
  <1>4. Len(payrollRuns') = 1 /\ payrollRuns'[1] = drafts[h]
    BY <1>1, <1>3
  <1>5. slips' = drafts[h]
    BY <1>4 DEF slips
  <1>6. leaveStatus' = Period!Locked(eligible[h], leaveStatus)
        /\ eligible[h] \in SUBSET PeriodLeaves
    BY DEF CommitRun, TypeOK
  <1> QED
    BY <1>2, <1>3, <1>5, <1>6 DEF Period!Pay, slips

\* Every step maps to a payment, a decision or a stutter.
LEMMA StepIsPeriodStep ==
    ASSUME TypeOK, DraftsInv, UnpaidSoFar, [Next]_vars
    PROVE  [Period!Pay \/ Period!Decide]_(Period!periodVars)
  <1>1. CASE \E h \in Handlers : CommitRun(h)
    BY <1>1, CommitIsPay
  <1>2. CASE ~ \E h \in Handlers : CommitRun(h)
    <2>1. slips' = slips
      BY <1>2, OnlyCommitsPay DEF slips
    <2>2. CASE \E l \in Leaves : EndDecision(l)
      <3>1. PICK l \in Leaves : EndDecision(l)
        BY <2>2
      <3>2. decision[l] \in Period!Decided
        BY <3>1, RunAssumption DEF EndDecision, TypeOK, RunAssumption
      <3>3. leaveStatus' = leaveStatus \/ Period!Decide
        BY <2>1, <3>1, <3>2 DEF EndDecision, Period!Decide, slips
      <3> QED
        BY <2>1, <3>3 DEF Period!periodVars, slips
    <2>3. CASE ~ \E l \in Leaves : EndDecision(l)
      <3>1. leaveStatus' = leaveStatus
        BY <1>2, <2>3 DEF Next, Proceed, AcquireLock, CheckExistingRun, FindActiveEmployees,
             WritePaySlip, FindEligibleLeaves, ReleaseLock, LoseDelReply, AbortRun, Crash,
             ExpireLock, OnboardEmployee, SaveCompensation, BeginDecision, vars, tables
      <3> QED
        BY <2>1, <3>1 DEF Period!periodVars, slips
    <2> QED
      BY <2>2, <2>3
  <1> QED
    BY <1>1, <1>2

\* If calls fit the time to live of the lock, executePayrollRun, its crashes, aborts and
\* overlapping calls included, implements the period that is paid at most once.
THEOREM RunImplementsPeriod ==
    ASSUME RunsFitTTL, DelOnce
    PROVE  Spec => ImplementsPeriod
  <1>1. Init => Period!PeriodInit
    BY DEF Init, Period!PeriodInit
  <1>2. LockInv /\ SlipInv /\ [Next]_vars => [Period!Pay \/ Period!Decide]_(Period!periodVars)
    BY StepIsPeriodStep DEF LockInv, SlipInv
  <1> QED
    BY <1>1, <1>2, LockInvariant, SlipInvariant, PTL DEF Spec, ImplementsPeriod, Period!PeriodSpec

=============================================================================

---------------------------- MODULE PayrollConsole ----------------------------
(***************************************************************************)
(* payroll/page.tsx with PayslipModal and RedisLockIndicator.  Run Payroll *)
(* calls no service: it shows the lock as taken and sets a timer of 2.5    *)
(* seconds that completes the run.  No Next: Workspace mounts the page and *)
(* leaves it; a timer is not cleared, and when it fires after its page was *)
(* left its setters reach no page.                                         *)
(*                                                                         *)
(* The slips are the same sample whatever period is selected; amounts and  *)
(* totals are left out.                                                    *)
(***************************************************************************)
EXTENDS Naturals, WebPage

CONSTANTS Period,          \* PAYROLL_PERIODS
          DefaultPeriod,
          Payslip          \* INITIAL_PAYSLIPS

ASSUME ConsoleAssumption == DefaultPeriod \in Period /\ None \notin Payslip

VARIABLES selectedPeriod, payrollStatus, redisLockStatus, selectedPayslip,
          timers           \* pending timers of the page, and of pages left (any, or none)

consoleVars == <<selectedPeriod, payrollStatus, redisLockStatus, selectedPayslip, timers>>

ConsoleTypeOK ==
    /\ selectedPeriod \in Period
    /\ payrollStatus \in {"IDLE", "PROCESSING", "COMPLETED"}
    /\ redisLockStatus \in {"ACQUIRED", "RELEASED"}
    /\ selectedPayslip \in Payslip \cup {None}
    /\ timers \in [mounted : Nat, left : BOOLEAN]

NoTimer == [mounted |-> 0, left |-> FALSE]

ConsoleInit ==
    /\ selectedPeriod = DefaultPeriod
    /\ payrollStatus = "IDLE"
    /\ redisLockStatus = "RELEASED"
    /\ selectedPayslip = None
    /\ timers = NoTimer

\* The page is left: its state is discarded, but its timers stay until a reload.
AfterLeaving == [mounted |-> 0, left |-> timers.left \/ timers.mounted > 0]

LeaveConsolePage(pending) ==
    /\ selectedPeriod' = DefaultPeriod
    /\ payrollStatus' = "IDLE"
    /\ redisLockStatus' = "RELEASED"
    /\ selectedPayslip' = None
    /\ timers' = pending

-----------------------------------------------------------------------------
\* The period can be changed while a run is processed, too.
SelectPeriod(p) ==
    /\ selectedPeriod' = p
    /\ UNCHANGED <<payrollStatus, redisLockStatus, selectedPayslip, timers>>

HandleExecutePayroll_Unguarded ==
    /\ payrollStatus' = "PROCESSING"
    /\ redisLockStatus' = "ACQUIRED"
    /\ timers' = [timers EXCEPT !.mounted = @ + 1]
    /\ UNCHANGED <<selectedPeriod, selectedPayslip>>

HandleExecutePayroll ==
    /\ payrollStatus # "PROCESSING"
    /\ payrollStatus' = "PROCESSING"
    /\ redisLockStatus' = "ACQUIRED"
    /\ timers' = [timers EXCEPT !.mounted = @ + 1]
    /\ UNCHANGED <<selectedPeriod, selectedPayslip>>

CompleteRun_ReleasesOnly ==
    /\ timers.mounted > 0
    /\ redisLockStatus' = "RELEASED"
    /\ timers' = [timers EXCEPT !.mounted = @ - 1]
    /\ UNCHANGED <<selectedPeriod, payrollStatus, selectedPayslip>>

\* A timer of the mounted page fires, or one of a page that was left.
CompleteRun ==
    /\ timers.mounted > 0
    /\ payrollStatus' = "COMPLETED"
    /\ redisLockStatus' = "RELEASED"
    /\ timers' = [timers EXCEPT !.mounted = @ - 1]
    /\ UNCHANGED <<selectedPeriod, selectedPayslip>>

CompleteLeft ==
    /\ timers.left
    /\ timers' = [timers EXCEPT !.left = FALSE]
    /\ UNCHANGED <<selectedPeriod, payrollStatus, redisLockStatus, selectedPayslip>>

ViewPayslip(s) ==
    /\ selectedPayslip' = s
    /\ UNCHANGED <<selectedPeriod, payrollStatus, redisLockStatus, timers>>

ClosePayslip ==
    /\ selectedPayslip # None
    /\ selectedPayslip' = None
    /\ UNCHANGED <<selectedPeriod, payrollStatus, redisLockStatus, timers>>

-----------------------------------------------------------------------------
\* The page says PROCESSING exactly while one timer of its own is pending, and
\* shows the lock as taken exactly then, however often the button is pressed and
\* the page left and opened again: no timer completes another run than its own.
ProcessingHasTimer ==
    /\ payrollStatus = "PROCESSING" <=> redisLockStatus = "ACQUIRED"
    /\ timers.mounted = IF payrollStatus = "PROCESSING" THEN 1 ELSE 0

\* A run that is shown as processing does not stay so: it completes, or the page
\* is left.
PayrollSettles == payrollStatus = "PROCESSING" ~> payrollStatus # "PROCESSING"
=============================================================================

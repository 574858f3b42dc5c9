------------------------------ MODULE Workspace ------------------------------
(***************************************************************************)
(* The dashboard layout: Sidebar navigation, the role switch of the Header,*)
(* sign-in, reload and sign-out as far as they set the profile and the     *)
(* active role, and the three working pages, of which the one on display is*)
(* mounted.  Leaving a page discards its state.                            *)
(*                                                                         *)
(* Tokens are WebSession's; here a browser has a session or not.           *)
(***************************************************************************)
EXTENDS LeaveStudio, EmployeeDirectory, PayrollConsole

CONSTANTS LoginRoles    \* user.roles in the answer of loginUser; the first is active

VARIABLES page,         \* the page on display
          session,      \* localStorage has a token and a tenant
          roles,        \* user.roles, None: no user in the store
          activeRole

frameVars == <<page, session, roles, activeRole>>
vars == <<board, pendingDays, applying, reviewed, decision, chosen,
          hires, selectedDepartment, onboarding, formData, selectedEmployee,
          selectedPeriod, payrollStatus, redisLockStatus, selectedPayslip, timers,
          page, session, roles, activeRole>>

UserRole == {"ADMIN", "HR_MANAGER", "LINE_MANAGER", "EMPLOYEE"}
Private == {"dashboard", "employees", "leaves", "payroll"}

ASSUME WorkspaceAssumption == LoginRoles \subseteq UserRole /\ None \notin UserRole

TypeOK == /\ StudioTypeOK /\ DirectoryTypeOK /\ ConsoleTypeOK
          /\ page \in Private \cup {"login"}
          /\ session \in BOOLEAN
          /\ roles \in (SUBSET UserRole) \cup {None}
          /\ activeRole \in UserRole \cup {None}

Init == /\ StudioInit /\ DirectoryInit /\ ConsoleInit
        /\ page = "login"
        /\ session = FALSE
        /\ roles = None
        /\ activeRole = None

-----------------------------------------------------------------------------
\* The page is left, for another or by a reload, and its state with it.
Unmount == LeaveStudioPage /\ LeaveDirectoryPage /\ LeaveConsolePage(AfterLeaving)

\* setAuth: the first role is the active one, EMPLOYEE when there is none.
SetUser(R) == roles' = R /\ activeRole' \in IF R = {} THEN {"EMPLOYEE"} ELSE R

\* The login page, and the profile its answer brings.
SignIn ==
    /\ page = "login"
    /\ SetUser(LoginRoles)
    /\ session' = TRUE
    /\ page' = "dashboard"
    /\ UNCHANGED studioVars /\ UNCHANGED directoryVars /\ UNCHANGED consoleVars

\* AuthGuard takes a session of localStorage over with a profile of its own,
\* which has every role and starts with ADMIN ...
Hydrate ==
    /\ page \in Private
    /\ session /\ roles = None
    /\ roles' = UserRole
    /\ activeRole' = "ADMIN"
    /\ UNCHANGED <<page, session>>
    /\ UNCHANGED studioVars /\ UNCHANGED directoryVars /\ UNCHANGED consoleVars

\* ... and goes to the login page without one.
RedirectToLogin ==
    /\ page \in Private
    /\ ~session
    /\ page' = "login"
    /\ Unmount
    /\ UNCHANGED <<session, roles, activeRole>>

HandleLogout ==
    /\ page \in Private
    /\ session' = FALSE
    /\ roles' = None
    /\ activeRole' = None
    /\ page' = "login"
    /\ Unmount

Navigate(p) ==
    /\ page \in Private
    /\ p # page
    /\ page' = p
    /\ Unmount
    /\ UNCHANGED <<session, roles, activeRole>>

\* A reload ends the pending timers, too.
Reload ==
    /\ roles' = None
    /\ activeRole' = None
    /\ page' \in Private \cup {"login"}
    /\ LeaveStudioPage /\ LeaveDirectoryPage /\ LeaveConsolePage(NoTimer)
    /\ UNCHANGED session

AvailableRoles == IF roles \in {None, {}} THEN UserRole ELSE roles

SetActiveRole(r) ==
    /\ page \in Private
    /\ roles # None
    /\ r \in AvailableRoles
    /\ activeRole' = r
    /\ UNCHANGED <<page, session, roles>>
    /\ UNCHANGED studioVars /\ UNCHANGED directoryVars /\ UNCHANGED consoleVars

StudioStep ==
    /\ page = "leaves"
    /\ \/ OpenApplication \/ CloseApplication
       \/ \E id \in NewRequest, a \in Application : HandleApplySubmit(id, a)
       \/ \E id \in RequestId : OpenReview(id, activeRole)
       \/ \E d \in Decision : SelectDecision(d)
       \/ CloseReview \/ StudioEscape \/ HandleDecisionSubmit
    /\ UNCHANGED directoryVars /\ UNCHANGED consoleVars /\ UNCHANGED frameVars

DirectoryStep ==
    /\ page = "employees"
    /\ \/ OpenOnboarding \/ CloseOnboarding
       \/ \E d \in Departments : HandleDepartmentChange(d)
       \/ \E d \in Departments : \E p \in POSITIONS(d) : SelectPosition(p)
       \/ \E e \in NewEmployee : HandleOnboardSubmit(e)
       \/ \E d \in Departments \cup {"ALL"} : SelectFilter(d)
       \/ \E e \in SampleEmployee \cup NewEmployee : ViewProfile(e)
       \/ CloseDrawer \/ DirectoryEscape
    /\ UNCHANGED studioVars /\ UNCHANGED consoleVars /\ UNCHANGED frameVars

ConsoleStep ==
    /\ page = "payroll"
    /\ \/ \E p \in Period : SelectPeriod(p)
       \/ HandleExecutePayroll
       \/ \E s \in Payslip : ViewPayslip(s)
       \/ ClosePayslip
    /\ UNCHANGED studioVars /\ UNCHANGED directoryVars /\ UNCHANGED frameVars

TimerFires ==
    /\ CompleteRun \/ CompleteLeft
    /\ UNCHANGED studioVars /\ UNCHANGED directoryVars /\ UNCHANGED frameVars

Next == \/ SignIn \/ Hydrate \/ RedirectToLogin \/ HandleLogout \/ Reload
        \/ \E p \in Private : Navigate(p)
        \/ \E r \in UserRole : SetActiveRole(r)
        \/ StudioStep \/ DirectoryStep \/ ConsoleStep \/ TimerFires

\* The browser runs a timer when it is due.
Spec == Init /\ [][Next]_vars
FairSpec == Spec /\ WF_vars(TimerFires)

-----------------------------------------------------------------------------
\* A decision moves a request along the board only as its dialog offered: from
\* an open status to the outcome of an option listed for it, unless nothing was
\* picked and the dialog sent what an earlier one had left; and a request that
\* is rejected or locked never moves again.  Roles may be switched, dialogs
\* cancelled and other requests submitted in between.
DecidedAsOffered ==
    [][\A id \in RequestId :
        /\ page' = "leaves" /\ page = "leaves" /\ roles' # None
        /\ board[id] # None /\ board'[id] # board[id]
        => /\ Options(board[id].status) # {}
           /\ chosen => \E d \in Options(board[id].status) :
                            board'[id] = [board[id] EXCEPT !.status = Outcome(d)]]_vars
=============================================================================

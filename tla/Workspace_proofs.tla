------------------------- MODULE Workspace_proofs -------------------------
(***************************************************************************)
(* Proofs about Workspace, for any board, directory, periods and roles.    *)
(*                                                                         *)
(* Each page is treated on its own: a step of the frame leaves its state   *)
(* alone or discards it, and only its own steps change it otherwise.  The  *)
(* one strengthening is ReviewInv, which says that the dialog on display   *)
(* is about the request as the board has it.                               *)
(***************************************************************************)
EXTENDS Workspace, Sums_proofs

\* The dialog shows the status the board has, one it can decide about, and what
\* was picked in it is one of the options of that status.
ReviewInv ==
    reviewed # None =>
        /\ board[reviewed.id] # None
        /\ reviewed.status = board[reviewed.id].status
        /\ Options(reviewed.status) # {}
        /\ chosen => decision \in Options(reviewed.status)

StudioInv == StudioTypeOK /\ ReviewInv
DirectoryInv == DirectoryTypeOK /\ DirectoryConsistent
ConsoleInv == ConsoleTypeOK /\ ProcessingHasTimer

FrameTypeOK == /\ page \in Private \cup {"login"}
               /\ session \in BOOLEAN
               /\ roles \in (SUBSET UserRole) \cup {None}
               /\ activeRole \in UserRole \cup {None}

IInv == StudioInv /\ DirectoryInv /\ ConsoleInv /\ FrameTypeOK

-----------------------------------------------------------------------------
(* The steps of the frame.                                                 *)

FrameStep == \/ SignIn \/ Hydrate \/ RedirectToLogin \/ HandleLogout \/ Reload
             \/ \E p \in Private : Navigate(p)
             \/ \E r \in UserRole : SetActiveRole(r)

\* What a step of the frame may do to the pages: all or nothing.
LEMMA FrameOnly ==
    ASSUME FrameStep
    PROVE  \/ UNCHANGED studioVars /\ UNCHANGED directoryVars /\ UNCHANGED consoleVars
           \/ LeaveStudioPage /\ LeaveDirectoryPage
              /\ (LeaveConsolePage(AfterLeaving) \/ LeaveConsolePage(NoTimer))
BY DEF FrameStep, SignIn, Hydrate, RedirectToLogin, HandleLogout, Reload, Navigate, SetActiveRole,
       Unmount

\* The session, the route and the roles keep their types.
LEMMA FrameTyped ==
    ASSUME FrameTypeOK, FrameStep \/ UNCHANGED frameVars
    PROVE  FrameTypeOK'
<1> USE WorkspaceAssumption DEF FrameTypeOK, FrameStep, Private
<1>0. "ADMIN" \in UserRole /\ "EMPLOYEE" \in UserRole
  BY DEF UserRole
<1>1. CASE SignIn
  <2>1. \A R \in SUBSET UserRole : SetUser(R) => roles' \in SUBSET UserRole /\ activeRole' \in UserRole
    BY <1>0 DEF SetUser
  <2>2. QED
    BY <1>1, <2>1 DEF SignIn
<1>2. CASE Hydrate
  BY <1>0, <1>2 DEF Hydrate
<1>5. CASE RedirectToLogin \/ HandleLogout
  <2>1. page' = "login"
    BY <1>5 DEF RedirectToLogin, HandleLogout
  <2>2. session' = session \/ session' = FALSE
    BY <1>5 DEF RedirectToLogin, HandleLogout
  <2>3. /\ roles' = roles \/ roles' = None
        /\ activeRole' = activeRole \/ activeRole' = None
    BY <1>5 DEF RedirectToLogin, HandleLogout
  <2>4. session' \in BOOLEAN
    BY <2>2
  <2>5. roles' \in (SUBSET UserRole) \cup {None}
    BY <2>3, Zenon
  <2>6. activeRole' \in UserRole \cup {None}
    BY <2>3
  <2>7. page' \in Private \cup {"login"}
    BY <2>1
  <2>8. QED
    BY <2>4, <2>5, <2>6, <2>7
<1>7. CASE Reload
  <2>1. page' \in Private \cup {"login"} /\ roles' = None /\ activeRole' = None
    BY <1>7 DEF Reload
  <2>2. session' = session
    BY <1>7, Zenon DEF Reload
  <2>3. session' \in BOOLEAN
    BY <2>2
  <2>4. roles' \in (SUBSET UserRole) \cup {None}
    BY <2>1, Zenon
  <2>5. QED
    BY <2>1, <2>3, <2>4
<1>8. CASE UNCHANGED frameVars
  BY <1>8, Zenon DEF frameVars
<1>3. CASE \E p \in Private : Navigate(p)
  BY <1>3 DEF Navigate
<1>4. CASE \E r \in UserRole : SetActiveRole(r)
  BY <1>4 DEF SetActiveRole
<1>6. QED
  BY <1>1, <1>2, <1>3, <1>4, <1>5, <1>7, <1>8

-----------------------------------------------------------------------------
(* The leave board.                                                        *)

LEMMA Board ==
    /\ InitialRequests \in [RequestId -> RequestRow \cup {None}]
    /\ InitialPending \in [Category -> Nat]
BY StudioAssumption DEF InitialRequests, SampleRow, InitialPending, RequestRow, LeaveStatus

\* The board starts with the sample applications and both dialogs closed.
LEMMA StudioBegins == StudioInit => StudioInv
BY Board DEF StudioInit, StudioInv, StudioTypeOK, ReviewInv, RequestRow, Decision

\* Navigating away forgets the board and its dialogs.
LEMMA StudioLeft == LeaveStudioPage => StudioInv'
BY Board DEF LeaveStudioPage, StudioInv, StudioTypeOK, ReviewInv, RequestRow, Decision

\* What leaves the board alone keeps its invariant.
LEMMA StudioKept == StudioInv /\ UNCHANGED studioVars => StudioInv'
BY DEF studioVars, StudioInv, StudioTypeOK, ReviewInv

\* A submission takes a free id, which the dialog is not about.
LEMMA ApplyStep ==
    ASSUME StudioInv, NEW id \in NewRequest, NEW a \in Application, HandleApplySubmit(id, a)
    PROVE  StudioInv'
<1> USE StudioAssumption DEF StudioInv, HandleApplySubmit, AddRequest
<1> DEFINE days == DiffDays(a.start, a.end)
           row == [status |-> "SUBMITTED", category |-> a.category, start |-> a.start,
                   end |-> a.end, totalDays |-> days]
<1>1. a.category \in Category /\ a.start \in Nat /\ a.end \in Nat
  BY DEF Application
<1>2. days \in Nat
  BY <1>1 DEF DiffDays
<1>3. id \in RequestId
  BY DEF RequestId
<1>4. /\ board' = [board EXCEPT ![id] = row]
      /\ pendingDays' = [pendingDays EXCEPT ![a.category] = @ + days]
  OBVIOUS
<1>5. row \in RequestRow
  BY <1>1, <1>2 DEF RequestRow, LeaveStatus
<1> HIDE DEF days, row
<1>6. board' \in [RequestId -> RequestRow \cup {None}] /\ \A r \in RequestId : r # id => board'[r] = board[r]
  BY <1>3, <1>4, <1>5 DEF StudioTypeOK, RequestRow
<1>7. pendingDays' \in [Category -> Nat]
  BY <1>1, <1>2, <1>4 DEF StudioTypeOK
<1>8. StudioTypeOK'
  BY <1>6, <1>7 DEF StudioTypeOK, RequestRow
<1>9. ReviewInv'
  BY <1>6 DEF StudioTypeOK, ReviewInv
<1>10. QED
  BY <1>8, <1>9

\* A decision changes the status of the request under review.
LEMMA DecisionStep ==
    ASSUME StudioInv, HandleDecisionSubmit
    PROVE  /\ StudioInv'
           /\ reviewed # None /\ reviewed.id \in RequestId
           /\ board'[reviewed.id] = [board[reviewed.id] EXCEPT !.status = Outcome(decision)]
           /\ \A r \in RequestId : r # reviewed.id => board'[r] = board[r]
<1> USE DEF StudioInv, StudioTypeOK, HandleDecisionSubmit, Reviewing
<1> DEFINE row == [board[reviewed.id] EXCEPT !.status = Outcome(decision)]
<1>1. reviewed.id \in RequestId /\ board[reviewed.id] \in RequestRow
  BY DEF ReviewInv, RequestRow
<1>2. Outcome(decision) \in LeaveStatus
  BY DEF Outcome, Decision, LeaveStatus
<1>3. row \in RequestRow
  BY <1>1, <1>2 DEF RequestRow
<1>4. board' = [board EXCEPT ![reviewed.id] = row]
  BY DEF Decide
<1> HIDE DEF row
<1>5. /\ board' \in [RequestId -> RequestRow \cup {None}]
      /\ board'[reviewed.id] = row
      /\ \A r \in RequestId : r # reviewed.id => board'[r] = board[r]
  BY <1>1, <1>3, <1>4 DEF RequestRow
<1>6. StudioInv'
  BY <1>5 DEF ReviewInv, RequestRow
<1>7. QED
  BY <1>1, <1>5, <1>6 DEF row

\* A review is offered in the columns whose requests have options.
LEMMA ReviewStep ==
    ASSUME StudioInv, NEW id \in RequestId, NEW role, OpenReview(id, role)
    PROVE  StudioInv'
<1> USE DEF StudioInv, StudioTypeOK, OpenReview
<1>1. PICK col \in KanbanColumns : id \in ColumnRequests(col) /\ role \in Reviewer(col)
  OBVIOUS
<1>2. board[id] \in RequestRow /\ board[id].status = col
  BY <1>1 DEF ColumnRequests, RequestRow
<1>3. col \in {"SUBMITTED", "MANAGER_APPROVED", "HR_VERIFIED"}
  BY <1>1 DEF KanbanColumns, Reviewer
<1>4. Options(col) # {} /\ col \in LeaveStatus
  BY <1>3 DEF Options, LeaveStatus
<1>5. /\ reviewed'.id = id /\ reviewed'.status = col
      /\ board' = board /\ chosen' = FALSE /\ board[id] # None
  BY <1>1, <1>2 DEF ColumnRequests
<1>6. ReviewInv'
  BY <1>2, <1>4, <1>5 DEF ReviewInv
<1>7. StudioTypeOK'
  BY <1>2, <1>4
<1>8. QED
  BY <1>6, <1>7

\* Every step of the leave page keeps its invariant.
LEMMA StudioPreserved ==
    ASSUME StudioInv, StudioStep
    PROVE  StudioInv'
<1>1. CASE OpenApplication \/ CloseApplication
  <2>1. /\ board' = board /\ pendingDays' = pendingDays /\ reviewed' = reviewed
        /\ decision' = decision /\ chosen' = chosen
        /\ applying' = TRUE \/ applying' = FALSE
    BY <1>1 DEF OpenApplication, CloseApplication
  <2>2. applying' \in BOOLEAN
    BY <2>1
  <2>3. StudioTypeOK'
    BY <2>1, <2>2, Zenon DEF StudioInv, StudioTypeOK
  <2>4. ReviewInv'
    BY <2>1, Zenon DEF StudioInv, ReviewInv
  <2>5. QED
    BY <2>3, <2>4 DEF StudioInv
<1>2. CASE CloseReview \/ StudioEscape
  <2>1. /\ board' = board /\ pendingDays' = pendingDays /\ decision' = decision
        /\ reviewed' = None /\ chosen' = FALSE
        /\ applying' = applying \/ applying' = FALSE
    BY <1>2 DEF CloseReview, StudioEscape
  <2>2. applying' \in BOOLEAN
    BY <2>1 DEF StudioInv, StudioTypeOK
  <2>3. QED
    BY <2>1, <2>2 DEF StudioInv, StudioTypeOK, ReviewInv
<1>3. ASSUME NEW d \in Decision, SelectDecision(d)
      PROVE  StudioInv'
  BY <1>3 DEF SelectDecision, StudioInv, StudioTypeOK, ReviewInv
<1>4. QED
  BY <1>1, <1>2, <1>3, ApplyStep, DecisionStep, ReviewStep DEF StudioStep

-----------------------------------------------------------------------------
(* The employee directory.                                                 *)

LEMMA FirstPost ==
    InitialForm \in Post /\ InitialForm.position \in POSITIONS(InitialForm.department)
BY DirectoryAssumption DEF InitialForm, Post, POSITIONS

\* The directory starts with its sample employees and an empty form.
LEMMA DirectoryBegins == DirectoryInit => DirectoryInv
<1> SUFFICES ASSUME DirectoryInit PROVE DirectoryInv
  OBVIOUS
<1> USE FirstPost DEF DirectoryInit
<1>1. DirectoryTypeOK
  BY DEF DirectoryTypeOK
<1>2. PositionsFit
  BY DEF PositionsFit, Hired
<1>3. SelectionsExist
  BY DEF SelectionsExist
<1>4. QED
  BY <1>1, <1>2, <1>3 DEF DirectoryInv, DirectoryConsistent

\* Navigating away forgets the directory and its form.
LEMMA DirectoryLeft == LeaveDirectoryPage => DirectoryInv'
<1> SUFFICES ASSUME LeaveDirectoryPage PROVE DirectoryInv'
  OBVIOUS
<1> USE FirstPost DEF LeaveDirectoryPage
<1>1. DirectoryTypeOK'
  BY DEF DirectoryTypeOK
<1>2. PositionsFit'
  BY DEF PositionsFit, Hired
<1>3. SelectionsExist'
  BY DEF SelectionsExist
<1>4. QED
  BY <1>1, <1>2, <1>3 DEF DirectoryInv, DirectoryConsistent

\* What leaves the directory alone keeps its invariant.
LEMMA DirectoryKept == DirectoryInv /\ UNCHANGED directoryVars => DirectoryInv'
BY DEF directoryVars, DirectoryInv, DirectoryTypeOK, DirectoryConsistent, PositionsFit,
       SelectionsExist, DepartmentsList, Employees, Hired, Department

\* A step that hires nobody, with a form that fits and selections that exist.
LEMMA NobodyHired ==
    ASSUME DirectoryInv, UNCHANGED hires, onboarding' \in BOOLEAN,
           formData' \in Post, formData'.position \in POSITIONS(formData'.department),
           selectedDepartment' \in DepartmentsList \cup {"ALL"},
           selectedEmployee' \in Employees \cup {None}
    PROVE  DirectoryInv'
<1>1. \A e : Department(e)' = Department(e)
  BY DEF Department
<1>2. Employees' = Employees /\ Hired' = Hired
  BY DEF Employees, Hired
<1>3. DepartmentsList' = DepartmentsList
  BY <1>1, <1>2 DEF DepartmentsList
<1>4. DepartmentsList \subseteq Departments
  <2>1. \A e \in Employees : Department(e) \in Departments
    BY DirectoryAssumption DEF DirectoryInv, DirectoryTypeOK, DirectoryConsistent, PositionsFit,
       Employees, Hired, Department, Post
  <2>2. QED
    BY <2>1 DEF DepartmentsList
<1>5. DirectoryTypeOK'
  BY <1>4 DEF DirectoryInv, DirectoryTypeOK, Employees, Hired
<1>6. PositionsFit'
  BY <1>2 DEF DirectoryInv, DirectoryConsistent, PositionsFit
<1>7. SelectionsExist'
  BY <1>2, <1>3 DEF SelectionsExist
<1>8. QED
  BY <1>5, <1>6, <1>7 DEF DirectoryInv, DirectoryConsistent

\* A form is sent: what was selected is still there.
LEMMA HireStep ==
    ASSUME DirectoryInv, NEW e \in NewEmployee, HandleOnboardSubmit(e)
    PROVE  DirectoryInv'
<1> USE DEF HandleOnboardSubmit, AddEmployee, DirectoryInv
<1>1. /\ hires' \in [NewEmployee -> Post \cup {None}]
      /\ hires'[e] = formData /\ hires[e] = None
      /\ \A h \in NewEmployee : h # e => hires'[h] = hires[h]
  BY DEF DirectoryTypeOK
<1>2. DirectoryTypeOK'
  BY <1>1, FirstPost DEF DirectoryTypeOK
<1>3. Hired \subseteq Hired' /\ Hired' \subseteq Hired \cup {e} /\ e \notin Hired
  BY <1>1 DEF Hired
<1>4. PositionsFit'
  BY <1>1, <1>3, FirstPost DEF DirectoryConsistent, PositionsFit, Hired
<1>5. \A h \in Employees : h \in Employees' /\ Department(h)' = Department(h)
  BY <1>1, <1>3 DEF Employees, Department, Hired
<1>6. DepartmentsList \subseteq DepartmentsList'
  BY <1>5 DEF DepartmentsList
<1>7. SelectionsExist'
  BY <1>5, <1>6 DEF DirectoryConsistent, SelectionsExist
<1>8. QED
  BY <1>2, <1>4, <1>7 DEF DirectoryConsistent

\* Every step of the directory keeps its invariant.
LEMMA DirectoryPreserved ==
    ASSUME DirectoryInv, DirectoryStep
    PROVE  DirectoryInv'
<1>1. /\ onboarding \in BOOLEAN /\ formData \in Post
      /\ formData.position \in POSITIONS(formData.department)
      /\ selectedDepartment \in DepartmentsList \cup {"ALL"}
      /\ selectedEmployee \in Employees \cup {None}
  BY DEF DirectoryInv, DirectoryTypeOK, DirectoryConsistent, PositionsFit, SelectionsExist
<1>2. CASE OpenOnboarding \/ CloseOnboarding
  BY <1>1, <1>2, NobodyHired DEF OpenOnboarding, CloseOnboarding
<1>3. ASSUME NEW d \in Departments, HandleDepartmentChange(d)
      PROVE  DirectoryInv'
  <2>1. /\ formData' = [department |-> d, position |-> <<d, 1>>]
        /\ UNCHANGED <<hires, selectedDepartment, onboarding, selectedEmployee>>
    BY <1>3 DEF HandleDepartmentChange
  <2>2. formData' \in Post /\ formData'.position \in POSITIONS(formData'.department)
    BY <2>1, DirectoryAssumption DEF Post, POSITIONS
  <2>3. QED
    BY <1>1, <2>1, <2>2, NobodyHired
<1>4. ASSUME NEW d \in Departments, NEW p \in POSITIONS(d), SelectPosition(p)
      PROVE  DirectoryInv'
  <2>1. /\ p \in POSITIONS(formData.department)
        /\ formData' = [formData EXCEPT !.position = p]
        /\ UNCHANGED <<hires, selectedDepartment, onboarding, selectedEmployee>>
    BY <1>4 DEF SelectPosition
  <2>2. formData' \in Post /\ formData'.position \in POSITIONS(formData'.department)
    BY <1>1, <2>1 DEF Post, POSITIONS
  <2>3. QED
    BY <1>1, <2>1, <2>2, NobodyHired
<1>5. ASSUME NEW d, SelectFilter(d)
      PROVE  DirectoryInv'
  BY <1>1, <1>5, NobodyHired DEF SelectFilter
<1>6. ASSUME NEW e, ViewProfile(e)
      PROVE  DirectoryInv'
  <2>1. /\ e \in Employees /\ selectedEmployee' = e
        /\ UNCHANGED <<hires, selectedDepartment, onboarding, formData>>
    BY <1>6 DEF ViewProfile, FilteredEmployees
  <2>2. QED
    BY <1>1, <2>1, NobodyHired
<1>7. CASE CloseDrawer
  <2>1. selectedEmployee' = None /\ UNCHANGED <<hires, selectedDepartment, onboarding, formData>>
    BY <1>7 DEF CloseDrawer
  <2>2. QED
    BY <1>1, <2>1, NobodyHired
<1>8. CASE DirectoryEscape
  <2>1. /\ selectedEmployee' = None /\ onboarding' = FALSE
        /\ UNCHANGED <<hires, selectedDepartment, formData>>
    BY <1>8 DEF DirectoryEscape
  <2>2. QED
    BY <1>1, <2>1, NobodyHired
<1>9. QED
  BY <1>2, <1>3, <1>4, <1>5, <1>6, <1>7, <1>8, HireStep DEF DirectoryStep

-----------------------------------------------------------------------------
(* The payroll page.                                                       *)

LEMMA ConsoleBegins == ConsoleInit => ConsoleInv
BY ConsoleAssumption DEF ConsoleInit, ConsoleInv, ConsoleTypeOK, ProcessingHasTimer, NoTimer

\* The pending timers go with the page, or stay behind as timers of none.
LEMMA ConsoleLeft ==
    ASSUME ConsoleInv, LeaveConsolePage(AfterLeaving) \/ LeaveConsolePage(NoTimer)
    PROVE  ConsoleInv'
<1>1. /\ timers' \in [mounted : Nat, left : BOOLEAN] /\ timers'.mounted = 0
  <2>1. (timers.left \/ timers.mounted > 0) \in BOOLEAN
    OBVIOUS
  <2>2. AfterLeaving \in [mounted : Nat, left : BOOLEAN] /\ AfterLeaving.mounted = 0
    BY <2>1 DEF AfterLeaving
  <2>3. NoTimer \in [mounted : Nat, left : BOOLEAN] /\ NoTimer.mounted = 0
    BY DEF NoTimer
  <2>4. QED
    BY <2>2, <2>3 DEF LeaveConsolePage
<1>2. QED
  BY <1>1, ConsoleAssumption DEF LeaveConsolePage, ConsoleInv, ConsoleTypeOK, ProcessingHasTimer

\* What leaves the payroll console alone keeps its invariant.
LEMMA ConsoleKept == ConsoleInv /\ UNCHANGED consoleVars => ConsoleInv'
BY DEF consoleVars, ConsoleInv, ConsoleTypeOK, ProcessingHasTimer

\* Every step of the console, and its timer, keeps its invariant.
LEMMA ConsolePreserved ==
    ASSUME ConsoleInv, ConsoleStep \/ TimerFires
    PROVE  ConsoleInv'
<1> USE ConsoleAssumption DEF ConsoleInv, ConsoleTypeOK, ProcessingHasTimer
<1>1. ASSUME NEW p \in Period, SelectPeriod(p)
      PROVE  ConsoleInv'
  BY <1>1 DEF SelectPeriod
<1>2. CASE HandleExecutePayroll
  BY <1>2 DEF HandleExecutePayroll
<1>3. ASSUME NEW s \in Payslip, ViewPayslip(s)
      PROVE  ConsoleInv'
  BY <1>3 DEF ViewPayslip
<1>4. CASE ClosePayslip
  BY <1>4 DEF ClosePayslip
<1>5. CASE CompleteRun
  BY <1>5 DEF CompleteRun
<1>6. CASE CompleteLeft
  BY <1>6 DEF CompleteLeft
<1>7. QED
  BY <1>1, <1>2, <1>3, <1>4, <1>5, <1>6 DEF ConsoleStep, TimerFires

-----------------------------------------------------------------------------
\* The frame signed out, no page mounted.
LEMMA InitialState == Init => IInv
<1> SUFFICES ASSUME Init PROVE IInv
  OBVIOUS
<1>1. FrameTypeOK
  BY DEF Init, FrameTypeOK
<1>2. QED
  BY <1>1, StudioBegins, DirectoryBegins, ConsoleBegins DEF Init, IInv

\* The frame and the pages keep their invariants whichever of them moves.
LEMMA InvariantStep == IInv /\ [Next]_vars => IInv'
<1> SUFFICES ASSUME IInv, [Next]_vars PROVE IInv'
  OBVIOUS
<1> USE DEF IInv
<1>1. CASE FrameStep
  <2>1. FrameTypeOK'
    BY <1>1, FrameTyped
  <2>2. CASE UNCHANGED studioVars /\ UNCHANGED directoryVars /\ UNCHANGED consoleVars
    BY <2>1, <2>2, StudioKept, DirectoryKept, ConsoleKept
  <2>3. CASE LeaveStudioPage /\ LeaveDirectoryPage
             /\ (LeaveConsolePage(AfterLeaving) \/ LeaveConsolePage(NoTimer))
    BY <2>1, <2>3, StudioLeft, DirectoryLeft, ConsoleLeft
  <2>4. QED
    BY <1>1, <2>2, <2>3, FrameOnly
<1>2. CASE StudioStep
  BY <1>2, StudioPreserved, DirectoryKept, ConsoleKept, FrameTyped DEF StudioStep
<1>3. CASE DirectoryStep
  BY <1>3, DirectoryPreserved, StudioKept, ConsoleKept, FrameTyped DEF DirectoryStep
<1>4. CASE ConsoleStep
  BY <1>4, ConsolePreserved, StudioKept, DirectoryKept, FrameTyped DEF ConsoleStep
<1>5. CASE TimerFires
  BY <1>5, ConsolePreserved, StudioKept, DirectoryKept, FrameTyped DEF TimerFires
<1>6. CASE UNCHANGED vars
  <2>1. /\ UNCHANGED studioVars /\ UNCHANGED directoryVars /\ UNCHANGED consoleVars
        /\ UNCHANGED frameVars
    BY <1>6 DEF vars, studioVars, directoryVars, consoleVars, frameVars
  <2>2. QED
    BY <2>1, StudioKept, DirectoryKept, ConsoleKept, FrameTyped
<1>7. QED
  BY <1>1, <1>2, <1>3, <1>4, <1>5, <1>6 DEF Next, FrameStep

\* The inductive invariant: each page fits the frame, its dialogs and its timers.
THEOREM InvariantHolds == Spec => []IInv
BY InitialState, InvariantStep, PTL DEF Spec

\* Type correctness of the frame and its three pages.
THEOREM TypeCorrect == Spec => []TypeOK
<1>1. IInv => TypeOK
  BY DEF IInv, StudioInv, DirectoryInv, ConsoleInv, FrameTypeOK, TypeOK
<1>2. QED
  BY <1>1, InvariantHolds, PTL

\* Positions fit departments, and what is selected in the directory is there.
THEOREM DirectoryStaysConsistent == Spec => []DirectoryConsistent
<1>1. IInv => DirectoryConsistent
  BY DEF IInv, DirectoryInv
<1>2. QED
  BY <1>1, InvariantHolds, PTL

\* The payroll page shows a run as processing exactly while its timer is pending.
THEOREM ProcessingIsTimed == Spec => []ProcessingHasTimer
<1>1. IInv => ProcessingHasTimer
  BY DEF IInv, ConsoleInv
<1>2. QED
  BY <1>1, InvariantHolds, PTL

-----------------------------------------------------------------------------
(* The meters of the leave page.                                           *)

SubmittedHere == {id \in NewRequest : board[id] # None}

\* The days on the cards of the given requests.
TotalDays(S) == SumFunction([id \in S |-> board[id].totalDays])

CardsMatch ==
    \A id \in NewRequest :
        board[id] # None => board[id].totalDays = CalculatedDays(board[id].start, board[id].end)

\* A step keeps what the request asks for.
SameLeave(id) == /\ board'[id].category = board[id].category
                 /\ board'[id].start = board[id].start
                 /\ board'[id].end = board[id].end
                 /\ board'[id].totalDays = board[id].totalDays

MetersMatch ==
    \A c \in Category : pendingDays[c] = InitialPending[c] + TotalDays(Submitted(c))

\* The cards match what was announced, and the meters the cards, of which there are
\* finitely many at any time, however many ids there are.
PendingInv == IsFiniteSet(SubmittedHere) /\ CardsMatch /\ MetersMatch

\* The days submitted in a category are a sum over its requests.
LEMMA SubmittedDays ==
    ASSUME NEW c
    PROVE  TotalDays(Submitted(c)) =
             SumFunctionOnSet([id \in Submitted(c) |-> board[id].totalDays], Submitted(c))
BY DEF TotalDays, SumFunction

\* The page and the dialog count a range that the dialog accepts alike.
LEMMA CountsAgree ==
    ASSUME NEW a \in Application, ValidApplication(a)
    PROVE  DiffDays(a.start, a.end) = CalculatedDays(a.start, a.end)
<1>1. a.start \in Nat /\ a.end \in Nat
  BY StudioAssumption DEF Application
<1>2. QED
  BY <1>1 DEF ValidApplication, DiffDays, CalculatedDays

\* While the cards match, the days on them are those that were announced.
LEMMA PendingSuffices == PendingInv => PendingMatchesRequests
<1> SUFFICES ASSUME PendingInv PROVE PendingMatchesRequests
  OBVIOUS
<1>1. ASSUME NEW c \in Category
      PROVE  pendingDays[c] = InitialPending[c] + AnnouncedDays(Submitted(c))
  <2>1. [id \in Submitted(c) |-> board[id].totalDays] =
        [id \in Submitted(c) |-> CalculatedDays(board[id].start, board[id].end)]
    BY DEF PendingInv, CardsMatch, Submitted
  <2>2. TotalDays(Submitted(c)) = AnnouncedDays(Submitted(c))
    BY <2>1 DEF TotalDays, AnnouncedDays
  <2>3. QED
    BY <2>2 DEF PendingInv, MetersMatch
<1>2. QED
  BY <1>1 DEF PendingMatchesRequests, PendingInv, CardsMatch

\* The sample requests are not counted: a fresh page has submitted nothing.
LEMMA PendingBegins ==
    ASSUME board = InitialRequests, pendingDays = InitialPending
    PROVE  PendingInv
<1>1. \A id \in NewRequest : board[id] = None
  BY StudioAssumption DEF InitialRequests, RequestId
<1>2. SubmittedHere = {} /\ \A c \in Category : Submitted(c) = {}
  BY <1>1 DEF SubmittedHere, Submitted
<1>3. ASSUME NEW c \in Category
      PROVE  pendingDays[c] = InitialPending[c] + TotalDays(Submitted(c))
  <2>1. TotalDays(Submitted(c)) = 0
    BY <1>2, SumEmpty, SubmittedDays
  <2>2. pendingDays[c] \in Nat /\ pendingDays[c] = InitialPending[c]
    BY Board
  <2>3. QED
    BY <2>1, <2>2
<1>4. QED
  BY <1>1, <1>2, <1>3, FS_EmptySet DEF PendingInv, CardsMatch, MetersMatch

\* A page that is left shows its sample applications and their meters again.
LEMMA PendingLeft == LeaveStudioPage => PendingInv'
<1> SUFFICES ASSUME LeaveStudioPage PROVE PendingInv'
  OBVIOUS
<1>1. \A id \in NewRequest : board'[id] = None
  BY StudioAssumption DEF LeaveStudioPage, InitialRequests, RequestId
<1>2. SubmittedHere' = {} /\ \A c \in Category : Submitted(c)' = {}
  BY <1>1 DEF SubmittedHere, Submitted
<1>3. ASSUME NEW c \in Category
      PROVE  pendingDays'[c] = InitialPending[c] + TotalDays(Submitted(c))'
  <2>1. TotalDays(Submitted(c))' = 0
    BY <1>2, SumEmpty DEF TotalDays, SumFunction
  <2>2. pendingDays'[c] \in Nat /\ pendingDays'[c] = InitialPending[c]
    BY Board DEF LeaveStudioPage
  <2>3. QED
    BY <2>1, <2>2
<1>4. QED
  BY <1>1, <1>2, <1>3, FS_EmptySet DEF PendingInv, CardsMatch, MetersMatch

\* A submission adds one request to its category, with the days it books.
LEMMA PendingApply ==
    ASSUME StudioInv, PendingInv, NEW id \in NewRequest, NEW a \in Application,
           HandleApplySubmit(id, a)
    PROVE  PendingInv'
<1> DEFINE days == DiffDays(a.start, a.end)
<1>1. a.category \in Category /\ a.start \in Nat /\ a.end \in Nat /\ days \in Nat
  <2>1. a.category \in Category /\ a.start \in Nat /\ a.end \in Nat
    BY StudioAssumption DEF Application
  <2>2. QED
    BY <2>1 DEF DiffDays
<1>2. /\ board[id] = None
      /\ board'[id] = [status |-> "SUBMITTED", category |-> a.category, start |-> a.start,
                       end |-> a.end, totalDays |-> days]
      /\ \A r \in NewRequest : r # id => board'[r] = board[r]
  BY DEF HandleApplySubmit, AddRequest, StudioInv, StudioTypeOK, RequestId
<1>3. board'[id] \in RequestRow /\ board'[id] # None
  BY <1>1, <1>2, RowAssumption DEF RequestRow, LeaveStatus
<1>4. /\ board'[id].category = a.category /\ board'[id].totalDays = days
      /\ board'[id].start = a.start /\ board'[id].end = a.end
  BY <1>2
<1>5. /\ pendingDays'[a.category] = pendingDays[a.category] + days
      /\ \A c \in Category : c # a.category => pendingDays'[c] = pendingDays[c]
  BY <1>1 DEF HandleApplySubmit, AddRequest, StudioInv, StudioTypeOK
<1>10. days = CalculatedDays(a.start, a.end)
  BY CountsAgree DEF HandleApplySubmit, AddRequest
<1> HIDE DEF days
<1>6. SubmittedHere' = SubmittedHere \cup {id}
  BY <1>2, <1>3 DEF SubmittedHere
<1>7. ASSUME NEW c \in Category
      PROVE  pendingDays'[c] = InitialPending[c] + TotalDays(Submitted(c))'
  <2> DEFINE S == Submitted(c)
             f == [r \in S |-> board[r].totalDays]
             T == Submitted(c)'
             g == [r \in T |-> board'[r].totalDays]
  <2>1. IsFiniteSet(S)
    <3>1. S \subseteq SubmittedHere
      BY DEF Submitted, SubmittedHere
    <3>2. QED
      BY <3>1, FS_Subset DEF PendingInv
  <2>2. \A r \in S : f[r] \in Nat /\ r # id
    BY <1>2 DEF Submitted, StudioInv, StudioTypeOK, RequestRow, RequestId
  <2>3. pendingDays[c] = InitialPending[c] + SumFunctionOnSet(f, S)
    BY SubmittedDays DEF PendingInv, MetersMatch
  <2>4. TotalDays(Submitted(c))' = SumFunctionOnSet(g, T)
    BY DEF TotalDays, SumFunction
  <2>5. InitialPending[c] \in Nat /\ SumFunctionOnSet(f, S) \in Nat
    <3> HIDE DEF S, f
    <3>1. QED
      BY <2>1, <2>2, Board, SumType
  <2>6. CASE c = a.category
    <3>1. T = S \cup {id}
      BY <1>2, <1>3, <1>4, <2>6 DEF Submitted
    <3>2. g[id] = days /\ \A r \in S : f[r] \in Nat /\ f[r] = g[r]
      BY <1>2, <1>4, <2>2, <3>1 DEF Submitted
    <3>3. id \notin S
      BY <2>2
    <3> HIDE DEF S, T, f, g
    <3>4. SumFunctionOnSet(g, S \cup {id}) = SumFunctionOnSet(f, S) + g[id]
      BY <1>1, <2>1, <3>2, <3>3, SumExtend
    <3>5. QED
      BY <1>1, <1>5, <2>3, <2>4, <2>5, <2>6, <3>1, <3>2, <3>4
  <2>7. CASE c # a.category
    <3>1. T = S
      BY <1>2, <1>4, <2>7 DEF Submitted
    <3>2. \A r \in S : f[r] \in Nat /\ f[r] = g[r]
      BY <1>2, <2>2, <3>1 DEF Submitted
    <3> HIDE DEF S, T, f, g
    <3>3. SumFunctionOnSet(f, S) = SumFunctionOnSet(g, S)
      BY <2>1, <3>2, SumSame
    <3>4. QED
      BY <1>5, <2>3, <2>4, <2>7, <3>1, <3>3
  <2>8. QED
    BY <2>6, <2>7
<1>8. IsFiniteSet(SubmittedHere')
  BY <1>6, FS_AddElement DEF PendingInv
<1>11. CardsMatch'
  BY <1>2, <1>4, <1>10 DEF PendingInv, CardsMatch
<1>9. QED
  BY <1>7, <1>8, <1>11 DEF PendingInv, MetersMatch

\* A step that leaves the meters, and every request's category, dates and days, leaves
\* the sums.
LEMMA PendingKept ==
    ASSUME StudioInv, PendingInv, UNCHANGED pendingDays,
           \A id \in NewRequest :
               /\ board'[id] = None <=> board[id] = None
               /\ board[id] # None => SameLeave(id)
    PROVE  PendingInv'
<1>1. SubmittedHere' = SubmittedHere
  BY DEF SubmittedHere
<1>2. ASSUME NEW c \in Category
      PROVE  pendingDays'[c] = InitialPending[c] + TotalDays(Submitted(c))'
  <2>1. Submitted(c)' = Submitted(c)
    BY DEF Submitted, SameLeave
  <2>2. [r \in Submitted(c)' |-> board'[r].totalDays] =
        [r \in Submitted(c) |-> board[r].totalDays]
    BY <2>1 DEF Submitted, SameLeave
  <2>3. TotalDays(Submitted(c))' = TotalDays(Submitted(c))
    BY <2>1, <2>2 DEF TotalDays
  <2>4. QED
    BY <2>3 DEF PendingInv, MetersMatch
<1>3. CardsMatch'
  BY DEF PendingInv, CardsMatch, SameLeave
<1>4. QED
  BY <1>1, <1>2, <1>3 DEF PendingInv, MetersMatch

\* Every step keeps the meters equal to the days of the applications of this visit.
LEMMA PendingStep == IInv /\ PendingInv /\ [Next]_vars => PendingInv'
<1> SUFFICES ASSUME IInv, PendingInv, [Next]_vars PROVE PendingInv'
  OBVIOUS
<1>1. StudioInv
  BY DEF IInv
<1>2. CASE UNCHANGED <<board, pendingDays>>
  BY <1>1, <1>2, PendingKept DEF SameLeave
<1>3. CASE LeaveStudioPage
  BY <1>3, PendingLeft
<1>4. ASSUME NEW id \in NewRequest, NEW a \in Application, HandleApplySubmit(id, a)
      PROVE  PendingInv'
  BY <1>1, <1>4, PendingApply
<1>5. CASE HandleDecisionSubmit
  <2>1. /\ reviewed # None /\ reviewed.id \in RequestId
        /\ board'[reviewed.id] = [board[reviewed.id] EXCEPT !.status = Outcome(decision)]
        /\ \A r \in RequestId : r # reviewed.id => board'[r] = board[r]
    BY <1>1, <1>5, DecisionStep
  <2>2. board[reviewed.id] \in RequestRow
    BY <1>1, <2>1 DEF StudioInv, StudioTypeOK, ReviewInv
  <2>3. SameLeave(reviewed.id)
    BY <2>1, <2>2 DEF RequestRow, SameLeave
  <2>4. board'[reviewed.id] # None
    <3>1. Outcome(decision) \in LeaveStatus
      BY <1>1 DEF StudioInv, StudioTypeOK, Outcome, Decision, LeaveStatus
    <3>2. board'[reviewed.id] \in RequestRow
      BY <2>1, <2>2, <3>1 DEF RequestRow
    <3>3. QED
      BY <3>2, RowAssumption
  <2>5. UNCHANGED pendingDays
    BY <1>5 DEF HandleDecisionSubmit
  <2>6. ASSUME NEW id \in NewRequest
        PROVE  /\ board'[id] = None <=> board[id] = None
               /\ board[id] # None => SameLeave(id)
    <3>1. id \in RequestId
      BY DEF RequestId
    <3>2. CASE id = reviewed.id
      BY <2>2, <2>3, <2>4, <3>2, RowAssumption
    <3>3. CASE id # reviewed.id
      BY <2>1, <3>1, <3>3 DEF SameLeave
    <3>4. QED
      BY <3>2, <3>3
  <2>7. QED
    BY <1>1, <2>5, <2>6, PendingKept
<1>6. CASE FrameStep
  BY <1>2, <1>3, <1>6, FrameOnly DEF studioVars
<1>7. CASE StudioStep
  <2>1. UNCHANGED <<board, pendingDays>> \/ HandleDecisionSubmit
        \/ \E id \in NewRequest, a \in Application : HandleApplySubmit(id, a)
    BY <1>7 DEF StudioStep, OpenApplication, CloseApplication, OpenReview, SelectDecision,
                CloseReview, StudioEscape
  <2>2. QED
    BY <1>2, <1>4, <1>5, <2>1
<1>8. CASE DirectoryStep \/ ConsoleStep \/ TimerFires \/ UNCHANGED vars
  BY <1>2, <1>8 DEF DirectoryStep, ConsoleStep, TimerFires, vars, studioVars
<1>9. QED
  BY <1>6, <1>7, <1>8 DEF Next, FrameStep

\* The pending days of a category are always the initial ones and the days that were
\* announced for the requests submitted in it, and each card shows its own, whatever was
\* decided about them, dialogs cancelled or pages left.
THEOREM PendingIsCounted == Spec => []PendingMatchesRequests
<1>1. Init => PendingInv
  BY PendingBegins DEF Init, StudioInit
<1>2. QED
  BY <1>1, PendingSuffices, PendingStep, InvariantHolds, PTL DEF Spec

\* A request moves along the board only as the dialog offered.
THEOREM DecisionsAreOffered == Spec => DecidedAsOffered
<1> DEFINE Moved(id) == /\ page' = "leaves" /\ page = "leaves" /\ roles' # None
                        /\ board[id] # None /\ board'[id] # board[id]
           Offered(id) == /\ Options(board[id].status) # {}
                          /\ chosen => \E d \in Options(board[id].status) :
                                           board'[id] = [board[id] EXCEPT !.status = Outcome(d)]
<1>1. ASSUME IInv, [Next]_vars, NEW id \in RequestId, Moved(id)
      PROVE  Offered(id)
  <2>1. board' # board
    BY <1>1
  <2>2. CASE FrameStep
    <3>1. ~LeaveStudioPage
      BY <1>1, <2>1, <2>2 DEF FrameStep, SignIn, Hydrate, RedirectToLogin, HandleLogout, Reload,
                              Navigate, SetActiveRole, studioVars
    <3>2. QED
      BY <2>1, <2>2, <3>1, FrameOnly DEF studioVars
  <2>3. CASE HandleDecisionSubmit
    <3>1. /\ reviewed # None /\ reviewed.id = id
          /\ board'[id] = [board[id] EXCEPT !.status = Outcome(decision)]
      BY <1>1, <2>3, DecisionStep DEF IInv
    <3>2. /\ reviewed.status = board[id].status
          /\ Options(reviewed.status) # {}
          /\ chosen => decision \in Options(reviewed.status)
      BY <1>1, <3>1 DEF IInv, StudioInv, ReviewInv
    <3>3. QED
      BY <3>1, <3>2
  <2>4. ASSUME NEW n \in NewRequest, NEW a \in Application, HandleApplySubmit(n, a)
        PROVE  FALSE
    BY <1>1, <2>4 DEF HandleApplySubmit, AddRequest, IInv, StudioInv, StudioTypeOK
  <2>5. CASE StudioStep
    <3>1. UNCHANGED board \/ HandleDecisionSubmit
      BY <2>4, <2>5 DEF StudioStep, OpenApplication, CloseApplication, OpenReview, SelectDecision,
                        CloseReview, StudioEscape
    <3>2. QED
      BY <2>1, <2>3, <3>1
  <2>6. CASE DirectoryStep \/ ConsoleStep \/ TimerFires \/ UNCHANGED vars
    BY <2>1, <2>6 DEF DirectoryStep, ConsoleStep, TimerFires, vars, studioVars
  <2>7. QED
    BY <1>1, <2>2, <2>5, <2>6 DEF Next, FrameStep
<1>2. IInv /\ [Next]_vars => [\A id \in RequestId : Moved(id) => Offered(id)]_vars
  BY <1>1
<1>3. QED
  BY <1>2, InvariantHolds, PTL DEF Spec, DecidedAsOffered
=============================================================================

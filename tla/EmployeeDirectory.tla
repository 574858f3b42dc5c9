-------------------------- MODULE EmployeeDirectory --------------------------
(***************************************************************************)
(* employees/page.tsx with OnboardingModal and EmployeeDrawer: the list of *)
(* employees, its department filter, the onboarding form.  Sample data, no *)
(* service; no Next: Workspace mounts it.                                  *)
(*                                                                         *)
(* The search text, the status filter and the table or grid choice narrow  *)
(* or lay out the same list and are left out, as are the contact fields of *)
(* the form.  A department offers the positions <<d, 1>>, <<d, 2>>, ...,   *)
(* the first of which is preselected.                                      *)
(***************************************************************************)
EXTENDS Naturals, FiniteSets, WebPage

CONSTANTS Departments,      \* DEPARTMENTS of the onboarding form
          DefaultDepartment,\* the first of them
          SampleEmployee,   \* bound: the employees of INITIAL_EMPLOYEES
          SampleDepartment, \* their departments: a function
          NewEmployee,      \* bound: ids of those onboarded on the page
          PositionCount     \* bound: positions of a department

ASSUME DirectoryAssumption ==
    /\ DefaultDepartment \in Departments
    /\ SampleDepartment \in [SampleEmployee -> Departments]
    /\ PositionCount \in Nat \ {0}
    /\ SampleEmployee \cap NewEmployee = {}
    /\ None \notin Departments \cup SampleEmployee \cup NewEmployee

VARIABLES hires,               \* the employees onboarded: [department, position], or None
          selectedDepartment,  \* the filter, or "ALL"
          onboarding,          \* isOnboardingOpen
          formData,            \* department and position of the form
          selectedEmployee     \* of the drawer

directoryVars == <<hires, selectedDepartment, onboarding, formData, selectedEmployee>>

POSITIONS(d) == {<<d, i>> : i \in 1..PositionCount}
Post == [department : Departments, position : Departments \X (1..PositionCount)]
InitialForm == [department |-> DefaultDepartment, position |-> <<DefaultDepartment, 1>>]

Hired == {e \in NewEmployee : hires[e] # None}
Employees == SampleEmployee \cup Hired
Department(e) == IF e \in SampleEmployee THEN SampleDepartment[e] ELSE hires[e].department
DepartmentsList == {Department(e) : e \in Employees}
FilteredEmployees == {e \in Employees : selectedDepartment \in {"ALL", Department(e)}}

DirectoryTypeOK ==
    /\ hires \in [NewEmployee -> Post \cup {None}]
    /\ selectedDepartment \in Departments \cup {"ALL"}
    /\ onboarding \in BOOLEAN
    /\ formData \in Post
    /\ selectedEmployee \in SampleEmployee \cup NewEmployee \cup {None}

DirectoryInit ==
    /\ hires = [e \in NewEmployee |-> None]
    /\ selectedDepartment = "ALL"
    /\ onboarding = FALSE
    /\ formData = InitialForm
    /\ selectedEmployee = None

\* The page is left: its state is discarded.
LeaveDirectoryPage ==
    /\ hires' = [e \in NewEmployee |-> None]
    /\ selectedDepartment' = "ALL"
    /\ onboarding' = FALSE
    /\ formData' = InitialForm
    /\ selectedEmployee' = None

-----------------------------------------------------------------------------
\* Closing the dialog keeps what its form holds.
OpenOnboarding ==
    /\ onboarding' = TRUE
    /\ UNCHANGED <<hires, selectedDepartment, formData, selectedEmployee>>

CloseOnboarding ==
    /\ onboarding
    /\ onboarding' = FALSE
    /\ UNCHANGED <<hires, selectedDepartment, formData, selectedEmployee>>

HandleDepartmentChange_KeepsPosition(d) ==
    /\ onboarding
    /\ formData' = [formData EXCEPT !.department = d]
    /\ UNCHANGED <<hires, selectedDepartment, onboarding, selectedEmployee>>

HandleDepartmentChange(d) ==
    /\ onboarding
    /\ formData' = [department |-> d, position |-> <<d, 1>>]
    /\ UNCHANGED <<hires, selectedDepartment, onboarding, selectedEmployee>>

SelectPosition(p) ==
    /\ onboarding
    /\ p \in POSITIONS(formData.department)
    /\ formData' = [formData EXCEPT !.position = p]
    /\ UNCHANGED <<hires, selectedDepartment, onboarding, selectedEmployee>>

\* The page's part of a submission: the employee is added to the directory.
AddEmployee(e) == hires[e] = None /\ hires' = [hires EXCEPT ![e] = formData]

\* With valid contact fields and salary the employee is added, the form reset and
\* the dialog closed.
HandleOnboardSubmit(e) ==
    /\ onboarding
    /\ AddEmployee(e)
    /\ formData' = InitialForm
    /\ onboarding' = FALSE
    /\ UNCHANGED <<selectedDepartment, selectedEmployee>>

SelectFilter(d) ==
    /\ d \in DepartmentsList \cup {"ALL"}
    /\ selectedDepartment' = d
    /\ UNCHANGED <<hires, onboarding, formData, selectedEmployee>>

ViewProfile(e) ==
    /\ e \in FilteredEmployees
    /\ selectedEmployee' = e
    /\ UNCHANGED <<hires, selectedDepartment, onboarding, formData>>

CloseDrawer ==
    /\ selectedEmployee # None
    /\ selectedEmployee' = None
    /\ UNCHANGED <<hires, selectedDepartment, onboarding, formData>>

\* The drawer and the dialog both listen to the Escape key.
DirectoryEscape ==
    /\ onboarding \/ selectedEmployee # None
    /\ onboarding' = FALSE
    /\ selectedEmployee' = None
    /\ UNCHANGED <<hires, selectedDepartment, formData>>

-----------------------------------------------------------------------------
\* The position of every employee onboarded here, and that in the form, is one
\* of its department, across department changes, cancelled and sent forms.
PositionsFit ==
    /\ formData.position \in POSITIONS(formData.department)
    /\ \A e \in Hired : hires[e].position \in POSITIONS(hires[e].department)

\* A department filter is one the dropdown lists, so that somebody has it, and
\* the profile in the drawer is one of the directory.
SelectionsExist ==
    /\ selectedDepartment \in DepartmentsList \cup {"ALL"}
    /\ selectedEmployee \in Employees \cup {None}

\* What the page relates across its parts.
DirectoryConsistent == PositionsFit /\ SelectionsExist
=============================================================================

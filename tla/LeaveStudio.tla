----------------------------- MODULE LeaveStudio -----------------------------
(***************************************************************************)
(* leaves/page.tsx with its two dialogs, LeaveRequestModal and             *)
(* ApprovalDecisionModal: the board of requests, who is offered a review,  *)
(* and what a confirmed decision writes.  The page works on sample data and*)
(* calls no service.  It has no Next: Workspace mounts it.                 *)
(*                                                                         *)
(* Neither dialog keeps the keyboard focus inside, so while one is open the*)
(* buttons behind it can still be pressed.  Comments, names and reasons are*)
(* left out; a date is the number of its day in 2026; allocatedDays and    *)
(* usedDays never change.                                                  *)
(***************************************************************************)
EXTENDS Naturals, FiniteSets, Functions, WebPage

CONSTANTS Sample,       \* bound: which of the four sample requests the board has
          NewRequest,   \* bound: ids of the requests submitted on the page
          Category,     \* LEAVE_CATEGORY
          Date          \* days that can be picked

ASSUME StudioAssumption ==
    /\ Sample \subseteq {"lvr-501", "lvr-502", "lvr-503", "lvr-504"}
    /\ {"VACATION", "SICK"} \subseteq Category
    /\ Date \subseteq Nat
    /\ None \notin Sample \cup NewRequest
    /\ NewRequest \cap {"lvr-501", "lvr-502", "lvr-503", "lvr-504"} = {}

VARIABLES board,        \* requests: their rows by id, None: not there
          pendingDays,  \* balances
          applying,     \* isApplyModalOpen
          reviewed,     \* selectedDecisionRequest: [id, status], None: no dialog
          decision,     \* selectedDecision of the dialog, which stays mounted
          chosen        \* history: picked since the dialog was opened

studioVars == <<board, pendingDays, applying, reviewed, decision, chosen>>

LeaveStatus == {"SUBMITTED", "MANAGER_APPROVED", "HR_VERIFIED", "PAYROLL_LOCKED", "REJECTED"}
Decision == {"APPROVE", "VERIFY", "LOCK", "REJECT"}
RequestId == Sample \cup NewRequest

\* A request as the board keeps it.
RequestRow == [status : LeaveStatus, category : Category, start : Nat, end : Nat,
               totalDays : Nat]

ASSUME RowAssumption == None \notin RequestRow

\* What the application dialog's form can hold when it is sent.
Application == [category : Category, start : Date, end : Date]

SampleRow(status, category, start, end, days) ==
    [status |-> status, category |-> category, start |-> start, end |-> end, totalDays |-> days]

InitialRequests ==
    [id \in RequestId |->
        CASE id = "lvr-501" -> SampleRow("SUBMITTED", "VACATION", 263, 268, 5)
          [] id = "lvr-502" -> SampleRow("MANAGER_APPROVED", "SICK", 258, 259, 2)
          [] id = "lvr-503" -> SampleRow("HR_VERIFIED", "VACATION", 244, 248, 5)
          [] id = "lvr-504" -> SampleRow("PAYROLL_LOCKED", "VACATION", 222, 227, 5)
          [] OTHER          -> None]

InitialPending == [c \in Category |-> IF c = "VACATION" THEN 5 ELSE 0]

StudioTypeOK ==
    /\ board \in [RequestId -> RequestRow \cup {None}]
    /\ pendingDays \in [Category -> Nat]
    /\ applying \in BOOLEAN
    /\ reviewed \in [id : RequestId, status : LeaveStatus] \cup {None}
    /\ decision \in Decision
    /\ chosen \in BOOLEAN

StudioInit ==
    /\ board = InitialRequests
    /\ pendingDays = InitialPending
    /\ applying = FALSE
    /\ reviewed = None
    /\ decision = "APPROVE"
    /\ chosen = FALSE

\* The page is left: its state is discarded.
LeaveStudioPage ==
    /\ board' = InitialRequests
    /\ pendingDays' = InitialPending
    /\ applying' = FALSE
    /\ reviewed' = None
    /\ decision' = "APPROVE"
    /\ chosen' = FALSE

-----------------------------------------------------------------------------
OpenApplication ==
    /\ applying' = TRUE
    /\ UNCHANGED <<board, pendingDays, reviewed, decision, chosen>>

CloseApplication ==
    /\ applying
    /\ applying' = FALSE
    /\ UNCHANGED <<board, pendingDays, reviewed, decision, chosen>>

\* The dialog's preview, 0 when the range is not one.
CalculatedDays(start, end) == IF end < start THEN 0 ELSE end - start + 1

\* A deviation: the page does not count the last day, as the dialog does.
DiffDays_LastDayFree(start, end) == IF end > start THEN end - start ELSE 1

\* The page's own count of the days.
DiffDays(start, end) == IF end + 1 > start THEN end + 1 - start ELSE 1

\* The dialog refuses an empty reason or range.
ValidApplication(a) == CalculatedDays(a.start, a.end) > 0

\* The application becomes a request in front of the others, with the page's count,
\* which is also booked as pending in its category, and the dialog closes.
AddRequest(id, a, days) ==
    /\ applying
    /\ ValidApplication(a)
    /\ board[id] = None
    /\ board' = [board EXCEPT ![id] = [status |-> "SUBMITTED", category |-> a.category,
                                       start |-> a.start, end |-> a.end, totalDays |-> days]]
    /\ pendingDays' = [pendingDays EXCEPT ![a.category] = @ + days]
    /\ applying' = FALSE
    /\ UNCHANGED <<reviewed, decision, chosen>>

HandleApplySubmit(id, a) == AddRequest(id, a, DiffDays(a.start, a.end))

-----------------------------------------------------------------------------
\* The board: a column for each status but REJECTED, and the cards in it.
KanbanColumns == {"SUBMITTED", "MANAGER_APPROVED", "HR_VERIFIED", "PAYROLL_LOCKED"}
ColumnRequests(col) == {id \in RequestId : board[id] # None /\ board[id].status = col}

\* The roles that see a review button on the cards of a column.
Reviewer(col) ==
    CASE col = "SUBMITTED"        -> {"LINE_MANAGER", "ADMIN"}
      [] col = "MANAGER_APPROVED" -> {"HR_MANAGER", "ADMIN"}
      [] col = "HR_VERIFIED"      -> {"HR_MANAGER", "ADMIN"}
      [] OTHER                    -> {}

\* The decisions the dialog lists for a request.
Options(status) ==
    CASE status = "SUBMITTED"        -> {"APPROVE", "REJECT"}
      [] status = "MANAGER_APPROVED" -> {"VERIFY", "REJECT"}
      [] status = "HR_VERIFIED"      -> {"LOCK"}
      [] OTHER                       -> {}

Outcome_AsNamed(d) == d

Outcome(d) ==
    CASE d = "APPROVE" -> "MANAGER_APPROVED"
      [] d = "VERIFY"  -> "HR_VERIFIED"
      [] d = "LOCK"    -> "PAYROLL_LOCKED"
      [] d = "REJECT"  -> "REJECTED"

OpenReview(id, role) ==
    /\ \E col \in KanbanColumns : id \in ColumnRequests(col) /\ role \in Reviewer(col)
    /\ reviewed' = [id |-> id, status |-> board[id].status]
    /\ chosen' = FALSE
    /\ UNCHANGED <<board, pendingDays, applying, decision>>

\* The decision dialog is displayed.
Reviewing == reviewed # None

SelectDecision(d) ==
    /\ Reviewing
    /\ d \in Options(reviewed.status)
    /\ decision' = d
    /\ chosen' = TRUE
    /\ UNCHANGED <<board, pendingDays, applying, reviewed>>

CloseReview ==
    /\ Reviewing
    /\ reviewed' = None
    /\ chosen' = FALSE
    /\ UNCHANGED <<board, pendingDays, applying, decision>>

\* Each open dialog listens to the Escape key, so one press closes both.
StudioEscape ==
    /\ applying \/ Reviewing
    /\ applying' = FALSE
    /\ reviewed' = None
    /\ chosen' = FALSE
    /\ UNCHANGED <<board, pendingDays, decision>>

\* The page's part of a decision: the request gets the status the decision names.
Decide(id, d) == board' = [board EXCEPT ![id].status = Outcome(d)]

\* A deviation: the dialog stays open.
HandleDecisionSubmit_StaysOpen ==
    /\ Reviewing
    /\ Decide(reviewed.id, decision)
    /\ UNCHANGED <<pendingDays, applying, reviewed, decision, chosen>>

\* Confirm sends the selected decision, one of an earlier dialog included.
HandleDecisionSubmit ==
    /\ Reviewing
    /\ Decide(reviewed.id, decision)
    /\ reviewed' = None
    /\ chosen' = FALSE
    /\ UNCHANGED <<pendingDays, applying, decision>>

-----------------------------------------------------------------------------
Submitted(c) == {id \in NewRequest : board[id] # None /\ board[id].category = c}

\* The days the dialog announced to the applicants of the given requests.
AnnouncedDays(S) == SumFunction([id \in S |-> CalculatedDays(board[id].start, board[id].end)])

\* The dialog and the page each count the days of an application, in code of their
\* own: a card shows what its applicant was told, and the meters book the sum of
\* it, each submitted request once, whatever is then decided on the board.
PendingMatchesRequests ==
    /\ \A id \in NewRequest :
          board[id] # None => board[id].totalDays = CalculatedDays(board[id].start, board[id].end)
    /\ \A c \in Category : pendingDays[c] = InitialPending[c] + AnnouncedDays(Submitted(c))
=============================================================================

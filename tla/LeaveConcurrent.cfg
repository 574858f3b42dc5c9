\* Two overlapping calls, one leave type.
CONSTANTS
    Handlers = {h1, h2}
    Requests = {q1, q2}
    BalanceRows = {r1, r2}
    LeaveTypes = {annual}
    DayCounts = {1, 2}
    MaxDecisions = 2
    None = None
    DefaultDays <- MCDefaultDays
SYMMETRY MCSymmetry
SPECIFICATION Spec
INVARIANTS
    TypeOK
    VerifiedOnlyAfterApproval
    StatusBackedByDecision
    OutboxMatchesHistory
    CallsBacked
    UsedNeverOverstated

\* One call at a time, with aborts; two leave types, three requests, a balance row to spare.
CONSTANTS
    Handlers = {h1}
    Requests = {q1, q2, q3}
    BalanceRows = {r1, r2, r3}
    LeaveTypes = {annual, sick}
    DayCounts = {1, 2}
    MaxDecisions = 4
    None = None
    DefaultDays <- MCDefaultDays
SYMMETRY MCSymmetry
SPECIFICATION Spec
INVARIANTS
    OneRowPerType
    NeverOverAllocated
    LedgerMatchesHistory
PROPERTY
    StatusFollowsGuards

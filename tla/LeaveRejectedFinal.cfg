\* Two overlapping calls: a rejected request moves on.
CONSTANTS
    Handlers = {h1, h2}
    Requests = {q1}
    BalanceRows = {r1, r2}
    LeaveTypes = {annual}
    DayCounts = {1}
    MaxDecisions = 3
    None = None
    DefaultDays <- MCDefaultDays
SPECIFICATION Spec
PROPERTY RejectedIsFinal

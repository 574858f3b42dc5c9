\* The lock expires under a running call, and a DEL is sent twice.
CONSTANTS
    Handlers = {h1, h2}
    Employees = {e1, e2}
    Leaves = {l1}
    PeriodLeaves = {l1}
    RunsFitTTL = FALSE
    DelOnce = FALSE
    SharedSchema = TRUE
    None = None
SPECIFICATION Spec
INVARIANTS
    RunsAnnounced

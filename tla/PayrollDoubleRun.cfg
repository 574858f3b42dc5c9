\* A call outlives the time to live of its lock.
CONSTANTS
    Handlers = {h1, h2}
    Employees = {e1, e2}
    Leaves = {l1}
    PeriodLeaves = {l1}
    RunsFitTTL = FALSE
    DelOnce = TRUE
    SharedSchema = TRUE
    None = None
SPECIFICATION Spec
INVARIANT OneRunPerPeriod

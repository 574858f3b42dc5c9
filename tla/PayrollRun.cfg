\* Three triggers of one period, every call ends within the time to live.
CONSTANTS
    Handlers = {h1, h2, h3}
    Employees = {e1, e2}
    Leaves = {l1, l2}
    PeriodLeaves = {l1}
    RunsFitTTL = TRUE
    DelOnce = TRUE
    SharedSchema = TRUE
    None = None
SPECIFICATION FairSpec
INVARIANTS
    TypeOK
    MutualExclusion
    OneRunPerPeriod
PROPERTIES
    LockEventuallyFree
    ImplementsPeriod

\* Payroll reads its own schema.
CONSTANTS
    Handlers = {h1, h2}
    Employees = {e1, e2}
    Leaves = {l1, l2}
    PeriodLeaves = {l1}
    RunsFitTTL = TRUE
    DelOnce = TRUE
    SharedSchema = FALSE
    None = None
SPECIFICATION Spec
PROPERTY RefusedOnlyWithoutStaff

SPECIFICATION FairSpec
CONSTANTS
    Sample = {"lvr-504"}
    NewRequest = {n1, n2}
    Category = {"VACATION", "SICK"}
    Date = {1, 2}
    None = none
    Departments = {"Engineering", "HumanResources", "Sales"}
    DefaultDepartment = "Engineering"
    SampleEmployee = {"e101", "e103"}
    SampleDepartment <- MCDepartment
    NewEmployee = {h1, h2}
    PositionCount = 2
    Period = {"2026-09", "2026-10"}
    DefaultPeriod = "2026-09"
    Payslip = {p1}
    LoginRoles = {"LINE_MANAGER", "EMPLOYEE"}
INVARIANTS
    TypeOK
    PendingMatchesRequests
    DirectoryConsistent
    ProcessingHasTimer
PROPERTIES
    DecidedAsOffered
    PayrollSettles

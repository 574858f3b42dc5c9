SPECIFICATION Spec
CONSTANTS
    Request = {q1, q2}
    Login = login
    Call = {q1, q2, login}
    MaxRow = 2
    Mock = mock
    None = none
    Routes = {"approveLeave", "getMyLeaves"}
    Roles = {"LINE_MANAGER"}
    Development = TRUE
    ForbidNonWhitelisted = FALSE
INVARIANTS
    TypeOK
    QueueBehindFlag
    OneRefreshAtATime
    SessionIsWhole
    PredecessorRevoked
    SessionBacked
PROPERTIES
    SignedOutStaysOut
    
SYMMETRY Symmetry

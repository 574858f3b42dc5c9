SPECIFICATION FairSpec
CONSTANTS
    Request = {q1, q2}
    Login = login
    Call = {q1, q2, login}
    MaxRow = 1
    Mock = mock
    None = none
    Routes = {"getMyLeaves"}
    Roles = {"LINE_MANAGER"}
    Development = FALSE
    ForbidNonWhitelisted = FALSE
PROPERTIES
    EveryRequestSettles

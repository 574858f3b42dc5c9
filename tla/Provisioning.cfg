SPECIFICATION Spec
CONSTANTS
    Domain = {d1, d2}
    Email = {e1, e2}
    Call = {form, c1}
    Form = form
    Development = FALSE
    ForbidNonWhitelisted = TRUE
    None = none
INVARIANTS
    TypeOK
    AuditedIsComplete
    StaffIsNotAdmin
    OneAdminPerTenant
PROPERTIES
    LostForEver

---------------------------- MODULE Provisioning ----------------------------
(***************************************************************************)
(* registerTenant and onboardEmployee of auth-service.service.ts, one      *)
(* action for each statement that reads or writes a table: neither uses a  *)
(* transaction, so what a failed call saved stays.  With them the gateway's*)
(* decision who may onboard (module Gateway), the login that reads a       *)
(* caller's roles, and the form of register-tenant/page.tsx.               *)
(*                                                                         *)
(* A tenant is named by its domain and an employee by the email: both are  *)
(* unique columns, and so is the name of a role.  Departments, positions   *)
(* and names are left out.                                                 *)
(*                                                                         *)
(* The tenant an onboarding is about is the x-tenant-id header of its      *)
(* request, or without one the tenant of the caller's token: nothing       *)
(* compares the two, so a caller may name any tenant there is.             *)
(***************************************************************************)
EXTENDS Naturals

CONSTANTS Domain, Email,
          Call,                   \* RPCs the auth service may be handling at once
          Form,                   \* the one the registration form makes
          Development,            \* NODE_ENV = 'development'
          ForbidNonWhitelisted,   \* an option of the gateway's ValidationPipe
          None

ASSUME ProvisioningAssumption == /\ Form \in Call
                                 /\ Development \in BOOLEAN
                                 /\ ForbidNonWhitelisted \in BOOLEAN
                                 /\ None \notin Domain /\ None \notin Email

VARIABLES tenants,        \* domains with a row
          employees,      \* the tenant of each employee, or None: no row
          roleRows,       \* role names with a row
          userRoles,      \* the role names assigned to each employee
          compensations,  \* employees with a row
          audits,         \* rows of audit_logs: <<action, tenant, employee>>
          calls,
          claims,         \* the roles in an employee's access token, None: no token
          form            \* the registration page

tables == <<tenants, employees, roleRows, userRoles, compensations, audits>>
vars == <<tenants, employees, roleRows, userRoles, compensations, audits, calls, claims, form>>

G == INSTANCE Gateway

RoleName == {"ADMIN", "EMPLOYEE"}
Step == {"idle", "tenant", "findRole", "role", "employee", "compensation", "userRole", "audit",
         "answered", "failed"}
CallState == [step : Step, op : {"register", "onboard"}, domain : Domain \cup {None},
              email : Email \cup {None}, baseSalary : BOOLEAN]
Idle == [step |-> "idle", op |-> "register", domain |-> None, email |-> None, baseSalary |-> FALSE]
Audit == {"TENANT_REGISTERED", "EMPLOYEE_ONBOARDED"} \X Domain \X Email

\* The tables, as far as their unique columns and keys go.
TenantRows == SUBSET Domain
EmployeeRows == [Email -> Domain \cup {None}]
RoleRows == SUBSET RoleName
UserRoleRows == [Email -> SUBSET RoleName]
CompensationRows == SUBSET Email

TypeOK == /\ tenants \in TenantRows
          /\ employees \in EmployeeRows
          /\ roleRows \in RoleRows
          /\ userRoles \in UserRoleRows
          /\ compensations \in CompensationRows
          /\ audits \subseteq Audit
          /\ calls \in [Call -> CallState]
          /\ claims \in [Email -> (SUBSET RoleName) \cup {None}]
          /\ form \in {"editing", "loading", "success", "left"}

Init == /\ tenants = {}
        /\ employees = [e \in Email |-> None]
        /\ roleRows = {}
        /\ userRoles = [e \in Email |-> {}]
        /\ compensations = {}
        /\ audits = {}
        /\ calls = [c \in Call |-> Idle]
        /\ claims = [e \in Email |-> None]
        /\ form = "editing"

-----------------------------------------------------------------------------
At(c, step) == calls[c].step = step
Go(c, step) == calls' = [calls EXCEPT ![c].step = step]
End(c, step) == calls' = [calls EXCEPT ![c] = [Idle EXCEPT !.step = step]]
Role(c) == IF calls[c].op = "register" THEN "ADMIN" ELSE "EMPLOYEE"

\* A deviation: a registration without an admin is taken up again.
RegisterTenant_Resumes(c, d, e) ==
    /\ At(c, "idle")
    /\ calls' = [calls EXCEPT ![c] = [Idle EXCEPT !.domain = d, !.email = e,
                    !.step = IF d \in tenants THEN "findRole" ELSE "tenant"]]
    /\ UNCHANGED tables

\* registerTenant looks for the domain ...
RegisterTenant(c, d, e) ==
    /\ At(c, "idle")
    /\ calls' = [calls EXCEPT ![c] =
                    IF d \in tenants
                    THEN [Idle EXCEPT !.step = "failed"]
                    ELSE [Idle EXCEPT !.step = "tenant", !.domain = d, !.email = e]]
    /\ UNCHANGED tables

\* A deviation: the save overwrites the row of another call.
SaveTenant_Upserts(c) ==
    /\ At(c, "tenant")
    /\ Go(c, "findRole")
    /\ tenants' = tenants \cup {calls[c].domain}
    /\ UNCHANGED <<employees, roleRows, userRoles, compensations, audits>>

\* ... and saves the tenant, unless another call saved it meanwhile.
SaveTenant(c) ==
    /\ At(c, "tenant")
    /\ IF calls[c].domain \in tenants
       THEN End(c, "failed") /\ UNCHANGED tenants
       ELSE Go(c, "findRole") /\ tenants' = tenants \cup {calls[c].domain}
    /\ UNCHANGED <<employees, roleRows, userRoles, compensations, audits>>

\* The claims of a caller's access token.
Token(caller) == [sub |-> caller, tenantId |-> employees[caller], roles |-> claims[caller],
                  permissions |-> {}]

\* A deviation: the route asks for no permission.
MayOnboard_AnyToken(caller, header) == claims[caller] # None

\* The gateway lets the request through.
MayOnboard(caller, header) ==
    /\ claims[caller] # None
    /\ G!Status("onboardEmployee", Token(caller), header, {"firstName", "lastName", "email"}) = 200

\* onboardEmployee looks for the email.
OnboardEmployee(c, caller, header, e, salary) ==
    /\ At(c, "idle")
    /\ MayOnboard(caller, header)
    /\ calls' = [calls EXCEPT ![c] =
                    IF employees[e] # None
                    THEN [Idle EXCEPT !.step = "failed"]
                    ELSE [step |-> "employee", op |-> "onboard", email |-> e, baseSalary |-> salary,
                          domain |-> G!TenantId(header, G!User(Token(caller)))]]
    /\ UNCHANGED tables

\* The role of the new employee is looked up and, the first time, saved.
AfterRole(c) == IF calls[c].op = "register" THEN "employee" ELSE "userRole"

FindRole(c) ==
    /\ At(c, "findRole")
    /\ Go(c, IF Role(c) \in roleRows THEN AfterRole(c) ELSE "role")
    /\ UNCHANGED tables

SaveRole(c) ==
    /\ At(c, "role")
    /\ IF Role(c) \in roleRows
       THEN End(c, "failed") /\ UNCHANGED roleRows
       ELSE Go(c, AfterRole(c)) /\ roleRows' = roleRows \cup {Role(c)}
    /\ UNCHANGED <<tenants, employees, userRoles, compensations, audits>>

AfterEmployee(c) == IF calls[c].op = "register" THEN "userRole"
                    ELSE IF calls[c].baseSalary THEN "compensation" ELSE "findRole"

\* A deviation: the save overwrites the row of another call.
SaveEmployee_Upserts(c) ==
    /\ At(c, "employee")
    /\ Go(c, AfterEmployee(c))
    /\ employees' = [employees EXCEPT ![calls[c].email] = calls[c].domain]
    /\ UNCHANGED <<tenants, roleRows, userRoles, compensations, audits>>

\* The employee is saved, unless another call saved the email meanwhile.
SaveEmployee(c) ==
    /\ At(c, "employee")
    /\ IF employees[calls[c].email] # None
       THEN End(c, "failed") /\ UNCHANGED employees
       ELSE /\ Go(c, AfterEmployee(c))
            /\ employees' = [employees EXCEPT ![calls[c].email] = calls[c].domain]
    /\ UNCHANGED <<tenants, roleRows, userRoles, compensations, audits>>

SaveCompensation(c) ==
    /\ At(c, "compensation")
    /\ Go(c, "findRole")
    /\ compensations' = compensations \cup {calls[c].email}
    /\ UNCHANGED <<tenants, employees, roleRows, userRoles, audits>>

SaveUserRole(c) ==
    /\ At(c, "userRole")
    /\ Go(c, "audit")
    /\ userRoles' = [userRoles EXCEPT ![calls[c].email] = @ \cup {Role(c)}]
    /\ UNCHANGED <<tenants, employees, roleRows, compensations, audits>>

SaveAudit(c) ==
    /\ At(c, "audit")
    /\ End(c, "answered")
    /\ audits' = audits \cup {<<IF calls[c].op = "register" THEN "TENANT_REGISTERED"
                                ELSE "EMPLOYEE_ONBOARDED", calls[c].domain, calls[c].email>>}
    /\ UNCHANGED <<tenants, employees, roleRows, userRoles, compensations>>

\* An exception, a lost connection or a crash.
Fail(c) ==
    /\ calls[c].step \notin {"idle", "answered", "failed"}
    /\ End(c, "failed")
    /\ UNCHANGED tables

\* loginUser and refreshToken sign the roles an employee has by then.
LoginUser(e) ==
    /\ employees[e] # None
    /\ claims' = [claims EXCEPT ![e] = userRoles[e]]
    /\ UNCHANGED tables /\ UNCHANGED <<calls, form>>

-----------------------------------------------------------------------------
\* The form is submitted, while isLoading does not disable its button.
RegistrationForm == {"companyName", "domain", "adminEmail", "adminFirstName", "adminLastName",
                     "adminPassword"}

SubmitForm(d, e) ==
    /\ form = "editing"
    /\ G!Status("registerTenant", None, None, RegistrationForm) = 200
    /\ form' = "loading"
    /\ RegisterTenant(Form, d, e)
    /\ UNCHANGED claims

FormSucceeds ==
    /\ form = "loading" /\ At(Form, "answered")
    /\ form' = "success"
    /\ End(Form, "idle")
    /\ UNCHANGED tables /\ UNCHANGED claims

\* A deviation: the form stays in a state of its own.
FormFails_ShowsError ==
    /\ form = "loading"
    /\ form' = "error"
    /\ UNCHANGED tables /\ UNCHANGED <<calls, claims>>

\* An error is shown and the form can be sent again.  With no answer at all the
\* call may still go on, and a development build reports success.
FormFails ==
    /\ form = "loading"
    /\ \/ At(Form, "failed") /\ End(Form, "idle") /\ form' = "editing"
       \/ UNCHANGED calls /\ form' = IF Development THEN "success" ELSE "editing"
    /\ UNCHANGED tables /\ UNCHANGED claims

\* The timer of the success message goes to the login page, from where the
\* form can be opened again.
LeaveForm == form = "success" /\ form' = "left" /\ UNCHANGED tables /\ UNCHANGED <<calls, claims>>
OpenForm == form = "left" /\ form' = "editing" /\ UNCHANGED tables /\ UNCHANGED <<calls, claims>>

\* An answer goes to a caller that is left out, or to nobody.
Answer(c) ==
    /\ calls[c].step \in {"answered", "failed"}
    /\ c = Form => form # "loading"
    /\ End(c, "idle")
    /\ UNCHANGED tables /\ UNCHANGED <<claims, form>>

Statement(c) == /\ \/ SaveTenant(c) \/ FindRole(c) \/ SaveRole(c) \/ SaveEmployee(c)
                   \/ SaveCompensation(c) \/ SaveUserRole(c) \/ SaveAudit(c)
                /\ UNCHANGED <<claims, form>>

\* A header that names no tenant ends, at the latest, in the failed save of the
\* employee: employees refers to tenants.
Request(c) == /\ \/ \E d \in Domain, e \in Email : RegisterTenant(c, d, e)
                 \/ \E caller, e \in Email, header \in tenants \cup {None}, salary \in BOOLEAN :
                        OnboardEmployee(c, caller, header, e, salary)
              /\ UNCHANGED <<claims, form>>

Next == \/ \E c \in Call : Statement(c) \/ Answer(c) \/ (Fail(c) /\ UNCHANGED <<claims, form>>)
        \/ \E c \in Call \ {Form} : Request(c)
        \/ \E e \in Email : LoginUser(e)
        \/ \E d \in Domain, e \in Email : SubmitForm(d, e)
        \/ FormSucceeds \/ FormFails \/ LeaveForm \/ OpenForm

Spec == Init /\ [][Next]_vars

-----------------------------------------------------------------------------
IsAdmin(e, d) == employees[e] = d /\ "ADMIN" \in userRoles[e]

\* A registration in progress that has saved, or is about to save, this tenant.
Registering(c, d) == calls[c].op = "register" /\ calls[c].domain = d

\* What the audit log records is complete, whatever calls overlapped or failed:
\* the registered tenant has its admin, whom the gateway would let onboard, and
\* an onboarded employee has a tenant and a role.
AuditedIsComplete ==
    \A a \in audits :
        IF a[1] = "TENANT_REGISTERED"
        THEN /\ a[2] \in tenants /\ IsAdmin(a[3], a[2])
             /\ G!Permitted("onboardEmployee", [roles |-> userRoles[a[3]], permissions |-> {}])
        ELSE employees[a[3]] = a[2] /\ "EMPLOYEE" \in userRoles[a[3]]

\* Whoever has the role EMPLOYEE got it from somebody else who had ADMIN, and has
\* no other: of a registration and an onboarding that both found an email free,
\* one alone gives it a role, and a token signed before the role ADMIN was
\* assigned opens no onboarding.  Of which tenant that administrator is does not
\* follow: the header may name another.
StaffIsNotAdmin ==
    \A e \in Email : "EMPLOYEE" \in userRoles[e] =>
        /\ "ADMIN" \notin userRoles[e]
        /\ \E a \in Email, d \in Domain : IsAdmin(a, d)

\* Two registrations never work on one saved tenant, and a tenant never gets a
\* second admin.
OneAdminPerTenant ==
    /\ \A d \in Domain, a, b \in Email : IsAdmin(a, d) /\ IsAdmin(b, d) => a = b
    /\ \A d \in Domain, c, k \in Call :
           /\ Registering(c, d) /\ Registering(k, d)
           /\ calls[c].step # "tenant" /\ calls[k].step # "tenant"
           => c = k

\* A registration that failed after it saved the tenant can not be made good:
\* the domain is taken, nobody is its admin and nobody ever will be.
Lost(d) == /\ d \in tenants
           /\ \A e \in Email : ~IsAdmin(e, d)
           /\ \A c \in Call : Registering(c, d) => calls[c].step = "tenant"

LostForEver == [][\A d \in Domain : Lost(d) => Lost(d)']_vars
=============================================================================

------------------------ MODULE Provisioning_proofs ------------------------
(***************************************************************************)
(* Proofs about Provisioning, for any number of tenants, employees and     *)
(* calls that overlap and fail at any statement.                           *)
(*                                                                         *)
(* The invariant says of every call in progress what its own statements so *)
(* far have left in the tables that no other call can take away            *)
(* (SavedSoFar), and of the tables how they depend on each other           *)
(* (TablesInv).  Tables only grow, which keeps most of it.                 *)
(***************************************************************************)
EXTENDS Provisioning, TLAPS

Ended == {"idle", "answered", "failed"}
Busy(c) == calls[c].step \notin Ended
HasAdmin(d) == \E a \in Email : IsAdmin(a, d)
SomeAdmin == \E d \in Domain : HasAdmin(d)

\* What a call is about, at the statements it may be at.
CallTyped(c) ==
    IF Busy(c)
    THEN /\ calls[c].domain \in Domain
         /\ calls[c].email \in Email
         /\ calls[c].op = "register" => calls[c].step # "compensation"
         /\ calls[c].op = "onboard" => calls[c].step # "tenant"
    ELSE calls[c].op = "register" /\ calls[c].domain = None

\* The statements of the call after the one that saves its employee.
EmployeeSaved(c) == \/ calls[c].step \in {"compensation", "userRole", "audit"}
                    \/ calls[c].op = "onboard" /\ calls[c].step \in {"findRole", "role"}

\* What a call in progress relies on: its employee has the role it assigned and
\* no other; a registration is about a tenant without an admin, an onboarding has
\* an admin behind it, of whatever tenant.
SavedSoFar(c) ==
    Busy(c) =>
        /\ EmployeeSaved(c) => /\ employees[calls[c].email] = calls[c].domain
                               /\ userRoles[calls[c].email] =
                                      IF calls[c].step = "audit" THEN {Role(c)} ELSE {}
        /\ calls[c].step # "tenant" => calls[c].domain \in tenants
        /\ calls[c].op = "onboard" => SomeAdmin
        /\ calls[c].op = "register" /\ calls[c].step \notin {"tenant", "audit"} =>
               ~HasAdmin(calls[c].domain)

CallsInv == \A c \in Call : CallTyped(c) /\ SavedSoFar(c)

\* No two calls have saved one employee.
EmailsApart ==
    \A c, k \in Call :
        EmployeeSaved(c) /\ EmployeeSaved(k) /\ calls[c].email = calls[k].email => c = k

\* The tables, and the tokens signed from them.
TablesInv ==
    \A e \in Email :
        /\ employees[e] # None => employees[e] \in tenants
        /\ employees[e] = None => userRoles[e] = {}
        /\ claims[e] # None => employees[e] # None /\ claims[e] \subseteq userRoles[e]

IInv == /\ TypeOK
        /\ CallsInv
        /\ EmailsApart
        /\ TablesInv
        /\ AuditedIsComplete
        /\ StaffIsNotAdmin
        /\ OneAdminPerTenant

-----------------------------------------------------------------------------
(* The two ways a call changes.                                            *)

LEMMA GoStep ==
    ASSUME calls \in [Call -> CallState], NEW c \in Call, NEW s \in Step, Go(c, s)
    PROVE  /\ calls' \in [Call -> CallState]
           /\ calls'[c].step = s
           /\ calls'[c].op = calls[c].op
           /\ calls'[c].domain = calls[c].domain
           /\ calls'[c].email = calls[c].email
           /\ calls'[c].baseSalary = calls[c].baseSalary
           /\ \A k \in Call : k # c => calls'[k] = calls[k]
BY DEF Go, CallState

\* A call that ends forgets its arguments.
LEMMA EndStep ==
    ASSUME calls \in [Call -> CallState], NEW c \in Call, NEW s \in Ended, End(c, s)
    PROVE  /\ calls' \in [Call -> CallState]
           /\ calls'[c].step = s
           /\ calls'[c].op = "register" /\ calls'[c].domain = None
           /\ \A k \in Call : k # c => calls'[k] = calls[k]
<1> DEFINE x == [Idle EXCEPT !.step = s]
<1>1. x \in CallState /\ x.step = s /\ x.op = "register" /\ x.domain = None
  BY DEF Idle, CallState, Ended, Step
<1>2. calls' = [calls EXCEPT ![c] = x]
  BY DEF End
<1> HIDE DEF x
<1>3. QED
  BY <1>1, <1>2

\* Only a token of an admin opens the onboarding route.
LEMMA OnlyAdminsOnboard ==
    ASSUME IInv, NEW caller \in Email, NEW header, MayOnboard(caller, header)
    PROVE  IsAdmin(caller, employees[caller]) /\ employees[caller] \in Domain \cap tenants
<1>1. <<"onboardEmployee", "employees:create">> \in G!Permission
  BY DEF G!Permission, G!EmployeePermissions
<1>2. "onboardEmployee" \in G!Guarded
  BY DEF G!Guarded, G!EmployeeRoutes
<1>3. G!Permitted("onboardEmployee", G!User(Token(caller))) /\ employees[caller] # None
  BY <1>2 DEF MayOnboard, G!Status, Token
<1>4. "ADMIN" \in claims[caller]
  BY <1>1, <1>3 DEF G!Permitted, G!User, Token
<1>5. QED
  BY <1>3, <1>4 DEF MayOnboard, IInv, TablesInv, IsAdmin, TypeOK, EmployeeRows

-----------------------------------------------------------------------------
(* Steps that save at most a role or a compensation, on which nothing else *)
(* depends.                                                                *)

FormState == {"editing", "loading", "success", "left"}

\* A registration past its tenant was one before, and a call past its employee too.
Continues(c) ==
    /\ calls'[c].op = "register" /\ calls'[c].domain \in Domain /\ calls'[c].step # "tenant" =>
           calls[c].op = "register" /\ calls[c].domain = calls'[c].domain /\ calls[c].step # "tenant"
    /\ EmployeeSaved(c)' => EmployeeSaved(c) /\ calls'[c].email = calls[c].email

\* A step that writes no table but those of roles and salaries keeps the invariant.
LEMMA TablesUntouched ==
    ASSUME IInv, UNCHANGED <<tenants, employees, userRoles, audits, claims>>, form' \in FormState,
           roleRows' \in RoleRows, compensations' \in CompensationRows,
           calls' \in [Call -> CallState],
           NEW c \in Call, \A k \in Call : k # c => calls'[k] = calls[k],
           CallTyped(c)', SavedSoFar(c)', Continues(c)
    PROVE  IInv'
<1> USE DEF IInv
<1>1. TypeOK'
  BY DEF TypeOK, FormState
<1>2. \A e \in Email : \A d : IsAdmin(e, d)' <=> IsAdmin(e, d)
  BY DEF IsAdmin
<1>3. CallsInv'
  <2>1. ASSUME NEW k \in Call, k # c
        PROVE  CallTyped(k)' /\ SavedSoFar(k)'
    <3>1. CallTyped(k)'
      BY <2>1 DEF CallsInv, CallTyped, Busy
    <3>2. SavedSoFar(k)'
      BY <2>1, <1>2 DEF CallsInv, SavedSoFar, Busy, EmployeeSaved, HasAdmin, SomeAdmin, Role
    <3>3. QED
      BY <3>1, <3>2
  <2>2. QED
    BY <2>1 DEF CallsInv
<1>4. TablesInv' /\ AuditedIsComplete' /\ StaffIsNotAdmin'
  BY DEF TablesInv, AuditedIsComplete, StaffIsNotAdmin, IsAdmin
<1>5. OneAdminPerTenant'
  <2>1. ASSUME NEW d \in Domain, NEW k \in Call, Registering(k, d)', calls'[k].step # "tenant"
        PROVE  Registering(k, d) /\ calls[k].step # "tenant"
    BY <2>1 DEF Registering, Continues
  <2>2. QED
    BY <1>2, <2>1 DEF OneAdminPerTenant
<1>6. EmailsApart'
  BY DEF EmailsApart, EmployeeSaved, Continues
<1>7. QED
  BY <1>1, <1>3, <1>4, <1>5, <1>6

\* A call ends, with nothing more saved.
LEMMA CallEnds ==
    ASSUME IInv, UNCHANGED tables, UNCHANGED claims, form' \in FormState,
           NEW c \in Call, NEW s \in Ended, End(c, s)
    PROVE  IInv'
<1>1. /\ calls' \in [Call -> CallState]
      /\ calls'[c].step = s
      /\ calls'[c].op = "register" /\ calls'[c].domain = None
      /\ \A k \in Call : k # c => calls'[k] = calls[k]
  BY EndStep DEF IInv, TypeOK
<1>2. CallTyped(c)' /\ SavedSoFar(c)' /\ Continues(c)
  BY <1>1, ProvisioningAssumption DEF CallTyped, SavedSoFar, Busy, Ended, EmployeeSaved, Continues
<1>3. QED
  BY <1>1, <1>2, TablesUntouched DEF IInv, TypeOK, tables

\* A registration begins, or is refused.
LEMMA RegisterTenantStep ==
    ASSUME IInv, UNCHANGED claims, form' \in FormState,
           NEW c \in Call, NEW d \in Domain, NEW e \in Email, RegisterTenant(c, d, e)
    PROVE  IInv'
<1> USE DEF RegisterTenant
<1>1. CASE d \in tenants
  BY <1>1, CallEnds DEF End, Ended
<1>2. CASE d \notin tenants
  <2> DEFINE x == [Idle EXCEPT !.step = "tenant", !.domain = d, !.email = e]
  <2>1. /\ x \in CallState /\ x.step = "tenant" /\ x.op = "register"
        /\ x.domain = d /\ x.email = e
    BY DEF Idle, CallState, Step
  <2>2. calls' = [calls EXCEPT ![c] = x]
    BY <1>2
  <2> HIDE DEF x
  <2>3. /\ calls' \in [Call -> CallState]
        /\ calls'[c] = x
        /\ \A k \in Call : k # c => calls'[k] = calls[k]
    BY <2>1, <2>2 DEF IInv, TypeOK
  <2>4. CallTyped(c)' /\ SavedSoFar(c)' /\ Continues(c)
    BY <2>1, <2>3 DEF CallTyped, SavedSoFar, Busy, Ended, EmployeeSaved, Continues
  <2>5. QED
    BY <2>3, <2>4, TablesUntouched DEF IInv, TypeOK, tables
<1>3. QED
  BY <1>1, <1>2

\* An onboarding begins, with the admin who asked for it behind it.
LEMMA OnboardEmployeeStep ==
    ASSUME IInv, UNCHANGED claims, form' \in FormState,
           NEW c \in Call, NEW caller \in Email, NEW header \in tenants \cup {None},
           NEW e \in Email, NEW salary \in BOOLEAN,
           OnboardEmployee(c, caller, header, e, salary)
    PROVE  IInv'
<1> USE DEF OnboardEmployee
<1>1. CASE employees[e] # None
  BY <1>1, CallEnds DEF End, Ended
<1>2. CASE employees[e] = None
  <2>1. IsAdmin(caller, employees[caller]) /\ employees[caller] \in Domain \cap tenants
    BY OnlyAdminsOnboard
  <2> DEFINE d == G!TenantId(header, G!User(Token(caller)))
  <2>2. d \in Domain \cap tenants
    BY <2>1 DEF G!TenantId, G!User, Token, IInv, TypeOK, TenantRows
  <2> HIDE DEF d
  <2> DEFINE x == [step |-> "employee", op |-> "onboard", email |-> e, baseSalary |-> salary,
                   domain |-> d]
  <2>3. /\ x \in CallState /\ x.step = "employee" /\ x.op = "onboard"
        /\ x.domain = d /\ x.email = e
    BY <2>2 DEF CallState, Step
  <2>4. calls' = [calls EXCEPT ![c] = x]
    BY <1>2 DEF d
  <2> HIDE DEF x
  <2>5. /\ calls' \in [Call -> CallState]
        /\ calls'[c] = x
        /\ \A k \in Call : k # c => calls'[k] = calls[k]
    BY <2>3, <2>4 DEF IInv, TypeOK
  <2>6. CallTyped(c)' /\ Continues(c)
    BY <2>2, <2>3, <2>5 DEF CallTyped, Busy, Ended, EmployeeSaved, Continues
  <2>7. SomeAdmin'
    BY <2>1 DEF SomeAdmin, HasAdmin, IsAdmin, tables
  <2>8. SavedSoFar(c)'
    <3>1. calls'[c].step = "employee" /\ calls'[c].op = "onboard" /\ calls'[c].domain = d
      BY <2>3, <2>5
    <3>2. d \in tenants'
      BY <2>2 DEF tables
    <3>3. QED
      BY <2>7, <3>1, <3>2 DEF SavedSoFar, EmployeeSaved
  <2>9. QED
    BY <2>5, <2>6, <2>8, TablesUntouched DEF IInv, TypeOK, tables
<1>3. QED
  BY <1>1, <1>2

\* The role is looked for or saved: the call goes on to the next statement.
LEMMA RoleStep ==
    ASSUME IInv, UNCHANGED claims, form' \in FormState, NEW c \in Call,
           calls[c].step \in {"findRole", "role"}, NEW s \in {"role", AfterRole(c)}, Go(c, s),
           UNCHANGED <<tenants, employees, userRoles, compensations, audits>>,
           roleRows' \in RoleRows
    PROVE  IInv'
<1>1. s \in Step
  BY DEF AfterRole, Step
<1>2. /\ calls' \in [Call -> CallState]
      /\ calls'[c].step = s
      /\ calls'[c].op = calls[c].op
      /\ calls'[c].domain = calls[c].domain
      /\ calls'[c].email = calls[c].email
      /\ \A k \in Call : k # c => calls'[k] = calls[k]
  BY <1>1, GoStep DEF IInv, TypeOK
<1>3. calls[c].op \in {"register", "onboard"}
  BY DEF IInv, TypeOK, CallState
<1>4. CallTyped(c)' /\ Continues(c)
  BY <1>2, <1>3 DEF IInv, CallsInv, CallTyped, Busy, Ended, AfterRole, EmployeeSaved, Continues
<1>5. SavedSoFar(c)'
  BY <1>2, <1>3 DEF IInv, CallsInv, SavedSoFar, Busy, Ended, AfterRole, EmployeeSaved,
                    SomeAdmin, HasAdmin, IsAdmin
<1>6. QED
  BY <1>2, <1>4, <1>5, TablesUntouched DEF IInv, TypeOK

\* Looking a role up reads only.
LEMMA FindRoleStep ==
    ASSUME IInv, UNCHANGED claims, form' \in FormState, NEW c \in Call, FindRole(c)
    PROVE  IInv'
BY RoleStep DEF FindRole, At, tables, IInv, TypeOK

\* The insert of a role, which the unique column may refuse.
LEMMA SaveRoleStep ==
    ASSUME IInv, UNCHANGED claims, form' \in FormState, NEW c \in Call, SaveRole(c)
    PROVE  IInv'
<1> USE DEF SaveRole, At
<1>1. CASE Role(c) \in roleRows
  BY <1>1, CallEnds DEF tables, Ended
<1>2. CASE Role(c) \notin roleRows
  <2>1. roleRows' \in RoleRows
    BY <1>2 DEF IInv, TypeOK, RoleRows, Role, RoleName
  <2>2. QED
    BY <1>2, <2>1, RoleStep
<1>3. QED
  BY <1>1, <1>2

\* The compensation of an onboarded employee is saved.
LEMMA SaveCompensationStep ==
    ASSUME IInv, UNCHANGED claims, form' \in FormState, NEW c \in Call, SaveCompensation(c)
    PROVE  IInv'
<1> USE DEF SaveCompensation, At
<1>1. /\ calls' \in [Call -> CallState]
      /\ calls'[c].step = "findRole"
      /\ calls'[c].op = calls[c].op
      /\ calls'[c].domain = calls[c].domain
      /\ calls'[c].email = calls[c].email
      /\ \A k \in Call : k # c => calls'[k] = calls[k]
  BY GoStep DEF IInv, TypeOK, Step
<1>2. calls[c].op = "onboard" /\ calls[c].email \in Email
  BY DEF IInv, TypeOK, CallState, CallsInv, CallTyped, Busy, Ended
<1>3. CallTyped(c)' /\ Continues(c)
  BY <1>1, <1>2 DEF IInv, CallsInv, CallTyped, Busy, Ended, EmployeeSaved, Continues
<1>4. SavedSoFar(c)'
  BY <1>1, <1>2 DEF IInv, CallsInv, SavedSoFar, Busy, Ended, EmployeeSaved, SomeAdmin, HasAdmin,
                    IsAdmin
<1>5. compensations' \in CompensationRows
  BY <1>2 DEF IInv, TypeOK, CompensationRows
<1>6. QED
  BY <1>1, <1>3, <1>4, <1>5, TablesUntouched DEF IInv, TypeOK

\* A token is signed for an employee.
LEMMA LoginUserStep ==
    ASSUME IInv, NEW e \in Email, LoginUser(e)
    PROVE  IInv'
<1> USE DEF IInv, LoginUser, tables
<1>1. TypeOK'
  BY DEF TypeOK, UserRoleRows
<1>2. CallsInv' /\ EmailsApart'
  BY DEF CallsInv, CallTyped, SavedSoFar, Busy, EmployeeSaved, SomeAdmin, HasAdmin, IsAdmin, Role,
         EmailsApart
<1>3. TablesInv'
  BY DEF TablesInv, TypeOK
<1>4. AuditedIsComplete' /\ StaffIsNotAdmin' /\ OneAdminPerTenant'
  BY DEF AuditedIsComplete, StaffIsNotAdmin, OneAdminPerTenant, IsAdmin, Registering
<1>5. QED
  BY <1>1, <1>2, <1>3, <1>4

-----------------------------------------------------------------------------
(* Steps that save a row.                                                  *)

\* No row is deleted, and no column of the model is overwritten.
Grows == /\ tenants \subseteq tenants'
         /\ \A e \in Email : /\ employees[e] # None => employees'[e] = employees[e]
                             /\ userRoles[e] \subseteq userRoles'[e]

\* An administrator stays one while tables grow.
LEMMA AdminsStay ==
    ASSUME Grows, NEW d \in Domain, NEW a \in Email, IsAdmin(a, d)
    PROVE  IsAdmin(a, d)'
BY ProvisioningAssumption DEF Grows, IsAdmin

\* So somebody stays one.
LEMMA SomeAdminStays ==
    ASSUME Grows, SomeAdmin
    PROVE  SomeAdmin'
<1>1. PICK d \in Domain, a \in Email : IsAdmin(a, d)
  BY DEF SomeAdmin, HasAdmin
<1>2. IsAdmin(a, d)'
  BY <1>1, AdminsStay
<1>3. QED
  BY <1>2 DEF SomeAdmin, HasAdmin

\* Another call keeps what it relies on, if its employee got no role and the tenant
\* it registers no admin.
LEMMA OtherCall ==
    ASSUME IInv, Grows, NEW k \in Call, calls'[k] = calls[k],
           EmployeeSaved(k) => userRoles'[calls[k].email] = userRoles[calls[k].email],
           Busy(k) /\ calls[k].op = "register" /\ calls[k].step \notin {"tenant", "audit"} =>
               \A a \in Email : ~IsAdmin(a, calls[k].domain)'
    PROVE  CallTyped(k)' /\ SavedSoFar(k)'
<1>1. CallTyped(k) /\ SavedSoFar(k)
  BY DEF IInv, CallsInv
<1>2. CallTyped(k)'
  BY <1>1 DEF CallTyped, Busy
<1>3. SUFFICES ASSUME Busy(k)
               PROVE  SavedSoFar(k)'
  BY <1>2 DEF SavedSoFar, Busy
<1>4. calls[k].domain \in Domain /\ calls[k].email \in Email
  BY <1>1, <1>3 DEF CallTyped
<1>5. (EmployeeSaved(k) =>
           /\ employees[calls[k].email] = calls[k].domain
           /\ userRoles[calls[k].email] = IF calls[k].step = "audit" THEN {Role(k)} ELSE {})'
  BY <1>1, <1>3, <1>4, ProvisioningAssumption DEF SavedSoFar, EmployeeSaved, Role, Grows
<1>6. (calls[k].step # "tenant" => calls[k].domain \in tenants)'
  BY <1>1, <1>3 DEF SavedSoFar, Grows
<1>7. (calls[k].op = "onboard" => SomeAdmin)'
  BY <1>1, <1>3, SomeAdminStays DEF SavedSoFar
<1>8. (calls[k].op = "register" /\ calls[k].step \notin {"tenant", "audit"} =>
           ~HasAdmin(calls[k].domain))'
  BY <1>3 DEF HasAdmin
<1>9. QED
  BY <1>5, <1>6, <1>7, <1>8 DEF SavedSoFar

\* What was audited stays so.
LEMMA AuditedStays ==
    ASSUME IInv, Grows,
           \A a \in audits' : \/ a \in audits
                             \/ IF a[1] = "TENANT_REGISTERED"
                                THEN a[2] \in tenants /\ a[3] \in Email /\ a[2] \in Domain
                                     /\ IsAdmin(a[3], a[2])
                                ELSE a[3] \in Email /\ a[2] \in Domain
                                     /\ employees[a[3]] = a[2] /\ "EMPLOYEE" \in userRoles[a[3]]
    PROVE  AuditedIsComplete'
<1> SUFFICES ASSUME NEW a \in audits'
             PROVE  (IF a[1] = "TENANT_REGISTERED"
                     THEN /\ a[2] \in tenants /\ IsAdmin(a[3], a[2])
                          /\ G!Permitted("onboardEmployee",
                                         [roles |-> userRoles[a[3]], permissions |-> {}])
                     ELSE employees[a[3]] = a[2] /\ "EMPLOYEE" \in userRoles[a[3]])'
  BY DEF AuditedIsComplete
<1>1. /\ a[2] \in Domain /\ a[3] \in Email
      /\ IF a[1] = "TENANT_REGISTERED"
         THEN a[2] \in tenants /\ IsAdmin(a[3], a[2])
         ELSE employees[a[3]] = a[2] /\ "EMPLOYEE" \in userRoles[a[3]]
  BY DEF IInv, AuditedIsComplete, TypeOK, Audit
<1>2. CASE a[1] = "TENANT_REGISTERED"
  <2>1. a[2] \in tenants' /\ IsAdmin(a[3], a[2])'
    BY <1>1, <1>2, AdminsStay DEF Grows
  <2>2. G!Permitted("onboardEmployee", [roles |-> userRoles[a[3]], permissions |-> {}])'
    BY <2>1 DEF G!Permitted, IsAdmin
  <2>3. QED
    BY <1>2, <2>1, <2>2
<1>3. CASE a[1] # "TENANT_REGISTERED"
  BY <1>1, <1>3, ProvisioningAssumption DEF Grows
<1>4. QED
  BY <1>2, <1>3

\* A tenant is saved: nothing is in it, and no other call registers it.
LEMMA SaveTenantStep ==
    ASSUME IInv, UNCHANGED claims, form' \in FormState, NEW c \in Call, SaveTenant(c)
    PROVE  IInv'
<1> USE DEF SaveTenant, At
<1>1. CASE calls[c].domain \in tenants
  BY <1>1, CallEnds DEF tables, Ended
<1>2. CASE calls[c].domain \notin tenants
  <2> DEFINE d0 == calls[c].domain
  <2>1. /\ calls' \in [Call -> CallState]
        /\ calls'[c].step = "findRole"
        /\ calls'[c].op = calls[c].op
        /\ calls'[c].domain = d0
        /\ calls'[c].email = calls[c].email
        /\ \A k \in Call : k # c => calls'[k] = calls[k]
    BY <1>2, GoStep DEF IInv, TypeOK, Step
  <2>2. d0 \in Domain /\ calls[c].op = "register" /\ calls[c].email \in Email
    BY DEF IInv, CallsInv, CallTyped, Busy, Ended, TypeOK, CallState
  <2>3. Grows /\ UNCHANGED <<employees, userRoles, audits>> /\ tenants' = tenants \cup {d0}
    BY <1>2 DEF Grows
  <2>4. TypeOK'
    BY <2>1, <2>2, <2>3 DEF IInv, TypeOK, TenantRows, FormState
  <2>5. \A e \in Email : ~IsAdmin(e, d0)'
    BY <1>2, <2>1, <2>2, <2>3, ProvisioningAssumption DEF IInv, TablesInv, IsAdmin
  <2>6. ASSUME NEW k \in Call
        PROVE  CallTyped(k)' /\ SavedSoFar(k)'
    <3>1. CASE k = c
      BY <2>1, <2>2, <2>3, <2>5, <3>1 DEF CallTyped, SavedSoFar, Busy, Ended, EmployeeSaved, HasAdmin
    <3>2. CASE k # c
      <4>1. calls'[k] = calls[k] /\ SavedSoFar(k)
        BY <2>1, <3>2 DEF IInv, CallsInv
      <4>2. QED
        BY <2>3, <4>1, OtherCall DEF SavedSoFar, HasAdmin, IsAdmin
    <3>3. QED
      BY <3>1, <3>2
  <2>7. TablesInv' /\ StaffIsNotAdmin'
    BY <2>3 DEF IInv, TablesInv, StaffIsNotAdmin, IsAdmin
  <2>8. AuditedIsComplete'
    BY <2>3, AuditedStays
  <2>9. OneAdminPerTenant'
    <3>1. ASSUME NEW k \in Call, k # c, calls'[k].step # "tenant",
                 calls'[k].op = "register", calls'[k].domain = d0
          PROVE  FALSE
      <4>1. calls[k] = calls'[k]
        BY <2>1, <3>1
      <4>2. Busy(k)
        BY <2>2, <3>1, <4>1, ProvisioningAssumption DEF IInv, CallsInv, CallTyped
      <4>3. QED
        BY <1>2, <3>1, <4>1, <4>2 DEF IInv, CallsInv, SavedSoFar
    <3>2. QED
      BY <2>1, <2>3, <3>1 DEF IInv, OneAdminPerTenant, IsAdmin, Registering
  <2>10. EmailsApart'
    BY <2>1, <2>2 DEF IInv, EmailsApart, EmployeeSaved
  <2>11. QED
    BY <2>4, <2>6, <2>7, <2>8, <2>9, <2>10 DEF IInv, CallsInv
<1>3. QED
  BY <1>1, <1>2

\* A step that makes no admin, and after which a call past its tenant was so
\* before, leaves one admin and one registration to each tenant.
LEMMA Registered ==
    ASSUME IInv, \A a \in Email : \A d : IsAdmin(a, d)' <=> IsAdmin(a, d),
           NEW c \in Call, \A k \in Call : k # c => calls'[k] = calls[k],
           calls'[c].op = calls[c].op, calls'[c].domain = calls[c].domain, calls[c].step # "tenant"
    PROVE  OneAdminPerTenant'
<1>1. ASSUME NEW d \in Domain, NEW k \in Call, Registering(k, d)', calls'[k].step # "tenant"
      PROVE  Registering(k, d) /\ calls[k].step # "tenant"
  BY <1>1 DEF Registering
<1>2. QED
  BY <1>1 DEF IInv, OneAdminPerTenant

\* An employee is saved, who has no role yet and whom no other call has saved.
LEMMA SaveEmployeeStep ==
    ASSUME IInv, UNCHANGED claims, form' \in FormState, NEW c \in Call, SaveEmployee(c)
    PROVE  IInv'
<1> USE DEF SaveEmployee, At
<1>1. CASE employees[calls[c].email] # None
  BY <1>1, CallEnds DEF tables, Ended
<1>2. CASE employees[calls[c].email] = None
  <2>1. PICK d0 \in Domain, e0 \in Email : d0 = calls[c].domain /\ e0 = calls[c].email
    BY DEF IInv, CallsInv, CallTyped, Busy, Ended
  <2>2. PICK s \in Step \ Ended : Go(c, s) /\ s = AfterEmployee(c)
    BY <1>2 DEF AfterEmployee, Step, Ended
  <2>3. /\ calls' \in [Call -> CallState]
        /\ calls'[c].step = s
        /\ calls'[c].op = calls[c].op
        /\ calls'[c].domain = d0
        /\ calls'[c].email = e0
        /\ \A k \in Call : k # c => calls'[k] = calls[k]
    BY <2>1, <2>2, GoStep DEF IInv, TypeOK
  <2>4. /\ UNCHANGED <<tenants, userRoles, audits>>
        /\ employees' = [employees EXCEPT ![e0] = d0]
        /\ employees[e0] = None /\ userRoles[e0] = {}
    BY <1>2, <2>1 DEF IInv, TablesInv
  <2>5. /\ employees' \in EmployeeRows
        /\ employees'[e0] = d0
        /\ \A e \in Email : e # e0 => employees'[e] = employees[e]
    BY <2>4 DEF IInv, TypeOK, EmployeeRows
  <2>6. TypeOK'
    BY <2>3, <2>4, <2>5 DEF IInv, TypeOK, FormState
  <2>7. Grows
    BY <2>4, <2>5 DEF Grows
  <2>8. \A a \in Email : \A d : IsAdmin(a, d)' <=> IsAdmin(a, d)
    <3>1. ASSUME NEW a \in Email, NEW d
          PROVE  IsAdmin(a, d)' <=> IsAdmin(a, d)
      BY <2>4, <2>5 DEF IsAdmin
    <3>2. QED
      BY <3>1
  <2>9. calls[c].op \in {"register", "onboard"} /\ calls[c].step = "employee" /\ SavedSoFar(c)
    BY DEF IInv, TypeOK, CallState, CallsInv
  <2>10. s \in {"userRole", "compensation", "findRole"} /\ (calls[c].op = "register" => s = "userRole")
         /\ (s = "userRole" => calls[c].op = "register")
    BY <2>2, <2>9 DEF AfterEmployee
  <2>11. d0 \in tenants
    BY <2>1, <2>9 DEF SavedSoFar, Busy, Ended
  <2>12. CallTyped(c)'
    BY <2>3, <2>9, <2>10 DEF CallTyped, Busy, Ended
  <2>13. SavedSoFar(c)'
    <3>1. calls[c].op = "register" => ~HasAdmin(calls[c].domain)'
      BY <2>1, <2>3, <2>8, <2>9 DEF SavedSoFar, Busy, Ended, HasAdmin
    <3>2. calls[c].op = "onboard" => SomeAdmin'
      BY <2>7, <2>9, SomeAdminStays DEF SavedSoFar, Busy, Ended
    <3>3. QED
      BY <2>3, <2>4, <2>5, <2>10, <2>11, <3>1, <3>2 DEF SavedSoFar, EmployeeSaved
  <2>14. ASSUME NEW k \in Call, k # c
         PROVE  CallTyped(k)' /\ SavedSoFar(k)'
    <3>1. calls'[k] = calls[k] /\ SavedSoFar(k) /\ CallTyped(k)
      BY <2>3, <2>14 DEF IInv, CallsInv
    <3>2. QED
      BY <2>4, <2>7, <2>8, <3>1, OtherCall DEF SavedSoFar, HasAdmin, CallTyped
  <2>15. EmailsApart'
    <3>1. ASSUME NEW k \in Call, k # c, EmployeeSaved(k)'
          PROVE  EmployeeSaved(k) /\ calls'[k] = calls[k] /\ calls[k].email # e0
      <4>1. EmployeeSaved(k) /\ calls'[k] = calls[k] /\ SavedSoFar(k) /\ CallTyped(k)
        BY <2>3, <3>1 DEF EmployeeSaved, IInv, CallsInv
      <4>2. Busy(k)
        BY <4>1 DEF EmployeeSaved, Busy, Ended
      <4>3. employees[calls[k].email] # None
        BY <4>1, <4>2, ProvisioningAssumption DEF SavedSoFar, CallTyped
      <4>4. QED
        BY <2>4, <4>1, <4>3
    <3>2. QED
      BY <2>3, <3>1 DEF IInv, EmailsApart
  <2>16. TablesInv'
    BY <2>4, <2>5, <2>11, ProvisioningAssumption DEF IInv, TablesInv
  <2>17. StaffIsNotAdmin'
    BY <2>4, <2>7, <2>8 DEF IInv, StaffIsNotAdmin
  <2>18. AuditedIsComplete' /\ OneAdminPerTenant'
    BY <2>1, <2>3, <2>4, <2>7, <2>8, <2>9, AuditedStays, Registered
  <2>19. QED
    BY <2>6, <2>12, <2>13, <2>14, <2>15, <2>16, <2>17, <2>18 DEF IInv, CallsInv
<1>3. QED
  BY <1>1, <1>2

\* A role is assigned to an employee who had none: ADMIN to the first of a
\* registered tenant, EMPLOYEE while there is an admin.
LEMMA SaveUserRoleStep ==
    ASSUME IInv, UNCHANGED claims, form' \in FormState, NEW c \in Call, SaveUserRole(c)
    PROVE  IInv'
<1> USE DEF SaveUserRole, At
<1>1. PICK d0 \in Domain, e0 \in Email : d0 = calls[c].domain /\ e0 = calls[c].email
  BY DEF IInv, CallsInv, CallTyped, Busy, Ended
<1>2. /\ calls' \in [Call -> CallState]
      /\ calls'[c].step = "audit"
      /\ calls'[c].op = calls[c].op
      /\ calls'[c].domain = d0
      /\ calls'[c].email = e0
      /\ \A k \in Call : k # c => calls'[k] = calls[k]
  BY <1>1, GoStep DEF IInv, TypeOK, Step
<1>3. SavedSoFar(c) /\ calls[c].op \in {"register", "onboard"}
  BY DEF IInv, CallsInv, TypeOK, CallState
<1>4. employees[e0] = d0 /\ userRoles[e0] = {} /\ d0 \in tenants /\ EmployeeSaved(c)
  BY <1>1, <1>3 DEF SavedSoFar, Busy, Ended, EmployeeSaved
<1>5. /\ UNCHANGED <<tenants, employees, audits>>
      /\ userRoles' \in UserRoleRows
      /\ userRoles'[e0] = {Role(c)}
      /\ \A e \in Email : e # e0 => userRoles'[e] = userRoles[e]
  <2>1. Role(c) \in RoleName
    BY DEF Role, RoleName
  <2>2. userRoles' = [userRoles EXCEPT ![e0] = userRoles[e0] \cup {Role(c)}]
    BY <1>1
  <2>3. userRoles[e0] \cup {Role(c)} = {Role(c)}
    BY <1>4
  <2> DEFINE S == {Role(c)}
  <2>4. S \in SUBSET RoleName /\ userRoles \in [Email -> SUBSET RoleName]
    BY <2>1 DEF IInv, TypeOK, UserRoleRows
  <2>5. userRoles' = [userRoles EXCEPT ![e0] = S]
    BY <2>2, <2>3
  <2> HIDE DEF S
  <2>6. userRoles'[e0] = S /\ userRoles' \in UserRoleRows
        /\ \A e \in Email : e # e0 => userRoles'[e] = userRoles[e]
    BY <2>4, <2>5 DEF UserRoleRows
  <2>7. QED
    BY <2>6 DEF S
<1>6. TypeOK'
  BY <1>2, <1>5 DEF IInv, TypeOK, FormState
<1>7. Grows
  BY <1>4, <1>5 DEF Grows
<1>8. \A a \in Email : \A d : IsAdmin(a, d)' =>
          IsAdmin(a, d) \/ (calls[c].op = "register" /\ a = e0 /\ d = d0)
  <2>1. ASSUME NEW a \in Email, NEW d, IsAdmin(a, d)'
        PROVE  IsAdmin(a, d) \/ (calls[c].op = "register" /\ a = e0 /\ d = d0)
    BY <1>3, <1>4, <1>5, <2>1 DEF IsAdmin, Role
  <2>2. QED
    BY <2>1
<1>9. CallTyped(c)' /\ SavedSoFar(c)'
  <2>1. CallTyped(c)'
    BY <1>2 DEF CallTyped, Busy, Ended
  <2>2. Role(c)' = Role(c)
    BY <1>2 DEF Role
  <2>3. calls[c].op = "onboard" => SomeAdmin'
    BY <1>3, <1>7, SomeAdminStays DEF SavedSoFar, Busy, Ended
  <2>4. QED
    BY <1>2, <1>4, <1>5, <2>1, <2>2, <2>3 DEF SavedSoFar, EmployeeSaved
<1>10. ASSUME NEW k \in Call, k # c
       PROVE  CallTyped(k)' /\ SavedSoFar(k)'
  <2>1. calls'[k] = calls[k] /\ SavedSoFar(k) /\ CallTyped(k)
    BY <1>2, <1>10 DEF IInv, CallsInv
  <2>2. EmployeeSaved(k) => calls[k].email \in Email /\ calls[k].email # e0
    BY <1>1, <1>4, <1>10, <2>1 DEF IInv, EmailsApart, CallTyped, EmployeeSaved, Busy, Ended
  <2>3. ASSUME Busy(k), calls[k].op = "register", calls[k].step \notin {"tenant", "audit"},
               NEW a \in Email, IsAdmin(a, calls[k].domain)'
        PROVE  FALSE
    <3>1. ~IsAdmin(a, calls[k].domain)
      BY <2>1, <2>3 DEF SavedSoFar, HasAdmin
    <3>2. calls[c].op = "register" /\ calls[k].domain = d0
      BY <1>3, <1>4, <1>5, <2>1, <2>3, <3>1 DEF IsAdmin, Role
    <3>3. QED
      BY <1>1, <1>10, <2>3, <3>2 DEF IInv, OneAdminPerTenant, Registering
  <2>4. QED
    BY <1>5, <1>7, <2>1, <2>2, <2>3, OtherCall
<1>11. TablesInv'
  BY <1>4, <1>5, ProvisioningAssumption DEF IInv, TablesInv
<1>12. AuditedIsComplete'
  BY <1>5, <1>7, AuditedStays
<1>13. StaffIsNotAdmin'
  <2>1. SUFFICES ASSUME NEW e \in Email, "EMPLOYEE" \in userRoles'[e]
                 PROVE  "ADMIN" \notin userRoles'[e] /\ SomeAdmin'
    BY <2>1 DEF StaffIsNotAdmin, SomeAdmin, HasAdmin
  <2>2. CASE e = e0
    <3>1. calls[c].op = "onboard" /\ userRoles'[e] = {"EMPLOYEE"}
      BY <1>3, <1>5, <2>1, <2>2 DEF Role
    <3>2. QED
      BY <1>3, <1>7, <3>1, SomeAdminStays DEF SavedSoFar, Busy, Ended
  <2>3. CASE e # e0
    BY <1>5, <1>7, <2>1, <2>3, SomeAdminStays DEF IInv, StaffIsNotAdmin, SomeAdmin, HasAdmin
  <2>4. QED
    BY <2>2, <2>3
<1>14. OneAdminPerTenant'
  <2>1. ASSUME NEW d \in Domain, NEW a \in Email, NEW b \in Email, IsAdmin(a, d)', IsAdmin(b, d)'
        PROVE  a = b
    <3>1. CASE calls[c].op = "register" /\ d = d0
      <4>1. ~IsAdmin(a, d) /\ ~IsAdmin(b, d)
        BY <1>1, <1>3, <3>1 DEF SavedSoFar, Busy, Ended, HasAdmin
      <4>2. QED
        BY <1>8, <2>1, <4>1
    <3>2. CASE ~(calls[c].op = "register" /\ d = d0)
      BY <1>8, <2>1, <3>2 DEF IInv, OneAdminPerTenant
    <3>3. QED
      BY <3>1, <3>2
  <2>2. ASSUME NEW d \in Domain, NEW k \in Call, Registering(k, d)', calls'[k].step # "tenant"
        PROVE  Registering(k, d) /\ calls[k].step # "tenant"
    BY <1>1, <1>2, <2>2 DEF Registering
  <2>3. QED
    BY <2>1, <2>2 DEF IInv, OneAdminPerTenant
<1>15. EmailsApart'
  BY <1>1, <1>2, <1>4 DEF IInv, EmailsApart, EmployeeSaved
<1>16. QED
  BY <1>6, <1>9, <1>10, <1>11, <1>12, <1>13, <1>14, <1>15 DEF IInv, CallsInv

\* What is audited is what the call has saved.
LEMMA SaveAuditStep ==
    ASSUME IInv, UNCHANGED claims, form' \in FormState, NEW c \in Call, SaveAudit(c)
    PROVE  IInv'
<1> USE DEF SaveAudit, At
<1>1. PICK d0 \in Domain, e0 \in Email : d0 = calls[c].domain /\ e0 = calls[c].email
  BY DEF IInv, CallsInv, CallTyped, Busy, Ended
<1>2. /\ calls' \in [Call -> CallState]
      /\ calls'[c].step = "answered"
      /\ calls'[c].op = "register" /\ calls'[c].domain = None
      /\ \A k \in Call : k # c => calls'[k] = calls[k]
  BY EndStep DEF IInv, TypeOK, Ended
<1>3. SavedSoFar(c) /\ calls[c].op \in {"register", "onboard"}
  BY DEF IInv, CallsInv, TypeOK, CallState
<1>4. employees[e0] = d0 /\ Role(c) \in userRoles[e0]
  BY <1>1, <1>3 DEF SavedSoFar, Busy, Ended, EmployeeSaved
<1> DEFINE row == <<IF calls[c].op = "register" THEN "TENANT_REGISTERED" ELSE "EMPLOYEE_ONBOARDED",
                    d0, e0>>
<1>5. /\ UNCHANGED <<tenants, employees, userRoles, roleRows, compensations>>
      /\ audits' = audits \cup {row}
  BY <1>1
<1>6. row \in Audit /\ row[2] = d0 /\ row[3] = e0
  BY DEF Audit
<1>7. AuditedIsComplete'
  <2>1. Grows
    BY <1>5 DEF Grows
  <2>2. CASE calls[c].op = "register"
    <3>1. d0 \in tenants /\ IsAdmin(e0, d0)
      BY <1>1, <1>3, <1>4, <2>2 DEF SavedSoFar, Busy, Ended, Role, IsAdmin
    <3>2. row[1] = "TENANT_REGISTERED"
      BY <2>2
    <3> HIDE DEF row
    <3>3. QED
      BY <1>5, <1>6, <2>1, <3>1, <3>2, AuditedStays
  <2>3. CASE calls[c].op = "onboard"
    <3>1. "EMPLOYEE" \in userRoles[e0]
      BY <1>4, <2>3 DEF Role
    <3>2. row[1] = "EMPLOYEE_ONBOARDED"
      BY <2>3
    <3> HIDE DEF row
    <3>3. QED
      BY <1>4, <1>5, <1>6, <2>1, <3>1, <3>2, AuditedStays
  <2>4. QED
    BY <1>3, <2>2, <2>3
<1> HIDE DEF row
<1>8. TypeOK'
  BY <1>2, <1>5, <1>6 DEF IInv, TypeOK, FormState
<1>9. \A e \in Email : \A d : IsAdmin(e, d)' <=> IsAdmin(e, d)
  BY <1>5 DEF IsAdmin
<1>10. ASSUME NEW k \in Call
       PROVE  CallTyped(k)' /\ SavedSoFar(k)'
  <2>1. CASE k = c
    BY <1>2, <2>1 DEF CallTyped, SavedSoFar, Busy, Ended
  <2>2. CASE k # c
    <3>1. calls'[k] = calls[k] /\ SavedSoFar(k) /\ Grows
      BY <1>2, <1>5, <2>2 DEF IInv, CallsInv, Grows
    <3>2. QED
      BY <1>5, <1>9, <3>1, OtherCall DEF SavedSoFar, HasAdmin
  <2>3. QED
    BY <2>1, <2>2
<1>11. TablesInv' /\ StaffIsNotAdmin'
  BY <1>5 DEF IInv, TablesInv, StaffIsNotAdmin, IsAdmin
<1>12. OneAdminPerTenant'
  <2>1. ASSUME NEW d \in Domain, NEW k \in Call, Registering(k, d)', calls'[k].step # "tenant"
        PROVE  Registering(k, d) /\ calls[k].step # "tenant"
    BY <1>2, <2>1, ProvisioningAssumption DEF Registering
  <2>2. QED
    BY <1>9, <2>1 DEF IInv, OneAdminPerTenant
<1>13. EmailsApart'
  BY <1>2 DEF IInv, EmailsApart, EmployeeSaved
<1>14. QED
  BY <1>7, <1>8, <1>10, <1>11, <1>12, <1>13 DEF IInv, CallsInv

-----------------------------------------------------------------------------
\* Empty tables and no call.
LEMMA InitialState == Init => IInv
<1> SUFFICES ASSUME Init PROVE IInv
  OBVIOUS
<1> USE DEF Init
<1>1. /\ Idle \in CallState /\ Idle.step = "idle"
      /\ Idle.op = "register" /\ Idle.domain = None
  BY DEF Idle, CallState, Step
<1>2. TypeOK
  BY <1>1 DEF TypeOK, TenantRows, EmployeeRows, RoleRows, UserRoleRows, CompensationRows
<1>3. \A c \in Call : calls[c].domain = None /\ ~Busy(c) /\ calls[c].op = "register"
  BY <1>1 DEF Busy, Ended
<1>4. CallsInv
  BY <1>3 DEF CallsInv, CallTyped, SavedSoFar
<1>5. TablesInv /\ AuditedIsComplete /\ StaffIsNotAdmin
  BY DEF TablesInv, AuditedIsComplete, StaffIsNotAdmin
<1>6. OneAdminPerTenant
  BY <1>3, ProvisioningAssumption DEF OneAdminPerTenant, IsAdmin, Registering
<1>7. EmailsApart
  BY <1>3 DEF EmailsApart, EmployeeSaved, Busy, Ended
<1>8. QED
  BY <1>2, <1>4, <1>5, <1>6, <1>7 DEF IInv

\* Every step of every call keeps the invariant.
LEMMA InvariantStep == IInv /\ [Next]_vars => IInv'
<1> SUFFICES ASSUME IInv, [Next]_vars PROVE IInv'
  OBVIOUS
<1>1. form \in FormState
  BY DEF IInv, TypeOK, FormState
<1>2. ASSUME NEW c \in Call, Statement(c)
      PROVE  IInv'
  BY <1>1, <1>2, SaveTenantStep, FindRoleStep, SaveRoleStep, SaveEmployeeStep,
     SaveCompensationStep, SaveUserRoleStep, SaveAuditStep DEF Statement
<1>3. ASSUME NEW c \in Call, Answer(c) \/ (Fail(c) /\ UNCHANGED <<claims, form>>)
      PROVE  IInv'
  BY <1>1, <1>3, CallEnds DEF Answer, Fail, Ended
<1>4. ASSUME NEW c \in Call, Request(c)
      PROVE  IInv'
  BY <1>1, <1>4, RegisterTenantStep, OnboardEmployeeStep DEF Request
<1>5. ASSUME NEW e \in Email, LoginUser(e)
      PROVE  IInv'
  BY <1>5, LoginUserStep
<1>6. ASSUME NEW d \in Domain, NEW e \in Email, SubmitForm(d, e)
      PROVE  IInv'
  BY <1>6, RegisterTenantStep, ProvisioningAssumption DEF SubmitForm, FormState
<1>7. ASSUME UNCHANGED tables, UNCHANGED <<calls, claims>>, form' \in FormState
      PROVE  IInv'
  <2>1. TypeOK'
    BY <1>7 DEF IInv, TypeOK, FormState, tables
  <2>2. CallsInv' /\ TablesInv'
    BY <1>7 DEF IInv, CallsInv, CallTyped, SavedSoFar, Busy, EmployeeSaved, SomeAdmin, HasAdmin,
                IsAdmin, Role, TablesInv, tables
  <2>3. AuditedIsComplete' /\ StaffIsNotAdmin' /\ OneAdminPerTenant'
    BY <1>7 DEF IInv, AuditedIsComplete, StaffIsNotAdmin, OneAdminPerTenant, IsAdmin, Registering,
                tables
  <2>4. EmailsApart'
    BY <1>7 DEF IInv, EmailsApart, EmployeeSaved
  <2>5. QED
    BY <2>1, <2>2, <2>3, <2>4 DEF IInv
<1>8. CASE FormSucceeds \/ FormFails
  <2>1. form' \in FormState /\ UNCHANGED tables /\ UNCHANGED claims
    BY <1>8 DEF FormSucceeds, FormFails, FormState
  <2>2. End(Form, "idle") \/ UNCHANGED calls
    BY <1>8 DEF FormSucceeds, FormFails
  <2>3. QED
    BY <1>7, <2>1, <2>2, CallEnds, ProvisioningAssumption DEF Ended
<1>9. CASE LeaveForm \/ OpenForm \/ UNCHANGED vars
  BY <1>1, <1>7, <1>9 DEF LeaveForm, OpenForm, FormState, vars, tables
<1>10. QED
  BY <1>2, <1>3, <1>4, <1>5, <1>6, <1>8, <1>9 DEF Next

\* The inductive invariant: what the saves done so far have left, call by call.
THEOREM InvariantHolds == Spec => []IInv
BY InitialState, InvariantStep, PTL DEF Spec

\* Type correctness of the tables, the calls and the form.
THEOREM TypeCorrect == Spec => []TypeOK
<1>1. IInv => TypeOK
  BY DEF IInv
<1>2. QED
  BY <1>1, InvariantHolds, PTL

\* The audit log records only what was saved in full.
THEOREM AuditComplete == Spec => []AuditedIsComplete
<1>1. IInv => AuditedIsComplete
  BY DEF IInv
<1>2. QED
  BY <1>1, InvariantHolds, PTL

\* An employee has one role, and EMPLOYEE only by the rights of another who is an
\* admin.
THEOREM StaffIsApart == Spec => []StaffIsNotAdmin
<1>1. IInv => StaffIsNotAdmin
  BY DEF IInv
<1>2. QED
  BY <1>1, InvariantHolds, PTL

\* A tenant has one admin and one registration at most, however calls overlap.
THEOREM OneAdmin == Spec => []OneAdminPerTenant
<1>1. IInv => OneAdminPerTenant
  BY DEF IInv
<1>2. QED
  BY <1>1, InvariantHolds, PTL

-----------------------------------------------------------------------------
(* A lost domain stays lost.                                               *)

\* No step leaves a call past the tenant of a lost registration: to get there a
\* call would have to save the tenant again.
LEMMA NobodyResumes ==
    ASSUME IInv, NEW d \in Domain, Lost(d), NEW c \in Call,
           \/ \E s \in Ended : End(c, s)
           \/ calls[c].step # "tenant" /\ \E s \in Step : Go(c, s)
           \/ SaveTenant(c)
           \/ \E b \in Domain, e \in Email : RegisterTenant(c, b, e)
           \/ \E caller, e \in Email, header \in tenants \cup {None}, salary \in BOOLEAN :
                 OnboardEmployee(c, caller, header, e, salary)
    PROVE  \A k \in Call : Registering(k, d)' => calls'[k].step = "tenant"
<1> USE DEF Lost
<1>1. calls \in [Call -> CallState] /\ d # None
  BY ProvisioningAssumption DEF IInv, TypeOK
<1>2. CASE \E s \in Ended : End(c, s)
  <2>1. calls'[c].domain = None /\ \A k \in Call : k # c => calls'[k] = calls[k]
    BY <1>1, <1>2, EndStep
  <2>2. QED
    BY <1>1, <2>1 DEF Registering
<1>3. CASE calls[c].step # "tenant" /\ \E s \in Step : Go(c, s)
  <2>1. /\ calls'[c].op = calls[c].op /\ calls'[c].domain = calls[c].domain
        /\ \A k \in Call : k # c => calls'[k] = calls[k]
    BY <1>1, <1>3, GoStep
  <2>2. QED
    BY <1>3, <2>1 DEF Registering
<1>4. CASE SaveTenant(c)
  <2>1. CASE calls[c].domain \in tenants
    BY <1>2, <1>4, <2>1 DEF SaveTenant, Ended
  <2>2. CASE calls[c].domain \notin tenants
    <3>1. Go(c, "findRole")
      BY <1>4, <2>2 DEF SaveTenant
    <3>2. /\ calls'[c].domain = calls[c].domain
          /\ \A k \in Call : k # c => calls'[k] = calls[k]
      BY <1>1, <3>1, GoStep DEF Step
    <3>3. QED
      BY <2>2, <3>2 DEF Registering
  <2>3. QED
    BY <2>1, <2>2
<1>5. CASE \E b \in Domain, e \in Email : RegisterTenant(c, b, e)
  <2>1. PICK b \in Domain, e \in Email : RegisterTenant(c, b, e)
    BY <1>5
  <2>2. calls'[c].domain \in {None, b} /\ \A k \in Call : k # c => calls'[k] = calls[k]
    BY <1>1, <2>1 DEF RegisterTenant, Idle
  <2>3. calls'[c].domain = b => calls'[c].step = "tenant" \/ b = None
    BY <1>1, <2>1 DEF RegisterTenant, Idle
  <2>4. QED
    BY <1>1, <2>2, <2>3 DEF Registering
<1>6. CASE \E caller, e \in Email, header \in tenants \cup {None}, salary \in BOOLEAN :
             OnboardEmployee(c, caller, header, e, salary)
  <2>1. /\ calls'[c].domain = None \/ calls'[c].op = "onboard"
        /\ \A k \in Call : k # c => calls'[k] = calls[k]
    BY <1>1, <1>6 DEF OnboardEmployee, Idle
  <2>2. QED
    BY <1>1, <2>1 DEF Registering
<1>7. QED
  BY <1>2, <1>3, <1>4, <1>5, <1>6

\* What a call may do to employees and roles makes no admin of a lost tenant.
LEMMA NoLateAdmin ==
    ASSUME IInv, NEW d \in Domain, Lost(d), NEW c \in Call,
           SaveEmployee(c) \/ SaveUserRole(c)
    PROVE  \A a \in Email : ~IsAdmin(a, d)'
<1> SUFFICES ASSUME NEW a \in Email, IsAdmin(a, d)'
             PROVE  FALSE
  OBVIOUS
<1>1. ~IsAdmin(a, d) /\ d # None
  BY ProvisioningAssumption DEF Lost
<1>2. PICK d0 \in Domain, e0 \in Email : d0 = calls[c].domain /\ e0 = calls[c].email
  BY DEF IInv, CallsInv, CallTyped, Busy, Ended, SaveEmployee, SaveUserRole, At
<1>3. SavedSoFar(c) /\ calls[c].op \in {"register", "onboard"}
  BY DEF IInv, CallsInv, TypeOK, CallState
<1>4. employees \in [Email -> Domain \cup {None}] /\ userRoles \in [Email -> SUBSET RoleName]
  BY DEF IInv, TypeOK, EmployeeRows, UserRoleRows
<1>5. CASE SaveEmployee(c)
  BY <1>1, <1>2, <1>4, <1>5 DEF SaveEmployee, IInv, TablesInv, IsAdmin
<1>6. CASE SaveUserRole(c)
  <2>1. employees[e0] = d0 /\ calls[c].step = "userRole"
    BY <1>2, <1>3, <1>6 DEF SaveUserRole, At, SavedSoFar, Busy, Ended, EmployeeSaved
  <2>2. employees' = employees /\ userRoles' = [userRoles EXCEPT ![e0] = @ \cup {Role(c)}]
    BY <1>2, <1>6 DEF SaveUserRole
  <2>3. a = e0 /\ Role(c) = "ADMIN"
    BY <1>1, <1>4, <2>2 DEF IsAdmin
  <2>4. Registering(c, d)
    BY <1>2, <1>3, <2>1, <2>2, <2>3 DEF IsAdmin, Role, Registering
  <2>5. QED
    BY <2>1, <2>4 DEF Lost
<1>7. QED
  BY <1>5, <1>6

\* No step gives a lost domain an administrator.
LEMMA LostStays ==
    ASSUME IInv, [Next]_vars, NEW d \in Domain, Lost(d)
    PROVE  Lost(d)'
<1>1. ASSUME tenants \subseteq tenants',
             \A a \in Email : ~IsAdmin(a, d)',
             \A k \in Call : Registering(k, d)' => calls'[k].step = "tenant"
      PROVE  Lost(d)'
  BY <1>1 DEF Lost
<1>2. UNCHANGED <<employees, userRoles>> => \A a \in Email : ~IsAdmin(a, d)'
  BY DEF Lost, IsAdmin
<1>3. ASSUME NEW c \in Call, Statement(c)
      PROVE  Lost(d)'
  <2>1. CASE SaveTenant(c)
    BY <1>1, <1>2, <2>1, NobodyResumes DEF SaveTenant
  <2>2. CASE FindRole(c) \/ SaveRole(c) \/ SaveCompensation(c)
    <3>1. \/ \E s \in Ended : End(c, s)
          \/ calls[c].step # "tenant" /\ \E s \in Step : Go(c, s)
      BY <2>2 DEF FindRole, SaveRole, SaveCompensation, At, AfterRole, Step, Ended
    <3>2. UNCHANGED <<tenants, employees, userRoles>>
      BY <2>2 DEF FindRole, SaveRole, SaveCompensation, tables
    <3>3. QED
      BY <1>1, <1>2, <3>1, <3>2, NobodyResumes
  <2>3. CASE SaveEmployee(c) \/ SaveUserRole(c)
    <3>1. \/ \E s \in Ended : End(c, s)
          \/ calls[c].step # "tenant" /\ \E s \in Step : Go(c, s)
      BY <2>3 DEF SaveEmployee, SaveUserRole, At, AfterEmployee, Step, Ended
    <3>2. UNCHANGED tenants
      BY <2>3 DEF SaveEmployee, SaveUserRole
    <3>3. QED
      BY <1>1, <2>3, <3>1, <3>2, NobodyResumes, NoLateAdmin
  <2>4. CASE SaveAudit(c)
    BY <1>1, <1>2, <2>4, NobodyResumes DEF SaveAudit, Ended
  <2>5. QED
    BY <1>3, <2>1, <2>2, <2>3, <2>4 DEF Statement
<1>4. ASSUME NEW c \in Call, Answer(c) \/ Fail(c)
      PROVE  Lost(d)'
  BY <1>1, <1>2, <1>4, NobodyResumes DEF Answer, Fail, Ended, tables
<1>5. ASSUME NEW c \in Call,
             \/ \E b \in Domain, e \in Email : RegisterTenant(c, b, e)
             \/ \E caller, e \in Email, header \in tenants \cup {None}, salary \in BOOLEAN :
                 OnboardEmployee(c, caller, header, e, salary)
      PROVE  Lost(d)'
  BY <1>1, <1>2, <1>5, NobodyResumes DEF RegisterTenant, OnboardEmployee, tables
<1>6. ASSUME UNCHANGED tables, UNCHANGED calls
      PROVE  Lost(d)'
  BY <1>6 DEF Lost, tables, IsAdmin, Registering
<1>7. CASE \E b \in Domain, e \in Email : SubmitForm(b, e)
  BY <1>5, <1>7, ProvisioningAssumption DEF SubmitForm
<1>8. CASE FormSucceeds \/ FormFails
  <2>1. UNCHANGED tables /\ (UNCHANGED calls \/ End(Form, "idle"))
    BY <1>8 DEF FormSucceeds, FormFails
  <2>2. QED
    BY <1>1, <1>2, <1>6, <2>1, NobodyResumes, ProvisioningAssumption DEF Ended, tables
<1>9. CASE LeaveForm \/ OpenForm \/ UNCHANGED vars \/ \E e \in Email : LoginUser(e)
  BY <1>6, <1>9 DEF LeaveForm, OpenForm, LoginUser, vars, tables
<1>10. QED
  BY <1>3, <1>4, <1>5, <1>7, <1>8, <1>9 DEF Next, Request

\* The domain of a registration that failed half way is lost for ever.
THEOREM LostIsForEver == Spec => LostForEver
<1>1. IInv /\ [Next]_vars => [\A d \in Domain : Lost(d) => Lost(d)']_vars
  BY LostStays
<1>2. QED
  BY <1>1, InvariantHolds, PTL DEF Spec, LostForEver
=============================================================================

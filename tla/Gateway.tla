------------------------------- MODULE Gateway -------------------------------
(***************************************************************************)
(* What the API gateway decides for one HTTP request: its routes, their    *)
(* guards in order (JwtAuthGuard, TenantGuard, PermissionGuard), then the  *)
(* validation of the body.                                                 *)
(*                                                                         *)
(* The gateway keeps no state, so this module declares no variable.  Other *)
(* modules ask it for the status of a request.                             *)
(***************************************************************************)
CONSTANTS None,                   \* undefined
          ForbidNonWhitelisted    \* an option of the ValidationPipe

Public == {"registerTenant", "login", "refresh"}
EmployeeRoutes == {"onboardEmployee", "getMyProfile", "getEmployeeById"}
LeaveRoutes == {"submitLeave", "approveLeave", "rejectLeave", "verifyLeave",
                "getMyLeaves", "getLeaveBalances", "getLeaveById"}
PayrollRoutes == {"executePayroll", "getMyPaySlips", "getPaySlipById", "getPayrollRunById"}
Guarded == EmployeeRoutes \cup LeaveRoutes \cup PayrollRoutes

\* @Permission(...): the routes that need one, and which.
EmployeePermissions == {<<"onboardEmployee", "employees:create">>, <<"getEmployeeById", "employees:read">>}
LeavePermissions == {<<"approveLeave", "leaves:approve">>, <<"rejectLeave", "leaves:approve">>,
                     <<"verifyLeave", "leaves:verify">>}
PayrollPermissions == {<<"executePayroll", "payroll:execute">>, <<"getPayrollRunById", "payroll:read">>}
Permission == EmployeePermissions \cup LeavePermissions \cup PayrollPermissions

\* The bodies: the fields a DTO class requires, and those it allows besides.
RegisterTenantDto == [required |-> {"companyName", "domain", "adminEmail", "adminPassword",
                                    "adminFirstName", "adminLastName"},
                      optional |-> {}]
LoginUserDto == [required |-> {"email", "password"}, optional |-> {}]
RefreshTokenDto == [required |-> {"refreshToken"}, optional |-> {}]
OnboardEmployeeDto == [required |-> {"firstName", "lastName", "email"},
                       optional |-> {"password", "departmentId", "positionId", "managerId",
                                     "baseSalary", "currency"}]
SubmitLeaveDto == [required |-> {"leaveTypeId", "startDate", "endDate"}, optional |-> {"reason"}]
ApproveLeaveDto == [required |-> {}, optional |-> {"comments"}]
RejectLeaveDto == [required |-> {"rejectionReason"}, optional |-> {}]
ExecutePayrollDto == [required |-> {"period"}, optional |-> {}]

Body == [registerTenant  |-> RegisterTenantDto, login |-> LoginUserDto, refresh |-> RefreshTokenDto,
         onboardEmployee |-> OnboardEmployeeDto,
         submitLeave     |-> SubmitLeaveDto, approveLeave |-> ApproveLeaveDto,
         rejectLeave     |-> RejectLeaveDto, verifyLeave |-> ApproveLeaveDto,
         executePayroll  |-> ExecutePayrollDto]

\* A request: its route, the claims of its bearer token (None when it has no
\* token or one that does not verify), its x-tenant-id header, its body.
Accepted(route, fields) ==
    route \in DOMAIN Body =>
        /\ Body[route].required \subseteq fields
        /\ ForbidNonWhitelisted => fields \subseteq Body[route].required \cup Body[route].optional

\* JwtStrategy.validate: req.user has the claim `sub` under the name `id` only.
User(claims) == [id |-> claims.sub, tenantId |-> claims.tenantId,
                 roles |-> claims.roles, permissions |-> claims.permissions]

\* TenantGuard: the header first, then the claim.
TenantId(header, user) == IF header # None THEN header ELSE user.tenantId

\* PermissionGuard.
Permitted(route, user) ==
    \/ "ADMIN" \in user.roles
    \/ \A p \in Permission : p[1] = route => p[2] \in user.permissions

\* The status the gateway answers by itself, or 200 when it forwards.
Status(route, claims, header, fields) ==
    IF route \in Guarded /\ (claims = None \/ (claims.sub = None \/ claims.tenantId = None)) THEN 401
    ELSE IF route \in Guarded /\ TenantId(header, User(claims)) = None THEN 403
    ELSE IF route \in Guarded /\ ~Permitted(route, User(claims)) THEN 403
    ELSE IF ~Accepted(route, fields) THEN 400
    ELSE 200
=============================================================================

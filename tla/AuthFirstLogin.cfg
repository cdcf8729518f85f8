CONSTANTS
    None = None
    Users = {ann}
    Devices = {d1, d2}
    Passwords = {p1, p2}
    Roles <- MCRoles
    RoleTemplate <- MCRoleTemplate
    AccessDtos <- MCAccessDtos
    SessionIds = {s1, s2, s3}
    LinkIds = {l1, l2}
    Windows = {minute}
    MaxLoginAttempts <- MCLimits
    MaxPasswordChanges = 1
    MaxForgotPasswordRequests = 1
    MaxActiveDeviceSessions = 1
    MaxFailedLoginAttempts = 1
    Handlers = {h1}
    MaxFailures = 1
    MaxRequests = 5
SPECIFICATION Spec
INVARIANT TokensNameTheirSession
CHECK_DEADLOCK FALSE

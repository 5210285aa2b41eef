CONSTANTS
    User = {1, 2}
    FirstAdmins = {1, 2}
    Request = {r1, r2}
    None = None
    Wanted = {"active"}
    RoleChanges = TRUE
    Lockouts = FALSE
    Faults = FALSE
SPECIFICATION Spec
INVARIANT SomeActiveAdmin

CONSTANTS
    User = {1, 2}
    FirstAdmins = {1}
    Request = {r1, r2}
    None = None
    Wanted = {"active", "locked"}
    RoleChanges = TRUE
    Lockouts = TRUE
    Faults = TRUE
SPECIFICATION FairSpec
INVARIANTS
    TypeOK
    ExpiryOnlyOfLocked
PROPERTY EveryUpdateAnswered

CONSTANTS
    User = {u1}
    Challenge = {c1}
    Request = {r1, r2}
    None = None
    MaxAttempts = 2
    MaxIssuancesPerWindow = 2
    IssuanceWindow = 1
    ChallengeTTL = 3
    ResendInterval = 1
    Granted = {"SELECT", "INSERT", "UPDATE"}
    Faults = FALSE
    MaxTime = 3
    MaxCodes = 2
SPECIFICATION Spec
SYMMETRY Symmetry
INVARIANT UndeliveredIsCancelled

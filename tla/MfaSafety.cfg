CONSTANTS
    User = {u1}
    Challenge = {c1, c2}
    Request = {r1, r2}
    None = None
    MaxAttempts = 2
    MaxIssuancesPerWindow = 1
    IssuanceWindow = 1
    ChallengeTTL = 3
    ResendInterval = 1
    Granted = {"SELECT", "INSERT", "UPDATE", "DELETE"}
    Faults = TRUE
    MaxTime = 3
    MaxCodes = 3
SPECIFICATION Spec
SYMMETRY Symmetry
INVARIANTS
    TypeOK
    OneOpenChallenge
    IssuanceCap
    ConfirmedCodeStands
    UndeliveredIsCancelled
PROPERTY SessionOnlyWhileValid

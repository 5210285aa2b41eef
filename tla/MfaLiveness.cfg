CONSTANTS
    User = {u1}
    Challenge = {c1, c2}
    Request = {r1, r2}
    None = None
    MaxAttempts = 1
    MaxIssuancesPerWindow = 1
    IssuanceWindow = 0
    ChallengeTTL = 1
    ResendInterval = 0
    Granted = {"SELECT", "INSERT", "UPDATE"}
    Faults = FALSE
    MaxTime = 1
    MaxCodes = 2
SPECIFICATION FairSpec
PROPERTY EveryRequestAnswered

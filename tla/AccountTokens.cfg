SPECIFICATION FairSpec
CONSTANTS
  User = {boss, emp}
  Founder = {boss}
  Reopened = {emp}
  Request = {r1, r2}
  None = None
  MaxTokens = 2
  Faults = TRUE
INVARIANTS TypeOK SingleUse StoredWasMailed
PROPERTIES ImplementsInvitations StartsSpareLive EveryRequestAnswered
CHECK_DEADLOCK FALSE

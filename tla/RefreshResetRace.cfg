CONSTANTS
    User = {u1}
    Family = {f1}
    Token = {t1, t2, t3}
    Request = {r1, r2}
    None = None
    MaxResets = 1
    Faults = FALSE
SPECIFICATION Spec
PROPERTY ResetEndsSessions

SPECIFICATION DirectorySpec
CONSTANTS
  User = {a1, a2, u1}
  Admin = {a1, a2}
  Role = {x1, x2}
  Seeded = {x1}
  Permission = {p1, p2}
  Declared = {p1}
  Foreign = {u1}
  Request = {r1, r2}
  None = None
  Faults = TRUE
  Key = {k1}
  Client = {c1, c2}
  Null = Null
  Throttle = 1
  Lifetime = 3
  MaxTime = 4
  Lost = TRUE
SYMMETRY Symmetry
INVARIANTS DirectoryTypeOK AuditTellsPermissions
PROPERTIES ControlsStand RowsAdvance

SPECIFICATION Spec
CONSTANTS
  User = {u1, u2}
  Wants = {u2}
  Active = {u2}
  Message = {m1, m2}
  Old = m1
  Fetch = {f1, f2}
  Pages = 1
  None = None
  Faults = TRUE
SYMMETRY Symmetry
INVARIANTS TypeOK OnlyMembers ReachesMember
PROPERTY PointerForward

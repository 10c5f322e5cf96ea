CONSTANTS
  Nobody = Nobody
  User = {a, b}
  Msg = {m1, m2}
  Limit = 1
  Active = {b}
  Newcomers = {b}
  Faults = TRUE
SYMMETRY Symmetry
SPECIFICATION Spec
INVARIANTS TypeOK BlockHolds ClashOnlyAtFirst ReachesReceiver

CONSTANTS
  NoUser = NoUser
  User = {a, b}
  Req = {r1, r2}
  MaxJoins = 2
  Faults = TRUE
SPECIFICATION HistorySpec
SYMMETRY Symmetry
INVARIANT SeatsAccounted

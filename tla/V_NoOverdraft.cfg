CONSTANTS
  NoUser = NoUser
  User = {a, b, c}
  Req = {r1, r2}
  Ops = {"report"}
  MaxLeaves = 0
  Faults = FALSE
SPECIFICATION Spec
INVARIANT NoOverdraft

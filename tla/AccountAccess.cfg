SPECIFICATION Spec
CONSTANTS
  Password = {p1, p2}
  Req = {r1, r2}
  MaxCodes = 2
  None = None
  Faults = TRUE
SYMMETRY Symmetry
VIEW Seen
INVARIANTS TypeOK LockedStaysOut TrustedKnewPassword CodesWork ToggleCounted

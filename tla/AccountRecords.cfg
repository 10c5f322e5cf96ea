SPECIFICATION Spec
CONSTANTS
  User = {u1, u2}
  Active = {u1}
  Name = {n1, n2}
  Plate = {p1}
  Spelling = {s1, s2}
  Vehicle = {v1}
  File = {f1, f2}
  Req = {r1, r2}
  None = None
  Faults = TRUE
SYMMETRY Symmetry
INVARIANTS RowsSound LicenceSharedByRaceOnly VehicleAsAsked AvatarOnDisk

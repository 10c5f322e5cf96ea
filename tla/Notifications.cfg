SPECIFICATION Spec
CONSTANTS
  User = {a, b}
  Admin = {a}
  Ratee = b
  Near = {a, b}
  Active = {b}
  Job = {j1, j2}
  Scenes <- MCScenes
  None = None
  Faults = TRUE
SYMMETRY Symmetry
INVARIANTS TypeOK SilentWhenOff ReachedByEvent

CONSTANTS
  NoDoc = NoDoc
  Doc = {d1, d2, d3}
  Req = {r1, r2}
  Faults = TRUE
SPECIFICATION Spec
INVARIANTS TypeOK DocumentsAgree

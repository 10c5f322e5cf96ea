CONSTANTS
  NoUser = NoUser
  User = {a, b, c}
  Req = {r1, r2}
  MaxJoins = 2
  Faults = TRUE
SPECIFICATION HistorySpec
SYMMETRY Symmetry
VIEW RowsAndCount
INVARIANTS TypeOK CountAccounted AdminlessByRaceOnly EmptyGroupEnds
           DropsNewcomersOnly
PROPERTY ImplementsRoster

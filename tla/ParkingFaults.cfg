CONSTANTS
  NoUser = NoUser
  User = {a, b}
  Req = {r1, r2}
  Ops = {"leave", "report", "reserve", "delete"}
  MaxLeaves = 2
  Faults = TRUE
SPECIFICATION HistorySpec
SYMMETRY Symmetry
VIEW CreditsAndReports
CONSTRAINT FewFaults
INVARIANTS TypeOK OverdraftBounded ReceivedAccounted LedgerAccounted
           AwardsBounded ReportsAccounted

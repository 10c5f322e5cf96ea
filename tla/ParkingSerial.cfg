CONSTANTS
  NoUser = NoUser
  User = {a, b}
  Req = {r1}
  Ops = {"leave", "report", "reserve", "delete"}
  MaxLeaves = 2
  Faults = TRUE
SPECIFICATION FairSpec
PROPERTY ReceivedCatchesUp

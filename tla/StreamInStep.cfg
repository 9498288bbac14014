SPECIFICATION FairSpec
CONSTANTS
  p1 = p1  p2 = p2  Absent = Absent  None = None
  Pid = {p1, p2}
  Row <- Rows
  Scan <- Churn
  MaxInFlight = 2
  Faults = {"restart", "unordered"}
PROPERTIES Mirrors GetsInStep CatchesUp

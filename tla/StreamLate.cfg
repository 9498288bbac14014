SPECIFICATION FairSpec
CONSTANTS
  p1 = p1  p2 = p2  Absent = Absent  None = None
  Pid = {p1, p2}
  Row <- Rows
  Scan <- Tables
  MaxInFlight = 2
  Faults = {}
PROPERTY LateWindowsCatchUp

SPECIFICATION FairSpec
CONSTANTS
  p1 = p1  p2 = p2  Leave = Leave  Absent = Absent  Hidden = Hidden
  Pid = {p1}
  Name = {"fps"}
  Critical = {}
  Own = {}
  Catalog = {}
  Clickable = {"fps"}
  Program <- OneGame
  Young = {TRUE}
  Level = {"software", "game"}
  AutoGame <- Auto
  Key = {"fps"}
  KeyOrder <- KeyOrders
  HandRules <- ByHand
  MaxInbox = 1
  MaxFrames = 0
  Faults = {"disconnect", "restart", "renice"}
INVARIANT TypeOK
PROPERTIES NotNowEnds GamesAreNoticed RulesApply

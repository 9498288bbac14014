SPECIFICATION FairSpec
CONSTANTS
  p1 = p1  p2 = p2  Leave = Leave  Absent = Absent  Hidden = Hidden
  Pid = {p1, p2}
  Name = {"fps"}
  Critical = {}
  Own = {}
  Catalog = {}
  Clickable = {}
  Program <- OneGame
  Young = {FALSE}
  Level = {"software", "game"}
  AutoGame <- Auto
  Key = {"fps"}
  KeyOrder <- KeyOrders
  HandRules <- NoHand
  MaxInbox = 1
  MaxFrames = 0
  Faults = {}
PROPERTY GamesGetTheirTier

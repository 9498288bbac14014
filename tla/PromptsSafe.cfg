SPECIFICATION Spec
CONSTANTS
  p1 = p1  p2 = p2  Leave = Leave  Absent = Absent  Hidden = Hidden
  Pid = {p1, p2}
  Name = {"fps", "kwin"}
  Critical = {"kwin"}
  Own = {}
  Catalog = {}
  Clickable = {}
  Program <- GameAndKwin
  Young = {FALSE}
  Level = {"software", "game"}
  AutoGame <- Auto
  Key = {"fps", "kwin"}
  KeyOrder <- KeyOrders
  HandRules <- NoHand
  MaxInbox = 1
  MaxFrames = 0
  Faults = {"disconnect", "tray"}
SYMMETRY Pids
INVARIANTS NeverAsked NotNowLasts
PROPERTIES AskedOnce AnswersStick

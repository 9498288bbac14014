SPECIFICATION FairSpec
CONSTANTS
  s1 = s1  s2 = s2  v1 = v1  v2 = v2
  Setting = {s1}
  Value = {v1, v2}
  Bad = Bad  Missing = Missing
  PromoteDebounce = 2
  WriteDebounce = 1
  Tolerance = 1
  LastEdit = 2
  MaxTime = 6
  Faults = {"bad", "deaf", "halt", "readonly", "denied", "remove", "clash", "race"}
INVARIANTS PromotedIsLast
PROPERTIES Registered PromotesSettled PromotesAreCaused ChangesNoticed EditsTakeEffect EditsReachRoot
CHECK_DEADLOCK FALSE

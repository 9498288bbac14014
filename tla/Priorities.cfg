SPECIFICATION FairSpec
CONSTANTS
  Pid = {1, 2}
  Name = {"app", "a b", "a b c"}  Spaced = {"a b", "a b c"}  Twice = {"a b c"}
  Nice <- NiceValues
  Io = {"be", "idle", "rt"}  RtIo = "rt"  Leave = Leave  Absent = Absent
  Target <- Targets  Program <- Programs  Found <- Finds  Config <- Configs
  MaxTicks = 2  MaxDeeds = 2
INVARIANTS TypeOK
PROPERTIES CpuNotInvented NoNagging OnlyTheNamed Settles

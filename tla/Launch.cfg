SPECIFICATION FairSpec
CONSTANTS
  g1 = g1  g2 = g2  NoFile = NoFile  Stale = Stale
  Gui = {g1, g2}
  MaxDeeds = 3
INVARIANTS OneOnStage AloneIsReachable UninstallUndoes
PROPERTIES InstallCompletes PingsAreSeen UnitComesUp UpdateTakesEffect
CHECK_DEADLOCK FALSE

SPECIFICATION FairSpec
CONSTANTS
  p1 = p1  p2 = p2
  game = game  app = app  kwin = kwin
  u1 = u1  u2 = u2  d1 = d1  d2 = d2  v1 = v1  v2 = v2
  Unset = Unset  Strays = Strays  Gone = Gone  NoRule = NoRule  Absent = Absent
  Value = {v1, v2}
  ValidSize = {v1}
  Pid = {p1, p2}
  Name = {game, app}
  Critical = {}
  Origin = {u1}
  Dir = {d1, d2}
  DirOf <- OwnDir
  Limits <- BadSize
  Faults = {"drop", "exec", "denied"}
INVARIANTS LimitsInForce NoLeftovers
PROPERTY Applied

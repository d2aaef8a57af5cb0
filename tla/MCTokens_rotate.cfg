CONSTANTS
  Rotations = {r1}
  Enrollments = {e1}
  JoinTokens = {j1}
  NoRequest = NoRequest
  MaxSecret = 5
  MaxTime = 1
  Interval = 1
  MaxRestarts = 2
  InitialAgents <- NewOrUp
  Env = {"lost"}
SPECIFICATION FairSpec
INVARIANTS TypeOK PanelAccepted
PROPERTIES RollsOver RotationConverges
CHECK_DEADLOCK FALSE

CONSTANTS
  Rotations = {r1, r2}
  Enrollments = {}
  JoinTokens = {}
  NoRequest = NoRequest
  MaxSecret = 4
  MaxTime = 0
  Interval = 1
  MaxRestarts = 1
  InitialAgents <- Up
  Env = {"lost", "late_push", "disk_error", "torn_write"}
SPECIFICATION Spec
PROPERTIES StaysEnrolled
CHECK_DEADLOCK FALSE

CONSTANTS
  Rows = {s1, s2}
  Requests = {q1, q2}
  Boot = Boot
  Patterns = {hourly, daily}
  Bad = Bad
  Kinds = {"backup", "cron"}
  MaxChanges = 3
  MaxFaults = 2
SPECIFICATION Spec
INVARIANTS TypeOK NothingUnscheduled Rebuilt
CHECK_DEADLOCK FALSE

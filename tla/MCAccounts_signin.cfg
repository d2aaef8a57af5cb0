CONSTANTS
  Requests = {q1, q2, q3}
  First = First
  Kinds = {"login", "refresh", "change", "enable", "disable", "register"}
  Emails = {m1, m2}
  AnyEmail = AnyEmail
  MaxFailures = 2
  Env = {}
SPECIFICATION Spec
SYMMETRY Symmetry
INVARIANTS DisableEndsSessions FailuresAreTimed 
CHECK_DEADLOCK FALSE

CONSTANTS
  Requests = {q1, q2}
  First = First
  Kinds = {"refresh"}
  Emails = {}
  AnyEmail = AnyEmail
  MaxFailures = 2
  Env = {}
SPECIFICATION SpecWeb
INVARIANTS ExpiryIsTransparent
CHECK_DEADLOCK FALSE

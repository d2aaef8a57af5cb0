CONSTANTS
  Requests = {q1, q2, q3}
  First = First
  Kinds = {"login", "sso", "refresh", "onboard", "change", "enable", "disable", "logout"}
  Emails = {}
  AnyEmail = AnyEmail
  MaxFailures = 2
  Env = {"redis_error", "redis_resend", "request_dies", "api_token"}
SPECIFICATION Spec
SYMMETRY Symmetry
INVARIANTS TypeOK SessionsFollowPassword ReuseEndsChain RedeemedOnce
PROPERTIES SessionsComeAndEnd
CHECK_DEADLOCK FALSE

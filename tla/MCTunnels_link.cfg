CONSTANTS
  Calls = {s1}
  Procs = {p1, p2}
  Conns = {k1, k2}
  None = None
  Modes = {"tofu", "pinned"}
  MaxFaults = 1
SPECIFICATION FairSpec
INVARIANTS TypeOK OpenIsRegistered OneKeyTrusted
PROPERTIES Reconnects
CHECK_DEADLOCK FALSE

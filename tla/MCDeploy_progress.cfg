CONSTANTS
  Deployments = {d1, d2}
  Refs = {r1}
  NoDep = NoDep
  Kinds = {"git", "image", "compose"}
  WorkerSlots = 2
  MaxStalls = 1
  MaxRestarts = 1
  Env = {"agent_unreached", "reply_lost", "db_error", "lock_overrun", "ack_lost"}
  InitialRows <- OnlyZeroDown
SPECIFICATION FairSpec
INVARIANTS TypeOK
  
CHECK_DEADLOCK FALSE

CONSTANTS
  Deployments = {d1, d2, d3}
  Refs = {}
  NoDep = NoDep
  Kinds = {"git"}
  WorkerSlots = 2
  MaxStalls = 1
  MaxRestarts = 0
  Env = {"agent_unreached", "edit", "power"}
  InitialRows <- OnlyZeroDown
SPECIFICATION Spec
SYMMETRY Symmetry
INVARIANTS OneDeployAtATime ActiveColorLive CurrentImageKept
CHECK_DEADLOCK FALSE

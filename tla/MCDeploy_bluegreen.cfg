CONSTANTS
  Deployments = {d1, d2, d3}
  Refs = {}
  NoDep = NoDep
  Kinds = {"git", "compose"}
  WorkerSlots = 2
  MaxStalls = 1
  MaxRestarts = 0
  Env = {"edit", "remove"}
  InitialRows <- AnySettings
SPECIFICATION Spec
SYMMETRY Symmetry
INVARIANTS VolumeExclusive
PROPERTIES OldLeftServing DeploysTakeTurns
CHECK_DEADLOCK FALSE

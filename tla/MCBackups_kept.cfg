CONSTANTS
  N = 3
  KeepLast = 1
  Batch = 2
  Users = {u}
  Schedule = Schedule
  MaxUses = 1
  MaxFaults = 1
SPECIFICATION FairSpec
INVARIANTS TypeOK SuccessIsWhole RetentionKeeps VolumeKept
PROPERTIES OffsiteInTheEnd
CHECK_DEADLOCK FALSE

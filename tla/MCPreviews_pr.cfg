CONSTANTS
  Hooks = {h1, h2}
  Children = {c1, c2}
  None = None
  HasDomain = TRUE
  MaxEvents = 3
  MaxFaults = 1
SPECIFICATION FairSpec
INVARIANTS TypeOK OnePreview 
PROPERTIES PreviewsEnd
CHECK_DEADLOCK FALSE

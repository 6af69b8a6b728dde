SPECIFICATION Spec
CONSTANTS
  j1 = j1
  j2 = j2
  Jobs <- MCJobs
  N = 2
  ToPark <- MCToPark
  ParkTopic = TRUE
  Persistent = TRUE
  Threshold = 1
  MaxRecords = 1
  MaxRequests = 1
  MaxFaults = 0
  MaxStops = 1
  MaxCopies = 3
SYMMETRY Symmetry
INVARIANTS
  AtMostOneAfterCancel
  AcksAreCounted
  ScannedIsAccountedFor
  WatermarkCovers
  RepeatsHaveACause
PROPERTIES
  ImplementsReplayContract
  WatermarkAdvances

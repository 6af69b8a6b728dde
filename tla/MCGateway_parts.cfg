SPECIFICATION MCSpec
CONSTANTS
  i1 = i1
  i2 = i2
  s1 = s1
  s2 = s2
  c1 = c1
  c2 = c2
  c3 = c3
  p1 = p1
  p2 = p2
  p3 = p3
  a = a
  b = b
  Probes <- MCProbes
  MaxOffset = 2
  Signals <- MCSignals
  MaxRecords = 2
  ProbeInterval = 2
  ProbeTimeout = 1
  Callers <- MCCallers
  FailureThreshold = 3
  SuccessThreshold = 2
  RecoveryTimeout = 3
  MaxFailures = 5
  MaxOperatorActs = 2
  Rates <- MCRates
  poison = poison
  transient = transient
  other = other
  unknown = unknown
  Classes <- MCClasses
  PoisonErrors <- MCPoison
  TransientErrors <- MCTransient
  Default = "replay"
  MaxAttempts = 3
  MaxReplays = 4
  FirstAttempts <- MCFirstAttempts
  Puts <- MCPuts
  Bodies <- MCBodies
  FirstRoutes <- MCFirstRoutes
  ReplayEnabled = TRUE
  MaxFaults = 2
  MaxCrashes = 1
  Environments <- MCEnvironments
INVARIANTS
  NothingUsedAfterClose
  JobsAreToldFirst
  SnapshotIsRecent
  OutageShows
  DepthIsHonest
  BreakerInv
  QuietAfterTrip
  Throttled
  LiveIsFile
  FileIsWhole
  EveryRouteIsServed
  SettingsStand
PROPERTIES
  ShutdownsEnd
  CacheRecovers
  TripsOnConsecutiveFailures
  ClosesOnceBrokerIsBack
  PoisonStaysOut
  AnswersAreTrue
CHECK_DEADLOCK FALSE

SPECIFICATION Spec
CONSTANTS
  e1 = e1
  e2 = e2
  e3 = e3
  Events <- MCEventsAndMalformed
  Malformed <- MCMalformed
  Poison <- None
  BatchSize = 2
  BackoffMax = 2
  MaxAge = 1
  IdlePoll = 2
  BusyPoll = 1
  Sharing = FALSE
  MaxAttempts = 2
  MaxOverdue = 1
  MaxCopies = 2
  MaxDbFaults = 1
  MaxStops = 1
  FailureThreshold = 2
  SuccessThreshold = 1
  RecoveryTimeout = 2
  MaxFailures = 2
SYMMETRY Symmetry
INVARIANTS
  TypeOK
  AcceptedIsStored
  DispatchedWasDelivered
  DuplicatesHaveACause
  BatchIsPending
  AttemptsAreTries
PROPERTIES
  ImplementsContract

SPECIFICATION LoopSpec

CONSTANTS
  poison = poison
  transient = transient
  other = other
  unknown = unknown
  Classes <- MCClasses
  PoisonErrors <- MCPoison
  TransientErrors <- MCTransient
  Default = "replay"
  MaxAttempts = 3
  FirstAttempts <- MCNoAttempts
  MaxReplays = 4
INVARIANTS
  LoopGuard

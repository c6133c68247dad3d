\* Answers before the next heartbeat; refusals, closes and silence.
CONSTANTS
  HeartbeatInterval = 5
  AckLagThreshold = 2
  ReadDeadline = 12
  DialTimeout = 2
  BackoffCap = 6
  AckDelay = 4
  Budget <- Each
SPECIFICATION FairSpec
INVARIANTS TypeOK SilenceIsNoticed
PROPERTIES HealthyIsKept ComesBack

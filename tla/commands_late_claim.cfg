\* The deadline passes between the TTL check and the claim.
CONSTANTS
  a1 = a1
  a2 = a2
  t1 = t1
  t2 = t2
  hostClock = hostClock
  Commands = {1}
  AppRequests <- MCOneRequest
  Agents <- MCOneAgent
  Clocks = {hostClock}
  ClockOf <- MCHostClock
  Threads <- MCOneThread
  CatchUpLimit = 1
  Budget <- NoFaults
SPECIFICATION Spec
INVARIANTS LateClaimNeverRuns
CHECK_DEADLOCK FALSE

\* One row, two agents on one host, a dropped connection, a crash, a lost call.
CONSTANTS
  a1 = a1
  a2 = a2
  t1 = t1
  t2 = t2
  hostClock = hostClock
  Commands = {1}
  AppRequests <- MCOneRequest
  Agents <- MCTwoAgents
  Clocks = {hostClock}
  ClockOf <- MCHostClock
  Threads <- MCOneThread
  CatchUpLimit = 1
  Budget <- OneOfEach
SPECIFICATION FairSpec
INVARIANTS NothingMissed
PROPERTIES ClaimIsSettled OldNeverRuns PendingIsTaken
CHECK_DEADLOCK FALSE

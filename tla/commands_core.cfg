\* Two agents on two hosts, with two goroutines each, race for one row; one fault
\* of each kind.
CONSTANTS
  a1 = a1
  a2 = a2
  t1 = t1
  t2 = t2
  hostClock = hostClock
  Commands = {1}
  AppRequests <- MCRequests
  Agents <- MCTwoAgents
  Clocks <- MCTwoAgents
  ClockOf <- MCOwnClock
  Threads <- MCTwoThreads
  CatchUpLimit = 2
  Budget <- OneOfEach
SYMMETRY Symmetry
SPECIFICATION Spec
INVARIANTS TypeOK StartedAtMostOnce FinalStatusIsTrue ClaimedIsHeld
PROPERTIES FinalIsFinal LedgerSpec
CHECK_DEADLOCK FALSE

\* Three goroutines refresh at once, quickly or slowly, around two faults.
CONSTANTS
  main = main
  t1 = t1
  t2 = t2
  Main = main
  Others <- MCTwo
  MaxTokens = 3
  MaxFaults = 2
SPECIFICATION FairSpec
INVARIANTS TypeOK DiskKeepsUp CanResume GoneIsRevoked
PROPERTIES NotBurned OvertakesInVain RevokedIsNoticed
CHECK_DEADLOCK FALSE

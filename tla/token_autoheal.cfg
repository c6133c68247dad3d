\* A start that finds no private key, without any fault.
CONSTANTS
  main = main
  t1 = t1
  t2 = t2
  Main = main
  Others <- MCOne
  MaxTokens = 3
  MaxFaults = 0
SPECIFICATION Spec
INVARIANTS FaultlessKeepsUp
CHECK_DEADLOCK FALSE

\* Two rows and two goroutines.
CONSTANTS
  Reads = {c1, c2}
  Readers = {r1, r2}
SPECIFICATION FairSpec
INVARIANT TypeOK
PROPERTIES LedgerSpec ReadIsSettled

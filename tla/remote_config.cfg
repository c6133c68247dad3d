\* Three configurations, the second a kill switch; one command, one
\* outage and one crash.
CONSTANTS
  MaxVersion = 3
  TooNew <- Second
  Budget <- OneOfEach
SPECIFICATION FairSpec
INVARIANTS TypeOK
PROPERTIES NeverStepsBack AlwaysStarts CacheCatchesUp

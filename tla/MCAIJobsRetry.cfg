\* Tasks delivered twice, and database errors that make them run again.
SPECIFICATION FairSpec
CONSTANTS
  Analyses = {a1}
  Workers = {w1, w2}
  None = None
  MaxRetries = 2
  Faults = {"duplicate", "database", "refresh"}

  
PROPERTIES
  PromisesAreKept
\* Every analysis may have been asked for and settled.
CHECK_DEADLOCK FALSE

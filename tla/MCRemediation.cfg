\* A validation, findings runs, failures and the death of the server.
SPECIFICATION FairSpec
CONSTANTS
  Items = {1, 2}
  Original = 1
  Validator = v
  Runs = {r}
  Scans = {}
  Patches = {}
  Choices = {}
  Collections <- OneWithAFault
  Faults = {"collector", "rule", "raise", "death"}
INVARIANTS
  TypeOK
  ResolutionIsEarned
  PersistenceIsSeen
  OutcomesStand
PROPERTIES
  ValidationEnds
\* The request may have its outcome.
CHECK_DEADLOCK FALSE

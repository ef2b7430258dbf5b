\* A validation among findings runs, inventory scans and users; the collector may fail.
SPECIFICATION Spec
CONSTANTS
  Items = {1, 2}
  Original = 1
  Validator = v
  Runs = {r}
  Scans = {s}
  Patches = {p}
  Choices = {"open", "resolved"}
  Collections <- OneBesideAClean
  Faults = {"collector"}
INVARIANTS
  ResolutionIsEarned
PROPERTIES
  StatusesAreDecided
  ImplementsRemediationCase
\* The request may have its outcome.
CHECK_DEADLOCK FALSE

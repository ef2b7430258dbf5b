\* Lost publications, killed workers and database errors.
SPECIFICATION Spec
CONSTANTS
  Analyses = {a1, a2, a3}
  Workers = {w1, w2}
  None = None
  MaxRetries = 2
  Faults = {"outage", "death", "database"}
SYMMETRY Interchangeable
INVARIANTS
  TypeOK
  EndsAreClear
PROPERTIES
  EndsAreFinal
\* Every analysis may have been asked for and settled.
CHECK_DEADLOCK FALSE

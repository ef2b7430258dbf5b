\* Commands that are not interrupted, with every answer Checkov can give.
SPECIFICATION Spec
CONSTANTS
  p1 = p1
  p2 = p2
  d1 = d1
  Plans <- ThreePlans
  Destructive <- MCDestructive
  None = None
  Garbage = Garbage
  ScanResults = {"unavailable", "unparsed", "clean", "blocking", "critical"}
  ManyShells = FALSE
  ApplyEnabled = TRUE
  Interruptions = {}
VIEW LiveRows
INVARIANTS
  FindingsPreventApproval
  SnapshotIsOfOnePlan

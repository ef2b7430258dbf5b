\* A rejection, and the commands that follow it.
SPECIFICATION RejectionSpec
CONSTANTS
  p1 = p1
  p2 = p2
  d1 = d1
  Plans <- TwoPlans
  Destructive <- MCDestructive
  None = None
  Garbage = Garbage
  ScanResults = {"clean"}
  ManyShells = FALSE
  ApplyEnabled = TRUE
  Interruptions = {}
VIEW RejectionState
INVARIANT
  RejectionBlocksApply

SPECIFICATION Spec
CONSTANTS
  p1 = p1
  p2 = p2
  d1 = d1
  Plans <- TwoPlans
  Destructive <- MCDestructive
  None = None
  Garbage = Garbage
  ScanResults = {"clean"}
  ManyShells = TRUE
  ApplyEnabled = TRUE
  Interruptions = {"crash"}
INVARIANTS
  TypeOK
  AppliedPlanIsSafe
  ClearanceIsEarned
PROPERTIES
  PlanFrozenUnderReview
  ImplementsChangeControl
VIEW LiveState

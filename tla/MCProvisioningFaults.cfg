\* Commands that raise: the exception's transaction is committed half done.
SPECIFICATION Spec
CONSTANTS
  p1 = p1
  p2 = p2
  d1 = d1
  Plans <- TwoPlans
  Destructive <- MCDestructive
  None = None
  Garbage = Garbage
  ScanResults = {"clean"}
  ManyShells = FALSE
  ApplyEnabled = TRUE
  Interruptions = {"raise"}
VIEW LiveReviewState
CONSTRAINT FewDisagreements
INVARIANTS
  AppliedReviewIsSafe

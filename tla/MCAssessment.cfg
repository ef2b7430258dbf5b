SPECIFICATION Spec
CONSTANTS
  a1 = a1
  a2 = a2
  machine = machine
  store = store
  group = group
  Accounts = {a1, a2}
  ProviderOf <- Providing
  Resources = {machine, store, group}
  AccountOf <- Owning
  Described <- Describing
  Decisions = {"still_open"}
  TiesUp <- Tying
  Asked <- Asking
  MaxRuns = 3
  MaxOverlapping = 2
  MaxScans = 1
INVARIANTS
  TypeOK
  
  ImprovementIsEarned
  TrendsFollowHistory
  SummaryIsWhole
VIEW RankedState
ACTION_CONSTRAINT RowsAreUndisturbed
CHECK_DEADLOCK FALSE

\* Two servers, with every failure.
SPECIFICATION Spec
CONSTANTS
  c1 = c1
  c2 = c2
  t1 = t1
  s1 = s1
  s2 = s2
  Conns = {c1, c2}
  Threads = {t1}
  Servers = {s1, s2}
  Host <- TwoHosts
  UserRoles = {"VIEWER", "APPROVER"}
  Lines <- AllKinds
  MaxRequests = 2
  Faults = {"database", "raise", "death"}
VIEW LiveState
INVARIANTS
  TypeOK
  EffectsAreAudited
  AnswersAreAudited
  EffectsAreEntitled
  NumbersAreDense
  AppliesAreAlone
  ApprovalsAreSpent

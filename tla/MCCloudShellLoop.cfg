\* One server, whose loop runs one command at a time.
SPECIFICATION FairSpec
CONSTANTS
  c1 = c1
  c2 = c2
  t1 = t1
  s1 = s1
  s2 = s2
  Conns = {c1, c2}
  Threads = {t1}
  Servers = {s1}
  Host <- OneHost
  UserRoles = {"APPROVER"}
  Lines <- Waiting
  MaxRequests = 1
  Faults = {"database", "raise", "death"}
VIEW LiveState
INVARIANTS
  ApprovalsAreSpent
PROPERTIES
  ImplementsRequestBoard
  CommandsAreAnswered

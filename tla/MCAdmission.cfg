SPECIFICATION Spec
CONSTANTS
  c1 = c1
  c2 = c2
  u1 = u1
  x = x
  y = y
  ip = ip
  Callers = {c1, c2}
  AddressOf <- Addressing
  Users = {u1}
  Tenants = {x, y}
  Rows <- RowsOfUsers
  Asked <- Asking
  Limit <- Limiting
  Window = 2
  TokenLife = 2
  MaxTime = 3
  MaxChanges = 1
INVARIANTS
  TypeOK
  WindowIsKept
  RefusalsAreDue
  ServedAreEntitled

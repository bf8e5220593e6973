SPECIFICATION Spec
CONSTANTS
  m = m
  s = s
  Contracts = {c1}
  Customers = {x1, x2}
  Orders = {o1, o2}
  Calls = {k1, k2}
  Users <- MCUsers
  Owner <- MCOwner
  Assigners <- MCManagers
  ContractAdmins <- MCManagers
  CustomerAdmins <- MCManagers
  MaxApprovals = 0
PROPERTY ConflictWritesNothing

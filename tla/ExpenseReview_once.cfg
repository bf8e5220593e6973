SPECIFICATION Spec
CONSTANTS
  Expenses = {e1}
  Users = {u1, u2}
  Approvers = {u1, u2}
  Calls = {k1, k2}
  Ids = {n1, n2}
PROPERTY ReviewedOnlyFromPending

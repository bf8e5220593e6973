SPECIFICATION Spec
CONSTANTS
  Payments = {p1}
  Invoices = {i1}
  Commissions = {c1}
  Orders = {o1}
  Amounts = {a1}
  Dates = {d1}
  Calls = {k1, k2}
  NoPayment = NoPayment
  NoDate = NoDate
PROPERTY PaidOnlyFromApproved

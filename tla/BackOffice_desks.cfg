\* Every id of the bound may have been used: then no request is left.
CHECK_DEADLOCK FALSE
SPECIFICATION Spec
CONSTANTS
  Calls = {k1, k2}
  Clerks = {k1, k2, k3}
  Ids = {r1, r2}
  Values = {v1, v2}
  One = {o1}
  Length <- MCLength
  CacheAge = 1
  Leads = {r1, r2}
  Customers = {v1, v2}
  NoLead = NoLead
  NoCustomer = NoCustomer
  Payments = {p1}
  Invoices = {i1}
  Commissions = {c1}
  Dates = {v1, v2}
  NoPayment = NoPayment
  NoDate = NoDate
SYMMETRY MCSymmetry
INVARIANTS
  TypeOK
  LiveRowsHaveFiles FilesAreReferenced
  EndedIsCompleted
  LogIsTrue PreferencesHold
  ImportedOnce
  ContactsFollowTheirLead
  PaidAsApproved
  AmountMatchesCount
PROPERTIES
  DeletedContractsRest
  ReviewedRequestsAreFrozen
  VerdictsAreRight
  IsARegister
  SignInsFollowTheRow
  ConversionIsFinal
  FollowsLifeCycle
  DecisionsAreFinal
  LostRecordsStayLost

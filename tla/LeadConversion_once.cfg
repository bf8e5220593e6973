SPECIFICATION Spec
CONSTANTS
  NoLead = NoLead
  NoCustomer = NoCustomer
  Leads = {l1}
  Customers = {x1, x2}
  Contacts = {c1}
  Calls = {k1, k2}
PROPERTY ConvertedOnce

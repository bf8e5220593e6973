------------------------------ MODULE LeadIds ------------------------------
(***************************************************************************)
(* Ids of leads and customers, and the null of a column that holds one.    *)
(***************************************************************************)
CONSTANTS
  Leads, Customers,
  NoLead,     \* contacts.lead_id of a contact without a lead
  NoCustomer  \* leads.converted_customer_id, contacts.customer_id

ASSUME LeadIdsAssumption == NoLead \notin Leads /\ NoCustomer \notin Customers
=============================================================================

--------------------------- MODULE LeadConversion ---------------------------
(***************************************************************************)
(* Leads, their contacts and their conversion into customers:              *)
(* LeadApplicationService, LeadRepository and ContactApplicationService.   *)
(*                                                                         *)
(* update, remove and convert read the lead, check its status and write    *)
(* an await later.  The conversion itself is one transaction: it inserts   *)
(* the customer, updates the lead and moves the lead's contacts.  The      *)
(* update changes a column with a unique index and so holds the strongest  *)
(* lock on the lead's row until the commit: another writer of the row and  *)
(* an insert of a contact of the lead wait for it, and nobody sees its     *)
(* writes before.  So the transaction is one step.                         *)
(*                                                                         *)
(* Contacts are written by single statements, and what their handlers      *)
(* check before never becomes false but by the lead's deletion, which the  *)
(* foreign key notices: each handler is one step.  Which leads a user may  *)
(* touch is left open (any lead), and so are names, phones and addresses.  *)
(***************************************************************************)
EXTENDS LeadIds

CONSTANTS Contacts, Calls

VARIABLES
  lead,      \* rows of leads
  contact,   \* rows of contacts
  customers, \* those that exist
  call,      \* handlers of leads between their check and their write
  late       \* history: contacts created on a lead that was converted already

vars == <<lead, contact, customers, call, late>>

Statuses == {"NEW", "QUALIFIED", "DISQUALIFIED", "CONVERTED"}

Absent  == [is |-> "absent"]
Deleted == [is |-> "deleted"]
Lead    == [is : {"lead"}, status : Statuses, customer : Customers \cup {NoCustomer}]
Contact == [is : {"contact"}, lead : Leads \cup {NoLead}, customer : Customers \cup {NoCustomer}]

Idle   == [op |-> "idle"]
Update == [op : {"update"}, lead : Leads, status : Statuses]
Other  == [op : {"remove", "convert"}, lead : Leads]

TypeOK ==
  /\ lead \in [Leads -> Lead \cup {Absent, Deleted}]
  /\ contact \in [Contacts -> Contact \cup {Absent, Deleted}]
  /\ customers \subseteq Customers
  /\ call \in [Calls -> {Idle} \cup Update \cup Other]
  /\ late \subseteq Contacts

Init ==
  /\ lead = [l \in Leads |-> Absent]
  /\ contact = [c \in Contacts |-> Absent]
  /\ customers = {}
  /\ call = [k \in Calls |-> Idle]
  /\ late = {}

Exists(l)    == lead[l].is = "lead"
Answer(k)    == call' = [call EXCEPT ![k] = Idle]
Converted(l) == Exists(l) /\ lead[l].customer # NoCustomer

-----------------------------------------------------------------------------
(* POST /leads, POST /customers *)

\* The status is free text of the request, CONVERTED not excepted.
CreateLead ==
  /\ \E l \in Leads, s \in Statuses :
       /\ lead[l] = Absent
       /\ lead' = [lead EXCEPT ![l] = [is |-> "lead", status |-> s, customer |-> NoCustomer]]
  /\ UNCHANGED <<contact, customers, call, late>>

CreateCustomer ==
  /\ \E x \in Customers : x \notin customers /\ customers' = customers \cup {x}
  /\ UNCHANGED <<lead, contact, call, late>>

-----------------------------------------------------------------------------
(* PATCH /leads/:id with a status *)

StartUpdate(k) ==
  /\ call[k] = Idle
  /\ \E l \in Leads, s \in Statuses :
       /\ Exists(l)
       /\ lead[l].status = "CONVERTED" => s = "CONVERTED"
       /\ call' = [call EXCEPT ![k] = [op |-> "update", lead |-> l, status |-> s]]
  /\ UNCHANGED <<lead, contact, customers, late>>

WriteUpdate(k) ==
  /\ call[k].op = "update"
  /\ Exists(call[k].lead)
  /\ lead' = [lead EXCEPT ![call[k].lead].status = call[k].status]
  /\ Answer(k)
  /\ UNCHANGED <<contact, customers, late>>

-----------------------------------------------------------------------------
(* DELETE /leads/:id *)

\* Otherwise "Cannot delete a converted lead".
Removable(l) == lead[l].status # "CONVERTED"

StartRemove(k) ==
  /\ call[k] = Idle
  /\ \E l \in Leads :
       /\ Exists(l)
       /\ Removable(l)
       /\ call' = [call EXCEPT ![k] = [op |-> "remove", lead |-> l]]
  /\ UNCHANGED <<lead, contact, customers, late>>

\* What ON DELETE SET NULL does to a contact.
Detached(row, l) ==
  IF row.is = "contact" /\ row.lead = l THEN [row EXCEPT !.lead = NoLead] ELSE row

DeleteLead(k) ==
  /\ call[k].op = "remove"
  /\ Exists(call[k].lead)
  /\ lead' = [lead EXCEPT ![call[k].lead] = Deleted]
  /\ contact' = [c \in Contacts |-> Detached(contact[c], call[k].lead)]
  /\ Answer(k)
  /\ UNCHANGED <<customers, late>>

-----------------------------------------------------------------------------
(* POST /leads/:id/convert *)

\* The check; and a bug: the status alone is asked.
ConvertibleByStatus(row) == row.status \notin {"CONVERTED", "DISQUALIFIED"}
Convertible(row) == row.customer = NoCustomer /\ row.status \notin {"CONVERTED", "DISQUALIFIED"}

StartConvert(k) ==
  /\ call[k] = Idle
  /\ \E l \in Leads :
       /\ Exists(l)
       /\ Convertible(lead[l])
       /\ call' = [call EXCEPT ![k] = [op |-> "convert", lead |-> l]]
  /\ UNCHANGED <<lead, contact, customers, late>>

\* What updateMany does to a contact; and a bug: those with a customer are left out.
RelinkedIfNew(row, l, x) ==
  IF row.is = "contact" /\ row.lead = l /\ row.customer = NoCustomer
  THEN [row EXCEPT !.customer = x] ELSE row
Relinked(row, l, x) ==
  IF row.is = "contact" /\ row.lead = l THEN [row EXCEPT !.customer = x] ELSE row

\* The lead after its conversion; and a bug: the status is called DONE.
ConvertedDone(row, x) == [row EXCEPT !.status = "DONE", !.customer = x]
ConvertedTo(row, x)   == [row EXCEPT !.status = "CONVERTED", !.customer = x]

CommitConversion(k) ==
  /\ call[k].op = "convert"
  /\ Exists(call[k].lead)
  /\ \E x \in Customers :
       /\ x \notin customers
       /\ customers' = customers \cup {x}
       /\ lead' = [lead EXCEPT ![call[k].lead] = ConvertedTo(lead[call[k].lead], x)]
       /\ contact' = [c \in Contacts |-> Relinked(contact[c], call[k].lead, x)]
  /\ Answer(k)
  /\ UNCHANGED late

\* The row is gone (P2025), the transaction rolled back, or the process died.
Fail(k) ==
  /\ call[k] # Idle
  /\ Answer(k)
  /\ UNCHANGED <<lead, contact, customers, late>>

-----------------------------------------------------------------------------
(* POST /contacts and DELETE /contacts/:id *)

NewContact(c, l, x) ==
  /\ contact[c] = Absent
  /\ contact' = [contact EXCEPT ![c] = [is |-> "contact", lead |-> l, customer |-> x]]

CreateContactOfLead ==
  \E c \in Contacts, l \in Leads :
    /\ Exists(l)
    /\ NewContact(c, l, NoCustomer)
    /\ late' = IF Converted(l) THEN late \cup {c} ELSE late
    /\ UNCHANGED <<lead, customers, call>>

CreateContactOfCustomer ==
  \E c \in Contacts, x \in customers :
    /\ NewContact(c, NoLead, x)
    /\ UNCHANGED <<lead, customers, call, late>>

DeleteContact ==
  \E c \in Contacts :
    /\ contact[c].is = "contact"
    /\ contact' = [contact EXCEPT ![c] = Deleted]
    /\ UNCHANGED <<lead, customers, call, late>>

Next ==
  \/ CreateLead \/ CreateCustomer
  \/ \E k \in Calls : \/ StartUpdate(k) \/ WriteUpdate(k)
                      \/ StartRemove(k) \/ DeleteLead(k)
                      \/ StartConvert(k) \/ CommitConversion(k)
                      \/ Fail(k)
  \/ CreateContactOfLead \/ CreateContactOfCustomer \/ DeleteContact

Spec == Init /\ [][Next]_vars

-----------------------------------------------------------------------------
(* Properties *)

\* A contact of a lead is a contact of the lead's customer, also when the lead
\* was converted twice; only one created after the conversion may be left out.
\* No contact names a lead that is gone.
ContactsFollowTheirLead ==
  \A c \in Contacts :
    (contact[c].is = "contact" /\ contact[c].lead # NoLead) =>
      /\ Exists(contact[c].lead)
      /\ \/ contact[c].customer = lead[contact[c].lead].customer
         \/ contact[c].customer = NoCustomer /\ c \in late

Converting(l) == \E k \in Calls : call[k].op = "convert" /\ call[k].lead = l
Settled(l, x) == Exists(l) /\ lead[l].customer = x /\ ~Converting(l)

StaysConverted ==
  \A l \in Leads, x \in Customers :
    Settled(l, x) => Settled(l, x)' \/ lead'[l] = Deleted

\* Once no conversion that passed its check before is in flight, a converted
\* lead keeps its customer: none starts again, whatever stale status another
\* call writes over CONVERTED.
ConversionIsFinal == [][StaysConverted]_vars

-----------------------------------------------------------------------------
(* What the documents say of every conversion *)

\* docs/02-domain/CRM.md, CRM-I3: "A Lead cannot be converted more than once".
ConvertedOnce ==
  [][\A l \in Leads : Converted(l) /\ Exists(l)' => lead'[l].customer = lead[l].customer]_vars
=============================================================================

----------------------- MODULE LeadConversion_proofs -----------------------
(***************************************************************************)
(* Theorems about LeadConversion and their proofs.                         *)
(***************************************************************************)
EXTENDS LeadConversion, TLAPS

-----------------------------------------------------------------------------
(* What an operation makes of a row *)

\* PATCH leaves the customer of a lead alone.
LEMMA LeadStatus ==
  ASSUME NEW old \in Lead, NEW s
  PROVE  [old EXCEPT !.status = s] = [is |-> "lead", status |-> s, customer |-> old.customer]
BY DEF Lead

LEMMA LeadConverted ==
  ASSUME NEW old \in Lead, NEW x
  PROVE  ConvertedTo(old, x) = [is |-> "lead", status |-> "CONVERTED", customer |-> x]
<1> DEFINE one == [old EXCEPT !.status = "CONVERTED"]
<1>1. one = [is |-> "lead", status |-> "CONVERTED", customer |-> old.customer]
  BY LeadStatus
<1>2. ConvertedTo(old, x) = [one EXCEPT !.customer = x]
  BY DEF ConvertedTo
<1> HIDE DEF one
<1> QED
  BY <1>1, <1>2

\* The conversion of a lead gives its contacts the customer, and no others.
LEMMA ContactRelinked ==
  ASSUME NEW row \in Contact \cup {Absent, Deleted}, NEW l \in Leads, NEW x \in Customers
  PROVE  /\ Relinked(row, l, x) \in Contact \cup {Absent, Deleted}
         /\ Relinked(row, l, x).is = row.is
         /\ row.is = "contact" =>
              /\ Relinked(row, l, x).lead = row.lead
              /\ Relinked(row, l, x).customer = IF row.lead = l THEN x ELSE row.customer
<1>1. CASE row.is = "contact" /\ row.lead = l
  <2>1. row \in Contact
    BY <1>1 DEF Absent, Deleted
  <2>2. Relinked(row, l, x) = [is |-> "contact", lead |-> row.lead, customer |-> x]
    BY <1>1, <2>1 DEF Relinked, Contact
  <2> QED
    BY <1>1, <2>1, <2>2 DEF Contact
<1>2. CASE ~(row.is = "contact" /\ row.lead = l)
  BY <1>2 DEF Relinked
<1> QED
  BY <1>1, <1>2

\* The deletion of a lead leaves its contacts without one, and no others.
LEMMA ContactDetached ==
  ASSUME NEW row \in Contact \cup {Absent, Deleted}, NEW l \in Leads
  PROVE  /\ Detached(row, l) \in Contact \cup {Absent, Deleted}
         /\ Detached(row, l).is = row.is
         /\ row.is = "contact" =>
              /\ Detached(row, l).lead = IF row.lead = l THEN NoLead ELSE row.lead
              /\ Detached(row, l).customer = row.customer
<1>1. CASE row.is = "contact" /\ row.lead = l
  <2>1. row \in Contact
    BY <1>1 DEF Absent, Deleted
  <2>2. Detached(row, l) = [is |-> "contact", lead |-> NoLead, customer |-> row.customer]
    BY <1>1, <2>1 DEF Detached, Contact
  <2> QED
    BY <1>1, <2>1, <2>2 DEF Contact
<1>2. CASE ~(row.is = "contact" /\ row.lead = l)
  BY <1>2 DEF Detached
<1> QED
  BY <1>1, <1>2

-----------------------------------------------------------------------------
(* The inductive invariant *)

IInv == TypeOK /\ ContactsFollowTheirLead

LEMMA IInvInit == Init => IInv
BY DEF Init, IInv, TypeOK, ContactsFollowTheirLead, Absent, Idle

LEMMA LeadRows ==
  ASSUME TypeOK, NEW l \in Leads, Exists(l)
  PROVE  lead[l] \in Lead
BY DEF TypeOK, Exists, Absent, Deleted

LEMMA ContactLeads ==
  ASSUME TypeOK, NEW c \in Contacts, contact[c].is = "contact", contact[c].lead # NoLead
  PROVE  contact[c].lead \in Leads
BY DEF TypeOK, Contact, Absent, Deleted

LEMMA CallKinds ==
  ASSUME TypeOK, NEW k \in Calls
  PROVE  /\ call[k].op = "update" => call[k] \in Update
         /\ call[k].op \in {"remove", "convert"} => call[k] \in Other
         /\ Idle.op = "idle"
BY DEF TypeOK, Idle, Update, Other

\* A call that starts, is answered or fails touches no row.
LEMMA CallsKeep ==
  ASSUME IInv, NEW k \in Calls, NEW new \in {Idle} \cup Update \cup Other,
         call' = [call EXCEPT ![k] = new],
         UNCHANGED <<lead, contact, customers, late>>
  PROVE  IInv'
<1>1. TypeOK'
  BY DEF IInv, TypeOK
<1>2. ContactsFollowTheirLead'
  BY DEF IInv, ContactsFollowTheirLead, Exists
<1> QED
  BY <1>1, <1>2 DEF IInv

LEMMA UpdateKeeps ==
  ASSUME IInv, NEW k \in Calls, WriteUpdate(k)
  PROVE  IInv'
<1> DEFINE l   == call[k].lead
           new == [lead[l] EXCEPT !.status = call[k].status]
<1>1. call[k] \in Update /\ l \in Leads /\ lead[l] \in Lead
  BY CallKinds, LeadRows DEF IInv, WriteUpdate, Update
<1>2. new = [is |-> "lead", status |-> call[k].status, customer |-> lead[l].customer]
  BY <1>1, LeadStatus
<1>3. new \in Lead /\ new.is = "lead" /\ new.customer = lead[l].customer
  BY <1>1, <1>2 DEF Lead, Update
<1>4. lead' = [lead EXCEPT ![l] = new]
  BY DEF WriteUpdate
<1> HIDE DEF new
<1>5. TypeOK'
  BY <1>1, <1>3, <1>4 DEF IInv, TypeOK, WriteUpdate, Answer
<1>6. \A m \in Leads : (Exists(m) <=> Exists(m)') /\ lead'[m].customer = lead[m].customer
  BY <1>1, <1>3, <1>4 DEF IInv, TypeOK, Exists, Lead
<1>7. ContactsFollowTheirLead'
  BY <1>6, ContactLeads DEF IInv, ContactsFollowTheirLead, WriteUpdate, Exists
<1> QED
  BY <1>5, <1>7 DEF IInv

LEMMA DeleteKeeps ==
  ASSUME IInv, NEW k \in Calls, DeleteLead(k)
  PROVE  IInv'
<1> DEFINE l == call[k].lead
<1>1. l \in Leads
  BY CallKinds DEF IInv, DeleteLead, Other
<1>2. /\ lead' = [lead EXCEPT ![l] = Deleted]
      /\ contact' = [c \in Contacts |-> Detached(contact[c], l)]
  BY DEF DeleteLead
<1>3. TypeOK'
  <2>1. contact' \in [Contacts -> Contact \cup {Absent, Deleted}]
    BY <1>1, <1>2, ContactDetached DEF IInv, TypeOK
  <2>2. call' \in [Calls -> {Idle} \cup Update \cup Other]
    BY DEF IInv, TypeOK, DeleteLead, Answer
  <2> QED
    BY <1>1, <1>2, <2>1, <2>2 DEF IInv, TypeOK, DeleteLead
<1>4. ASSUME NEW c \in Contacts, contact'[c].is = "contact", contact'[c].lead # NoLead
      PROVE  /\ lead'[contact'[c].lead].is = "lead"
             /\ \/ contact'[c].customer = lead'[contact'[c].lead].customer
                \/ contact'[c].customer = NoCustomer /\ c \in late'
  <2>1. contact[c].is = "contact" /\ contact[c].lead # l
    BY <1>1, <1>2, <1>4, ContactDetached DEF IInv, TypeOK
  <2>2. contact'[c].lead = contact[c].lead /\ contact'[c].customer = contact[c].customer
    BY <1>1, <1>2, <2>1, ContactDetached DEF IInv, TypeOK
  <2>3. contact[c].lead \in Leads
    BY <1>4, <2>1, <2>2, ContactLeads DEF IInv
  <2>4. lead'[contact[c].lead] = lead[contact[c].lead]
    BY <1>2, <2>1, <2>3 DEF IInv, TypeOK
  <2> QED
    BY <1>4, <2>1, <2>2, <2>4 DEF IInv, ContactsFollowTheirLead, Exists, DeleteLead
<1> QED
  BY <1>3, <1>4 DEF IInv, ContactsFollowTheirLead, Exists

LEMMA ConversionKeeps ==
  ASSUME IInv, NEW k \in Calls, CommitConversion(k)
  PROVE  IInv'
<1> DEFINE l == call[k].lead
<1>1. l \in Leads /\ lead[l] \in Lead
  BY CallKinds, LeadRows DEF IInv, CommitConversion, Other
<1>2. PICK x \in Customers :
        /\ customers' = customers \cup {x}
        /\ lead' = [lead EXCEPT ![l] = ConvertedTo(lead[l], x)]
        /\ contact' = [c \in Contacts |-> Relinked(contact[c], l, x)]
  BY DEF CommitConversion
<1> DEFINE new == ConvertedTo(lead[l], x)
<1>3. new \in Lead /\ new.is = "lead" /\ new.customer = x
  BY <1>1, LeadConverted DEF Lead, Statuses
<1> HIDE DEF new
<1>4. TypeOK'
  BY <1>1, <1>2, <1>3, ContactRelinked DEF new, IInv, TypeOK, CommitConversion, Answer
<1>5. ASSUME NEW c \in Contacts, contact'[c].is = "contact", contact'[c].lead # NoLead
      PROVE  /\ lead'[contact'[c].lead].is = "lead"
             /\ \/ contact'[c].customer = lead'[contact'[c].lead].customer
                \/ contact'[c].customer = NoCustomer /\ c \in late'
  <2>1. contact[c].is = "contact" /\ contact'[c].lead = contact[c].lead
    BY <1>1, <1>2, <1>5, ContactRelinked DEF IInv, TypeOK
  <2>2. contact[c].lead \in Leads /\ Exists(contact[c].lead)
    BY <1>5, <2>1, ContactLeads DEF IInv, ContactsFollowTheirLead
  <2>3. CASE contact[c].lead = l
    <3>1. contact'[c].customer = x
      BY <1>1, <1>2, <2>1, <2>3, ContactRelinked DEF IInv, TypeOK
    <3>2. lead'[l] = new
      BY <1>1, <1>2 DEF new, IInv, TypeOK
    <3> QED
      BY <1>3, <2>1, <2>3, <3>1, <3>2 DEF Exists
  <2>4. CASE contact[c].lead # l
    <3>1. contact'[c].customer = contact[c].customer
      BY <1>1, <1>2, <2>1, <2>4, ContactRelinked DEF IInv, TypeOK
    <3>2. lead'[contact[c].lead] = lead[contact[c].lead]
      BY <1>2, <2>2, <2>4 DEF IInv, TypeOK
    <3> QED
      BY <1>5, <2>1, <2>2, <3>1, <3>2
         DEF IInv, ContactsFollowTheirLead, Exists, CommitConversion
  <2> QED
    BY <2>3, <2>4
<1> QED
  BY <1>4, <1>5 DEF IInv, ContactsFollowTheirLead, Exists

\* A contact is created; when it hangs on a lead, the lead exists.
LEMMA NewContactKeeps ==
  ASSUME IInv, NEW c \in Contacts, NEW l \in Leads \cup {NoLead},
         NEW x \in Customers \cup {NoCustomer}, NewContact(c, l, x),
         UNCHANGED <<lead, customers, call>>,
         late \subseteq late', late' \subseteq Contacts,
         l # NoLead => /\ Exists(l)
                       /\ x = lead[l].customer \/ (x = NoCustomer /\ c \in late')
  PROVE  IInv'
<1> DEFINE new == [is |-> "contact", lead |-> l, customer |-> x]
<1>1. new \in Contact /\ new.lead = l /\ new.customer = x
  BY DEF Contact
<1>2. contact' = [contact EXCEPT ![c] = new]
  BY DEF NewContact
<1> HIDE DEF new
<1>3. TypeOK'
  BY <1>1, <1>2 DEF IInv, TypeOK
<1>4. ASSUME NEW d \in Contacts, contact'[d].is = "contact", contact'[d].lead # NoLead
      PROVE  /\ lead'[contact'[d].lead].is = "lead"
             /\ \/ contact'[d].customer = lead'[contact'[d].lead].customer
                \/ contact'[d].customer = NoCustomer /\ d \in late'
  <2>1. CASE d = c
    BY <1>1, <1>2, <1>4, <2>1 DEF IInv, TypeOK, Exists
  <2>2. CASE d # c
    BY <1>2, <1>4, <2>2 DEF IInv, TypeOK, ContactsFollowTheirLead, Exists
  <2> QED
    BY <2>1, <2>2
<1> QED
  BY <1>3, <1>4 DEF IInv, ContactsFollowTheirLead, Exists

LEMMA IInvStep == IInv /\ [Next]_vars => IInv'
<1> SUFFICES ASSUME IInv, [Next]_vars
             PROVE  IInv'
  OBVIOUS
<1>1. CASE CreateLead
  <2>1. PICK l \in Leads, s \in Statuses :
          /\ lead[l] = Absent
          /\ lead' = [lead EXCEPT ![l] = [is |-> "lead", status |-> s, customer |-> NoCustomer]]
    BY <1>1 DEF CreateLead
  <2>2. TypeOK'
    BY <1>1, <2>1 DEF IInv, TypeOK, CreateLead, Lead
  <2>3. \A m \in Leads : Exists(m) => m # l /\ lead'[m] = lead[m]
    BY <2>1 DEF IInv, TypeOK, Exists, Absent
  <2>4. ContactsFollowTheirLead'
    BY <1>1, <2>3, ContactLeads DEF IInv, ContactsFollowTheirLead, CreateLead, Exists
  <2> QED
    BY <2>2, <2>4 DEF IInv
<1>2. CASE CreateCustomer
  BY <1>2 DEF IInv, TypeOK, ContactsFollowTheirLead, CreateCustomer, Exists
<1>3. ASSUME NEW k \in Calls, StartUpdate(k) \/ StartRemove(k) \/ StartConvert(k) \/ Fail(k)
      PROVE  IInv'
  <2>1. PICK new \in {Idle} \cup Update \cup Other : call' = [call EXCEPT ![k] = new]
    BY <1>3 DEF StartUpdate, StartRemove, StartConvert, Fail, Answer, Update, Other
  <2>2. UNCHANGED <<lead, contact, customers, late>>
    BY <1>3 DEF StartUpdate, StartRemove, StartConvert, Fail
  <2> QED
    BY <2>1, <2>2, CallsKeep
<1>4. ASSUME NEW k \in Calls, WriteUpdate(k) \/ DeleteLead(k) \/ CommitConversion(k)
      PROVE  IInv'
  BY <1>4, UpdateKeeps, DeleteKeeps, ConversionKeeps
<1>5. CASE CreateContactOfLead
  <2>1. PICK c \in Contacts, l \in Leads :
          /\ Exists(l)
          /\ NewContact(c, l, NoCustomer)
          /\ late' = IF Converted(l) THEN late \cup {c} ELSE late
          /\ UNCHANGED <<lead, customers, call>>
    BY <1>5 DEF CreateContactOfLead
  <2>2. NoCustomer = lead[l].customer \/ c \in late'
    BY <2>1 DEF Converted
  <2>3. late \subseteq late' /\ late' \subseteq Contacts
    BY <2>1 DEF IInv, TypeOK
  <2> QED
    BY <2>1, <2>2, <2>3, NewContactKeeps
<1>6. CASE CreateContactOfCustomer
  <2>1. PICK c \in Contacts, x \in customers :
          NewContact(c, NoLead, x) /\ UNCHANGED <<lead, customers, call, late>>
    BY <1>6 DEF CreateContactOfCustomer
  <2>2. x \in Customers /\ late' \subseteq Contacts
    BY <2>1 DEF IInv, TypeOK
  <2> QED
    BY <2>1, <2>2, NewContactKeeps
<1>7. CASE DeleteContact
  <2>1. PICK c \in Contacts : contact' = [contact EXCEPT ![c] = Deleted]
    BY <1>7 DEF DeleteContact
  <2>2. TypeOK'
    BY <1>7, <2>1 DEF IInv, TypeOK, DeleteContact
  <2>3. ContactsFollowTheirLead'
    BY <1>7, <2>1 DEF IInv, TypeOK, ContactsFollowTheirLead, DeleteContact, Exists, Deleted
  <2> QED
    BY <2>2, <2>3 DEF IInv
<1>8. CASE UNCHANGED vars
  BY <1>8 DEF IInv, TypeOK, ContactsFollowTheirLead, Exists, vars
<1> QED
  BY <1>1, <1>2, <1>3, <1>4, <1>5, <1>6, <1>7, <1>8 DEF Next

LEMMA Invariance == Spec => []IInv
BY IInvInit, IInvStep, PTL DEF Spec

-----------------------------------------------------------------------------
(* Theorems *)

\* Type correctness, for every number of leads, customers, contacts and calls.
THEOREM TypeCorrect == Spec => []TypeOK
<1>1. IInv => TypeOK
  BY DEF IInv
<1> QED
  BY <1>1, Invariance, PTL

\* The contacts of a lead are contacts of its customer, whatever conversions,
\* deletions and creations overlap.
THEOREM ContactsFollow == Spec => []ContactsFollowTheirLead
<1>1. IInv => ContactsFollowTheirLead
  BY DEF IInv
<1> QED
  BY <1>1, Invariance, PTL

-----------------------------------------------------------------------------
(* The customer of a converted lead *)

\* Only the conversion of a lead changes its customer, and nothing but its
\* deletion takes it away.
LEMMA CustomerStays ==
  ASSUME IInv, [Next]_vars, NEW l \in Leads, Exists(l), ~Converting(l)
  PROVE  lead'[l] = Deleted \/ (Exists(l)' /\ lead'[l].customer = lead[l].customer)
<1>1. lead[l] \in Lead
  BY LeadRows DEF IInv
<1>2. CASE UNCHANGED lead
  BY <1>2 DEF Exists
<1>3. CASE CreateLead
  BY <1>3 DEF CreateLead, IInv, TypeOK, Exists, Absent
<1>4. ASSUME NEW k \in Calls, WriteUpdate(k)
      PROVE  Exists(l)' /\ lead'[l].customer = lead[l].customer
  <2>1. call[k].lead \in Leads
    BY <1>4, CallKinds DEF IInv, WriteUpdate, Update
  <2>2. CASE call[k].lead = l
    <3>1. lead'[l] = [lead[l] EXCEPT !.status = call[k].status]
      BY <1>4, <2>2 DEF WriteUpdate, IInv, TypeOK
    <3> QED
      BY <1>1, <3>1, LeadStatus DEF Exists
  <2>3. CASE call[k].lead # l
    BY <1>4, <2>1, <2>3 DEF WriteUpdate, IInv, TypeOK, Exists
  <2> QED
    BY <2>2, <2>3
<1>5. ASSUME NEW k \in Calls, DeleteLead(k)
      PROVE  lead'[l] = Deleted \/ lead'[l] = lead[l]
  BY <1>5 DEF DeleteLead, IInv, TypeOK
<1>6. ASSUME NEW k \in Calls, CommitConversion(k)
      PROVE  lead'[l] = lead[l]
  BY <1>6 DEF CommitConversion, Converting, IInv, TypeOK
<1>7. \/ UNCHANGED lead \/ CreateLead
      \/ \E k \in Calls : WriteUpdate(k) \/ DeleteLead(k) \/ CommitConversion(k)
  BY DEF Next, vars, CreateCustomer, StartUpdate, StartRemove, StartConvert, Fail,
         CreateContactOfLead, CreateContactOfCustomer, DeleteContact
<1> QED
  BY <1>2, <1>3, <1>4, <1>5, <1>6, <1>7 DEF Exists

\* No conversion of a converted lead starts.
LEMMA NoNewConversion ==
  ASSUME IInv, [Next]_vars, NEW l \in Leads, Converted(l), ~Converting(l)
  PROVE  ~Converting(l)'
<1> SUFFICES ASSUME NEW j \in Calls, call'[j].op = "convert", call'[j].lead = l
             PROVE  FALSE
  BY DEF Converting
<1>1. call'[j] # call[j]
  BY DEF Converting
<1>2. j \in DOMAIN call
  BY DEF IInv, TypeOK
<1>3. ASSUME NEW k \in Calls, StartUpdate(k) \/ StartRemove(k)
      PROVE  FALSE
  <2>1. CASE StartUpdate(k)
    <3>1. PICK m \in Leads, s \in Statuses :
            call' = [call EXCEPT ![k] = [op |-> "update", lead |-> m, status |-> s]]
      BY <2>1 DEF StartUpdate
    <3> QED
      BY <1>1, <1>2, <3>1
  <2>2. CASE StartRemove(k)
    <3>1. PICK m \in Leads : call' = [call EXCEPT ![k] = [op |-> "remove", lead |-> m]]
      BY <2>2 DEF StartRemove
    <3> QED
      BY <1>1, <1>2, <3>1
  <2> QED
    BY <1>3, <2>1, <2>2
<1>4. ASSUME NEW k \in Calls, StartConvert(k)
      PROVE  FALSE
  <2>1. PICK m \in Leads : /\ Convertible(lead[m])
                           /\ call' = [call EXCEPT ![k] = [op |-> "convert", lead |-> m]]
    BY <1>4 DEF StartConvert
  <2>2. m = l
    BY <1>1, <1>2, <2>1
  <2> QED
    BY <2>1, <2>2 DEF Convertible, Converted
<1>5. ASSUME NEW k \in Calls, Answer(k)
      PROVE  FALSE
  BY <1>1, <1>2, <1>5 DEF Answer, Idle
<1>6. \/ UNCHANGED call
      \/ \E k \in Calls : StartUpdate(k) \/ StartRemove(k) \/ StartConvert(k) \/ Answer(k)
  BY DEF Next, vars, CreateLead, CreateCustomer, WriteUpdate, DeleteLead, CommitConversion,
         Fail, CreateContactOfLead, CreateContactOfCustomer, DeleteContact
<1> QED
  BY <1>1, <1>3, <1>4, <1>5, <1>6

LEMMA ConvertedStep == IInv /\ [Next]_vars => StaysConverted
<1> SUFFICES ASSUME IInv, [Next]_vars,
                    NEW l \in Leads, NEW x \in Customers, Settled(l, x),
                    lead'[l] # Deleted
             PROVE  Settled(l, x)'
  BY DEF StaysConverted
<1>1. Exists(l) /\ ~Converting(l) /\ Converted(l)
  BY LeadIdsAssumption DEF Settled, Converted
<1>2. Exists(l)' /\ lead'[l].customer = x
  BY <1>1, CustomerStays DEF Settled
<1>3. ~Converting(l)'
  BY <1>1, NoNewConversion
<1> QED
  BY <1>2, <1>3 DEF Settled

\* Once the conversions that had passed their check are answered, the customer
\* of a converted lead never changes, for any number of calls.
THEOREM Finality == Spec => ConversionIsFinal
BY ConvertedStep, Invariance, PTL DEF Spec, ConversionIsFinal
=============================================================================

----------------------- MODULE FinanceRecords_proofs -----------------------
(***************************************************************************)
(* Theorems about FinanceRecords and their proofs.                         *)
(***************************************************************************)
EXTENDS FinanceRecords, TLAPS

-----------------------------------------------------------------------------
(* What a command changes in a row *)

LEMMA PaymentStatus ==
  ASSUME NEW old \in LifeCycle!PaymentRow, NEW s
  PROVE  [old EXCEPT !.status = s] = [status |-> s, order |-> old.order]
BY DEF LifeCycle!PaymentRow

LEMMA InvoiceStatus ==
  ASSUME NEW old \in LifeCycle!InvoiceRow, NEW s
  PROVE  [old EXCEPT !.status = s]
           = [status |-> s, payment |-> old.payment, issueDate |-> old.issueDate]
BY DEF LifeCycle!InvoiceRow

LEMMA InvoiceIssued ==
  ASSUME NEW old \in LifeCycle!InvoiceRow, NEW d
  PROVE  [old EXCEPT !.status = "ISSUED", !.issueDate = d]
           = [status |-> "ISSUED", payment |-> old.payment, issueDate |-> d]
<1> DEFINE one == [old EXCEPT !.status = "ISSUED"]
<1>1. one = [status |-> "ISSUED", payment |-> old.payment, issueDate |-> old.issueDate]
  BY InvoiceStatus
<1>2. [old EXCEPT !.status = "ISSUED", !.issueDate = d] = [one EXCEPT !.issueDate = d]
  OBVIOUS
<1> HIDE DEF one
<1> QED
  BY <1>1, <1>2

LEMMA CommissionStatus ==
  ASSUME NEW old \in LifeCycle!CommissionRow, NEW s
  PROVE  [old EXCEPT !.status = s]
           = [status |-> s, order |-> old.order, payment |-> old.payment,
              amount |-> old.amount]
BY DEF LifeCycle!CommissionRow

LEMMA CommissionCalculated ==
  ASSUME NEW old \in LifeCycle!CommissionRow, NEW a
  PROVE  [old EXCEPT !.amount = a, !.status = "CALCULATED"]
           = [status |-> "CALCULATED", order |-> old.order, payment |-> old.payment,
              amount |-> a]
<1> DEFINE one == [old EXCEPT !.amount = a]
<1>1. one = [status |-> old.status, order |-> old.order, payment |-> old.payment,
             amount |-> a]
  BY DEF LifeCycle!CommissionRow
<1>2. [old EXCEPT !.amount = a, !.status = "CALCULATED"] = [one EXCEPT !.status = "CALCULATED"]
  OBVIOUS
<1> HIDE DEF one
<1> QED
  BY <1>1, <1>2

-----------------------------------------------------------------------------
(* The inductive invariant *)

\* A record that a call has seen exists.
SeenExist == \A k \in Calls : call[k] # Idle => row[call[k].record] # NoRow

IInv == TypeOK /\ CallsAreChecked /\ SeenExist /\ PaidAsApproved

LEMMA IInvInit == Init => IInv
BY DEF Init, IInv, TypeOK, CallsAreChecked, SeenExist, PaidAsApproved, NoRow, Idle,
       Records, LifeCycle!Row, LifeCycle!NoRow

LEMMA CallKinds ==
  ASSUME TypeOK, NEW k \in Calls
  PROVE  /\ call[k].op \in {"verify", "void"} => call[k] \in PaymentCall
         /\ call[k].op \in {"issue", "cancel"} => call[k] \in InvoiceCall
         /\ call[k].op \in {"calculate", "approve", "pay"} => call[k] \in CommissionCall
         /\ call[k].op = "idle" => call[k] = Idle
BY DEF TypeOK, Idle, PaymentCall, InvoiceCall, CommissionCall

LEMMA RowsExist ==
  ASSUME NEW old \in LifeCycle!PaymentRow \cup LifeCycle!InvoiceRow \cup LifeCycle!CommissionRow
  PROVE  old # NoRow
BY DEF NoRow, LifeCycle!NoRow, LifeCycle!PaymentRow, LifeCycle!InvoiceRow,
       LifeCycle!CommissionRow

\* An insertion: no call knows the record yet, and it is neither approved nor paid.
LEMMA InsertKeeps ==
  ASSUME IInv, NEW r \in Records, NEW new, Insert(r, new),
         r \in Payments => new \in LifeCycle!PaymentRow,
         r \in Invoices => new \in LifeCycle!InvoiceRow,
         r \in Commissions => new \in LifeCycle!CommissionRow /\ new.status = "CALCULATED"
  PROVE  IInv'
<1>1. /\ row'[r] = new /\ \A q \in Records \ {r} : row'[q] = row[q]
      /\ row' \in [Records -> LifeCycle!Row]
  BY DEF IInv, TypeOK, Insert, Records, LifeCycle!Row
<1>2. UNCHANGED <<call, overtaken, approved>>
  BY DEF Insert
<1>3. TypeOK'
  BY <1>1, <1>2 DEF IInv, TypeOK, Records
<1>4. CallsAreChecked'
  BY <1>2 DEF IInv, CallsAreChecked
<1>5. new # NoRow
  BY RowsExist DEF Records
<1>6. SeenExist'
  BY <1>1, <1>2, <1>5 DEF IInv, SeenExist, TypeOK, Records, PaymentCall, InvoiceCall,
                          CommissionCall
<1>7. PaidAsApproved'
  BY <1>1, <1>2 DEF IInv, PaidAsApproved, Records
<1> QED
  BY <1>3, <1>4, <1>6, <1>7 DEF IInv

\* A check that passed: the call saw the row as it is.
LEMMA StartKeeps ==
  ASSUME IInv, NEW k \in Calls, NEW op, NEW r \in Records, Start(k, op, r),
         \/ op \in {"verify", "void"} /\ r \in Payments
         \/ op \in {"issue", "cancel"} /\ r \in Invoices
         \/ op \in {"calculate", "approve", "pay"} /\ r \in Commissions,
         op = "verify"  => row[r].status # "VOIDED",
         op = "issue"   => row[r].status = "DRAFT",
         op = "cancel"  => row[r].status # "CANCELLED",
         op = "approve" => row[r].status \in {"CALCULATED", "PENDING"},
         op = "pay"     => row[r].status = "APPROVED"
  PROVE  IInv'
<1> DEFINE new == [op |-> op, record |-> r, seen |-> row[r]]
<1>1. /\ call' = [call EXCEPT ![k] = new]
      /\ UNCHANGED <<row, overtaken, approved>>
      /\ row[r] # NoRow
  BY DEF Start
<1>2. new \in PaymentCall \cup InvoiceCall \cup CommissionCall
  BY <1>1 DEF IInv, TypeOK, PaymentCall, InvoiceCall, CommissionCall
<1>3. new.op = op /\ new.record = r /\ new.seen = row[r]
  OBVIOUS
<1> HIDE DEF new
<1>4. /\ call'[k] = new /\ \A j \in Calls \ {k} : call'[j] = call[j]
      /\ call' \in [Calls -> {Idle} \cup PaymentCall \cup InvoiceCall \cup CommissionCall]
  BY <1>1, <1>2 DEF IInv, TypeOK
<1>5. TypeOK'
  BY <1>1, <1>4 DEF IInv, TypeOK
<1>6. CallsAreChecked'
  BY <1>3, <1>4 DEF IInv, CallsAreChecked
<1>7. SeenExist'
  BY <1>1, <1>3, <1>4 DEF IInv, SeenExist
<1>8. PaidAsApproved'
  BY <1>1 DEF IInv, PaidAsApproved
<1> QED
  BY <1>5, <1>6, <1>7, <1>8 DEF IInv

\* A write, apart from what it means for approvals.
LEMMA FinishKeeps ==
  ASSUME IInv, NEW k \in Calls, NEW op, op # "idle", NEW new, Finish(k, op, new),
         call[k].record \in Payments => new \in LifeCycle!PaymentRow,
         call[k].record \in Invoices => new \in LifeCycle!InvoiceRow,
         call[k].record \in Commissions => new \in LifeCycle!CommissionRow,
         approved' \in [Commissions -> Amounts \cup {"none"}]
  PROVE  /\ TypeOK' /\ CallsAreChecked' /\ SeenExist'
         /\ call[k].record \in Records
         /\ row'[call[k].record] = new
         /\ \A q \in Records \ {call[k].record} : row'[q] = row[q] /\ overtaken'[q] = overtaken[q]
         /\ overtaken'[call[k].record] = "no" =>
              /\ overtaken[call[k].record] = "no"
              /\ row[call[k].record] = call[k].seen
<1> DEFINE r == call[k].record
<1>1. call[k] # Idle /\ r \in Records
  BY DEF Finish, IInv, TypeOK, Idle, PaymentCall, InvoiceCall, CommissionCall, Records
<1>2. /\ row' = [row EXCEPT ![r] = new]
      /\ overtaken' = IF row[r] # call[k].seen THEN [overtaken EXCEPT ![r] = "yes"]
                      ELSE overtaken
      /\ call' = [call EXCEPT ![k] = Idle]
  BY DEF Finish, Stale
<1> HIDE DEF r
<1>3. /\ row'[r] = new /\ \A q \in Records \ {r} : row'[q] = row[q]
      /\ row' \in [Records -> LifeCycle!Row]
  BY <1>1, <1>2 DEF IInv, TypeOK, Records, LifeCycle!Row, r
<1>4. /\ overtaken' \in [Records -> {"yes", "no"}]
      /\ \A q \in Records \ {r} : overtaken'[q] = overtaken[q]
      /\ overtaken'[r] = "no" => overtaken[r] = "no" /\ row[r] = call[k].seen
  BY <1>1, <1>2 DEF IInv, TypeOK
<1>5. /\ call'[k] = Idle /\ \A j \in Calls \ {k} : call'[j] = call[j]
      /\ call' \in [Calls -> {Idle} \cup PaymentCall \cup InvoiceCall \cup CommissionCall]
  BY <1>2 DEF IInv, TypeOK
<1>6. TypeOK'
  BY <1>1, <1>3, <1>4, <1>5 DEF IInv, TypeOK, Records, r
<1>7. CallsAreChecked'
  BY <1>5 DEF IInv, CallsAreChecked, Idle
<1>8. new # NoRow
  BY <1>1, RowsExist DEF Records, r
<1>9. SeenExist'
  BY <1>1, <1>3, <1>5, <1>8 DEF IInv, SeenExist, TypeOK, Records, PaymentCall, InvoiceCall,
                          CommissionCall
<1> QED
  BY <1>1, <1>3, <1>4, <1>6, <1>7, <1>9 DEF r

-----------------------------------------------------------------------------
(* Every step keeps the invariant and is a step of the life cycle *)

Kept == IInv' /\ [LifeCycle!Next]_LifeCycle!vars

\* Creation.
LEMMA Creations ==
  ASSUME IInv, RecordPayment \/ DraftInvoice \/ CreateCommission
  PROVE  Kept
<1>1. CASE RecordPayment
  <2>1. PICK p \in Payments, o \in Orders : Insert(p, [status |-> "RECORDED", order |-> o])
    BY <1>1 DEF RecordPayment
  <2> DEFINE new == [status |-> "RECORDED", order |-> o]
  <2>2. new \in LifeCycle!PaymentRow /\ new.status = "RECORDED"
    BY DEF LifeCycle!PaymentRow
  <2>3. p \in Records /\ p \notin Invoices /\ p \notin Commissions
    BY FinanceIdsAssumption DEF Records
  <2> HIDE DEF new
  <2>4. Insert(p, new)
    BY <2>1 DEF new
  <2>5. IInv'
    BY <2>2, <2>3, <2>4, InsertKeeps
  <2>6. LifeCycle!RecordPayment(p)
    BY <2>2, <2>4 DEF Insert, LifeCycle!RecordPayment, LifeCycle!Becomes, NoRow
  <2> QED
    BY <2>5, <2>6 DEF Kept, LifeCycle!Next
<1>2. CASE DraftInvoice
  <2>1. PICK i \in Invoices, p \in Payments \cup {NoPayment} :
          Insert(i, [status |-> "DRAFT", payment |-> p, issueDate |-> NoDate])
    BY <1>2 DEF DraftInvoice
  <2> DEFINE new == [status |-> "DRAFT", payment |-> p, issueDate |-> NoDate]
  <2>2. new \in LifeCycle!InvoiceRow /\ new.status = "DRAFT" /\ new.issueDate = NoDate
    BY DEF LifeCycle!InvoiceRow
  <2>3. i \in Records /\ i \notin Payments /\ i \notin Commissions
    BY FinanceIdsAssumption DEF Records
  <2> HIDE DEF new
  <2>4. Insert(i, new)
    BY <2>1 DEF new
  <2>5. IInv'
    BY <2>2, <2>3, <2>4, InsertKeeps
  <2>6. LifeCycle!DraftInvoice(i)
    BY <2>2, <2>4 DEF Insert, LifeCycle!DraftInvoice, LifeCycle!Becomes, NoRow
  <2> QED
    BY <2>5, <2>6 DEF Kept, LifeCycle!Next
<1>3. CASE CreateCommission
  <2>1. PICK c \in Commissions, o \in Orders, p \in Payments \cup {NoPayment}, a \in Amounts :
          /\ p # NoPayment => PaymentOfOrder(p, o)
          /\ Insert(c, [status |-> "CALCULATED", order |-> o, payment |-> p, amount |-> a])
    BY <1>3 DEF CreateCommission
  <2> DEFINE new == [status |-> "CALCULATED", order |-> o, payment |-> p, amount |-> a]
  <2>2. /\ new \in LifeCycle!CommissionRow /\ new.status = "CALCULATED"
        /\ new.payment = p /\ new.order = o
    BY DEF LifeCycle!CommissionRow
  <2>3. c \in Records /\ c \notin Payments /\ c \notin Invoices
    BY FinanceIdsAssumption DEF Records
  <2> HIDE DEF new
  <2>4. Insert(c, new)
    BY <2>1 DEF new
  <2>5. IInv'
    BY <2>2, <2>3, <2>4, InsertKeeps
  <2>6. LifeCycle!CalculateNewCommission(c)
    BY <2>1, <2>2, <2>4 DEF Insert, LifeCycle!CalculateNewCommission, LifeCycle!Becomes, NoRow,
                            PaymentOfOrder
  <2> QED
    BY <2>5, <2>6 DEF Kept, LifeCycle!Next
<1> QED
  BY <1>1, <1>2, <1>3

\* A check leaves every row alone.
LEMMA Checks ==
  ASSUME IInv, NEW k \in Calls, Check(k)
  PROVE  Kept
<1>1. UNCHANGED <<row, overtaken>>
  BY DEF Check, VerifyPayment, VoidPayment, IssueInvoice, CancelInvoice, CalculateCommission,
         ApproveCommission, PayCommission, Start
<1>2. CASE VerifyPayment(k) \/ VoidPayment(k)
  <2>1. PICK p \in Payments : \/ Verifiable(p) /\ Start(k, "verify", p)
                              \/ Start(k, "void", p)
    BY <1>2 DEF VerifyPayment, VoidPayment
  <2>2. p \in Records
    BY DEF Records
  <2>3. CASE Verifiable(p) /\ Start(k, "verify", p)
    BY <1>1, <2>2, <2>3, StartKeeps DEF Kept, Verifiable, LifeCycle!vars
  <2>4. CASE Start(k, "void", p)
    BY <1>1, <2>2, <2>4, StartKeeps DEF Kept, LifeCycle!vars
  <2> QED
    BY <2>1, <2>3, <2>4
<1>3. CASE IssueInvoice(k) \/ CancelInvoice(k)
  <2>1. PICK i \in Invoices : \/ Issuable(i) /\ Start(k, "issue", i)
                              \/ row[i].status # "CANCELLED" /\ Start(k, "cancel", i)
    BY <1>3 DEF IssueInvoice, CancelInvoice
  <2>2. i \in Records
    BY DEF Records
  <2>3. CASE Issuable(i) /\ Start(k, "issue", i)
    BY <1>1, <2>2, <2>3, StartKeeps DEF Kept, Issuable, LifeCycle!vars
  <2>4. CASE row[i].status # "CANCELLED" /\ Start(k, "cancel", i)
    BY <1>1, <2>2, <2>4, StartKeeps DEF Kept, LifeCycle!vars
  <2> QED
    BY <2>1, <2>3, <2>4
<1>4. CASE CalculateCommission(k) \/ ApproveCommission(k) \/ PayCommission(k)
  <2>1. PICK c \in Commissions :
          \/ Start(k, "calculate", c)
          \/ row[c].status \in {"CALCULATED", "PENDING"} /\ Start(k, "approve", c)
          \/ Payable(c) /\ Start(k, "pay", c)
    BY <1>4 DEF CalculateCommission, ApproveCommission, PayCommission
  <2> QED
    BY <1>1, <2>1, StartKeeps DEF Kept, Records, Payable, LifeCycle!vars
<1> QED
  BY <1>2, <1>3, <1>4 DEF Check

\* A write of a row that changed after its check.
LEMMA StaleWrite ==
  ASSUME IInv, NEW k \in Calls, NEW op, NEW new \in LifeCycle!Row, Finish(k, op, new), Stale(k),
         call[k].record \in Records
  PROVE  [LifeCycle!Next]_LifeCycle!vars
<1>1. LifeCycle!Overtake(call[k].record)
  BY DEF Finish, LifeCycle!Overtake
<1> QED
  BY <1>1 DEF LifeCycle!Next, Records, LifeCycle!Records

LEMMA PaymentWrites ==
  ASSUME IInv, NEW k \in Calls, WriteVerified(k) \/ WriteVoided(k)
  PROVE  Kept
<1> DEFINE p == call[k].record
<1>1. p \in Payments /\ call[k].seen \in LifeCycle!PaymentRow /\ call[k] # Idle
  BY CallKinds DEF WriteVerified, WriteVoided, Finish, PaymentCall, IInv, Idle
<1>2. p \in Records /\ p \notin Invoices /\ p \notin Commissions
  BY <1>1, FinanceIdsAssumption DEF Records
<1>3. row[p] \in LifeCycle!PaymentRow
  BY <1>1 DEF IInv, TypeOK, SeenExist
<1>4. PICK op \in {"verify", "void"}, s \in {"VERIFIED", "VOIDED"} :
        /\ Finish(k, op, [row[p] EXCEPT !.status = s]) /\ UNCHANGED approved
        /\ op = "verify" <=> s = "VERIFIED"
  BY DEF WriteVerified, WriteVoided, With, VoidStatus
<1> DEFINE new == [row[p] EXCEPT !.status = s]
<1>5. new \in LifeCycle!PaymentRow
  BY <1>3, <1>4, PaymentStatus DEF LifeCycle!PaymentRow
<1>6. Finish(k, op, new)
  BY <1>4
<1>6a. new = [row[p] EXCEPT !.status = s]
  OBVIOUS
<1>6b. op # "idle"
  OBVIOUS
<1>6c. approved' \in [Commissions -> Amounts \cup {"none"}]
  BY <1>4 DEF IInv, TypeOK
<1> HIDE DEF new
<1>7. /\ TypeOK' /\ CallsAreChecked' /\ SeenExist'
      /\ row'[p] = new
      /\ \A q \in Records \ {p} : row'[q] = row[q] /\ overtaken'[q] = overtaken[q]
  BY <1>1, <1>2, <1>5, <1>6, <1>6b, <1>6c, FinishKeeps
<1>8. PaidAsApproved'
  BY <1>2, <1>4, <1>7 DEF IInv, PaidAsApproved, Records
<1>9. CASE Stale(k)
  BY <1>2, <1>5, <1>6, <1>7, <1>8, <1>9, StaleWrite DEF Kept, IInv, LifeCycle!Row
<1>10. CASE ~Stale(k)
  <2>1. row[p] = call[k].seen /\ UNCHANGED overtaken /\ row' = [row EXCEPT ![p] = new]
    BY <1>6, <1>10 DEF Finish, Stale
  <2>2. CASE op = "verify"
    <3>1. row[p].status \in {"RECORDED", "VERIFIED"}
      BY <1>3, <1>6, <2>1, <2>2 DEF IInv, CallsAreChecked, Finish, LifeCycle!PaymentRow
    <3>2. LifeCycle!VerifyPayment(p)
      BY <1>4, <1>6a, <2>1, <2>2, <3>1 DEF LifeCycle!VerifyPayment, LifeCycle!Becomes
    <3> QED
      BY <1>1, <1>7, <1>8, <3>2 DEF Kept, IInv, LifeCycle!Next
  <2>3. CASE op = "void"
    <3>1. LifeCycle!VoidPayment(p)
      BY <1>1, <1>4, <1>6a, <2>1, <2>3 DEF LifeCycle!VoidPayment, LifeCycle!Becomes, IInv,
                                           SeenExist, NoRow
    <3> QED
      BY <1>1, <1>7, <1>8, <3>1 DEF Kept, IInv, LifeCycle!Next
  <2> QED
    BY <1>4, <2>2, <2>3
<1> QED
  BY <1>9, <1>10

LEMMA InvoiceWrites ==
  ASSUME IInv, NEW k \in Calls, WriteIssued(k) \/ WriteCancelled(k)
  PROVE  Kept
<1> DEFINE i == call[k].record
           op == call[k].op
           new == row'[i]
<1>0. op \in {"issue", "cancel"}
  BY DEF WriteIssued, WriteCancelled, Finish
<1>1. i \in Invoices /\ call[k].seen \in LifeCycle!InvoiceRow /\ call[k] # Idle
  BY <1>0, CallKinds DEF InvoiceCall, IInv, Idle
<1>2. i \in Records /\ i \notin Payments /\ i \notin Commissions
  BY <1>1, FinanceIdsAssumption DEF Records
<1>3. row[i] \in LifeCycle!InvoiceRow
  BY <1>1 DEF IInv, TypeOK, SeenExist
<1>4. /\ Finish(k, op, new) /\ UNCHANGED approved
      /\ op = "issue" => \E d \in Dates :
           new = [row[i] EXCEPT !.status = "ISSUED", !.issueDate = d]
      /\ op = "cancel" => new = [row[i] EXCEPT !.status = "CANCELLED"]
  <2>1. CASE WriteIssued(k)
    <3>1. PICK d \in Dates :
            Finish(k, "issue", [row[i] EXCEPT !.status = "ISSUED", !.issueDate = d])
      BY <2>1 DEF WriteIssued
    <3>2. op = "issue" /\ new = [row[i] EXCEPT !.status = "ISSUED", !.issueDate = d]
      BY <1>2, <3>1 DEF Finish, IInv, TypeOK
    <3> QED
      BY <2>1, <3>1, <3>2 DEF WriteIssued
  <2>2. CASE WriteCancelled(k)
    <3>1. op = "cancel" /\ new = [row[i] EXCEPT !.status = "CANCELLED"]
      BY <1>2, <2>2 DEF WriteCancelled, With, Finish, IInv, TypeOK
    <3> QED
      BY <2>2, <3>1 DEF WriteCancelled, With
  <2> QED
    BY <2>1, <2>2
<1> HIDE DEF new
<1>5. /\ new \in LifeCycle!InvoiceRow
      /\ op = "issue" => /\ new.status = "ISSUED" /\ new.payment = row[i].payment
                         /\ new.issueDate # NoDate
  <2>1. CASE op = "issue"
    <3>1. PICK d \in Dates : new = [row[i] EXCEPT !.status = "ISSUED", !.issueDate = d]
      BY <1>4, <2>1
    <3>2. new = [status |-> "ISSUED", payment |-> row[i].payment, issueDate |-> d]
      BY <1>3, <3>1, InvoiceIssued
    <3> QED
      BY <1>3, <3>2, FinanceIdsAssumption DEF LifeCycle!InvoiceRow
  <2>2. CASE op = "cancel"
    BY <1>3, <1>4, <2>2, InvoiceStatus DEF LifeCycle!InvoiceRow
  <2> QED
    BY <1>0, <2>1, <2>2
<1>6. approved' \in [Commissions -> Amounts \cup {"none"}]
  BY <1>4 DEF IInv, TypeOK
<1>7. /\ TypeOK' /\ CallsAreChecked' /\ SeenExist'
      /\ row'[i] = new
      /\ \A q \in Records \ {i} : row'[q] = row[q] /\ overtaken'[q] = overtaken[q]
  <2>1. op # "idle"
    BY <1>0
  <2>2. Finish(k, op, new)
    BY <1>4
  <2> HIDE DEF op
  <2> QED
    BY <1>1, <1>2, <1>5, <1>6, <2>1, <2>2, FinishKeeps
<1>8. PaidAsApproved'
  BY <1>2, <1>4, <1>7 DEF IInv, PaidAsApproved, Records
<1>9. CASE Stale(k)
  BY <1>2, <1>4, <1>5, <1>7, <1>8, <1>9, StaleWrite DEF Kept, IInv, LifeCycle!Row
<1>10. CASE ~Stale(k)
  <2>1. row[i] = call[k].seen /\ LifeCycle!Becomes(i, new)
    BY <1>4, <1>10 DEF Finish, Stale, LifeCycle!Becomes
  <2>2. CASE op = "issue"
    <3>1. row[i].status = "DRAFT"
      BY <2>1, <2>2 DEF IInv, CallsAreChecked
    <3>2. LifeCycle!IssueInvoice(i)
      BY <1>5, <2>1, <2>2, <3>1 DEF LifeCycle!IssueInvoice
    <3> QED
      BY <1>1, <1>7, <1>8, <3>2 DEF Kept, IInv, LifeCycle!Next
  <2>3. CASE op = "cancel"
    <3>1. row[i].status \in {"DRAFT", "ISSUED"}
      BY <1>3, <2>1, <2>3 DEF IInv, CallsAreChecked, LifeCycle!InvoiceRow
    <3>2. LifeCycle!CancelInvoice(i)
      BY <1>4, <2>1, <2>3, <3>1 DEF LifeCycle!CancelInvoice
    <3> QED
      BY <1>1, <1>7, <1>8, <3>2 DEF Kept, IInv, LifeCycle!Next
  <2> QED
    BY <1>0, <2>2, <2>3
<1> QED
  BY <1>9, <1>10

LEMMA CommissionWrites ==
  ASSUME IInv, NEW k \in Calls, WriteCalculated(k) \/ WriteApproved(k) \/ WritePaid(k)
  PROVE  Kept
<1> DEFINE c == call[k].record
           op == call[k].op
           new == row'[c]
<1>0. op \in {"calculate", "approve", "pay"}
  BY DEF WriteCalculated, WriteApproved, WritePaid, Finish
<1>1. c \in Commissions /\ call[k].seen \in LifeCycle!CommissionRow /\ call[k] # Idle
  BY <1>0, CallKinds DEF CommissionCall, IInv, Idle
<1>2. c \in Records /\ c \notin Payments /\ c \notin Invoices
  BY <1>1, FinanceIdsAssumption DEF Records
<1>3. row[c] \in LifeCycle!CommissionRow
  BY <1>1, SMTT(30) DEF IInv, TypeOK, SeenExist
<1>4. /\ Finish(k, op, new)
      /\ op = "calculate" => /\ UNCHANGED approved
                             /\ \E a \in Amounts : new =
                                  [row[c] EXCEPT !.amount = a, !.status = "CALCULATED"]
      /\ op = "approve" => /\ approved' = [approved EXCEPT ![c] = call[k].seen.amount]
                           /\ new = [row[c] EXCEPT !.status = "APPROVED"]
      /\ op = "pay" => /\ UNCHANGED approved
                       /\ new = [row[c] EXCEPT !.status = "PAID"]
  <2>1. CASE WriteCalculated(k)
    <3>1. PICK a \in Amounts :
            Finish(k, "calculate", [row[c] EXCEPT !.amount = a, !.status = "CALCULATED"])
      BY <2>1 DEF WriteCalculated, Recalculated
    <3>2. op = "calculate" /\ new = [row[c] EXCEPT !.amount = a, !.status = "CALCULATED"]
      BY <1>2, <3>1 DEF Finish, IInv, TypeOK
    <3> QED
      BY <2>1, <3>1, <3>2 DEF WriteCalculated
  <2>2. CASE WriteApproved(k)
    <3>1. op = "approve" /\ new = [row[c] EXCEPT !.status = "APPROVED"]
      BY <1>2, <2>2 DEF WriteApproved, With, Finish, IInv, TypeOK
    <3> QED
      BY <2>2, <3>1 DEF WriteApproved, With
  <2>3. CASE WritePaid(k)
    <3>1. op = "pay" /\ new = [row[c] EXCEPT !.status = "PAID"]
      BY <1>2, <2>3 DEF WritePaid, With, Finish, IInv, TypeOK
    <3> QED
      BY <2>3, <3>1 DEF WritePaid, With
  <2> QED
    BY <2>1, <2>2, <2>3
<1> HIDE DEF new
<1>5. /\ new \in LifeCycle!CommissionRow
      /\ op = "calculate" => /\ new.status = "CALCULATED" /\ new.order = row[c].order
                             /\ new.payment = row[c].payment
      /\ op \in {"approve", "pay"} => new.amount = row[c].amount
  <2>1. CASE op = "calculate"
    <3>1. PICK a \in Amounts : new = [row[c] EXCEPT !.amount = a, !.status = "CALCULATED"]
      BY <1>4, <2>1
    <3>2. new = [status |-> "CALCULATED", order |-> row[c].order,
                 payment |-> row[c].payment, amount |-> a]
      BY <1>3, <3>1, CommissionCalculated
    <3> QED
      BY <1>3, <2>1, <3>2 DEF LifeCycle!CommissionRow
  <2>2. CASE op = "approve"
    BY <1>3, <1>4, <2>2, CommissionStatus DEF LifeCycle!CommissionRow
  <2>3. CASE op = "pay"
    BY <1>3, <1>4, <2>3, CommissionStatus DEF LifeCycle!CommissionRow
  <2> QED
    BY <1>0, <2>1, <2>2, <2>3
<1>6. call[k].seen.amount \in Amounts
  BY <1>1 DEF LifeCycle!CommissionRow
<1>7. approved' \in [Commissions -> Amounts \cup {"none"}]
  <2>1. CASE op = "approve"
    BY <1>4, <1>6, <2>1 DEF IInv, TypeOK
  <2>2. CASE op # "approve"
    BY <1>0, <1>4, <2>2 DEF IInv, TypeOK
  <2> QED
    BY <2>1, <2>2
<1>8. /\ TypeOK' /\ CallsAreChecked' /\ SeenExist'
      /\ row'[c] = new
      /\ \A q \in Records \ {c} : row'[q] = row[q] /\ overtaken'[q] = overtaken[q]
      /\ overtaken'[c] = "no" => overtaken[c] = "no" /\ row[c] = call[k].seen
  <2>1. op # "idle"
    BY <1>0
  <2>2. Finish(k, op, new)
    BY <1>4
  <2> HIDE DEF op
  <2> QED
    BY <1>1, <1>2, <1>5, <1>7, <2>1, <2>2, FinishKeeps
<1>9. \A q \in Commissions \ {c} : approved'[q] = approved[q]
  <2>1. CASE op = "approve"
    BY <1>4, <2>1 DEF IInv, TypeOK
  <2>2. CASE op # "approve"
    BY <1>0, <1>4, <2>2
  <2> QED
    BY <2>1, <2>2
<1>10. (row'[c].status \in {"APPROVED", "PAID"} /\ overtaken'[c] = "no")
         => row'[c].amount = approved'[c]
  <2> SUFFICES ASSUME row'[c].status \in {"APPROVED", "PAID"}, overtaken'[c] = "no"
               PROVE  row'[c].amount = approved'[c]
    OBVIOUS
  <2>1. overtaken[c] = "no" /\ row[c] = call[k].seen
    BY <1>8
  <2>2. CASE op = "approve"
    BY <1>1, <1>4, <1>5, <1>8, <2>1, <2>2 DEF IInv, TypeOK
  <2>3. CASE op = "pay"
    <3>1. row[c].status = "APPROVED"
      BY <2>1, <2>3 DEF IInv, CallsAreChecked
    <3> QED
      BY <1>1, <1>4, <1>5, <1>8, <2>1, <2>3, <3>1 DEF IInv, PaidAsApproved
  <2>4. CASE op = "calculate"
    BY <1>5, <1>8, <2>4
  <2> QED
    BY <1>0, <2>2, <2>3, <2>4
<1>11. PaidAsApproved'
  BY <1>1, <1>8, <1>9, <1>10 DEF IInv, PaidAsApproved, Records
<1>12. CASE Stale(k)
  BY <1>2, <1>4, <1>5, <1>8, <1>11, <1>12, StaleWrite DEF Kept, IInv, LifeCycle!Row
<1>13. CASE ~Stale(k)
  <2>1. row[c] = call[k].seen /\ LifeCycle!Becomes(c, new)
    BY <1>4, <1>13 DEF Finish, Stale, LifeCycle!Becomes
  <2>2. /\ op = "approve" => row[c].status \in {"CALCULATED", "PENDING"}
        /\ op = "pay" => row[c].status = "APPROVED"
    BY <2>1 DEF IInv, CallsAreChecked
  <2>3. row[c] # NoRow
    BY <1>1 DEF IInv, SeenExist
  <2>4. \/ LifeCycle!RecalculateCommission(c)
        \/ LifeCycle!ApproveCommission(c)
        \/ LifeCycle!PayCommission(c)
    <3>1. CASE op = "calculate"
      BY <1>5, <2>1, <2>3, <3>1 DEF LifeCycle!RecalculateCommission, NoRow
    <3>2. CASE op = "approve"
      BY <1>4, <2>1, <2>2, <3>2 DEF LifeCycle!ApproveCommission
    <3>3. CASE op = "pay"
      BY <1>4, <2>1, <2>2, <3>3 DEF LifeCycle!PayCommission
    <3> QED
      BY <1>0, <3>1, <3>2, <3>3
  <2> QED
    BY <1>1, <1>8, <1>11, <2>4 DEF Kept, IInv, LifeCycle!Next
<1> QED
  BY <1>12, <1>13

LEMMA StepKept == IInv /\ [Next]_vars => Kept
<1> SUFFICES ASSUME IInv, [Next]_vars
             PROVE  Kept
  OBVIOUS
<1>1. CASE RecordPayment \/ DraftInvoice \/ CreateCommission
  BY <1>1, Creations
<1>2. ASSUME NEW k \in Calls, Check(k)
      PROVE  Kept
  BY <1>2, Checks
<1>3. ASSUME NEW k \in Calls, Write(k)
      PROVE  Kept
  BY <1>3, PaymentWrites, InvoiceWrites, CommissionWrites DEF Write
<1>4. CASE Restart
  <2>1. \A k \in Calls : call'[k] = Idle
    BY <1>4 DEF Restart
  <2>2. UNCHANGED <<row, overtaken, approved>> /\ call' = [k \in Calls |-> Idle]
    BY <1>4 DEF Restart
  <2>3. TypeOK' /\ PaidAsApproved'
    BY <2>2 DEF IInv, TypeOK, PaidAsApproved
  <2>4. CallsAreChecked' /\ SeenExist'
    BY <2>1 DEF CallsAreChecked, SeenExist, Idle
  <2> QED
    BY <2>2, <2>3, <2>4 DEF Kept, IInv, LifeCycle!vars
<1>5. CASE UNCHANGED vars
  BY <1>5 DEF vars, Kept, IInv, TypeOK, CallsAreChecked, SeenExist, PaidAsApproved,
              LifeCycle!vars
<1> QED
  BY <1>1, <1>2, <1>3, <1>4, <1>5 DEF Next

-----------------------------------------------------------------------------
(* Theorems *)

LEMMA Invariance == Spec => []IInv
<1>1. IInv /\ [Next]_vars => IInv'
  BY StepKept DEF Kept
<1> QED
  BY <1>1, IInvInit, PTL DEF Spec

\* Type correctness of rows, calls and history.
THEOREM TypeCorrect == Spec => []TypeOK
BY Invariance, PTL DEF IInv

\* What the approver saw is what is paid, wherever no write was stale.
THEOREM PaysWhatWasApproved == Spec => []PaidAsApproved
BY Invariance, PTL DEF IInv

\* The two-step handlers implement the documented one-step commands on every
\* record that no call wrote on stale information.
THEOREM Implements == Spec => FollowsLifeCycle
<1>1. Init => LifeCycle!Init
  BY DEF Init, LifeCycle!Init, NoRow, Records, LifeCycle!Records
<1>2. IInv /\ [Next]_vars => [LifeCycle!Next]_LifeCycle!vars
  BY StepKept DEF Kept
<1> QED
  BY <1>1, <1>2, Invariance, PTL DEF Spec, FollowsLifeCycle, LifeCycle!Spec

\* A call that is new in flight has just passed its check.
LEMMA NewCalls ==
  ASSUME IInv, [Next]_vars, NEW j \in Calls, call'[j] # Idle, call'[j] # call[j]
  PROVE  /\ row' = row
         /\ call'[j].op = "verify" => row[call'[j].record].status # "VOIDED"
         /\ call'[j].op = "issue" => row[call'[j].record].status = "DRAFT"
<1>1. PICK k \in Calls : Check(k)
  BY DEF Next, vars, RecordPayment, DraftInvoice, CreateCommission, Insert, Restart, Write,
         WriteVerified, WriteVoided, WriteIssued, WriteCancelled, WriteCalculated,
         WriteApproved, WritePaid, Finish, IInv, TypeOK
<1>2. PICK op \in {"verify", "void", "issue", "cancel", "calculate", "approve", "pay"},
           r \in Records :
        /\ Start(k, op, r)
        /\ op = "verify" => row[r].status # "VOIDED"
        /\ op = "issue" => row[r].status = "DRAFT"
  BY <1>1 DEF Check, VerifyPayment, VoidPayment, IssueInvoice, CancelInvoice,
              CalculateCommission, ApproveCommission, PayCommission, Verifiable, Issuable,
              Records
<1>3. row' = row /\ call' = [call EXCEPT ![k] = [op |-> op, record |-> r, seen |-> row[r]]]
  BY <1>2 DEF Start
<1>4. j = k /\ call'[j] = [op |-> op, record |-> r, seen |-> row[r]]
  BY <1>3 DEF IInv, TypeOK
<1> QED
  BY <1>2, <1>3, <1>4

\* Who changes the row of a payment or an invoice that exists, and to what.
LEMMA RowWrites ==
  ASSUME IInv, [Next]_vars, NEW r \in Payments \cup Invoices, row[r] # NoRow,
         row'[r] # row[r]
  PROVE  /\ r \in Payments => InFlight("verify", r) \/ row'[r].status = "VOIDED"
         /\ r \in Invoices => InFlight("issue", r) \/ row'[r].status = "CANCELLED"
<1>1. ~ (RecordPayment \/ DraftInvoice \/ CreateCommission)
  <2>1. SUFFICES ASSUME NEW q \in Records, NEW new, Insert(q, new)
                 PROVE  FALSE
    BY DEF RecordPayment, DraftInvoice, CreateCommission, Records
  <2>2. row[q] = NoRow /\ row' = [row EXCEPT ![q] = new]
    BY <2>1 DEF Insert
  <2> QED
    BY <2>2 DEF IInv, TypeOK, Records
<1>2. PICK k \in Calls : Write(k)
  BY <1>1 DEF Next, vars, Check, VerifyPayment, VoidPayment, IssueInvoice, CancelInvoice,
              CalculateCommission, ApproveCommission, PayCommission, Start, Restart
<1>3. ASSUME NEW op, NEW new, Finish(k, op, new)
      PROVE  call[k].op = op /\ call[k].record = r /\ row'[r] = new
  BY <1>3 DEF Finish, IInv, TypeOK, Records
<1>4. CASE WriteVerified(k)
  <2>1. call[k].op = "verify" /\ call[k].record = r
    BY <1>3, <1>4 DEF WriteVerified
  <2>2. r \in Payments
    BY <2>1, CallKinds DEF IInv, PaymentCall
  <2> QED
    BY <2>1, <2>2, FinanceIdsAssumption DEF InFlight
<1>5. CASE WriteVoided(k)
  <2>1. /\ call[k].op = "void" /\ call[k].record = r
        /\ row'[r] = [row[r] EXCEPT !.status = "VOIDED"]
    BY <1>3, <1>5 DEF WriteVoided, With, VoidStatus
  <2>2. r \in Payments
    BY <2>1, CallKinds DEF IInv, PaymentCall
  <2>3. row[r] \in LifeCycle!PaymentRow
    BY <2>2 DEF IInv, TypeOK
  <2> QED
    BY <2>1, <2>2, <2>3, PaymentStatus, FinanceIdsAssumption
<1>6. CASE WriteIssued(k)
  <2>1. call[k].op = "issue" /\ call[k].record = r
    BY <1>3, <1>6 DEF WriteIssued
  <2>2. r \in Invoices
    BY <2>1, CallKinds DEF IInv, InvoiceCall
  <2> QED
    BY <2>1, <2>2, FinanceIdsAssumption DEF InFlight
<1>7. CASE WriteCancelled(k)
  <2>1. /\ call[k].op = "cancel" /\ call[k].record = r
        /\ row'[r] = [row[r] EXCEPT !.status = "CANCELLED"]
    BY <1>3, <1>7 DEF WriteCancelled, With
  <2>2. r \in Invoices
    BY <2>1, CallKinds DEF IInv, InvoiceCall
  <2>3. row[r] \in LifeCycle!InvoiceRow
    BY <2>2 DEF IInv, TypeOK
  <2> QED
    BY <2>1, <2>2, <2>3, InvoiceStatus, FinanceIdsAssumption
<1>8. CASE WriteCalculated(k) \/ WriteApproved(k) \/ WritePaid(k)
  <2>1. call[k].op \in {"calculate", "approve", "pay"} /\ call[k].record = r
    BY <1>3, <1>8 DEF WriteCalculated, WriteApproved, WritePaid
  <2>2. r \in Commissions
    BY <2>1, CallKinds DEF IInv, CommissionCall
  <2> QED
    BY <2>2, FinanceIdsAssumption
<1> QED
  BY <1>2, <1>4, <1>5, <1>6, <1>7, <1>8 DEF Write

LEMMA FinalStep == IInv /\ [Next]_vars => FinalDecisions
<1> SUFFICES ASSUME IInv, [Next]_vars
             PROVE  FinalDecisions
  OBVIOUS
<1>1. ASSUME NEW p \in Payments, Voided(p)
      PROVE  Voided(p)'
  <2>1. row'[p].status = "VOIDED"
    BY <1>1, RowWrites DEF Voided, NoRow, LifeCycle!NoRow
  <2>2. ASSUME NEW j \in Calls, call'[j].op = "verify", call'[j].record = p
        PROVE  FALSE
    BY <1>1, <2>2, NewCalls DEF Voided, InFlight, Idle
  <2> QED
    BY <2>1, <2>2 DEF Voided, InFlight
<1>2. ASSUME NEW i \in Invoices, Cancelled(i)
      PROVE  Cancelled(i)'
  <2>1. row'[i].status = "CANCELLED"
    BY <1>2, RowWrites DEF Cancelled, NoRow, LifeCycle!NoRow
  <2>2. ASSUME NEW j \in Calls, call'[j].op = "issue", call'[j].record = i
        PROVE  FALSE
    BY <1>2, <2>2, NewCalls DEF Cancelled, InFlight, Idle
  <2> QED
    BY <2>1, <2>2 DEF Cancelled, InFlight
<1> QED
  BY <1>1, <1>2 DEF FinalDecisions

\* A void or a cancellation is final once the calls that had checked before it
\* are answered, however many calls there are.
THEOREM Finality == Spec => DecisionsAreFinal
BY FinalStep, Invariance, PTL DEF Spec, DecisionsAreFinal
=============================================================================

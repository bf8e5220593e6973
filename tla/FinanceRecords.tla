-------------------------- MODULE FinanceRecords --------------------------
(***************************************************************************)
(* Payments, VAT invoices and commissions: PaymentApplicationService,      *)
(* VatInvoiceApplicationService and CommissionApplicationService.          *)
(*                                                                         *)
(* Every command is an async handler of two steps: findById and the check  *)
(* of the status, then, an await later, an UPDATE of the row by its id     *)
(* that asks nothing about the status any more.  What a command writes     *)
(* beside the status (the amount, the issue date) comes from its request   *)
(* and is chosen when it is written.                                       *)
(*                                                                         *)
(* The create handlers check only that the order exists and which order a  *)
(* payment is of.  Neither ever changes, so check and insert are one step. *)
(***************************************************************************)
EXTENDS FinanceIds

CONSTANTS Orders, Amounts, Calls

VARIABLES
  row,       \* rows of payments, vat_invoices and commissions
  call,      \* commands between their check and their write
  overtaken, \* history: a call wrote the record although it had changed
  approved   \* history: the amount the last approver of a commission had read

vars == <<row, call, overtaken, approved>>

LifeCycle == INSTANCE FinanceLifeCycle

Records == Payments \cup Invoices \cup Commissions
NoRow   == LifeCycle!NoRow
Idle    == [op |-> "idle"]

PaymentCall    == [op : {"verify", "void"}, record : Payments, seen : LifeCycle!PaymentRow]
InvoiceCall    == [op : {"issue", "cancel"}, record : Invoices, seen : LifeCycle!InvoiceRow]
CommissionCall == [op : {"calculate", "approve", "pay"}, record : Commissions,
                   seen : LifeCycle!CommissionRow]

TypeOK ==
  /\ row \in [Records -> LifeCycle!Row]
  /\ \A p \in Payments : row[p] \in LifeCycle!PaymentRow \cup {NoRow}
  /\ \A i \in Invoices : row[i] \in LifeCycle!InvoiceRow \cup {NoRow}
  /\ \A c \in Commissions : row[c] \in LifeCycle!CommissionRow \cup {NoRow}
  /\ call \in [Calls -> {Idle} \cup PaymentCall \cup InvoiceCall \cup CommissionCall]
  /\ overtaken \in [Records -> {"yes", "no"}]
  /\ approved \in [Commissions -> Amounts \cup {"none"}]

Init ==
  /\ row = [r \in Records |-> NoRow]
  /\ call = [k \in Calls |-> Idle]
  /\ overtaken = [r \in Records |-> "no"]
  /\ approved = [c \in Commissions |-> "none"]

-----------------------------------------------------------------------------
(* Creation *)

Insert(r, new) ==
  /\ row[r] = NoRow
  /\ row' = [row EXCEPT ![r] = new]
  /\ UNCHANGED <<call, overtaken, approved>>

RecordPayment ==
  \E p \in Payments, o \in Orders : Insert(p, [status |-> "RECORDED", order |-> o])

\* The paymentId is not checked; the foreign key asks for its row.
DraftInvoice ==
  \E i \in Invoices, p \in Payments \cup {NoPayment} :
    /\ p # NoPayment => row[p] # NoRow
    /\ Insert(i, [status |-> "DRAFT", payment |-> p, issueDate |-> NoDate])

\* Otherwise the answer is "Payment does not belong to order".
PaymentOfOrder(p, o) == row[p] # NoRow /\ row[p].order = o

CreateCommission ==
  \E c \in Commissions, o \in Orders, p \in Payments \cup {NoPayment}, a \in Amounts :
    /\ p # NoPayment => PaymentOfOrder(p, o)
    /\ Insert(c, [status |-> "CALCULATED", order |-> o, payment |-> p, amount |-> a])

-----------------------------------------------------------------------------
(* First half of a command: findById, and the check *)

Start(k, op, r) ==
  /\ call[k] = Idle
  /\ row[r] # NoRow
  /\ call' = [call EXCEPT ![k] = [op |-> op, record |-> r, seen |-> row[r]]]
  /\ UNCHANGED <<row, overtaken, approved>>

\* The checks; and a bug in each.
VerifiableAlways(r) == TRUE
Verifiable(r) == row[r].status # "VOIDED"
IssuableUnlessCancelled(r) == row[r].status # "CANCELLED"
Issuable(r) == row[r].status = "DRAFT"
PayableAlways(r) == row[r].status # "PAID"
Payable(r) == row[r].status = "APPROVED"

VerifyPayment(k)       == \E p \in Payments : Verifiable(p) /\ Start(k, "verify", p)
VoidPayment(k)         == \E p \in Payments : Start(k, "void", p)
IssueInvoice(k)        == \E i \in Invoices : Issuable(i) /\ Start(k, "issue", i)
CancelInvoice(k)       == \E i \in Invoices : /\ row[i].status # "CANCELLED"
                                              /\ Start(k, "cancel", i)
CalculateCommission(k) == \E c \in Commissions : Start(k, "calculate", c)
ApproveCommission(k)   == \E c \in Commissions : /\ row[c].status \in {"CALCULATED", "PENDING"}
                                                 /\ Start(k, "approve", c)
PayCommission(k)       == \E c \in Commissions : Payable(c) /\ Start(k, "pay", c)

-----------------------------------------------------------------------------
(* Second half: the UPDATE *)

\* Is the row no longer the one the handler checked?
Stale(k) == row[call[k].record] # call[k].seen

Finish(k, op, new) ==
  /\ call[k].op = op
  /\ row' = [row EXCEPT ![call[k].record] = new]
  /\ overtaken' = IF Stale(k) THEN [overtaken EXCEPT ![call[k].record] = "yes"] ELSE overtaken
  /\ call' = [call EXCEPT ![k] = Idle]

With(k, status) == [row[call[k].record] EXCEPT !.status = status]

WriteVerified(k) == Finish(k, "verify", With(k, "VERIFIED")) /\ UNCHANGED approved

\* VOIDED; and a bug: the invoice's word for it.
VoidStatusOfInvoice == "CANCELLED"
VoidStatus == "VOIDED"

WriteVoided(k) == Finish(k, "void", With(k, VoidStatus)) /\ UNCHANGED approved

WriteIssued(k) ==
  /\ \E d \in Dates :
       Finish(k, "issue", [row[call[k].record] EXCEPT !.status = "ISSUED", !.issueDate = d])
  /\ UNCHANGED approved

WriteCancelled(k) == Finish(k, "cancel", With(k, "CANCELLED")) /\ UNCHANGED approved

\* The row after a calculation; and a bug: the approval stays.
RecalculatedApproved(r, a) == [row[r] EXCEPT !.amount = a]
Recalculated(r, a) == [row[r] EXCEPT !.amount = a, !.status = "CALCULATED"]

WriteCalculated(k) ==
  /\ \E a \in Amounts : Finish(k, "calculate", Recalculated(call[k].record, a))
  /\ UNCHANGED approved

WriteApproved(k) ==
  /\ Finish(k, "approve", With(k, "APPROVED"))
  /\ approved' = [approved EXCEPT ![call[k].record] = call[k].seen.amount]

WritePaid(k) == Finish(k, "pay", With(k, "PAID")) /\ UNCHANGED approved

\* The process dies: what was read is forgotten, nothing was written.
Restart ==
  /\ call' = [k \in Calls |-> Idle]
  /\ UNCHANGED <<row, overtaken, approved>>

Check(k) ==
  \/ VerifyPayment(k) \/ VoidPayment(k) \/ IssueInvoice(k) \/ CancelInvoice(k)
  \/ CalculateCommission(k) \/ ApproveCommission(k) \/ PayCommission(k)

Write(k) ==
  \/ WriteVerified(k) \/ WriteVoided(k) \/ WriteIssued(k) \/ WriteCancelled(k)
  \/ WriteCalculated(k) \/ WriteApproved(k) \/ WritePaid(k)

Next ==
  \/ RecordPayment \/ DraftInvoice \/ CreateCommission
  \/ \E k \in Calls : Check(k) \/ Write(k)
  \/ Restart

Spec == Init /\ [][Next]_vars

-----------------------------------------------------------------------------
(* Properties *)

\* Every record follows the documented life cycle for as long as no call wrote
\* it on stale information, whatever happens to the other records meanwhile:
\* each handler's check is the documented one and its write does nothing else.
FollowsLifeCycle == LifeCycle!Spec

InFlight(op, r) == \E k \in Calls : call[k].op = op /\ call[k].record = r

\* A decision is final once every call that had passed its check before is
\* answered: then no later call can pass the check.
Voided(p)    == row[p].status = "VOIDED" /\ ~InFlight("verify", p)
Cancelled(i) == row[i].status = "CANCELLED" /\ ~InFlight("issue", i)

FinalDecisions ==
  /\ \A p \in Payments : Voided(p) => Voided(p)'
  /\ \A i \in Invoices : Cancelled(i) => Cancelled(i)'

DecisionsAreFinal == [][FinalDecisions]_vars

\* What is paid is the amount the approver saw, unless somebody wrote the
\* commission on stale information: a calculation in between needs a new
\* approval.
PaidAsApproved ==
  \A c \in Commissions :
    (row[c].status \in {"APPROVED", "PAID"} /\ overtaken[c] = "no") => row[c].amount = approved[c]

-----------------------------------------------------------------------------
(* What the documents say, and the code does not keep when calls overlap *)

\* commissions.md:62: "pay - from APPROVED only".
PaidOnlyFromApproved ==
  [][\A k \in Calls : WritePaid(k) => row[call[k].record].status = "APPROVED"]_vars

-----------------------------------------------------------------------------
(* Inductive invariant *)

\* A call in flight passed its check on the row it saw.
CallsAreChecked ==
  \A k \in Calls :
    /\ call[k].op = "verify"  => call[k].seen.status # "VOIDED"
    /\ call[k].op = "issue"   => call[k].seen.status = "DRAFT"
    /\ call[k].op = "cancel"  => call[k].seen.status # "CANCELLED"
    /\ call[k].op = "approve" => call[k].seen.status \in {"CALCULATED", "PENDING"}
    /\ call[k].op = "pay"     => call[k].seen.status = "APPROVED"
=============================================================================

------------------------- MODULE FinanceLifeCycle -------------------------
(***************************************************************************)
(* What the API documents about payments, VAT invoices and commissions     *)
(* (docs/04-development/api/payments.md, vat.md, commissions.md): which    *)
(* command is answered from which status, each command being one step.     *)
(*                                                                         *)
(* The service has no step that reads and writes at once, so it can        *)
(* promise this only of records whose writers never overtook each other.   *)
(* A record that a call wrote on stale information is `overtaken`, and     *)
(* nothing is promised of it any more.                                     *)
(***************************************************************************)
EXTENDS FinanceIds

CONSTANTS
  Orders,
  Amounts  \* commission amounts

Records == Payments \cup Invoices \cup Commissions

VARIABLES
  row,       \* the record's row
  overtaken  \* was the record written on stale information?

vars == <<row, overtaken>>

-----------------------------------------------------------------------------
(* Rows *)

NoRow == [status |-> "none"]

PaymentRow == [status : {"RECORDED", "VERIFIED", "VOIDED"}, order : Orders]

InvoiceRow == [status : {"DRAFT", "ISSUED", "CANCELLED"},
               payment : Payments \cup {NoPayment}, issueDate : Dates \cup {NoDate}]

CommissionRow == [status : {"PENDING", "CALCULATED", "APPROVED", "PAID", "CANCELLED"},
                  order : Orders, payment : Payments \cup {NoPayment}, amount : Amounts]

Row == PaymentRow \cup InvoiceRow \cup CommissionRow \cup {NoRow}

Init ==
  /\ row = [r \in Records |-> NoRow]
  /\ overtaken = [r \in Records |-> "no"]

Becomes(r, new) == row' = [row EXCEPT ![r] = new] /\ UNCHANGED overtaken

-----------------------------------------------------------------------------
(* Commands *)

RecordPayment(p) ==
  /\ row[p] = NoRow
  /\ \E new \in PaymentRow : new.status = "RECORDED" /\ Becomes(p, new)

VerifyPayment(p) ==
  /\ row[p].status \in {"RECORDED", "VERIFIED"}
  /\ Becomes(p, [row[p] EXCEPT !.status = "VERIFIED"])

VoidPayment(p) ==
  /\ row[p] # NoRow
  /\ Becomes(p, [row[p] EXCEPT !.status = "VOIDED"])

DraftInvoice(i) ==
  /\ row[i] = NoRow
  /\ \E new \in InvoiceRow :
       new.status = "DRAFT" /\ new.issueDate = NoDate /\ Becomes(i, new)

IssueInvoice(i) ==
  /\ row[i].status = "DRAFT"
  /\ \E new \in InvoiceRow :
       /\ new.status = "ISSUED" /\ new.issueDate # NoDate
       /\ new.payment = row[i].payment
       /\ Becomes(i, new)

CancelInvoice(i) ==
  /\ row[i].status \in {"DRAFT", "ISSUED"}
  /\ Becomes(i, [row[i] EXCEPT !.status = "CANCELLED"])

\* commissions.md: "Creates with status: CALCULATED".  The payment, if there is
\* one, is a payment of the order.
CalculateNewCommission(c) ==
  /\ row[c] = NoRow
  /\ \E new \in CommissionRow :
       /\ new.status = "CALCULATED"
       /\ new.payment # NoPayment => /\ row[new.payment] # NoRow
                                     /\ row[new.payment].order = new.order
       /\ Becomes(c, new)

\* A recalculation sends the commission back to approval.
RecalculateCommission(c) ==
  /\ row[c] # NoRow
  /\ \E new \in CommissionRow :
       /\ new.status = "CALCULATED"
       /\ new.order = row[c].order /\ new.payment = row[c].payment
       /\ Becomes(c, new)

ApproveCommission(c) ==
  /\ row[c].status \in {"CALCULATED", "PENDING"}
  /\ Becomes(c, [row[c] EXCEPT !.status = "APPROVED"])

PayCommission(c) ==
  /\ row[c].status = "APPROVED"
  /\ Becomes(c, [row[c] EXCEPT !.status = "PAID"])

Overtake(r) ==
  /\ overtaken' = [overtaken EXCEPT ![r] = "yes"]
  /\ \E new \in Row : row' = [row EXCEPT ![r] = new]

Next ==
  \/ \E p \in Payments : RecordPayment(p) \/ VerifyPayment(p) \/ VoidPayment(p)
  \/ \E i \in Invoices : DraftInvoice(i) \/ IssueInvoice(i) \/ CancelInvoice(i)
  \/ \E c \in Commissions : \/ CalculateNewCommission(c) \/ RecalculateCommission(c)
                            \/ ApproveCommission(c) \/ PayCommission(c)
  \/ \E r \in Records : Overtake(r)

Spec == Init /\ [][Next]_vars
=============================================================================

----------------------------- MODULE FinanceIds -----------------------------
(***************************************************************************)
(* Ids of payments, VAT invoices and commissions, dates, and their nulls.  *)
(***************************************************************************)
CONSTANTS
  Payments, Invoices, Commissions,
  Dates,
  NoPayment,  \* a null paymentId
  NoDate      \* a null issueDate

ASSUME FinanceIdsAssumption ==
  /\ NoPayment \notin Payments
  /\ NoDate \notin Dates
  /\ \A p \in Payments, i \in Invoices : p # i
  /\ \A p \in Payments, c \in Commissions : p # c
  /\ \A i \in Invoices, c \in Commissions : i # c
=============================================================================

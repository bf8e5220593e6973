------------------------ MODULE DashboardStatistics ------------------------
(***************************************************************************)
(* The payment figures of the Widgeto dashboard                            *)
(* (WidgetoApplicationService): two queries in a Promise.all, on two       *)
(* connections of the pool and in no common transaction, while payments    *)
(* are recorded, verified and voided.                                      *)
(*                                                                         *)
(* A range of dates selects some of the payments, for recordedAt never     *)
(* changes; counts and sums are the sets of payments that went into them.  *)
(* The figures of customers and orders are one query each.                 *)
(***************************************************************************)
CONSTANTS Calls, Payments

VARIABLES
  payment,  \* payment -> verificationStatus, or none
  call

vars == <<payment, call>>

Statuses == {"RECORDED", "VERIFIED", "VOIDED"}

\* range: the payments with recordedAt in it; left: queries still out; byStatus
\* and verified: their results; moved: history, payments that changed their
\* status between the two.
Idle == [pc |-> "idle"]
Call == {Idle} \cup
  [pc : {"asked"}, range : SUBSET Payments, left : SUBSET {"groups", "sum"},
   byStatus : [Statuses -> SUBSET Payments], verified : SUBSET Payments,
   moved : SUBSET Payments]

TypeOK ==
  /\ payment \in [Payments -> Statuses \cup {"none"}]
  /\ call \in [Calls -> Call]

Init ==
  /\ payment = [p \in Payments |-> "none"]
  /\ call = [k \in Calls |-> Idle]

Goto(k, c) == call' = [call EXCEPT ![k] = c]
Out(c, query) == c.pc = "asked" /\ query \in c.left
Answered(c) == c.pc = "asked" /\ c.left = {}

-----------------------------------------------------------------------------
(* GET /widgeto/payments and /widgeto/summary *)

\* dateRange, and both queries sent.
Ask(k) ==
  /\ call[k] = Idle \/ Answered(call[k])
  /\ \E range \in SUBSET Payments :
       Goto(k, [pc |-> "asked", range |-> range, left |-> {"groups", "sum"},
               byStatus |-> [s \in Statuses |-> {}], verified |-> {}, moved |-> {}])
  /\ UNCHANGED payment

Grouped(range) == [s \in Statuses |-> {p \in range : payment[p] = s}]

\* The payments added up. And a bug: of all times.
SummedAlways(range) == {p \in Payments : payment[p] = "VERIFIED"}
Summed(range) == {p \in range : payment[p] = "VERIFIED"}

GroupBy(k) ==
  /\ Out(call[k], "groups")
  /\ Goto(k, [call[k] EXCEPT !.left = @ \ {"groups"}, !.byStatus = Grouped(call[k].range)])
  /\ UNCHANGED payment

Aggregate(k) ==
  /\ Out(call[k], "sum")
  /\ Goto(k, [call[k] EXCEPT !.left = @ \ {"sum"}, !.verified = Summed(call[k].range)])
  /\ UNCHANGED payment

\* One query fails, and with it Promise.all and the request.
QueryFails(k) ==
  /\ \E query \in {"groups", "sum"} : Out(call[k], query)
  /\ Goto(k, Idle)
  /\ UNCHANGED payment

-----------------------------------------------------------------------------
(* Meanwhile: the writes of PaymentApplicationService, by id alone *)

Between(c) == c.pc = "asked" /\ c.left \in {{"groups"}, {"sum"}}

Becomes(p, status) ==
  /\ payment' = [payment EXCEPT ![p] = status]
  /\ call' = [k \in Calls |->
       IF Between(call[k]) THEN [call[k] EXCEPT !.moved = @ \cup {p}] ELSE call[k]]

RecordPayment == \E p \in Payments : payment[p] = "none" /\ Becomes(p, "RECORDED")
Verify        == \E p \in Payments : payment[p] # "none" /\ Becomes(p, "VERIFIED")
Void          == \E p \in Payments : payment[p] # "none" /\ Becomes(p, "VOIDED")

Restart ==
  /\ call' = [k \in Calls |-> Idle]
  /\ UNCHANGED payment

Next ==
  \/ \E k \in Calls : Ask(k) \/ GroupBy(k) \/ Aggregate(k) \/ QueryFails(k)
  \/ RecordPayment \/ Verify \/ Void \/ Restart

Spec == Init /\ [][Next]_vars

-----------------------------------------------------------------------------
(* Properties *)

\* The amount on the dashboard is the sum of the payments that it counts as
\* verified: the two differ by payments only that were recorded, verified or
\* voided between the two queries.
AmountMatchesCount ==
  \A k \in Calls : Answered(call[k]) =>
    LET c == call[k] IN
    \A p \in Payments \ c.moved : p \in c.verified <=> p \in c.byStatus["VERIFIED"]
=============================================================================

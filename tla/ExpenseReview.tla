--------------------------- MODULE ExpenseReview ---------------------------
(***************************************************************************)
(* Expenses and their review: ExpenseApplicationService, with the          *)
(* notifications it sends through NotificationPublisher.                   *)
(*                                                                         *)
(* create inserts the expense, asks who may approve it and notifies them.  *)
(* review reads the expense, refuses unless it is PENDING, and an await    *)
(* later writes its verdict by id alone; then it notifies the requester.   *)
(* Both answer their request only after notify has returned.               *)
(***************************************************************************)
CONSTANTS
  Expenses, Users, Calls, Ids,
  Approvers  \* ACTIVE users whose roles have expense.approve

ASSUME ApproversAssumption == Approvers \subseteq Users

VARIABLES
  expense,    \* rows of expenses
  handler,    \* calls of create and review, up to their notify
  overtaken,  \* history: a verdict was written over another one
  inbox, publishing, completed, failed  \* of NotificationPublisher

Verdicts == {"APPROVED", "REJECTED"}

\* expense_pending:<id> and expense_reviewed:<id>
PendingKey(e)  == <<"expense_pending", e>>
ReviewedKey(e) == <<"expense_reviewed", e>>
Keys == {"expense_pending", "expense_reviewed"} \X Expenses

Publisher == INSTANCE NotificationPublisher WITH Titles <- Verdicts \cup {"PENDING"}

notes   == <<inbox, publishing, completed, failed>>
finance == <<expense, handler, overtaken>>
vars    == <<expense, handler, overtaken, inbox, publishing, completed, failed>>

Nobody    == "null"
NoExpense == [status |-> "none"]
Expense   == [status : Verdicts \cup {"PENDING"}, requestedBy : Users,
              reviewedBy : Users \cup {Nobody}]

Idle   == [pc |-> "idle"]
Asking == [pc : {"asking"}, user : Users, expense : Expenses]
Review == [pc : {"reviewing"}, user : Users, expense : Expenses, verdict : Verdicts]

TypeOK ==
  /\ expense \in [Expenses -> Expense \cup {NoExpense}]
  /\ handler \in [Calls -> {Idle} \cup Asking \cup Review]
  /\ overtaken \in [Expenses -> {"yes", "no"}]
  /\ Publisher!TypeOK

Init ==
  /\ expense = [e \in Expenses |-> NoExpense]
  /\ handler = [k \in Calls |-> Idle]
  /\ overtaken = [e \in Expenses |-> "no"]
  /\ Publisher!Init

Free(k)   == handler[k] = Idle /\ publishing[k] = Publisher!Quiet
Answer(k) == handler' = [handler EXCEPT ![k] = Idle]

-----------------------------------------------------------------------------
(* POST /expenses *)

\* The order exists, and orders are never deleted.
CreateExpense(k) ==
  /\ Free(k)
  /\ \E e \in Expenses, u \in Users :
       /\ expense[e] = NoExpense
       /\ expense' = [expense EXCEPT ![e] =
            [status |-> "PENDING", requestedBy |-> u, reviewedBy |-> Nobody]]
       /\ handler' = [handler EXCEPT ![k] = [pc |-> "asking", user |-> u, expense |-> e]]
  /\ UNCHANGED <<overtaken, notes>>

\* Approvers without the requester; and a bug: the query leaves out the wrong users.
ApproversOnly(u) == Approvers \cap {u}
ApproversBut(u) == Approvers \ {u}

\* safeApprovers, which answers [] when the query fails; nobody is then told.
AskApprovers(k) ==
  /\ handler[k].pc = "asking"
  /\ \/ /\ ApproversBut(handler[k].user) # {}
        /\ Publisher!Notify(k, ApproversBut(handler[k].user),
                            PendingKey(handler[k].expense), "PENDING")
     \/ /\ ApproversBut(handler[k].user) = {}
        /\ UNCHANGED notes
     \/ Publisher!Unasked(PendingKey(handler[k].expense))
  /\ Answer(k)
  /\ UNCHANGED <<expense, overtaken>>

-----------------------------------------------------------------------------
(* POST /expenses/:id/approve and /reject *)

\* "Expense is not pending review" otherwise.
Reviewable(row) == row.status = "PENDING"

StartReview(k) ==
  /\ Free(k)
  /\ \E e \in Expenses, u \in Approvers, verdict \in Verdicts :
       /\ expense[e] # NoExpense
       /\ Reviewable(expense[e])
       /\ handler' = [handler EXCEPT ![k] =
            [pc |-> "reviewing", user |-> u, expense |-> e, verdict |-> verdict]]
  /\ UNCHANGED <<expense, overtaken, notes>>

\* What the update does; and a bug: the verdict lands in another column.
ReviewedNobody(row, verdict, u) == [row EXCEPT !.status = verdict, !.requestedBy = Nobody]
Reviewed(row, verdict, u) == [row EXCEPT !.status = verdict, !.reviewedBy = u]

\* The verb of the title; and a bug: it is always the same.
VerbApproved(verdict) == "APPROVED"
Verb(verdict) == verdict

\* Who hears of it; and a bug: the reviewer does.
ToldReviewer(row) == {row.reviewedBy}
Told(row) == {row.requestedBy}

\* The update, and the call of notify that follows it without an await.
WriteReview(k) ==
  /\ handler[k].pc = "reviewing"
  /\ LET h   == handler[k]
         e   == h.expense
         row == Reviewed(expense[e], h.verdict, h.user)
     IN /\ expense' = [expense EXCEPT ![e] = row]
        /\ overtaken' = IF expense[e].status # "PENDING"
                        THEN [overtaken EXCEPT ![e] = "yes"] ELSE overtaken
        /\ \/ /\ row.requestedBy # h.user
              /\ Publisher!Notify(k, Told(row), ReviewedKey(e), Verb(h.verdict))
           \/ /\ row.requestedBy = h.user
              /\ UNCHANGED notes
  /\ Answer(k)

\* The update failed: 500, and nothing is written.
ReviewFails(k) ==
  /\ handler[k].pc = "reviewing"
  /\ Answer(k)
  /\ UNCHANGED <<expense, overtaken, notes>>

-----------------------------------------------------------------------------
(* The steps of notify, and a restart *)

Publish(k) ==
  /\ Publisher!Proceed(k) \/ Publisher!DatabaseError(k)
  /\ UNCHANGED finance

ReadNotification == Publisher!MarkRead /\ UNCHANGED finance

\* A call that has written and not yet called notify never will.
Restart ==
  /\ handler' = [k \in Calls |-> Idle]
  /\ Publisher!Restart({PendingKey(handler[k].expense) :
                          k \in {j \in Calls : handler[j].pc = "asking"}})
  /\ UNCHANGED <<expense, overtaken>>

Next ==
  \/ \E k \in Calls : \/ CreateExpense(k) \/ AskApprovers(k)
                      \/ StartReview(k) \/ WriteReview(k) \/ ReviewFails(k)
                      \/ Publish(k)
  \/ ReadNotification
  \/ Restart

\* Every await of a handler is resumed.
Step(k) == AskApprovers(k) \/ WriteReview(k) \/ (Publisher!Proceed(k) /\ UNCHANGED finance)

Spec == Init /\ [][Next]_vars /\ \A k \in Calls : WF_vars(Step(k))

-----------------------------------------------------------------------------
(* Properties *)

\* What the requester finds under the expense's key is the verdict that the
\* expense has, as long as no second verdict was written over the first.
RequesterToldTheVerdict ==
  \A n \in inbox, e \in Expenses :
    (n.key = ReviewedKey(e) /\ overtaken[e] = "no")
      => n.recipient = expense[e].requestedBy /\ n.title = expense[e].status

\* Once no call is at work on it, a verdict by somebody else is in the
\* requester's inbox, whatever calls raced, unless a notify of it failed.
VerdictIsHeard ==
  \A e \in Expenses :
    LET x == ReviewedKey(e) IN
    ( /\ expense[e] # NoExpense
      /\ expense[e].reviewedBy \notin {Nobody, expense[e].requestedBy}
      /\ x \notin failed
      /\ \A k \in Calls : publishing[k] # Publisher!Quiet => publishing[k].key # x )
      => Publisher!Held(expense[e].requestedBy, x)

\* The publisher's promises, kept while reviews race for one key: whoever reads
\* the table sees an inbox that is filled once per event and never unread, and
\* a notify that returned has skipped nobody.
IsAnInbox == Publisher!IsAnInbox
NobodySkipped == Publisher!NobodySkipped

\* Every approver hears of a new expense, unless the database or the process
\* failed on the way.
ApproversAreAsked ==
  \A e \in Expenses, u \in Approvers :
    (expense[e].status = "PENDING" /\ expense[e].requestedBy # u)
      ~> (Publisher!Held(u, PendingKey(e)) \/ PendingKey(e) \in failed)

-----------------------------------------------------------------------------
(* What the documents say, and the code does not keep when calls overlap *)

\* expenses.md:63: "approve / reject { note? } - only from PENDING". A verdict
\* would then never be written over another one.
ReviewedOnlyFromPending ==
  [][\A k \in Calls : WriteReview(k) => expense[handler[k].expense].status = "PENDING"]_vars
=============================================================================

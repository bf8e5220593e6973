------------------------ MODULE ExpenseReview_proofs ------------------------
(***************************************************************************)
(* Theorems about ExpenseReview and their proofs. What the publisher       *)
(* promises by itself is proved in NotificationPublisher_proofs; here every *)
(* step of the review is shown to be one of the publisher's, and the       *)
(* verdicts are followed from the row of the expense into the inbox.       *)
(***************************************************************************)
EXTENDS ExpenseReview, TLAPS

PublisherProofs == INSTANCE NotificationPublisher_proofs WITH
  Titles <- Verdicts \cup {"PENDING"}

-----------------------------------------------------------------------------
(* The rows and the handlers *)

\* Types of the review's own variables; who reviews has found the expense.
Own ==
  /\ expense \in [Expenses -> Expense \cup {NoExpense}]
  /\ handler \in [Calls -> {Idle} \cup Asking \cup Review]
  /\ overtaken \in [Expenses -> {"yes", "no"}]
  /\ \A k \in Calls : handler[k].pc = "reviewing" => expense[handler[k].expense] # NoExpense

LEMMA HandlerKinds ==
  ASSUME Own, NEW k \in Calls
  PROVE  /\ handler[k].pc = "asking" => handler[k] \in Asking
         /\ handler[k].pc = "reviewing" => handler[k] \in Review
BY DEF Own, Idle, Asking, Review

LEMMA ReviewedRow ==
  ASSUME NEW row \in Expense, NEW verdict \in Verdicts, NEW u \in Users
  PROVE  /\ Reviewed(row, verdict, u) \in Expense
         /\ Reviewed(row, verdict, u).status = verdict
         /\ Reviewed(row, verdict, u).requestedBy = row.requestedBy
         /\ Reviewed(row, verdict, u).reviewedBy = u
<1> DEFINE half == [row EXCEPT !.status = verdict]
<1>1. half = [status |-> verdict, requestedBy |-> row.requestedBy, reviewedBy |-> row.reviewedBy]
  BY DEF Expense
<1>2. Reviewed(row, verdict, u) = [half EXCEPT !.reviewedBy = u]
  BY DEF Reviewed
<1> HIDE DEF half
<1>3. Reviewed(row, verdict, u) = [status |-> verdict, requestedBy |-> row.requestedBy,
                                   reviewedBy |-> u]
  BY <1>1, <1>2
<1> QED
  BY <1>3 DEF Expense

LEMMA NotAnExpense == NoExpense \notin Expense /\ NoExpense.status = "none"
BY DEF NoExpense, Expense, Verdicts

\* What a review writes.
LEMMA Written ==
  ASSUME Own, NEW k \in Calls, WriteReview(k)
  PROVE  LET h   == handler[k]
             row == Reviewed(expense[h.expense], h.verdict, h.user)
         IN  /\ h \in Review /\ expense[h.expense] \in Expense
             /\ row \in Expense /\ row.status = h.verdict /\ row.reviewedBy = h.user
             /\ row.requestedBy = expense[h.expense].requestedBy
             /\ expense' = [expense EXCEPT ![h.expense] = row]
             /\ overtaken' = IF expense[h.expense].status # "PENDING"
                             THEN [overtaken EXCEPT ![h.expense] = "yes"] ELSE overtaken
             /\ handler' = [handler EXCEPT ![k] = Idle]
<1> DEFINE h   == handler[k]
<1>1. h \in Review
  BY HandlerKinds DEF WriteReview
<1>2. expense[h.expense] \in Expense /\ h.verdict \in Verdicts /\ h.user \in Users
  BY <1>1, ApproversAssumption DEF Own, WriteReview, Review
<1>3. /\ expense' = [expense EXCEPT ![h.expense] = Reviewed(expense[h.expense], h.verdict, h.user)]
      /\ overtaken' = IF expense[h.expense].status # "PENDING"
                      THEN [overtaken EXCEPT ![h.expense] = "yes"] ELSE overtaken
      /\ handler' = [handler EXCEPT ![k] = Idle]
  BY DEF WriteReview, Answer
<1> QED
  BY <1>1, <1>2, <1>3, ReviewedRow

LEMMA OwnInit == Init => Own
BY DEF Init, Own, NoExpense, Idle

LEMMA OwnStep == Own /\ [Next]_vars => Own'
<1> SUFFICES ASSUME Own, [Next]_vars PROVE Own'
  OBVIOUS
<1>1. ASSUME NEW k \in Calls, CreateExpense(k) PROVE Own'
  <2>1. PICK e \in Expenses, u \in Users :
          /\ expense[e] = NoExpense
          /\ expense' = [expense EXCEPT ![e] =
               [status |-> "PENDING", requestedBy |-> u, reviewedBy |-> Nobody]]
          /\ handler' = [handler EXCEPT ![k] = [pc |-> "asking", user |-> u, expense |-> e]]
          /\ UNCHANGED overtaken
    BY <1>1 DEF CreateExpense
  <2>2. [status |-> "PENDING", requestedBy |-> u, reviewedBy |-> Nobody] \in Expense
    BY DEF Expense
  <2>3. [pc |-> "asking", user |-> u, expense |-> e] \in Asking
    BY DEF Asking
  <2>4. \A j \in Calls : handler'[j].pc = "reviewing" => handler'[j] = handler[j] /\ handler'[j] \in Review
    BY <2>1, HandlerKinds DEF Own
  <2>5. \A c \in Expenses : expense[c] # NoExpense => expense'[c] # NoExpense
    BY <2>1, <2>2, NotAnExpense DEF Own
  <2> QED
    BY <2>1, <2>2, <2>3, <2>4, <2>5 DEF Own, Review
<1>2. ASSUME NEW k \in Calls, AskApprovers(k) \/ ReviewFails(k) PROVE Own'
  BY <1>2 DEF AskApprovers, ReviewFails, Answer, Own, Idle
<1>3. ASSUME NEW k \in Calls, StartReview(k) PROVE Own'
  <2>1. PICK e \in Expenses, u \in Users, verdict \in Verdicts :
          /\ expense[e] # NoExpense
          /\ handler' = [handler EXCEPT ![k] =
               [pc |-> "reviewing", user |-> u, expense |-> e, verdict |-> verdict]]
          /\ UNCHANGED <<expense, overtaken>>
    BY <1>3, ApproversAssumption DEF StartReview
  <2>2. [pc |-> "reviewing", user |-> u, expense |-> e, verdict |-> verdict] \in Review
    BY DEF Review
  <2> QED
    BY <2>1, <2>2 DEF Own
<1>4. ASSUME NEW k \in Calls, WriteReview(k) PROVE Own'
  <2> DEFINE e == handler[k].expense
             row == Reviewed(expense[e], handler[k].verdict, handler[k].user)
  <2>1. /\ e \in Expenses /\ row \in Expense
        /\ expense' = [expense EXCEPT ![e] = row]
        /\ handler' = [handler EXCEPT ![k] = Idle]
        /\ overtaken' \in [Expenses -> {"yes", "no"}]
    BY <1>4, Written DEF Own, Review
  <2> HIDE DEF e, row
  <2>2. \A c \in Expenses : expense[c] # NoExpense => expense'[c] # NoExpense
    BY <2>1, NotAnExpense DEF Own
  <2>3. \A j \in Calls : handler'[j].pc = "reviewing" =>
          handler'[j] = handler[j] /\ handler'[j] \in Review
    BY <2>1, HandlerKinds DEF Own, Idle
  <2> QED
    BY <2>1, <2>2, <2>3 DEF Own, Review
<1>5. CASE UNCHANGED finance
  BY <1>5 DEF finance, Own
<1>6. CASE Restart
  BY <1>6 DEF Restart, Own, Idle
<1> QED
  BY <1>1, <1>2, <1>3, <1>4, <1>5, <1>6 DEF Next, Publish, ReadNotification, vars, finance

-----------------------------------------------------------------------------
(* Every step is a step of the publisher's *)

LEMMA PublisherInit == Init => PublisherProofs!Init
BY DEF Init, Publisher!Init, PublisherProofs!Init, Publisher!Quiet, PublisherProofs!Quiet

\* The publisher and its proofs speak of the same steps.
LEMMA SameSteps ==
  /\ \A k \in Calls : Publisher!Proceed(k) => PublisherProofs!Proceed(k)
  /\ \A k \in Calls : Publisher!DatabaseError(k) => PublisherProofs!DatabaseError(k)
  /\ \A k \in Calls : \A rs, x, t :
       Publisher!Notify(k, rs, x, t) => PublisherProofs!Notify(k, rs, x, t)
  /\ \A x : Publisher!Unasked(x) => PublisherProofs!Unasked(x)
  /\ \A xs : Publisher!Restart(xs) => PublisherProofs!Restart(xs)
  /\ Publisher!MarkRead => PublisherProofs!MarkRead
BY DEF Publisher!Proceed, Publisher!FindExisting, Publisher!CreateRow, Publisher!DatabaseError,
       Publisher!Notify, Publisher!Unasked, Publisher!Restart, Publisher!MarkRead,
       Publisher!Served, Publisher!Left, Publisher!Held, Publisher!Taken, Publisher!NewRow,
       Publisher!Quiet, PublisherProofs!Proceed, PublisherProofs!FindExisting,
       PublisherProofs!CreateRow, PublisherProofs!DatabaseError, PublisherProofs!Notify,
       PublisherProofs!Unasked, PublisherProofs!Restart, PublisherProofs!MarkRead,
       PublisherProofs!Served, PublisherProofs!Left, PublisherProofs!Held,
       PublisherProofs!Taken, PublisherProofs!NewRow, PublisherProofs!Quiet

LEMMA KeysAreKeys ==
  ASSUME NEW e \in Expenses
  PROVE  PendingKey(e) \in Keys /\ ReviewedKey(e) \in Keys
BY DEF PendingKey, ReviewedKey, Keys

LEMMA PublisherStep == Own /\ [Next]_vars => [PublisherProofs!Next]_PublisherProofs!vars
<1> SUFFICES ASSUME Own, [Next]_vars
             PROVE  PublisherProofs!Next \/ UNCHANGED notes
  BY DEF PublisherProofs!vars, notes
<1>1. ASSUME NEW k \in Calls, AskApprovers(k)
      PROVE  PublisherProofs!Next \/ UNCHANGED notes
  <2>1. PendingKey(handler[k].expense) \in Keys /\ ApproversBut(handler[k].user) \in SUBSET Users
    BY <1>1, HandlerKinds, KeysAreKeys, ApproversAssumption
    DEF AskApprovers, Asking, ApproversBut
  <2> QED
    BY <1>1, <2>1, SameSteps DEF AskApprovers, PublisherProofs!Next
<1>2. ASSUME NEW k \in Calls, WriteReview(k)
      PROVE  PublisherProofs!Next \/ UNCHANGED notes
  <2> DEFINE h   == handler[k]
             row == Reviewed(expense[h.expense], h.verdict, h.user)
  <2>1. h \in Review /\ row \in Expense
    BY <1>2, Written
  <2>2. \/ UNCHANGED notes
        \/ Publisher!Notify(k, Told(row), ReviewedKey(h.expense), Verb(h.verdict))
    BY <1>2 DEF WriteReview
  <2> HIDE DEF h, row
  <2>3. /\ Told(row) \in SUBSET Users /\ ReviewedKey(h.expense) \in Keys
        /\ Verb(h.verdict) \in Verdicts \cup {"PENDING"}
    BY <2>1, KeysAreKeys DEF Told, Verb, Review, Expense
  <2> QED
    BY <2>2, <2>3, SameSteps DEF PublisherProofs!Next
<1>3. ASSUME NEW k \in Calls, CreateExpense(k) \/ StartReview(k) \/ ReviewFails(k)
      PROVE  UNCHANGED notes
  BY <1>3 DEF CreateExpense, StartReview, ReviewFails
<1>4. ASSUME NEW k \in Calls, Publish(k)
      PROVE  PublisherProofs!Next
  BY <1>4, SameSteps DEF Publish, PublisherProofs!Next
<1>5. ASSUME ReadNotification
      PROVE  PublisherProofs!Next
  BY <1>5, SameSteps DEF ReadNotification, PublisherProofs!Next
<1>6. ASSUME Restart
      PROVE  PublisherProofs!Next
  <2>1. {PendingKey(handler[k].expense) : k \in {j \in Calls : handler[j].pc = "asking"}}
          \in SUBSET Keys
    BY HandlerKinds, KeysAreKeys DEF Asking
  <2> QED
    BY <1>6, <2>1, SameSteps DEF Restart, PublisherProofs!Next
<1>7. UNCHANGED vars => UNCHANGED notes
  BY DEF vars, notes
<1> QED
  BY <1>1, <1>2, <1>3, <1>4, <1>5, <1>6, <1>7 DEF Next

LEMMA Ownership == Spec => []Own
BY OwnInit, OwnStep, PTL DEF Spec

LEMMA IsPublisher == Spec => PublisherProofs!Spec
BY PublisherInit, PublisherStep, Ownership, PTL DEF Spec, PublisherProofs!Spec

\* The publisher's invariant, among reviews.
LEMMA PublisherInvariance == Spec => []PublisherProofs!IInv
<1>1. PublisherProofs!Spec => []PublisherProofs!IInv
  BY PublisherProofs!Invariance
<1> QED
  BY <1>1, IsPublisher, PTL

-----------------------------------------------------------------------------
(* What a step of notify changes *)

At(k)  == publishing[k].pc # "quiet"
HeldNext(u, x) == \E n \in inbox' : n.recipient = u /\ n.key = x

\* A call of notify goes on with the same key and title and with fewer
\* recipients, or it ends, and then a recipient has a row or the key has failed.
Onward(old, new) ==
  /\ new.pc # "quiet" /\ new.key = old.key /\ new.title = old.title
  /\ new.recipients \subseteq old.recipients /\ new.recipients # {}
Over(old, new) ==
  /\ new.pc = "quiet"
  /\ old.key \in failed' \/ \E u \in old.recipients : HeldNext(u, old.key)

LEMMA QuietIsQuiet ==
  ASSUME PublisherProofs!IInv, NEW k \in Calls
  PROVE  /\ At(k) <=> publishing[k] # PublisherProofs!Quiet
         /\ At(k) <=> publishing[k] # Publisher!Quiet
         /\ publishing[k].pc = "creating" => publishing[k].recipient \in publishing[k].recipients
BY DEF PublisherProofs!IInv, PublisherProofs!TypeOK, PublisherProofs!PassedAreHeld,
       PublisherProofs!Quiet, PublisherProofs!Finding, PublisherProofs!Creating,
       Publisher!Quiet, At

LEMMA ServedEffect ==
  ASSUME PublisherProofs!IInv, NEW k \in Calls, NEW u \in publishing[k].recipients,
         PublisherProofs!Served(k, u), HeldNext(u, publishing[k].key)
  PROVE  \E new : /\ publishing' = [publishing EXCEPT ![k] = new]
                  /\ Onward(publishing[k], new) \/ Over(publishing[k], new)
<1> DEFINE c    == publishing[k]
           left == c.recipients \ {u}
           next == [pc |-> "finding", recipients |-> left, key |-> c.key, title |-> c.title,
                    all |-> c.all]
<1>1. CASE left = {}
  <2>1. publishing' = [publishing EXCEPT ![k] = PublisherProofs!Quiet]
    BY <1>1 DEF PublisherProofs!Served, PublisherProofs!Left
  <2>2. Over(c, PublisherProofs!Quiet)
    BY DEF Over, PublisherProofs!Quiet
  <2> QED
    BY <2>1, <2>2
<1>2. CASE left # {}
  <2>1. publishing' = [publishing EXCEPT ![k] = next]
    BY <1>2 DEF PublisherProofs!Served, PublisherProofs!Left
  <2>2. Onward(c, next)
    BY <1>2 DEF Onward
  <2> QED
    BY <2>1, <2>2
<1> QED
  BY <1>1, <1>2

LEMMA PublishEffect ==
  ASSUME PublisherProofs!IInv, NEW k \in Calls,
         PublisherProofs!Proceed(k) \/ PublisherProofs!DatabaseError(k)
  PROVE  /\ At(k)
         /\ inbox \subseteq inbox' /\ failed \subseteq failed'
         /\ \A n \in inbox' \ inbox : /\ n.key = publishing[k].key /\ n.title = publishing[k].title
                                      /\ n.recipient \in publishing[k].recipients
         /\ \E new : /\ publishing' = [publishing EXCEPT ![k] = new]
                     /\ Onward(publishing[k], new) \/ Over(publishing[k], new)
<1> DEFINE c == publishing[k]
<1>1. CASE PublisherProofs!FindExisting(k)
  <2>1. At(k) /\ UNCHANGED <<inbox, failed>>
    BY <1>1 DEF PublisherProofs!FindExisting, At
  <2>2. PICK u \in c.recipients :
          \/ PublisherProofs!Held(u, c.key) /\ PublisherProofs!Served(k, u)
          \/ publishing' = [publishing EXCEPT ![k] =
               [pc |-> "creating", recipients |-> c.recipients, key |-> c.key,
                title |-> c.title, all |-> c.all, recipient |-> u]]
    BY <1>1 DEF PublisherProofs!FindExisting
  <2>3. CASE PublisherProofs!Held(u, c.key) /\ PublisherProofs!Served(k, u)
    <3>1. HeldNext(u, c.key)
      BY <2>1, <2>3 DEF HeldNext, PublisherProofs!Held
    <3> QED
      BY <2>1, <2>3, <3>1, ServedEffect
  <2>4. CASE publishing' = [publishing EXCEPT ![k] =
               [pc |-> "creating", recipients |-> c.recipients, key |-> c.key,
                title |-> c.title, all |-> c.all, recipient |-> u]]
    <3> DEFINE new == [pc |-> "creating", recipients |-> c.recipients, key |-> c.key,
                       title |-> c.title, all |-> c.all, recipient |-> u]
    <3>1. Onward(c, new)
      BY DEF Onward
    <3> QED
      BY <2>1, <2>4, <3>1
  <2> QED
    BY <2>2, <2>3, <2>4
<1>2. CASE PublisherProofs!CreateRow(k)
  <2> DEFINE u == c.recipient
  <2>1. At(k) /\ UNCHANGED failed /\ u \in c.recipients /\ PublisherProofs!Served(k, u)
    BY <1>2, QuietIsQuiet DEF PublisherProofs!CreateRow, At
  <2>2. \/ PublisherProofs!Taken(u, c.key) /\ UNCHANGED inbox
        \/ \E i \in Ids : inbox' = inbox \cup {PublisherProofs!NewRow(i, c)}
    BY <1>2 DEF PublisherProofs!CreateRow
  <2>3. /\ inbox \subseteq inbox' /\ HeldNext(u, c.key)
        /\ \A n \in inbox' \ inbox : n.key = c.key /\ n.title = c.title /\ n.recipient = u
    <3>1. CASE PublisherProofs!Taken(u, c.key) /\ UNCHANGED inbox
      BY <3>1 DEF PublisherProofs!Taken, HeldNext
    <3>2. ASSUME NEW i \in Ids, inbox' = inbox \cup {PublisherProofs!NewRow(i, c)}
          PROVE  /\ inbox \subseteq inbox' /\ HeldNext(u, c.key)
                 /\ \A n \in inbox' \ inbox :
                      n.key = c.key /\ n.title = c.title /\ n.recipient = u
      <4> DEFINE new == PublisherProofs!NewRow(i, c)
      <4>1. new.key = c.key /\ new.title = c.title /\ new.recipient = u
        BY DEF PublisherProofs!NewRow
      <4>2. inbox' = inbox \cup {new}
        BY <3>2
      <4> HIDE DEF new
      <4> QED
        BY <4>1, <4>2 DEF HeldNext
    <3> QED
      BY <2>2, <3>1, <3>2
  <2> QED
    BY <2>1, <2>3, ServedEffect
<1>3. CASE PublisherProofs!DatabaseError(k)
  <2>1. /\ At(k) /\ UNCHANGED inbox /\ failed \subseteq failed' /\ c.key \in failed'
        /\ publishing' = [publishing EXCEPT ![k] = PublisherProofs!Quiet]
    BY <1>3, QuietIsQuiet DEF PublisherProofs!DatabaseError
  <2>2. Over(c, PublisherProofs!Quiet)
    BY <2>1 DEF Over, PublisherProofs!Quiet
  <2> QED
    BY <2>1, <2>2
<1> QED
  BY <1>1, <1>2, <1>3 DEF PublisherProofs!Proceed

-----------------------------------------------------------------------------
(* From the row of the expense into the inbox *)

\* A message t to u under the key of e is the verdict, to the requester.
Fits(e, u, t) ==
  /\ expense[e] # NoExpense /\ expense[e].status # "PENDING"
  /\ u = expense[e].requestedBy
  /\ overtaken[e] = "no" => t = expense[e].status

RowsFit == \A n \in inbox, e \in Expenses : n.key = ReviewedKey(e) => Fits(e, n.recipient, n.title)

CallFits(k, e) ==
  At(k) /\ publishing[k].key = ReviewedKey(e) =>
    /\ publishing[k].recipients = {expense[e].requestedBy}
    /\ Fits(e, expense[e].requestedBy, publishing[k].title)
CallsFit == \A k \in Calls, e \in Expenses : CallFits(k, e)

Found(e)    == \E n \in inbox : n.recipient = expense[e].requestedBy /\ n.key = ReviewedKey(e)
OnTheWay(e) == \E k \in Calls : At(k) /\ publishing[k].key = ReviewedKey(e)

\* A verdict of somebody else has been heard, has failed to be, or will be.
Heard(e) == Found(e) \/ ReviewedKey(e) \in failed \/ OnTheWay(e)
ByOther(e) ==
  expense[e] # NoExpense /\ expense[e].reviewedBy \notin {Nobody, expense[e].requestedBy}

VerdictsGoOut == \A e \in Expenses : ByOther(e) => Heard(e)

IInv == Own /\ RowsFit /\ CallsFit /\ VerdictsGoOut

LEMMA ReviewedKeys ==
  ASSUME NEW e \in Expenses, NEW c \in Expenses
  PROVE  /\ ReviewedKey(e) = ReviewedKey(c) => e = c
         /\ ReviewedKey(e) # PendingKey(c)
BY DEF ReviewedKey, PendingKey

\* What was told stays right, or the expense is overtaken.
LEMMA FitsStays ==
  ASSUME Own, Own', [Next]_vars, NEW e \in Expenses, NEW u, NEW t, Fits(e, u, t)
  PROVE  Fits(e, u, t)' /\ expense'[e].requestedBy = expense[e].requestedBy
<1>1. ASSUME NEW k \in Calls, CreateExpense(k)
      PROVE  expense'[e] = expense[e] /\ UNCHANGED overtaken
  BY <1>1 DEF CreateExpense, Fits, Own
<1>2. ASSUME NEW k \in Calls, WriteReview(k)
      PROVE  \/ expense'[e] = expense[e] /\ overtaken'[e] = overtaken[e]
             \/ /\ overtaken'[e] = "yes" /\ expense'[e] # NoExpense
                /\ expense'[e].status # "PENDING"
                /\ expense'[e].requestedBy = expense[e].requestedBy
  <2> DEFINE c   == handler[k].expense
             row == Reviewed(expense[c], handler[k].verdict, handler[k].user)
  <2>1. /\ row \in Expense /\ row.status \in Verdicts /\ c \in Expenses
        /\ row.requestedBy = expense[c].requestedBy
        /\ expense' = [expense EXCEPT ![c] = row]
        /\ overtaken' = IF expense[c].status # "PENDING"
                        THEN [overtaken EXCEPT ![c] = "yes"] ELSE overtaken
    BY <1>2, Written DEF Review
  <2> HIDE DEF c, row
  <2>2. row # NoExpense /\ row.status # "PENDING"
    BY <2>1, NotAnExpense DEF Verdicts
  <2> QED
    BY <2>1, <2>2 DEF Own, Fits
<1>3. CASE UNCHANGED <<expense, overtaken>>
  BY <1>3 DEF Fits
<1>4. \/ \E k \in Calls : CreateExpense(k) \/ WriteReview(k)
      \/ UNCHANGED <<expense, overtaken>>
  BY DEF Next, vars, AskApprovers, StartReview, ReviewFails, Publish, ReadNotification,
         Restart, finance
<1> QED
  BY <1>1, <1>2, <1>3, <1>4 DEF Fits

\* A step that leaves the notifications alone, and gives no verdict.
LEMMA NotesStay ==
  ASSUME IInv, Own', [Next]_vars,
         inbox' = inbox, publishing' = publishing, failed \subseteq failed',
         \A e \in Expenses : ByOther(e)' => expense'[e] = expense[e]
  PROVE  IInv'
<1>1. RowsFit'
  BY FitsStays DEF IInv, RowsFit
<1>2. CallsFit'
  BY FitsStays DEF IInv, CallsFit, CallFits, Fits, At
<1>3. VerdictsGoOut'
  BY DEF IInv, VerdictsGoOut, ByOther, Heard, Found, OnTheWay, At
<1> QED
  BY <1>1, <1>2, <1>3 DEF IInv

\* Calls of notify begin, go on or end.
LEMMA CallsChange ==
  ASSUME IInv, Own', [Next]_vars, RowsFit', failed \subseteq failed',
         \A k \in Calls : \/ \A e \in Expenses : CallFits(k, e)'
                          \/ publishing'[k] = publishing[k],
         \A e \in Expenses : ByOther(e)' =>
           \/ Heard(e)'
           \/ expense'[e] = expense[e] /\ inbox \subseteq inbox' /\ ~OnTheWay(e)
  PROVE  IInv'
<1>1. ASSUME NEW k \in Calls, NEW e \in Expenses
      PROVE  CallFits(k, e)'
  <2>1. CASE publishing'[k] = publishing[k]
    <3>1. CallFits(k, e)
      BY DEF IInv, CallsFit
    <3> QED
      BY <2>1, <3>1, FitsStays DEF IInv, CallFits, At, Fits
  <2> QED
    BY <2>1
<1>2. VerdictsGoOut'
  BY DEF IInv, VerdictsGoOut, ByOther, Heard, Found
<1> QED
  BY <1>1, <1>2 DEF IInv, CallsFit

\* The publisher's table of calls is a function on the calls.
LEMMA CallTable ==
  ASSUME PublisherProofs!IInv
  PROVE  \A k \in Calls : \A new : publishing' = [publishing EXCEPT ![k] = new] =>
           publishing'[k] = new /\ \A j \in Calls \ {k} : publishing'[j] = publishing[j]
BY DEF PublisherProofs!IInv, PublisherProofs!TypeOK

LEMMA NotifyEffect ==
  ASSUME PublisherProofs!IInv, NEW k \in Calls, NEW rs, NEW x, NEW t,
         Publisher!Notify(k, rs, x, t)
  PROVE  /\ inbox' = inbox /\ failed' = failed
         /\ publishing'[k].key = x /\ publishing'[k].title = t
         /\ publishing'[k].recipients = rs /\ At(k)' /\ ~At(k)
         /\ \A j \in Calls \ {k} : publishing'[j] = publishing[j]
<1> DEFINE new == [pc |-> "finding", recipients |-> rs, key |-> x, title |-> t, all |-> rs]
<1>1. /\ publishing' = [publishing EXCEPT ![k] = new] /\ publishing[k] = Publisher!Quiet
      /\ inbox' = inbox /\ failed' = failed
  BY DEF Publisher!Notify
<1>2. new.key = x /\ new.title = t /\ new.recipients = rs /\ new.pc = "finding"
  OBVIOUS
<1> HIDE DEF new
<1>3. publishing'[k] = new /\ \A j \in Calls \ {k} : publishing'[j] = publishing[j]
  BY <1>1, CallTable
<1> QED
  BY <1>1, <1>2, <1>3, QuietIsQuiet DEF At

LEMMA CreateKeeps ==
  ASSUME IInv, Own', [Next]_vars, NEW k \in Calls, CreateExpense(k)
  PROVE  IInv'
<1>1. UNCHANGED <<inbox, publishing, failed>>
  BY DEF CreateExpense, notes
<1>2. \A e \in Expenses : expense'[e] = expense[e] \/ expense'[e].reviewedBy = Nobody
  BY DEF CreateExpense, IInv, Own
<1> QED
  BY <1>1, <1>2, NotesStay DEF ByOther

LEMMA AskKeeps ==
  ASSUME IInv, PublisherProofs!IInv, Own', [Next]_vars, NEW k \in Calls, AskApprovers(k)
  PROVE  IInv'
<1> DEFINE x == PendingKey(handler[k].expense)
           rs == ApproversBut(handler[k].user)
<1>1. handler[k].expense \in Expenses /\ UNCHANGED expense
  BY HandlerKinds DEF IInv, AskApprovers, Asking
<1>2. CASE Publisher!Notify(k, rs, x, "PENDING")
  <2> HIDE DEF rs
  <2>1. /\ inbox' = inbox /\ failed' = failed /\ publishing'[k].key = x /\ ~At(k)
        /\ \A j \in Calls \ {k} : publishing'[j] = publishing[j]
    BY <1>2, NotifyEffect
  <2>2. \A e \in Expenses : CallFits(k, e)'
    BY <1>1, <2>1, ReviewedKeys DEF CallFits
  <2>3. RowsFit'
    BY <2>1, FitsStays DEF IInv, RowsFit
  <2>4. \A e \in Expenses : OnTheWay(e) => OnTheWay(e)'
    BY <2>1 DEF OnTheWay, At
  <2> QED
    BY <1>1, <2>1, <2>2, <2>3, <2>4, CallsChange DEF Heard
<1>3. CASE UNCHANGED notes
  BY <1>1, <1>3, NotesStay DEF notes
<1>4. CASE Publisher!Unasked(x)
  BY <1>1, <1>4, NotesStay DEF Publisher!Unasked
<1> QED
  BY <1>2, <1>3, <1>4 DEF AskApprovers

LEMMA WriteKeeps ==
  ASSUME IInv, PublisherProofs!IInv, Own', [Next]_vars, NEW k \in Calls, WriteReview(k)
  PROVE  IInv'
<1> DEFINE h   == handler[k]
           c   == h.expense
           row == Reviewed(expense[c], h.verdict, h.user)
<1>1. /\ h \in Review /\ row \in Expense /\ row.status = h.verdict /\ row.reviewedBy = h.user
      /\ expense' = [expense EXCEPT ![c] = row]
  BY Written DEF IInv
<1>2. \/ row.requestedBy = h.user /\ UNCHANGED notes
      \/ Publisher!Notify(k, {row.requestedBy}, ReviewedKey(c), h.verdict)
  BY DEF WriteReview, Told, Verb
<1> HIDE DEF row
<1>3. /\ c \in Expenses /\ h.verdict \in Verdicts /\ expense'[c] = row
      /\ \A e \in Expenses \ {c} : expense'[e] = expense[e]
  BY <1>1 DEF IInv, Own, Review
<1> HIDE DEF h, c
<1>4. CASE row.requestedBy = h.user /\ UNCHANGED notes
  BY <1>1, <1>3, <1>4, NotesStay DEF notes, ByOther
<1>5. CASE Publisher!Notify(k, {row.requestedBy}, ReviewedKey(c), h.verdict)
  <2>1. /\ inbox' = inbox /\ failed' = failed /\ ~At(k) /\ At(k)'
        /\ publishing'[k].key = ReviewedKey(c) /\ publishing'[k].title = h.verdict
        /\ publishing'[k].recipients = {row.requestedBy}
        /\ \A j \in Calls \ {k} : publishing'[j] = publishing[j]
    BY <1>5, NotifyEffect
  <2>2. row # NoExpense /\ row.status # "PENDING"
    BY <1>1, <1>3, NotAnExpense DEF Verdicts
  <2>3. \A e \in Expenses : CallFits(k, e)'
    BY <1>1, <1>3, <2>1, <2>2, ReviewedKeys DEF CallFits, Fits
  <2>4. RowsFit'
    BY <2>1, FitsStays DEF IInv, RowsFit
  <2>5. \A e \in Expenses : OnTheWay(e) \/ e = c => OnTheWay(e)'
    BY <2>1 DEF OnTheWay, At
  <2> QED
    BY <1>3, <2>1, <2>3, <2>4, <2>5, CallsChange DEF Heard
<1> QED
  BY <1>2, <1>4, <1>5

LEMMA PublishKeeps ==
  ASSUME IInv, PublisherProofs!IInv, Own', [Next]_vars, NEW k \in Calls, Publish(k)
  PROVE  IInv'
<1> DEFINE c == publishing[k]
<1>1. UNCHANGED <<expense, overtaken>>
  BY DEF Publish, finance
<1>2. /\ At(k)
      /\ inbox \subseteq inbox' /\ failed \subseteq failed'
      /\ \A n \in inbox' \ inbox : n.key = c.key /\ n.title = c.title /\ n.recipient \in c.recipients
      /\ \E new : publishing' = [publishing EXCEPT ![k] = new] /\ (Onward(c, new) \/ Over(c, new))
  BY PublishEffect, SameSteps DEF Publish
<1>3. PICK new : publishing' = [publishing EXCEPT ![k] = new] /\ (Onward(c, new) \/ Over(c, new))
  BY <1>2
<1>4. publishing'[k] = new /\ \A j \in Calls \ {k} : publishing'[j] = publishing[j]
  BY <1>3, CallTable
<1>5. \A e \in Expenses : c.key = ReviewedKey(e) =>
        c.recipients = {expense[e].requestedBy} /\ Fits(e, expense[e].requestedBy, c.title)
  BY <1>2 DEF IInv, CallsFit, CallFits
<1>6. RowsFit'
  BY <1>1, <1>2, <1>5 DEF IInv, RowsFit, Fits
<1>7. \A e \in Expenses : CallFits(k, e)'
  BY <1>1, <1>3, <1>4, <1>5 DEF CallFits, Onward, Over, Fits, At
<1>8. ASSUME NEW e \in Expenses, OnTheWay(e)
      PROVE  Heard(e)'
  <2>1. PICK j \in Calls : At(j) /\ publishing[j].key = ReviewedKey(e)
    BY <1>8 DEF OnTheWay
  <2>2. CASE j # k
    BY <1>4, <2>1, <2>2 DEF Heard, OnTheWay, At
  <2>3. CASE j = k /\ Onward(c, new)
    BY <1>4, <2>1, <2>3 DEF Heard, OnTheWay, Onward, At
  <2>4. CASE j = k /\ Over(c, new)
    BY <1>1, <1>5, <2>1, <2>4 DEF Heard, Over, Found, HeldNext
  <2> QED
    BY <1>3, <2>2, <2>3, <2>4
<1> QED
  BY <1>1, <1>2, <1>4, <1>6, <1>7, <1>8, CallsChange

LEMMA ReadKeeps ==
  ASSUME IInv, PublisherProofs!IInv, Own', [Next]_vars, ReadNotification
  PROVE  IInv'
<1>1. UNCHANGED <<expense, overtaken, publishing, failed>>
  BY DEF ReadNotification, finance, Publisher!MarkRead
<1>2. PICK n \in inbox : inbox' = (inbox \ {n}) \cup {[n EXCEPT !.read = "yes"]}
  BY DEF ReadNotification, Publisher!MarkRead
<1> DEFINE new == [n EXCEPT !.read = "yes"]
<1>3. n \in PublisherProofs!Row
  BY DEF PublisherProofs!IInv, PublisherProofs!TypeOK
<1>4. new.recipient = n.recipient /\ new.key = n.key /\ new.title = n.title
  BY <1>3, PublisherProofs!ReadRow
<1>5. inbox' = (inbox \ {n}) \cup {new}
  BY <1>2
<1> HIDE DEF new
<1>6. RowsFit'
  BY <1>1, <1>4, <1>5 DEF IInv, RowsFit, Fits
<1>7. \A e \in Expenses : ByOther(e)' => Heard(e)'
  BY <1>1, <1>4, <1>5 DEF IInv, VerdictsGoOut, ByOther, Heard, Found, OnTheWay, At
<1> QED
  BY <1>1, <1>6, <1>7, CallsChange

LEMMA RestartKeeps ==
  ASSUME IInv, PublisherProofs!IInv, Own', [Next]_vars, Restart
  PROVE  IInv'
<1>1. UNCHANGED <<expense, overtaken, inbox>> /\ failed \subseteq failed'
  BY DEF Restart, Publisher!Restart
<1>2. \A k \in Calls : ~At(k)'
  BY DEF Restart, Publisher!Restart, Publisher!Quiet, At
<1>3. \A k \in Calls : At(k) => publishing[k].key \in failed'
  BY QuietIsQuiet DEF Restart, Publisher!Restart
<1>4. \A e \in Expenses : OnTheWay(e) => Heard(e)'
  BY <1>3 DEF OnTheWay, Heard
<1>5. RowsFit'
  BY <1>1 DEF IInv, RowsFit, Fits
<1> QED
  BY <1>1, <1>2, <1>4, <1>5, CallsChange DEF CallFits

LEMMA IInvInit == Init => IInv
BY OwnInit DEF Init, Publisher!Init, Publisher!Quiet, IInv, RowsFit, CallsFit, CallFits, At,
               VerdictsGoOut, ByOther, NoExpense

LEMMA IInvStep == IInv /\ PublisherProofs!IInv /\ [Next]_vars => IInv'
<1> SUFFICES ASSUME IInv, PublisherProofs!IInv, [Next]_vars
             PROVE  IInv'
  OBVIOUS
<1>1. Own'
  BY OwnStep DEF IInv
<1>2. ASSUME NEW k \in Calls, StartReview(k) \/ ReviewFails(k)
      PROVE  UNCHANGED <<expense, inbox, publishing, failed>>
  BY <1>2 DEF StartReview, ReviewFails, notes
<1>3. UNCHANGED vars => UNCHANGED <<expense, inbox, publishing, failed>>
  BY DEF vars
<1>4. UNCHANGED <<expense, inbox, publishing, failed>> => IInv'
  BY <1>1, NotesStay
<1> QED
  BY <1>1, <1>2, <1>3, <1>4, CreateKeeps, AskKeeps, WriteKeeps, PublishKeeps, ReadKeeps,
     RestartKeeps DEF Next

LEMMA Invariance == Spec => []IInv
BY IInvInit, IInvStep, PublisherInvariance, PTL DEF Spec

-----------------------------------------------------------------------------
(* Theorems *)

LEMMA TypesAgree == PublisherProofs!TypeOK => Publisher!TypeOK
BY DEF Publisher!TypeOK, Publisher!Row, Publisher!Quiet, Publisher!Finding, Publisher!Creating,
       PublisherProofs!TypeOK, PublisherProofs!Row, PublisherProofs!Quiet,
       PublisherProofs!Finding, PublisherProofs!Creating

\* Type correctness, for every set of expenses, users, approvers and calls.
THEOREM TypeCorrect == Spec => []TypeOK
<1>1. Own /\ PublisherProofs!IInv => TypeOK
  BY TypesAgree DEF Own, PublisherProofs!IInv, TypeOK
<1> QED
  BY <1>1, Ownership, PublisherInvariance, PTL

\* What the requester finds is the expense's verdict, however many reviews
\* race, unless one was written over another.
THEOREM TheVerdictIsTold == Spec => []RequesterToldTheVerdict
<1>1. IInv => RequesterToldTheVerdict
  BY DEF IInv, RowsFit, Fits, RequesterToldTheVerdict
<1> QED
  BY <1>1, Invariance, PTL

\* Somebody else's verdict reaches the inbox of the requester, unless a notify
\* of it failed.
THEOREM TheVerdictIsHeard == Spec => []VerdictIsHeard
<1>1. IInv /\ PublisherProofs!IInv => VerdictIsHeard
  BY QuietIsQuiet
  DEF IInv, VerdictsGoOut, ByOther, Heard, Found, OnTheWay, VerdictIsHeard, Publisher!Held
<1> QED
  BY <1>1, Invariance, PublisherInvariance, PTL

\* A notify that returned has skipped nobody, among reviews that race.
THEOREM EveryoneServed == Spec => []NobodySkipped
<1>1. PublisherProofs!IInv => NobodySkipped
  BY DEF PublisherProofs!IInv, PublisherProofs!NobodySkipped, PublisherProofs!Held,
         NobodySkipped, Publisher!NobodySkipped, Publisher!Held
<1> QED
  BY <1>1, PublisherInvariance, PTL

\* The notifications of reviews implement the documented inbox.
THEOREM Implements == Spec => IsAnInbox
<1>1. PublisherProofs!Spec => PublisherProofs!IsAnInbox
  BY PublisherProofs!Implements
<1>2. PublisherProofs!InboxSpec!Init => Publisher!InboxSpec!Init
  BY DEF PublisherProofs!InboxSpec!Init, Publisher!InboxSpec!Init, PublisherProofs!BoxOf,
         Publisher!BoxOf, PublisherProofs!InboxSpec!Nothing, Publisher!InboxSpec!Nothing
<1>3. [PublisherProofs!InboxSpec!Next]_([slot \in Users \X Keys |-> PublisherProofs!BoxOf(slot)])
        => [Publisher!InboxSpec!Next]_([slot \in Users \X Keys |-> Publisher!BoxOf(slot)])
  BY DEF PublisherProofs!InboxSpec!Next, Publisher!InboxSpec!Next, PublisherProofs!BoxOf,
         Publisher!BoxOf, PublisherProofs!InboxSpec!Deliver, Publisher!InboxSpec!Deliver,
         PublisherProofs!InboxSpec!Read, Publisher!InboxSpec!Read,
         PublisherProofs!InboxSpec!Nothing, Publisher!InboxSpec!Nothing
<1> QED
  BY <1>1, <1>2, <1>3, IsPublisher, PTL
  DEF IsAnInbox, PublisherProofs!IsAnInbox, Publisher!IsAnInbox, PublisherProofs!InboxSpec!Spec,
      Publisher!InboxSpec!Spec
=============================================================================

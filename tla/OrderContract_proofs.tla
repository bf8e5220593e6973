------------------------ MODULE OrderContract_proofs ------------------------
(***************************************************************************)
(* Theorems about OrderContract and their proofs.                          *)
(***************************************************************************)
EXTENDS OrderContract, TLAPS

-----------------------------------------------------------------------------
(* Which record a call is, and what a PATCH leaves alone *)

LEMMA CallKinds ==
  ASSUME NEW r \in Call
  PROVE  /\ r.pc = "creating" => r \in Creating
         /\ r.pc \in {"updating", "counted"} => r \in Updating
         /\ r.pc = "assigning" => r \in Assigning
         /\ r.pc \in {"approving", "recording"} => r \in Approving
         /\ r.pc = "editing" => r \in Editing
         /\ r.pc = "deleting" => r \in Deleting
         /\ r.pc = "idle" => r = Idle
BY DEF Call, Idle, Creating, Updating, Assigning, Approving, Editing, Deleting

LEMMA RowKinds ==
  ASSUME NEW row \in Order \cup {NoOrder}
  PROVE  row.state = "placed" <=> row \in Order
BY DEF Order, NoOrder

LEMMA TwoColumns ==
  ASSUME NEW row \in Order, NEW x \in Customers, NEW a \in Users
  PROVE  [row EXCEPT !.customer = x, !.assignee = a]
           = [state |-> row.state, contract |-> row.contract, customer |-> x,
              assignee |-> a, approvalHistory |-> row.approvalHistory]
<1> DEFINE one == [row EXCEPT !.customer = x]
<1>1. one = [state |-> row.state, contract |-> row.contract, customer |-> x,
             assignee |-> row.assignee, approvalHistory |-> row.approvalHistory]
  BY DEF Order
<1>2. [row EXCEPT !.customer = x, !.assignee = a] = [one EXCEPT !.assignee = a]
  OBVIOUS
<1> HIDE DEF one
<1>3. [one EXCEPT !.assignee = a]
        = [state |-> one.state, contract |-> one.contract, customer |-> one.customer,
           assignee |-> a, approvalHistory |-> one.approvalHistory]
  BY <1>1
<1> QED
  BY <1>1, <1>2, <1>3

LEMMA SavedRow ==
  ASSUME NEW r \in Updating, NEW row \in Order
  PROVE  /\ Saved(r, row) \in Order
         /\ Saved(r, row).state = "placed"
         /\ Saved(r, row).contract = row.contract
         /\ Saved(r, row).customer = IF r.moves = "yes" THEN r.customer ELSE row.customer
         /\ Saved(r, row).assignee = IF r.reassigns = "yes" THEN r.assignee ELSE row.assignee
         /\ Saved(r, row).approvalHistory = row.approvalHistory
<1> DEFINE x == IF r.moves = "yes" THEN r.customer ELSE row.customer
           a == IF r.reassigns = "yes" THEN r.assignee ELSE row.assignee
<1>1. x \in Customers /\ a \in Users
  BY DEF Order, Updating
<1>2. Saved(r, row) = [row EXCEPT !.customer = x, !.assignee = a]
  BY DEF Saved
<1> HIDE DEF x, a
<1>3. Saved(r, row) = [state |-> row.state, contract |-> row.contract, customer |-> x,
                       assignee |-> a, approvalHistory |-> row.approvalHistory]
  BY <1>1, <1>2, TwoColumns
<1>4. /\ Saved(r, row) \in Order
      /\ Saved(r, row).state = "placed"
      /\ Saved(r, row).contract = row.contract
      /\ Saved(r, row).customer = x
      /\ Saved(r, row).assignee = a
      /\ Saved(r, row).approvalHistory = row.approvalHistory
  BY <1>1, <1>3 DEF Order
<1> QED
  BY <1>4 DEF x, a

LEMMA ReassignedRow ==
  ASSUME NEW row \in Order, NEW a \in Users
  PROVE  /\ [row EXCEPT !.assignee = a] \in Order
         /\ [row EXCEPT !.assignee = a].state = "placed"
         /\ [row EXCEPT !.assignee = a].contract = row.contract
         /\ [row EXCEPT !.assignee = a].customer = row.customer
         /\ [row EXCEPT !.assignee = a].assignee = a
         /\ [row EXCEPT !.assignee = a].approvalHistory = row.approvalHistory
<1>1. [row EXCEPT !.assignee = a]
        = [state |-> row.state, contract |-> row.contract, customer |-> row.customer,
           assignee |-> a, approvalHistory |-> row.approvalHistory]
  BY DEF Order
<1> QED
  BY <1>1 DEF Order

LEMMA ApprovedRow ==
  ASSUME NEW row \in Order, NEW h \in Seq(Users)
  PROVE  /\ [row EXCEPT !.approvalHistory = h] \in Order
         /\ [row EXCEPT !.approvalHistory = h].state = "placed"
         /\ [row EXCEPT !.approvalHistory = h].contract = row.contract
         /\ [row EXCEPT !.approvalHistory = h].customer = row.customer
         /\ [row EXCEPT !.approvalHistory = h].assignee = row.assignee
         /\ [row EXCEPT !.approvalHistory = h].approvalHistory = h
<1>1. [row EXCEPT !.approvalHistory = h]
        = [state |-> row.state, contract |-> row.contract, customer |-> row.customer,
           assignee |-> row.assignee, approvalHistory |-> h]
  BY DEF Order
<1> QED
  BY <1>1 DEF Order

LEMMA CountedCall ==
  ASSUME NEW r \in Updating
  PROVE  /\ [r EXCEPT !.pc = "counted"] \in Updating
         /\ [r EXCEPT !.pc = "counted"].pc = "counted"
         /\ [r EXCEPT !.pc = "counted"].user = r.user
         /\ [r EXCEPT !.pc = "counted"].order = r.order
         /\ [r EXCEPT !.pc = "counted"].customer = r.customer
         /\ [r EXCEPT !.pc = "counted"].moves = r.moves
         /\ [r EXCEPT !.pc = "counted"].reassigns = r.reassigns
<1>1. [r EXCEPT !.pc = "counted"]
        = [pc |-> "counted", user |-> r.user, order |-> r.order, customer |-> r.customer,
           moves |-> r.moves, assignee |-> r.assignee, reassigns |-> r.reassigns]
  BY DEF Updating
<1> QED
  BY <1>1 DEF Updating

LEMMA RecordingCall ==
  ASSUME NEW r \in Approving, NEW h \in Seq(Users)
  PROVE  /\ [r EXCEPT !.pc = "recording", !.approvalHistory = h] \in Approving
         /\ [r EXCEPT !.pc = "recording", !.approvalHistory = h].pc = "recording"
         /\ [r EXCEPT !.pc = "recording", !.approvalHistory = h].order = r.order
         /\ [r EXCEPT !.pc = "recording", !.approvalHistory = h].approvalHistory = h
<1> DEFINE one == [r EXCEPT !.pc = "recording"]
<1>1. one = [pc |-> "recording", user |-> r.user, order |-> r.order,
             approvalHistory |-> r.approvalHistory]
  BY DEF Approving
<1>2. [r EXCEPT !.pc = "recording", !.approvalHistory = h] = [one EXCEPT !.approvalHistory = h]
  OBVIOUS
<1> HIDE DEF one
<1>3. [one EXCEPT !.approvalHistory = h]
        = [pc |-> "recording", user |-> r.user, order |-> r.order, approvalHistory |-> h]
  BY <1>1
<1> QED
  BY <1>2, <1>3 DEF Approving

-----------------------------------------------------------------------------
(* The invariant of calls in flight, together with the types *)

BaseInv == TypeOK /\ CallsAreChecked

LEMMA BaseInit == Init => BaseInv
BY DEF Init, BaseInv, TypeOK, CallsAreChecked, Call, Idle, NoOrder, YesNo

\* A call that ends leaves the others as they are.
LEMMA Answered ==
  ASSUME TypeOK, NEW k \in Calls, Answer(k)
  PROVE  /\ call' \in [Calls -> Call]
         /\ call'[k] = Idle
         /\ \A j \in Calls \ {k} : call'[j] = call[j]
BY DEF TypeOK, Answer, Call

\* A call that starts leaves the others as they are.
LEMMA Started ==
  ASSUME TypeOK, NEW k \in Calls, NEW r \in Call, call' = [call EXCEPT ![k] = r]
  PROVE  /\ call' \in [Calls -> Call]
         /\ call'[k] = r
         /\ \A j \in Calls \ {k} : call'[j] = call[j]
BY DEF TypeOK

\* The row of one order changes and is still a row for the same contract.
LEMMA OneRow ==
  ASSUME TypeOK, NEW o \in Orders, NEW row \in Order,
         order' = [order EXCEPT ![o] = row]
  PROVE  /\ order' \in [Orders -> Order \cup {NoOrder}]
         /\ order'[o] = row
         /\ \A p \in Orders \ {o} : order'[p] = order[p]
         /\ \A p \in Orders : order[p].state = "placed" => order'[p].state = "placed"
BY DEF TypeOK, Order

\* One call changes and no order disappears: the other calls stay checked.
LEMMA StillChecked ==
  ASSUME BaseInv, NEW k \in Calls,
         \A j \in Calls \ {k} : call'[j] = call[j],
         \A p \in Orders : order[p].state = "placed" => order'[p].state = "placed",
         call'[k].pc \in {"updating", "counted", "assigning", "approving", "recording"}
           => order'[call'[k].order].state = "placed",
         call'[k].pc = "counted" => call'[k].moves = "yes",
         (call'[k].pc \in {"updating", "counted"} /\ call'[k].reassigns = "yes")
           => call'[k].user \in Assigners,
         call'[k].pc = "assigning" => call'[k].user \in Assigners
  PROVE  CallsAreChecked'
<1> SUFFICES ASSUME NEW j \in Calls
             PROVE  /\ call'[j].pc \in {"updating", "counted", "assigning", "approving", "recording"}
                         => order'[call'[j].order].state = "placed"
                    /\ call'[j].pc = "counted" => call'[j].moves = "yes"
                    /\ (call'[j].pc \in {"updating", "counted"} /\ call'[j].reassigns = "yes")
                         => call'[j].user \in Assigners
                    /\ call'[j].pc = "assigning" => call'[j].user \in Assigners
  BY DEF CallsAreChecked, Placed
<1>1. CASE j = k
  BY <1>1
<1>2. CASE j # k
  <2>1. call'[j] = call[j]
    BY <1>2
  <2>2. call[j].pc \in {"updating", "counted", "assigning", "approving", "recording"}
          => call[j].order \in Orders
    BY CallKinds DEF BaseInv, TypeOK, Updating, Assigning, Approving
  <2> QED
    BY <2>1, <2>2 DEF BaseInv, CallsAreChecked, Placed
<1> QED
  BY <1>1, <1>2

\* The same for a call that ends.
LEMMA EndedChecked ==
  ASSUME BaseInv, NEW k \in Calls, Answer(k),
         \A p \in Orders : order[p].state = "placed" => order'[p].state = "placed"
  PROVE  CallsAreChecked'
<1>1. /\ call'[k] = Idle
      /\ \A j \in Calls \ {k} : call'[j] = call[j]
  BY Answered DEF BaseInv
<1>2. call'[k].pc = "idle"
  BY <1>1 DEF Idle
<1> QED
  BY <1>1, <1>2, StillChecked

\* The record a call in flight is, with the order it works on.
LEMMA InFlight ==
  ASSUME BaseInv, NEW k \in Calls
  PROVE  /\ call[k].pc \in {"updating", "counted"} =>
              call[k] \in Updating /\ order[call[k].order] \in Order
         /\ call[k].pc = "assigning" =>
              call[k] \in Assigning /\ order[call[k].order] \in Order
         /\ call[k].pc \in {"approving", "recording"} =>
              call[k] \in Approving /\ order[call[k].order] \in Order
<1>1. call[k] \in Call
  BY DEF BaseInv, TypeOK
<1>2. call[k].pc \in {"updating", "counted", "assigning", "approving", "recording"}
        => call[k].order \in Orders
  BY <1>1, CallKinds DEF Updating, Assigning, Approving
<1>3. \A o \in Orders : order[o].state = "placed" => order[o] \in Order
  BY RowKinds DEF BaseInv, TypeOK
<1> QED
  BY <1>1, <1>2, <1>3, CallKinds DEF BaseInv, CallsAreChecked, Placed

\* Every step keeps the types, and every call in flight was checked.
LEMMA BaseStep == BaseInv /\ [Next]_vars => BaseInv'
<1> SUFFICES ASSUME BaseInv, [Next]_vars PROVE BaseInv'
  OBVIOUS
<1> USE DEF BaseInv
<1>1. TypeOK /\ CallsAreChecked
  OBVIOUS
<1>2. CASE UNCHANGED vars
  BY <1>1, <1>2 DEF vars, TypeOK, CallsAreChecked, Placed
<1>3. CASE SoftDeleteCustomer
  BY <1>1, <1>3 DEF SoftDeleteCustomer, history, TypeOK, CallsAreChecked, Placed
<1>4. CASE Restart
  BY <1>1, <1>4 DEF Restart, rows, history, TypeOK, CallsAreChecked, Placed, Call, Idle
<1>5. ASSUME NEW k \in Calls, CallStep(k) PROVE BaseInv'
  <2>1. CASE CreateOrder(k)
    <3>1. PICK c \in liveContracts, x \in liveCustomers, a \in Users :
            call' = [call EXCEPT ![k] = [pc |-> "creating", contract |-> c,
                                         customer |-> x, assignee |-> a]]
      BY <2>1 DEF CreateOrder
    <3> DEFINE r == [pc |-> "creating", contract |-> c, customer |-> x, assignee |-> a]
    <3>2. r \in Call /\ r.pc = "creating"
      BY DEF Call, Creating, TypeOK
    <3> HIDE DEF r
    <3>3. /\ call' \in [Calls -> Call] /\ call'[k] = r
          /\ \A j \in Calls \ {k} : call'[j] = call[j]
      BY <3>1, <3>2, Started DEF r
    <3>4. UNCHANGED <<rows, history>>
      BY <2>1 DEF CreateOrder
    <3>5. CallsAreChecked'
      BY <3>2, <3>3, <3>4, StillChecked DEF rows
    <3> QED
      BY <3>3, <3>4, <3>5 DEF rows, history, TypeOK
  <2>2. CASE InsertOrder(k)
    <3>1. PICK o \in Orders :
            /\ order[o] = NoOrder
            /\ order' = [order EXCEPT ![o] =
                 [state |-> "placed", contract |-> call[k].contract,
                  customer |-> call[k].customer, assignee |-> call[k].assignee,
                  approvalHistory |-> <<>>]]
      BY <2>2 DEF InsertOrder
    <3> DEFINE row == [state |-> "placed", contract |-> call[k].contract,
                       customer |-> call[k].customer, assignee |-> call[k].assignee,
                       approvalHistory |-> <<>>]
    <3>2. call[k] \in Creating
      BY <2>2, CallKinds DEF InsertOrder, TypeOK
    <3>3. row \in Order
      BY <3>2 DEF Order, Creating
    <3> HIDE DEF row
    <3>4. /\ order' \in [Orders -> Order \cup {NoOrder}]
          /\ \A p \in Orders : order[p].state = "placed" => order'[p].state = "placed"
      BY <3>1, <3>3, OneRow DEF row
    <3>5. call' \in [Calls -> Call] /\ CallsAreChecked'
      BY <2>2, <3>4, Answered, EndedChecked DEF InsertOrder
    <3>6. disputed' \in [Contracts -> YesNo]
      BY <2>2 DEF InsertOrder, TypeOK, YesNo
    <3> QED
      BY <2>2, <3>4, <3>5, <3>6 DEF InsertOrder, TypeOK
  <2>3. CASE UpdateOrder(k)
    <3>1. PICK u \in Users, o \in Orders, x \in Customers, a \in Users :
            /\ Placed(o)
            /\ a # order[o].assignee => u \in Assigners
            /\ call' = [call EXCEPT ![k] =
                 [pc |-> "updating", user |-> u, order |-> o,
                  customer |-> x, moves |-> Changing(x, order[o].customer),
                  assignee |-> a, reassigns |-> Changing(a, order[o].assignee)]]
      BY <2>3 DEF UpdateOrder
    <3> DEFINE r == [pc |-> "updating", user |-> u, order |-> o,
                     customer |-> x, moves |-> Changing(x, order[o].customer),
                     assignee |-> a, reassigns |-> Changing(a, order[o].assignee)]
    <3>2. \A new, old : Changing(new, old) \in YesNo
      BY DEF Changing, YesNo
    <3>3. r \in Updating
      BY <3>2 DEF Updating
    <3>4. /\ r \in Call /\ r.pc = "updating" /\ r.order = o
          /\ r.reassigns = "yes" => r.user \in Assigners
      BY <3>1, <3>3 DEF Call, Changing
    <3> HIDE DEF r
    <3>5. /\ call' \in [Calls -> Call] /\ call'[k] = r
          /\ \A j \in Calls \ {k} : call'[j] = call[j]
      BY <3>1, <3>4, Started DEF r
    <3>6. UNCHANGED <<rows, history>>
      BY <2>3 DEF UpdateOrder
    <3>7. CallsAreChecked'
      BY <3>1, <3>4, <3>5, <3>6, StillChecked DEF rows, Placed
    <3> QED
      BY <3>5, <3>6, <3>7 DEF rows, history, TypeOK
  <2>4. CASE WriteOrder(k)
    <3> DEFINE o == call[k].order
    <3>1. call[k] \in Updating /\ o \in Orders /\ order[o] \in Order
      BY <2>4, InFlight DEF WriteOrder, Updating
    <3>2. Saved(call[k], order[o]) \in Order
      BY <3>1, SavedRow
    <3>3. order' = [order EXCEPT ![o] = Saved(call[k], order[o])]
      BY <2>4 DEF WriteOrder
    <3> HIDE DEF o
    <3>4. /\ order' \in [Orders -> Order \cup {NoOrder}]
          /\ \A p \in Orders : order[p].state = "placed" => order'[p].state = "placed"
      BY <3>1, <3>2, <3>3, OneRow
    <3>5. call' \in [Calls -> Call] /\ CallsAreChecked'
      BY <2>4, <3>4, Answered, EndedChecked DEF WriteOrder
    <3> QED
      BY <2>4, <3>4, <3>5 DEF WriteOrder, history, TypeOK
  <2>5. CASE CountSiblings(k)
    <3>1. UNCHANGED <<rows, history>>
      BY <2>5 DEF CountSiblings
    <3>2. CASE Answer(k)
      <4>1. call' \in [Calls -> Call] /\ CallsAreChecked'
        BY <3>1, <3>2, Answered, EndedChecked DEF rows
      <4> QED
        BY <3>1, <4>1 DEF rows, history, TypeOK
    <3>3. CASE call' = [call EXCEPT ![k] = [call[k] EXCEPT !.pc = "counted"]]
      <4> DEFINE r == [call[k] EXCEPT !.pc = "counted"]
      <4>1. call[k] \in Updating /\ call[k].moves = "yes" /\ call[k].pc = "updating"
        BY <2>5, InFlight DEF CountSiblings
      <4>2. /\ r \in Updating /\ r.pc = "counted" /\ r.user = call[k].user
            /\ r.order = call[k].order /\ r.moves = "yes" /\ r.reassigns = call[k].reassigns
        BY <4>1, CountedCall
      <4>3. r \in Call
        BY <4>2 DEF Call
      <4> HIDE DEF r
      <4>4. /\ call' \in [Calls -> Call] /\ call'[k] = r
            /\ \A j \in Calls \ {k} : call'[j] = call[j]
        BY <3>3, <4>3, Started DEF r
      <4>5. CallsAreChecked'
        BY <3>1, <4>1, <4>2, <4>4, StillChecked DEF rows, CallsAreChecked, Placed
      <4> QED
        BY <3>1, <4>4, <4>5 DEF rows, history, TypeOK
    <3> QED
      BY <2>5, <3>2, <3>3 DEF CountSiblings, Answer
  <2>6. CASE CommitSync(k)
    <3> DEFINE o == call[k].order
    <3>1. call[k] \in Updating /\ o \in Orders /\ order[o] \in Order
      BY <2>6, InFlight DEF CommitSync, Updating
    <3>2. Saved(call[k], order[o]) \in Order
      BY <3>1, SavedRow
    <3>3. /\ order' = [order EXCEPT ![o] = Saved(call[k], order[o])]
          /\ contract' = [contract EXCEPT ![order[o].contract] = call[k].customer]
      BY <2>6 DEF CommitSync
    <3>4. contract' \in [Contracts -> Customers]
      BY <3>1, <3>3 DEF TypeOK, Updating
    <3> HIDE DEF o
    <3>5. /\ order' \in [Orders -> Order \cup {NoOrder}]
          /\ \A p \in Orders : order[p].state = "placed" => order'[p].state = "placed"
      BY <3>1, <3>2, <3>3, OneRow
    <3>6. call' \in [Calls -> Call] /\ CallsAreChecked'
      BY <2>6, <3>5, Answered, EndedChecked DEF CommitSync
    <3> QED
      BY <2>6, <3>4, <3>5, <3>6 DEF CommitSync, history, TypeOK
  <2>7. CASE AssignOrder(k)
    <3>1. PICK u \in Assigners, o \in Orders, a \in Users :
            /\ Placed(o)
            /\ call' = [call EXCEPT ![k] =
                 [pc |-> "assigning", user |-> u, order |-> o, assignee |-> a]]
      BY <2>7 DEF AssignOrder
    <3> DEFINE r == [pc |-> "assigning", user |-> u, order |-> o, assignee |-> a]
    <3>2. r \in Call /\ r.pc = "assigning" /\ r.order = o /\ r.user \in Assigners
      BY ConstantsAssumption DEF Call, Assigning
    <3> HIDE DEF r
    <3>3. /\ call' \in [Calls -> Call] /\ call'[k] = r
          /\ \A j \in Calls \ {k} : call'[j] = call[j]
      BY <3>1, <3>2, Started DEF r
    <3>4. UNCHANGED <<rows, history>>
      BY <2>7 DEF AssignOrder
    <3>5. CallsAreChecked'
      BY <3>1, <3>2, <3>3, <3>4, StillChecked DEF rows, Placed
    <3> QED
      BY <3>3, <3>4, <3>5 DEF rows, history, TypeOK
  <2>8. CASE WriteAssignee(k)
    <3> DEFINE o == call[k].order
    <3>1. call[k] \in Assigning /\ o \in Orders /\ order[o] \in Order /\ call[k].assignee \in Users
      BY <2>8, InFlight DEF WriteAssignee, Assigning
    <3>2. [order[o] EXCEPT !.assignee = call[k].assignee] \in Order
      BY <3>1, ReassignedRow
    <3>3. order' = [order EXCEPT ![o] = [order[o] EXCEPT !.assignee = call[k].assignee]]
      BY <2>8 DEF WriteAssignee
    <3> HIDE DEF o
    <3>4. /\ order' \in [Orders -> Order \cup {NoOrder}]
          /\ \A p \in Orders : order[p].state = "placed" => order'[p].state = "placed"
      BY <3>1, <3>2, <3>3, OneRow
    <3>5. call' \in [Calls -> Call] /\ CallsAreChecked'
      BY <2>8, <3>4, Answered, EndedChecked DEF WriteAssignee
    <3> QED
      BY <2>8, <3>4, <3>5 DEF WriteAssignee, history, TypeOK
  <2>9. CASE ApproveOrder(k)
    <3>1. PICK u \in Users, o \in Orders :
            /\ Placed(o)
            /\ call' = [call EXCEPT ![k] =
                 [pc |-> "approving", user |-> u, order |-> o, approvalHistory |-> <<>>]]
      BY <2>9 DEF ApproveOrder
    <3> DEFINE r == [pc |-> "approving", user |-> u, order |-> o, approvalHistory |-> <<>>]
    <3>2. r \in Call /\ r.pc = "approving" /\ r.order = o
      BY DEF Call, Approving
    <3> HIDE DEF r
    <3>3. /\ call' \in [Calls -> Call] /\ call'[k] = r
          /\ \A j \in Calls \ {k} : call'[j] = call[j]
      BY <3>1, <3>2, Started DEF r
    <3>4. UNCHANGED <<rows, history>>
      BY <2>9 DEF ApproveOrder
    <3>5. CallsAreChecked'
      BY <3>1, <3>2, <3>3, <3>4, StillChecked DEF rows, Placed
    <3> QED
      BY <3>3, <3>4, <3>5 DEF rows, history, TypeOK
  <2>10. CASE ReadHistory(k)
    <3> DEFINE h == order[call[k].order].approvalHistory
               r == [call[k] EXCEPT !.pc = "recording", !.approvalHistory = h]
    <3>1. call[k] \in Approving /\ h \in Seq(Users) /\ call[k].pc = "approving"
      BY <2>10, InFlight DEF ReadHistory, Order
    <3>2. /\ call' = [call EXCEPT ![k] = r]
          /\ UNCHANGED <<rows, history>>
      BY <2>10 DEF ReadHistory
    <3> HIDE DEF h
    <3>3. r \in Approving /\ r.pc = "recording" /\ r.order = call[k].order
      BY <3>1, RecordingCall
    <3>4. r \in Call
      BY <3>3 DEF Call
    <3> HIDE DEF r
    <3>5. /\ call' \in [Calls -> Call] /\ call'[k] = r
          /\ \A j \in Calls \ {k} : call'[j] = call[j]
      BY <3>2, <3>4, Started
    <3>6. CallsAreChecked'
      BY <3>1, <3>2, <3>3, <3>5, StillChecked DEF rows, CallsAreChecked, Placed
    <3> QED
      BY <3>2, <3>5, <3>6 DEF rows, history, TypeOK
  <2>11. CASE RecordApproval(k)
    <3> DEFINE o == call[k].order
               h == Pushed(call[k].approvalHistory, call[k].user)
    <3>1. call[k] \in Approving /\ o \in Orders /\ order[o] \in Order
      BY <2>11, InFlight DEF RecordApproval, Approving
    <3>2. h \in Seq(Users)
      BY <3>1 DEF Pushed, Approving
    <3>3. /\ order' = [order EXCEPT ![o] = [order[o] EXCEPT !.approvalHistory = h]]
          /\ approvals' = [approvals EXCEPT ![o] = @ + 1]
          /\ overlapped' \in {overlapped, [overlapped EXCEPT ![o] = "yes"]}
      BY <2>11 DEF RecordApproval
    <3> HIDE DEF o, h
    <3>4. [order[o] EXCEPT !.approvalHistory = h] \in Order
      BY <3>1, <3>2, ApprovedRow
    <3>5. /\ order' \in [Orders -> Order \cup {NoOrder}]
          /\ \A p \in Orders : order[p].state = "placed" => order'[p].state = "placed"
      BY <3>1, <3>3, <3>4, OneRow
    <3>6. call' \in [Calls -> Call] /\ CallsAreChecked'
      BY <2>11, <3>5, Answered, EndedChecked DEF RecordApproval
    <3>7. approvals' \in [Orders -> Nat] /\ overlapped' \in [Orders -> YesNo]
      BY <3>1, <3>3 DEF TypeOK, YesNo
    <3> QED
      BY <2>11, <3>5, <3>6, <3>7 DEF RecordApproval, TypeOK
  <2>12. CASE EditContract(k)
    <3>1. PICK c \in liveContracts, x \in liveCustomers :
            call' = [call EXCEPT ![k] = [pc |-> "editing", contract |-> c, customer |-> x]]
      BY <2>12 DEF EditContract
    <3> DEFINE r == [pc |-> "editing", contract |-> c, customer |-> x]
    <3>2. r \in Call /\ r.pc = "editing"
      BY DEF Call, Editing, TypeOK
    <3> HIDE DEF r
    <3>3. /\ call' \in [Calls -> Call] /\ call'[k] = r
          /\ \A j \in Calls \ {k} : call'[j] = call[j]
      BY <3>1, <3>2, Started DEF r
    <3>4. UNCHANGED <<rows, history>>
      BY <2>12 DEF EditContract
    <3>5. CallsAreChecked'
      BY <3>2, <3>3, <3>4, StillChecked DEF rows
    <3> QED
      BY <3>3, <3>4, <3>5 DEF rows, history, TypeOK
  <2>13. CASE WriteContract(k)
    <3>1. call[k] \in Editing
      BY <2>13, CallKinds DEF WriteContract, TypeOK
    <3>2. contract' \in [Contracts -> Customers] /\ disputed' \in [Contracts -> YesNo]
      BY <2>13, <3>1 DEF WriteContract, TypeOK, Editing, YesNo
    <3>3. order' = order /\ Answer(k)
      BY <2>13 DEF WriteContract
    <3>4. call' \in [Calls -> Call] /\ CallsAreChecked'
      BY <3>3, Answered, EndedChecked
    <3> QED
      BY <2>13, <3>2, <3>4 DEF WriteContract, TypeOK
  <2>14. CASE DeleteContract(k)
    <3>1. PICK c \in liveContracts :
            call' = [call EXCEPT ![k] = [pc |-> "deleting", contract |-> c]]
      BY <2>14 DEF DeleteContract
    <3> DEFINE r == [pc |-> "deleting", contract |-> c]
    <3>2. r \in Call /\ r.pc = "deleting"
      BY DEF Call, Deleting, TypeOK
    <3> HIDE DEF r
    <3>3. /\ call' \in [Calls -> Call] /\ call'[k] = r
          /\ \A j \in Calls \ {k} : call'[j] = call[j]
      BY <3>1, <3>2, Started DEF r
    <3>4. UNCHANGED <<rows, history>>
      BY <2>14 DEF DeleteContract
    <3>5. CallsAreChecked'
      BY <3>2, <3>3, <3>4, StillChecked DEF rows
    <3> QED
      BY <3>3, <3>4, <3>5 DEF rows, history, TypeOK
  <2>15. CASE SoftDeleteContract(k)
    <3>1. order' = order /\ Answer(k)
      BY <2>15 DEF SoftDeleteContract
    <3>2. call' \in [Calls -> Call] /\ CallsAreChecked'
      BY <3>1, Answered, EndedChecked
    <3> QED
      BY <2>15, <3>2 DEF SoftDeleteContract, history, TypeOK
  <2> QED
    BY <1>5, <2>1, <2>2, <2>3, <2>4, <2>5, <2>6, <2>7, <2>8, <2>9, <2>10, <2>11,
       <2>12, <2>13, <2>14, <2>15 DEF CallStep
<1> QED
  BY <1>2, <1>3, <1>4, <1>5 DEF Next

\* Every reachable state has the types of the columns and of the calls.
THEOREM TypeCorrect == Spec => []TypeOK
<1>1. Spec => []BaseInv
  BY BaseInit, BaseStep, PTL DEF Spec
<1> QED
  BY <1>1, PTL DEF BaseInv

-----------------------------------------------------------------------------
(* Orders and contracts agree *)

IInv == BaseInv /\ CountsStayTrue /\ OrdersFollowTheirContract

LEMMA AgreementInit == Init => IInv
BY BaseInit DEF Init, IInv, CountsStayTrue, OrdersFollowTheirContract, Placed, Idle, NoOrder

\* The contract an order hangs from, and the order a counted PATCH works on.
LEMMA WellPlaced ==
  ASSUME BaseInv
  PROVE  /\ \A o \in Orders : order[o].state = "placed" =>
              order[o] \in Order /\ order[o].contract \in Contracts
         /\ \A k \in Calls : call[k].pc = "counted" =>
              /\ call[k].order \in Orders
              /\ order[call[k].order].state = "placed"
              /\ call[k].moves = "yes"
BY RowKinds, CallKinds DEF BaseInv, TypeOK, CallsAreChecked, Placed, Order, Updating

\* A step that leaves customers alone and counts nothing keeps the agreement.
LEMMA CustomersUntouched ==
  ASSUME IInv, contract' = contract, disputed' = disputed,
         \A o \in Orders : /\ order'[o].state = order[o].state
                           /\ order[o].state = "placed" =>
                                /\ order'[o].contract = order[o].contract
                                /\ order'[o].customer = order[o].customer,
         \A j \in Calls : call'[j].pc = "counted" => call'[j] = call[j]
  PROVE  CountsStayTrue' /\ OrdersFollowTheirContract'
<1>1. OrdersFollowTheirContract'
  BY DEF IInv, OrdersFollowTheirContract, Placed
<1>2. ASSUME NEW j \in Calls, call'[j].pc = "counted",
             disputed'[order'[call'[j].order].contract] = "no",
             NEW t \in Orders \ {call'[j].order}, order'[t].state = "placed",
             order'[t].contract = order'[call'[j].order].contract
      PROVE  order'[t].customer = call'[j].customer
  <2>1. /\ call'[j] = call[j] /\ call[j].pc = "counted"
        /\ call[j].order \in Orders /\ order[call[j].order].state = "placed"
    BY <1>2, WellPlaced DEF IInv
  <2> QED
    BY <1>2, <2>1 DEF IInv, CountsStayTrue, Placed
<1> QED
  BY <1>1, <1>2 DEF CountsStayTrue, Placed

\* One order's row changes in other columns than contract and customer.
LEMMA OtherColumns ==
  ASSUME IInv, NEW k \in Calls, Answer(k), contract' = contract, disputed' = disputed,
         NEW o \in Orders, order[o].state = "placed",
         NEW row \in Order, order' = [order EXCEPT ![o] = row],
         row.contract = order[o].contract, row.customer = order[o].customer
  PROVE  CountsStayTrue' /\ OrdersFollowTheirContract'
<1>1. /\ order'[o] = row /\ row.state = "placed"
      /\ \A p \in Orders \ {o} : order'[p] = order[p]
  BY OneRow DEF IInv, BaseInv, Order
<1>2. /\ call'[k] = Idle
      /\ \A j \in Calls \ {k} : call'[j] = call[j]
  BY Answered DEF IInv, BaseInv
<1>3. \A p \in Orders : /\ order'[p].state = order[p].state
                        /\ order[p].state = "placed" =>
                             /\ order'[p].contract = order[p].contract
                             /\ order'[p].customer = order[p].customer
  BY <1>1
<1>4. \A j \in Calls : call'[j].pc = "counted" => call'[j] = call[j]
  BY <1>2 DEF Idle
<1> QED
  BY <1>3, <1>4, CustomersUntouched

\* A new order is no news to the counts in flight, or the contract is disputed.
LEMMA InsertAgrees ==
  ASSUME IInv, NEW k \in Calls, InsertOrder(k)
  PROVE  CountsStayTrue' /\ OrdersFollowTheirContract'
<1> DEFINE c == call[k].contract
           x == call[k].customer
<1>1. call[k] \in Creating
  BY CallKinds DEF InsertOrder, IInv, BaseInv, TypeOK
<1>2. c \in Contracts /\ x \in Customers /\ call[k].assignee \in Users
  BY <1>1 DEF Creating
<1>3. PICK o \in Orders :
        /\ order[o] = NoOrder
        /\ order' = [order EXCEPT ![o] =
             [state |-> "placed", contract |-> c, customer |-> x,
              assignee |-> call[k].assignee, approvalHistory |-> <<>>]]
  BY DEF InsertOrder
<1>4. /\ order'[o].state = "placed" /\ order'[o].contract = c /\ order'[o].customer = x
      /\ \A p \in Orders \ {o} : order'[p] = order[p]
      /\ order[o].state = "none"
  BY <1>3 DEF IInv, BaseInv, TypeOK, NoOrder
<1>5. /\ contract' = contract
      /\ \A d \in Contracts : disputed'[d] = "no" => disputed[d] = "no"
      /\ disputed'[c] = "no" => x = contract[c] /\ ~CountedOn(c)
  BY <1>2 DEF InsertOrder, IInv, BaseInv, TypeOK, YesNo
<1>6. \A j \in Calls : call'[j].pc = "counted" => j # k /\ call'[j] = call[j]
  BY Answered DEF InsertOrder, IInv, BaseInv, Idle
<1> HIDE DEF c, x
<1>7. OrdersFollowTheirContract'
  <2> SUFFICES ASSUME NEW p \in Orders, order'[p].state = "placed",
                      disputed'[order'[p].contract] = "no"
               PROVE  order'[p].customer = contract'[order'[p].contract]
    BY DEF OrdersFollowTheirContract, Placed
  <2>1. CASE p = o
    BY <2>1, <1>4, <1>5
  <2>2. CASE p # o
    BY <2>2, <1>4, <1>5, WellPlaced DEF IInv, OrdersFollowTheirContract, Placed
  <2> QED
    BY <2>1, <2>2
<1>8. CountsStayTrue'
  <2> SUFFICES ASSUME NEW j \in Calls, call'[j].pc = "counted",
                      disputed'[order'[call'[j].order].contract] = "no",
                      NEW t \in Orders \ {call'[j].order}, order'[t].state = "placed",
                      order'[t].contract = order'[call'[j].order].contract
               PROVE  order'[t].customer = call'[j].customer
    BY DEF CountsStayTrue, Placed
  <2> DEFINE p == call[j].order
  <2>1. /\ call'[j] = call[j] /\ call[j].pc = "counted"
        /\ p \in Orders /\ order[p].state = "placed"
        /\ order[p].contract \in Contracts
    BY <1>6, WellPlaced DEF IInv
  <2>2. p # o /\ order'[p] = order[p]
    BY <2>1, <1>4
  <2>3. t # o
    <3> SUFFICES ASSUME t = o PROVE FALSE
      OBVIOUS
    <3>1. order[p].contract = c /\ disputed'[c] = "no"
      BY <1>4, <2>1, <2>2
    <3>2. CountedOn(c)
      BY <2>1, <3>1 DEF CountedOn
    <3> QED
      BY <1>5, <3>1, <3>2
  <2> QED
    BY <1>4, <1>5, <2>1, <2>2, <2>3 DEF IInv, CountsStayTrue, Placed
<1> QED
  BY <1>7, <1>8

\* The count that the transaction makes.
LEMMA CountAgrees ==
  ASSUME IInv, NEW k \in Calls, CountSiblings(k)
  PROVE  CountsStayTrue' /\ OrdersFollowTheirContract'
<1>1. /\ contract' = contract /\ disputed' = disputed /\ order' = order
  BY DEF CountSiblings, rows, history
<1>2. OrdersFollowTheirContract'
  BY <1>1 DEF IInv, OrdersFollowTheirContract, Placed
<1>3. /\ call[k] \in Updating /\ call[k].order \in Orders
  BY InFlight DEF CountSiblings, IInv, Updating
<1>4. \A j \in Calls \ {k} : call'[j] = call[j]
  BY DEF CountSiblings, IInv, BaseInv, TypeOK
<1>5. call'[k].pc = "counted" =>
        /\ ~Conflicts(call[k].order, call[k].customer)
        /\ call'[k].order = call[k].order /\ call'[k].customer = call[k].customer
  <2>1. CASE Conflicts(call[k].order, call[k].customer)
    BY <2>1 DEF CountSiblings, IInv, BaseInv, TypeOK, Idle
  <2>2. CASE ~Conflicts(call[k].order, call[k].customer)
    <3>1. call'[k] = [call[k] EXCEPT !.pc = "counted"]
      BY <2>2 DEF CountSiblings, IInv, BaseInv, TypeOK
    <3> QED
      BY <1>3, <2>2, <3>1, CountedCall
  <2> QED
    BY <2>1, <2>2
<1>6. ASSUME NEW j \in Calls, call'[j].pc = "counted",
             disputed'[order'[call'[j].order].contract] = "no",
             NEW t \in Orders \ {call'[j].order}, order'[t].state = "placed",
             order'[t].contract = order'[call'[j].order].contract
      PROVE  order'[t].customer = call'[j].customer
  <2>1. CASE j = k
    BY <1>1, <1>5, <1>6, <2>1 DEF Conflicts, Siblings, Placed
  <2>2. CASE j # k
    BY <1>1, <1>4, <1>6, <2>2 DEF IInv, CountsStayTrue, Placed
  <2> QED
    BY <2>1, <2>2
<1> QED
  BY <1>2, <1>6 DEF CountsStayTrue, Placed

\* The commit: what was counted is still true, so everybody follows.
LEMMA CommitAgrees ==
  ASSUME IInv, NEW k \in Calls, CommitSync(k)
  PROVE  CountsStayTrue' /\ OrdersFollowTheirContract'
<1> DEFINE o == call[k].order
           c == order[o].contract
           x == call[k].customer
<1>1. /\ call[k] \in Updating /\ o \in Orders /\ order[o] \in Order
      /\ c \in Contracts /\ x \in Customers
      /\ order[o].state = "placed" /\ call[k].moves = "yes"
      /\ call[k].pc = "counted"
  BY InFlight, WellPlaced DEF CommitSync, IInv, Updating, Order
<1>2. /\ Saved(call[k], order[o]) \in Order
      /\ Saved(call[k], order[o]).state = "placed"
      /\ Saved(call[k], order[o]).contract = c
      /\ Saved(call[k], order[o]).customer = x
  BY <1>1, SavedRow
<1>3. /\ order'[o].state = "placed" /\ order'[o].contract = c /\ order'[o].customer = x
      /\ \A p \in Orders \ {o} : order'[p] = order[p]
  BY <1>1, <1>2 DEF CommitSync, IInv, BaseInv, TypeOK
<1>4. /\ contract'[c] = x
      /\ \A d \in Contracts \ {c} : contract'[d] = contract[d]
      /\ disputed' = disputed
  BY <1>1 DEF CommitSync, IInv, BaseInv, TypeOK, history
<1>5. \A j \in Calls : call'[j].pc = "counted" => j # k /\ call'[j] = call[j]
  BY Answered DEF CommitSync, IInv, BaseInv, Idle
<1> HIDE DEF o, c, x
<1>6. disputed[c] = "no" =>
        \A t \in Orders \ {o} :
          (order[t].state = "placed" /\ order[t].contract = c) => order[t].customer = x
  BY <1>1 DEF IInv, CountsStayTrue, Placed, o, c, x
<1>7. OrdersFollowTheirContract'
  <2> SUFFICES ASSUME NEW p \in Orders, order'[p].state = "placed",
                      disputed'[order'[p].contract] = "no"
               PROVE  order'[p].customer = contract'[order'[p].contract]
    BY DEF OrdersFollowTheirContract, Placed
  <2>1. CASE p = o
    BY <2>1, <1>3, <1>4
  <2>2. CASE p # o /\ order[p].contract = c
    BY <2>2, <1>3, <1>4, <1>6
  <2>3. CASE p # o /\ order[p].contract # c
    BY <2>3, <1>3, <1>4, WellPlaced DEF IInv, OrdersFollowTheirContract, Placed
  <2> QED
    BY <2>1, <2>2, <2>3
<1>8. CountsStayTrue'
  <2> SUFFICES ASSUME NEW j \in Calls, call'[j].pc = "counted",
                      disputed'[order'[call'[j].order].contract] = "no",
                      NEW t \in Orders \ {call'[j].order}, order'[t].state = "placed",
                      order'[t].contract = order'[call'[j].order].contract
               PROVE  order'[t].customer = call'[j].customer
    BY DEF CountsStayTrue, Placed
  <2> DEFINE p == call[j].order
             y == call[j].customer
  <2>1. /\ j # k /\ call'[j] = call[j] /\ call[j].pc = "counted"
        /\ p \in Orders /\ order[p].state = "placed"
        /\ order[p].contract \in Contracts
    BY <1>5, WellPlaced DEF IInv
  <2>2. order'[p].contract = order[p].contract /\ disputed[order[p].contract] = "no"
    BY <1>3, <1>4, <2>1, o = p \/ o # p DEF c
  <2>3. \A q \in Orders \ {p} :
          (order[q].state = "placed" /\ order[q].contract = order[p].contract)
            => order[q].customer = y
    BY <2>1, <2>2 DEF IInv, CountsStayTrue, Placed
  <2>4. CASE t # o
    BY <1>3, <2>1, <2>2, <2>3, <2>4
  <2>5. CASE t = o
    <3>1. p # o /\ order[p].contract = c /\ disputed[c] = "no"
      BY <1>3, <2>1, <2>2, <2>5
    <3>2. order[p].customer = x
      BY <1>6, <2>1, <3>1
    <3>3. order[p].customer = contract[c] /\ order[o].customer = contract[c]
      BY <1>1, <2>1, <3>1 DEF IInv, OrdersFollowTheirContract, Placed, c
    <3>4. order[o].customer = y
      BY <1>1, <2>3, <3>1 DEF c
    <3> QED
      BY <1>3, <2>1, <2>5, <3>2, <3>3, <3>4
  <2> QED
    BY <2>4, <2>5
<1> QED
  BY <1>7, <1>8

\* PATCH /contracts/:id disputes the contract or agrees with all its orders.
LEMMA EditAgrees ==
  ASSUME IInv, NEW k \in Calls, WriteContract(k)
  PROVE  CountsStayTrue' /\ OrdersFollowTheirContract'
<1> DEFINE c == call[k].contract
           x == call[k].customer
<1>1. call[k] \in Editing
  BY CallKinds DEF WriteContract, IInv, BaseInv, TypeOK
<1>2. c \in Contracts /\ x \in Customers
  BY <1>1 DEF Editing
<1>3. /\ order' = order
      /\ contract'[c] = x
      /\ \A d \in Contracts \ {c} : contract'[d] = contract[d]
      /\ \A d \in Contracts : disputed'[d] = "no" => disputed[d] = "no"
      /\ disputed'[c] = "no" =>
           \A p \in Orders : (order[p].state = "placed" /\ order[p].contract = c)
                                => order[p].customer = x
  BY <1>2 DEF WriteContract, IInv, BaseInv, TypeOK, YesNo, Placed
<1>4. \A j \in Calls : call'[j].pc = "counted" => call'[j] = call[j]
  BY Answered DEF WriteContract, IInv, BaseInv, Idle
<1> HIDE DEF c, x
<1>5. OrdersFollowTheirContract'
  BY <1>3, WellPlaced DEF IInv, OrdersFollowTheirContract, Placed
<1>6. CountsStayTrue'
  BY <1>3, <1>4, WellPlaced DEF IInv, CountsStayTrue, Placed
<1> QED
  BY <1>5, <1>6

LEMMA AgreementStep == IInv /\ [Next]_vars => IInv'
<1> SUFFICES ASSUME IInv, [Next]_vars PROVE CountsStayTrue' /\ OrdersFollowTheirContract'
  BY BaseStep DEF IInv
<1>1. TypeOK /\ BaseInv
  BY DEF IInv, BaseInv
\* Most steps write no row at all.
<1>2. ASSUME UNCHANGED <<contract, order, disputed>>,
             \A j \in Calls : call'[j].pc = "counted" => call'[j] = call[j]
      PROVE  CountsStayTrue' /\ OrdersFollowTheirContract'
  BY <1>2, CustomersUntouched
<1>3. CASE UNCHANGED vars
  BY <1>2, <1>3 DEF vars
<1>4. CASE SoftDeleteCustomer
  BY <1>2, <1>4 DEF SoftDeleteCustomer, history
<1>5. CASE Restart
  BY <1>2, <1>5 DEF Restart, rows, history, Idle
<1>6. ASSUME NEW k \in Calls, CallStep(k) PROVE CountsStayTrue' /\ OrdersFollowTheirContract'
  <2>1. CASE InsertOrder(k)
    BY <2>1, InsertAgrees
  <2>2. CASE CountSiblings(k)
    BY <2>2, CountAgrees
  <2>3. CASE CommitSync(k)
    BY <2>3, CommitAgrees
  <2>4. CASE WriteContract(k)
    BY <2>4, EditAgrees
  <2>5. CASE WriteOrder(k)
    <3> DEFINE o == call[k].order
    <3>1. call[k] \in Updating /\ o \in Orders /\ order[o] \in Order /\ call[k].moves = "no"
      BY <1>1, <2>5, InFlight DEF WriteOrder, Updating
    <3>2. /\ Saved(call[k], order[o]) \in Order
          /\ Saved(call[k], order[o]).contract = order[o].contract
          /\ Saved(call[k], order[o]).customer = order[o].customer
      BY <3>1, SavedRow
    <3>3. /\ order' = [order EXCEPT ![o] = Saved(call[k], order[o])]
          /\ Answer(k) /\ contract' = contract /\ disputed' = disputed
      BY <2>5 DEF WriteOrder, history
    <3>4. order[o].state = "placed"
      BY <3>1 DEF Order
    <3> HIDE DEF o
    <3> QED
      BY <3>1, <3>2, <3>3, <3>4, OtherColumns
  <2>6. CASE WriteAssignee(k)
    <3> DEFINE o == call[k].order
               row == [order[o] EXCEPT !.assignee = call[k].assignee]
    <3>1. call[k] \in Assigning /\ o \in Orders /\ order[o] \in Order /\ call[k].assignee \in Users
      BY <1>1, <2>6, InFlight DEF WriteAssignee, Assigning
    <3>2. row \in Order /\ row.contract = order[o].contract /\ row.customer = order[o].customer
      BY <3>1, ReassignedRow
    <3>3. /\ order' = [order EXCEPT ![o] = row]
          /\ Answer(k) /\ contract' = contract /\ disputed' = disputed
      BY <2>6 DEF WriteAssignee, history
    <3>4. order[o].state = "placed"
      BY <3>1 DEF Order
    <3> HIDE DEF o, row
    <3> QED
      BY <3>1, <3>2, <3>3, <3>4, OtherColumns
  <2>7. CASE RecordApproval(k)
    <3> DEFINE o == call[k].order
               h == Pushed(call[k].approvalHistory, call[k].user)
               row == [order[o] EXCEPT !.approvalHistory = h]
    <3>1. call[k] \in Approving /\ o \in Orders /\ order[o] \in Order
      BY <1>1, <2>7, InFlight DEF RecordApproval, Approving
    <3>2. h \in Seq(Users)
      BY <3>1 DEF Pushed, Approving
    <3>3. row \in Order /\ row.contract = order[o].contract /\ row.customer = order[o].customer
      BY <3>1, <3>2, ApprovedRow
    <3>4. /\ order' = [order EXCEPT ![o] = row]
          /\ Answer(k) /\ contract' = contract /\ disputed' = disputed
      BY <2>7 DEF RecordApproval
    <3>5. order[o].state = "placed"
      BY <3>1 DEF Order
    <3> HIDE DEF o, h, row
    <3> QED
      BY <3>1, <3>3, <3>4, <3>5, OtherColumns
  <2>8. CASE CreateOrder(k) \/ UpdateOrder(k) \/ AssignOrder(k) \/ ApproveOrder(k)
             \/ EditContract(k) \/ DeleteContract(k)
    <3>1. UNCHANGED <<contract, order, disputed>>
      BY <2>8 DEF CreateOrder, UpdateOrder, AssignOrder, ApproveOrder, EditContract,
                  DeleteContract, rows, history
    <3>2. /\ \A j \in Calls \ {k} : call'[j] = call[j]
          /\ call'[k].pc # "counted"
      BY <1>1, <2>8 DEF CreateOrder, UpdateOrder, AssignOrder, ApproveOrder, EditContract,
                        DeleteContract, TypeOK
    <3> QED
      BY <1>2, <3>1, <3>2
  <2>9. CASE ReadHistory(k)
    <3>1. UNCHANGED <<contract, order, disputed>>
      BY <2>9 DEF ReadHistory, rows, history
    <3>2. call[k] \in Approving /\ order[call[k].order].approvalHistory \in Seq(Users)
      BY <1>1, <2>9, InFlight DEF ReadHistory, Order
    <3>3. call'[k].pc = "recording" /\ \A j \in Calls \ {k} : call'[j] = call[j]
      BY <1>1, <2>9, <3>2, RecordingCall DEF ReadHistory, TypeOK
    <3> QED
      BY <1>2, <3>1, <3>3
  <2>10. CASE SoftDeleteContract(k)
    <3>1. UNCHANGED <<contract, order, disputed>> /\ Answer(k)
      BY <2>10 DEF SoftDeleteContract, history
    <3> QED
      BY <1>1, <1>2, <3>1, Answered DEF Idle
  <2> QED
    BY <1>6, <2>1, <2>2, <2>3, <2>4, <2>5, <2>6, <2>7, <2>8, <2>9, <2>10 DEF CallStep
<1> QED
  BY <1>3, <1>4, <1>5, <1>6 DEF Next

\* Orders and contracts come apart only by a dispute.
THEOREM Agreement == Spec => []OrdersFollowTheirContract
<1>1. Spec => []IInv
  BY AgreementInit, AgreementStep, PTL DEF Spec
<1> QED
  BY <1>1, PTL DEF IInv

-----------------------------------------------------------------------------
(* What a step may do to an order *)

\* A placed order changes only when a call that was checked against it ends.
LEMMA RowChange ==
  ASSUME BaseInv, [Next]_vars, NEW o \in Orders, order[o].state = "placed"
  PROVE  \/ order'[o] = order[o]
         \/ \E k \in Calls :
              /\ call[k].order = o /\ call'[k] = Idle
              /\ \/ /\ call[k].pc = "updating" /\ call[k].moves = "no"
                    /\ order'[o] = Saved(call[k], order[o])
                 \/ /\ call[k].pc = "counted"
                    /\ order'[o] = Saved(call[k], order[o])
                    /\ contract'[order[o].contract] = call[k].customer
                 \/ /\ call[k].pc = "assigning"
                    /\ order'[o] = [order[o] EXCEPT !.assignee = call[k].assignee]
                 \/ /\ call[k].pc = "recording"
                    /\ order'[o] = [order[o] EXCEPT !.approvalHistory =
                                      Pushed(call[k].approvalHistory, call[k].user)]
<1>0. TypeOK
  BY DEF BaseInv
<1>1. CASE UNCHANGED order
  BY <1>1
<1>2. ASSUME NEW k \in Calls, InsertOrder(k) PROVE order'[o] = order[o]
  <2>1. PICK p \in Orders : /\ order[p] = NoOrder
                            /\ \A q \in Orders \ {p} : order'[q] = order[q]
    BY <1>0, <1>2 DEF InsertOrder, TypeOK
  <2> QED
    BY <2>1 DEF NoOrder
<1>3. ASSUME NEW k \in Calls, WriteOrder(k)
      PROVE  \/ order'[o] = order[o]
             \/ /\ call[k].order = o /\ call'[k] = Idle
                /\ call[k].pc = "updating" /\ call[k].moves = "no"
                /\ order'[o] = Saved(call[k], order[o])
  BY <1>0, <1>3 DEF WriteOrder, Answer, TypeOK
<1>4. ASSUME NEW k \in Calls, CommitSync(k)
      PROVE  \/ order'[o] = order[o]
             \/ /\ call[k].order = o /\ call'[k] = Idle
                /\ call[k].pc = "counted"
                /\ order'[o] = Saved(call[k], order[o])
                /\ contract'[order[o].contract] = call[k].customer
  <2>1. order[o].contract \in Contracts
    BY WellPlaced
  <2> QED
    BY <1>0, <1>4, <2>1 DEF CommitSync, Answer, TypeOK
<1>5. ASSUME NEW k \in Calls, WriteAssignee(k)
      PROVE  \/ order'[o] = order[o]
             \/ /\ call[k].order = o /\ call'[k] = Idle
                /\ call[k].pc = "assigning"
                /\ order'[o] = [order[o] EXCEPT !.assignee = call[k].assignee]
  BY <1>0, <1>5 DEF WriteAssignee, Answer, TypeOK
<1>6. ASSUME NEW k \in Calls, RecordApproval(k)
      PROVE  \/ order'[o] = order[o]
             \/ /\ call[k].order = o /\ call'[k] = Idle
                /\ call[k].pc = "recording"
                /\ order'[o] = [order[o] EXCEPT !.approvalHistory =
                                  Pushed(call[k].approvalHistory, call[k].user)]
  BY <1>0, <1>6 DEF RecordApproval, Answer, TypeOK
<1>7. ASSUME NEW k \in Calls,
             \/ CreateOrder(k) \/ UpdateOrder(k) \/ CountSiblings(k) \/ AssignOrder(k)
             \/ ApproveOrder(k) \/ ReadHistory(k) \/ EditContract(k) \/ WriteContract(k)
             \/ DeleteContract(k) \/ SoftDeleteContract(k)
      PROVE  UNCHANGED order
  BY <1>7 DEF CreateOrder, UpdateOrder, CountSiblings, AssignOrder, ApproveOrder, ReadHistory,
              EditContract, WriteContract, DeleteContract, SoftDeleteContract, rows
<1>8. ASSUME SoftDeleteCustomer \/ Restart \/ UNCHANGED vars PROVE UNCHANGED order
  BY <1>8 DEF SoftDeleteCustomer, Restart, rows, vars
<1> QED
  BY <1>1, <1>2, <1>3, <1>4, <1>5, <1>6, <1>7, <1>8 DEF Next, CallStep

LEMMA MovesTogetherStep == BaseInv /\ [Next]_vars => CustomerMovesWithContract
<1> SUFFICES ASSUME BaseInv, [Next]_vars, NEW o \in Orders, order[o].state = "placed",
                    order'[o].customer # order[o].customer
             PROVE  contract'[order[o].contract] = order'[o].customer
  BY DEF CustomerMovesWithContract, Placed
<1>1. order[o] \in Order
  BY WellPlaced
<1>2. PICK k \in Calls :
        /\ call[k].order = o
        /\ \/ /\ call[k].pc = "updating" /\ call[k].moves = "no"
              /\ order'[o] = Saved(call[k], order[o])
           \/ /\ call[k].pc = "counted"
              /\ order'[o] = Saved(call[k], order[o])
              /\ contract'[order[o].contract] = call[k].customer
           \/ /\ call[k].pc = "assigning"
              /\ order'[o] = [order[o] EXCEPT !.assignee = call[k].assignee]
           \/ /\ call[k].pc = "recording"
              /\ order'[o] = [order[o] EXCEPT !.approvalHistory =
                                Pushed(call[k].approvalHistory, call[k].user)]
  BY RowChange
<1>3. CASE call[k].pc = "updating"
  BY <1>1, <1>2, <1>3, InFlight, SavedRow
<1>4. CASE call[k].pc = "counted"
  BY <1>1, <1>2, <1>4, InFlight, SavedRow, WellPlaced
<1>5. CASE call[k].pc = "assigning"
  <2> DEFINE a == call[k].assignee
  <2>1. a \in Users
    BY <1>5, InFlight DEF Assigning
  <2>2. order'[o] = [order[o] EXCEPT !.assignee = a]
    BY <1>2, <1>5
  <2> HIDE DEF a
  <2> QED
    BY <1>1, <2>1, <2>2, ReassignedRow
<1>6. CASE call[k].pc = "recording"
  <2> DEFINE h == Pushed(call[k].approvalHistory, call[k].user)
  <2>1. h \in Seq(Users)
    BY <1>6, InFlight DEF Approving, Pushed
  <2>2. order'[o] = [order[o] EXCEPT !.approvalHistory = h]
    BY <1>2, <1>6
  <2> HIDE DEF h
  <2> QED
    BY <1>1, <2>1, <2>2, ApprovedRow
<1> QED
  BY <1>2, <1>3, <1>4, <1>5, <1>6

\* An order takes its contract along whenever its customer changes.
THEOREM MovesTogether == Spec => CustomerMovesTogether
<1>1. Spec => []BaseInv
  BY BaseInit, BaseStep, PTL DEF Spec
<1> QED
  BY <1>1, MovesTogetherStep, PTL DEF Spec, CustomerMovesTogether

LEMMA ReassignStep == BaseInv /\ [Next]_vars => ReassignedByAssigner
<1> SUFFICES ASSUME BaseInv, [Next]_vars, NEW o \in Orders, order[o].state = "placed",
                    order'[o].assignee # order[o].assignee
             PROVE  \E k \in Calls : /\ call[k].pc \in {"updating", "counted", "assigning"}
                                     /\ call[k].order = o
                                     /\ call'[k] = Idle
                                     /\ call[k].user \in Assigners
  BY DEF ReassignedByAssigner, Placed
<1>1. order[o] \in Order
  BY WellPlaced
<1>2. PICK k \in Calls :
        /\ call[k].order = o /\ call'[k] = Idle
        /\ \/ /\ call[k].pc = "updating" /\ call[k].moves = "no"
              /\ order'[o] = Saved(call[k], order[o])
           \/ /\ call[k].pc = "counted"
              /\ order'[o] = Saved(call[k], order[o])
              /\ contract'[order[o].contract] = call[k].customer
           \/ /\ call[k].pc = "assigning"
              /\ order'[o] = [order[o] EXCEPT !.assignee = call[k].assignee]
           \/ /\ call[k].pc = "recording"
              /\ order'[o] = [order[o] EXCEPT !.approvalHistory =
                                Pushed(call[k].approvalHistory, call[k].user)]
  BY RowChange
<1>3. CASE call[k].pc \in {"updating", "counted"}
  <2>1. call[k] \in Updating /\ order'[o] = Saved(call[k], order[o])
    BY <1>2, <1>3, InFlight
  <2>2. order'[o].assignee = IF call[k].reassigns = "yes" THEN call[k].assignee
                             ELSE order[o].assignee
    BY <1>1, <2>1, SavedRow
  <2>3. call[k].reassigns = "yes"
    BY <2>2
  <2> QED
    BY <1>2, <1>3, <2>3 DEF BaseInv, CallsAreChecked
<1>4. CASE call[k].pc = "assigning"
  BY <1>2, <1>4 DEF BaseInv, CallsAreChecked
<1>5. CASE call[k].pc = "recording"
  <2> DEFINE h == Pushed(call[k].approvalHistory, call[k].user)
  <2>1. h \in Seq(Users)
    BY <1>5, InFlight DEF Approving, Pushed
  <2>2. order'[o] = [order[o] EXCEPT !.approvalHistory = h]
    BY <1>2, <1>5
  <2> HIDE DEF h
  <2> QED
    BY <1>1, <2>1, <2>2, ApprovedRow
<1> QED
  BY <1>2, <1>3, <1>4, <1>5

\* Only a user with order.assign ever changes who an order is assigned to.
THEOREM OnlyAssignersReassign == Spec => AssigneeNeedsPermission
<1>1. Spec => []BaseInv
  BY BaseInit, BaseStep, PTL DEF Spec
<1> QED
  BY <1>1, ReassignStep, PTL DEF Spec, AssigneeNeedsPermission

-----------------------------------------------------------------------------
(* The approval history *)

HInv == BaseInv /\ ReadsAreCurrent /\ HistoriesStartEmpty /\ HistoryComplete

LEMMA HistoryInit == Init => HInv
BY BaseInit DEF Init, HInv, ReadsAreCurrent, HistoriesStartEmpty, HistoryComplete, Placed,
                Idle, NoOrder

\* A step that leaves histories and their counters alone and reads none.
LEMMA HistoryUntouched ==
  ASSUME HInv, approvals' = approvals, overlapped' = overlapped,
         \A o \in Orders : /\ order'[o].state = order[o].state
                           /\ order[o].state = "placed" =>
                                order'[o].approvalHistory = order[o].approvalHistory,
         \A j \in Calls : call'[j].pc = "recording" => call'[j] = call[j]
  PROVE  ReadsAreCurrent' /\ HistoriesStartEmpty' /\ HistoryComplete'
<1>1. HistoryComplete' /\ HistoriesStartEmpty'
  BY DEF HInv, HistoryComplete, HistoriesStartEmpty, Placed
<1>2. ASSUME NEW j \in Calls, call'[j].pc = "recording",
             overlapped'[call'[j].order] = "no"
      PROVE  call'[j].approvalHistory = order'[call'[j].order].approvalHistory
  <2>1. call'[j] = call[j] /\ call[j].pc = "recording"
    BY <1>2
  <2>2. call[j].order \in Orders /\ order[call[j].order].state = "placed"
    BY <2>1, InFlight DEF HInv, Approving, Order
  <2> QED
    BY <1>2, <2>1, <2>2 DEF HInv, ReadsAreCurrent
<1> QED
  BY <1>1, <1>2 DEF ReadsAreCurrent

\* One order's row changes in other columns than its history.
LEMMA HistoryElsewhere ==
  ASSUME HInv, NEW k \in Calls, Answer(k), approvals' = approvals, overlapped' = overlapped,
         NEW o \in Orders, order[o].state = "placed",
         NEW row \in Order, order' = [order EXCEPT ![o] = row],
         row.approvalHistory = order[o].approvalHistory
  PROVE  ReadsAreCurrent' /\ HistoriesStartEmpty' /\ HistoryComplete'
<1>1. /\ order'[o] = row /\ row.state = "placed"
      /\ \A p \in Orders \ {o} : order'[p] = order[p]
  BY OneRow DEF HInv, BaseInv, Order
<1>2. \A p \in Orders : /\ order'[p].state = order[p].state
                        /\ order[p].state = "placed" =>
                             order'[p].approvalHistory = order[p].approvalHistory
  BY <1>1
<1>3. \A j \in Calls : call'[j].pc = "recording" => call'[j] = call[j]
  BY Answered DEF HInv, BaseInv, Idle
<1> QED
  BY <1>2, <1>3, HistoryUntouched

LEMMA InsertHistory ==
  ASSUME HInv, NEW k \in Calls, InsertOrder(k)
  PROVE  ReadsAreCurrent' /\ HistoriesStartEmpty' /\ HistoryComplete'
<1>1. PICK o \in Orders :
        /\ order[o].state = "none"
        /\ order'[o].state = "placed" /\ order'[o].approvalHistory = <<>>
        /\ \A p \in Orders \ {o} : order'[p] = order[p]
  BY DEF InsertOrder, HInv, BaseInv, TypeOK, NoOrder
<1>2. approvals' = approvals /\ overlapped' = overlapped /\ Answer(k)
  BY DEF InsertOrder
<1>3. approvals[o] = 0
  BY <1>1 DEF HInv, HistoriesStartEmpty, Placed
<1>4. HistoriesStartEmpty' /\ HistoryComplete'
  BY <1>1, <1>2, <1>3 DEF HInv, HistoriesStartEmpty, HistoryComplete, Placed
<1>5. ASSUME NEW j \in Calls, call'[j].pc = "recording", overlapped'[call'[j].order] = "no"
      PROVE  call'[j].approvalHistory = order'[call'[j].order].approvalHistory
  <2>1. call'[j] = call[j] /\ call[j].pc = "recording"
    BY <1>2, <1>5, Answered DEF HInv, BaseInv, Idle
  <2>2. call[j].order \in Orders /\ order[call[j].order].state = "placed"
    BY <2>1, InFlight DEF HInv, Approving, Order
  <2> QED
    BY <1>1, <1>2, <1>5, <2>1, <2>2 DEF HInv, ReadsAreCurrent
<1> QED
  BY <1>4, <1>5 DEF ReadsAreCurrent

LEMMA ReadCurrent ==
  ASSUME HInv, NEW k \in Calls, ReadHistory(k)
  PROVE  ReadsAreCurrent' /\ HistoriesStartEmpty' /\ HistoryComplete'
<1> DEFINE h == order[call[k].order].approvalHistory
<1>1. order' = order /\ approvals' = approvals /\ overlapped' = overlapped
  BY DEF ReadHistory, rows, history
<1> DEFINE r == call[k]
<1>2. r \in Approving /\ h \in Seq(Users)
  BY InFlight DEF ReadHistory, Order, HInv
<1>3. /\ call'[k] = [r EXCEPT !.pc = "recording", !.approvalHistory = h]
      /\ \A j \in Calls \ {k} : call'[j] = call[j]
  BY DEF ReadHistory, HInv, BaseInv, TypeOK
<1>4a. h = order[r.order].approvalHistory
  OBVIOUS
<1> HIDE DEF h, r
<1>4b. /\ [r EXCEPT !.pc = "recording", !.approvalHistory = h].order = r.order
      /\ [r EXCEPT !.pc = "recording", !.approvalHistory = h].approvalHistory = h
  BY <1>2, RecordingCall
<1>4. call'[k].order = r.order /\ call'[k].approvalHistory = h
  BY <1>3, <1>4b
<1>5. ReadsAreCurrent'
  <2> SUFFICES ASSUME NEW j \in Calls, call'[j].pc = "recording",
                      overlapped'[call'[j].order] = "no"
               PROVE  call'[j].approvalHistory = order'[call'[j].order].approvalHistory
    BY DEF ReadsAreCurrent
  <2>1. CASE j = k
    BY <1>1, <1>4, <1>4a, <2>1
  <2>2. CASE j # k
    BY <1>1, <1>3, <2>2 DEF HInv, ReadsAreCurrent
  <2> QED
    BY <2>1, <2>2
<1>6. HistoriesStartEmpty' /\ HistoryComplete'
  BY <1>1 DEF HInv, HistoriesStartEmpty, HistoryComplete, Placed
<1> QED
  BY <1>5, <1>6

LEMMA ApprovalKept ==
  ASSUME HInv, NEW k \in Calls, RecordApproval(k)
  PROVE  ReadsAreCurrent' /\ HistoriesStartEmpty' /\ HistoryComplete'
<1> DEFINE o == call[k].order
           h == Pushed(call[k].approvalHistory, call[k].user)
           rivals == \E j \in Calls \ {k} : call[j].pc = "recording" /\ call[j].order = o
<1>1. call[k] \in Approving /\ o \in Orders /\ order[o] \in Order /\ call[k].pc = "recording"
  BY InFlight DEF RecordApproval, Approving, HInv
<1>2. h \in Seq(Users) /\ Len(h) = Len(call[k].approvalHistory) + 1
  BY <1>1 DEF Pushed, Approving
<1>3. /\ order' = [order EXCEPT ![o] = [order[o] EXCEPT !.approvalHistory = h]]
      /\ approvals' = [approvals EXCEPT ![o] = @ + 1]
      /\ overlapped' = IF rivals THEN [overlapped EXCEPT ![o] = "yes"] ELSE overlapped
      /\ Answer(k)
  BY DEF RecordApproval
<1>4. overlapped[o] = "no" => call[k].approvalHistory = order[o].approvalHistory
  BY <1>1 DEF HInv, ReadsAreCurrent
<1>5. overlapped[o] = "no" => Len(order[o].approvalHistory) = approvals[o]
  BY <1>1 DEF HInv, HistoryComplete, Placed, Order
<1>6. rivals => overlapped'[o] = "yes"
  BY <1>1, <1>3 DEF HInv, BaseInv, TypeOK
<1>7. /\ overlapped'[o] = "no" => overlapped[o] = "no" /\ ~rivals
      /\ \A p \in Orders \ {o} : overlapped'[p] = overlapped[p] /\ approvals'[p] = approvals[p]
      /\ approvals'[o] = approvals[o] + 1
  BY <1>1, <1>3, <1>6 DEF HInv, BaseInv, TypeOK
<1>8. \A j \in Calls : call'[j].pc = "recording" => j # k /\ call'[j] = call[j]
  BY <1>3, Answered DEF HInv, BaseInv, Idle
<1>9. overlapped'[o] = "no" =>
        \A j \in Calls \ {k} : call[j].pc = "recording" => call[j].order # o
  BY <1>7
<1> HIDE DEF o, h, rivals
<1>10. [order[o] EXCEPT !.approvalHistory = h] \in Order
       /\ [order[o] EXCEPT !.approvalHistory = h].approvalHistory = h
  BY <1>1, <1>2, ApprovedRow
<1>11. /\ order'[o].approvalHistory = h /\ order'[o].state = "placed"
       /\ \A p \in Orders \ {o} : order'[p] = order[p]
  BY <1>1, <1>3, <1>10 DEF HInv, BaseInv, TypeOK, Order
<1>12. HistoriesStartEmpty'
  BY <1>7, <1>11 DEF HInv, HistoriesStartEmpty, Placed
<1>13. HistoryComplete'
  <2> SUFFICES ASSUME NEW p \in Orders, order'[p].state = "placed", overlapped'[p] = "no"
               PROVE  Len(order'[p].approvalHistory) = approvals'[p]
    BY DEF HistoryComplete, Placed
  <2>1. CASE p = o
    <3>1. overlapped[o] = "no"
      BY <1>7, <2>1
    <3>2. Len(h) = approvals[o] + 1
      BY <1>2, <1>4, <1>5, <3>1
    <3> QED
      BY <1>7, <1>11, <2>1, <3>2
  <2>2. CASE p # o
    BY <1>7, <1>11, <2>2 DEF HInv, HistoryComplete, Placed
  <2> QED
    BY <2>1, <2>2
<1>14. ReadsAreCurrent'
  <2> SUFFICES ASSUME NEW j \in Calls, call'[j].pc = "recording",
                      overlapped'[call'[j].order] = "no"
               PROVE  call'[j].approvalHistory = order'[call'[j].order].approvalHistory
    BY DEF ReadsAreCurrent
  <2>1. j # k /\ call'[j] = call[j] /\ call[j].pc = "recording"
    BY <1>8
  <2>2. call[j].order \in Orders
    BY <2>1, InFlight DEF HInv, Approving
  <2>3. call[j].order # o
    BY <1>9, <2>1
  <2> QED
    BY <1>7, <1>11, <2>1, <2>2, <2>3 DEF HInv, ReadsAreCurrent
<1> QED
  BY <1>12, <1>13, <1>14

LEMMA HistoryStep == HInv /\ [Next]_vars => HInv'
<1> SUFFICES ASSUME HInv, [Next]_vars
             PROVE  ReadsAreCurrent' /\ HistoriesStartEmpty' /\ HistoryComplete'
  BY BaseStep DEF HInv
<1>1. TypeOK /\ BaseInv
  BY DEF HInv, BaseInv
<1>2. ASSUME UNCHANGED <<order, approvals, overlapped>>,
             \A j \in Calls : call'[j].pc = "recording" => call'[j] = call[j]
      PROVE  ReadsAreCurrent' /\ HistoriesStartEmpty' /\ HistoryComplete'
  BY <1>2, HistoryUntouched
<1>3. CASE UNCHANGED vars
  BY <1>2, <1>3 DEF vars
<1>4. CASE SoftDeleteCustomer
  BY <1>2, <1>4 DEF SoftDeleteCustomer, history
<1>5. CASE Restart
  BY <1>2, <1>5 DEF Restart, rows, history, Idle
<1>6. ASSUME NEW k \in Calls, CallStep(k)
      PROVE  ReadsAreCurrent' /\ HistoriesStartEmpty' /\ HistoryComplete'
  <2>1. CASE InsertOrder(k)
    BY <2>1, InsertHistory
  <2>2. CASE ReadHistory(k)
    BY <2>2, ReadCurrent
  <2>3. CASE RecordApproval(k)
    BY <2>3, ApprovalKept
  <2>4. CASE WriteOrder(k) \/ CommitSync(k)
    <3> DEFINE o == call[k].order
    <3>1. call[k] \in Updating /\ o \in Orders /\ order[o] \in Order
      BY <1>1, <2>4, InFlight DEF WriteOrder, CommitSync, Updating
    <3>2. /\ Saved(call[k], order[o]) \in Order
          /\ Saved(call[k], order[o]).approvalHistory = order[o].approvalHistory
      BY <3>1, SavedRow
    <3>3. /\ order' = [order EXCEPT ![o] = Saved(call[k], order[o])]
          /\ Answer(k) /\ approvals' = approvals /\ overlapped' = overlapped
      BY <2>4 DEF WriteOrder, CommitSync, history
    <3>4. order[o].state = "placed"
      BY <3>1 DEF Order
    <3> HIDE DEF o
    <3> QED
      BY <3>1, <3>2, <3>3, <3>4, HistoryElsewhere
  <2>5. CASE WriteAssignee(k)
    <3> DEFINE o == call[k].order
               row == [order[o] EXCEPT !.assignee = call[k].assignee]
    <3>1. call[k] \in Assigning /\ o \in Orders /\ order[o] \in Order /\ call[k].assignee \in Users
      BY <1>1, <2>5, InFlight DEF WriteAssignee, Assigning
    <3>2. row \in Order /\ row.approvalHistory = order[o].approvalHistory
      BY <3>1, ReassignedRow
    <3>3. /\ order' = [order EXCEPT ![o] = row]
          /\ Answer(k) /\ approvals' = approvals /\ overlapped' = overlapped
      BY <2>5 DEF WriteAssignee, history
    <3>4. order[o].state = "placed"
      BY <3>1 DEF Order
    <3> HIDE DEF o, row
    <3> QED
      BY <3>1, <3>2, <3>3, <3>4, HistoryElsewhere
  <2>6. CASE CreateOrder(k) \/ UpdateOrder(k) \/ AssignOrder(k) \/ ApproveOrder(k)
             \/ EditContract(k) \/ DeleteContract(k)
    <3>1. UNCHANGED <<order, approvals, overlapped>>
      BY <2>6 DEF CreateOrder, UpdateOrder, AssignOrder, ApproveOrder, EditContract,
                  DeleteContract, rows, history
    <3>2. /\ \A j \in Calls \ {k} : call'[j] = call[j]
          /\ call'[k].pc # "recording"
      BY <1>1, <2>6 DEF CreateOrder, UpdateOrder, AssignOrder, ApproveOrder, EditContract,
                        DeleteContract, TypeOK
    <3> QED
      BY <1>2, <3>1, <3>2
  <2>7. CASE CountSiblings(k)
    <3>1. UNCHANGED <<order, approvals, overlapped>>
      BY <2>7 DEF CountSiblings, rows, history
    <3> DEFINE r == call[k]
    <3>2. r \in Updating
      BY <1>1, <2>7, InFlight DEF CountSiblings
    <3>3. call'[k] \in {Idle, [r EXCEPT !.pc = "counted"]}
          /\ \A j \in Calls \ {k} : call'[j] = call[j]
      BY <1>1, <2>7 DEF CountSiblings, TypeOK
    <3> HIDE DEF r
    <3>4. [r EXCEPT !.pc = "counted"].pc = "counted"
      BY <3>2, CountedCall
    <3>5. call'[k].pc # "recording"
      <4> DEFINE counted == [r EXCEPT !.pc = "counted"]
      <4>1. counted.pc = "counted" /\ Idle.pc = "idle"
        BY <3>4 DEF Idle
      <4>2. call'[k] = Idle \/ call'[k] = counted
        BY <3>3
      <4> HIDE DEF counted
      <4> QED
        BY <4>1, <4>2
    <3> QED
      BY <1>2, <3>1, <3>3, <3>5
  <2>8. CASE WriteContract(k) \/ SoftDeleteContract(k)
    <3>1. UNCHANGED <<order, approvals, overlapped>> /\ Answer(k)
      BY <2>8 DEF WriteContract, SoftDeleteContract, history
    <3> QED
      BY <1>1, <1>2, <3>1, Answered DEF Idle
  <2> QED
    BY <1>6, <2>1, <2>2, <2>3, <2>4, <2>5, <2>6, <2>7, <2>8 DEF CallStep
<1> QED
  BY <1>3, <1>4, <1>5, <1>6 DEF Next

\* No approval is lost from a history that no two approvals raced for.
THEOREM HistoryKept == Spec => []HistoryComplete
<1>1. Spec => []HInv
  BY HistoryInit, HistoryStep, PTL DEF Spec
<1> QED
  BY <1>1, PTL DEF HInv
=============================================================================

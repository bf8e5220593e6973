--------------------------- MODULE OrderContract ---------------------------
(***************************************************************************)
(* Orders and the contract they hang from: OrderApplicationService with    *)
(* its repository, and the calls of ContractApplicationService that change *)
(* the contract's customer.  Both rows carry a customer id and no          *)
(* constraint of the database ties them together.                          *)
(*                                                                         *)
(* A call is an async handler: it reads and checks, awaits, and writes     *)
(* what it decided, so other calls run between its steps.  The one         *)
(* transaction of the component is OrderRepository.update with `sync`: it  *)
(* counts sibling orders, then updates the contract and the order.  It     *)
(* runs READ COMMITTED, so the count is a step of its own; the two updates *)
(* and the commit are one step, because the row lock of the contract keeps *)
(* every other writer of it waiting and readers see the old rows until the *)
(* commit.                                                                 *)
(*                                                                         *)
(* A field that is absent from a PATCH behaves as one that repeats the     *)
(* value just read: neither is written.  So a PATCH always names both the  *)
(* customer and the assignee here, and the call remembers which of them it *)
(* found changing.                                                         *)
(***************************************************************************)
EXTENDS Naturals, Sequences, FiniteSets

CONSTANTS
  Contracts, Customers, Orders, Users, Calls,
  Owner,          \* customers.owner_id
  Assigners,      \* users that hold order.assign: OrderPolicy gives them ALL
  ContractAdmins, \* users that hold contract.delete: ContractPolicy, ALL
  CustomerAdmins, \* users that CustomerPolicy gives ALL
  MaxApprovals    \* bound: no approval starts after this many

ASSUME ConstantsAssumption ==
  /\ Owner \in [Customers -> Users]
  /\ Assigners \subseteq Users
  /\ MaxApprovals \in Nat

VARIABLES
  contract,      \* contracts.customer_id
  order,         \* rows of orders
  liveContracts, \* contracts without deleted_at
  liveCustomers, \* customers without deleted_at
  call,          \* requests between arrival and answer
  disputed,      \* history: somebody gave the contract a second customer
  approvals,     \* history: approvals answered with success, per order
  overlapped     \* history: two approvals of the order ran at once

rows    == <<contract, order, liveContracts, liveCustomers>>
history == <<disputed, approvals, overlapped>>
vars    == <<contract, order, liveContracts, liveCustomers, call, disputed,
             approvals, overlapped>>

-----------------------------------------------------------------------------
(* Types *)

YesNo   == {"yes", "no"}
NoOrder == [state |-> "none"]
Order   == [state : {"placed"}, contract : Contracts, customer : Customers,
            assignee : Users, approvalHistory : Seq(Users)]

Idle     == [pc |-> "idle"]
Creating == [pc : {"creating"}, contract : Contracts, customer : Customers,
             assignee : Users]
Updating == [pc : {"updating", "counted"}, user : Users, order : Orders,
             customer : Customers, moves : YesNo,
             assignee : Users, reassigns : YesNo]
Assigning == [pc : {"assigning"}, user : Users, order : Orders, assignee : Users]
Approving == [pc : {"approving", "recording"}, user : Users, order : Orders,
              approvalHistory : Seq(Users)]
Editing   == [pc : {"editing"}, contract : Contracts, customer : Customers]
Deleting  == [pc : {"deleting"}, contract : Contracts]

Call == {Idle} \cup Creating \cup Updating \cup Assigning \cup Approving
          \cup Editing \cup Deleting

TypeOK ==
  /\ contract \in [Contracts -> Customers]
  /\ order \in [Orders -> Order \cup {NoOrder}]
  /\ liveContracts \subseteq Contracts
  /\ liveCustomers \subseteq Customers
  /\ call \in [Calls -> Call]
  /\ disputed \in [Contracts -> YesNo]
  /\ approvals \in [Orders -> Nat]
  /\ overlapped \in [Orders -> YesNo]

Init ==
  /\ contract \in [Contracts -> Customers]
  /\ order = [o \in Orders |-> NoOrder]
  /\ liveContracts = Contracts
  /\ liveCustomers = Customers
  /\ call = [k \in Calls |-> Idle]
  /\ disputed = [c \in Contracts |-> "no"]
  /\ approvals = [o \in Orders |-> 0]
  /\ overlapped = [o \in Orders |-> "no"]

-----------------------------------------------------------------------------
(* Policies and queries *)

Placed(o) == order[o].state = "placed"

\* OrderPolicy: ALL with order.assign, else OWN by assignee.
OrderInScope(u, o) == u \in Assigners \/ order[o].assignee = u

\* ContractPolicy: ALL with contract.delete, else OWN by the customer's owner.
ContractInScope(u, c) == u \in ContractAdmins \/ Owner[contract[c]] = u

\* CustomerPolicy, for a customer that is not deleted.
CustomerVisible(u, x) ==
  x \in liveCustomers /\ (u \in CustomerAdmins \/ Owner[x] = u)

\* Orders of the contract of o, other than o, that name another customer than x.
Siblings(o, x) ==
  {s \in Orders \ {o} : /\ Placed(s)
                        /\ order[s].contract = order[o].contract
                        /\ order[s].customer # x}

\* Does the transaction throw ContractCustomerConflictError?  And a bug: one
\* sibling too many is needed.
ConflictsOffByOne(o, x) == Cardinality(Siblings(o, x)) > 1
Conflicts(o, x) == Siblings(o, x) # {}

Free(k)   == call[k] = Idle
Answer(k) == call' = [call EXCEPT ![k] = Idle]

-----------------------------------------------------------------------------
(* POST /orders *)

\* assertRefs: contract and customer exist; that they match is not asked.
CreateOrder(k) ==
  /\ Free(k)
  /\ \E c \in liveContracts, x \in liveCustomers, a \in Users :
       call' = [call EXCEPT ![k] = [pc |-> "creating", contract |-> c,
                                    customer |-> x, assignee |-> a]]
  /\ UNCHANGED <<rows, history>>

\* Some PATCH is between its count of siblings and its commit.
CountedOn(c) ==
  \E k \in Calls : call[k].pc = "counted" /\ order[call[k].order].contract = c

InsertOrder(k) ==
  /\ call[k].pc = "creating"
  /\ \E o \in Orders :
       /\ order[o] = NoOrder
       /\ order' = [order EXCEPT ![o] =
            [state |-> "placed", contract |-> call[k].contract,
             customer |-> call[k].customer, assignee |-> call[k].assignee,
             approvalHistory |-> <<>>]]
  /\ disputed' = IF \/ call[k].customer # contract[call[k].contract]
                    \/ CountedOn(call[k].contract)
                 THEN [disputed EXCEPT ![call[k].contract] = "yes"]
                 ELSE disputed
  /\ Answer(k)
  /\ UNCHANGED <<contract, liveContracts, liveCustomers, approvals, overlapped>>

-----------------------------------------------------------------------------
(* PATCH /orders/:id *)

\* Does the PATCH carry another value than the row just read?
Changing(new, old) == IF new # old THEN "yes" ELSE "no"

\* requireScoped and the checks of update, against the row read first.
UpdateOrder(k) ==
  /\ Free(k)
  /\ \E u \in Users, o \in Orders, x \in Customers, a \in Users :
       /\ Placed(o) /\ OrderInScope(u, o)
       /\ x # order[o].customer => CustomerVisible(u, x)
       /\ a # order[o].assignee => u \in Assigners
       /\ call' = [call EXCEPT ![k] =
            [pc |-> "updating", user |-> u, order |-> o,
             customer |-> x, moves |-> Changing(x, order[o].customer),
             assignee |-> a, reassigns |-> Changing(a, order[o].assignee)]]
  /\ UNCHANGED <<rows, history>>

\* The columns the PATCH writes; and two bugs: the whole form is saved, or
\* one column lands in the other.
SavedWhole(r, row) == [row EXCEPT !.customer = r.customer, !.assignee = r.assignee]
SavedSwapped(r, row) == [row EXCEPT !.customer = r.assignee]
Saved(r, row) ==
  [row EXCEPT !.customer = IF r.moves = "yes" THEN r.customer ELSE @,
              !.assignee = IF r.reassigns = "yes" THEN r.assignee ELSE @]

\* The customer stays: one UPDATE, no transaction.
WriteOrder(k) ==
  /\ call[k].pc = "updating" /\ call[k].moves = "no"
  /\ order' = [order EXCEPT ![call[k].order] = Saved(call[k], @)]
  /\ Answer(k)
  /\ UNCHANGED <<contract, liveContracts, liveCustomers, history>>

\* The customer changes: the transaction counts, and may answer 409.
CountSiblings(k) ==
  /\ call[k].pc = "updating" /\ call[k].moves = "yes"
  /\ call' = [call EXCEPT ![k] =
       IF Conflicts(call[k].order, call[k].customer) THEN Idle
       ELSE [@ EXCEPT !.pc = "counted"]]
  /\ UNCHANGED <<rows, history>>

\* contracts and orders are updated and committed together.
CommitSync(k) ==
  /\ call[k].pc = "counted"
  /\ LET o == call[k].order IN
     /\ contract' = [contract EXCEPT ![order[o].contract] = call[k].customer]
     /\ order' = [order EXCEPT ![o] = Saved(call[k], @)]
  /\ Answer(k)
  /\ UNCHANGED <<liveContracts, liveCustomers, history>>

-----------------------------------------------------------------------------
(* POST /orders/:id/assign, behind @RequirePermission('order.assign') *)

AssignOrder(k) ==
  /\ Free(k)
  /\ \E u \in Assigners, o \in Orders, a \in Users :
       /\ Placed(o) /\ OrderInScope(u, o)
       /\ call' = [call EXCEPT ![k] =
            [pc |-> "assigning", user |-> u, order |-> o, assignee |-> a]]
  /\ UNCHANGED <<rows, history>>

WriteAssignee(k) ==
  /\ call[k].pc = "assigning"
  /\ order' = [order EXCEPT ![call[k].order].assignee = call[k].assignee]
  /\ Answer(k)
  /\ UNCHANGED <<contract, liveContracts, liveCustomers, history>>

-----------------------------------------------------------------------------
(* POST /orders/:id/approve *)

ApproveOrder(k) ==
  /\ Free(k)
  /\ \E u \in Users, o \in Orders :
       /\ Placed(o) /\ OrderInScope(u, o)
       /\ approvals[o] < MaxApprovals
       /\ call' = [call EXCEPT ![k] =
            [pc |-> "approving", user |-> u, order |-> o, approvalHistory |-> <<>>]]
  /\ UNCHANGED <<rows, history>>

\* The second findById: the history column is copied out of the row.
ReadHistory(k) ==
  /\ call[k].pc = "approving"
  /\ call' = [call EXCEPT ![k] =
       [@ EXCEPT !.pc = "recording",
                 !.approvalHistory = order[call[k].order].approvalHistory]]
  /\ UNCHANGED <<rows, history>>

\* history.push; and a bug: a new history is started.
StartedAnew(entries, u) == <<u>>
Pushed(entries, u) == Append(entries, u)

\* The whole column is written back.
RecordApproval(k) ==
  /\ call[k].pc = "recording"
  /\ LET o == call[k].order IN
     /\ order' = [order EXCEPT ![o].approvalHistory =
                    Pushed(call[k].approvalHistory, call[k].user)]
     /\ approvals' = [approvals EXCEPT ![o] = @ + 1]
     /\ overlapped' = IF \E j \in Calls \ {k} : call[j].pc = "recording" /\ call[j].order = o
                      THEN [overlapped EXCEPT ![o] = "yes"] ELSE overlapped
  /\ Answer(k)
  /\ UNCHANGED <<contract, liveContracts, liveCustomers, disputed>>

-----------------------------------------------------------------------------
(* PATCH and DELETE /contracts/:id *)

EditContract(k) ==
  /\ Free(k)
  /\ \E u \in Users, c \in liveContracts, x \in liveCustomers :
       /\ ContractInScope(u, c)
       /\ call' = [call EXCEPT ![k] = [pc |-> "editing", contract |-> c, customer |-> x]]
  /\ UNCHANGED <<rows, history>>

\* The contract takes the customer of the PATCH; its orders are not asked.
WriteContract(k) ==
  /\ call[k].pc = "editing"
  /\ LET c == call[k].contract IN
     /\ contract' = [contract EXCEPT ![c] = call[k].customer]
     /\ disputed' = IF \E o \in Orders : /\ Placed(o) /\ order[o].contract = c
                                         /\ order[o].customer # call[k].customer
                    THEN [disputed EXCEPT ![c] = "yes"] ELSE disputed
  /\ Answer(k)
  /\ UNCHANGED <<order, liveContracts, liveCustomers, approvals, overlapped>>

\* DELETE is behind @RequirePermission('contract.delete').
DeleteContract(k) ==
  /\ Free(k)
  /\ \E u \in ContractAdmins, c \in liveContracts :
       /\ ContractInScope(u, c)
       /\ call' = [call EXCEPT ![k] = [pc |-> "deleting", contract |-> c]]
  /\ UNCHANGED <<rows, history>>

SoftDeleteContract(k) ==
  /\ call[k].pc = "deleting"
  /\ liveContracts' = liveContracts \ {call[k].contract}
  /\ Answer(k)
  /\ UNCHANGED <<contract, order, liveCustomers, history>>

-----------------------------------------------------------------------------
(* The environment *)

\* CustomerApplicationService.softDelete of another request.
SoftDeleteCustomer ==
  /\ \E x \in liveCustomers : liveCustomers' = liveCustomers \ {x}
  /\ UNCHANGED <<contract, order, liveContracts, call, history>>

\* The process dies: calls are gone, open transactions roll back.
Restart ==
  /\ call' = [k \in Calls |-> Idle]
  /\ UNCHANGED <<rows, history>>

CallStep(k) ==
  \/ CreateOrder(k) \/ InsertOrder(k)
  \/ UpdateOrder(k) \/ WriteOrder(k) \/ CountSiblings(k) \/ CommitSync(k)
  \/ AssignOrder(k) \/ WriteAssignee(k)
  \/ ApproveOrder(k) \/ ReadHistory(k) \/ RecordApproval(k)
  \/ EditContract(k) \/ WriteContract(k)
  \/ DeleteContract(k) \/ SoftDeleteContract(k)

Next == (\E k \in Calls : CallStep(k)) \/ SoftDeleteCustomer \/ Restart

Spec == Init /\ [][Next]_vars

-----------------------------------------------------------------------------
(* Properties *)

\* OrderRepository.update keeps an order and its contract on one customer
\* whatever runs at the same time.  They come apart only if somebody creates an
\* order for another customer, edits the contract away from its orders, or
\* creates an order while a PATCH is between its count and its commit: the
\* count of siblings is what protects the contract's other orders.
OrdersFollowTheirContract ==
  \A o \in Orders :
    (Placed(o) /\ disputed[order[o].contract] = "no")
      => order[o].customer = contract[order[o].contract]

\* An order that gets another customer takes its contract along in the same
\* step, even when the PATCH was decided on a row that has changed since.
CustomerMovesWithContract ==
  \A o \in Orders :
    (Placed(o) /\ order'[o].customer # order[o].customer)
      => contract'[order[o].contract] = order'[o].customer

CustomerMovesTogether == [][CustomerMovesWithContract]_vars

\* The assignee of an order changes only by a call of a user with order.assign:
\* a user with OWN scope that saves a form it read before a reassignment does
\* not undo it, because update leaves unchanged fields out.
ReassignedByAssigner ==
  \A o \in Orders :
    (Placed(o) /\ order'[o].assignee # order[o].assignee)
      => \E k \in Calls : /\ call[k].pc \in {"updating", "counted", "assigning"}
                          /\ call[k].order = o
                          /\ call'[k] = Idle
                          /\ call[k].user \in Assigners

AssigneeNeedsPermission == [][ReassignedByAssigner]_vars

\* Every approval that was answered with success is in the order's history, if
\* no other approval of the order was between its read and its write.
HistoryComplete ==
  \A o \in Orders :
    (Placed(o) /\ overlapped[o] = "no")
      => Len(order[o].approvalHistory) = approvals[o]

\* docs/04-development/api/orders.md:121: "If that contract has other orders
\* whose customer differs from the new id -> 409 code CONTRACT_CUSTOMER_CONFLICT
\* and nothing is written."
MovedWithoutConflict ==
  \A o \in Orders :
    (Placed(o) /\ order'[o].customer # order[o].customer)
      => \A s \in Orders \ {o} :
           (Placed(s) /\ order[s].contract = order[o].contract)
             => order[s].customer = order'[o].customer

ConflictWritesNothing == [][MovedWithoutConflict]_vars

-----------------------------------------------------------------------------
(* Inductive invariants *)

\* Calls work on orders that exist, and move them only with order.assign for
\* the assignee.
CallsAreChecked ==
  \A k \in Calls :
    /\ call[k].pc \in {"updating", "counted", "assigning", "approving", "recording"}
         => Placed(call[k].order)
    /\ call[k].pc = "counted" => call[k].moves = "yes"
    /\ (call[k].pc \in {"updating", "counted"} /\ call[k].reassigns = "yes")
         => call[k].user \in Assigners
    /\ call[k].pc = "assigning" => call[k].user \in Assigners

\* While nobody disputes the contract, what a PATCH counted is still true.
CountsStayTrue ==
  \A k \in Calls :
    (call[k].pc = "counted" /\ disputed[order[call[k].order].contract] = "no")
      => \A s \in Orders \ {call[k].order} :
           (Placed(s) /\ order[s].contract = order[call[k].order].contract)
             => order[s].customer = call[k].customer

AgreementInv == CallsAreChecked /\ CountsStayTrue /\ OrdersFollowTheirContract

\* A history read and not overtaken is the one in the row.
ReadsAreCurrent ==
  \A k \in Calls :
    (call[k].pc = "recording" /\ overlapped[call[k].order] = "no")
      => call[k].approvalHistory = order[call[k].order].approvalHistory

\* No approval precedes its order.
HistoriesStartEmpty == \A o \in Orders : ~Placed(o) => approvals[o] = 0

HistoryInv ==
  CallsAreChecked /\ ReadsAreCurrent /\ HistoriesStartEmpty /\ HistoryComplete
=============================================================================

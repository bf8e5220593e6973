------------------------------ MODULE Ownership ------------------------------
(***************************************************************************)
(* Who owns a customer or a lead (CustomerApplicationService,              *)
(* LeadApplicationService), and who is let at a contract because of it     *)
(* (ContractApplicationService): the data scope of the policies.           *)
(*                                                                         *)
(* update reads the record, checks scope and the right to reassign, and an *)
(* await later writes by id alone. Records are customers or leads,         *)
(* whichever kind is chosen at the start; leads have no contracts. An      *)
(* owner is a set of at most one user. Status and conversion of leads are  *)
(* in LeadConversion, status and deletion of contracts in ContractWork.    *)
(***************************************************************************)
CONSTANTS
  Calls, Users, Records, Contracts,
  Assigners,  \* users with customer.assign, or lead.assign
  Admins      \* users with contract.delete

VARIABLES
  kind,      \* "customer" or "lead"; constant
  record,    \* rows of customers, or of leads
  contract,  \* contract -> its customer, a set that is empty before it exists
  call

vars == <<kind, record, contract, call>>

Owners == {{}} \cup {{u} : u \in Users}
Record == [life : {"none", "live", "deleted"}, owner : Owners]

Idle == [pc |-> "idle"]
Call == {Idle}
  \cup [pc : {"patch"}, user : Users, record : Records, owner : Owners]
  \cup [pc : {"other"}, user : Users, record : Records]
  \cup [pc : {"new contract"}, user : Users, record : Records]
  \cup [pc : {"contract"}, user : Users, contract : Contracts]
  \cup [pc : {"move"}, user : Users, contract : Contracts, record : Records]

TypeOK ==
  /\ kind \in {"customer", "lead"}
  /\ record \in [Records -> Record]
  /\ contract \in [Contracts -> {{}} \cup {{r} : r \in Records}]
  /\ call \in [Calls -> Call]

Init ==
  /\ kind \in {"customer", "lead"}
  /\ record = [r \in Records |-> [life |-> "none", owner |-> {}]]
  /\ contract = [x \in Contracts |-> {}]
  /\ call = [k \in Calls |-> Idle]

Goto(k, c) == call' = [call EXCEPT ![k] = c]
Begin(k, c) == call[k] = Idle /\ Goto(k, c)
Live(r) == record[r].life = "live"

\* inScope of CustomerPolicy and LeadPolicy: ALL and TEAM, or OWN.
InScope(u, r) == u \in Assigners \/ u \in record[r].owner

\* inScope of ContractPolicy: by the contract's customer, deleted or not.
ContractInScope(u, x) == u \in Admins \/ \E r \in contract[x] : u \in record[r].owner

-----------------------------------------------------------------------------
(* POST, PATCH and DELETE of customers and leads *)

Create ==
  /\ \E r \in Records, u \in Users, o \in Users :
       /\ record[r].life = "none"
       /\ o # u => u \in Assigners
       /\ record' = [record EXCEPT ![r] = [life |-> "live", owner |-> {o}]]
  /\ UNCHANGED <<kind, contract, call>>

\* May u name o as the owner of r? A lead may be given up by anyone in scope;
\* a customer without an owner is an error of the database. And a bug: whoever
\* is in scope may name an owner.
NamesAnyone(u, o, r) == o = {} => kind = "lead"
MayName(u, o, r) ==
  /\ o = {} => kind = "lead"
  /\ o # {} /\ o # record[r].owner => u \in Assigners

\* A PATCH with ownerId, ...
ReadForPatch(k) ==
  /\ \E u \in Users, r \in Records, o \in Owners :
       /\ Live(r) /\ InScope(u, r) /\ MayName(u, o, r)
       /\ Begin(k, [pc |-> "patch", user |-> u, record |-> r, owner |-> o])
  /\ UNCHANGED <<kind, record, contract>>

\* ... which finds a deleted customer's row, but not a deleted lead's.
Patch(k) ==
  /\ call[k].pc = "patch"
  /\ LET r == call[k].record IN
     record' = IF kind = "lead" /\ ~Live(r) THEN record
               ELSE [record EXCEPT ![r].owner = call[k].owner]
  /\ Goto(k, Idle)
  /\ UNCHANGED <<kind, contract>>

\* A PATCH without ownerId, or a DELETE.
ReadForOther(k) ==
  /\ \E u \in Users, r \in Records :
       Live(r) /\ InScope(u, r) /\ Begin(k, [pc |-> "other", user |-> u, record |-> r])
  /\ UNCHANGED <<kind, record, contract>>

Other(k) ==
  /\ call[k].pc = "other"
  /\ \/ UNCHANGED record
     \/ record' = [record EXCEPT ![call[k].record].life = "deleted"]
  /\ Goto(k, Idle)
  /\ UNCHANGED <<kind, contract>>

-----------------------------------------------------------------------------
(* Contracts *)

\* POST /contracts: any user, for any customer
FindCustomer(k) ==
  /\ kind = "customer"
  /\ \E u \in Users, r \in Records :
       Live(r) /\ Begin(k, [pc |-> "new contract", user |-> u, record |-> r])
  /\ UNCHANGED <<kind, record, contract>>

CreateContract(k) ==
  /\ call[k].pc = "new contract"
  /\ \E x \in Contracts :
       contract[x] = {} /\ contract' = [contract EXCEPT ![x] = {call[k].record}]
  /\ Goto(k, Idle)
  /\ UNCHANGED <<kind, record>>

\* requireScoped
ReadContract(k) ==
  /\ \E u \in Users, x \in Contracts :
       /\ contract[x] # {} /\ ContractInScope(u, x)
       /\ Begin(k, [pc |-> "contract", user |-> u, contract |-> x])
  /\ UNCHANGED <<kind, record, contract>>

\* PATCH with customerId: the new customer is looked up, whoever owns it.
FindNewCustomer(k) ==
  /\ call[k].pc = "contract"
  /\ \E r \in Records :
       Live(r) /\ Goto(k, [pc |-> "move", user |-> call[k].user,
                           contract |-> call[k].contract, record |-> r])
  /\ UNCHANGED <<kind, record, contract>>

MoveContract(k) ==
  /\ call[k].pc = "move"
  /\ contract' = [contract EXCEPT ![call[k].contract] = {call[k].record}]
  /\ Goto(k, Idle)
  /\ UNCHANGED <<kind, record>>

\* Any other write to the contract, or an error.
AnswerContract(k) ==
  /\ call[k].pc \in {"new contract", "contract", "move"}
  /\ Goto(k, Idle)
  /\ UNCHANGED <<kind, record, contract>>

Restart ==
  /\ call' = [k \in Calls |-> Idle]
  /\ UNCHANGED <<kind, record, contract>>

Next ==
  \/ \E k \in Calls : \/ ReadForPatch(k) \/ Patch(k) \/ ReadForOther(k) \/ Other(k)
                      \/ FindCustomer(k) \/ CreateContract(k) \/ ReadContract(k)
                      \/ FindNewCustomer(k) \/ MoveContract(k) \/ AnswerContract(k)
  \/ Create \/ Restart

Spec == Init /\ [][Next]_vars

-----------------------------------------------------------------------------
(* Properties *)

AtRecord(u, r) ==
  {k \in Calls : call[k].pc \in {"patch", "other"} /\ call[k].user = u /\ call[k].record = r}
AtContract(u, x) ==
  {k \in Calls : call[k].pc \in {"contract", "move"} /\ call[k].user = u /\ call[k].contract = x}

\* u is out, and what it had begun before is answered.
Lost(u, r) ==
  /\ record[r].life # "none" /\ ~InScope(u, r) /\ AtRecord(u, r) = {}
LostContract(u, x) ==
  /\ contract[x] # {} /\ ~ContractInScope(u, x) /\ AtContract(u, x) = {}

\* The call that gives r to u at this step, by somebody who may reassign.
Assigned(u, r) ==
  \E k \in Calls : /\ call[k].pc = "patch" /\ call[k].record = r /\ call[k].user \in Assigners
                   /\ record'[r].owner = call[k].owner /\ u \in call[k].owner

\* A user whose customer or lead was reassigned gets it back from an assigner
\* only, however its own patches overlapped the reassignment, and until then
\* begins nothing on it, nor on its contracts unless they move elsewhere. And a
\* customer never is without an owner.
LostStaysLost ==
  /\ \A u \in Users, r \in Records : Lost(u, r) => Lost(u, r)' \/ Assigned(u, r)
  /\ \A u \in Users, x \in Contracts : LostContract(u, x) =>
       \/ LostContract(u, x)'
       \/ contract'[x] # contract[x]
       \/ \E r \in contract[x] : u \in record'[r].owner /\ u \notin record[r].owner
  /\ \A r \in Records : kind = "customer" /\ record[r].owner # {} => record'[r].owner # {}
=============================================================================

-------------------------- MODULE ContractRequest --------------------------
(***************************************************************************)
(* Collaborators and their contract requests                               *)
(* (CollaboratorApplicationService, ContractRequestApplicationService).    *)
(*                                                                         *)
(* update looks at the status when it reads the request and writes by id   *)
(* an await later; review, approve and reject look only at who asks. The   *)
(* status of a collaborator decides nothing here.                          *)
(***************************************************************************)
CONSTANTS
  Calls, Requests,
  Users,      \* a collaborator is a user with a row in collaborators
  Contracts,  \* that may be named by an approval
  Contents    \* what a request says: title, description, customer, lead

VARIABLES
  collaborator,  \* user -> status of the row
  request,       \* rows of contract_requests
  live,          \* contracts that are not deleted
  call

vars == <<collaborator, request, live, call>>

NoRequest  == [status |-> "none"]
NoContract == {}
Idle     == [pc |-> "idle"]
Statuses == {"SUBMITTED", "IN_REVIEW", "APPROVED", "REJECTED"}
Editable == {"DRAFT", "NEEDS_INFO", "SUBMITTED"}

\* approvedContractId is a set of at most one contract.
Row == [status : Statuses, collaborator : Users, content : Contents,
        reviewer : SUBSET Users, approved : SUBSET Contracts]
Call == {Idle}
  \cup [pc : {"update"}, request : Requests, seen : Statuses]
  \cup [pc : {"review", "approve", "reject"}, request : Requests, user : Users]
  \cup [pc : {"approve with"}, request : Requests, user : Users, contract : Contracts]

TypeOK ==
  /\ collaborator \in [Users -> {"none", "ACTIVE", "INACTIVE"}]
  /\ request \in [Requests -> Row \cup {NoRequest}]
  /\ live \subseteq Contracts
  /\ call \in [Calls -> Call]

Init ==
  /\ collaborator = [u \in Users |-> "none"]
  /\ request = [r \in Requests |-> NoRequest]
  /\ live = Contracts
  /\ call = [k \in Calls |-> Idle]

Goto(k, c)  == call' = [call EXCEPT ![k] = c]
Begin(k, c) == call[k] = Idle /\ Goto(k, c)

-----------------------------------------------------------------------------
(* Collaborators *)

\* The user exists; userId is unique in the table.
CreateCollaborator ==
  /\ \E u \in Users : /\ collaborator[u] = "none"
                      /\ collaborator' = [collaborator EXCEPT ![u] = "ACTIVE"]
  /\ UNCHANGED <<request, live, call>>

\* PATCH with a status, or deactivate: the row is there for good once it is.
UpdateCollaborator ==
  /\ \E u \in Users, s \in {"ACTIVE", "INACTIVE"} :
       /\ collaborator[u] # "none"
       /\ collaborator' = [collaborator EXCEPT ![u] = s]
  /\ UNCHANGED <<request, live, call>>

-----------------------------------------------------------------------------
(* Contract requests *)

\* Rows of collaborators are never deleted: check and insert are one step.
CreateRequest ==
  /\ \E r \in Requests, u \in Users, x \in Contents :
       /\ request[r] = NoRequest
       /\ collaborator[u] # "none"
       /\ request' = [request EXCEPT ![r] =
            [status |-> "SUBMITTED", collaborator |-> u, content |-> x,
             reviewer |-> {}, approved |-> NoContract]]
  /\ UNCHANGED <<collaborator, live, call>>

\* update reads the request; a decided one is refused. And a bug: any is taken.
AnyStatus(s) == TRUE
IsEditable(s) == s \in Editable

ReadForUpdate(k) ==
  /\ \E r \in Requests :
       /\ request[r] # NoRequest /\ IsEditable(request[r].status)
       /\ Begin(k, [pc |-> "update", request |-> r, seen |-> request[r].status])
  /\ UNCHANGED <<collaborator, request, live>>

Update(k) ==
  /\ call[k].pc = "update"
  /\ \E x \in Contents : request' = [request EXCEPT ![call[k].request].content = x]
  /\ Goto(k, Idle)
  /\ UNCHANGED <<collaborator, live>>

\* review, approve and reject read the request, whatever its status.
ReadForVerdict(k) ==
  /\ \E r \in Requests, u \in Users, v \in {"review", "approve", "reject"} :
       /\ request[r] # NoRequest /\ request[r].collaborator # u
       /\ Begin(k, [pc |-> v, request |-> r, user |-> u])
  /\ UNCHANGED <<collaborator, request, live>>

\* approve that names a contract finds it.
FindContract(k) ==
  /\ call[k].pc = "approve"
  /\ \E c \in live : Goto(k, [pc |-> "approve with", request |-> call[k].request,
                              user |-> call[k].user, contract |-> c])
  /\ UNCHANGED <<collaborator, request, live>>

Verdict(k, status, contract) ==
  /\ LET r == call[k].request IN
     request' = [request EXCEPT ![r] = [@ EXCEPT !.status = status, !.reviewer = {call[k].user},
                                                 !.approved = contract]]
  /\ Goto(k, Idle)
  /\ UNCHANGED <<collaborator, live>>

Kept(k) == request[call[k].request].approved

Review(k)  == call[k].pc = "review" /\ Verdict(k, "IN_REVIEW", Kept(k))
Reject(k)  == call[k].pc = "reject" /\ Verdict(k, "REJECTED", Kept(k))
Approve(k) ==
  \/ call[k].pc = "approve" /\ Verdict(k, "APPROVED", Kept(k))
  \/ call[k].pc = "approve with" /\ Verdict(k, "APPROVED", {call[k].contract})

\* DELETE /contracts/:id
DeleteContract ==
  /\ \E c \in live : live' = live \ {c}
  /\ UNCHANGED <<collaborator, request, call>>

Restart ==
  /\ call' = [k \in Calls |-> Idle]
  /\ UNCHANGED <<collaborator, request, live>>

Next ==
  \/ \E k \in Calls : \/ ReadForUpdate(k) \/ Update(k) \/ ReadForVerdict(k) \/ FindContract(k)
                      \/ Review(k) \/ Approve(k) \/ Reject(k)
  \/ CreateCollaborator \/ UpdateCollaborator \/ CreateRequest \/ DeleteContract \/ Restart

Spec == Init /\ [][Next]_vars

-----------------------------------------------------------------------------
(* Properties *)

\* Updates at work that found r editable.
Updating(r) ==
  \E k \in Calls : /\ call[k].pc = "update" /\ call[k].request = r
                  /\ call[k].seen \in Editable

\* Once a request is under review and the updates that had found it editable
\* are answered, its content is final: what is approved later is what the
\* reviewer has read. And no request is ever reviewed by its own collaborator.
Frozen ==
  \A r \in Requests : request[r] # NoRequest =>
    /\ request[r].status \notin Editable /\ ~Updating(r) =>
         /\ request'[r].content = request[r].content
         /\ request'[r].status \notin Editable
    /\ request'[r].collaborator \notin request'[r].reviewer
ReviewedRequestsAreFrozen == [][Frozen]_vars
=============================================================================

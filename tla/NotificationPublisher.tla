----------------------- MODULE NotificationPublisher -----------------------
(***************************************************************************)
(* NotificationPublisher.notify and the notifications table, with the      *)
(* recipient's POST /notifications/:id/read.                               *)
(*                                                                         *)
(* For each recipient in turn, notify looks for a row with the dedupe key, *)
(* and only if it finds none inserts one; between the two any other call   *)
(* may insert it.  Then the unique index of (recipient, dedupe key)        *)
(* refuses the row and the error P2002 is taken for success.  Any other    *)
(* error of the database ends the whole notify, is logged and swallowed.   *)
(*                                                                         *)
(* Whoever calls notify is open here; ExpenseReview is one caller.         *)
(***************************************************************************)
CONSTANTS
  Users, Keys, Titles, Calls,
  Ids  \* primary keys; as many rows can be inserted

VARIABLES
  inbox,      \* rows of notifications
  publishing, \* where each call is in notify
  completed,  \* history: notifies that returned without an error
  failed      \* history: keys that an error or a restart cut off, or kept from notify

vars == <<inbox, publishing, completed, failed>>

Row == [id : Ids, recipient : Users, key : Keys, title : Titles, read : {"yes", "no"}]

Quiet    == [pc |-> "quiet"]
Finding  == [pc : {"finding"}, recipients : SUBSET Users, key : Keys, title : Titles,
             all : SUBSET Users]
Creating == [pc : {"creating"}, recipients : SUBSET Users, key : Keys, title : Titles,
             all : SUBSET Users, recipient : Users]

TypeOK ==
  /\ inbox \subseteq Row
  /\ publishing \in [Calls -> {Quiet} \cup Finding \cup Creating]
  /\ completed \subseteq [recipients : SUBSET Users, key : Keys]
  /\ failed \subseteq Keys

Init ==
  /\ inbox = {}
  /\ publishing = [k \in Calls |-> Quiet]
  /\ completed = {}
  /\ failed = {}

Held(u, x) == \E n \in inbox : n.recipient = u /\ n.key = x

-----------------------------------------------------------------------------
(* notify *)

\* The list of recipients is made a set, and an empty one is nothing to do.
Notify(k, recipients, x, title) ==
  /\ publishing[k] = Quiet
  /\ recipients # {}
  /\ publishing' = [publishing EXCEPT ![k] =
       [pc |-> "finding", recipients |-> recipients, key |-> x, title |-> title,
        all |-> recipients]]
  /\ UNCHANGED <<inbox, completed, failed>>

\* Those left after recipient u; and a bug: the first row that exists ends notify.
NobodyLeft(recipients, u) == {}
Left(recipients, u) == recipients \ {u}

\* insertOrReturn has returned for u: the loop goes on, or notify returns.
Served(k, u) ==
  LET c == publishing[k]
      left == Left(c.recipients, u)
  IN IF left = {}
     THEN /\ publishing' = [publishing EXCEPT ![k] = Quiet]
          /\ completed' = completed \cup {[recipients |-> c.all, key |-> c.key]}
     ELSE /\ publishing' = [publishing EXCEPT ![k] =
               [pc |-> "finding", recipients |-> left, key |-> c.key, title |-> c.title,
                all |-> c.all]]
          /\ UNCHANGED completed

\* findByDedupe of the next recipient.
FindExisting(k) ==
  /\ publishing[k].pc = "finding"
  /\ \E u \in publishing[k].recipients :
       \/ /\ Held(u, publishing[k].key)
          /\ Served(k, u)
       \/ /\ ~Held(u, publishing[k].key)
          /\ LET c == publishing[k] IN
             publishing' = [publishing EXCEPT ![k] =
               [pc |-> "creating", recipients |-> c.recipients, key |-> c.key,
                title |-> c.title, all |-> c.all, recipient |-> u]]
          /\ UNCHANGED completed
  /\ UNCHANGED <<inbox, failed>>

\* Does the unique index refuse the row?  And a bug: there is no index.
NeverTaken(u, x) == FALSE
Taken(u, x) == \E n \in inbox : n.recipient = u /\ n.key = x

\* The row that is inserted.
NewRow(i, c) ==
  [id |-> i, recipient |-> c.recipient, key |-> c.key, title |-> c.title, read |-> "no"]

CreateRow(k) ==
  /\ publishing[k].pc = "creating"
  /\ LET c == publishing[k] IN
     /\ \/ /\ Taken(c.recipient, c.key)
           /\ UNCHANGED inbox
        \/ /\ ~Taken(c.recipient, c.key)
           /\ \E i \in Ids : /\ \A n \in inbox : n.id # i
                             /\ inbox' = inbox \cup {NewRow(i, c)}
     /\ Served(k, c.recipient)
  /\ UNCHANGED failed

\* Another error than P2002, in any of the queries.
DatabaseError(k) ==
  /\ publishing[k] # Quiet
  /\ publishing' = [publishing EXCEPT ![k] = Quiet]
  /\ failed' = failed \cup {publishing[k].key}
  /\ UNCHANGED <<inbox, completed>>

\* An error of the caller's before it came to call notify.
Unasked(x) ==
  /\ failed' = failed \cup {x}
  /\ UNCHANGED <<inbox, publishing, completed>>

-----------------------------------------------------------------------------
(* POST /notifications/:id/read by the recipient, and a restart *)

\* Rows are neither deleted nor given away, so findById, the check of the
\* recipient and the update are one step.
MarkRead ==
  /\ \E n \in inbox : inbox' = (inbox \ {n}) \cup {[n EXCEPT !.read = "yes"]}
  /\ UNCHANGED <<publishing, completed, failed>>

\* The calls are gone, with the keys of those that were still to call notify.
Restart(unasked) ==
  /\ publishing' = [k \in Calls |-> Quiet]
  /\ failed' = failed \cup unasked
                      \cup {publishing[k].key : k \in {j \in Calls : publishing[j] # Quiet}}
  /\ UNCHANGED <<inbox, completed>>

\* Steps that a call takes once notify has been called.
Proceed(k) == FindExisting(k) \/ CreateRow(k)

Next ==
  \/ \E k \in Calls : \/ \E rs \in SUBSET Users, x \in Keys, t \in Titles : Notify(k, rs, x, t)
                      \/ Proceed(k)
                      \/ DatabaseError(k)
  \/ \E x \in Keys : Unasked(x)
  \/ MarkRead
  \/ \E unasked \in SUBSET Keys : Restart(unasked)

Spec == Init /\ [][Next]_vars

-----------------------------------------------------------------------------
(* Properties *)

\* What a user finds for a key; were there two rows, one of them.
BoxOf(slot) ==
  LET found == {n \in inbox : n.recipient = slot[1] /\ n.key = slot[2]} IN
  IF found = {} THEN [title |-> "nothing"]
  ELSE LET n == CHOOSE n \in found : TRUE IN [title |-> n.title, read |-> n.read]

InboxSpec == INSTANCE Inbox WITH box <- [slot \in Users \X Keys |-> BoxOf(slot)]

\* The table is an inbox, whatever publishers race each other: no user ever
\* finds a second row for a key, a text replaced, or a row unread again.
IsAnInbox == InboxSpec!Spec

\* A notify that returned without an error left a row with every recipient,
\* those another call had served meanwhile included.
NobodySkipped == \A d \in completed : \A u \in d.recipients : Held(u, d.key)
=============================================================================

--------------------------- MODULE SetReplacement ---------------------------
(***************************************************************************)
(* The handlers that replace a whole set of rows: the roles of a user, the *)
(* groups of a role, the permissions of a group (IdentityAdminService) and *)
(* the lines of an order's payment schedule (OrderRepository).             *)
(*                                                                         *)
(* Each is one transaction, deleteMany and then an insert, that PostgreSQL *)
(* runs under READ COMMITTED: the DELETE looks at the rows committed when  *)
(* it starts, waits for the row locks of another DELETE, skips rows that   *)
(* this one has removed and never sees what it has inserted. A unique      *)
(* index (user and role, schedule and sortOrder) refuses a second row.     *)
(*                                                                         *)
(* The rows are those of one owner, whose kind is chosen at the start;     *)
(* Members are roles, groups, permissions or the sortOrders of lines.      *)
(***************************************************************************)
CONSTANTS Calls, Members

VARIABLES
  kind,     \* whose rows these are; constant
  parent,   \* is there a payment schedule? users, roles and groups exist
  rows,     \* the members with a committed row
  call,
  latest,   \* history: the set committed last
  beside    \* history: that set and those committed during its call

vars == <<kind, parent, rows, call, latest, beside>>

Kinds == {"user", "role", "group", "order"}
Idle  == [pc |-> "idle"]

\* sees: rows of the DELETE's snapshot that nobody has removed since; along:
\* history, what other calls have committed during this one.
Call == {Idle} \cup [pc : {"checked", "deleting", "inserting", "creating"}, set : SUBSET Members,
                     sees : SUBSET Members, along : SUBSET Members]

TypeOK ==
  /\ kind \in Kinds
  /\ parent \in {"there", "none"}
  /\ rows \subseteq Members /\ latest \subseteq Members /\ beside \subseteq Members
  /\ call \in [Calls -> Call]

Init ==
  /\ kind \in Kinds
  /\ parent = IF kind = "order" THEN "none" ELSE "there"
  /\ rows = {} /\ latest = {} /\ beside = {}
  /\ call = [k \in Calls |-> Idle]

Goto(k, c) == call' = [call EXCEPT ![k] = c]
Step(k, pc, sees) == Goto(k, [call[k] EXCEPT !.pc = pc, !.sees = sees])

-----------------------------------------------------------------------------
(* The handlers up to their transaction: owner and members exist *)

Start(k) ==
  /\ call[k] = Idle
  /\ \E s \in SUBSET Members : Goto(k, [pc |-> "checked", set |-> s, sees |-> {}, along |-> {}])
  /\ UNCHANGED <<kind, parent, rows, latest, beside>>

SetUserRoles(k)            == kind = "user" /\ Start(k)
SetRolePermissionGroups(k) == kind = "role" /\ Start(k)
SetGroupPermissions(k)     == kind = "group" /\ Start(k)
UpsertPaymentSchedule(k)   == kind = "order" /\ Start(k)

-----------------------------------------------------------------------------
(* The transaction *)

\* The schedule is looked for first; then the DELETE takes its snapshot.
BeginDelete(k) ==
  /\ call[k].pc = "checked"
  /\ IF parent = "none" THEN Step(k, "creating", {}) ELSE Step(k, "deleting", rows)
  /\ UNCHANGED <<kind, parent, rows, latest, beside>>

\* The rows it saw are locked once no other transaction holds one of them.
LockRows(k) ==
  /\ call[k].pc = "deleting"
  /\ \A j \in Calls : call[j].pc = "inserting" => call[j].sees \cap call[k].sees = {}
  /\ Step(k, "inserting", call[k].sees)
  /\ UNCHANGED <<kind, parent, rows, latest, beside>>

\* What is left of the table when set takes the place of the rows in doomed.
\* And a bug: members that have a row already are not inserted.
Skipped(doomed, set) == (rows \ doomed) \cup (set \ doomed)
Replaced(doomed, set) == (rows \ doomed) \cup set

\* A row that stays has the key of a new one: P2002, and all is rolled back.
Clashes(k) == (rows \ call[k].sees) \cap call[k].set # {}

\* The new rows of k commit: others no longer see what k removed.
Committed(k) ==
  [j \in Calls |->
     IF j = k \/ call[j] = Idle THEN Idle
     ELSE [call[j] EXCEPT !.sees = @ \ call[k].sees, !.along = @ \cup call[k].set]]

Settle(k) ==
  /\ latest' = call[k].set
  /\ beside' = call[k].along \cup call[k].set
  /\ call' = Committed(k)

Insert(k) ==
  /\ call[k].pc = "inserting"
  /\ IF Clashes(k)
     THEN Goto(k, Idle) /\ UNCHANGED <<rows, latest, beside>>
     ELSE rows' = Replaced(call[k].sees, call[k].set) /\ Settle(k)
  /\ UNCHANGED <<kind, parent>>

\* The first schedule of an order, unless another call was first: orderId is unique.
CreateSchedule(k) ==
  /\ call[k].pc = "creating"
  /\ IF parent = "there"
     THEN Goto(k, Idle) /\ UNCHANGED <<parent, rows, latest, beside>>
     ELSE parent' = "there" /\ rows' = call[k].set /\ Settle(k)
  /\ UNCHANGED kind

\* An error of the database, a deadlock it breaks or a restart: rolled back.
RollBack(k) ==
  /\ call[k] # Idle
  /\ Goto(k, Idle)
  /\ UNCHANGED <<kind, parent, rows, latest, beside>>

Next ==
  \E k \in Calls :
    \/ SetUserRoles(k) \/ SetRolePermissionGroups(k) \/ SetGroupPermissions(k)
    \/ UpsertPaymentSchedule(k)
    \/ BeginDelete(k) \/ LockRows(k) \/ Insert(k) \/ CreateSchedule(k) \/ RollBack(k)

Spec == Init /\ [][Next]_vars

-----------------------------------------------------------------------------
(* Properties *)

\* The set committed last is there as a whole, and nothing else than sets whose
\* calls overlapped it: a revoked role stays only if a call that ran beside the
\* revocation asked for it. It follows from IsARegister, and is proved by itself.
SetIsTheLatest == latest \subseteq rows /\ rows \subseteq beside

\* What the caller of k waits for.
Asked(c) == IF c = Idle THEN [is |-> "nothing"]
            ELSE [is |-> "asked", set |-> c.set, since |-> c.along]

Register == INSTANCE SetRegister WITH asked <- [k \in Calls |-> Asked(call[k])]

\* To its caller each handler replaces the set at once: a call that no other one
\* overlapped leaves what it asked for, and one that did leaves in addition at
\* most what the other put in place meanwhile.
IsARegister == Register!Spec
=============================================================================

-------------------- MODULE NotificationPublisher_proofs --------------------
(***************************************************************************)
(* Theorems about NotificationPublisher and their proofs.                  *)
(***************************************************************************)
EXTENDS NotificationPublisher, TLAPS

-----------------------------------------------------------------------------
(* The inductive invariant *)

\* The unique index on recipient and dedupe key.
OneRowEach ==
  \A n, m \in inbox : n.recipient = m.recipient /\ n.key = m.key => n = m

\* Whoever a notify has passed by has a row.
PassedAreHeld ==
  \A k \in Calls : publishing[k] # Quiet =>
    /\ publishing[k].pc = "creating" => publishing[k].recipient \in publishing[k].recipients
    /\ \A u \in publishing[k].all \ publishing[k].recipients : Held(u, publishing[k].key)

HeldNext(u, x) == \E n \in inbox' : n.recipient = u /\ n.key = x

IInv == TypeOK /\ OneRowEach /\ PassedAreHeld /\ NobodySkipped

LEMMA IInvInit == Init => IInv
BY DEF Init, IInv, TypeOK, OneRowEach, PassedAreHeld, NobodySkipped

LEMMA CallKinds ==
  ASSUME TypeOK, NEW k \in Calls
  PROVE  /\ publishing[k].pc = "finding" => publishing[k] \in Finding
         /\ publishing[k].pc = "creating" => publishing[k] \in Creating
         /\ publishing[k] # Quiet => publishing[k] \in Finding \cup Creating
         /\ Quiet.pc = "quiet"
BY DEF TypeOK, Quiet, Finding, Creating

LEMMA ReadRow ==
  ASSUME NEW n \in Row
  PROVE  [n EXCEPT !.read = "yes"] = [id |-> n.id, recipient |-> n.recipient, key |-> n.key,
                                      title |-> n.title, read |-> "yes"]
BY DEF Row

\* A recipient is served: it is passed by, or the notify returns.
LEMMA ServedKeeps ==
  ASSUME IInv, NEW k \in Calls, publishing[k] # Quiet,
         NEW u \in publishing[k].recipients, Served(k, u),
         inbox' \subseteq Row, OneRowEach', UNCHANGED failed,
         \A v \in Users, x \in Keys : Held(v, x) => HeldNext(v, x),
         HeldNext(u, publishing[k].key)
  PROVE  IInv'
<1> DEFINE c    == publishing[k]
           left == c.recipients \ {u}
           next == [pc |-> "finding", recipients |-> left, key |-> c.key, title |-> c.title,
                    all |-> c.all]
           done == [recipients |-> c.all, key |-> c.key]
<1>1. /\ c.recipients \in SUBSET Users /\ c.all \in SUBSET Users
      /\ c.key \in Keys /\ c.title \in Titles
  BY CallKinds DEF IInv, Finding, Creating
<1>2. \A v \in c.all \ left : HeldNext(v, c.key)
  BY <1>1 DEF IInv, PassedAreHeld
<1>3. CASE left = {}
  <2>1. /\ publishing' = [publishing EXCEPT ![k] = Quiet]
        /\ completed' = completed \cup {done}
    BY <1>3 DEF Served, Left
  <2>2. done \in [recipients : SUBSET Users, key : Keys]
    BY <1>1
  <2>3. \A v \in done.recipients : HeldNext(v, done.key)
    BY <1>2, <1>3
  <2> HIDE DEF done
  <2>4. TypeOK'
    BY <2>1, <2>2 DEF IInv, TypeOK
  <2>5. ASSUME NEW j \in Calls, publishing'[j] # Quiet
        PROVE  /\ publishing'[j] = publishing[j]
               /\ publishing[j].key \in Keys /\ publishing[j].all \in SUBSET Users
    <3>1. publishing'[j] = publishing[j]
      BY <2>1, <2>5 DEF IInv, TypeOK
    <3> QED
      BY <2>5, <3>1, CallKinds DEF IInv, Finding, Creating
  <2>6. PassedAreHeld'
    BY <2>5 DEF IInv, PassedAreHeld, Held, HeldNext
  <2>7. ASSUME NEW d \in completed', NEW v \in d.recipients
        PROVE  HeldNext(v, d.key)
    <3>1. CASE d \in completed
      BY <2>7, <3>1 DEF IInv, TypeOK, NobodySkipped
    <3>2. CASE d = done
      BY <2>3, <2>7, <3>2
    <3> QED
      BY <2>1, <3>1, <3>2
  <2> QED
    BY <2>4, <2>6, <2>7 DEF IInv, NobodySkipped, Held, HeldNext
<1>4. CASE left # {}
  <2>1. publishing' = [publishing EXCEPT ![k] = next] /\ UNCHANGED completed
    BY <1>4 DEF Served, Left
  <2>2. next \in Finding
    BY <1>1 DEF Finding
  <2>3. /\ next.pc = "finding" /\ next.key = c.key
        /\ next.all = c.all /\ next.recipients = left
    OBVIOUS
  <2> HIDE DEF next
  <2>4. TypeOK'
    BY <2>1, <2>2 DEF IInv, TypeOK
  <2>5. ASSUME NEW j \in Calls, publishing'[j] # Quiet
        PROVE  /\ publishing'[j].pc = "creating" =>
                    publishing'[j].recipient \in publishing'[j].recipients
               /\ \A v \in publishing'[j].all \ publishing'[j].recipients :
                    HeldNext(v, publishing'[j].key)
    <3>1. CASE j = k
      BY <1>2, <2>1, <2>3, <3>1 DEF IInv, TypeOK
    <3>2. CASE j # k
      <4>1. publishing'[j] = publishing[j]
        BY <2>1, <3>2 DEF IInv, TypeOK
      <4>2. publishing[j].key \in Keys /\ publishing[j].all \in SUBSET Users
        BY <2>5, <4>1, CallKinds DEF IInv, Finding, Creating
      <4> QED
        BY <2>5, <4>1, <4>2 DEF IInv, PassedAreHeld
    <3> QED
      BY <3>1, <3>2
  <2>6. ASSUME NEW d \in completed', NEW v \in d.recipients
        PROVE  HeldNext(v, d.key)
    BY <2>1, <2>6 DEF IInv, TypeOK, NobodySkipped
  <2> QED
    BY <2>4, <2>5, <2>6 DEF IInv, PassedAreHeld, NobodySkipped, Held, HeldNext
<1> QED
  BY <1>3, <1>4

\* A call goes to a state in which it has passed by nobody without a row.
LEMMA CallKeeps ==
  ASSUME IInv, NEW k \in Calls, NEW new \in {Quiet} \cup Finding \cup Creating,
         publishing' = [publishing EXCEPT ![k] = new],
         UNCHANGED <<inbox, completed>>, failed' \subseteq Keys,
         new # Quiet => /\ new.pc = "creating" => new.recipient \in new.recipients
                        /\ \A u \in new.all \ new.recipients : Held(u, new.key)
  PROVE  IInv'
<1>1. TypeOK'
  BY DEF IInv, TypeOK
<1>2. OneRowEach' /\ NobodySkipped'
  BY DEF IInv, OneRowEach, NobodySkipped, Held
<1>3. ASSUME NEW j \in Calls, publishing'[j] # Quiet
      PROVE  /\ publishing'[j].pc = "creating" =>
                  publishing'[j].recipient \in publishing'[j].recipients
             /\ \A u \in publishing'[j].all \ publishing'[j].recipients :
                  Held(u, publishing'[j].key)
  <2>1. CASE j = k
    BY <1>3, <2>1 DEF IInv, TypeOK
  <2>2. CASE j # k
    BY <1>3, <2>2 DEF IInv, TypeOK, PassedAreHeld
  <2> QED
    BY <2>1, <2>2
<1>4. PassedAreHeld'
  BY <1>3 DEF PassedAreHeld, Held
<1> QED
  BY <1>1, <1>2, <1>4 DEF IInv

LEMMA NotifyKeeps ==
  ASSUME IInv, NEW k \in Calls, NEW rs \in SUBSET Users, NEW x \in Keys, NEW t \in Titles,
         Notify(k, rs, x, t)
  PROVE  IInv'
<1> DEFINE new == [pc |-> "finding", recipients |-> rs, key |-> x, title |-> t, all |-> rs]
<1>1. new \in Finding /\ new.pc = "finding" /\ new.all \ new.recipients = {}
  BY DEF Finding
<1>2. publishing' = [publishing EXCEPT ![k] = new] /\ UNCHANGED <<inbox, completed, failed>>
  BY DEF Notify
<1> HIDE DEF new
<1>3. failed' \subseteq Keys
  BY <1>2 DEF IInv, TypeOK
<1> QED
  BY <1>1, <1>2, <1>3, CallKeeps

LEMMA FindKeeps ==
  ASSUME IInv, NEW k \in Calls, FindExisting(k)
  PROVE  IInv'
<1> DEFINE c == publishing[k]
<1>1. c \in Finding /\ c # Quiet
  BY CallKinds DEF IInv, FindExisting
<1>2. UNCHANGED <<inbox, failed>>
  BY DEF FindExisting
<1>3. PICK u \in c.recipients :
        \/ Held(u, c.key) /\ Served(k, u)
        \/ /\ publishing' = [publishing EXCEPT ![k] =
               [pc |-> "creating", recipients |-> c.recipients, key |-> c.key,
                title |-> c.title, all |-> c.all, recipient |-> u]]
           /\ UNCHANGED completed
  BY DEF FindExisting
<1>4. CASE Held(u, c.key) /\ Served(k, u)
  <2>1. inbox' \subseteq Row /\ OneRowEach'
    BY <1>2 DEF IInv, TypeOK, OneRowEach
  <2>2. \A v \in Users, x \in Keys : Held(v, x) => HeldNext(v, x)
    BY <1>2 DEF Held, HeldNext
  <2>3. HeldNext(u, c.key)
    BY <1>2, <1>4 DEF Held, HeldNext
  <2> QED
    BY <1>1, <1>2, <1>4, <2>1, <2>2, <2>3, ServedKeeps
<1>5. ASSUME publishing' = [publishing EXCEPT ![k] =
               [pc |-> "creating", recipients |-> c.recipients, key |-> c.key,
                title |-> c.title, all |-> c.all, recipient |-> u]],
             UNCHANGED completed
      PROVE  IInv'
  <2> DEFINE new == [pc |-> "creating", recipients |-> c.recipients, key |-> c.key,
                     title |-> c.title, all |-> c.all, recipient |-> u]
  <2>1. new \in Creating
    BY <1>1 DEF Finding, Creating
  <2>2. /\ new.recipient \in new.recipients
        /\ \A v \in new.all \ new.recipients : Held(v, new.key)
    BY <1>1 DEF IInv, PassedAreHeld
  <2>3. publishing' = [publishing EXCEPT ![k] = new]
    BY <1>5
  <2> HIDE DEF new
  <2>4. failed' \subseteq Keys
    BY <1>2 DEF IInv, TypeOK
  <2> QED
    BY <1>2, <1>5, <2>1, <2>2, <2>3, <2>4, CallKeeps
<1> QED
  BY <1>3, <1>4, <1>5

\* The row that a call inserts.
LEMMA CreatedRow ==
  ASSUME TypeOK, NEW k \in Calls, publishing[k].pc = "creating", NEW i \in Ids
  PROVE  LET new == NewRow(i, publishing[k])
         IN  /\ new \in Row
             /\ new.recipient = publishing[k].recipient
             /\ new.key = publishing[k].key
             /\ new.read = "no"
BY CallKinds DEF NewRow, Row, Creating

LEMMA CreateKeeps ==
  ASSUME IInv, NEW k \in Calls, CreateRow(k)
  PROVE  IInv'
<1> DEFINE c == publishing[k]
           u == c.recipient
<1>1. c \in Creating /\ c # Quiet /\ u \in c.recipients
  BY CallKinds DEF IInv, CreateRow, PassedAreHeld
<1>2. Served(k, u) /\ UNCHANGED failed
  BY DEF CreateRow
<1>3. CASE Taken(u, c.key) /\ UNCHANGED inbox
  <2>1. inbox' \subseteq Row /\ OneRowEach'
    BY <1>3 DEF IInv, TypeOK, OneRowEach
  <2>2. \A v \in Users, x \in Keys : Held(v, x) => HeldNext(v, x)
    BY <1>3 DEF Held, HeldNext
  <2>3. HeldNext(u, c.key)
    BY <1>3 DEF Taken, HeldNext
  <2> QED
    BY <1>1, <1>2, <2>1, <2>2, <2>3, ServedKeeps
<1>4. ASSUME NEW i \in Ids, ~Taken(u, c.key), inbox' = inbox \cup {NewRow(i, c)}
      PROVE  IInv'
  <2> DEFINE new == NewRow(i, c)
  <2>1. new \in Row /\ new.recipient = u /\ new.key = c.key
    BY CreatedRow DEF IInv, CreateRow
  <2>2. inbox' = inbox \cup {new}
    BY <1>4
  <2> HIDE DEF new
  <2>3. inbox' \subseteq Row
    BY <2>1, <2>2 DEF IInv, TypeOK
  <2>4. OneRowEach'
    BY <1>4, <2>1, <2>2 DEF IInv, OneRowEach, Taken
  <2>5. \A v \in Users, x \in Keys : Held(v, x) => HeldNext(v, x)
    BY <2>2 DEF Held, HeldNext
  <2>6. HeldNext(u, c.key)
    BY <2>1, <2>2 DEF HeldNext
  <2> QED
    BY <1>1, <1>2, <2>3, <2>4, <2>5, <2>6, ServedKeeps
<1> QED
  BY <1>3, <1>4 DEF CreateRow

LEMMA ErrorKeeps ==
  ASSUME IInv, NEW k \in Calls, DatabaseError(k)
  PROVE  IInv'
<1>1. publishing[k].key \in Keys
  BY CallKinds DEF IInv, DatabaseError, Finding, Creating
<1>2. failed' \subseteq Keys
  BY <1>1 DEF IInv, TypeOK, DatabaseError
<1> QED
  BY <1>2, CallKeeps DEF DatabaseError

\* The row that is read by its recipient stays where it is.
LEMMA ReadKeeps ==
  ASSUME IInv, NEW n \in inbox, inbox' = (inbox \ {n}) \cup {[n EXCEPT !.read = "yes"]},
         UNCHANGED <<publishing, completed, failed>>
  PROVE  IInv'
<1> DEFINE new == [n EXCEPT !.read = "yes"]
<1>1. n \in Row
  BY DEF IInv, TypeOK
<1>2. new \in Row /\ new.recipient = n.recipient /\ new.key = n.key
  BY <1>1, ReadRow DEF Row
<1>3. inbox' = (inbox \ {n}) \cup {new}
  OBVIOUS
<1> HIDE DEF new
<1>4. TypeOK'
  BY <1>2, <1>3 DEF IInv, TypeOK
<1>5. OneRowEach'
  BY <1>2, <1>3 DEF IInv, OneRowEach
<1>6. \A v, x : Held(v, x) => HeldNext(v, x)
  BY <1>2, <1>3 DEF Held, HeldNext
<1>7. PassedAreHeld'
  BY <1>6 DEF IInv, PassedAreHeld, Held, HeldNext
<1>8. NobodySkipped'
  BY <1>6 DEF IInv, NobodySkipped, Held, HeldNext
<1> QED
  BY <1>4, <1>5, <1>7, <1>8 DEF IInv

LEMMA UnaskedKeeps == ASSUME IInv, NEW x \in Keys, Unasked(x) PROVE IInv'
<1>1. TypeOK'
  BY DEF IInv, TypeOK, Unasked
<1> QED
  BY <1>1 DEF IInv, OneRowEach, PassedAreHeld, NobodySkipped, Held, Unasked

LEMMA RestartKeeps == ASSUME IInv, NEW unasked \in SUBSET Keys, Restart(unasked) PROVE IInv'
<1>1. \A k \in Calls : publishing[k] # Quiet => publishing[k].key \in Keys
  BY CallKinds DEF IInv, Finding, Creating
<1>2. TypeOK'
  BY <1>1 DEF IInv, TypeOK, Restart
<1> QED
  BY <1>2 DEF IInv, OneRowEach, PassedAreHeld, NobodySkipped, Held, Restart

LEMMA IInvStep == IInv /\ [Next]_vars => IInv'
<1> SUFFICES ASSUME IInv, [Next]_vars
             PROVE  IInv'
  OBVIOUS
<1>1. CASE \E k \in Calls : \E rs \in SUBSET Users, x \in Keys, t \in Titles : Notify(k, rs, x, t)
  BY <1>1, NotifyKeeps
<1>2. CASE \E k \in Calls : FindExisting(k)
  BY <1>2, FindKeeps
<1>3. CASE \E k \in Calls : CreateRow(k)
  BY <1>3, CreateKeeps
<1>4. CASE \E k \in Calls : DatabaseError(k)
  BY <1>4, ErrorKeeps
<1>5. CASE MarkRead
  BY <1>5, ReadKeeps DEF MarkRead
<1>6. CASE \E unasked \in SUBSET Keys : Restart(unasked)
  BY <1>6, RestartKeeps
<1>8. CASE \E x \in Keys : Unasked(x)
  BY <1>8, UnaskedKeeps
<1>7. CASE UNCHANGED vars
  BY <1>7 DEF IInv, TypeOK, OneRowEach, PassedAreHeld, NobodySkipped, Held, vars
<1> QED
  BY <1>1, <1>2, <1>3, <1>4, <1>5, <1>6, <1>7, <1>8 DEF Next, Proceed

LEMMA Invariance == Spec => []IInv
BY IInvInit, IInvStep, PTL DEF Spec

-----------------------------------------------------------------------------
(* Theorems *)

\* Type correctness, for every number of users, keys, texts, calls and ids.
THEOREM TypeCorrect == Spec => []TypeOK
<1>1. IInv => TypeOK
  BY DEF IInv
<1> QED
  BY <1>1, Invariance, PTL

\* A notify that returned without an error served every recipient, however
\* many publishers race it.
THEOREM EveryoneServed == Spec => []NobodySkipped
<1>1. IInv => NobodySkipped
  BY DEF IInv
<1> QED
  BY <1>1, Invariance, PTL

-----------------------------------------------------------------------------
(* The publisher implements the inbox *)

Slots == Users \X Keys
RowsOf(rows, slot) == {n \in rows : n.recipient = slot[1] /\ n.key = slot[2]}
Unique(rows) == \A n, m \in rows : n.recipient = m.recipient /\ n.key = m.key => n = m

\* What is found for a slot in a set of rows.
BoxIn(rows, slot) ==
  IF RowsOf(rows, slot) = {} THEN [title |-> "nothing"]
  ELSE LET n == CHOOSE n \in RowsOf(rows, slot) : TRUE IN [title |-> n.title, read |-> n.read]

Box     == [slot \in Slots |-> BoxIn(inbox, slot)]
BoxNext == [slot \in Slots |-> BoxIn(inbox', slot)]

LEMMA BoxOfRow ==
  ASSUME NEW rows, Unique(rows), NEW n \in rows, NEW slot,
         n.recipient = slot[1], n.key = slot[2]
  PROVE  BoxIn(rows, slot) = [title |-> n.title, read |-> n.read]
<1>1. RowsOf(rows, slot) = {n}
  BY DEF RowsOf, Unique
<1> QED
  BY <1>1 DEF BoxIn

LEMMA BoxOfRows ==
  ASSUME NEW rows, NEW others, NEW slot, RowsOf(rows, slot) = RowsOf(others, slot)
  PROVE  BoxIn(rows, slot) = BoxIn(others, slot)
BY DEF BoxIn

\* A message is not nothing: it can be read.
LEMMA Something ==
  ASSUME NEW t, NEW r
  PROVE  [title |-> t, read |-> r] # [title |-> "nothing"]
<1>1. "read" \in DOMAIN [title |-> t, read |-> r]
  OBVIOUS
<1>2. "read" \notin DOMAIN [title |-> "nothing"]
  OBVIOUS
<1> QED
  BY <1>1, <1>2

\* A row is inserted: its message is delivered.
LEMMA CreateDelivers ==
  ASSUME IInv, NEW new \in Row, ~Taken(new.recipient, new.key), new.read = "no",
         inbox' = inbox \cup {new}, OneRowEach'
  PROVE  \E slot \in Slots, t \in Titles :
           /\ Box[slot] = [title |-> "nothing"]
           /\ BoxNext = [Box EXCEPT ![slot] = [title |-> t, read |-> "no"]]
<1> DEFINE mine == <<new.recipient, new.key>>
<1>1. mine \in Slots /\ new.title \in Titles /\ mine[1] = new.recipient /\ mine[2] = new.key
  BY DEF Row, Slots
<1> HIDE DEF mine
<1>2. Box[mine] = [title |-> "nothing"]
  BY <1>1 DEF Box, BoxIn, RowsOf, Taken
<1>3. BoxIn(inbox', mine) = [title |-> new.title, read |-> "no"]
  BY <1>1, BoxOfRow DEF OneRowEach, Unique
<1>4. ASSUME NEW slot \in Slots, slot # mine
      PROVE  BoxIn(inbox', slot) = BoxIn(inbox, slot)
  <2>1. ~(new.recipient = slot[1] /\ new.key = slot[2])
    BY <1>1, <1>4 DEF Slots, mine
  <2>2. RowsOf(inbox', slot) = RowsOf(inbox, slot)
    BY <2>1 DEF RowsOf
  <2> QED
    BY <2>2, BoxOfRows
<1>5. BoxNext = [Box EXCEPT ![mine] = [title |-> new.title, read |-> "no"]]
  BY <1>1, <1>3, <1>4 DEF Box, BoxNext
<1> QED
  BY <1>1, <1>2, <1>5

\* A row is marked read: so is its message.
LEMMA MarkReads ==
  ASSUME IInv, OneRowEach', NEW n \in inbox,
         inbox' = (inbox \ {n}) \cup {[n EXCEPT !.read = "yes"]}
  PROVE  \E slot \in Slots : /\ Box[slot] # [title |-> "nothing"]
                             /\ BoxNext = [Box EXCEPT ![slot].read = "yes"]
<1> DEFINE mine == <<n.recipient, n.key>>
           new  == [n EXCEPT !.read = "yes"]
<1>1. n \in Row
  BY DEF IInv, TypeOK
<1>2. /\ new.recipient = n.recipient /\ new.key = n.key
      /\ new.title = n.title /\ new.read = "yes"
  BY <1>1, ReadRow
<1>3. inbox' = (inbox \ {n}) \cup {new}
  OBVIOUS
<1> HIDE DEF new
<1>4. mine \in Slots /\ mine[1] = n.recipient /\ mine[2] = n.key
  BY <1>1 DEF Row, Slots
<1> HIDE DEF mine
<1>5. Box[mine] = [title |-> n.title, read |-> n.read]
  BY <1>4, BoxOfRow DEF IInv, OneRowEach, Unique, Box
<1>6. BoxIn(inbox', mine) = [title |-> n.title, read |-> "yes"]
  <2>1. Unique(inbox')
    BY DEF OneRowEach, Unique
  <2>2. new \in inbox'
    BY <1>3
  <2> QED
    BY <1>2, <1>4, <2>1, <2>2, BoxOfRow
<1>7. ASSUME NEW slot \in Slots, slot # mine
      PROVE  BoxIn(inbox', slot) = BoxIn(inbox, slot)
  <2>1. ~(n.recipient = slot[1] /\ n.key = slot[2])
    BY <1>4, <1>7 DEF Slots, mine
  <2>2. RowsOf(inbox', slot) = RowsOf(inbox, slot)
    BY <1>2, <1>3, <2>1 DEF RowsOf
  <2> QED
    BY <2>2, BoxOfRows
<1>8. [Box[mine] EXCEPT !.read = "yes"] = [title |-> n.title, read |-> "yes"]
  BY <1>5
<1>9. BoxNext = [Box EXCEPT ![mine] = [title |-> n.title, read |-> "yes"]]
  BY <1>4, <1>6, <1>7 DEF Box, BoxNext
<1>10. BoxNext = [Box EXCEPT ![mine].read = "yes"]
  BY <1>8, <1>9
<1> QED
  BY <1>4, <1>5, <1>10, Something

LEMMA BoxIsInbox ==
  /\ [slot \in Users \X Keys |-> BoxOf(slot)] = Box
  /\ [slot \in Users \X Keys |-> BoxOf(slot)]' = BoxNext
BY DEF Box, BoxNext, BoxOf, BoxIn, RowsOf, Slots

LEMMA InboxInit == Init => InboxSpec!Init
BY DEF Init, InboxSpec!Init, InboxSpec!Nothing, BoxOf

LEMMA InboxStep ==
  IInv /\ IInv' /\ [Next]_vars
    => InboxSpec!Next \/ UNCHANGED [slot \in Users \X Keys |-> BoxOf(slot)]
<1> SUFFICES ASSUME IInv, IInv', [Next]_vars
             PROVE  InboxSpec!Next \/ UNCHANGED [slot \in Users \X Keys |-> BoxOf(slot)]
  OBVIOUS
<1>1. CASE UNCHANGED inbox
  BY <1>1, BoxIsInbox DEF Box, BoxNext
<1>2. ASSUME NEW k \in Calls, CreateRow(k), inbox' # inbox
      PROVE  InboxSpec!Next
  <2>1. PICK i \in Ids : /\ ~Taken(publishing[k].recipient, publishing[k].key)
                         /\ inbox' = inbox \cup {NewRow(i, publishing[k])}
    BY <1>2 DEF CreateRow
  <2> DEFINE new == NewRow(i, publishing[k])
  <2>2. /\ new \in Row /\ new.recipient = publishing[k].recipient
        /\ new.key = publishing[k].key /\ new.read = "no"
    BY <1>2, CreatedRow DEF IInv, CreateRow
  <2>3. inbox' = inbox \cup {new}
    BY <2>1
  <2> HIDE DEF new
  <2>4. PICK slot \in Slots, t \in Titles :
          /\ Box[slot] = [title |-> "nothing"]
          /\ BoxNext = [Box EXCEPT ![slot] = [title |-> t, read |-> "no"]]
    BY <2>1, <2>2, <2>3, CreateDelivers DEF IInv
  <2>5. InboxSpec!Deliver(slot, t)
    BY <2>4, BoxIsInbox DEF InboxSpec!Deliver, InboxSpec!Nothing
  <2> QED
    BY <2>5 DEF InboxSpec!Next, Slots
<1>3. CASE MarkRead
  <2>1. PICK n \in inbox : inbox' = (inbox \ {n}) \cup {[n EXCEPT !.read = "yes"]}
    BY <1>3 DEF MarkRead
  <2>2. PICK slot \in Slots : /\ Box[slot] # [title |-> "nothing"]
                              /\ BoxNext = [Box EXCEPT ![slot].read = "yes"]
    BY <2>1, MarkReads DEF IInv
  <2>3. InboxSpec!Read(slot)
    BY <2>2, BoxIsInbox DEF InboxSpec!Read, InboxSpec!Nothing
  <2> QED
    BY <2>3 DEF InboxSpec!Next, Slots
<1>4. UNCHANGED inbox \/ MarkRead \/ \E k \in Calls : CreateRow(k)
  BY DEF Next, vars, Notify, Proceed, FindExisting, DatabaseError, Unasked, Restart
<1> QED
  BY <1>1, <1>2, <1>3, <1>4

\* The table of notifications is an inbox, for any number of publishers:
\* every step of the handlers delivers a first message, reads one, or changes
\* nothing that a recipient finds.
THEOREM Implements == Spec => IsAnInbox
BY InboxInit, InboxStep, Invariance, PTL DEF Spec, IsAnInbox, InboxSpec!Spec
=============================================================================

------------------------ MODULE IdentityAccess_proofs ------------------------
(***************************************************************************)
(* Proofs about IdentityAccess, for any number of processes, requests,     *)
(* admin calls, users, roles, groups and permissions, and any Ttl, Latency *)
(* and TokenTtl.                                                           *)
(***************************************************************************)
EXTENDS IdentityAccess, TLAPS

DBType ==
  /\ status \in [Users -> Status]
  /\ deleted \in [Users -> BOOLEAN]
  /\ userRoles \in [Users -> SUBSET Roles]
  /\ roleGroups \in [Roles -> SUBSET Groups]
  /\ groupPerms \in [Groups -> SUBSET Perms]

\* A record of req that is not Idle is a Request; likewise for admin.
LEMMA NotIdle ==
  ASSUME TypeOK
  PROVE  /\ \A q \in Requests : req[q] # Idle => req[q] \in Request
         /\ \A q \in Requests : req[q].pc # "idle" => req[q] \in Request
         /\ \A a \in Admins : admin[a] # Idle => admin[a] \in AdminCall
         /\ \A a \in Admins : admin[a].pc # "idle" => admin[a] \in AdminCall
BY DEF TypeOK, Idle

LEMMA HorizonType == Horizon \in Nat
BY ConstantsAssumption DEF Horizon

LEMMA GuardType ==
  ASSUME NEW i \in Instances, NEW u \in Users,
         NEW needs \in SUBSET Perms, NEW perms \in SUBSET Perms
  PROVE  RbacGuard(i, u, needs, perms) \in Request \cup {Idle}
BY ConstantsAssumption DEF RbacGuard, Request, Source

LEMMA NoEntryType == NoEntry \in Entry
BY ConstantsAssumption DEF NoEntry, Entry, Source

\* One field of a record changes within its type.
LEMMA EntryUpdate ==
  ASSUME NEW e \in Entry
  PROVE  /\ [e EXCEPT !.source = "overtaken"] \in Entry
         /\ e.left > 1 => [e EXCEPT !.left = @ - 1] \in Entry
<1>1. [e EXCEPT !.source = "overtaken"]
        = [perms |-> e.perms, left |-> e.left, source |-> "overtaken"]
  BY DEF Entry, Source
<1>2. [e EXCEPT !.left = @ - 1]
        = [perms |-> e.perms, left |-> e.left - 1, source |-> e.source]
  BY DEF Entry, Source
<1>3. e.left > 1 => e.left - 1 \in 0..Ttl
  BY ConstantsAssumption DEF Entry, Source
<1>4. QED
  BY <1>1, <1>2, <1>3 DEF Entry, Source

LEMMA TokenUpdate ==
  ASSUME NEW t \in Token, t.left > 1
  PROVE  [t EXCEPT !.left = @ - 1] \in Token
<1>1. [t EXCEPT !.left = @ - 1] = [claims |-> t.claims, left |-> t.left - 1]
  BY DEF Token
<1>2. QED
  BY <1>1, ConstantsAssumption DEF Token

LEMMA RequestUpdate ==
  ASSUME NEW r \in Request
  PROVE  /\ [r EXCEPT !.source = "overtaken"] \in Request
         /\ r.age < Latency => [r EXCEPT !.age = @ + 1] \in Request
<1>1. [r EXCEPT !.source = "overtaken"]
        = [pc |-> r.pc, inst |-> r.inst, user |-> r.user, needs |-> r.needs,
           claims |-> r.claims, perms |-> r.perms, age |-> r.age,
           source |-> "overtaken"]
  BY DEF Request, Source
<1>2. [r EXCEPT !.age = @ + 1]
        = [pc |-> r.pc, inst |-> r.inst, user |-> r.user, needs |-> r.needs,
           claims |-> r.claims, perms |-> r.perms, age |-> r.age + 1,
           source |-> r.source]
  BY DEF Request, Source
<1>3. r.age < Latency => r.age + 1 \in 0..Latency
  BY ConstantsAssumption DEF Request, Source
<1>4. QED
  BY <1>1, <1>2, <1>3 DEF Request, Source

\* The commit of an admin write changes the tables it names and, beside them,
\* only history: types are kept and the counters do not grow.
LEMMA CommittedType ==
  ASSUME TypeOK, NEW a \in Admins, admin[a].pc = "checked", Committed(a)
  PROVE  /\ tokens' \in [Users -> SUBSET Token]
         /\ cache' \in [Instances -> [Users -> Entry]]
         /\ req' \in [Requests -> Request \cup {Idle}]
         /\ admin' \in [Admins -> AdminCall \cup {Idle}]
         /\ sinceActive' \in [Users -> 0..Horizon]
         /\ sinceGranted' \in [Users -> [Perms -> 0..Horizon]]
<1>1. tokens' \in [Users -> SUBSET Token]
  BY DEF Committed, TypeOK
<1>2. cache' \in [Instances -> [Users -> Entry]]
  <2>1. \A j \in Instances, u \in Users :
          /\ cache[j][u] \in Entry
          /\ [cache[j][u] EXCEPT !.source = "overtaken"] \in Entry
    BY EntryUpdate DEF TypeOK
  <2>2. QED
    BY <2>1 DEF Committed, MarkOvertaken
<1>3. req' \in [Requests -> Request \cup {Idle}]
  <2>1. \A q \in Requests : req[q].pc = "answered" =>
          [req[q] EXCEPT !.source = "overtaken"] \in Request
    BY NotIdle, RequestUpdate
  <2>2. QED
    BY <2>1 DEF Committed, MarkOvertaken, TypeOK
<1>4. admin' \in [Admins -> AdminCall \cup {Idle}]
  <2>1. [admin[a] EXCEPT !.pc = "written"] \in AdminCall
    BY NotIdle DEF AdminCall
  <2>2. QED
    BY <2>1 DEF Committed, TypeOK
<1>5. sinceActive' \in [Users -> 0..Horizon]
  BY HorizonType DEF Committed, RecordHistory, TypeOK
<1>6. sinceGranted' \in [Users -> [Perms -> 0..Horizon]]
  BY HorizonType DEF Committed, RecordHistory, TypeOK
<1>7. QED
  BY <1>1, <1>2, <1>3, <1>4, <1>5, <1>6

LEMMA GrantedType == \A u : Granted(u) \in SUBSET Perms
BY DEF Granted, GrantedBy

LEMMA TypeInit == Init => TypeOK
<1> SUFFICES ASSUME Init PROVE TypeOK
  OBVIOUS
<1>1. DBType
  BY DEF Init, DBType, Status
<1>2. cache \in [Instances -> [Users -> Entry]]
  BY NoEntryType DEF Init
<1>3. /\ tokens \in [Users -> SUBSET Token]
      /\ req \in [Requests -> Request \cup {Idle}]
      /\ admin \in [Admins -> AdminCall \cup {Idle}]
      /\ sinceActive \in [Users -> 0..Horizon]
      /\ sinceGranted \in [Users -> [Perms -> 0..Horizon]]
  BY HorizonType DEF Init
<1>4. QED
  BY <1>1, <1>2, <1>3 DEF TypeOK, DBType

LEMMA TypeNext == TypeOK /\ [Next]_vars => TypeOK'
<1> SUFFICES ASSUME TypeOK, [Next]_vars PROVE TypeOK'
  OBVIOUS
<1>1. ASSUME NEW u \in Users, IssueToken(u) PROVE TypeOK'
  <2>1. \A c \in SUBSET Perms : [claims |-> c, left |-> TokenTtl] \in Token
    BY ConstantsAssumption DEF Token
  <2>2. tokens' \in [Users -> SUBSET Token]
    BY <1>1, <2>1, GrantedType DEF IssueToken, TypeOK
  <2>3. QED
    BY <1>1, <2>2 DEF IssueToken, TypeOK, db, since
<1>2. ASSUME NEW q \in Requests, NEW i \in Instances, NEW u \in Users,
             ServeFromCache(q, i, u)
      PROVE  TypeOK'
  <2>1. PICK needs \in RouteNeeds :
          req' = [req EXCEPT ![q] = RbacGuard(i, u, needs, cache[i][u].perms)]
    BY <1>2 DEF ServeFromCache
  <2>2. needs \in SUBSET Perms /\ cache[i][u].perms \in SUBSET Perms
    BY DEF RouteNeeds, TypeOK, Entry
  <2>3. req' \in [Requests -> Request \cup {Idle}]
    BY <2>1, <2>2, GuardType DEF TypeOK
  <2>4. QED
    BY <1>2, <2>3 DEF ServeFromCache, TypeOK, db, since
<1>3. ASSUME NEW q \in Requests, NEW i \in Instances, NEW u \in Users,
             StartLoad(q, i, u)
      PROVE  TypeOK'
  <2>1. PICK tk \in tokens[u], needs \in RouteNeeds :
          req' = [req EXCEPT ![q] =
                   [pc |-> "loading", inst |-> i, user |-> u, needs |-> needs,
                    claims |-> tk.claims, perms |-> {}, age |-> 0,
                    source |-> IF tk.claims = {} THEN "db" ELSE "claims"]]
    BY <1>3 DEF StartLoad
  <2>2. needs \in SUBSET Perms /\ tk.claims \in SUBSET Perms
    BY DEF RouteNeeds, TypeOK, Token
  <2>3. req' \in [Requests -> Request \cup {Idle}]
    BY <2>1, <2>2, ConstantsAssumption DEF TypeOK, Request, Source
  <2>4. QED
    BY <1>3, <2>3 DEF StartLoad, TypeOK, db, since
<1>4. ASSUME NEW q \in Requests, QueryUser(q) PROVE TypeOK'
  <2>1. req[q] \in Request
    BY <1>4, NotIdle DEF QueryUser
  <2>2. req' \in [Requests -> Request \cup {Idle}]
    BY <1>4, <2>1, GrantedType DEF QueryUser, TypeOK, Request, Source
  <2>3. QED
    BY <1>4, <2>2 DEF QueryUser, TypeOK, db, since
<1>5. ASSUME NEW q \in Requests, FillCache(q) PROVE TypeOK'
  <2>1. req[q] \in Request
    BY <1>5, NotIdle DEF FillCache
  <2>2. req' \in [Requests -> Request \cup {Idle}]
    BY <1>5, <2>1, GuardType DEF FillCache, TypeOK, Request
  <2>3. [perms |-> req[q].perms, left |-> Lifetime, source |-> req[q].source] \in Entry
    BY <2>1, ConstantsAssumption DEF Request, Entry, Lifetime
  <2>4. cache' \in [Instances -> [Users -> Entry]]
    BY <1>5, <2>1, <2>3 DEF FillCache, TypeOK, Request
  <2>5. QED
    BY <1>5, <2>2, <2>4 DEF FillCache, TypeOK, db, since
<1>6. ASSUME NEW q \in Requests, Finish(q) PROVE TypeOK'
  BY <1>6 DEF Finish, TypeOK, db, since
<1>7. ASSUME NEW a \in Admins, AdminCheck(a) PROVE TypeOK'
  <2>1. admin' \in [Admins -> AdminCall \cup {Idle}]
    BY <1>7 DEF AdminCheck, TypeOK, AdminCall
  <2>2. QED
    BY <1>7, <2>1 DEF AdminCheck, TypeOK, db, since
<1>8. ASSUME NEW a \in Admins,
             \/ UpdateUser(a) \/ SoftDeleteUser(a) \/ SetUserRoles(a)
             \/ SetRolePermissionGroups(a) \/ SetGroupPermissions(a)
      PROVE  TypeOK'
  <2>1. /\ admin[a].pc = "checked"
        /\ Committed(a)
    BY <1>8 DEF UpdateUser, SoftDeleteUser, SetUserRoles,
                SetRolePermissionGroups, SetGroupPermissions, Checked
  <2>2. admin[a].op \in AdminOp
    BY <2>1, NotIdle DEF AdminCall
  <2>3. DBType'
    BY <1>8, <2>2, ConstantsAssumption
       DEF UpdateUser, SoftDeleteUser, SetUserRoles, SetRolePermissionGroups,
           SetGroupPermissions, Checked, AdminOp, TypeOK, DBType, Status
  <2>4. QED
    BY <2>1, <2>3, CommittedType DEF TypeOK, DBType
<1>9. ASSUME NEW a \in Admins, Invalidate(a) PROVE TypeOK'
  <2>1. cache' \in [Instances -> [Users -> Entry]]
    BY <1>9, NoEntryType DEF Invalidate, TypeOK
  <2>2. QED
    BY <1>9, <2>1 DEF Invalidate, TypeOK, db, since
<1>10. ASSUME NEW i \in Instances, Restart(i) PROVE TypeOK'
  <2>1. cache' \in [Instances -> [Users -> Entry]]
    BY <1>10, NoEntryType DEF Restart, TypeOK
  <2>2. QED
    BY <1>10, <2>1 DEF Restart, TypeOK, db, since
<1>11. CASE Tick
  <2>1. tokens' \in [Users -> SUBSET Token]
    <3>1. \A u \in Users : \A tk \in tokens[u] : tk.left > 1 =>
            [tk EXCEPT !.left = @ - 1] \in Token
      BY TokenUpdate DEF TypeOK
    <3>2. \A u \in Users : tokens[u] \in SUBSET Token
      BY DEF TypeOK
    <3>3. \A u \in Users :
            {[tk EXCEPT !.left = @ - 1] : tk \in {t \in tokens[u] : t.left > 1}}
              \in SUBSET Token
      BY <3>1, <3>2
    <3>4. QED
      BY <1>11, <3>3 DEF Tick
  <2>2. cache' \in [Instances -> [Users -> Entry]]
    <3>1. ASSUME NEW i \in Instances, NEW u \in Users, cache[i][u].left > 1
          PROVE  [cache[i][u] EXCEPT !.left = @ - 1] \in Entry
      <4>1. cache[i][u] \in Entry
        BY DEF TypeOK
      <4>2. QED
        BY <3>1, <4>1, EntryUpdate
    <3>2. QED
      BY <1>11, <3>1, NoEntryType DEF Tick
  <2>3. req' \in [Requests -> Request \cup {Idle}]
    <3>1. \A q \in Requests : Loading(q) =>
            [req[q] EXCEPT !.age = @ + 1] \in Request
      BY <1>11, NotIdle, RequestUpdate DEF Tick, Loading
    <3>2. QED
      BY <1>11, <3>1 DEF Tick, TypeOK
  <2>4. \A n \in 0..Horizon : Later(n) \in 0..Horizon
    BY HorizonType DEF Later
  <2>5. /\ sinceActive' \in [Users -> 0..Horizon]
        /\ sinceGranted' \in [Users -> [Perms -> 0..Horizon]]
    BY <1>11, <2>4, HorizonType DEF Tick, TypeOK
  <2>6. QED
    BY <1>11, <2>1, <2>2, <2>3, <2>5 DEF Tick, TypeOK, db
<1>12. CASE UNCHANGED vars
  BY <1>12 DEF TypeOK, vars
<1>13. QED
  BY <1>1, <1>2, <1>3, <1>4, <1>5, <1>6, <1>7, <1>8, <1>9, <1>10, <1>11, <1>12
     DEF Next, RequestStep, AdminStep

\* Every reachable state of IdentityAccess is well typed.
THEOREM TypeCorrect == Spec => []TypeOK
<1>1. QED
  BY TypeInit, TypeNext, PTL DEF Spec

-----------------------------------------------------------------------------
(* The age of what is served *)

LEMMA ClaimAgeType ==
  ClaimAge \in Nat /\ (Hook => ClaimAge = TokenTtl - 1)
BY ConstantsAssumption DEF ClaimAge

LEMMA RecencyInit == Init => RecencyInv
<1> SUFFICES ASSUME Init PROVE RecencyInv
  OBVIOUS
<1>1. CountersStart
  BY GrantedType DEF Init, CountersStart
<1>2. TokensAreRecent
  BY DEF Init, TokensAreRecent
<1>3. LoadsAreRecent
  BY DEF Init, LoadsAreRecent, Loading, Idle
<1>4. EntriesAreRecent
  BY DEF Init, EntriesAreRecent, NoEntry
<1>5. QED
  BY <1>1, <1>2, <1>3, <1>4 DEF RecencyInv

\* A commit resets the counters of what holds now and leaves the others alone,
\* and it changes nothing of a request or an entry but its source.
LEMMA CommittedHistory ==
  ASSUME TypeOK, NEW a \in Admins, Committed(a)
  PROVE  /\ CountersStart'
         /\ tokens' = tokens
         /\ \A u \in Users :
              /\ sinceActive'[u] <= sinceActive[u]
              /\ \A p \in Perms : sinceGranted'[u][p] <= sinceGranted[u][p]
         /\ \A i \in Instances, u \in Users :
              /\ cache'[i][u].left = cache[i][u].left
              /\ cache'[i][u].perms = cache[i][u].perms
         /\ \A q \in Requests :
              /\ req'[q].pc = req[q].pc
              /\ req[q].pc # "idle" =>
                   /\ req'[q].user = req[q].user
                   /\ req'[q].age = req[q].age
                   /\ req'[q].claims = req[q].claims
                   /\ req'[q].perms = req[q].perms
<1>1. CountersStart'
  BY GrantedType DEF Committed, RecordHistory, CountersStart, Granted, GrantedNext,
     GrantedBy
<1>2. \A u \in Users :
        /\ sinceActive'[u] <= sinceActive[u]
        /\ \A p \in Perms : sinceGranted'[u][p] <= sinceGranted[u][p]
  BY HorizonType DEF Committed, RecordHistory, TypeOK
<1>3. ASSUME NEW i \in Instances, NEW u \in Users
      PROVE  /\ cache'[i][u].left = cache[i][u].left
             /\ cache'[i][u].perms = cache[i][u].perms
  <2>1. cache[i][u] \in Entry
    BY DEF TypeOK
  <2>2. \/ cache'[i][u] = cache[i][u]
        \/ cache'[i][u] = [cache[i][u] EXCEPT !.source = "overtaken"]
    BY DEF Committed, MarkOvertaken
  <2>3. QED
    BY <2>1, <2>2 DEF Entry
<1>4. ASSUME NEW q \in Requests
      PROVE  /\ req'[q].pc = req[q].pc
             /\ req[q].pc # "idle" =>
                  /\ req'[q].user = req[q].user
                  /\ req'[q].age = req[q].age
                  /\ req'[q].claims = req[q].claims
                  /\ req'[q].perms = req[q].perms
  <2>1. \/ req'[q] = req[q]
        \/ req[q].pc = "answered" /\ req'[q] = [req[q] EXCEPT !.source = "overtaken"]
    BY DEF Committed, MarkOvertaken
  <2>2. req[q].pc = "answered" => req[q] \in Request
    BY NotIdle
  <2>3. QED
    BY <2>1, <2>2 DEF Request
<1>5. QED
  BY <1>1, <1>2, <1>3, <1>4 DEF Committed

\* An admin write keeps the four recency facts.
LEMMA RecencyCommitted ==
  ASSUME TypeOK, TypeOK', RecencyInv, NEW a \in Admins, Committed(a)
  PROVE  RecencyInv'
<1>1. CountersStart'
  BY CommittedHistory
<1>2. TokensAreRecent'
  <2>1. ASSUME NEW u \in Users, NEW tk \in tokens[u], NEW p \in tk.claims
        PROVE  Hook /\ sinceGranted'[u][p] + tk.left <= TokenTtl
    <3>1. tk \in Token /\ p \in Perms
      BY DEF TypeOK, Token
    <3>2. Hook /\ sinceGranted[u][p] + tk.left <= TokenTtl
      BY DEF RecencyInv, TokensAreRecent
    <3>3. sinceGranted'[u][p] <= sinceGranted[u][p]
      BY <3>1, CommittedHistory
    <3>4. /\ sinceGranted[u][p] \in Nat /\ sinceGranted'[u][p] \in Nat
          /\ tk.left \in Nat
      BY <3>1, HorizonType, ConstantsAssumption DEF TypeOK, Token
    <3>5. QED
      BY <3>2, <3>3, <3>4, ConstantsAssumption
  <2>2. QED
    BY <2>1, CommittedHistory DEF TokensAreRecent
<1>3. LoadsAreRecent'
  <2>1. ASSUME NEW q \in Requests, Loading(q)
        PROVE  /\ req[q] \in Request
               /\ req[q].user \in Users /\ req[q].age \in Nat
               /\ req[q].claims \in SUBSET Perms /\ req[q].perms \in SUBSET Perms
               /\ req'[q].user = req[q].user /\ req'[q].age = req[q].age
               /\ req'[q].claims = req[q].claims /\ req'[q].perms = req[q].perms
    <3>1. req[q] \in Request
      BY <2>1, NotIdle DEF Loading
    <3>2. QED
      BY <2>1, <3>1, CommittedHistory, ConstantsAssumption DEF Loading, Request
  <2>2. \A q \in Requests : req'[q].pc = req[q].pc
    BY CommittedHistory
  <2>3. ASSUME NEW u \in Users
        PROVE  /\ sinceActive'[u] \in Nat /\ sinceActive[u] \in Nat
               /\ sinceActive'[u] <= sinceActive[u]
    BY CommittedHistory, HorizonType DEF TypeOK
  <2>4. ASSUME NEW u \in Users, NEW p \in Perms
        PROVE  /\ sinceGranted'[u][p] \in Nat /\ sinceGranted[u][p] \in Nat
               /\ sinceGranted'[u][p] <= sinceGranted[u][p]
    BY CommittedHistory, HorizonType DEF TypeOK
  <2>5. ASSUME NEW q \in Requests, Loading(q), NEW p \in req[q].claims
        PROVE  Hook /\ sinceGranted'[req[q].user][p] <= ClaimAge + req[q].age
    <3>1. Hook /\ sinceGranted[req[q].user][p] <= ClaimAge + req[q].age
      BY <2>5 DEF RecencyInv, LoadsAreRecent
    <3>2. QED
      BY <2>1, <2>4, <2>5, <3>1, ClaimAgeType
  <2>6. ASSUME NEW q \in Requests, req[q].pc = "answered"
        PROVE  /\ sinceActive'[req[q].user] <= req[q].age
               /\ \A p \in req[q].perms :
                    sinceGranted'[req[q].user][p] <= ClaimAge + req[q].age
    <3>1. Loading(q)
      BY <2>6 DEF Loading
    <3>2. /\ sinceActive[req[q].user] <= req[q].age
          /\ \A p \in req[q].perms :
               sinceGranted[req[q].user][p] <= ClaimAge + req[q].age
      BY <2>6 DEF RecencyInv, LoadsAreRecent
    <3>3. sinceActive'[req[q].user] <= req[q].age
      BY <2>1, <2>3, <3>1, <3>2
    <3>4. ASSUME NEW p \in req[q].perms
          PROVE  sinceGranted'[req[q].user][p] <= ClaimAge + req[q].age
      BY <2>1, <2>4, <3>1, <3>2, ClaimAgeType
    <3>5. QED
      BY <3>3, <3>4
  <2>7. QED
    BY <2>1, <2>2, <2>5, <2>6 DEF LoadsAreRecent, Loading
<1>4. EntriesAreRecent'
  <2>1. ASSUME NEW i \in Instances, NEW u \in Users, cache[i][u].left > 0
        PROVE  /\ sinceActive'[u] + cache[i][u].left <= Latency + Ttl
               /\ \A p \in cache[i][u].perms :
                    sinceGranted'[u][p] + cache[i][u].left <= ClaimAge + Latency + Ttl
    <3>1. /\ cache[i][u].left \in Nat /\ cache[i][u].perms \in SUBSET Perms
          /\ sinceActive[u] \in Nat /\ sinceActive'[u] \in Nat
          /\ \A p \in Perms : sinceGranted[u][p] \in Nat /\ sinceGranted'[u][p] \in Nat
      BY HorizonType, ConstantsAssumption DEF TypeOK, Entry
    <3>2. /\ sinceActive[u] + cache[i][u].left <= Latency + Ttl
          /\ \A p \in cache[i][u].perms :
               sinceGranted[u][p] + cache[i][u].left <= ClaimAge + Latency + Ttl
      BY <2>1 DEF RecencyInv, EntriesAreRecent
    <3>3. /\ sinceActive'[u] <= sinceActive[u]
          /\ \A p \in Perms : sinceGranted'[u][p] <= sinceGranted[u][p]
      BY CommittedHistory
    <3>4. QED
      BY <3>1, <3>2, <3>3, ClaimAgeType, ConstantsAssumption
  <2>2. QED
    BY <2>1, CommittedHistory DEF EntriesAreRecent
<1>5. QED
  BY <1>1, <1>2, <1>3, <1>4 DEF RecencyInv

\* A step that leaves the tables and the counters alone.
LEMMA CountersFrame ==
  ASSUME CountersStart, UNCHANGED <<db, since>>
  PROVE  CountersStart'
BY DEF CountersStart, db, since, Granted, GrantedBy

\* Replacing one request by one that is not loading keeps LoadsAreRecent.
LEMMA LoadsFrame ==
  ASSUME TypeOK, LoadsAreRecent, UNCHANGED since,
         \A q \in Requests :
           req'[q] = req[q] \/ req'[q].pc \in {"idle", "admitted"}
  PROVE  LoadsAreRecent'
BY DEF LoadsAreRecent, Loading, since

LEMMA GuardResult ==
  ASSUME NEW i, NEW u, NEW needs, NEW perms
  PROVE  RbacGuard(i, u, needs, perms).pc \in {"idle", "admitted"}
BY DEF RbacGuard, Idle

LEMMA RecencyNext == TypeOK /\ TypeOK' /\ RecencyInv /\ [Next]_vars => RecencyInv'
<1> SUFFICES ASSUME TypeOK, TypeOK', RecencyInv, [Next]_vars PROVE RecencyInv'
  OBVIOUS
<1> USE DEF RecencyInv
<1>1. ASSUME NEW u \in Users, IssueToken(u) PROVE RecencyInv'
  <2>1. CountersStart' /\ LoadsAreRecent' /\ EntriesAreRecent'
    BY <1>1, CountersFrame
       DEF IssueToken, since, LoadsAreRecent, EntriesAreRecent, Loading
  <2>2. ASSUME NEW v \in Users, NEW tk \in tokens'[v], NEW p \in tk.claims
        PROVE  Hook /\ sinceGranted[v][p] + tk.left <= TokenTtl
    <3>1. CASE tk \in tokens[v]
      BY <3>1 DEF TokensAreRecent
    <3>2. CASE tk \notin tokens[v]
      <4> DEFINE claims == IF Hook /\ ~Blocked(status[u], deleted[u])
                           THEN Granted(u) ELSE {}
      <4>1. tokens' = [tokens EXCEPT ![u] =
                         @ \cup {[claims |-> claims, left |-> TokenTtl]}]
        BY <1>1 DEF IssueToken
      <4>2. v = u /\ tk = [claims |-> claims, left |-> TokenTtl]
        BY <3>2, <4>1 DEF TypeOK
      <4>3. Hook /\ p \in Granted(u)
        BY <4>2
      <4>4. sinceGranted[v][p] = 0
        BY <4>2, <4>3 DEF CountersStart
      <4>5. QED
        BY <4>2, <4>3, <4>4, ConstantsAssumption
    <3>3. QED
      BY <3>1, <3>2
  <2>3. TokensAreRecent'
    BY <1>1, <2>2 DEF TokensAreRecent, IssueToken, since
  <2>4. QED
    BY <2>1, <2>3
<1>2. ASSUME NEW q \in Requests, NEW i \in Instances, NEW u \in Users,
             ServeFromCache(q, i, u)
      PROVE  RecencyInv'
  <2>1. LoadsAreRecent'
    BY <1>2, LoadsFrame, GuardResult DEF ServeFromCache, TypeOK
  <2>2. CountersStart' /\ TokensAreRecent' /\ EntriesAreRecent'
    BY <1>2, CountersFrame
       DEF ServeFromCache, since, TokensAreRecent, EntriesAreRecent
  <2>3. QED
    BY <2>1, <2>2
<1>3. ASSUME NEW q \in Requests, NEW i \in Instances, NEW u \in Users,
             StartLoad(q, i, u)
      PROVE  RecencyInv'
  <2>1. PICK tk \in tokens[u], needs \in RouteNeeds :
          req' = [req EXCEPT ![q] =
                   [pc |-> "loading", inst |-> i, user |-> u, needs |-> needs,
                    claims |-> tk.claims, perms |-> {}, age |-> 0,
                    source |-> IF tk.claims = {} THEN "db" ELSE "claims"]]
    BY <1>3 DEF StartLoad
  <2>2. ASSUME NEW p \in tk.claims
        PROVE  Hook /\ sinceGranted[u][p] <= ClaimAge + 0
    <3>1. tk \in Token /\ p \in Perms
      BY DEF TypeOK, Token
    <3>2. Hook /\ sinceGranted[u][p] + tk.left <= TokenTtl
      BY DEF TokensAreRecent
    <3>3. tk.left \in 1..TokenTtl /\ sinceGranted[u][p] \in Nat
      BY <3>1, HorizonType DEF TypeOK, Token
    <3>4. QED
      BY <3>2, <3>3, ClaimAgeType, ConstantsAssumption
  <2>3. LoadsAreRecent'
    BY <1>3, <2>1, <2>2 DEF StartLoad, LoadsAreRecent, Loading, since, TypeOK
  <2>4. CountersStart' /\ TokensAreRecent' /\ EntriesAreRecent'
    BY <1>3, CountersFrame DEF StartLoad, since, TokensAreRecent, EntriesAreRecent
  <2>5. QED
    BY <2>3, <2>4
<1>4. ASSUME NEW q \in Requests, QueryUser(q) PROVE RecencyInv'
  <2>1. /\ req[q] \in Request /\ req[q].user \in Users /\ req[q].age \in Nat
        /\ Loading(q)
    BY <1>4, NotIdle, ConstantsAssumption DEF QueryUser, Request, Loading
  <2>2. CASE Refused(q)
    BY <1>4, <2>2, LoadsFrame, CountersFrame
       DEF QueryUser, Idle, TypeOK, since, TokensAreRecent, EntriesAreRecent
  <2>3. CASE ~Refused(q)
    <3> DEFINE perms == IF req[q].claims # {} THEN req[q].claims
                        ELSE Granted(req[q].user)
    <3>1. req' = [req EXCEPT ![q] =
                    [req[q] EXCEPT !.pc = "answered", !.perms = perms]]
      BY <1>4, <2>3 DEF QueryUser
    <3>2. sinceActive[req[q].user] = 0
      BY <2>1, <2>3 DEF Refused, IsBlocked, Blocked, CountersStart
    <3>3. \A p \in req[q].claims :
            Hook /\ sinceGranted[req[q].user][p] <= ClaimAge + req[q].age
      BY <2>1 DEF LoadsAreRecent
    <3>4. \A p \in Granted(req[q].user) : sinceGranted[req[q].user][p] = 0
      BY <2>1 DEF CountersStart
    <3>5. \A p \in perms : sinceGranted[req[q].user][p] <= ClaimAge + req[q].age
      BY <2>1, <3>3, <3>4, ClaimAgeType
    <3>6. /\ req'[q].user = req[q].user /\ req'[q].age = req[q].age
          /\ req'[q].claims = req[q].claims /\ req'[q].perms = perms
          /\ \A r \in Requests : r # q => req'[r] = req[r]
      BY <2>1, <3>1 DEF Request, TypeOK
    <3>7. LoadsAreRecent'
      BY <1>4, <2>1, <3>2, <3>3, <3>5, <3>6
         DEF QueryUser, LoadsAreRecent, Loading, since
    <3>8. CountersStart' /\ TokensAreRecent' /\ EntriesAreRecent'
      BY <1>4, CountersFrame DEF QueryUser, since, TokensAreRecent, EntriesAreRecent
    <3>9. QED
      BY <3>7, <3>8
  <2>4. QED
    BY <2>2, <2>3
<1>5. ASSUME NEW q \in Requests, FillCache(q) PROVE RecencyInv'
  <2>1. /\ req[q] \in Request /\ req[q].user \in Users /\ req[q].inst \in Instances
        /\ req[q].age \in 0..Latency /\ req[q].perms \in SUBSET Perms
    BY <1>5, NotIdle DEF FillCache, Request
  <2>2. /\ sinceActive[req[q].user] <= req[q].age
        /\ \A p \in req[q].perms :
             sinceGranted[req[q].user][p] <= ClaimAge + req[q].age
    BY <1>5 DEF FillCache, LoadsAreRecent
  <2>3. /\ sinceActive[req[q].user] + Ttl <= Latency + Ttl
        /\ \A p \in req[q].perms :
             sinceGranted[req[q].user][p] + Ttl <= ClaimAge + Latency + Ttl
    BY <2>1, <2>2, ClaimAgeType, ConstantsAssumption, HorizonType DEF TypeOK
  <2>4. ASSUME NEW i \in Instances, NEW u \in Users
        PROVE  \/ cache'[i][u] = cache[i][u]
               \/ /\ u = req[q].user
                  /\ cache'[i][u].left = Ttl
                  /\ cache'[i][u].perms = req[q].perms
    BY <1>5, <2>1 DEF FillCache, TypeOK, Lifetime
  <2>5. EntriesAreRecent'
    BY <1>5, <2>3, <2>4 DEF FillCache, EntriesAreRecent, since
  <2>6. LoadsAreRecent'
    BY <1>5, LoadsFrame, GuardResult DEF FillCache, TypeOK
  <2>7. CountersStart' /\ TokensAreRecent'
    BY <1>5, CountersFrame DEF FillCache, since, TokensAreRecent
  <2>8. QED
    BY <2>5, <2>6, <2>7
<1>6. ASSUME NEW q \in Requests, Finish(q) PROVE RecencyInv'
  BY <1>6, LoadsFrame, CountersFrame
     DEF Finish, Idle, TypeOK, since, TokensAreRecent, EntriesAreRecent
<1>7. ASSUME NEW a \in Admins, AdminCheck(a) PROVE RecencyInv'
  BY <1>7, LoadsFrame, CountersFrame
     DEF AdminCheck, since, TokensAreRecent, EntriesAreRecent
<1>8. ASSUME NEW a \in Admins,
             \/ UpdateUser(a) \/ SoftDeleteUser(a) \/ SetUserRoles(a)
             \/ SetRolePermissionGroups(a) \/ SetGroupPermissions(a)
      PROVE  RecencyInv'
  BY <1>8, RecencyCommitted
     DEF UpdateUser, SoftDeleteUser, SetUserRoles, SetRolePermissionGroups,
         SetGroupPermissions
<1>9. ASSUME NEW a \in Admins, Invalidate(a) PROVE RecencyInv'
  <2>1. \A i \in Instances, u \in Users :
          cache'[i][u] = cache[i][u] \/ cache'[i][u] = NoEntry
    BY <1>9 DEF Invalidate, TypeOK
  <2>2. EntriesAreRecent'
    BY <1>9, <2>1 DEF Invalidate, EntriesAreRecent, NoEntry, since
  <2>3. QED
    BY <1>9, <2>2, LoadsFrame, CountersFrame DEF Invalidate, since, TokensAreRecent
<1>10. ASSUME NEW i \in Instances, Restart(i) PROVE RecencyInv'
  <2>1. \A j \in Instances, u \in Users :
          cache'[j][u] = cache[j][u] \/ cache'[j][u] = NoEntry
    BY <1>10 DEF Restart, TypeOK
  <2>2. EntriesAreRecent'
    BY <1>10, <2>1 DEF Restart, EntriesAreRecent, NoEntry, since
  <2>3. \A q \in Requests :
          req'[q] = req[q] \/ req'[q].pc \in {"idle", "admitted"}
    BY <1>10 DEF Restart, Idle
  <2>4. QED
    BY <1>10, <2>2, <2>3, LoadsFrame, CountersFrame DEF Restart, since, TokensAreRecent
<1>11. CASE Tick
  <2>1. ASSUME NEW u \in Users
        PROVE  /\ sinceActive[u] \in Nat /\ sinceActive'[u] \in Nat
               /\ sinceActive'[u] <= sinceActive[u] + 1
               /\ \A p \in Perms :
                    /\ sinceGranted[u][p] \in Nat /\ sinceGranted'[u][p] \in Nat
                    /\ sinceGranted'[u][p] <= sinceGranted[u][p] + 1
    BY <1>11, HorizonType DEF Tick, Later, TypeOK
  <2>2. CountersStart'
    <3>1. UNCHANGED db
      BY <1>11 DEF Tick
    <3>2. \A u \in Users :
            /\ ~Blocked(status[u], deleted[u]) => sinceActive'[u] = 0
            /\ \A p \in Granted(u) : sinceGranted'[u][p] = 0
      BY <1>11, GrantedType DEF Tick
    <3>3. QED
      BY <3>1, <3>2 DEF CountersStart, db, Granted, GrantedBy
  <2>3. TokensAreRecent'
    <3>1. ASSUME NEW u \in Users, NEW tk \in tokens'[u], NEW p \in tk.claims
          PROVE  Hook /\ sinceGranted'[u][p] + tk.left <= TokenTtl
      <4>1. PICK t \in tokens[u] : t.left > 1 /\ tk = [t EXCEPT !.left = @ - 1]
        BY <1>11 DEF Tick
      <4>2. t \in Token
        BY DEF TypeOK
      <4>3. /\ tk.claims = t.claims /\ tk.left = t.left - 1
            /\ t.left \in Nat /\ p \in Perms
        BY <4>1, <4>2, ConstantsAssumption DEF Token
      <4>4. Hook /\ sinceGranted[u][p] + t.left <= TokenTtl
        BY <4>3 DEF TokensAreRecent
      <4>5. QED
        BY <2>1, <4>3, <4>4, ConstantsAssumption
    <3>2. QED
      BY <3>1 DEF TokensAreRecent
  <2>4. ASSUME NEW q \in Requests, Loading(q)
        PROVE  /\ req[q].user \in Users /\ req[q].age \in Nat
               /\ req[q].claims \in SUBSET Perms /\ req[q].perms \in SUBSET Perms
               /\ req'[q].pc = req[q].pc /\ req'[q].user = req[q].user
               /\ req'[q].claims = req[q].claims /\ req'[q].perms = req[q].perms
               /\ req'[q].age = req[q].age + 1
    <3>1. req[q] \in Request
      BY <2>4, NotIdle DEF Loading
    <3>2. req'[q] = [req[q] EXCEPT !.age = @ + 1]
      BY <1>11, <2>4 DEF Tick
    <3>3. QED
      BY <3>1, <3>2, ConstantsAssumption DEF Request
  <2>5. \A q \in Requests : ~Loading(q) => req'[q] = req[q]
    BY <1>11 DEF Tick
  <2>6. LoadsAreRecent'
    <3>1. ASSUME NEW q \in Requests, Loading(q), NEW p \in req[q].claims
          PROVE  Hook /\ sinceGranted'[req[q].user][p] <= ClaimAge + (req[q].age + 1)
      <4>1. Hook /\ sinceGranted[req[q].user][p] <= ClaimAge + req[q].age
        BY <3>1 DEF LoadsAreRecent
      <4>2. QED
        BY <2>1, <2>4, <3>1, <4>1, ClaimAgeType
    <3>2. ASSUME NEW q \in Requests, req[q].pc = "answered"
          PROVE  /\ sinceActive'[req[q].user] <= req[q].age + 1
                 /\ \A p \in req[q].perms :
                      sinceGranted'[req[q].user][p] <= ClaimAge + (req[q].age + 1)
      <4>1. Loading(q)
        BY <3>2 DEF Loading
      <4>2. /\ sinceActive[req[q].user] <= req[q].age
            /\ \A p \in req[q].perms :
                 sinceGranted[req[q].user][p] <= ClaimAge + req[q].age
        BY <3>2 DEF LoadsAreRecent
      <4>3. sinceActive'[req[q].user] <= req[q].age + 1
        BY <2>1, <2>4, <4>1, <4>2
      <4>4. ASSUME NEW p \in req[q].perms
            PROVE  sinceGranted'[req[q].user][p] <= ClaimAge + (req[q].age + 1)
        BY <2>1, <2>4, <4>1, <4>2, ClaimAgeType
      <4>5. QED
        BY <4>3, <4>4
    <3>3. QED
      BY <2>4, <2>5, <3>1, <3>2 DEF LoadsAreRecent, Loading
  <2>7. ASSUME NEW i \in Instances, NEW u \in Users
        PROVE  \/ cache'[i][u].left = 0
               \/ /\ cache[i][u].left > 1
                  /\ cache'[i][u].left = cache[i][u].left - 1
                  /\ cache'[i][u].perms = cache[i][u].perms
    <3>1. cache[i][u] \in Entry
      BY DEF TypeOK
    <3>2. cache'[i][u] = IF cache[i][u].left > 1
                         THEN [cache[i][u] EXCEPT !.left = @ - 1] ELSE NoEntry
      BY <1>11 DEF Tick
    <3>3. QED
      BY <3>1, <3>2 DEF Entry, NoEntry
  <2>8. EntriesAreRecent'
    <3>1. ASSUME NEW i \in Instances, NEW u \in Users, cache'[i][u].left > 0
          PROVE  /\ sinceActive'[u] + cache'[i][u].left <= Latency + Ttl
                 /\ \A p \in cache'[i][u].perms :
                      sinceGranted'[u][p] + cache'[i][u].left
                        <= ClaimAge + Latency + Ttl
      <4>1. /\ cache[i][u].left > 1
            /\ cache'[i][u].left = cache[i][u].left - 1
            /\ cache'[i][u].perms = cache[i][u].perms
        BY <2>7, <3>1
      <4>2. cache[i][u].left \in Nat /\ cache[i][u].perms \in SUBSET Perms
        BY ConstantsAssumption DEF TypeOK, Entry
      <4>3. /\ sinceActive[u] + cache[i][u].left <= Latency + Ttl
            /\ \A p \in cache[i][u].perms :
                 sinceGranted[u][p] + cache[i][u].left <= ClaimAge + Latency + Ttl
        BY <4>1, <4>2 DEF EntriesAreRecent
      <4>4. QED
        BY <2>1, <4>1, <4>2, <4>3, ClaimAgeType, ConstantsAssumption
    <3>2. QED
      BY <3>1 DEF EntriesAreRecent
  <2>9. QED
    BY <2>2, <2>3, <2>6, <2>8
<1>12. CASE UNCHANGED vars
  BY <1>12, LoadsFrame, CountersFrame
     DEF vars, db, since, TokensAreRecent, EntriesAreRecent
<1>13. QED
  BY <1>1, <1>2, <1>3, <1>4, <1>5, <1>6, <1>7, <1>8, <1>9, <1>10, <1>11, <1>12
     DEF Next, RequestStep, AdminStep

\* The inductive invariant holds in every reachable state.
THEOREM Recency == Spec => []RecencyInv
<1>1. TypeOK /\ RecencyInv /\ [Next]_vars => RecencyInv'
  BY TypeNext, RecencyNext
<1>2. QED
  BY RecencyInit, TypeCorrect, <1>1, PTL DEF Spec

\* The guards let a request through in two steps only: a cache hit, and the
\* continuation of a load.
LEMMA AdmitSteps ==
  ASSUME TypeOK, [Next]_vars, NEW q \in Requests, Admits(q)
  PROVE  \/ \E i \in Instances, u \in Users : ServeFromCache(q, i, u)
         \/ FillCache(q)
<1>1. ASSUME NEW u \in Users, IssueToken(u) PROVE FALSE
  BY <1>1 DEF IssueToken, Admits, Idle
<1>2. ASSUME NEW r \in Requests, r # q, NEW i \in Instances, NEW u \in Users,
             ServeFromCache(r, i, u) \/ StartLoad(r, i, u)
      PROVE  FALSE
  BY <1>2 DEF ServeFromCache, StartLoad, Admits, Idle, TypeOK
<1>3. ASSUME NEW i \in Instances, NEW u \in Users, StartLoad(q, i, u)
      PROVE  FALSE
  BY <1>3 DEF StartLoad, Admits, Idle, TypeOK
<1>4. ASSUME NEW r \in Requests, QueryUser(r) PROVE FALSE
  <2>1. r # q => FALSE
    BY <1>4 DEF QueryUser, Admits, Idle, TypeOK
  <2>2. r = q => FALSE
    <3>1. r = q => req[q] \in Request
      BY <1>4, NotIdle DEF QueryUser
    <3>2. QED
      BY <1>4, <3>1 DEF QueryUser, Admits, Idle, TypeOK, Request
  <2>3. QED
    BY <2>1, <2>2
<1>5. ASSUME NEW r \in Requests, r # q, FillCache(r) PROVE FALSE
  BY <1>5 DEF FillCache, Admits, Idle, TypeOK
<1>6. ASSUME NEW r \in Requests, Finish(r) PROVE FALSE
  BY <1>6 DEF Finish, Admits, Idle, TypeOK
<1>7. ASSUME NEW a \in Admins, AdminCheck(a) \/ Invalidate(a) PROVE FALSE
  BY <1>7 DEF AdminCheck, Invalidate, Admits, Idle
<1>8. ASSUME NEW a \in Admins, Committed(a) PROVE FALSE
  BY <1>8, CommittedHistory DEF Admits, Idle
<1>9. ASSUME NEW i \in Instances, Restart(i) PROVE FALSE
  BY <1>9 DEF Restart, Admits, Idle
<1>10. CASE Tick
  <2>1. req[q].pc = "idle" \/ req[q] \in Request
    BY DEF TypeOK, Idle
  <2>2. QED
    BY <1>10, <2>1 DEF Tick, Loading, Admits, Idle, Request
<1>11. CASE UNCHANGED vars
  BY <1>11 DEF vars, Admits, Idle
<1>12. QED
  BY <1>1, <1>2, <1>3, <1>4, <1>5, <1>6, <1>7, <1>8, <1>9, <1>10, <1>11
     DEF Next, RequestStep, AdminStep, UpdateUser, SoftDeleteUser, SetUserRoles,
         SetRolePermissionGroups, SetGroupPermissions

LEMMA Admitted ==
  ASSUME TypeOK, RecencyInv, [Next]_vars, NEW q \in Requests, Admits(q)
  PROVE  \E u \in Users :
           /\ req'[q].user = u
           /\ req'[q].perms \in SUBSET Perms
           /\ sinceActive[u] <= Latency \/ sinceActive[u] < Latency + Ttl
           /\ \A p \in req'[q].perms :
                \/ sinceGranted[u][p] <= ClaimAge + Latency
                \/ sinceGranted[u][p] < ClaimAge + Latency + Ttl
<1>1. ASSUME NEW i \in Instances, NEW u \in Users, NEW needs \in RouteNeeds,
             NEW perms \in SUBSET Perms,
             req' = [req EXCEPT ![q] = RbacGuard(i, u, needs, perms)]
      PROVE  req'[q].user = u /\ req'[q].perms = perms
  BY <1>1 DEF TypeOK, RbacGuard, Admits, Idle
<1>2. ASSUME NEW i \in Instances, NEW u \in Users, ServeFromCache(q, i, u)
      PROVE  /\ req'[q].user = u
             /\ req'[q].perms \in SUBSET Perms
             /\ sinceActive[u] < Latency + Ttl
             /\ \A p \in req'[q].perms : sinceGranted[u][p] < ClaimAge + Latency + Ttl
  <2>1. /\ cache[i][u].perms \in SUBSET Perms
        /\ cache[i][u].left \in Nat /\ cache[i][u].left > 0
    BY <1>2, ConstantsAssumption DEF ServeFromCache, CacheHit, TypeOK, Entry
  <2>2. req'[q].user = u /\ req'[q].perms = cache[i][u].perms
    BY <1>1, <1>2, <2>1 DEF ServeFromCache
  <2>3. /\ sinceActive[u] + cache[i][u].left <= Latency + Ttl
        /\ \A p \in cache[i][u].perms :
             sinceGranted[u][p] + cache[i][u].left <= ClaimAge + Latency + Ttl
    BY <2>1 DEF RecencyInv, EntriesAreRecent
  <2>4. /\ sinceActive[u] \in Nat
        /\ \A p \in Perms : sinceGranted[u][p] \in Nat
    BY HorizonType DEF TypeOK
  <2>5. QED
    BY <2>1, <2>2, <2>3, <2>4, ClaimAgeType, ConstantsAssumption
<1>3. ASSUME FillCache(q)
      PROVE  \E u \in Users :
               /\ req'[q].user = u
               /\ req'[q].perms \in SUBSET Perms
               /\ sinceActive[u] <= Latency
               /\ \A p \in req'[q].perms : sinceGranted[u][p] <= ClaimAge + Latency
  <2>1. /\ req[q] \in Request /\ req[q].user \in Users /\ req[q].inst \in Instances
        /\ req[q].perms \in SUBSET Perms /\ req[q].age \in 0..Latency
    BY <1>3, NotIdle DEF FillCache, Request
  <2>2. req'[q] = RbacGuard(req[q].inst, req[q].user, req[q].needs, req[q].perms)
    BY <1>3 DEF FillCache, TypeOK
  <2>3. req'[q].user = req[q].user /\ req'[q].perms = req[q].perms
    BY <2>2 DEF RbacGuard, Admits, Idle
  <2>4. /\ sinceActive[req[q].user] <= req[q].age
        /\ \A p \in req[q].perms :
             sinceGranted[req[q].user][p] <= ClaimAge + req[q].age
    BY <1>3 DEF FillCache, RecencyInv, LoadsAreRecent
  <2>5. /\ sinceActive[req[q].user] \in Nat
        /\ \A p \in Perms : sinceGranted[req[q].user][p] \in Nat
    BY <2>1, HorizonType DEF TypeOK
  <2>6. QED
    BY <2>1, <2>3, <2>4, <2>5, ClaimAgeType, ConstantsAssumption
<1>4. QED
  BY <1>2, <1>3, AdmitSteps

\* However many processes there are and in whatever order loads, admin calls
\* and restarts run, a blocked user is admitted by none of them later than one
\* load and one cache life-time after it was blocked.
THEOREM LockOut == Spec => BlockedUsersAreLockedOut
<1>1. TypeOK /\ RecencyInv /\ [Next]_vars => AdmitsActive
  BY Admitted DEF AdmitsActive
<1>2. QED
  BY TypeCorrect, Recency, <1>1, PTL DEF BlockedUsersAreLockedOut, Spec

\* The same for each permission, with the age of token claims added.
THEOREM RunOut == Spec => RevokedPermissionsRunOut
<1>1. TypeOK /\ RecencyInv /\ [Next]_vars => AdmitsGranted
  BY Admitted DEF AdmitsGranted
<1>2. QED
  BY TypeCorrect, Recency, <1>1, PTL DEF RevokedPermissionsRunOut, Spec

-----------------------------------------------------------------------------
(* What invalidation leaves behind *)

\* A write changes what is true of the users whose entries it will drop, and
\* of nobody else.
LEMMA WriteScope ==
  ASSUME TypeOK, NEW a \in Admins,
         \/ UpdateUser(a) \/ SoftDeleteUser(a) \/ SetUserRoles(a)
         \/ SetRolePermissionGroups(a) \/ SetGroupPermissions(a),
         NEW u \in Users, ~Dropped(admin[a].op, u)
  PROVE  /\ status'[u] = status[u] /\ deleted'[u] = deleted[u]
         /\ GrantedNext(u) = Granted(u)
<1>1. admin[a].op.kind \in {"status", "delete", "roles"} /\ admin[a].op.user # u
  BY DEF Dropped
<1>2. UpdateUser(a) \/ SoftDeleteUser(a) \/ SetUserRoles(a)
  BY <1>1 DEF SetRolePermissionGroups, SetGroupPermissions, Checked
<1>3. status'[u] = status[u] /\ deleted'[u] = deleted[u]
  BY <1>1, <1>2 DEF UpdateUser, SoftDeleteUser, SetUserRoles, TypeOK
<1>4. /\ userRoles'[u] = userRoles[u] /\ roleGroups' = roleGroups
      /\ groupPerms' = groupPerms
  BY <1>1, <1>2 DEF UpdateUser, SoftDeleteUser, SetUserRoles, TypeOK
<1>5. QED
  BY <1>3, <1>4 DEF Granted, GrantedNext, GrantedBy

LEMMA CoherenceInit == Init => CoherenceInv
BY DEF Init, CoherenceInv, AnswersAreCurrent, StaleEntriesArePending, Loading,
       Idle, NoEntry

\* A pending call of instance i that will drop the entry of u.
WillDrop(a, i, u) ==
  /\ admin[a] # Idle
  /\ admin[a].pc = "written" /\ admin[a].inst = i
  /\ Dropped(admin[a].op, u)

\* Entries may go and pending calls may come when the tables stay the same.
LEMMA EntriesFrame ==
  ASSUME StaleEntriesArePending, UNCHANGED db,
         \A i \in Instances, u \in Users :
           \/ cache'[i][u].left = 0
           \/ /\ cache'[i][u].left > 0 => cache[i][u].left > 0
              /\ cache'[i][u].perms = cache[i][u].perms
              /\ cache'[i][u].source = cache[i][u].source
              /\ \A a \in Admins : WillDrop(a, i, u) => WillDrop(a, i, u)'
  PROVE  StaleEntriesArePending'
<1> SUFFICES ASSUME NEW i \in Instances, NEW u \in Users,
                    cache'[i][u].left > 0, cache'[i][u].source = "db",
                    ~Accurate(u, cache[i][u].perms)'
             PROVE  \E a \in Admins : WillDrop(a, i, u)'
  BY DEF StaleEntriesArePending, WillDrop
<1>1. /\ cache[i][u].left > 0 /\ cache[i][u].source = "db"
      /\ cache'[i][u].perms = cache[i][u].perms
      /\ \A a \in Admins : WillDrop(a, i, u) => WillDrop(a, i, u)'
  OBVIOUS
<1>2. ~Accurate(u, cache[i][u].perms)
  BY <1>1 DEF db, Accurate, Granted, GrantedBy
<1>3. \E a \in Admins : WillDrop(a, i, u)
  BY <1>1, <1>2 DEF StaleEntriesArePending, WillDrop
<1>4. QED
  BY <1>1, <1>3

\* The same for the answers in flight.
LEMMA AnswersFrame ==
  ASSUME AnswersAreCurrent, UNCHANGED db,
         \A q \in Requests :
           \/ req'[q].pc \in {"idle", "admitted"}
           \/ /\ req'[q].pc = req[q].pc /\ req'[q].user = req[q].user
              /\ req'[q].claims = req[q].claims /\ req'[q].perms = req[q].perms
              /\ req'[q].source = req[q].source
  PROVE  AnswersAreCurrent'
BY DEF AnswersAreCurrent, Loading, db, Accurate, Granted, GrantedBy

\* A write of this process may falsify entries of this process only where it is
\* about to drop them; everywhere else what it falsifies is marked.
LEMMA CoherenceWrite ==
  ASSUME TypeOK, CoherenceInv, NEW a \in Admins,
         \/ UpdateUser(a) \/ SoftDeleteUser(a) \/ SetUserRoles(a)
         \/ SetRolePermissionGroups(a) \/ SetGroupPermissions(a)
  PROVE  CoherenceInv'
<1>1. Committed(a) /\ admin[a].pc = "checked" /\ admin[a] \in AdminCall
  BY NotIdle DEF UpdateUser, SoftDeleteUser, SetUserRoles,
       SetRolePermissionGroups, SetGroupPermissions, Checked
<1>2. \A u, perms : Accurate(u, perms)' <=> AccurateNext(u, perms)
  BY DEF Accurate, AccurateNext, Granted, GrantedNext, GrantedBy
<1>3. AnswersAreCurrent'
  <2>1. ASSUME NEW q \in Requests, req'[q].pc \in {"loading", "answered"}
        PROVE  /\ req'[q].claims # {} => req'[q].source # "db"
               /\ (req'[q].pc = "answered" /\ req'[q].source = "db")
                    => AccurateNext(req'[q].user, req'[q].perms)
    <3>1. req'[q].pc = req[q].pc
      BY <1>1, CommittedHistory
    <3>2. req[q] \in Request
      BY <2>1, <3>1, NotIdle
    <3>3. req'[q] = IF req[q].pc = "answered"
                         /\ ~AccurateNext(req[q].user, req[q].perms)
                    THEN [req[q] EXCEPT !.source = "overtaken"] ELSE req[q]
      BY <1>1 DEF Committed, MarkOvertaken
    <3>4. req[q].claims # {} => req[q].source # "db"
      BY <2>1, <3>1 DEF CoherenceInv, AnswersAreCurrent, Loading
    <3>5. QED
      BY <3>2, <3>3, <3>4 DEF Request
  <2>2. QED
    BY <1>2, <2>1 DEF AnswersAreCurrent, Loading
<1>4. ASSUME NEW i \in Instances, NEW u \in Users,
             cache'[i][u].left > 0, cache'[i][u].source = "db",
             ~AccurateNext(u, cache'[i][u].perms)
      PROVE  \E b \in Admins : WillDrop(b, i, u)'
  <2>1. cache'[i][u] = IF /\ i # admin[a].inst /\ cache[i][u].left > 0
                          /\ ~AccurateNext(u, cache[i][u].perms)
                       THEN [cache[i][u] EXCEPT !.source = "overtaken"]
                       ELSE cache[i][u]
    BY <1>1 DEF Committed, MarkOvertaken
  <2>2. cache[i][u] \in Entry
    BY DEF TypeOK
  <2>3. i = admin[a].inst /\ cache'[i][u] = cache[i][u]
    BY <1>4, <2>1, <2>2 DEF Entry
  <2>4. /\ admin'[a] = [admin[a] EXCEPT !.pc = "written"]
        /\ \A b \in Admins : b # a => admin'[b] = admin[b]
    BY <1>1 DEF Committed, TypeOK
  <2>5. CASE Dropped(admin[a].op, u)
    <3>1. /\ admin'[a].pc = "written" /\ admin'[a].inst = i
          /\ admin'[a].op = admin[a].op
      BY <1>1, <2>3, <2>4 DEF AdminCall
    <3>2. WillDrop(a, i, u)'
      BY <2>5, <3>1 DEF WillDrop, Idle, Dropped
    <3>3. QED
      BY <3>2
  <2>6. CASE ~Dropped(admin[a].op, u)
    <3>1. /\ status'[u] = status[u] /\ deleted'[u] = deleted[u]
          /\ GrantedNext(u) = Granted(u)
      BY <2>6, WriteScope
    <3>2. ~Accurate(u, cache[i][u].perms)
      BY <1>4, <2>3, <3>1 DEF Accurate, AccurateNext
    <3>3. PICK b \in Admins : WillDrop(b, i, u)
      BY <1>4, <2>3, <3>2 DEF CoherenceInv, StaleEntriesArePending, WillDrop
    <3>4. b # a
      BY <1>1, <3>3 DEF WillDrop
    <3>5. WillDrop(b, i, u)'
      BY <2>4, <3>3, <3>4 DEF WillDrop
    <3>6. QED
      BY <3>5
  <2>7. QED
    BY <2>5, <2>6
<1>5. StaleEntriesArePending'
  BY <1>2, <1>4 DEF StaleEntriesArePending, WillDrop
<1>6. QED
  BY <1>3, <1>5 DEF CoherenceInv

LEMMA CoherenceNext == TypeOK /\ CoherenceInv /\ [Next]_vars => CoherenceInv'
<1> SUFFICES ASSUME TypeOK, CoherenceInv, [Next]_vars PROVE CoherenceInv'
  OBVIOUS
<1> USE DEF CoherenceInv
<1>1. ASSUME NEW u \in Users, IssueToken(u) PROVE CoherenceInv'
  BY <1>1, AnswersFrame, EntriesFrame DEF IssueToken, WillDrop
<1>2. ASSUME NEW q \in Requests, NEW i \in Instances, NEW u \in Users,
             ServeFromCache(q, i, u)
      PROVE  CoherenceInv'
  <2>1. \A r \in Requests : req'[r] = req[r] \/ req'[r].pc \in {"idle", "admitted"}
    BY <1>2, GuardResult DEF ServeFromCache, TypeOK
  <2>2. QED
    BY <1>2, <2>1, AnswersFrame, EntriesFrame DEF ServeFromCache, WillDrop
<1>3. ASSUME NEW q \in Requests, NEW i \in Instances, NEW u \in Users,
             StartLoad(q, i, u)
      PROVE  CoherenceInv'
  <2>1. PICK tk \in tokens[u], needs \in RouteNeeds :
          req' = [req EXCEPT ![q] =
                   [pc |-> "loading", inst |-> i, user |-> u, needs |-> needs,
                    claims |-> tk.claims, perms |-> {}, age |-> 0,
                    source |-> IF tk.claims = {} THEN "db" ELSE "claims"]]
    BY <1>3 DEF StartLoad
  <2>2. AnswersAreCurrent'
    BY <1>3, <2>1 DEF StartLoad, AnswersAreCurrent, Loading, TypeOK, db, Accurate,
                      Granted, GrantedBy
  <2>3. StaleEntriesArePending'
    BY <1>3, EntriesFrame DEF StartLoad, WillDrop
  <2>4. QED
    BY <2>2, <2>3
<1>4. ASSUME NEW q \in Requests, QueryUser(q) PROVE CoherenceInv'
  <2>1. req[q] \in Request /\ Loading(q)
    BY <1>4, NotIdle DEF QueryUser, Loading
  <2>2. CASE Refused(q)
    <3>1. \A r \in Requests : req'[r] = req[r] \/ req'[r].pc = "idle"
      BY <1>4, <2>2 DEF QueryUser, Idle, TypeOK
    <3>2. QED
      BY <1>4, <3>1, AnswersFrame, EntriesFrame DEF QueryUser, WillDrop
  <2>3. CASE ~Refused(q)
    <3> DEFINE perms == IF req[q].claims # {} THEN req[q].claims
                        ELSE Granted(req[q].user)
    <3>1. req' = [req EXCEPT ![q] =
                    [req[q] EXCEPT !.pc = "answered", !.perms = perms]]
      BY <1>4, <2>3 DEF QueryUser
    <3>2. /\ req'[q].user = req[q].user /\ req'[q].source = req[q].source
          /\ req'[q].claims = req[q].claims /\ req'[q].perms = perms
          /\ \A r \in Requests : r # q => req'[r] = req[r]
      BY <2>1, <3>1 DEF Request, TypeOK
    <3>3. req[q].source = "db" => Accurate(req[q].user, perms)
      BY <2>1, <2>3 DEF AnswersAreCurrent, Refused, IsBlocked, Accurate, Blocked
    <3>4. req[q].claims # {} => req[q].source # "db"
      BY <2>1 DEF AnswersAreCurrent
    <3>5. \A u, ps : Accurate(u, ps)' <=> Accurate(u, ps)
      BY <1>4 DEF QueryUser, db, Accurate, Granted, GrantedBy
    <3>6. AnswersAreCurrent'
      <4>1. ASSUME NEW r \in Requests, r # q
            PROVE  /\ req'[r].pc \in {"loading", "answered"} /\ req'[r].claims # {}
                        => req'[r].source # "db"
                   /\ (req'[r].pc = "answered" /\ req'[r].source = "db")
                        => Accurate(req'[r].user, req'[r].perms)
        BY <3>2, <4>1 DEF AnswersAreCurrent, Loading
      <4>2. /\ req'[q].claims # {} => req'[q].source # "db"
            /\ req'[q].source = "db" => Accurate(req'[q].user, req'[q].perms)
        BY <3>2, <3>3, <3>4
      <4>3. QED
        BY <3>5, <4>1, <4>2 DEF AnswersAreCurrent, Loading
    <3>7. StaleEntriesArePending'
      BY <1>4, EntriesFrame DEF QueryUser, WillDrop
    <3>8. QED
      BY <3>6, <3>7
  <2>4. QED
    BY <2>2, <2>3
<1>5. ASSUME NEW q \in Requests, FillCache(q) PROVE CoherenceInv'
  <2>1. req[q] \in Request /\ req[q].inst \in Instances /\ req[q].user \in Users
    BY <1>5, NotIdle DEF FillCache, Request
  <2>2. \A r \in Requests : req'[r] = req[r] \/ req'[r].pc \in {"idle", "admitted"}
    BY <1>5, GuardResult DEF FillCache, TypeOK
  <2>3. AnswersAreCurrent'
    BY <1>5, <2>2, AnswersFrame DEF FillCache
  <2>4. ASSUME NEW i \in Instances, NEW u \in Users
        PROVE  \/ cache'[i][u] = cache[i][u]
               \/ /\ u = req[q].user
                  /\ cache'[i][u].perms = req[q].perms
                  /\ cache'[i][u].source = req[q].source
    BY <1>5, <2>1 DEF FillCache, TypeOK
  <2>5. req[q].source = "db" => Accurate(req[q].user, req[q].perms)
    BY <1>5 DEF FillCache, AnswersAreCurrent
  <2>6. ASSUME NEW i \in Instances, NEW u \in Users,
               cache'[i][u].left > 0, cache'[i][u].source = "db",
               ~Accurate(u, cache'[i][u].perms)
        PROVE  \E a \in Admins : WillDrop(a, i, u)
    <3>1. cache'[i][u] = cache[i][u]
      BY <2>4, <2>5, <2>6
    <3>2. QED
      BY <2>6, <3>1 DEF StaleEntriesArePending, WillDrop
  <2>7. \A u, perms : Accurate(u, perms)' <=> Accurate(u, perms)
    BY <1>5 DEF FillCache, db, Accurate, Granted, GrantedBy
  <2>8. UNCHANGED admin
    BY <1>5 DEF FillCache
  <2>9. StaleEntriesArePending'
    BY <2>6, <2>7, <2>8 DEF StaleEntriesArePending, WillDrop
  <2>10. QED
    BY <2>3, <2>9
<1>6. ASSUME NEW q \in Requests, Finish(q) PROVE CoherenceInv'
  <2>1. \A r \in Requests : req'[r] = req[r] \/ req'[r].pc = "idle"
    BY <1>6 DEF Finish, Idle, TypeOK
  <2>2. QED
    BY <1>6, <2>1, AnswersFrame, EntriesFrame DEF Finish, WillDrop
<1>7. ASSUME NEW a \in Admins, AdminCheck(a) PROVE CoherenceInv'
  <2>1. \A b \in Admins : admin[b] # Idle => admin'[b] = admin[b]
    BY <1>7 DEF AdminCheck, TypeOK
  <2>2. \A b \in Admins, i \in Instances, u \in Users :
          WillDrop(b, i, u) => WillDrop(b, i, u)'
    BY <2>1 DEF WillDrop
  <2>3. QED
    BY <1>7, <2>2, AnswersFrame, EntriesFrame DEF AdminCheck
<1>8. ASSUME NEW a \in Admins,
             \/ UpdateUser(a) \/ SoftDeleteUser(a) \/ SetUserRoles(a)
             \/ SetRolePermissionGroups(a) \/ SetGroupPermissions(a)
      PROVE  CoherenceInv'
  BY <1>8, CoherenceWrite
<1>9. ASSUME NEW a \in Admins, Invalidate(a) PROVE CoherenceInv'
  <2>1. admin[a].pc = "written" /\ admin[a] \in AdminCall
    BY <1>9, NotIdle DEF Invalidate
  <2>2. ASSUME NEW i \in Instances, NEW u \in Users
        PROVE  \/ cache'[i][u].left = 0
               \/ /\ cache'[i][u] = cache[i][u]
                  /\ \A b \in Admins : WillDrop(b, i, u) => WillDrop(b, i, u)'
    <3>1. CASE i = admin[a].inst /\ Dropped(admin[a].op, u)
      BY <1>9, <3>1 DEF Invalidate, TypeOK, NoEntry
    <3>2. CASE ~(i = admin[a].inst /\ Dropped(admin[a].op, u))
      <4>1. cache'[i][u] = cache[i][u]
        BY <1>9, <3>2 DEF Invalidate, TypeOK
      <4>2. ASSUME NEW b \in Admins, WillDrop(b, i, u) PROVE WillDrop(b, i, u)'
        <5>1. b # a
          BY <3>2, <4>2 DEF WillDrop
        <5>2. admin'[b] = admin[b]
          BY <1>9, <5>1 DEF Invalidate, TypeOK
        <5>3. QED
          BY <4>2, <5>2 DEF WillDrop
      <4>3. QED
        BY <4>1, <4>2
    <3>3. QED
      BY <3>1, <3>2
  <2>3. UNCHANGED <<db, req>>
    BY <1>9 DEF Invalidate
  <2>4. AnswersAreCurrent'
    BY <2>3, AnswersFrame
  <2>5. StaleEntriesArePending'
    BY <2>2, <2>3, EntriesFrame
  <2>6. QED
    BY <2>4, <2>5
<1>10. ASSUME NEW i \in Instances, Restart(i) PROVE CoherenceInv'
  <2>1. ASSUME NEW j \in Instances, NEW u \in Users
        PROVE  \/ cache'[j][u].left = 0
               \/ /\ cache'[j][u] = cache[j][u]
                  /\ \A b \in Admins : WillDrop(b, j, u) => WillDrop(b, j, u)'
    <3>1. CASE j = i
      BY <1>10, <3>1 DEF Restart, TypeOK, NoEntry
    <3>2. CASE j # i
      <4>1. \A b \in Admins : admin[b].inst = j => admin'[b] = admin[b]
        BY <1>10, <3>2 DEF Restart
      <4>2. \A b \in Admins : WillDrop(b, j, u) => WillDrop(b, j, u)'
        BY <4>1 DEF WillDrop
      <4>3. QED
        BY <1>10, <3>2, <4>2 DEF Restart, TypeOK
    <3>3. QED
      BY <3>1, <3>2
  <2>2. \A q \in Requests : req'[q] = req[q] \/ req'[q].pc = "idle"
    BY <1>10 DEF Restart, Idle
  <2>3. UNCHANGED db
    BY <1>10 DEF Restart
  <2>4. AnswersAreCurrent'
    BY <2>2, <2>3, AnswersFrame
  <2>5. StaleEntriesArePending'
    BY <2>1, <2>3, EntriesFrame
  <2>6. QED
    BY <2>4, <2>5
<1>11. CASE Tick
  <2>1. ASSUME NEW q \in Requests
        PROVE  \/ req'[q] = req[q]
               \/ /\ req'[q].pc = req[q].pc /\ req'[q].user = req[q].user
                  /\ req'[q].claims = req[q].claims /\ req'[q].perms = req[q].perms
                  /\ req'[q].source = req[q].source
    <3>1. Loading(q) => req[q] \in Request
      BY NotIdle DEF Loading
    <3>2. QED
      BY <1>11, <3>1 DEF Tick, Request
  <2>2. ASSUME NEW i \in Instances, NEW u \in Users
        PROVE  \/ cache'[i][u].left = 0
               \/ /\ cache[i][u].left > 0
                  /\ cache'[i][u].perms = cache[i][u].perms
                  /\ cache'[i][u].source = cache[i][u].source
    <3>1. cache[i][u] \in Entry
      BY DEF TypeOK
    <3>2. QED
      BY <1>11, <3>1, ConstantsAssumption DEF Tick, Entry, NoEntry
  <2>3. UNCHANGED <<db, admin>>
    BY <1>11 DEF Tick
  <2>4. AnswersAreCurrent'
    BY <2>1, <2>3, AnswersFrame
  <2>5. \A a \in Admins, i \in Instances, u \in Users :
          WillDrop(a, i, u) => WillDrop(a, i, u)'
    BY <2>3 DEF WillDrop
  <2>6. StaleEntriesArePending'
    BY <2>2, <2>3, <2>5, EntriesFrame
  <2>7. QED
    BY <2>4, <2>6
<1>12. CASE UNCHANGED vars
  BY <1>12, AnswersFrame, EntriesFrame DEF vars, db, WillDrop
<1>13. QED
  BY <1>1, <1>2, <1>3, <1>4, <1>5, <1>6, <1>7, <1>8, <1>9, <1>10, <1>11, <1>12
     DEF Next, RequestStep, AdminStep

\* A stale entry that no foreign write and no overtaken load explains has a
\* pending admin call of the same process that will drop it.
THEOREM Coherence == Spec => []StaleEntriesArePending
<1>1. Spec => []CoherenceInv
  BY CoherenceInit, CoherenceNext, TypeCorrect, PTL DEF Spec
<1>2. CoherenceInv => StaleEntriesArePending
  BY DEF CoherenceInv
<1>3. QED
  BY <1>1, <1>2, PTL
=============================================================================

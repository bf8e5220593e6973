--------------------------- MODULE IdentityAccess ---------------------------
(***************************************************************************)
(* Who a request is, and what it may do: AuthGuard, RbacGuard, the         *)
(* in-process access cache of IdentityAccessService, and the admin calls   *)
(* of IdentityAdminService that change users, roles and groups and then    *)
(* drop cache entries.                                                     *)
(*                                                                         *)
(* Several server processes (Instances) share one database; each keeps a   *)
(* cache of its own.  A request that misses the cache reads the database   *)
(* and fills the cache in a later step (the await), so admin writes, other *)
(* requests and the clock run in between.  A user and the subject of its   *)
(* tokens are one identity: no operation changes users.auth_subject_id,    *)
(* and cacheSet / invalidateUser / invalidateAll always treat the cache    *)
(* and subjectToUserId alike.                                              *)
(*                                                                         *)
(* Time is counted in ticks and kept relative: an entry or a token carries *)
(* the time it has LEFT, a load its AGE, and the two history variables     *)
(* count the ticks SINCE a user was last unblocked or last held a          *)
(* permission.                                                             *)
(***************************************************************************)
EXTENDS Naturals

CONSTANTS
  Users, Roles, Groups, Perms,  \* rows of users, roles, permission_groups, permissions
  StatusInputs,                 \* the statuses PATCH /users/:id is called with
  Instances,                    \* server processes
  Requests,                     \* HTTP requests in flight
  Admins,                       \* admin calls in flight
  Ttl,                          \* AUTH_USER_CACHE_TTL_MS; 0 disables the cache
  Latency,                      \* bound on the life of one load
  TokenTtl,                     \* life of an access token
  Hook                          \* is the Custom Access Token Hook installed?

Status == {"INVITED", "PENDING_APPROVAL", "ACTIVE", "SUSPENDED", "DEACTIVATED"}

ASSUME ConstantsAssumption ==
  /\ Ttl \in Nat /\ Latency \in Nat /\ TokenTtl \in Nat \ {0}
  /\ Hook \in BOOLEAN
  /\ StatusInputs \subseteq Status

VARIABLES
  status, deleted,      \* columns of users
  userRoles, roleGroups, groupPerms,  \* the three join tables
  tokens,               \* access tokens alive, per user
  cache,                \* IdentityAccessService.cache of every instance
  req,                  \* requests between arrival and answer
  admin,                \* admin calls between arrival and answer
  sinceActive,          \* history: ticks since the user was unblocked
  sinceGranted          \* history: ticks since the user had the permission

db    == <<status, deleted, userRoles, roleGroups, groupPerms>>
since == <<sinceActive, sinceGranted>>
vars  == <<status, deleted, userRoles, roleGroups, groupPerms, tokens, cache,
           req, admin, sinceActive, sinceGranted>>

\* The history counters stop here; every bound below is smaller.
Horizon == TokenTtl + Latency + Ttl + 1

-----------------------------------------------------------------------------
(* What the database answers *)

\* isBlocked, and a bug: it forgets one of the two statuses.
IsBlockedDeactivatedOnly(st) == st = "DEACTIVATED"
IsBlocked(st) == st \in {"SUSPENDED", "DEACTIVATED"}

\* What the users table says, for the properties and for the hook.
Blocked(st, del) == del \/ st \in {"SUSPENDED", "DEACTIVATED"}

\* users -> user_roles -> role_permission_groups -> group_permissions
GrantedBy(ur, rg, gp, u) ==
  {p \in Perms : \E r \in ur[u] : \E g \in rg[r] : p \in gp[g]}

Granted(u) == GrantedBy(userRoles, roleGroups, groupPerms, u)
GrantedNext(u) == GrantedBy(userRoles', roleGroups', groupPerms', u)

-----------------------------------------------------------------------------
(* Types *)

Token   == [claims : SUBSET Perms, left : 1..TokenTtl]

\* History: where an answer came from, and whether a write overtook it.
Source  == {"db", "claims", "overtaken"}

\* An expired entry is never returned, so it is the same as no entry.
Entry   == [perms : SUBSET Perms, left : 0..Ttl, source : Source]
NoEntry == [perms |-> {}, left |-> 0, source |-> "db"]

Idle    == [pc |-> "idle"]
Request == [pc     : {"loading", "answered", "admitted"},
            inst   : Instances,
            user   : Users,
            needs  : SUBSET Perms,  \* @RequirePermission of the route
            claims : SUBSET Perms,  \* crm_permissions of the token
            perms  : SUBSET Perms,  \* AuthUser.permissions, once known
            age    : 0..Latency,
            source : Source]

AdminOp ==
  [kind : {"status"}, user : Users, to : StatusInputs]
    \cup [kind : {"delete"}, user : Users]
    \cup [kind : {"roles"}, user : Users, to : SUBSET Roles]
    \cup [kind : {"groups"}, role : Roles, to : SUBSET Groups]
    \cup [kind : {"perms"}, group : Groups, to : SUBSET Perms]

AdminCall == [pc : {"checked", "written"}, inst : Instances, op : AdminOp]

TypeOK ==
  /\ status \in [Users -> Status]
  /\ deleted \in [Users -> BOOLEAN]
  /\ userRoles \in [Users -> SUBSET Roles]
  /\ roleGroups \in [Roles -> SUBSET Groups]
  /\ groupPerms \in [Groups -> SUBSET Perms]
  /\ tokens \in [Users -> SUBSET Token]
  /\ cache \in [Instances -> [Users -> Entry]]
  /\ req \in [Requests -> Request \cup {Idle}]
  /\ admin \in [Admins -> AdminCall \cup {Idle}]
  /\ sinceActive \in [Users -> 0..Horizon]
  /\ sinceGranted \in [Users -> [Perms -> 0..Horizon]]

-----------------------------------------------------------------------------
(* History *)

\* Both counters are zero while the fact holds.
RecordHistory ==
  /\ sinceActive' = [u \in Users |->
       IF Blocked(status'[u], deleted'[u]) THEN sinceActive[u] ELSE 0]
  /\ sinceGranted' = [u \in Users |-> [p \in Perms |->
       IF p \in GrantedNext(u) THEN 0 ELSE sinceGranted[u][p]]]

\* What a reader of the database would be told about u is exactly perms.
Accurate(u, perms) == ~Blocked(status[u], deleted[u]) /\ perms = Granted(u)
AccurateNext(u, perms) ==
  ~Blocked(status'[u], deleted'[u]) /\ perms = GrantedNext(u)

\* A write of instance i overtakes the answers in flight everywhere and the
\* entries of the other instances: those may be stale without a bug here.
MarkOvertaken(i) ==
  /\ cache' = [j \in Instances |-> [u \in Users |->
       IF j # i /\ cache[j][u].left > 0 /\ ~AccurateNext(u, cache[j][u].perms)
       THEN [cache[j][u] EXCEPT !.source = "overtaken"]
       ELSE cache[j][u]]]
  /\ req' = [q \in Requests |->
       IF req[q].pc = "answered" /\ ~AccurateNext(req[q].user, req[q].perms)
       THEN [req[q] EXCEPT !.source = "overtaken"]
       ELSE req[q]]

Init ==
  /\ status = [u \in Users |-> "ACTIVE"]
  /\ deleted = [u \in Users |-> FALSE]
  /\ userRoles = [u \in Users |-> Roles]
  /\ roleGroups = [r \in Roles |-> Groups]
  /\ groupPerms = [g \in Groups |-> Perms]
  /\ tokens = [u \in Users |-> {}]
  /\ cache = [i \in Instances |-> [u \in Users |-> NoEntry]]
  /\ req = [q \in Requests |-> Idle]
  /\ admin = [a \in Admins |-> Idle]
  /\ sinceActive = [u \in Users |-> 0]
  /\ sinceGranted = [u \in Users |-> [p \in Perms |->
       IF p \in Granted(u) THEN 0 ELSE Horizon]]

-----------------------------------------------------------------------------
(* Requests *)

RouteNeeds == {{}} \cup {{p} : p \in Perms}

\* cacheSet: expiresAt is one life-time ahead; and a bug: one tick more.
LifetimeOffByOne == Ttl + 1
Lifetime == Ttl

\* cacheGet returns a live entry; with Ttl = 0 it returns nothing.
CacheHit(i, u) == Ttl # 0 /\ cache[i][u].left > 0

\* RbacGuard lets the request through or answers 403.
RbacGuard(i, u, needs, perms) ==
  IF needs \subseteq perms
  THEN [pc |-> "admitted", inst |-> i, user |-> u, needs |-> needs,
        claims |-> {}, perms |-> perms, age |-> 0, source |-> "db"]
  ELSE Idle

\* Supabase Auth signs an access token; the hook, when installed, copies the
\* permissions of a user that is not blocked into its claims.
IssueToken(u) ==
  /\ LET claims == IF Hook /\ ~Blocked(status[u], deleted[u]) THEN Granted(u) ELSE {}
     IN  tokens' = [tokens EXCEPT ![u] = @ \cup {[claims |-> claims, left |-> TokenTtl]}]
  /\ UNCHANGED <<db, cache, req, admin, since>>

\* A bug: a hit renews the entry.
ServeFromCacheSliding(q, i, u) ==
  /\ req[q] = Idle
  /\ tokens[u] # {}
  /\ CacheHit(i, u)
  /\ \E needs \in RouteNeeds :
       req' = [req EXCEPT ![q] = RbacGuard(i, u, needs, cache[i][u].perms)]
  /\ cache' = [cache EXCEPT ![i][u].left = Ttl]
  /\ UNCHANGED <<db, tokens, admin, since>>

\* resolveFromToken with a verified token, answered by the cache.
ServeFromCache(q, i, u) ==
  /\ req[q] = Idle
  /\ tokens[u] # {}
  /\ CacheHit(i, u)
  /\ \E needs \in RouteNeeds :
       req' = [req EXCEPT ![q] = RbacGuard(i, u, needs, cache[i][u].perms)]
  /\ UNCHANGED <<db, tokens, cache, admin, since>>

\* resolveFromToken with a verified token that misses the cache.
StartLoad(q, i, u) ==
  /\ req[q] = Idle
  /\ ~CacheHit(i, u)
  /\ \E tk \in tokens[u], needs \in RouteNeeds :
       req' = [req EXCEPT ![q] =
                 [pc |-> "loading", inst |-> i, user |-> u, needs |-> needs,
                  claims |-> tk.claims, perms |-> {}, age |-> 0,
                  source |-> IF tk.claims = {} THEN "db" ELSE "claims"]]
  /\ UNCHANGED <<db, tokens, cache, admin, since>>

\* findFirst finds no row, or the row is blocked; and a bug: a token with
\* claims is believed without a look at the status.
RefusedUnlessClaimed(q) ==
  req[q].claims = {} /\ (deleted[req[q].user] \/ IsBlocked(status[req[q].user]))
Refused(q) == deleted[req[q].user] \/ IsBlocked(status[req[q].user])

\* The query of loadAuthUserBySubject: nothing for a blocked or deleted user
\* (401), else the claims of the token if it has any, else the database's.
QueryUser(q) ==
  /\ req[q].pc = "loading"
  /\ req' = [req EXCEPT ![q] =
       IF Refused(q) THEN Idle
       ELSE [@ EXCEPT !.pc = "answered",
                      !.perms = IF req[q].claims # {} THEN req[q].claims
                                ELSE Granted(req[q].user)]]
  /\ UNCHANGED <<db, tokens, cache, admin, since>>

\* After the await: cacheSet, whatever happened meanwhile, then the guard.
FillCache(q) ==
  /\ req[q].pc = "answered"
  /\ LET r == req[q] IN
     /\ cache' = IF Ttl = 0 THEN cache
                 ELSE [cache EXCEPT ![r.inst][r.user] =
                         [perms |-> r.perms, left |-> Lifetime, source |-> r.source]]
     /\ req' = [req EXCEPT ![q] = RbacGuard(r.inst, r.user, r.needs, r.perms)]
  /\ UNCHANGED <<db, tokens, admin, since>>

Finish(q) ==
  /\ req[q].pc = "admitted"
  /\ req' = [req EXCEPT ![q] = Idle]
  /\ UNCHANGED <<db, tokens, cache, admin, since>>

-----------------------------------------------------------------------------
(* Admin calls: check, write, then drop cache entries of this process *)

\* requireUser, requireRole, or the lookup of the permission group.
AdminCheck(a) ==
  /\ admin[a] = Idle
  /\ \E i \in Instances, op \in AdminOp :
       /\ op.kind \in {"status", "delete", "roles"} => ~deleted[op.user]
       /\ admin' = [admin EXCEPT ![a] = [pc |-> "checked", inst |-> i, op |-> op]]
  /\ UNCHANGED <<db, tokens, cache, req, since>>

Checked(a, kind) == admin[a].pc = "checked" /\ admin[a].op.kind = kind

\* The write has committed; the call still has to drop cache entries.
Committed(a) ==
  /\ admin' = [admin EXCEPT ![a].pc = "written"]
  /\ MarkOvertaken(admin[a].inst)
  /\ RecordHistory
  /\ UNCHANGED tokens

UpdateUser(a) ==
  /\ Checked(a, "status")
  /\ status' = [status EXCEPT ![admin[a].op.user] = admin[a].op.to]
  /\ UNCHANGED <<deleted, userRoles, roleGroups, groupPerms>>
  /\ Committed(a)

SoftDeleteUser(a) ==
  /\ Checked(a, "delete")
  /\ status' = [status EXCEPT ![admin[a].op.user] = "DEACTIVATED"]
  /\ deleted' = [deleted EXCEPT ![admin[a].op.user] = TRUE]
  /\ UNCHANGED <<userRoles, roleGroups, groupPerms>>
  /\ Committed(a)

SetUserRoles(a) ==
  /\ Checked(a, "roles")
  /\ userRoles' = [userRoles EXCEPT ![admin[a].op.user] = admin[a].op.to]
  /\ UNCHANGED <<status, deleted, roleGroups, groupPerms>>
  /\ Committed(a)

SetRolePermissionGroups(a) ==
  /\ Checked(a, "groups")
  /\ roleGroups' = [roleGroups EXCEPT ![admin[a].op.role] = admin[a].op.to]
  /\ UNCHANGED <<status, deleted, userRoles, groupPerms>>
  /\ Committed(a)

SetGroupPermissions(a) ==
  /\ Checked(a, "perms")
  /\ groupPerms' = [groupPerms EXCEPT ![admin[a].op.group] = admin[a].op.to]
  /\ UNCHANGED <<status, deleted, userRoles, roleGroups>>
  /\ Committed(a)

\* A bug: only the calls about one user drop anything.
DroppedOneUserOnly(op, u) ==
  op.kind \in {"status", "delete", "roles"} /\ op.user = u

\* invalidateUser for a call about one user, invalidateAll for the others.
Dropped(op, u) == op.kind \in {"status", "delete", "roles"} => op.user = u

Invalidate(a) ==
  /\ admin[a].pc = "written"
  /\ cache' = [cache EXCEPT ![admin[a].inst] = [u \in Users |->
       IF Dropped(admin[a].op, u) THEN NoEntry ELSE @[u]]]
  /\ admin' = [admin EXCEPT ![a] = Idle]
  /\ UNCHANGED <<db, tokens, req, since>>

-----------------------------------------------------------------------------
(* The environment *)

\* A process dies and starts again: its cache and its calls are gone.
Restart(i) ==
  /\ cache' = [cache EXCEPT ![i] = [u \in Users |-> NoEntry]]
  /\ req' = [q \in Requests |->
       IF req[q] # Idle /\ req[q].inst = i THEN Idle ELSE req[q]]
  /\ admin' = [a \in Admins |->
       IF admin[a] # Idle /\ admin[a].inst = i THEN Idle ELSE admin[a]]
  /\ UNCHANGED <<db, tokens, since>>

Loading(q) == req[q].pc \in {"loading", "answered"}

Later(n) == IF n = Horizon THEN n ELSE n + 1

\* One unit of time passes.  No load outlives Latency.
Tick ==
  /\ \A q \in Requests : Loading(q) => req[q].age < Latency
  /\ tokens' = [u \in Users |->
       {[tk EXCEPT !.left = @ - 1] : tk \in {t \in tokens[u] : t.left > 1}}]
  /\ cache' = [i \in Instances |-> [u \in Users |->
       IF cache[i][u].left > 1 THEN [cache[i][u] EXCEPT !.left = @ - 1]
       ELSE NoEntry]]
  /\ req' = [q \in Requests |->
       IF Loading(q) THEN [req[q] EXCEPT !.age = @ + 1] ELSE req[q]]
  /\ sinceActive' = [u \in Users |->
       IF Blocked(status[u], deleted[u]) THEN Later(sinceActive[u]) ELSE 0]
  /\ sinceGranted' = [u \in Users |-> [p \in Perms |->
       IF p \in Granted(u) THEN 0 ELSE Later(sinceGranted[u][p])]]
  /\ UNCHANGED <<db, admin>>

-----------------------------------------------------------------------------
(* Specification *)

RequestStep(q) == QueryUser(q) \/ FillCache(q)

AdminStep(a) ==
  \/ AdminCheck(a)
  \/ UpdateUser(a) \/ SoftDeleteUser(a) \/ SetUserRoles(a)
  \/ SetRolePermissionGroups(a) \/ SetGroupPermissions(a)
  \/ Invalidate(a)

Next ==
  \/ \E u \in Users : IssueToken(u)
  \/ \E q \in Requests, i \in Instances, u \in Users :
       ServeFromCache(q, i, u) \/ StartLoad(q, i, u)
  \/ \E q \in Requests : RequestStep(q) \/ Finish(q)
  \/ \E a \in Admins : AdminStep(a)
  \/ \E i \in Instances : Restart(i)
  \/ Tick

\* Time passes, the database answers, and the event loop runs continuations.
\* Nobody has to send a request or an admin call.
Fairness ==
  /\ WF_vars(Tick)
  /\ \A q \in Requests : WF_vars(RequestStep(q)) /\ WF_vars(Finish(q))

Spec     == Init /\ [][Next]_vars
FairSpec == Spec /\ Fairness

-----------------------------------------------------------------------------
(* Properties *)

\* A permission taken from a token may be this old when the load starts.
ClaimAge == IF Hook THEN TokenTtl - 1 ELSE 0

\* The step lets request q through the guards.
Admits(q) ==
  /\ req[q] = Idle \/ req[q].pc # "admitted"
  /\ req'[q] # Idle /\ req'[q].pc = "admitted"

\* Suspending, deactivating or deleting a user locks it out of every instance
\* after one load and one cache life-time, whichever instance took the admin
\* call, with or without token claims, and even if no entry is ever dropped:
\* isBlocked is consulted by every load, and a hit never prolongs an entry.
AdmitsActive ==
  \A q \in Requests : Admits(q) =>
    LET n == sinceActive[req'[q].user]
    IN  n <= Latency \/ n < Latency + Ttl

BlockedUsersAreLockedOut == [][AdmitsActive]_vars

\* The guards never admit a permission the user did not hold at some moment of
\* the last load and cache life-time, to which the hook adds the life of the
\* token: stale permissions run out, and nobody gets a permission of another
\* user or one that was never granted.
AdmitsGranted ==
  \A q \in Requests : Admits(q) =>
    \A p \in req'[q].perms :
      LET n == sinceGranted[req'[q].user][p]
      IN  n <= ClaimAge + Latency \/ n < ClaimAge + Latency + Ttl

RevokedPermissionsRunOut == [][AdmitsGranted]_vars

\* invalidateUser and invalidateAll drop enough.  A live entry that no admin
\* write of another process and no load in flight during a write can explain
\* agrees with the database, unless a call of this process is about to drop it.
StaleEntriesArePending ==
  \A i \in Instances, u \in Users :
    (cache[i][u].left > 0 /\ cache[i][u].source = "db"
     /\ ~Accurate(u, cache[i][u].perms))
    => \E a \in Admins : /\ admin[a] # Idle
                         /\ admin[a].pc = "written" /\ admin[a].inst = i
                         /\ Dropped(admin[a].op, u)

\* A user that stays blocked is, from some moment on, never admitted again.
BlockedUsersAreForgotten ==
  \A u \in Users :
    <>[]Blocked(status[u], deleted[u])
      => <>[](\A q \in Requests : req[q] # Idle /\ req[q].user = u
                                   => req[q].pc = "loading")

\* docs/04-development/api/auth.md:329: "Cache is dropped in-process when an
\* admin changes that user's status or roles [...]. A suspended or deactivated
\* user is not served from cache."  Stated for one process: once no admin call
\* is in progress, no blocked user has a live entry.
SuspendedUserNotServedFromCache ==
  \A i \in Instances, u \in Users :
    (/\ Blocked(status[u], deleted[u])
     /\ \A a \in Admins : admin[a] = Idle)
    => cache[i][u].left = 0

-----------------------------------------------------------------------------
(* Inductive invariants behind the bounds *)

\* A history counter stands at zero while its fact holds.
CountersStart ==
  \A u \in Users :
    /\ ~Blocked(status[u], deleted[u]) => sinceActive[u] = 0
    /\ \A p \in Granted(u) : sinceGranted[u][p] = 0

\* The claims of a token were true when it was signed.
TokensAreRecent ==
  \A u \in Users : \A tk \in tokens[u] : \A p \in tk.claims :
    Hook /\ sinceGranted[u][p] + tk.left <= TokenTtl

\* What a load carries was true when it started or later.
LoadsAreRecent ==
  \A q \in Requests :
    /\ Loading(q) => \A p \in req[q].claims :
         Hook /\ sinceGranted[req[q].user][p] <= ClaimAge + req[q].age
    /\ req[q].pc = "answered" =>
         /\ sinceActive[req[q].user] <= req[q].age
         /\ \A p \in req[q].perms :
              sinceGranted[req[q].user][p] <= ClaimAge + req[q].age

\* Age and remaining life of an entry add up to one load and one life-time.
EntriesAreRecent ==
  \A i \in Instances, u \in Users : cache[i][u].left > 0 =>
    /\ sinceActive[u] + cache[i][u].left <= Latency + Ttl
    /\ \A p \in cache[i][u].perms :
         sinceGranted[u][p] + cache[i][u].left <= ClaimAge + Latency + Ttl

RecencyInv ==
  CountersStart /\ TokensAreRecent /\ LoadsAreRecent /\ EntriesAreRecent

\* An answer of the database in flight that nothing overtook is still right.
AnswersAreCurrent ==
  \A q \in Requests :
    /\ Loading(q) /\ req[q].claims # {} => req[q].source # "db"
    /\ (req[q].pc = "answered" /\ req[q].source = "db")
         => Accurate(req[q].user, req[q].perms)

CoherenceInv == AnswersAreCurrent /\ StaleEntriesArePending
=============================================================================

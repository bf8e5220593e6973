# A TLA+ model of the DYN CRM backend

The repository is a NestJS backend (`src/apps/backend`) over PostgreSQL
(Prisma), with Supabase for sign-in and file storage and Resend for mail. This
directory holds TLA+ modules of its components, the TLC configurations that
check them, and TLAPS proofs about them. Paths below are relative to
`src/apps/backend/src/` unless they start with `docs/` or `prisma/`.

What makes the system hard is one pattern that nearly every command follows:

    const record = await repo.findById(id);      // read
    if (record.status !== ...) throw ...;        // check
    await repo.update(id, {...});                // write by id, unconditionally

Handlers are async, so every `await` lets other requests run, and several
server processes may share the database. Only six operations use a transaction
(contract sync of an order, payment schedule, lead conversion, import commit,
the three replacements of roles, groups and permissions, which count as one
kind), all of them READ COMMITTED. Nothing uses a version column or a
conditional UPDATE. The models therefore split each handler at the `await`
between its check and its write, and the properties say what survives.

## 1. Inventory

| Component | State it keeps | Operations | Interacts with | What makes it correct |
|---|---|---|---|---|
| Identity access (`modules/identity/application/identity-access.service.ts`, guards, `identity-admin.service.ts`) | `users`, the role, group and permission joins; per process a cache of resolved users with a time to live; loads in flight | resolve a token, fill the cache, admin writes and their invalidation | every request passes its guards | a blocked user is locked out within a known time, a revoked permission runs out, an invalidation drops enough |
| Token verification (`supabase-jwt.verifier.ts`, `supabase-auth.adapter.ts`) | keys fetched, with an age | verify locally, else ask Supabase | feeds identity access | no invalid token is accepted, no good one refused while Supabase is up |
| Sign-in, refresh, OAuth (`auth.controller.ts`, `auth.application-service.ts`) | the PKCE cookie, Supabase sessions, the local row of the person | sign up, log in, refresh, Google and its callback | Supabase, identity access, admin commands | a session for whom the row admits, nobody else; one row per person |
| Orders and contracts (`order.application-service.ts`, `order.repository.ts`, `contract.application-service.ts`) | `orders`, `contracts`, soft-delete marks | create, patch with contract sync, assign, approve; patch and delete a contract | customers, notifications | order and contract stay on one customer; a reassignment and an approval are not lost |
| Payment schedules (`order.repository.ts`) | `payment_schedules`, lines | upsert | orders, payments | one schedule per order; payments keep their line |
| Payments, VAT invoices, commissions (`modules/finance/application`) | a status each, amount, issue date | record, verify, void; draft, issue, cancel; calculate, approve, pay | orders, each other by reference | documented life cycles; what is paid was approved |
| Expenses (`expense.application-service.ts`) | `expenses` | create, approve, reject | notifications, roles | one verdict; requester and approvers hear of it |
| Notifications (`notification.publisher.ts`, `notification.application-service.ts`) | `notifications`, unique per recipient and dedupe key | notify, mark read | orders, expenses | once per event and recipient, nobody skipped |
| Leads and contacts (`lead.application-service.ts`, `lead.repository.ts`, `contact.application-service.ts`) | `leads`, `contacts` | create, patch, delete, convert | customers | converted once; contacts follow the lead |
| Customers (`customer.application-service.ts`) and the data scope of `modules/*/domain/policies` | `customers` | create, patch, reassign, soft delete | leads, contracts, orders | an owner at all times; who lost a record does not get it back by himself |
| Import (`import.application-service.ts`) | batches, rows | open, add rows, commit | leads | each valid row becomes one lead |
| Notes, activities, followers (`modules/crm/presentation`) | rows of one customer | insert, delete | customers | - |
| Collaborators, contract requests (`modules/collaboration`) | requests and their status | submit, review, approve, reject | contracts | what is approved is what was reviewed |
| Documents (`document.application-service.ts`) | metadata rows, files in Supabase storage | upload, remove, sign a URL | contracts, orders | row and file exist together |
| Workflows, tasks (`workflow.application-service.ts`, `task.application-service.ts`) | templates, instances with a current stage, tasks | create, switch; start, advance; patch | contracts | the last stage has its date of completion; a deleted contract gets no new work |
| Mail (`mail.application-service.ts`) | log of outbound mail, templates, preferences | send | Resend | the log says what was sent; preferences hold |
| Widgeto statistics (`widgeto.application-service.ts`) | nothing | two queries per request | payments | amount and count are of the same payments |
| Seed and permissions (`prisma/seed.ts`, `@RequirePermission` of every controller) | all tables; permissions, groups, roles | wipe, create | every guarded route | a repeated seed is whole; every route has somebody who may call it |
| Reminders, services, configuration | single rows | reads and single writes | - | - |

Hard behaviours, by kind: stale reads across an `await` (all life cycles, role
cache), check and write apart (conversion, expense review, contract sync),
read-modify-write of a JSON column (approval history), races on a unique index
(notifications, first login, schedules), two stores without a common
transaction (documents, mail), swallowed errors (`notify`, approver query,
`storage.remove`), restarts between a commit and the call that follows it
(notifications, cache invalidation), time (cache and token life-times).
`PROJECT.json` lists each at its line.

## 2. Plan

The order was: who gets in, then the records money depends on, then what
composes with them, then the services that stand alone.

| # | Module | Content | State |
|---|---|---|---|
| 1 | `IdentityAccess` | who gets in, cache and invalidation | checked, proved |
| 2 | `OrderContract` | orders with their contract | checked, proved |
| 3 | `FinanceLifeCycle`, `FinanceRecords` | documented life cycles, and the handlers that implement them | checked, proved |
| 4 | `Inbox`, `NotificationPublisher` | an inbox without duplicates, and the publisher that implements it | checked, proved |
| 5 | `ExpenseReview` | composes the expense handlers with `NotificationPublisher` | checked, proved |
| 6 | `LeadConversion` | leads, contacts, conversion | checked, proved |
| 7 | `DocumentStorage` | rows and files under failures and restarts | checked, proved |
| 8 | `ContractWork` | contract status and deletion, workflows, tasks | checked, proved |
| 9 | `ContractRequest` | review beside a late edit | checked, proved |
| 10 | `MailDelivery` | preferences, template, provider, log | checked, proved |
| 11 | `ImportBatch` | commits that overlap, fail and are repeated, rows added late | checked, proved |
| 12 | `SetRegister`, `SetReplacement` | a set that is replaced at once, and the delete and insert under READ COMMITTED that implement it | checked, proved |
| 13 | `TokenVerification` | keys, outages, what falls back | checked, proved |
| 14 | `SignIn` | the local row of a person who signs in | checked, proved |
| 15 | `Ownership` | who may touch a record that changes hands | checked, proved |
| 16 | `DashboardStatistics` | two queries of one figure | checked, proved |
| 17 | `BackOffice` | 3, 6 to 16 side by side | checked, proved |
| 18 | `RolePermissions`, `SeededAccess` | the seed, killed and repeated, and what it grants | checked, proved |

What would come next: orders and `MailDelivery` as further callers of
`NotificationPublisher`; payments that lose their `scheduleLineId` when a schedule is replaced under them (the relation is SET
NULL), which joins `SetReplacement` and `FinanceRecords`.

## 3. Modules

Common conventions. A handler is a process `k \in Calls` (or requests and admin
calls in `IdentityAccess`) with a record of what it read; its actions are the
pieces between awaits. `UPDATE ... WHERE id` becomes one action that looks only
at what SQL looks at. Text, dates, amounts and numbers are left out or reduced
to a small set where a property tells them apart. Ids are UUIDs and never
reused. A transaction under READ COMMITTED is split where another transaction
can be seen between its statements, and is one step where row locks rule that
out; each module's header says why. Variables marked "history" exist for the
properties only, and no action reads one to decide anything. Operators whose
comment says "a bug" are plausible mistakes in the operator that follows them;
no specification uses them. They exist to show that a property notices.

### IdentityAccess
Several processes, one database. A request either hits its process's cache or
loads: `StartLoad`, `QueryUser` (the SQL), `FillCache` (`cacheSet` after the
await). Admin calls are `AdminCheck`, one of five writes, `Invalidate`.
Supabase's tokens, with or without the claims of the access token hook, are the
environment, as are the clock (`Tick`, relative counters) and `Restart`.
`Latency` bounds a load: it is an assumption of the time bounds, and the number
of ticks a load took is what the bounds add.

* `BlockedUsersAreLockedOut`: after suspension, deactivation or deletion no
  process admits the user later than one load and one cache life-time.
* `RevokedPermissionsRunOut`: the same for a revoked permission, plus the
  token's life when the hook is used.
* `StaleEntriesArePending`: a stale entry is due to another process, to a load
  that an admin write overtook, to old claims, or is about to be dropped.
* `BlockedUsersAreForgotten` (liveness): fairness of `Tick` (time passes) and of
  the steps of a load (the database answers).
* Violated: `SuspendedUserNotServedFromCache` (`auth.md`): a load that read the
  user before the suspension fills the cache after the invalidation.

### OrderContract
`update` reads the order, decides whether the customer moves, counts sibling
orders (`CountSiblings`) and commits order and contract together
(`CommitSync`); `assign`, `approve` (read the history column, write it whole),
`create`, the contract's `update` and `softDelete`, the customer's
`softDelete`, and restarts run in between.

* `OrdersFollowTheirContract`: order and contract name different customers only
  if somebody disputed the contract (created an order for another customer,
  edited the contract away, or created an order inside a PATCH's transaction).
* `CustomerMovesTogether`, `AssigneeNeedsPermission`, `HistoryComplete`.
* Violated: `ConflictWritesNothing` (`orders.md:121`).

### FinanceLifeCycle and FinanceRecords
`FinanceLifeCycle` is what the API documents: each command one step, allowed
from the documented statuses, and `Overtake` for a record written on stale
information, of which nothing is promised. `FinanceRecords` has the handlers:
`Check(k)` and `Write(k)` of seven commands, `overtaken` recording that a write
found the row changed since the check.

* `FollowsLifeCycle` is the refinement. It says more than it seems: as long as
  no call wrote *this* record on stale information, every step of every handler
  is a documented one, whatever is in flight on other records.
* `DecisionsAreFinal`: a void or a cancellation is never undone once the calls
  that had passed their check before are answered.
* `PaidAsApproved`: the amount paid is the one the approver read.
* Violated: `PaidOnlyFromApproved` (`commissions.md:62`), by a recalculation
  between the check and the write of `pay`. The same gap exists in `verify`
  (against `payments.md:63`: "fails if VOIDED") and `issue` (`vat.md:54`); it is
  why `DecisionsAreFinal` speaks of calls in flight and the refinement needs
  `Overtake`. FIN-I3 ("VAT
  Invoice is issued after Payment") is not kept even without overlap, as
  `paymentId` is optional and its status is never read; the model has both
  cases.

### Inbox and NotificationPublisher
`Inbox` is a box per recipient and event that is filled once and read.
`NotificationPublisher` has `notify`'s loop of `FindExisting` and `CreateRow`
per recipient, the unique index, P2002 taken for success, other errors
swallowed (`DatabaseError`), `MarkRead` and `Restart`. `Notify` is open: who
calls it is up to the module that instantiates it.

* `IsAnInbox` is the refinement: what a user finds for a key is filled once,
  never replaced and never unread again, whatever publishers race.
* `NobodySkipped`: a notify that returned normally left a row with every
  recipient.

The key `task_assigned:<order>` is one per order: an order assigned away and
back notifies the first time only. That is what the unique key means, and the
model has it.

### ExpenseReview
Instantiates `NotificationPublisher` on the same variables: `AskApprovers` and
`WriteReview` call `Notify`, `Publish` runs its steps. The approver set is
fixed, and may fail to be read (`Unasked`: the error is answered as an empty
list).

* `RequesterToldTheVerdict`: unless a verdict was written over another, the
  notification names the verdict the expense has.
* `VerdictIsHeard`: with no call at work on it, somebody else's verdict is in
  the requester's inbox unless a notify of it failed.
* `IsAnInbox`, `NobodySkipped`: the publisher's promises, with this caller.
* `ApproversAreAsked` (liveness) under weak fairness of a call's next step:
  Node resumes a handler and the database answers or fails. Failures are
  recorded in `failed`, and nothing is promised about those events.

* Violated: `ReviewedOnlyFromPending` (`expenses.md:63`): two reviews both read
  PENDING, and the second verdict is written over the first. The requester then
  keeps the notification that was created first, which `overtaken` excludes from
  `RequesterToldTheVerdict`.

### LeadConversion
`update`, `remove` and `convert` as check and write; the conversion's
transaction is one step because its UPDATE changes a uniquely indexed column
and so locks the row against foreign key checks as well.

* `ContactsFollowTheirLead`: a lead's contacts are its customer's, even through
  two conversions; only contacts created later may have no customer.
* `ConversionIsFinal`: after the calls that had passed the check are answered,
  the customer never changes, even if a stale PATCH takes the status out of
  CONVERTED. This is why `convert` asks both columns.
* Violated: `ConvertedOnce` (CRM-I3), by two overlapping conversions. By the
  same gap a lead converted since the check of `remove` is deleted
  (`leads.md:13` says it is blocked) and a PATCH takes a converted lead out of
  CONVERTED; the model has both steps.

### DocumentStorage
Database and bucket have no common transaction. `StartUpload`, `StoreFile`,
`InsertRow`; `StartDelete`, `SoftDelete`, `RemoveFile` (its error is
swallowed); `StartDownload`, `Sign`; `Register` for a key the caller names.
Every request to the bucket may be carried out and its answer lost, also across
a `Restart`.

* `LiveRowsHaveFiles`: a document on the list can be downloaded, unless its key
  was also registered by hand (whose deletion takes the file).
* `FilesAreReferenced`: a file without a row was left by an error or a restart,
  by nothing else.

### ContractWork
`changeStatus`, `softDelete` of contracts; templates, `startInstance`,
`advanceInstance`; tasks. Each reads, checks and later writes by id.

* `DeletedContractsRest`: nothing starts on a deleted contract once the calls
  that had found it are answered, and no late status change undeletes it.
  LEG-I1 (`docs/02-domain/LegalOperation.md:264`, completed only once signed)
  and LEG-I4 (`:267`, a stage is left with its requirements satisfied) are
  enforced by no code: `changeStatus` takes any status and `advanceInstance` any
  stage of the template. The model takes them too, and neither is stated.
* `EndedIsCompleted`: an instance moved to its last stage has its date, however
  advances overlap. The converse does not hold and is not claimed: moved back,
  an instance keeps its date. Tasks may be COMPLETED without a date and have a
  date in any status (`task.application-service.ts:67`); no document says
  otherwise, and the model has all these combinations.

### ContractRequest
`update` requires an editable status when it reads; `review`, `approve` and
`reject` ask for none, so a decided request may be decided again, and the model
does so.

* `ReviewedRequestsAreFrozen`: once the updates that had found it editable are
  answered, what is approved is what was reviewed; nobody decides on his own.

### MailDelivery
`isChannelEnabled` is two queries (`ReadSpecific`, `ReadWildcard`), then the
template, the provider, the log, each of which may fail or be lost.

* `LogIsTrue`: SENT only of a mail the provider took, a mail it took has a row,
  but for a restart or a second error. FAILED of a mail it took is possible: an
  error of the SENT row is caught by the same `catch`.
* `PreferencesHold`: as long as the preferences stand still while both are read.

### ImportBatch
* `ImportedOnce`: through failed and repeated commits a valid row has one lead
  and points to it. Two overlapping commits make two (`overlapped`), and a row
  added after a commit has read the batch has none (`late`).

### SetReplacement
The roles of a user, the groups of a role, the permissions of a group, the
lines of a payment schedule: `deleteMany` and an insert in one READ COMMITTED
transaction. `BeginDelete` takes the snapshot, `LockRows` waits for the rows
another transaction holds, `Insert` may clash with the unique index, and a
schedule's first writer makes the parent row (`CreateSchedule`).

* `IsARegister`: the handlers implement `SetRegister`, where a replacement is one
  step. A call that no other one took effect beside leaves exactly what it asked
  for (`identity-admin.md:20`, `orders.md:182`: "replaces"); one that overlapped
  leaves in addition at most what the others put in place meanwhile. What a
  reader of the rows sees of it is `SetIsTheLatest`, a consequence that is proved
  and has no run: the set committed last is there as a whole, and beyond it only
  what calls that overlapped it inserted.

`IdentityAccess` takes these handlers as one atomic write; this is what that
rests on.

### TokenVerification
HS256, ES256 and EdDSA as in `verifyInner`, the key cache of jwks-rsa, the
fall-back of `resolveVerifiedSubject` to Supabase Auth, forged tokens, expiry,
logout, withdrawal of the key, outages of either service.

* `VerdictsAreRight`: only a token of the project, not expired, whose key was
  withdrawn no longer ago than the cache keeps it, is accepted; a good one is
  refused by an outage only. A logged-out token passes local verification until
  it expires: signatures know nothing of a logout.
* Violated: `OutageFallsBack` (`auth.md:327`): with the JWKS unreachable,
  jsonwebtoken reports an error of the token, and a good one is answered 401.

### SignIn
The first sign-in of a person races with others and with the admin's commands
for the row that is unique per `auth_subject_id`.

* `SignInsFollowTheRow`: who gets a session had an admissible row at some moment
  of the call, who is turned away was without one at some moment; a person only
  Google vouches for is pending and without a role.

On that last point the documentation contradicts itself. `auth.md:164-169` says
that a first sign-in with Google has no role, and so do the comment and the code
of `completeGoogleOAuth` (`auth.application-service.ts:172-180`,
`defaultRoleCode: null`); `auth.md:311` says that `DEFAULT_SIGNUP_ROLE` is the
default of "cả signup + Google lần đầu", of a first sign-in with Google too. The
property states what the code does; `auth.md:311` is wrong about it.

### Ownership
Customers or leads (`kind`) and their owner, read and checked by the policies
(`InScope`, `MayName`) and an await later written by id; contracts are in scope
by their customer's owner.

* `LostRecordsStayLost`: who lost a record, and whose earlier calls on it are
  answered, gets it back from an assigner only, begins nothing on it meanwhile,
  nor on its contracts; and a customer never is without an owner.

The exception for calls under way is real: a PATCH that repeats the owner it
read passes without `customer.assign` and, landing after a reassignment, puts
the record back (`customers.md:13` asks for the permission). A lead may be given
up with `ownerId: null` without `lead.assign`.

### DashboardStatistics
`paymentsStats`: `GroupBy` and `Aggregate` on two connections, payments
recorded, verified and voided meanwhile.

* `AmountMatchesCount`: count and amount of verified payments differ by payments
  only that changed between the two queries. Such a torn figure is possible and
  lasts until the next request. A range end `to` without a time is midnight, so
  that day is not in it, although the API says "inclusive"; the model has
  ranges as sets.

### BackOffice
The modules above, `LeadConversion` and `FinanceRecords`, instantiated side by
side, each with variables of its own. They share no row and no memory, so a
step of one changes nothing another reads: a behaviour of all together is, seen
from each, a behaviour of it alone with stuttering. Interleaving them would
multiply states and show nothing, so `desk`, chosen at the start, says which one
moves. `LeadIds` and `FinanceIds` hold the constants, and the assumptions on
nulls, of the two that have proofs of their own. What does interact with
something else is not here: orders with contracts and customers
(`OrderContract`), expenses with notifications (`ExpenseReview`), the cache with
the admin's writes (`IdentityAccess`), the seed with everything
(`SeededAccess`).

### RolePermissions and SeededAccess
`RolePermissions` is data: the permissions, groups, roles and users of
`prisma/seed.ts`, and per controller the permission each route asks for.
`SeededAccess` runs the script statement by statement (wipe in foreign-key
order, identity, then domain data) on a served database: killed or failing
anywhere, run again, with requests writing meanwhile from caches that outlive
the wipe (`warm`). `Request` is any route that matters to it: `Insert`;
`DeleteRow` of a table with a DELETE route; `ReplaceRows`, the `deleteMany` and
`createMany` of `setUserRoles`, `setRolePermissionGroups`, `setGroupPermissions`
and of a payment schedule; `BlockUser`, a suspension or soft deletion. `db`
counts the script's rows as it made them, `app` is where requests have rows, and
`lost` where they have taken or blocked some of the script's; which of them is
not told apart, so a statement that refers to such a table may fail and may get
through. Once requests have written to a table of access they may have granted
anything, so any route is then open (`Callable`): more requests than the code
lets through, never fewer.

* `OnlyInterferenceStopsTheSeed`: from whatever an interrupted run left, the next
  one gets through unless a request wrote since it started.
* `CompleteSeedIsWhole`: a run that gets through leaves every row of the seed,
  but for those requests have taken; undisturbed, the seed and nothing else.
* `EveryRouteHasAUser`: then, until a request blocks a seeded user or replaces
  who holds what, every route has an active user who may call it.
  `connect` of a misspelt permission code is silently left out by the script;
  this is what notices. It says nothing of breadth: `notification.view_own` is
  in the groups `system.config` and `collab.portal` only (`seed.ts:139`), so
  most roles of the seed cannot read their own notifications.

## 4. Runs and bounds

`PROJECT.json` names each run with what it shows. The instances:

| Run | Instance | Why it is enough to be interesting |
|---|---|---|
| `identity_two` | two processes, one user, role, group, permission; Ttl 2, Latency 1 | a write in one process, a stale entry in the other, a load across the write |
| `identity_hook` | one process, tokens of life 2 | claims older than the database; the lasso of the liveness property needs one user and entry |
| `order_agree` | two orders of one contract, two customers, two calls, an assigner and a salesman; while there is one order only, approvals too, none starting after two (`MaxApprovals`, `MCApprovalsOfOneOrder`) | sync against a sibling, against a second sync, against a contract edit; a lost approval needs two |
| `expense_told` | one expense, three users who all may approve, two calls, three notification ids | approvals and rejections racing, requester among the approvers, two publishers of one key between find and create |
| `seed_access` | the whole of `seed.ts` and every controller; one table at a time that requests have rows in or have taken rows from (`MaxTables`); 685,000 states | each foreign key is tried by the table that breaks it, from either side |
| `back_office` | two calls (three of an import, `Clerks`), two rows, two values, one of whatever a desk needs once (`One`) | two calls on one row, the shape of every hazard of these services; a third commit of an import meets the leads of two others; two leads, documents, users or permissions make "the other one" exist |

In `back_office` the desks do not interleave, so its states are the sum of
those of twelve instances: about 470,000, of which finance records have
260,000, contract work 53,000, leads and sign-in 40,000 each, tokens and mail
25,000 each, owners 10,000, the smallest (imports) 1,000. Per desk: `Work` has
two templates of two stages; `Tokens` follows one token and an age of the key
up to `CacheAge` 1; `Owners` has two users and an assigner, two records, one
contract. A module's reserved values (`NoLead`, `NoDate`, ...) are model
values.

Symmetry is used for interchangeable ids in runs without liveness. In
`back_office` desks share ids (leads are `Ids`, customers and dates are
`Values`), and none compares ids of two kinds. Approvals beside two
orders are cut off by the state constraint `MCApprovalsOfOneOrder`, as the product
is too large: they touch only the history column of their order, which no other
operation reads or writes. Deadlock checking is on except in
`back_office`, where the bound on ids can be used up: then no request is left.

Six runs look for a violation (`identity_suspended`, `order_conflict`,
`finance_pay`, `expense_once`, `lead_once`, `token_outage`), each in the smallest
instance that shows the disagreement; each is a finding with the sentence it
contradicts.

Six properties do not forbid the race that is beside them in the list of
hazards, because the code loses it and no document says otherwise, or the run
that shows such a loss is one of the six: `HistoryComplete`,
`RequesterToldTheVerdict`, `PreferencesHold`, `ReviewedRequestsAreFrozen`,
`FollowsLifeCycle` and `AmountMatchesCount` say that overlapping calls are the
only way to lose it.

## 5. Proofs

Checked by TLAPS for every value of the constants, under the named assumptions
of each module, which TLC evaluates on the instances.

* `IdentityAccess_proofs`: `TypeCorrect`; `Recency`, the inductive invariant
  (age of a claim, an answer or an entry, plus the life it has left, stays
  within the bound); from it `LockOut` and `RunOut`; `Coherence`. The two time
  properties are about steps, and are not inductive alone: what is in flight
  has to carry how old it may be.
* `OrderContract_proofs`: `TypeCorrect`; `Agreement`, whose invariant adds that
  what a PATCH counted is still true while nobody disputed the contract;
  `MovesTogether` and `OnlyAssignersReassign`, about steps, from the fact that
  calls in flight passed their checks; `HistoryKept`, whose invariant says that
  a history read and not overtaken is the one in the row.
* `FinanceRecords_proofs`: `TypeCorrect`; `PaysWhatWasApproved`; `Implements`,
  the refinement of `FinanceLifeCycle`, from the invariant that each call in
  flight had passed its check on the row it remembers: a write that is not
  stale is then a step of the life cycle, and a stale one is `Overtake`;
  `Finality`.
* `NotificationPublisher_proofs`: `TypeCorrect`; `EveryoneServed`, whose
  invariant says of a notify under way that everyone it passed by has a row;
  `Implements`, the refinement of `Inbox`. It needs the unique index as an
  invariant, since only then is "the row found" a function of the table, and
  says nothing of fairness.
* `ExpenseReview_proofs` instantiates the publisher's proofs on the variables of
  `ExpenseReview`: every step of a review is a step of the publisher, so its two
  theorems carry over. `TheVerdictIsTold` and `TheVerdictIsHeard` add what the
  handlers know: whoever notifies of a verdict has written it, and a verdict is
  either being notified of, failed, or in the inbox.
* `LeadConversion_proofs`: `TypeCorrect`; `ContactsFollow`, inductive with the
  types; `Finality`, which is about steps: the customer of a lead changes only
  by a conversion in flight, and none starts on a converted lead.
* `BackOffice_proofs`: one lemma per desk that a step of the back office is a
  step of it or leaves its variables alone. From these, `EachDeskAlone`: every
  behaviour of the back office is a behaviour of each of the twelve components,
  so nothing about a component needs the others. For leads and finance records
  the proofs above are instantiated, the desk is shown to be the instance, and
  the theorems carry over. The other desks are proved here, each from an
  invariant of its own: which call may still store or remove which key
  (documents), `WorkInv` (instances stand at a stage of their template, and so
  does what a call is about to write), `RequestsInv`, `MailsInv` (what is known
  of a mail at each point of its call), `ImportInv` (leads per row are counted
  by the row; what a commit has read is a past of the row), `SetsInv` (what a
  transaction has not seen was committed beside it), `TokensInv` (a cached key
  is no older than its age; a good token at work is good now), `SignInsInv`
  (every call remembers whether the row was good), `OwnersInv` (a patch under
  way by someone who may not assign names nobody but himself), `StatisticsInv`
  (what the first query answered is still so for the payments that stood
  still). `ReplacesAtOnce` is the refinement of `SetRegister`, from `SetsInv`:
  the rows a transaction leaves beside its own are those it has not seen, and
  they were put in place during its call. `TypeCorrect`, the types of all
  desks, follows from these invariants and the few variables they leave out;
  only for imports it takes an argument of its own: a row has no more leads
  than there are calls because its leads and the commits still at work are
  together never more than the calls.
* `SeededAccess_proofs`: first the statements of the script, one by one
  (`MainAt`, `CreatedAt`), then two facts on their order: every table is wiped
  after those that refer to it (`ChildrenFirst`), and filled after those it
  refers to (`ParentsFirst`). The inductive invariant `SeedInv` adds `OwnRows`:
  in a table this run has wiped there are as many of the script's rows as the
  statements passed since have created (`Made`), unless requests have taken some,
  and while none has interfered no request's and none taken. Requests keep it
  (`LeavesInv`) because whatever they do is either in `lost` or sets
  `interfered`. So every statement finds what it needs (`OnlyInterferenceStops`),
  and the end is the whole seed but for `lost` (`CompleteIsWhole`).
  `RoutesHaveUsers` follows, as long as nothing of access is lost, from that and
  a fact about the data: the codes the routes ask for are, group by group, codes
  the seed has, and lead through groups and roles to an active user.

Only model-checked: liveness (`BlockedUsersAreForgotten`, `ApproversAreAsked`),
which is beyond the prover. Every other property of a passing run is a theorem.

Assumptions on the constants, besides the nulls: `Clerks` is finite (`ImportBatch`
counts calls), the stages of a template (`Length`) and the life of a cached key
(`CacheAge`) are numbers. `RolePermissions` and the script have no constants; of
`SeededAccess` only the bound `MaxTables` is general.

Fairness: time passes (`Tick`), and a step a process can take it takes
(`identity_hook`, `expense_told`): Node runs every ready continuation, and a
query ends by an answer or an error. Nothing else is assumed
fair; no safety property uses it.

## 6. Not modelled

Listed with the reason in `PROJECT.json`. In short:

* notes, activities, followers, the service catalogue, configuration, reminders
  and the links of collaborators to customers: single inserts, updates and
  deletes of rows that nothing else decides by. Nothing fires a reminder; there
  is no scheduler in the code.
* `createRole`, `createPermission`, `createPermissionGroup`: inserts of rows
  nothing refers to yet. Password reset and change only forward to Supabase.
* `change-stage`, `stageData` and the free text of orders: one column, written
  by one UPDATE, that no other operation reads.
* the dashboard's figures of customers and orders: one query each, which cannot
  be torn.
* bootstrap, validation pipes, exception filter, DTOs, lists and pages: no
  state.
* Supabase, Resend, PostgreSQL and jwks-rsa beyond what the code relies on,
  marked `external` in the map.

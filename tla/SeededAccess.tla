---------------------------- MODULE SeededAccess ----------------------------
(***************************************************************************)
(* prisma/seed.ts on a database that the backend is serving: wipe, then    *)
(* seedIdentity, then seedDomainData, one statement after the other and    *)
(* without a transaction. Requests of users insert, replace and delete     *)
(* rows in between, the script dies or fails at any statement, and is run  *)
(* again.                                                                  *)
(*                                                                         *)
(* A table is the number of rows the script created in it, in order, and   *)
(* whether requests put rows into it or took some of the script's away.    *)
(* Foreign keys are taken table by table: a row of a request refers to     *)
(* some row of each table it must.                                         *)
(***************************************************************************)
EXTENDS RolePermissions, SequencesExt

CONSTANT MaxTables  \* bound: tables that requests have touched at once

ASSUME MaxTablesAssumption == MaxTables \in Nat

VARIABLES
  db,          \* table -> number of rows the script created since it was wiped
  app,         \* tables that hold rows of requests
  lost,        \* tables of whose script's rows requests deleted or blocked some
  script,      \* of the script: status, and its next statement
  warm,        \* a server process remembers the permissions of a full seed
  interfered   \* history: a request wrote since the script was started

vars == <<db, app, lost, script, warm, interfered>>

-----------------------------------------------------------------------------
(* Tables *)

\* Foreign keys ON DELETE RESTRICT: a row refers to one of each of these ...
MustRefer ==
  [ userRole |-> {"user", "role"}, rolePermissionGroup |-> {"role", "permissionGroup"},
    groupPermission |-> {"permissionGroup", "permission"},
    customer |-> {"user"}, customerFollower |-> {"customer", "user"},
    importRow |-> {"importBatch"}, collaboratorCustomer |-> {"collaborator"},
    contractRequest |-> {"collaborator"}, contract |-> {"customer"},
    workflowStage |-> {"workflowTemplate"}, stageRequirement |-> {"workflowStage"},
    workflowInstance |-> {"contract", "workflowTemplate", "workflowStage"},
    task |-> {"contract"}, order |-> {"contract", "service"},
    paymentSchedule |-> {"order"}, paymentScheduleLine |-> {"paymentSchedule"},
    payment |-> {"order"}, vatInvoice |-> {"order"}, expense |-> {"order"},
    commission |-> {"order"} ]

\* ... and ON DELETE SET NULL: the script's rows fill these columns too.
MayRefer ==
  [ lead |-> {"user", "customer"}, contact |-> {"customer", "lead"},
    task |-> {"workflowInstance"}, documentMetadata |-> {"contract", "order"},
    order |-> {"collaborator"}, payment |-> {"paymentScheduleLine"},
    vatInvoice |-> {"payment"}, commission |-> {"payment", "collaborator"},
    outboundEmailLog |-> {"notification"} ]

\* In the order of wipe.
Wiped == <<
  "outboundEmailLog", "userNotificationPreference", "emailTemplate", "reminder",
  "notification", "commission", "expense", "vatInvoice", "payment",
  "paymentScheduleLine", "paymentSchedule", "documentMetadata", "task",
  "workflowInstance", "stageRequirement", "workflowStage", "workflowTemplate",
  "order", "contract", "contractRequest", "collaboratorCustomer", "collaborator",
  "service", "importRow", "importBatch", "activity", "note", "customerFollower",
  "contact", "lead", "customer", "groupPermission", "rolePermissionGroup", "userRole",
  "permission", "permissionGroup", "role", "user", "appConfig" >>

\* The models of the schema.
Tables == {
  "outboundEmailLog", "userNotificationPreference", "emailTemplate", "reminder",
  "notification", "commission", "expense", "vatInvoice", "payment",
  "paymentScheduleLine", "paymentSchedule", "documentMetadata", "task",
  "workflowInstance", "stageRequirement", "workflowStage", "workflowTemplate",
  "order", "contract", "contractRequest", "collaboratorCustomer", "collaborator",
  "service", "importRow", "importBatch", "activity", "note", "customerFollower",
  "contact", "lead", "customer", "groupPermission", "rolePermissionGroup", "userRole",
  "permission", "permissionGroup", "role", "user", "appConfig" }

Of(refs, t) == IF t \in DOMAIN refs THEN refs[t] ELSE {}

\* Tables where a request may take the code, key or pair of a row of the script.
Chosen == {"permission", "permissionGroup", "role", "user", "userRole", "rolePermissionGroup",
           "groupPermission", "service", "customerFollower", "collaborator",
           "collaboratorCustomer", "contract", "order", "paymentSchedule", "vatInvoice",
           "emailTemplate", "appConfig"}

\* Tables where the script gives no id and no unique column: a row may be there twice.
Unkeyed == {"contact", "note", "activity", "contractRequest", "task", "documentMetadata",
            "notification", "reminder", "outboundEmailLog"}

\* Permissions of the routes that insert into the table; "" where a sign-up does.
Inserting ==
  [ customer |-> {CustomersController.create, LeadsController.convert},
    customerFollower |-> {CustomerFollowersController.add},
    note |-> {NotesController.create}, activity |-> {ActivitiesController.create},
    lead |-> {LeadsController.create, ImportsController.commit},
    contact |-> {ContactsController.create}, importBatch |-> {ImportsController.createBatch},
    importRow |-> {ImportsController.addRows}, service |-> {ServicesController.create},
    contract |-> {ContractsController.create},
    workflowTemplate |-> {WorkflowTemplatesController.createTemplate},
    workflowStage |-> {WorkflowTemplatesController.createTemplate},
    workflowInstance |-> {WorkflowInstancesController.startInstance},
    task |-> {TasksController.create},
    documentMetadata |-> {DocumentsController.create, DocumentsController.upload},
    order |-> {OrdersController.create}, payment |-> {PaymentsController.create},
    paymentSchedule |-> {OrdersController.createPaymentSchedule},
    paymentScheduleLine |-> {OrdersController.createPaymentSchedule},
    vatInvoice |-> {VatInvoicesController.create}, expense |-> {ExpensesController.create},
    notification |-> {OrdersController.create, OrdersController.assign,
                      ExpensesController.create, ExpensesController.approve},
    commission |-> {CommissionsController.create},
    collaborator |-> {CollaboratorsController.create},
    collaboratorCustomer |-> {CollaboratorsController.assignCustomer},
    contractRequest |-> {ContractRequestsController.create},
    user |-> {"", UsersController.createUser}, userRole |-> {"", UsersController.createUser},
    role |-> {RolesController.createRole},
    permission |-> {PermissionsController.createPermission},
    permissionGroup |-> {PermissionsController.createPermissionGroup},
    reminder |-> {RemindersController.create},
    userNotificationPreference |-> {NotificationPreferencesController.upsertOwn},
    emailTemplate |-> {EmailTemplatesController.create},
    outboundEmailLog |-> {MailController.sendTemplated}, appConfig |-> {ConfigController.update} ]

\* Permission of the route that deletes a row; soft deletion leaves it in the table.
Removing ==
  [ note |-> NotesController.remove, customerFollower |-> CustomerFollowersController.remove,
    lead |-> LeadsController.remove, contact |-> ContactsController.remove,
    task |-> TasksController.remove,
    collaboratorCustomer |-> CollaboratorsController.unassignCustomer,
    emailTemplate |-> EmailTemplatesController.remove, reminder |-> RemindersController.remove ]

\* Routes that delete all rows of an owner and insert others, in one transaction.
Replacing ==
  [ userRole |-> [owner |-> "user", permission |-> UsersController.setUserRoles],
    rolePermissionGroup |->
      [owner |-> "role", permission |-> RolesController.setRolePermissionGroups],
    groupPermission |->
      [owner |-> "permissionGroup", permission |-> PermissionsController.setGroupPermissions],
    paymentScheduleLine |->
      [owner |-> "paymentSchedule", permission |-> OrdersController.createPaymentSchedule] ]

\* Tables that say who may call what.
AccessTables == {"user", "userRole", "rolePermissionGroup", "groupPermission"}

-----------------------------------------------------------------------------
(* The statements of the script *)

Create(tables) == [op |-> "create", tables |-> tables]

\* Codes of the group; one that is not in ALL_PERMISSIONS is left out, without a word.
CodesOf(group) == ToSet(group.permissions) \cap ToSet(ALL_PERMISSIONS)

DeleteEach(tables) == [i \in DOMAIN tables |-> [op |-> "wipe", tables |-> {tables[i]}]]

\* And bugs: contracts go before the orders on them, a table is forgotten.
WipeTooEarly == DeleteEach([Wiped EXCEPT ![18] = Wiped[19], ![19] = Wiped[18]])
WipeButImports == DeleteEach(SelectSeq(Wiped, LAMBDA t : t # "importBatch"))
WipeButNotes == DeleteEach(SelectSeq(Wiped, LAMBDA t : t # "note"))
Wipe == DeleteEach(Wiped)

\* The inserts of one turn of an outer loop are one statement here: what a kill
\* leaves of them is in the table or not, and the next run wipes either.
SeedIdentity ==
  <<Create({"permission"})>>
  \o [i \in DOMAIN GROUPS      |-> Create({"permissionGroup", "groupPermission"})]
  \o [i \in DOMAIN ROLE_GROUPS |-> Create({"role", "rolePermissionGroup"})]
  \o [i \in DOMAIN USERS       |-> Create({"user", "userRole"})]

\* Statements, not rows: createMany and a nested create are one each.
SeedCustomers == <<
  Create({"service"}), Create({"customer"}), Create({"customerFollower"}), Create({"lead"}),
  Create({"contact"}), Create({"note"}), Create({"activity"}) >>
SeedLegal == <<
  Create({"collaborator"}), Create({"collaboratorCustomer"}), Create({"contractRequest"}),
  Create({"contract"}), Create({"workflowTemplate", "workflowStage", "stageRequirement"}),
  Create({"workflowInstance"}), Create({"task"}) >>
SeedFinance == <<
  Create({"order"}), Create({"paymentSchedule", "paymentScheduleLine"}), Create({"payment"}),
  Create({"vatInvoice"}), Create({"expense"}), Create({"commission"}) >>
SeedCommunication == <<
  Create({"documentMetadata"}), Create({"notification"}), Create({"reminder"}),
  Create({"outboundEmailLog"}), Create({"emailTemplate"}), Create({"appConfig"}) >>
SeedDomainData == SeedCustomers \o SeedLegal \o SeedFinance \o SeedCommunication

Main == Wipe \o SeedIdentity \o SeedDomainData

\* Inserts of the script into the table once it is through.
SeedCount == [t \in Tables |-> Cardinality({i \in DOMAIN Main :
                 Main[i].op = "create" /\ t \in Main[i].tables})]

-----------------------------------------------------------------------------
(* Who holds what *)

\* Permissions of the i-th user by what has been inserted into the join tables.
GrantedTo(i, d) ==
  LET roles  == {j \in 1..d["rolePermissionGroup"] : ROLE_GROUPS[j].code = USERS[i].role}
      groups == UNION {ToSet(ROLE_GROUPS[j].groups) : j \in roles}
  IN UNION {CodesOf(GROUPS[j]) : j \in {j \in 1..d["groupPermission"] :
                                          GROUPS[j].code \in groups}}

ActiveUsers(d) == {i \in 1..d["userRole"] : USERS[i].status = "ACTIVE"}
Granted(d) == UNION {GrantedTo(i, d) : i \in ActiveUsers(d)}
GrantedAtTheEnd == Granted(SeedCount)

-----------------------------------------------------------------------------
(* Steps *)

Created == {t \in Tables : db[t] > 0}
Nonempty == app \cup Created

TypeOK ==
  /\ db \in [Tables -> Nat] /\ \A t \in Tables : db[t] <= SeedCount[t]
  /\ app \subseteq DOMAIN Inserting \cup DOMAIN Replacing
  /\ lost \subseteq Created \cap (DOMAIN Removing \cup DOMAIN Replacing \cup {"user"})
  /\ script \in [status : {"ready", "running", "failed", "complete"}, next : 1..Len(Main) + 1]
  /\ warm \in {"yes", "no"} /\ interfered \in {"yes", "no"}

Init ==
  /\ db = [t \in Tables |-> 0] /\ app = {} /\ lost = {}
  /\ script = [status |-> "ready", next |-> 1]
  /\ warm = "no" /\ interfered = "no"

Start ==
  /\ script.status # "running"
  /\ script' = [status |-> "running", next |-> 1]
  /\ interfered' = "no"
  /\ UNCHANGED <<db, app, lost, warm>>

Running == script.status = "running" /\ script.next <= Len(Main)
Statement == Main[script.next]
Advanced == [script EXCEPT !.next = @ + 1]

\* No row may refer to a row that goes.
Referring(t) == {u \in Nonempty : t \in Of(MustRefer, u)}

WipeTable ==
  /\ Running /\ Statement.op = "wipe"
  /\ \A t \in Statement.tables : Referring(t) = {}
  /\ db' = [t \in Tables |-> IF t \in Statement.tables THEN 0 ELSE db[t]]
  /\ app' = app \ Statement.tables
  /\ lost' = lost \ Statement.tables
  /\ script' = Advanced
  /\ UNCHANGED <<warm, interfered>>

\* The rows a new row of the script refers to, some created by the same statement.
References(tables) == (UNION {Of(MustRefer, t) \cup Of(MayRefer, t) : t \in tables}) \ tables

\* How often this run has created in the table: a row that is there already is in conflict.
CreatedSoFar(t) == Cardinality({i \in 1..script.next - 1 :
                      Main[i].op = "create" /\ t \in Main[i].tables})

CreateRows ==
  /\ Running /\ Statement.op = "create"
  /\ \A t \in References(Statement.tables) : db[t] > 0
  /\ \A t \in Statement.tables \ Unkeyed : db[t] = CreatedSoFar(t)
  /\ db' = [t \in Tables |-> IF t \in Statement.tables THEN db[t] + 1 ELSE db[t]]
  /\ script' = Advanced
  /\ UNCHANGED <<app, lost, warm, interfered>>

\* The statement is refused, and main().catch exits with 1. It may be where a
\* request has deleted a row that it may refer to, or has taken a unique value.
StatementFails ==
  /\ Running
  /\ \/ /\ Statement.op = "wipe"
        /\ \E t \in Statement.tables : Referring(t) # {}
     \/ /\ Statement.op = "create"
        /\ \/ \E t \in References(Statement.tables) : db[t] = 0 \/ t \in lost \ {"user"}
           \/ \E t \in Statement.tables \ Unkeyed : db[t] # CreatedSoFar(t)
           \/ Statement.tables \cap app \cap Chosen # {}
  /\ script' = [script EXCEPT !.status = "failed"]
  /\ UNCHANGED <<db, app, lost, warm, interfered>>

Finish ==
  /\ script = [status |-> "running", next |-> Len(Main) + 1]
  /\ script' = [script EXCEPT !.status = "complete"]
  /\ UNCHANGED <<db, app, lost, warm, interfered>>

\* Killed, or disconnected from the database.
Killed ==
  /\ script.status = "running"
  /\ script' = [status |-> "ready", next |-> 1]
  /\ UNCHANGED <<db, app, lost, warm, interfered>>

\* A request passes RbacGuard by what its process remembers or now reads. What
\* requests have granted or withdrawn is not told apart: they may have granted
\* anything, and a withdrawn permission may be in a cache.
Callable ==
  {""} \cup CASE warm = "yes" -> GrantedAtTheEnd
              [] warm = "no" /\ app \cap AccessTables # {} -> Asked
              [] warm = "no" /\ app \cap AccessTables = {} -> Granted(db)

\* What a request leaves behind.
Leaves(rows, gone) ==
  /\ app' = rows /\ lost' = gone
  /\ Cardinality(app' \cup lost') <= MaxTables
  /\ interfered' = "yes"
  /\ UNCHANGED <<db, script, warm>>

Insert(callable) == \E t \in DOMAIN Inserting :
  /\ Inserting[t] \cap callable # {}
  /\ Of(MustRefer, t) \subseteq Nonempty
  /\ Leaves(app \cup {t}, lost)

\* The last row of requests goes, or one of the script's.
DeleteRow(callable) == \E t \in DOMAIN Removing :
  /\ Removing[t] \in callable
  /\ \/ t \in app /\ Leaves(app \ {t}, lost)
     \/ t \in Created /\ Leaves(app, lost \cup {t})

\* The owner had rows of the script or not; the new set, like the old, may be empty.
ReplaceRows(callable) == \E t \in DOMAIN Replacing :
  /\ Replacing[t].permission \in callable
  /\ Replacing[t].owner \in Nonempty
  /\ \E gone \in SUBSET (Created \cap {t}) :
       \/ Leaves(app \ {t}, lost \cup gone)
       \/ Of(MustRefer, t) \subseteq Nonempty /\ Leaves(app \cup {t}, lost \cup gone)

\* updateUser with another status, or softDeleteUser, of a user of the script.
BlockUser(callable) ==
  /\ {UsersController.updateUser, UsersController.softDeleteUser} \cap callable # {}
  /\ "user" \in Created
  /\ Leaves(app, lost \cup {"user"})

Request == \E callable \in {Callable} :
  \/ Insert(callable) \/ DeleteRow(callable) \/ ReplaceRows(callable) \/ BlockUser(callable)

\* Requests of a fully seeded system fill the caches, which expire or are dropped.
Remember ==
  /\ db = SeedCount
  /\ warm' = "yes"
  /\ UNCHANGED <<db, app, lost, script, interfered>>
Forget ==
  /\ warm' = "no"
  /\ UNCHANGED <<db, app, lost, script, interfered>>

Next == \/ Start \/ WipeTable \/ CreateRows \/ StatementFails \/ Finish \/ Killed
        \/ Request \/ Remember \/ Forget

Spec == Init /\ [][Next]_vars

-----------------------------------------------------------------------------
(* Properties *)

\* Run alone, the script gets through from whatever an earlier run or the
\* backend left in the database: wipe goes from leaf to root along every
\* foreign key, and every row is created after the rows it refers to.
OnlyInterferenceStopsTheSeed ==
  script.status = "failed" => interfered = "yes"

\* A run that gets through leaves all rows of the seed, whatever interrupted
\* runs came first, but for those that requests have taken away since; left
\* alone by requests, it leaves the seed and nothing else.
CompleteSeedIsWhole ==
  script.status = "complete" =>
    /\ \A t \in Tables \ lost : db[t] = SeedCount[t]
    /\ interfered = "no" => app = {} /\ lost = {}

\* After it, until a request blocks a user of the seed or replaces a user's
\* roles, a role's groups or a group's permissions, every route of every
\* controller has an active user who may call it: no misspelt code was left
\* out on the way, no role without a user needed.
EveryRouteHasAUser ==
  script.status = "complete" /\ lost \cap AccessTables = {} => Asked \subseteq Granted(db)
=============================================================================

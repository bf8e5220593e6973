-------------------------- MODULE RolePermissions --------------------------
(***************************************************************************)
(* Who may call what: the permissions, groups and roles of prisma/seed.ts, *)
(* and the permission that RbacGuard asks for at each route.               *)
(*                                                                         *)
(* A controller is the record of its routes. A route is named after the    *)
(* application service's method that it calls; the value is the argument   *)
(* of @RequirePermission.                                                  *)
(***************************************************************************)
EXTENDS Sequences, FiniteSets, Naturals

ALL_PERMISSIONS == <<
  "customer.view", "customer.create", "customer.update", "customer.delete",
  "customer.assign", "customer.import", "customer.export", "lead.view",
  "lead.create", "lead.update", "lead.delete", "lead.assign", "lead.convert",
  "lead.import", "contact.view", "contact.create", "contact.update",
  "contact.delete", "service.view", "service.create", "service.update",
  "service.archive", "contract.view", "contract.create", "contract.update",
  "contract.delete", "contract.change_status", "workflow_template.manage",
  "task.view", "task.create", "task.update", "document.upload", "order.view",
  "order.create", "order.update", "order.delete", "order.assign",
  "order.change_stage", "order.approve", "payment.view", "payment.create",
  "payment.verify", "payment.void", "vat.view", "vat.create", "vat.issue",
  "vat.cancel", "expense.view", "expense.create", "expense.approve",
  "commission.view", "commission.calculate", "commission.approve",
  "commission.pay", "collaborator.view", "collaborator.create",
  "collaborator.update", "collaborator.deactivate",
  "contract_request.create", "contract_request.view",
  "contract_request.review", "contract_request.approve",
  "contract_request.reject", "collaborator_customer.assign", "user.manage",
  "role.manage", "permission.manage", "notification.view_own",
  "email.template.manage", "config.manage" >>

GROUPS == <<
  [code |-> "identity.admin", permissions |-> <<
     "user.manage", "role.manage", "permission.manage" >>],
  [code |-> "system.config", permissions |-> <<
     "config.manage", "notification.view_own", "email.template.manage" >>],
  [code |-> "crm.full", permissions |-> <<
     "customer.view", "customer.create", "customer.update",
     "customer.delete", "customer.assign", "customer.import",
     "customer.export", "lead.view", "lead.create", "lead.update",
     "lead.delete", "lead.assign", "lead.convert", "lead.import",
     "contact.view", "contact.create", "contact.update", "contact.delete" >>],
  [code |-> "crm.manage", permissions |-> <<
     "customer.view", "customer.create", "customer.update",
     "customer.assign", "customer.export", "lead.view", "lead.create",
     "lead.update", "lead.assign", "lead.convert", "contact.view",
     "contact.create", "contact.update" >>],
  [code |-> "crm.read", permissions |-> <<
     "customer.view", "lead.view", "contact.view" >>],
  [code |-> "lead.full", permissions |-> <<
     "lead.view", "lead.create", "lead.update", "lead.delete", "lead.assign",
     "lead.convert", "lead.import" >>],
  [code |-> "service.full", permissions |-> <<
     "service.view", "service.create", "service.update", "service.archive" >>],
  [code |-> "legal.full", permissions |-> <<
     "contract.view", "contract.create", "contract.update",
     "contract.delete", "contract.change_status", "workflow_template.manage",
     "task.view", "task.create", "task.update", "document.upload" >>],
  [code |-> "legal.read_write", permissions |-> <<
     "contract.view", "contract.create", "contract.update", "task.view",
     "task.create", "task.update", "document.upload" >>],
  [code |-> "legal.support", permissions |-> <<
     "contract.view", "task.view", "task.update", "document.upload" >>],
  [code |-> "finance.full", permissions |-> <<
     "order.view", "order.create", "order.update", "order.delete",
     "order.assign", "order.change_stage", "order.approve", "payment.view",
     "payment.create", "payment.verify", "payment.void", "vat.view",
     "vat.create", "vat.issue", "vat.cancel", "expense.view",
     "expense.create", "expense.approve", "commission.view",
     "commission.calculate", "commission.approve", "commission.pay" >>],
  [code |-> "finance.read", permissions |-> <<
     "order.view", "payment.view", "vat.view", "expense.view",
     "commission.view" >>],
  [code |-> "order.approve", permissions |-> <<
     "order.view", "order.approve", "order.change_stage" >>],
  [code |-> "order.create_own", permissions |-> <<
     "order.view", "order.create", "order.update", "payment.view",
     "payment.create" >>],
  [code |-> "collab.admin", permissions |-> <<
     "collaborator.view", "collaborator.create", "collaborator.update",
     "collaborator.deactivate", "contract_request.view",
     "contract_request.review", "contract_request.approve",
     "contract_request.reject", "collaborator_customer.assign",
     "commission.view" >>],
  [code |-> "collab.portal", permissions |-> <<
     "customer.view", "contract_request.create", "contract_request.view",
     "commission.view", "notification.view_own" >>],
  [code |-> "order.view", permissions |-> <<
     "order.view" >>] >>

\* SUPER_ADMIN has every group.
ROLE_GROUPS == <<
  [code |-> "SUPER_ADMIN", groups |-> [i \in DOMAIN GROUPS |-> GROUPS[i].code]],
  [code |-> "ADMIN", groups |-> <<"identity.admin", "crm.full", "service.full",
     "legal.full", "finance.full", "collab.admin", "system.config">>],
  [code |-> "MANAGER", groups |-> <<"crm.manage", "legal.read_write", "finance.read",
     "order.approve", "service.full">>],
  [code |-> "LAWYER", groups |-> <<"legal.full", "crm.read", "order.view">>],
  [code |-> "LEGAL_ASSISTANT", groups |-> <<"legal.support", "crm.read">>],
  [code |-> "ACCOUNTING", groups |-> <<"finance.full", "crm.read">>],
  [code |-> "SALES", groups |-> <<"crm.full", "lead.full", "order.create_own",
     "service.full">>],
  [code |-> "COLLABORATOR", groups |-> <<"collab.portal">>] >>

USERS == <<
  [role |-> "ADMIN", status |-> "ACTIVE"], [role |-> "MANAGER", status |-> "ACTIVE"],
  [role |-> "SALES", status |-> "ACTIVE"], [role |-> "SALES", status |-> "ACTIVE"],
  [role |-> "LAWYER", status |-> "ACTIVE"], [role |-> "ACCOUNTING", status |-> "ACTIVE"],
  [role |-> "COLLABORATOR", status |-> "ACTIVE"],
  [role |-> "SALES", status |-> "SUSPENDED"] >>

-----------------------------------------------------------------------------
(* Controllers *)

CustomersController ==
  [create |-> "customer.create", list |-> "customer.view", getById |-> "customer.view",
   update |-> "customer.update", softDelete |-> "customer.delete"]

CustomerFollowersController ==
  [list |-> "customer.view", add |-> "customer.update", remove |-> "customer.update"]

NotesController ==
  [create |-> "customer.update", list |-> "customer.view",
   update |-> "customer.update", remove |-> "customer.update"]

ActivitiesController ==
  [create |-> "customer.update", list |-> "customer.view"]

LeadsController ==
  [create |-> "lead.create", list |-> "lead.view", getById |-> "lead.view",
   update |-> "lead.update", remove |-> "lead.delete", convert |-> "lead.convert"]

ContactsController ==
  [create |-> "contact.create", list |-> "contact.view", getById |-> "contact.view",
   update |-> "contact.update", remove |-> "contact.delete"]

ImportsController ==
  [createBatch |-> "lead.import", addRows |-> "lead.import", commit |-> "lead.import"]

ServicesController ==
  [create |-> "service.create", list |-> "service.view", getById |-> "service.view",
   update |-> "service.update", archive |-> "service.archive"]

ContractsController ==
  [create |-> "contract.create", list |-> "contract.view", getById |-> "contract.view",
   update |-> "contract.update", softDelete |-> "contract.delete",
   changeStatus |-> "contract.change_status"]

WorkflowTemplatesController ==
  [createTemplate |-> "workflow_template.manage",
   listTemplates |-> "workflow_template.manage", listStages |-> "workflow_template.manage",
   getTemplate |-> "workflow_template.manage", updateTemplate |-> "workflow_template.manage"]

\* And a bug: the guard asks for a code that the seed does not have.
WorkflowInstancesUnseeded ==
  [startInstance |-> "workflow_instance.manage", advanceInstance |-> "workflow_instance.manage"]
WorkflowInstancesController ==
  [startInstance |-> "workflow_template.manage",
   advanceInstance |-> "workflow_template.manage"]

TasksController ==
  [create |-> "task.create", list |-> "task.view", getById |-> "task.view",
   update |-> "task.update", remove |-> "task.update"]

DocumentsController ==
  [upload |-> "document.upload", create |-> "document.upload",
   list |-> "document.upload", getById |-> "document.upload",
   getDownloadUrl |-> "document.upload", softDelete |-> "document.upload"]

OrdersController ==
  [create |-> "order.create", list |-> "order.view", getDetail |-> "order.view",
   getById |-> "order.view", update |-> "order.update", assign |-> "order.assign",
   changeStage |-> "order.change_stage", approve |-> "order.approve",
   getPaymentSchedule |-> "order.view", createPaymentSchedule |-> "order.update"]

PaymentsController ==
  [create |-> "payment.create", list |-> "payment.view", getById |-> "payment.view",
   verify |-> "payment.verify", void |-> "payment.void"]

VatInvoicesController ==
  [create |-> "vat.create", list |-> "vat.view", getById |-> "vat.view",
   issue |-> "vat.issue", cancel |-> "vat.cancel"]

ExpensesController ==
  [create |-> "expense.create", list |-> "expense.view", getById |-> "expense.view",
   approve |-> "expense.approve", reject |-> "expense.approve"]

CommissionsController ==
  [create |-> "commission.calculate", list |-> "commission.view",
   getById |-> "commission.view", calculate |-> "commission.calculate",
   approve |-> "commission.approve", pay |-> "commission.pay"]

CollaboratorsController ==
  [create |-> "collaborator.create", list |-> "collaborator.view",
   getById |-> "collaborator.view", update |-> "collaborator.update",
   deactivate |-> "collaborator.deactivate",
   assignCustomer |-> "collaborator_customer.assign",
   unassignCustomer |-> "collaborator_customer.assign",
   listCustomers |-> "collaborator.view"]

ContractRequestsController ==
  [create |-> "contract_request.create", list |-> "contract_request.view",
   getById |-> "contract_request.view", update |-> "contract_request.create",
   review |-> "contract_request.review", approve |-> "contract_request.approve",
   reject |-> "contract_request.reject"]

UsersController ==
  [listUsers |-> "user.manage", getUser |-> "user.manage", createUser |-> "user.manage",
   updateUser |-> "user.manage", softDeleteUser |-> "user.manage",
   setUserRoles |-> "user.manage"]

RolesController ==
  [listRoles |-> "role.manage", getRole |-> "role.manage", createRole |-> "role.manage",
   updateRole |-> "role.manage", setRolePermissionGroups |-> "role.manage"]

PermissionsController ==
  [listPermissions |-> "permission.manage", createPermission |-> "permission.manage",
   listPermissionGroups |-> "permission.manage", getPermissionGroup |-> "permission.manage",
   createPermissionGroup |-> "permission.manage", setGroupPermissions |-> "permission.manage"]

NotificationsController ==
  [listOwn |-> "notification.view_own", markRead |-> "notification.view_own"]

NotificationPreferencesController ==
  [listOwn |-> "notification.view_own", upsertOwn |-> "notification.view_own"]

RemindersController ==
  [create |-> "notification.view_own", list |-> "notification.view_own",
   getById |-> "notification.view_own", update |-> "notification.view_own",
   remove |-> "notification.view_own", complete |-> "notification.view_own"]

EmailTemplatesController ==
  [create |-> "email.template.manage", list |-> "email.template.manage",
   getById |-> "email.template.manage", update |-> "email.template.manage",
   remove |-> "email.template.manage"]

MailController ==
  [status |-> "email.template.manage", listLogs |-> "email.template.manage",
   sendTest |-> "email.template.manage", sendTemplated |-> "email.template.manage"]

\* Reading the configuration asks for no permission.
ConfigController == [update |-> "config.manage"]

Controllers == {
  CustomersController, CustomerFollowersController, NotesController,
  ActivitiesController, LeadsController, ContactsController,
  ImportsController, ServicesController, ContractsController,
  WorkflowTemplatesController, WorkflowInstancesController, TasksController,
  DocumentsController, OrdersController, PaymentsController,
  VatInvoicesController, ExpensesController, CommissionsController,
  CollaboratorsController, ContractRequestsController, UsersController,
  RolesController, PermissionsController, NotificationsController,
  NotificationPreferencesController, RemindersController,
  EmailTemplatesController, MailController, ConfigController }

\* Every permission that some route asks for.
Asked == UNION {{c[r] : r \in DOMAIN c} : c \in Controllers}

=============================================================================

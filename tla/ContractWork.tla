---------------------------- MODULE ContractWork ----------------------------
(***************************************************************************)
(* What is done on a contract: its status and deletion                     *)
(* (ContractApplicationService), workflow instances                        *)
(* (WorkflowApplicationService) and tasks (TaskApplicationService).        *)
(*                                                                         *)
(* Every handler reads, checks, and an await later writes by id alone.     *)
(* Templates get their stages when they are created and keep them.         *)
(***************************************************************************)
EXTENDS Naturals

CONSTANTS
  Calls, Contracts, Instances, Tasks,
  Templates,
  Length  \* template -> its number of stages, a function to Nat

VARIABLES
  contract,  \* rows of contracts
  active,    \* template -> isActive, or none before it is created
  instance,  \* rows of workflow_instances
  task,      \* rows of tasks
  call

vars == <<contract, active, instance, task, call>>

\* The i-th stage by sortOrder, which is unique in the template.
Stages(t) == {t} \X (1..Length[t])
Stage     == UNION {Stages(t) : t \in Templates}
\* The stage an instance starts at. And a bug: stages are counted from 0.
FirstIsZero(t) == <<t, 0>>
FirstStage(t) == <<t, 1>>
LastStage(t)  == <<t, Length[t]>>

NoInstance == [template |-> "none"]
Contract == [life : {"live", "deleted"}, status : {"DRAFT", "SIGNED", "COMPLETED"},
             signedAt : {"null", "set"}]
Instance == [contract : Contracts, template : Templates, currentStage : Stage,
             completedAt : {"null", "set"}, moved : {"no", "yes"}]
Task == [state : {"there"}, contract : Contracts, status : {"OPEN", "DONE"},
         completedAt : {"null", "set"}]
NoTask  == [state |-> "none"]
Deleted == [state |-> "deleted"]

Idle == [pc |-> "idle"]
Call == {Idle} \cup [pc : {"contract"}, contract : Contracts]
  \cup [pc : {"template"}, contract : Contracts]
  \cup [pc : {"instance"}, contract : Contracts, template : Templates]
  \cup [pc : {"advance"}, instance : Instances, stage : Stage]
  \cup [pc : {"new task"}, contract : Contracts]
  \cup [pc : {"task"}, task : Tasks]

TypeOK ==
  /\ contract \in [Contracts -> Contract]
  /\ active \in [Templates -> {"none", "yes", "no"}]
  /\ instance \in [Instances -> Instance \cup {NoInstance}]
  /\ task \in [Tasks -> Task \cup {NoTask, Deleted}]
  /\ call \in [Calls -> Call]

Init ==
  /\ contract = [c \in Contracts |-> [life |-> "live", status |-> "DRAFT", signedAt |-> "null"]]
  /\ active = [t \in Templates |-> "none"]
  /\ instance = [i \in Instances |-> NoInstance]
  /\ task = [t \in Tasks |-> NoTask]
  /\ call = [k \in Calls |-> Idle]

Goto(k, c) == call' = [call EXCEPT ![k] = c]
Begin(k, c) == call[k] = Idle /\ Goto(k, c)
Live(c) == contract[c].life = "live"

-----------------------------------------------------------------------------
(* DELETE /contracts/:id and POST /contracts/:id/change-status *)

\* requireScoped has found the contract and the user in scope.
ReadContract(k) ==
  /\ \E c \in Contracts : Live(c) /\ Begin(k, [pc |-> "contract", contract |-> c])
  /\ UNCHANGED <<contract, active, instance, task>>

\* What the update by id writes; a deleted contract takes a status as well.
\* And a bug: the whole row that was read is written.
WithStatusUndeleted(c, s) ==
  [life |-> "live", status |-> s, signedAt |-> IF s = "SIGNED" THEN "set" ELSE "null"]
WithStatus(c, s) ==
  [contract[c] EXCEPT !.status = s, !.signedAt = IF s = "SIGNED" THEN "set" ELSE @]

WriteContract(k) ==
  /\ call[k].pc = "contract"
  /\ LET c == call[k].contract IN
     \E new \in {[contract[c] EXCEPT !.life = "deleted"]}
                  \cup {WithStatus(c, s) : s \in {"DRAFT", "SIGNED", "COMPLETED"}} :
       contract' = [contract EXCEPT ![c] = new]
  /\ Goto(k, Idle)
  /\ UNCHANGED <<active, instance, task>>

-----------------------------------------------------------------------------
(* Workflow templates and instances *)

\* POST /workflow-templates, with its stages in one write
CreateTemplate ==
  /\ \E t \in Templates, a \in {"yes", "no"} :
       active[t] = "none" /\ active' = [active EXCEPT ![t] = a]
  /\ UNCHANGED <<contract, instance, task, call>>

\* PATCH /workflow-templates/:id
UpdateTemplate ==
  /\ \E t \in Templates, a \in {"yes", "no"} :
       active[t] # "none" /\ active' = [active EXCEPT ![t] = a]
  /\ UNCHANGED <<contract, instance, task, call>>

\* POST /workflow-instances: the contract, ...
StartInstance(k) ==
  /\ \E c \in Contracts : Live(c) /\ Begin(k, [pc |-> "template", contract |-> c])
  /\ UNCHANGED <<contract, active, instance, task>>

\* ... the template and its first stage, ...
ReadTemplate(k) ==
  /\ call[k].pc = "template"
  /\ \E t \in Templates :
       IF active[t] = "yes" /\ Length[t] > 0
       THEN Goto(k, [pc |-> "instance", contract |-> call[k].contract, template |-> t])
       ELSE Goto(k, Idle)
  /\ UNCHANGED <<contract, active, instance, task>>

\* ... and the row.
CreateInstance(k) ==
  /\ call[k].pc = "instance"
  /\ \E i \in Instances :
       /\ instance[i] = NoInstance
       /\ instance' = [instance EXCEPT ![i] =
            [contract |-> call[k].contract, template |-> call[k].template,
             currentStage |-> FirstStage(call[k].template), completedAt |-> "null",
             moved |-> "no"]]
  /\ Goto(k, Idle)
  /\ UNCHANGED <<contract, active, task>>

\* POST /workflow-instances/:id/advance, to a stage of the instance's template.
Reachable(t) == Stages(t)

ReadInstance(k) ==
  /\ \E i \in Instances :
       /\ instance[i] # NoInstance
       /\ \E s \in Reachable(instance[i].template) :
            Begin(k, [pc |-> "advance", instance |-> i, stage |-> s])
  /\ UNCHANGED <<contract, active, instance, task>>

\* completedAt is set at the last stage and else left as it is. And a bug: an
\* advance to another stage writes undefined as null, and one to the last
\* stage sets the date of an instance it finds there.
AdvancedByRead(i, s) ==
  [i EXCEPT !.currentStage = s, !.moved = "yes",
            !.completedAt = IF i.currentStage = LastStage(i.template) THEN "set" ELSE "null"]
Advanced(i, s) ==
  [i EXCEPT !.currentStage = s, !.moved = "yes",
            !.completedAt = IF s = LastStage(i.template) THEN "set" ELSE @]

AdvanceInstance(k) ==
  /\ call[k].pc = "advance"
  /\ LET i == call[k].instance IN
     instance' = [instance EXCEPT ![i] = Advanced(instance[i], call[k].stage)]
  /\ Goto(k, Idle)
  /\ UNCHANGED <<contract, active, task>>

-----------------------------------------------------------------------------
(* Tasks *)

StartTask(k) ==
  /\ \E c \in Contracts : Live(c) /\ Begin(k, [pc |-> "new task", contract |-> c])
  /\ UNCHANGED <<contract, active, instance, task>>

CreateTask(k) ==
  /\ call[k].pc = "new task"
  /\ \E t \in Tasks, s \in {"OPEN", "DONE"} :
       /\ task[t] = NoTask
       /\ task' = [task EXCEPT ![t] = [state |-> "there", contract |-> call[k].contract,
                                       status |-> s, completedAt |-> "null"]]
  /\ Goto(k, Idle)
  /\ UNCHANGED <<contract, active, instance>>

ReadTask(k) ==
  /\ \E t \in Tasks : task[t].state = "there" /\ Begin(k, [pc |-> "task", task |-> t])
  /\ UNCHANGED <<contract, active, instance, task>>

\* status and completed of the request, each of them optional: completed TRUE
\* means DONE unless a status says otherwise.
Patched(t) ==
  {[t EXCEPT !.status = s] : s \in {"OPEN", "DONE"}}
  \cup {[t EXCEPT !.status = s, !.completedAt = "set"] : s \in {"OPEN", "DONE"}}
  \cup {[t EXCEPT !.status = s, !.completedAt = "null"] : s \in {"OPEN", "DONE"}}

\* The update or the deletion by id, which finds no row if another call was first.
WriteTask(k) ==
  /\ call[k].pc = "task"
  /\ LET t == call[k].task IN
     \/ task[t].state = "there" /\ \E new \in Patched(task[t]) : task' = [task EXCEPT ![t] = new]
     \/ task[t].state = "there" /\ task' = [task EXCEPT ![t] = Deleted]
     \/ task[t].state = "deleted" /\ UNCHANGED task
  /\ Goto(k, Idle)
  /\ UNCHANGED <<contract, active, instance>>

-----------------------------------------------------------------------------

Restart ==
  /\ call' = [k \in Calls |-> Idle]
  /\ UNCHANGED <<contract, active, instance, task>>

Next ==
  \/ \E k \in Calls : \/ ReadContract(k) \/ WriteContract(k)
                      \/ StartInstance(k) \/ ReadTemplate(k) \/ CreateInstance(k)
                      \/ ReadInstance(k) \/ AdvanceInstance(k)
                      \/ StartTask(k) \/ CreateTask(k) \/ ReadTask(k) \/ WriteTask(k)
  \/ CreateTemplate \/ UpdateTemplate \/ Restart

Spec == Init /\ [][Next]_vars

-----------------------------------------------------------------------------
(* Properties *)

\* Calls about to begin work on the contract.
Beginners(c) ==
  {k \in Calls : call[k].pc \in {"template", "instance", "new task"} /\ call[k].contract = c}

InstancesOn(c) == {i \in Instances : instance[i] # NoInstance /\ instance[i].contract = c}
TasksOn(c)     == {t \in Tasks : task[t].state = "there" /\ task[t].contract = c}

\* Once a contract is deleted nobody begins work on it, and when the calls that
\* had found it before are answered no workflow and no task is added to it any
\* more: deletion is final.
NoNewWork ==
  \A c \in Contracts : ~Live(c) =>
    /\ ~Live(c)' /\ Beginners(c)' \subseteq Beginners(c)
    /\ Beginners(c) = {} => /\ InstancesOn(c)' \subseteq InstancesOn(c)
                           /\ TasksOn(c)' \subseteq TasksOn(c)
DeletedContractsRest == [][NoNewWork]_vars

\* An instance that was moved to its last stage has its date of completion and
\* stands at a stage of its own template, whatever advances overlap.
EndedIsCompleted ==
  \A i \in Instances : instance[i] # NoInstance =>
    LET n == instance[i] IN
    /\ n.currentStage \in Stages(n.template)
    /\ n.moved = "yes" /\ n.currentStage = LastStage(n.template) => n.completedAt = "set"
=============================================================================

-------------------------- MODULE PayrollApproval --------------------------
(***************************************************************************)
(* Payroll runs and their approval: PayrollService composed with           *)
(* WorkflowsService over the tables they share.                            *)
(*                                                                         *)
(* A request runs in a handler.  A handler stops at every `await` on the   *)
(* database, so an action of this module is what the code does from one    *)
(* database call to the next, and other handlers take their steps between. *)
(* No step is inside a transaction that spans two of them and no row is    *)
(* locked.  repository.save of a row that was read earlier writes the      *)
(* handler's copy back over whatever the row has become.                   *)
(*                                                                         *)
(* A request the code refuses (404, 400, 403) before it has written        *)
(* anything changes no state: it has no action.                            *)
(***************************************************************************)
EXTENDS WorkflowRules, FiniteSetsExt

CONSTANTS
    RunIds,            \* ids of payroll runs            (bounds how many are created)
    DefinitionIds,     \* ids of workflow definitions    (bounds how many are created)
    InstanceIds,       \* ids of workflow instances      (bounds how many are created)
    Employees,
    salaryOf,          \* base salary plus allowance of an employee
    Adjustments,       \* the bonus and deduction amounts an edit may carry
    StepDrafts,        \* the step lists an administrator may submit
    Handlers,          \* requests in flight at once
    FailuresHappen     \* may a handler die between two of its steps?

(***************************************************************************)
(* Rows.  Money is kept in columns of the item and, summed, in columns of  *)
(* the run; the netAmount column of an item is always written together     *)
(* with the three it is computed from.                                     *)
(***************************************************************************)
Amounts == Adjustments \cup {0}

ItemRow(gross, bonus, deduction) ==
    [gross |-> gross, bonus |-> bonus, deduction |-> deduction,
     net |-> gross + bonus - deduction]

Item ==
    {ItemRow(salaryOf[e], b, d) : e \in Employees, b \in Amounts, d \in Amounts}

\* The items of one run: createPayrollRun makes one for each eligible employee.
ItemTable == [Employees -> Item \cup {None}]

NoItems == [e \in Employees |-> None]
Paid(table) == {e \in Employees : table[e] # None}

\* One item per eligible employee, from the salary as it is now.
FirstItems(eligible) ==
    [e \in Employees |-> IF e \in eligible THEN ItemRow(salaryOf[e], 0, 0) ELSE None]

\* The columns recalculatePayrollRunTotals computes from the items of the run.
Totals(table) ==
    [employeeCount |-> Cardinality(Paid(table)),
     gross         |-> MapThenSumSet(LAMBDA e : table[e].gross, Paid(table)),
     deduction     |-> MapThenSumSet(LAMBDA e : table[e].deduction, Paid(table)),
     bonus         |-> MapThenSumSet(LAMBDA e : table[e].bonus, Paid(table)),
     net           |-> MapThenSumSet(LAMBDA e : table[e].net, Paid(table))]

RunTotals == {Totals(table) : table \in ItemTable}

RunStatus == {"draft", "pending_approval", "approved", "rejected"}

Run == [status : RunStatus, workflowInstanceId : InstanceIds \cup {None},
        totals : RunTotals]

WorkflowInstance == Instance(RunIds)

\* The body of PATCH items/:itemId; a field left out keeps the stored amount.
ItemEdit == [bonus : Adjustments \cup {None}, deduction : Adjustments \cup {None}]

(***************************************************************************)
(* What a handler holds in memory at each await, under the name of the     *)
(* database call it is about to make.                                      *)
(***************************************************************************)
Idle == [at |-> "idle"]

Task ==
    {Idle}
    \cup [at : {"create_items", "recalc_read"}, run : RunIds]
    \cup [at : {"recalc_items", "recalc_save"}, run : RunIds, row : Run]
    \cup [at : {"edit_read"}, run : RunIds, employee : Employees, dto : ItemEdit]
    \cup [at : {"edit_save"}, run : RunIds, employee : Employees, item : Item]
    \cup [at : {"submit_items", "ensure_find", "ensure_save", "start_find"},
          run : RunIds, row : Run, user : Users]
    \cup [at : {"start_check", "start_save"},
          run : RunIds, row : Run, user : Users, steps : Seq(StepDefinition)]
    \cup [at : {"submit_save"}, run : RunIds, row : Run]
    \cup [at : {"review_save"}, instance : InstanceIds, row : WorkflowInstance]
    \cup [at : {"sync_read"}, row : WorkflowInstance]
    \cup [at : {"sync_save"}, run : RunIds, row : Run]
    \cup [at : {"define_save"}, definition : DefinitionIds, row : Definition]

ASSUME PayrollAssumption ==
    /\ salaryOf \in [Employees -> Nat]
    /\ Adjustments \subseteq Nat
    /\ StepDrafts \subseteq Seq(StepDefinition)
    /\ FailuresHappen \in BOOLEAN
    /\ None \notin RunIds \cup InstanceIds \cup Nat
    /\ None \notin Item \cup Run \cup Definition \cup WorkflowInstance

-----------------------------------------------------------------------------
VARIABLES
    runs,          \* payroll_runs
    items,         \* payroll_items, by run and employee
    definitions,   \* workflow_definitions
    instances,     \* workflow_instances
    task,          \* what each handler is doing
    certificates   \* history: the instances as they were saved when approved

tables == <<runs, items, definitions, instances>>
vars == <<runs, items, definitions, instances, task, certificates>>

Init ==
    /\ runs = [r \in RunIds |-> None]
    /\ items = [r \in RunIds |-> NoItems]
    /\ definitions = [d \in DefinitionIds |-> None]
    /\ instances = [i \in InstanceIds |-> None]
    /\ task = [h \in Handlers |-> Idle]
    /\ certificates = {}

\* Handler h goes on to its next database call, or answers its request.
Continue(h, next) == task' = [task EXCEPT ![h] = next]
Finish(h) == Continue(h, Idle)
At(h, place) == task[h].at = place

-----------------------------------------------------------------------------
(***************************************************************************)
(* POST /payroll/runs                                                      *)
(***************************************************************************)

\* The run is saved as a draft before anybody looks for employees.
CreatePayrollRun(h, u, r) ==
    /\ At(h, "idle")
    /\ HasPermission(u, "payroll:create")
    /\ runs[r] = None
    /\ runs' = [runs EXCEPT ![r] =
                    [status |-> "draft", workflowInstanceId |-> None,
                     totals |-> Totals(NoItems)]]
    /\ Continue(h, [at |-> "create_items", run |-> r])
    /\ UNCHANGED <<items, definitions, instances, certificates>>

\* With no eligible employee the request is refused and the draft stays behind.
CreatePayrollItems(h) ==
    /\ At(h, "create_items")
    /\ \E eligible \in SUBSET Employees :
           /\ items' = [items EXCEPT ![task[h].run] = FirstItems(eligible)]
           /\ IF eligible = {}
              THEN Finish(h)
              ELSE Continue(h, [at |-> "recalc_read", run |-> task[h].run])
    /\ UNCHANGED <<runs, definitions, instances, certificates>>

(***************************************************************************)
(* recalculatePayrollRunTotals: read the run, read its items, save the run *)
(***************************************************************************)
RecalcReadRun(h) ==
    /\ At(h, "recalc_read")
    /\ runs[task[h].run] # None
    /\ Continue(h, [at |-> "recalc_items", run |-> task[h].run,
                    row |-> runs[task[h].run]])
    /\ UNCHANGED <<tables, certificates>>

RecalcReadItems(h) ==
    /\ At(h, "recalc_items")
    /\ Continue(h, [at |-> "recalc_save", run |-> task[h].run,
                    row |-> [task[h].row EXCEPT !.totals = Totals(items[task[h].run])]])
    /\ UNCHANGED <<tables, certificates>>

RecalcSave(h) ==
    /\ At(h, "recalc_save")
    /\ runs' = [runs EXCEPT ![task[h].run] = task[h].row]
    /\ Finish(h)
    /\ UNCHANGED <<items, definitions, instances, certificates>>

(***************************************************************************)
(* PATCH /payroll/runs/:id/items/:itemId                                   *)
(***************************************************************************)

\* Wrong on purpose: any run may be edited and submitted.
Existing(r) == runs[r] # None

\* ensureMutablePayrollRun
Mutable(r) == runs[r] # None /\ runs[r].status = "draft"

UpdatePayrollItem(h, u, r, e, dto) ==
    /\ At(h, "idle")
    /\ HasPermission(u, "payroll:update")
    /\ Mutable(r)
    /\ Continue(h, [at |-> "edit_read", run |-> r, employee |-> e, dto |-> dto])
    /\ UNCHANGED <<tables, certificates>>

\* `??`: the value of the request, or else the one that is stored.
OrElse(new, old) == IF new = None THEN old ELSE new

EditReadItem(h) ==
    LET item == items[task[h].run][task[h].employee]
        dto  == task[h].dto
    IN  /\ At(h, "edit_read")
        /\ IF item = None
           THEN Finish(h)
           ELSE Continue(h, [at |-> "edit_save", run |-> task[h].run,
                             employee |-> task[h].employee,
                             item |-> ItemRow(item.gross,
                                              OrElse(dto.bonus, item.bonus),
                                              OrElse(dto.deduction, item.deduction))])
        /\ UNCHANGED <<tables, certificates>>

\* Wrong on purpose: the totals are not recalculated.
EditSaveItemOnly(h) ==
    /\ At(h, "edit_save")
    /\ items' = [items EXCEPT ![task[h].run][task[h].employee] = task[h].item]
    /\ Finish(h)
    /\ UNCHANGED <<runs, definitions, instances, certificates>>

EditSaveItem(h) ==
    /\ At(h, "edit_save")
    /\ items' = [items EXCEPT ![task[h].run][task[h].employee] = task[h].item]
    /\ Continue(h, [at |-> "recalc_read", run |-> task[h].run])
    /\ UNCHANGED <<runs, definitions, instances, certificates>>

(***************************************************************************)
(* PATCH /payroll/runs/:id/submit                                          *)
(***************************************************************************)

\* Everything up to the last step works on the run as it is read here.
SubmitPayrollRun(h, u, r) ==
    /\ At(h, "idle")
    /\ HasPermission(u, "payroll:create")
    /\ Mutable(r)
    /\ Continue(h, [at |-> "submit_items", run |-> r, row |-> runs[r], user |-> u])
    /\ UNCHANGED <<tables, certificates>>

\* Wrong on purpose: a run without items is submitted too.
SubmitAnyItems(h) ==
    /\ At(h, "submit_items")
    /\ Continue(h, [task[h] EXCEPT !.at = "ensure_find"])
    /\ UNCHANGED <<tables, certificates>>

SubmitReadItems(h) ==
    /\ At(h, "submit_items")
    /\ IF Paid(items[task[h].run]) = {}
       THEN Finish(h)
       ELSE Continue(h, [task[h] EXCEPT !.at = "ensure_find"])
    /\ UNCHANGED <<tables, certificates>>

\* At most one row can have a given code: the column is unique.
Holders(code) ==
    {d \in DefinitionIds : definitions[d] # None /\ definitions[d].code = code}

EnsureFindDefinition(h) ==
    /\ At(h, "ensure_find")
    /\ Continue(h, [task[h] EXCEPT !.at = IF Holders("payroll-approval") = {}
                                           THEN "ensure_save" ELSE "start_find"])
    /\ UNCHANGED <<tables, certificates>>

\* A concurrent insert of the same code makes this one fail, and the request with it.
EnsureSaveDefinition(h) ==
    /\ At(h, "ensure_save")
    /\ \/ /\ Holders("payroll-approval") = {}
          /\ \E d \in DefinitionIds :
                 /\ definitions[d] = None
                 /\ definitions' = [definitions EXCEPT ![d] = DefaultDefinition]
          /\ Continue(h, [task[h] EXCEPT !.at = "start_find"])
       \/ /\ Holders("payroll-approval") # {}
          /\ Finish(h)
          /\ UNCHANGED definitions
    /\ UNCHANGED <<runs, items, instances, certificates>>

\* startInstance refuses when the definition has been made inactive.
StartFindDefinition(h) ==
    LET active == {d \in Holders("payroll-approval") : definitions[d].isActive}
    IN  /\ At(h, "start_find")
        /\ \/ active = {} /\ Finish(h)
           \/ \E d \in active :
                 Continue(h, [at |-> "start_check", run |-> task[h].run,
                              row |-> task[h].row, user |-> task[h].user,
                              steps |-> definitions[d].steps])
        /\ UNCHANGED <<tables, certificates>>

PendingInstances(r) ==
    {i \in InstanceIds : /\ instances[i] # None
                         /\ instances[i].reference = r
                         /\ instances[i].status = "pending"}

StartCheckPending(h) ==
    /\ At(h, "start_check")
    /\ IF PendingInstances(task[h].run) # {}
       THEN Finish(h)
       ELSE Continue(h, [task[h] EXCEPT !.at = "start_save"])
    /\ UNCHANGED <<tables, certificates>>

\* Wrong on purpose: the new instance is looked up again by its status, whichever run it is for...
StartLinksAnyPending(h) ==
    /\ At(h, "start_save")
    /\ \E i \in InstanceIds :
           /\ instances[i] = None
           /\ instances' = [instances EXCEPT ![i] =
                  StartedInstance(task[h].run, task[h].user, task[h].steps)]
           /\ \E found \in UNION {PendingInstances(r) : r \in RunIds} \cup {i} :
                  Continue(h, [at |-> "submit_save", run |-> task[h].run,
                               row |-> [task[h].row EXCEPT !.status = "pending_approval",
                                                           !.workflowInstanceId = found]])
    /\ UNCHANGED <<runs, items, definitions, certificates>>

\* ...or the run is not given its id.
StartForgetsLink(h) ==
    /\ At(h, "start_save")
    /\ \E i \in InstanceIds :
           /\ instances[i] = None
           /\ instances' = [instances EXCEPT ![i] =
                  StartedInstance(task[h].run, task[h].user, task[h].steps)]
           /\ Continue(h, [at |-> "submit_save", run |-> task[h].run,
                           row |-> [task[h].row EXCEPT !.status = "pending_approval"]])
    /\ UNCHANGED <<runs, items, definitions, certificates>>

\* The instance is stored; the run learns of it only in the next step.
StartSaveInstance(h) ==
    /\ At(h, "start_save")
    /\ \E i \in InstanceIds :
           /\ instances[i] = None
           /\ instances' = [instances EXCEPT ![i] =
                  StartedInstance(task[h].run, task[h].user, task[h].steps)]
           /\ Continue(h, [at |-> "submit_save", run |-> task[h].run,
                           row |-> [task[h].row EXCEPT !.status = "pending_approval",
                                                       !.workflowInstanceId = i]])
    /\ UNCHANGED <<runs, items, definitions, certificates>>

SubmitSaveRun(h) ==
    /\ At(h, "submit_save")
    /\ runs' = [runs EXCEPT ![task[h].run] = task[h].row]
    /\ Finish(h)
    /\ UNCHANGED <<items, definitions, instances, certificates>>

(***************************************************************************)
(* PATCH /workflows/instances/:id/review                                   *)
(***************************************************************************)

\* Read the instance, check, and change the copy in memory.
ReviewInstance(h, u, i, decision) ==
    /\ At(h, "idle")
    /\ HasPermission(u, "workflow:approve")
    /\ instances[i] # None
    /\ \E k \in DOMAIN instances[i].steps :
           /\ MayReview(u, instances[i], k)
           /\ Continue(h, [at |-> "review_save", instance |-> i,
                           row |-> Reviewed(instances[i], k, u, decision)])
    /\ UNCHANGED <<tables, certificates>>

\* Wrong on purpose: syncReferenceStatus is not called.
ReviewWithoutSync(h) ==
    /\ At(h, "review_save")
    /\ instances' = [instances EXCEPT ![task[h].instance] = task[h].row]
    /\ certificates' = IF task[h].row.status = "approved"
                       THEN certificates \cup {task[h].row} ELSE certificates
    /\ Finish(h)
    /\ UNCHANGED <<runs, items, definitions>>

ReviewSaveInstance(h) ==
    /\ At(h, "review_save")
    /\ instances' = [instances EXCEPT ![task[h].instance] = task[h].row]
    /\ certificates' = IF task[h].row.status = "approved"
                       THEN certificates \cup {task[h].row} ELSE certificates
    /\ Continue(h, [at |-> "sync_read", row |-> task[h].row])
    /\ UNCHANGED <<runs, items, definitions>>

\* Wrong on purpose: the instance's own status, and one step's approval taken for the last.
InstanceStatusCopied(instanceStatus) == instanceStatus
ApprovedUnlessRejected(instanceStatus) ==
    IF instanceStatus = "rejected" THEN "rejected" ELSE "approved"

\* syncReferenceStatus: every instance refers to a payroll run, since nothing else
\* starts one; the run takes its status from the instance this handler has saved.
RunStatusFor(instanceStatus) ==
    IF instanceStatus = "pending" THEN "pending_approval" ELSE instanceStatus

SyncReadRun(h) ==
    LET row == task[h].row
    IN  /\ At(h, "sync_read")
        /\ IF runs[row.reference] = None
           THEN Finish(h)
           ELSE Continue(h, [at |-> "sync_save", run |-> row.reference,
                             row |-> [runs[row.reference] EXCEPT
                                          !.status = RunStatusFor(row.status)]])
        /\ UNCHANGED <<tables, certificates>>

SyncSaveRun(h) ==
    /\ At(h, "sync_save")
    /\ runs' = [runs EXCEPT ![task[h].run] = task[h].row]
    /\ Finish(h)
    /\ UNCHANGED <<items, definitions, instances, certificates>>

(***************************************************************************)
(* POST /workflows/definitions and PATCH /workflows/definitions/:id        *)
(***************************************************************************)
Collides(d, code) == code = "payroll-approval" /\ Holders(code) \ {d} # {}

CreateDefinition(u, d, code, active, draft) ==
    /\ HasPermission(u, "workflow:create")
    /\ definitions[d] = None
    /\ Normalizable(draft)
    /\ ~Collides(d, code)
    /\ definitions' = [definitions EXCEPT ![d] =
            [code |-> code, isActive |-> active, steps |-> NormalizeSteps(draft)]]
    /\ UNCHANGED <<runs, items, instances, task, certificates>>

OptionalCode == {"payroll-approval", "other", None}
OptionalFlag == BOOLEAN \cup {None}

\* Any column may be in the request; the others keep the value read here.
UpdateDefinition(h, u, d, code, active, draft) ==
    /\ At(h, "idle")
    /\ HasPermission(u, "workflow:update")
    /\ definitions[d] # None
    /\ draft # None => Normalizable(draft)
    /\ Continue(h, [at |-> "define_save", definition |-> d,
                    row |-> [code |-> OrElse(code, definitions[d].code),
                             isActive |-> OrElse(active, definitions[d].isActive),
                             steps |-> IF draft = None THEN definitions[d].steps
                                                       ELSE NormalizeSteps(draft)]])
    /\ UNCHANGED <<tables, certificates>>

DefineSave(h) ==
    /\ At(h, "define_save")
    /\ definitions' = IF Collides(task[h].definition, task[h].row.code)
                      THEN definitions
                      ELSE [definitions EXCEPT ![task[h].definition] = task[h].row]
    /\ Finish(h)
    /\ UNCHANGED <<runs, items, instances, certificates>>

-----------------------------------------------------------------------------
\* A database call is rejected or the process stops: what was saved stays saved.
Fail(h) ==
    /\ FailuresHappen
    /\ ~At(h, "idle")
    /\ Finish(h)
    /\ UNCHANGED <<tables, certificates>>

\* A request arrives at handler h.
Begin(h) ==
    \/ \E u \in Users, r \in RunIds : CreatePayrollRun(h, u, r)
    \/ \E u \in Users, r \in RunIds : SubmitPayrollRun(h, u, r)
    \/ \E u \in Users, r \in RunIds, e \in Employees, dto \in ItemEdit :
           UpdatePayrollItem(h, u, r, e, dto)
    \/ \E u \in Users, i \in InstanceIds, decision \in {"approved", "rejected"} :
           ReviewInstance(h, u, i, decision)
    \/ \E u \in Users, d \in DefinitionIds, code \in OptionalCode,
          active \in OptionalFlag, draft \in StepDrafts \cup {None} :
           UpdateDefinition(h, u, d, code, active, draft)

\* Handler h makes its next database call.
Proceed(h) ==
    \/ CreatePayrollItems(h) \/ EditReadItem(h) \/ EditSaveItem(h)
    \/ RecalcReadRun(h) \/ RecalcReadItems(h) \/ RecalcSave(h)
    \/ SubmitReadItems(h) \/ EnsureFindDefinition(h) \/ EnsureSaveDefinition(h)
    \/ StartFindDefinition(h) \/ StartCheckPending(h) \/ StartSaveInstance(h)
    \/ SubmitSaveRun(h)
    \/ ReviewSaveInstance(h) \/ SyncReadRun(h) \/ SyncSaveRun(h)
    \/ DefineSave(h)

Next ==
    \/ \E h \in Handlers : Begin(h) \/ Proceed(h) \/ Fail(h)
    \/ \E u \in Users, d \in DefinitionIds, code \in {"payroll-approval", "other"},
          active \in BOOLEAN, draft \in StepDrafts :
           CreateDefinition(u, d, code, active, draft)

Spec == Init /\ [][Next]_vars

\* The event loop resumes a handler once its database call has returned.
FairSpec == Spec /\ \A h \in Handlers : WF_vars(Proceed(h))

-----------------------------------------------------------------------------
(***************************************************************************)
(* Properties of every interleaving, with handlers dying anywhere          *)
(***************************************************************************)

\* Every row, and every row a handler holds across an await, has the columns and the
\* values its entity declares.
TypeOK ==
    /\ runs \in [RunIds -> Run \cup {None}]
    /\ items \in [RunIds -> ItemTable]
    /\ definitions \in [DefinitionIds -> Definition \cup {None}]
    /\ instances \in [InstanceIds -> WorkflowInstance \cup {None}]
    /\ task \in [Handlers -> Task]
    /\ certificates \subseteq WorkflowInstance

\* reviewInstance's checks hold for what is stored, however reviews of one instance
\* overlap or are cut short: an approved instance carries for every step the approval of
\* somebody with the step's permission who is not the requester where the step forbids
\* it, and a pending one stands at a step that can be reviewed, all before it signed off.
SegregationOfDuties ==
    \A i \in InstanceIds : instances[i] # None => SoundInstance(instances[i])

Certified(r) == \E c \in certificates : c.reference = r /\ FullySigned(c)

\* A run reads "approved" only if an instance started for that very run was, at some
\* time, saved with all its steps signed off: no stale copy written by a submit, an edit
\* or a sync can approve a run nobody approved.
ApprovedRunIsCertified ==
    \A r \in RunIds : runs[r] # None /\ runs[r].status = "approved" => Certified(r)

PaysSomebody(r) == Paid(items[r]) # {}
Started(r, i) == instances[i] # None /\ instances[i].reference = r

\* submitPayrollRun's check for items is not undone later: a run that has left draft, or
\* has an approval under way, pays somebody.
SubmittedRunPaysSomebody ==
    \A r \in RunIds :
        \/ runs[r] # None /\ runs[r].status # "draft"
        \/ \E i \in InstanceIds : Started(r, i)
        => PaysSomebody(r)

\* The workflowInstanceId of a run leads to an approval that was started for that very run:
\* however submits of several runs follow or overlap each other, none links its run to the
\* approval of another, or to none that is stored (startInstance, submitPayrollRun).
LinkIsOwn ==
    \A r \in RunIds :
        runs[r] # None /\ runs[r].workflowInstanceId # None =>
            Started(r, runs[r].workflowInstanceId)

(***************************************************************************)
(* Properties of one request after another, each completing                *)
(***************************************************************************)
Quiescent == \A h \in Handlers : At(h, "idle")

\* A run has at most one instance, is linked to it, and shows its status: submit and
\* syncReferenceStatus keep the two tables together.
RunShowsItsInstance ==
    Quiescent =>
        \A i \in InstanceIds :
            instances[i] # None =>
                LET run == runs[instances[i].reference]
                IN  /\ run.workflowInstanceId = i
                    /\ run.status = RunStatusFor(instances[i].status)

\* The totals of a run are those of its items after every create and every edit.
TotalsMatchItems ==
    Quiescent =>
        \A r \in RunIds : runs[r] # None => runs[r].totals = Totals(items[r])

\* Read through its status and its items, payroll is the lifecycle it promises.
Lifecycle ==
    INSTANCE PayrollLifecycle WITH
        PayTables  <- ItemTable,
        NobodyPaid <- NoItems,
        phase      <- [r \in RunIds |-> IF runs[r] = None THEN "absent"
                                                        ELSE runs[r].status],
        pay        <- items

LifecycleSpec == Lifecycle!Spec

\* A decided instance eventually decides its run (reviewInstance, then
\* syncReferenceStatus).
DecisionReachesRun ==
    \A i \in InstanceIds, r \in RunIds, outcome \in {"approved", "rejected"} :
        instances[i] # None /\ instances[i].reference = r /\ instances[i].status = outcome
            ~> runs[r] # None /\ runs[r].status = outcome

\* The items of a run change only while the run is a draft (updatePayrollItem's check
\* of the status, and createPayrollRun).
DraftOnlyEdits ==
    [][\A r \in RunIds : items'[r] # items[r] => Mutable(r)]_vars

-----------------------------------------------------------------------------
(***************************************************************************)
(* The inductive invariant behind the first five properties: each says the *)
(* same of the copies that handlers hold as of the rows in the tables.     *)
(***************************************************************************)

\* A copy of run r's row, in the table or in memory.
RunRowJustified(r, row) ==
    /\ row.status = "approved" => Certified(r)
    /\ row.status # "draft" => PaysSomebody(r)
    /\ row.workflowInstanceId # None => Started(r, row.workflowInstanceId)

InstanceRowJustified(row) == SoundInstance(row) /\ PaysSomebody(row.reference)

PastItemCheck ==
    {"ensure_find", "ensure_save", "start_find", "start_check", "start_save", "submit_save"}

HoldsRunRow ==
    {"recalc_items", "recalc_save", "submit_items", "sync_save"} \cup PastItemCheck

TaskJustified(t) ==
    /\ t.at \in HoldsRunRow => RunRowJustified(t.run, t.row)
    /\ t.at \in PastItemCheck => PaysSomebody(t.run)
    /\ t.at \in {"start_check", "start_save"} => Ordered(t.steps)
    /\ t.at = "define_save" => Ordered(t.row.steps)
    /\ t.at \in {"review_save", "sync_read"} => InstanceRowJustified(t.row)
    /\ t.at = "review_save" => Started(t.row.reference, t.instance)
    /\ t.at = "sync_read" /\ t.row.status = "approved" => Certified(t.row.reference)
    /\ t.at = "edit_save" => items[t.run][t.employee] # None
    /\ t.at = "create_items" => runs[t.run] # None /\ items[t.run] = NoItems

Justified ==
    /\ \A r \in RunIds : runs[r] = None => items[r] = NoItems
    /\ \A r \in RunIds : runs[r] # None => RunRowJustified(r, runs[r])
    /\ \A d \in DefinitionIds : definitions[d] # None => Ordered(definitions[d].steps)
    /\ \A i \in InstanceIds : instances[i] # None => InstanceRowJustified(instances[i])
    /\ \A h \in Handlers : TaskJustified(task[h])
    /\ \A g, h \in Handlers :
           At(g, "create_items") /\ At(h, "create_items") /\ g # h => task[g].run # task[h].run

IInv == TypeOK /\ Justified
=============================================================================

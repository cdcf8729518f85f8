----------------------- MODULE PayrollApprovalProofs -----------------------
(***************************************************************************)
(* What holds of payroll runs and their approvals for any number of users, *)
(* runs, employees, definitions and requests in flight, with requests that *)
(* overlap in any way and die anywhere.                                    *)
(***************************************************************************)
EXTENDS PayrollApproval, SequenceTheorems, TLAPS

-----------------------------------------------------------------------------
(***************************************************************************)
(* The rules of WorkflowRules: normalised steps are in order, an instance  *)
(* starts sound, and a review keeps it so.                                 *)
(***************************************************************************)
\* normalizeSteps: an accepted list keeps its length and its steps, and afterwards the
\* k-th step has order k.
LEMMA NormalizedIsOrdered ==
    ASSUME NEW steps \in Seq(StepDefinition), Normalizable(steps)
    PROVE  /\ NormalizeSteps(steps) \in Seq(StepDefinition)
           /\ Ordered(NormalizeSteps(steps))
<1> DEFINE n == Len(steps)
           at(k) == CHOOSE j \in DOMAIN steps : steps[j].order = k
<1>1. n \in Nat /\ DOMAIN steps = 1 .. n /\ n # 0
  BY DEF Normalizable
<1>2. ASSUME NEW k \in 1 .. n
      PROVE  at(k) \in DOMAIN steps /\ steps[at(k)].order = k
  BY <1>1 DEF Normalizable
<1>3. NormalizeSteps(steps) = [k \in 1 .. n |-> steps[at(k)]]
  BY <1>1 DEF NormalizeSteps
<1>4. NormalizeSteps(steps) \in [1 .. n -> StepDefinition]
  BY <1>1, <1>2, <1>3
<1>5. NormalizeSteps(steps) \in Seq(StepDefinition)
  BY <1>1, <1>4
<1>6. Ordered(NormalizeSteps(steps))
  BY <1>1, <1>2, <1>3 DEF Ordered
<1> QED BY <1>5, <1>6

\* The definition that is created on demand needs no normalisation.
LEMMA DefaultIsOrdered ==
    DefaultDefinition \in Definition /\ Ordered(DefaultDefinition.steps)
<1> DEFINE step == [order |-> 1, requiredPermission |-> "payroll:approve",
                    canSelfApprove |-> FALSE]
<1>1. step \in StepDefinition
  BY UsersAssumption DEF StepDefinition
<1>2. <<step>> \in Seq(StepDefinition) /\ <<step>> # <<>> /\ DOMAIN <<step>> = {1}
  BY <1>1
<1>3. DefaultDefinition = [code |-> "payroll-approval", isActive |-> TRUE, steps |-> <<step>>]
  BY DEF DefaultDefinition
<1> QED BY <1>2, <1>3 DEF Definition, Ordered

\* startInstance: what it stores is a pending instance that stands at its first step.
LEMMA StartedIsSound ==
    ASSUME NEW Ref, NEW ref \in Ref, NEW u \in Users,
           NEW steps \in Seq(StepDefinition), Ordered(steps)
    PROVE  /\ StartedInstance(ref, u, steps) \in Instance(Ref)
           /\ SoundInstance(StartedInstance(ref, u, steps))
<1> DEFINE n == Len(steps)
           p == PendingSteps(steps)
<1>1. n \in Nat /\ DOMAIN steps = 1 .. n /\ n # 0 /\ 1 \in DOMAIN steps
  BY DEF Ordered
<1>2. \A k \in 1 .. n : steps[k] \in StepDefinition
  BY <1>1
<1>3. p \in [1 .. n -> StepAction]
  BY <1>1, <1>2 DEF PendingSteps, StepAction, StepDefinition
<1>4. p \in Seq(StepAction)
  BY <1>1, <1>3
<1>5. Ordered(p)
  BY <1>1, <1>3 DEF Ordered, PendingSteps
<1>6. \A k \in DOMAIN p : p[k].status = "pending"
  BY <1>1 DEF PendingSteps
<1>7. steps[1].order = 1
  BY <1>1 DEF Ordered
<1>8. StartedInstance(ref, u, steps) \in Instance(Ref)
  BY <1>4, <1>7 DEF StartedInstance, Instance
<1>9. SoundInstance(StartedInstance(ref, u, steps))
  BY <1>1, <1>3, <1>5, <1>6, <1>7
     DEF StartedInstance, SoundInstance, StandsAtCurrentStep
<1> QED BY <1>8, <1>9

\* A step's decision leaves the list of steps well-formed.
LEMMA ActedIsTyped ==
    ASSUME NEW steps \in Seq(StepAction), NEW k \in DOMAIN steps, NEW u \in Users,
           NEW decision \in {"approved", "rejected"}
    PROVE  LET acted == Act(steps, k, u, decision)
           IN  /\ acted \in Seq(StepAction)
               /\ DOMAIN acted = DOMAIN steps
               /\ acted[k].status = decision /\ acted[k].actedBy = u
               /\ acted[k].order = steps[k].order
               /\ acted[k].requiredPermission = steps[k].requiredPermission
               /\ acted[k].canSelfApprove = steps[k].canSelfApprove
               /\ \A j \in DOMAIN steps : j # k => acted[j] = steps[j]
<1> DEFINE done == [steps[k] EXCEPT !.status = decision, !.actedBy = u]
<1>1. steps[k] \in StepAction
  BY ElementOfSeq
<1>2. /\ done \in StepAction
      /\ done.status = decision /\ done.actedBy = u
      /\ done.order = steps[k].order
      /\ done.requiredPermission = steps[k].requiredPermission
      /\ done.canSelfApprove = steps[k].canSelfApprove
  BY <1>1 DEF StepAction
<1>3. Act(steps, k, u, decision) = [steps EXCEPT ![k] = done]
  BY DEF Act
<1> HIDE DEF done
<1>4. k \in 1 .. Len(steps) /\ DOMAIN steps = 1 .. Len(steps)
  OBVIOUS
<1>5. [steps EXCEPT ![k] = done] \in Seq(StepAction)
  BY <1>2, <1>4, ExceptSeq
<1>6. /\ DOMAIN [steps EXCEPT ![k] = done] = DOMAIN steps
      /\ [steps EXCEPT ![k] = done][k] = done
      /\ \A j \in DOMAIN steps : j # k => [steps EXCEPT ![k] = done][j] = steps[j]
  BY <1>4
<1> QED BY <1>2, <1>3, <1>5, <1>6

\* reviewInstance: a review its checks allow turns a sound instance into a sound one.
LEMMA ReviewKeepsSound ==
    ASSUME NEW Ref, NEW row \in Instance(Ref), SoundInstance(row), NEW u \in Users,
           NEW k \in DOMAIN row.steps, MayReview(u, row, k),
           NEW decision \in {"approved", "rejected"}
    PROVE  /\ Reviewed(row, k, u, decision) \in Instance(Ref)
           /\ SoundInstance(Reviewed(row, k, u, decision))
           /\ Reviewed(row, k, u, decision).reference = row.reference
<1> DEFINE n == Len(row.steps)
           acted == Act(row.steps, k, u, decision)
           later == LaterSteps(row, k)
           next  == CHOOSE j \in later : \A i \in later : row.steps[j].order <= row.steps[i].order
           new   == Reviewed(row, k, u, decision)
<1>1. /\ row.steps \in Seq(StepAction)
      /\ n \in Nat /\ n # 0 /\ DOMAIN row.steps = 1 .. n
      /\ \A j \in 1 .. n : row.steps[j].order = j /\ row.steps[j] \in StepAction
  BY DEF Instance, SoundInstance, Ordered
<1>2. /\ acted \in Seq(StepAction)
      /\ DOMAIN acted = 1 .. n
      /\ acted[k].status = decision /\ acted[k].actedBy = u
      /\ acted[k].order = row.steps[k].order
      /\ acted[k].requiredPermission = row.steps[k].requiredPermission
      /\ acted[k].canSelfApprove = row.steps[k].canSelfApprove
      /\ \A j \in 1 .. n : j # k => acted[j] = row.steps[j]
  BY <1>1, ActedIsTyped
<1>3. k = row.currentStepOrder /\ k \in 1 .. n
  BY <1>1 DEF MayReview, CurrentSteps
<1>4. later = {j \in 1 .. n : j > k}
  BY <1>1, <1>3 DEF LaterSteps
<1>5. \A j \in 1 .. n : acted[j].order = j
  BY <1>1, <1>2, <1>3
<1>6. Ordered(acted)
  BY <1>1, <1>2, <1>5 DEF Ordered
<1>7. \A j \in 1 .. n : IF j < k THEN SignedOff(row, j) ELSE row.steps[j].status = "pending"
  BY <1>1, <1>3 DEF SoundInstance, MayReview, StandsAtCurrentStep
<1>8. /\ HasPermission(u, row.steps[k].requiredPermission)
      /\ row.steps[k].canSelfApprove \/ u # row.requestedBy
  BY DEF MayReview
<1>9. ASSUME NEW other, other.steps = acted, other.requestedBy = row.requestedBy
      PROVE  /\ \A j \in 1 .. n : j < k => SignedOff(other, j)
             /\ \A j \in 1 .. n : j > k => other.steps[j].status = "pending"
             /\ decision = "approved" => SignedOff(other, k)
  <2>1. \A j \in 1 .. n : j < k => SignedOff(other, j)
    BY <1>1, <1>2, <1>3, <1>7, <1>9 DEF SignedOff
  <2>2. \A j \in 1 .. n : j > k => other.steps[j].status = "pending"
    BY <1>1, <1>2, <1>3, <1>7, <1>9
  <2>3. decision = "approved" => SignedOff(other, k)
    BY <1>2, <1>8, <1>9 DEF SignedOff
  <2> QED BY <2>1, <2>2, <2>3
<1> HIDE DEF acted
<1>10. CASE decision = "approved" /\ later # {}
  <2>1. /\ k + 1 \in later
        /\ \A i \in later : row.steps[k + 1].order <= row.steps[i].order
    BY <1>1, <1>3, <1>4, <1>10
  <2>2. next \in later /\ \A i \in later : row.steps[next].order <= row.steps[i].order
    BY <2>1
  <2> HIDE DEF next
  <2>3. next = k + 1 /\ k + 1 \in 1 .. n /\ row.steps[next].order = k + 1
    <3>1. next \in 1 .. n /\ next > k /\ row.steps[next].order = next
      BY <1>1, <1>4, <2>2
    <3>2. k + 1 \in 1 .. n /\ row.steps[k + 1].order = k + 1
      BY <1>1, <1>4, <2>1
    <3>3. next <= k + 1
      BY <2>1, <2>2, <3>1, <3>2
    <3> QED BY <1>3, <3>1, <3>2, <3>3
  <2>4. new = [row EXCEPT !.steps = acted, !.currentStepOrder = k + 1]
    BY <1>10, <2>3 DEF Reviewed, acted, next
  <2> HIDE DEF new
  <2>5. new \in Instance(Ref) /\ new.reference = row.reference
    <3>1. k + 1 \in Nat
      BY <1>1, <1>3
    <3> QED BY <1>2, <2>4, <3>1 DEF Instance
  <2>6. /\ new.steps = acted /\ new.currentStepOrder = k + 1 /\ new.status = "pending"
        /\ new.requestedBy = row.requestedBy
    BY <2>4 DEF MayReview, Instance
  <2>7. StandsAtCurrentStep(new)
    <3>1. \A j \in 1 .. n : j < k + 1 => SignedOff(new, j)
      BY <1>3, <1>9, <1>10, <2>6
    <3>2. \A j \in 1 .. n : ~(j < k + 1) => new.steps[j].status = "pending"
      BY <1>3, <1>9, <2>6
    <3> QED BY <1>2, <2>3, <2>6, <3>1, <3>2 DEF StandsAtCurrentStep
  <2> QED BY <1>6, <2>5, <2>6, <2>7 DEF SoundInstance, new
<1>11. CASE ~(decision = "approved" /\ later # {})
  <2>1. new = [row EXCEPT !.steps = acted, !.status = decision,
                          !.currentStepOrder = 0, !.finalDecisionBy = u]
    BY <1>11 DEF Reviewed, acted
  <2> HIDE DEF new
  <2>2. new \in Instance(Ref) /\ new.reference = row.reference
    BY <1>2, <2>1 DEF Instance
  <2>3. /\ new.steps = acted /\ new.status = decision
        /\ new.requestedBy = row.requestedBy
    BY <2>1 DEF Instance
  <2>4. ASSUME decision = "approved" PROVE FullySigned(new)
    <3>1. \A j \in 1 .. n : j <= k
      BY <1>3, <1>4, <1>11, <2>4
    <3> QED BY <1>2, <1>3, <1>9, <2>3, <2>4, <3>1 DEF FullySigned
  <2> QED BY <1>6, <2>2, <2>3, <2>4 DEF SoundInstance, new
<1> QED BY <1>10, <1>11

-----------------------------------------------------------------------------
(***************************************************************************)
(* Types                                                                   *)
(***************************************************************************)

\* What a handler holds at each of its stops.
LEMMA TaskFields ==
    ASSUME NEW t \in Task
    PROVE  /\ t.at \in {"create_items", "recalc_read"} => t.run \in RunIds
           /\ t.at \in HoldsRunRow => t.run \in RunIds /\ t.row \in Run
           /\ t.at = "edit_read" =>
                t.run \in RunIds /\ t.employee \in Employees /\ t.dto \in ItemEdit
           /\ t.at = "edit_save" =>
                t.run \in RunIds /\ t.employee \in Employees /\ t.item \in Item
           /\ t.at \in {"submit_items", "ensure_find", "ensure_save", "start_find",
                        "start_check", "start_save"} => t.user \in Users
           /\ t.at \in {"start_check", "start_save"} => t.steps \in Seq(StepDefinition)
           /\ t.at = "review_save" => t.instance \in InstanceIds
           /\ t.at \in {"review_save", "sync_read"} => t.row \in WorkflowInstance
           /\ t.at = "define_save" => t.definition \in DefinitionIds /\ t.row \in Definition
BY DEF Task, Idle, HoldsRunRow, PastItemCheck

\* The stop of a submit changes, what it holds does not.
LEMMA SubmitMovesOn ==
    ASSUME NEW t \in Task,
           NEW place \in {"ensure_find", "ensure_save", "start_find"},
           t.at \in {"submit_items", "ensure_find", "ensure_save", "start_find"}
    PROVE  /\ [t EXCEPT !.at = place] \in Task
           /\ [t EXCEPT !.at = place].at = place
           /\ [t EXCEPT !.at = place].run = t.run
           /\ [t EXCEPT !.at = place].row = t.row
           /\ [t EXCEPT !.at = place].user = t.user
<1>1. t \in [at : {"submit_items", "ensure_find", "ensure_save", "start_find"},
             run : RunIds, row : Run, user : Users]
  BY DEF Task, Idle
<1>2. [t EXCEPT !.at = place] \in
        [at : {"submit_items", "ensure_find", "ensure_save", "start_find"},
         run : RunIds, row : Run, user : Users]
  BY <1>1
<1>3. [t EXCEPT !.at = place] \in Task
  BY <1>2 DEF Task
<1> QED BY <1>1, <1>3

LEMMA StartMovesOn ==
    ASSUME NEW t \in Task, t.at = "start_check"
    PROVE  /\ [t EXCEPT !.at = "start_save"] \in Task
           /\ [t EXCEPT !.at = "start_save"].at = "start_save"
           /\ [t EXCEPT !.at = "start_save"].run = t.run
           /\ [t EXCEPT !.at = "start_save"].row = t.row
           /\ [t EXCEPT !.at = "start_save"].steps = t.steps
<1>1. t \in [at : {"start_check", "start_save"}, run : RunIds, row : Run,
             user : Users, steps : Seq(StepDefinition)]
  BY DEF Task, Idle
<1>2. [t EXCEPT !.at = "start_save"] \in
        [at : {"start_check", "start_save"}, run : RunIds, row : Run,
         user : Users, steps : Seq(StepDefinition)]
  BY <1>1
<1>3. [t EXCEPT !.at = "start_save"] \in Task
  BY <1>2 DEF Task
<1> QED BY <1>1, <1>3

\* The totals of a table of items are totals; NoItems is such a table.
LEMMA TotalsTyped ==
    /\ NoItems \in ItemTable
    /\ \A table \in ItemTable : Totals(table) \in RunTotals
BY DEF NoItems, ItemTable, RunTotals

LEMMA ItemRowTyped ==
    /\ \A e \in Employees : ItemRow(salaryOf[e], 0, 0) \in Item
    /\ \A item \in Item, dto \in ItemEdit :
          ItemRow(item.gross, OrElse(dto.bonus, item.bonus),
                  OrElse(dto.deduction, item.deduction)) \in Item
<1>1. \A e \in Employees : ItemRow(salaryOf[e], 0, 0) \in Item
  BY DEF Item, Amounts
<1>2. ASSUME NEW item \in Item, NEW dto \in ItemEdit
      PROVE  ItemRow(item.gross, OrElse(dto.bonus, item.bonus),
                     OrElse(dto.deduction, item.deduction)) \in Item
  <2>1. PICK e \in Employees, b \in Amounts, d \in Amounts : item = ItemRow(salaryOf[e], b, d)
    BY DEF Item
  <2>2. item.gross = salaryOf[e] /\ item.bonus = b /\ item.deduction = d
    BY <2>1 DEF ItemRow
  <2>3. OrElse(dto.bonus, b) \in Amounts /\ OrElse(dto.deduction, d) \in Amounts
    BY DEF OrElse, ItemEdit, Amounts
  <2> QED BY <2>2, <2>3 DEF Item
<1> QED BY <1>1, <1>2

LEMMA ContinueTyped ==
    ASSUME task \in [Handlers -> Task], NEW h \in Handlers, NEW next \in Task,
           Continue(h, next)
    PROVE  /\ task' \in [Handlers -> Task]
           /\ task'[h] = next
           /\ \A g \in Handlers : g # h => task'[g] = task[g]
BY DEF Continue

LEMMA FinishTyped ==
    ASSUME task \in [Handlers -> Task], NEW h \in Handlers, Finish(h)
    PROVE  /\ task' \in [Handlers -> Task]
           /\ task'[h] = Idle
           /\ \A g \in Handlers : g # h => task'[g] = task[g]
BY DEF Finish, Continue, Task

LEMMA TypeInit == Init => TypeOK
BY TotalsTyped DEF Init, TypeOK, Task

\* One step per action; where only the handler's own place changes, the step says what it
\* holds next.
LEMMA TypeNext == IInv /\ [Next]_vars => TypeOK'
<1> SUFFICES ASSUME TypeOK, Justified, [Next]_vars PROVE TypeOK'
  BY DEF IInv
<1> USE PayrollAssumption
<1>1. ASSUME NEW h \in Handlers, NEW u \in Users, NEW r \in RunIds, CreatePayrollRun(h, u, r)
      PROVE  TypeOK'
  <2>1. [at |-> "create_items", run |-> r] \in Task
    BY DEF Task
  <2>2. [status |-> "draft", workflowInstanceId |-> None, totals |-> Totals(NoItems)] \in Run
    BY TotalsTyped DEF Run, RunStatus
  <2>3. task' \in [Handlers -> Task]
    BY <1>1, <2>1, ContinueTyped DEF TypeOK, CreatePayrollRun
  <2> QED BY <1>1, <2>2, <2>3 DEF TypeOK, CreatePayrollRun
<1>2. ASSUME NEW h \in Handlers, CreatePayrollItems(h) PROVE TypeOK'
  <2>1. task[h] \in Task /\ task[h].run \in RunIds
    BY <1>2, TaskFields DEF TypeOK, CreatePayrollItems, At
  <2>2. [at |-> "recalc_read", run |-> task[h].run] \in Task
    BY <2>1 DEF Task
  <2>3. task' \in [Handlers -> Task]
    BY <1>2, <2>2, ContinueTyped, FinishTyped DEF TypeOK, CreatePayrollItems
  <2>4. \A eligible \in SUBSET Employees : FirstItems(eligible) \in ItemTable
    BY ItemRowTyped DEF ItemTable, FirstItems
  <2>5. items' \in [RunIds -> ItemTable]
    BY <1>2, <2>1, <2>4 DEF TypeOK, CreatePayrollItems
  <2> QED BY <1>2, <2>3, <2>5 DEF TypeOK, CreatePayrollItems
<1>3. ASSUME NEW h \in Handlers, RecalcReadRun(h) PROVE TypeOK'
  <2>1. task[h].run \in RunIds /\ runs[task[h].run] \in Run
    BY <1>3, TaskFields DEF TypeOK, RecalcReadRun, At
  <2>2. [at |-> "recalc_items", run |-> task[h].run, row |-> runs[task[h].run]] \in Task
    BY <2>1 DEF Task
  <2>3. task' \in [Handlers -> Task]
    BY <1>3, <2>2, ContinueTyped DEF TypeOK, RecalcReadRun
  <2> QED BY <1>3, <2>3 DEF TypeOK, RecalcReadRun, tables
<1>4. ASSUME NEW h \in Handlers, RecalcReadItems(h) PROVE TypeOK'
  <2>1. task[h].run \in RunIds /\ task[h].row \in Run
    BY <1>4, TaskFields DEF TypeOK, RecalcReadItems, At, HoldsRunRow
  <2>2. Totals(items[task[h].run]) \in RunTotals
    BY <2>1, TotalsTyped DEF TypeOK
  <2>3. [task[h].row EXCEPT !.totals = Totals(items[task[h].run])] \in Run
    BY <2>1, <2>2 DEF Run
  <2>4. [at |-> "recalc_save", run |-> task[h].run,
         row |-> [task[h].row EXCEPT !.totals = Totals(items[task[h].run])]] \in Task
    BY <2>1, <2>3 DEF Task
  <2>5. task' \in [Handlers -> Task]
    BY <1>4, <2>4, ContinueTyped DEF TypeOK, RecalcReadItems
  <2> QED BY <1>4, <2>5 DEF TypeOK, RecalcReadItems, tables
<1>5. ASSUME NEW h \in Handlers, RecalcSave(h) \/ SubmitSaveRun(h) \/ SyncSaveRun(h)
      PROVE TypeOK'
  <2>1. task[h].run \in RunIds /\ task[h].row \in Run
    BY <1>5, TaskFields
       DEF TypeOK, RecalcSave, SubmitSaveRun, SyncSaveRun, At, HoldsRunRow, PastItemCheck
  <2>2. task' \in [Handlers -> Task]
    BY <1>5, FinishTyped DEF TypeOK, RecalcSave, SubmitSaveRun, SyncSaveRun
  <2> QED BY <1>5, <2>1, <2>2 DEF TypeOK, RecalcSave, SubmitSaveRun, SyncSaveRun
<1>6. ASSUME NEW h \in Handlers, NEW u \in Users, NEW r \in RunIds, NEW e \in Employees,
             NEW dto \in ItemEdit, UpdatePayrollItem(h, u, r, e, dto)
      PROVE  TypeOK'
  <2>1. [at |-> "edit_read", run |-> r, employee |-> e, dto |-> dto] \in Task
    BY DEF Task
  <2>2. task' \in [Handlers -> Task]
    BY <1>6, <2>1, ContinueTyped DEF TypeOK, UpdatePayrollItem
  <2> QED BY <1>6, <2>2 DEF TypeOK, UpdatePayrollItem, tables
<1>7. ASSUME NEW h \in Handlers, EditReadItem(h) PROVE TypeOK'
  <2> DEFINE item == items[task[h].run][task[h].employee]
             new  == ItemRow(item.gross, OrElse(task[h].dto.bonus, item.bonus),
                             OrElse(task[h].dto.deduction, item.deduction))
  <2>1. /\ task[h].run \in RunIds /\ task[h].employee \in Employees
        /\ task[h].dto \in ItemEdit
    BY <1>7, TaskFields DEF TypeOK, EditReadItem, At
  <2>2. item \in Item \cup {None}
    BY <2>1 DEF TypeOK, ItemTable
  <2> HIDE DEF item
  <2>3. item # None => new \in Item
    BY <2>1, <2>2, ItemRowTyped
  <2>4. item # None =>
          [at |-> "edit_save", run |-> task[h].run, employee |-> task[h].employee,
           item |-> new] \in Task
    BY <2>1, <2>3 DEF Task
  <2>5. task' \in [Handlers -> Task]
    BY <1>7, <2>4, ContinueTyped, FinishTyped DEF TypeOK, EditReadItem, item
  <2> QED BY <1>7, <2>5 DEF TypeOK, EditReadItem, tables
<1>8. ASSUME NEW h \in Handlers, EditSaveItem(h) PROVE TypeOK'
  <2>1. /\ task[h].run \in RunIds /\ task[h].employee \in Employees
        /\ task[h].item \in Item
    BY <1>8, TaskFields DEF TypeOK, EditSaveItem, At
  <2>2. [at |-> "recalc_read", run |-> task[h].run] \in Task
    BY <2>1 DEF Task
  <2>3. task' \in [Handlers -> Task]
    BY <1>8, <2>2, ContinueTyped DEF TypeOK, EditSaveItem
  <2>4. items' \in [RunIds -> ItemTable]
    BY <1>8, <2>1 DEF TypeOK, EditSaveItem, ItemTable
  <2> QED BY <1>8, <2>3, <2>4 DEF TypeOK, EditSaveItem
<1>9. ASSUME NEW h \in Handlers, NEW u \in Users, NEW r \in RunIds, SubmitPayrollRun(h, u, r)
      PROVE  TypeOK'
  <2>1. runs[r] \in Run
    BY <1>9 DEF TypeOK, SubmitPayrollRun, Mutable
  <2>2. [at |-> "submit_items", run |-> r, row |-> runs[r], user |-> u] \in Task
    BY <2>1 DEF Task
  <2>3. task' \in [Handlers -> Task]
    BY <1>9, <2>2, ContinueTyped DEF TypeOK, SubmitPayrollRun
  <2> QED BY <1>9, <2>3 DEF TypeOK, SubmitPayrollRun, tables
<1>10. ASSUME NEW h \in Handlers, SubmitReadItems(h) \/ EnsureFindDefinition(h)
       PROVE  TypeOK'
  <2>1. /\ task[h] \in Task
        /\ task[h].at \in {"submit_items", "ensure_find"}
    BY <1>10 DEF TypeOK, SubmitReadItems, EnsureFindDefinition, At
  <2>2. \A place \in {"ensure_find", "ensure_save", "start_find"} :
          [task[h] EXCEPT !.at = place] \in Task
    BY <2>1, SubmitMovesOn
  <2>3. task' \in [Handlers -> Task]
    BY <1>10, <2>2, ContinueTyped, FinishTyped
       DEF TypeOK, SubmitReadItems, EnsureFindDefinition
  <2> QED BY <1>10, <2>3 DEF TypeOK, SubmitReadItems, EnsureFindDefinition, tables
<1>11. ASSUME NEW h \in Handlers, EnsureSaveDefinition(h) PROVE TypeOK'
  <2>1. task[h] \in Task /\ task[h].at = "ensure_save"
    BY <1>11 DEF TypeOK, EnsureSaveDefinition, At
  <2>2. [task[h] EXCEPT !.at = "start_find"] \in Task
    BY <2>1, SubmitMovesOn
  <2>3. task' \in [Handlers -> Task]
    BY <1>11, <2>2, ContinueTyped, FinishTyped DEF TypeOK, EnsureSaveDefinition
  <2>4. DefaultDefinition \in Definition
    BY DefaultIsOrdered
  <2>5. definitions' \in [DefinitionIds -> Definition \cup {None}]
    BY <1>11, <2>4 DEF TypeOK, EnsureSaveDefinition
  <2> QED BY <1>11, <2>3, <2>5 DEF TypeOK, EnsureSaveDefinition
<1>12. ASSUME NEW h \in Handlers, StartFindDefinition(h) PROVE TypeOK'
  <2>1. task[h].run \in RunIds /\ task[h].row \in Run /\ task[h].user \in Users
    BY <1>12, TaskFields DEF TypeOK, StartFindDefinition, At, HoldsRunRow, PastItemCheck
  <2>2. ASSUME NEW d \in Holders("payroll-approval")
        PROVE  [at |-> "start_check", run |-> task[h].run, row |-> task[h].row,
                user |-> task[h].user, steps |-> definitions[d].steps] \in Task
    <3>1. definitions[d].steps \in Seq(StepDefinition)
      BY DEF Holders, TypeOK, Definition
    <3> QED BY <2>1, <3>1 DEF Task
  <2>3. task' \in [Handlers -> Task]
    BY <1>12, <2>2, ContinueTyped, FinishTyped DEF TypeOK, StartFindDefinition
  <2> QED BY <1>12, <2>3 DEF TypeOK, StartFindDefinition, tables
<1>13. ASSUME NEW h \in Handlers, StartCheckPending(h) PROVE TypeOK'
  <2>1. task[h] \in Task /\ task[h].at = "start_check"
    BY <1>13 DEF TypeOK, StartCheckPending, At
  <2>2. task' \in [Handlers -> Task]
    BY <1>13, <2>1, StartMovesOn, ContinueTyped, FinishTyped DEF TypeOK, StartCheckPending
  <2> QED BY <1>13, <2>2 DEF TypeOK, StartCheckPending, tables
<1>14. ASSUME NEW h \in Handlers, StartSaveInstance(h) PROVE TypeOK'
  <2>1. /\ task[h].run \in RunIds /\ task[h].row \in Run /\ task[h].user \in Users
        /\ task[h].steps \in Seq(StepDefinition) /\ Ordered(task[h].steps)
    BY <1>14, TaskFields
       DEF TypeOK, StartSaveInstance, At, HoldsRunRow, PastItemCheck,
           Justified, TaskJustified
  <2>2. StartedInstance(task[h].run, task[h].user, task[h].steps) \in WorkflowInstance
    BY <2>1, StartedIsSound DEF WorkflowInstance
  <2>3. ASSUME NEW i \in InstanceIds
        PROVE  [at |-> "submit_save", run |-> task[h].run,
                row |-> [task[h].row EXCEPT !.status = "pending_approval",
                                            !.workflowInstanceId = i]] \in Task
    <3>1. [task[h].row EXCEPT !.status = "pending_approval", !.workflowInstanceId = i] \in Run
      BY <2>1 DEF Run, RunStatus
    <3> QED BY <2>1, <3>1 DEF Task
  <2>4. task' \in [Handlers -> Task]
    BY <1>14, <2>3, ContinueTyped DEF TypeOK, StartSaveInstance
  <2> QED BY <1>14, <2>2, <2>4 DEF TypeOK, StartSaveInstance
<1>15. ASSUME NEW h \in Handlers, NEW u \in Users, NEW i \in InstanceIds,
              NEW decision \in {"approved", "rejected"}, ReviewInstance(h, u, i, decision)
       PROVE  TypeOK'
  <2>1. instances[i] \in WorkflowInstance /\ SoundInstance(instances[i])
    BY <1>15 DEF ReviewInstance, TypeOK, Justified, InstanceRowJustified
  <2>2. ASSUME NEW k \in DOMAIN instances[i].steps, MayReview(u, instances[i], k)
        PROVE  [at |-> "review_save", instance |-> i,
                row |-> Reviewed(instances[i], k, u, decision)] \in Task
    <3>1. Reviewed(instances[i], k, u, decision) \in WorkflowInstance
      BY <2>1, <2>2, ReviewKeepsSound DEF WorkflowInstance
    <3> QED BY <3>1 DEF Task
  <2>3. task' \in [Handlers -> Task]
    BY <1>15, <2>2, ContinueTyped DEF TypeOK, ReviewInstance
  <2> QED BY <1>15, <2>3 DEF TypeOK, ReviewInstance, tables
<1>16. ASSUME NEW h \in Handlers, ReviewSaveInstance(h) PROVE TypeOK'
  <2>1. task[h].instance \in InstanceIds /\ task[h].row \in WorkflowInstance
    BY <1>16, TaskFields DEF TypeOK, ReviewSaveInstance, At
  <2>2. [at |-> "sync_read", row |-> task[h].row] \in Task
    BY <2>1 DEF Task
  <2>3. task' \in [Handlers -> Task]
    BY <1>16, <2>2, ContinueTyped DEF TypeOK, ReviewSaveInstance
  <2> QED BY <1>16, <2>1, <2>3 DEF TypeOK, ReviewSaveInstance
<1>17. ASSUME NEW h \in Handlers, SyncReadRun(h) PROVE TypeOK'
  <2> DEFINE ref == task[h].row.reference
             new == [runs[ref] EXCEPT !.status = RunStatusFor(task[h].row.status)]
  <2>1. task[h].row \in WorkflowInstance
    BY <1>17, TaskFields DEF TypeOK, SyncReadRun, At
  <2>2. ref \in RunIds /\ RunStatusFor(task[h].row.status) \in RunStatus
    BY <2>1 DEF WorkflowInstance, Instance, RunStatusFor, RunStatus
  <2>3. runs[ref] # None => new \in Run
    BY <2>2 DEF TypeOK, Run
  <2>4. runs[ref] # None => [at |-> "sync_save", run |-> ref, row |-> new] \in Task
    BY <2>2, <2>3 DEF Task
  <2>5. task' \in [Handlers -> Task]
    BY <1>17, <2>4, ContinueTyped, FinishTyped DEF TypeOK, SyncReadRun
  <2> QED BY <1>17, <2>5 DEF TypeOK, SyncReadRun, tables
<1>18. ASSUME NEW h \in Handlers, NEW u \in Users, NEW d \in DefinitionIds,
              NEW code \in OptionalCode, NEW active \in OptionalFlag,
              NEW draft \in StepDrafts \cup {None},
              UpdateDefinition(h, u, d, code, active, draft)
       PROVE  TypeOK'
  <2> DEFINE old == definitions[d]
             new == [code |-> OrElse(code, old.code), isActive |-> OrElse(active, old.isActive),
                     steps |-> IF draft = None THEN old.steps ELSE NormalizeSteps(draft)]
  <2>1. old \in Definition
    BY <1>18 DEF TypeOK, UpdateDefinition
  <2>2. draft # None => NormalizeSteps(draft) \in Seq(StepDefinition)
    BY <1>18, NormalizedIsOrdered DEF UpdateDefinition
  <2>3. new.steps \in Seq(StepDefinition)
    BY <2>1, <2>2 DEF Definition
  <2>4. /\ OrElse(code, old.code) \in {"payroll-approval", "other"}
        /\ OrElse(active, old.isActive) \in BOOLEAN
    BY <2>1 DEF Definition, OrElse, OptionalCode, OptionalFlag
  <2>5. new \in Definition
    BY <2>3, <2>4 DEF Definition
  <2>6. [at |-> "define_save", definition |-> d, row |-> new] \in Task
    BY <2>5 DEF Task
  <2>7. task' \in [Handlers -> Task]
    BY <1>18, <2>6, ContinueTyped DEF TypeOK, UpdateDefinition
  <2> QED BY <1>18, <2>7 DEF TypeOK, UpdateDefinition, tables
<1>19. ASSUME NEW h \in Handlers, DefineSave(h) PROVE TypeOK'
  <2>1. task[h].definition \in DefinitionIds /\ task[h].row \in Definition
    BY <1>19, TaskFields DEF TypeOK, DefineSave, At
  <2>2. task' \in [Handlers -> Task]
    BY <1>19, FinishTyped DEF TypeOK, DefineSave
  <2> QED BY <1>19, <2>1, <2>2 DEF TypeOK, DefineSave
<1>20. ASSUME NEW h \in Handlers, Fail(h) PROVE TypeOK'
  BY <1>20, FinishTyped DEF TypeOK, Fail, tables
<1>21. ASSUME NEW u \in Users, NEW d \in DefinitionIds,
              NEW code \in {"payroll-approval", "other"}, NEW active \in BOOLEAN,
              NEW draft \in StepDrafts, CreateDefinition(u, d, code, active, draft)
       PROVE  TypeOK'
  <2>1. NormalizeSteps(draft) \in Seq(StepDefinition)
    BY <1>21, NormalizedIsOrdered DEF CreateDefinition
  <2>2. [code |-> code, isActive |-> active, steps |-> NormalizeSteps(draft)] \in Definition
    BY <2>1 DEF Definition
  <2> QED BY <1>21, <2>2 DEF TypeOK, CreateDefinition
<1>22. CASE UNCHANGED vars
  BY <1>22 DEF TypeOK, vars
<1>23. ASSUME NEW h \in Handlers, Begin(h) PROVE TypeOK'
  BY <1>1, <1>6, <1>9, <1>15, <1>18, <1>23 DEF Begin
<1>24. ASSUME NEW h \in Handlers, Proceed(h) PROVE TypeOK'
  BY <1>2, <1>3, <1>4, <1>5, <1>7, <1>8, <1>10, <1>11, <1>12, <1>13, <1>14, <1>16, <1>17,
     <1>19, <1>24 DEF Proceed
<1> QED BY <1>20, <1>21, <1>22, <1>23, <1>24 DEF Next

-----------------------------------------------------------------------------
(***************************************************************************)
(* What is once true of the tables stays true: rows and items never go     *)
(* away, an instance keeps its run, a certificate is never withdrawn.      *)
(***************************************************************************)
Growth ==
    /\ certificates \subseteq certificates'
    /\ \A r \in RunIds : runs[r] # None => runs'[r] # None
    /\ \A r \in RunIds, e \in Employees : items[r][e] # None => items'[r][e] # None
    /\ \A i \in InstanceIds :
           instances[i] # None => /\ instances'[i] # None
                                  /\ instances'[i].reference = instances[i].reference

LEMMA FactsStay ==
    ASSUME Growth
    PROVE  /\ \A r \in RunIds : Certified(r) => Certified(r)'
           /\ \A r \in RunIds : PaysSomebody(r) => PaysSomebody(r)'
           /\ \A r \in RunIds, i \in InstanceIds : Started(r, i) => Started(r, i)'
<1>1. \A r \in RunIds : Certified(r) => Certified(r)'
  BY DEF Growth, Certified
<1>2. \A r \in RunIds : PaysSomebody(r) => PaysSomebody(r)'
  BY DEF Growth, PaysSomebody, Paid
<1>3. \A r \in RunIds, i \in InstanceIds : Started(r, i) => Started(r, i)'
  BY DEF Growth, Started
<1> QED BY <1>1, <1>2, <1>3

LEMMA RowStays ==
    ASSUME Growth, NEW r \in RunIds, NEW row \in Run, RunRowJustified(r, row)
    PROVE  RunRowJustified(r, row)'
BY FactsStay DEF RunRowJustified, Run

\* A copy in memory stays justified while other handlers move; only a handler that is about
\* to make the items of its run depends on nobody else making them.
LEMMA TaskStays ==
    ASSUME Growth, NEW t \in Task, TaskJustified(t),
           t.at = "create_items" => items'[t.run] = items[t.run]
    PROVE  TaskJustified(t)'
<1>1. t.at \in HoldsRunRow => RunRowJustified(t.run, t.row)'
  BY TaskFields, RowStays DEF TaskJustified
<1>2. t.at \in PastItemCheck => PaysSomebody(t.run)'
  BY TaskFields, FactsStay DEF TaskJustified, HoldsRunRow
<1>3. t.at \in {"review_save", "sync_read"} => InstanceRowJustified(t.row)'
  BY TaskFields, FactsStay DEF TaskJustified, InstanceRowJustified, WorkflowInstance, Instance
<1>4. t.at = "review_save" => Started(t.row.reference, t.instance)'
  BY TaskFields, FactsStay DEF TaskJustified, WorkflowInstance, Instance
<1>5. t.at = "sync_read" /\ t.row.status = "approved" => Certified(t.row.reference)'
  BY TaskFields, FactsStay DEF TaskJustified, WorkflowInstance, Instance
<1>6. t.at = "edit_save" => items'[t.run][t.employee] # None
  BY TaskFields DEF TaskJustified, Growth
<1>7. t.at = "create_items" => runs'[t.run] # None /\ items'[t.run] = NoItems
  BY TaskFields DEF TaskJustified, Growth
<1> QED BY <1>1, <1>2, <1>3, <1>4, <1>5, <1>6, <1>7 DEF TaskJustified

\* It is enough to look at the rows that change and at the handler that changed them.
LEMMA JustifiedStays ==
    ASSUME TypeOK, Justified, Growth, NEW h \in Handlers,
           \A g \in Handlers : g # h => task'[g] = task[g],
           \A r \in RunIds : runs'[r] = None => items'[r] = NoItems,
           \A r \in RunIds : runs'[r] # runs[r] => RunRowJustified(r, runs[r])',
           \A d \in DefinitionIds :
               definitions'[d] # definitions[d] => Ordered(definitions'[d].steps),
           \A i \in InstanceIds :
               instances'[i] # instances[i] => InstanceRowJustified(instances[i])',
           \A g \in Handlers : g # h /\ At(g, "create_items") =>
               items'[task[g].run] = items[task[g].run],
           TaskJustified(task[h])',
           \A g \in Handlers : g # h /\ At(g, "create_items") /\ At(h, "create_items")' =>
               task[g].run # task'[h].run
    PROVE  Justified'
<1>1. \A r \in RunIds : (runs[r] = None => items[r] = NoItems)'
  OBVIOUS
<1>2. ASSUME NEW r \in RunIds, runs'[r] # None PROVE RunRowJustified(r, runs[r])'
  <2>1. CASE runs'[r] # runs[r]
    BY <2>1
  <2>2. CASE runs'[r] = runs[r]
    BY <1>2, <2>2, FactsStay DEF TypeOK, Justified, RunRowJustified, Run
  <2> QED BY <2>1, <2>2
<1>3. \A d \in DefinitionIds : (definitions[d] # None => Ordered(definitions[d].steps))'
  BY DEF Justified
<1>4. ASSUME NEW i \in InstanceIds, instances'[i] # None
      PROVE  InstanceRowJustified(instances[i])'
  <2>1. CASE instances'[i] # instances[i]
    BY <2>1
  <2>2. CASE instances'[i] = instances[i]
    BY <1>4, <2>2, FactsStay
       DEF TypeOK, Justified, InstanceRowJustified, WorkflowInstance, Instance
  <2> QED BY <2>1, <2>2
<1>5. ASSUME NEW g \in Handlers PROVE TaskJustified(task[g])'
  <2>1. CASE g # h
    <3>1. PICK t \in Task : t = task[g]
      BY DEF TypeOK
    <3>2. TaskJustified(t)'
      BY <2>1, <3>1, TaskStays DEF Justified, At
    <3> QED BY <2>1, <3>1, <3>2
  <2> QED BY <2>1
<1>6. ASSUME NEW g \in Handlers, NEW k \in Handlers,
             (At(g, "create_items") /\ At(k, "create_items") /\ g # k)'
      PROVE  (task[g].run # task[k].run)'
  BY <1>6 DEF Justified, At
<1> QED BY <1>1, <1>2, <1>3, <1>4, <1>5, <1>6 DEF Justified

\* The same for a step that writes no table and leaves t in the handler's memory.
LEMMA QuietStays ==
    ASSUME TypeOK, Justified, NEW h \in Handlers, NEW t \in Task,
           UNCHANGED <<tables, certificates>>, Continue(h, t),
           t.at # "create_items", TaskJustified(t)
    PROVE  Justified'
<1>1. Growth
  BY DEF Growth, tables
<1>2. task'[h] = t /\ \A g \in Handlers : g # h => task'[g] = task[g]
  BY ContinueTyped DEF TypeOK
<1>3. TaskJustified(t)'
  BY <1>1, TaskStays
<1>4. TaskJustified(task[h])'
  BY <1>2, <1>3
<1>5. \A r \in RunIds : runs'[r] = None => items'[r] = NoItems
  BY DEF tables, Justified
<1> QED BY <1>1, <1>2, <1>4, <1>5, JustifiedStays DEF tables, At

\* The same when only definitions change, and no handler moves.
LEMMA TablesAlone ==
    ASSUME Justified, UNCHANGED <<runs, items, instances, task, certificates>>,
           \A d \in DefinitionIds : definitions'[d] # None => Ordered(definitions'[d].steps)
    PROVE  Justified'
BY DEF Justified, TaskJustified, RunRowJustified, InstanceRowJustified, Certified,
       PaysSomebody, Started, At

LEMMA IdleJustified ==
    Idle \in Task /\ Idle.at # "create_items" /\ TaskJustified(Idle) /\ TaskJustified(Idle)'
BY DEF Idle, Task, TaskJustified, HoldsRunRow, PastItemCheck

LEMMA JustifiedInit == Init => Justified
<1> SUFFICES ASSUME Init PROVE Justified
  OBVIOUS
<1>1. \A h \in Handlers : task[h] = Idle
  BY DEF Init
<1>2. \A h \in Handlers : TaskJustified(task[h]) /\ ~At(h, "create_items")
  BY <1>1, IdleJustified DEF At
<1> QED BY <1>2 DEF Init, Justified

\* One step per action: first those that only read, then those that write a table.
LEMMA JustifiedNext == IInv /\ [Next]_vars => Justified'
<1> SUFFICES ASSUME TypeOK, Justified, [Next]_vars PROVE Justified'
  BY DEF IInv
<1> USE PayrollAssumption
<1>1. ASSUME NEW h \in Handlers, RecalcReadRun(h) PROVE Justified'
  <2> DEFINE t == [at |-> "recalc_items", run |-> task[h].run, row |-> runs[task[h].run]]
  <2>1. task[h].run \in RunIds /\ runs[task[h].run] \in Run
    BY <1>1, TaskFields DEF TypeOK, RecalcReadRun, At
  <2>2. t \in Task
    BY <2>1 DEF Task
  <2>3. RunRowJustified(task[h].run, runs[task[h].run])
    BY <1>1, <2>1 DEF Justified, RecalcReadRun
  <2>4. TaskJustified(t)
    BY <2>3 DEF TaskJustified, PastItemCheck
  <2> QED BY <1>1, <2>2, <2>4, QuietStays DEF RecalcReadRun
<1>2. ASSUME NEW h \in Handlers, RecalcReadItems(h) PROVE Justified'
  <2> DEFINE new == [task[h].row EXCEPT !.totals = Totals(items[task[h].run])]
             t   == [at |-> "recalc_save", run |-> task[h].run, row |-> new]
  <2>1. task[h].run \in RunIds /\ task[h].row \in Run
    BY <1>2, TaskFields DEF TypeOK, RecalcReadItems, At, HoldsRunRow
  <2>2. Totals(items[task[h].run]) \in RunTotals
    BY <2>1, TotalsTyped DEF TypeOK
  <2>3. new \in Run
    BY <2>1, <2>2 DEF Run
  <2>4. RunRowJustified(task[h].run, task[h].row)
    BY <1>2 DEF Justified, TaskJustified, RecalcReadItems, At, HoldsRunRow
  <2>5. RunRowJustified(task[h].run, new)
    BY <2>1, <2>4 DEF RunRowJustified, Run
  <2>6. t \in Task
    BY <2>1, <2>3 DEF Task
  <2>7. TaskJustified(t)
    BY <2>5 DEF TaskJustified, PastItemCheck
  <2> QED BY <1>2, <2>6, <2>7, QuietStays DEF RecalcReadItems
<1>3. ASSUME NEW h \in Handlers, NEW u \in Users, NEW r \in RunIds, NEW e \in Employees,
             NEW dto \in ItemEdit, UpdatePayrollItem(h, u, r, e, dto)
      PROVE  Justified'
  <2> DEFINE t == [at |-> "edit_read", run |-> r, employee |-> e, dto |-> dto]
  <2>1. t \in Task
    BY DEF Task
  <2>2. TaskJustified(t)
    BY DEF TaskJustified, HoldsRunRow, PastItemCheck
  <2> QED BY <1>3, <2>1, <2>2, QuietStays DEF UpdatePayrollItem
<1>4. ASSUME NEW h \in Handlers, EditReadItem(h) PROVE Justified'
  <2> DEFINE item == items[task[h].run][task[h].employee]
             new  == ItemRow(item.gross, OrElse(task[h].dto.bonus, item.bonus),
                             OrElse(task[h].dto.deduction, item.deduction))
             t    == [at |-> "edit_save", run |-> task[h].run,
                      employee |-> task[h].employee, item |-> new]
  <2>1. /\ task[h].run \in RunIds /\ task[h].employee \in Employees
        /\ task[h].dto \in ItemEdit
    BY <1>4, TaskFields DEF TypeOK, EditReadItem, At
  <2>2. item \in Item \cup {None}
    BY <2>1 DEF TypeOK, ItemTable
  <2>3. CASE item = None
    BY <1>4, <2>3, IdleJustified, QuietStays DEF EditReadItem, Finish
  <2>4. CASE item # None
    <3> HIDE DEF item
    <3>1. new \in Item
      BY <2>1, <2>2, <2>4, ItemRowTyped
    <3> HIDE DEF new
    <3>2. t \in Task
      BY <2>1, <3>1 DEF Task
    <3>3. TaskJustified(t)
      BY <2>4 DEF TaskJustified, HoldsRunRow, PastItemCheck, item
    <3>4. Continue(h, t)
      BY <1>4, <2>4 DEF EditReadItem, item, new
    <3> QED BY <1>4, <3>2, <3>3, <3>4, QuietStays DEF EditReadItem
  <2> QED BY <2>3, <2>4
<1>5. ASSUME NEW h \in Handlers, NEW u \in Users, NEW r \in RunIds, SubmitPayrollRun(h, u, r)
      PROVE  Justified'
  <2> DEFINE t == [at |-> "submit_items", run |-> r, row |-> runs[r], user |-> u]
  <2>1. runs[r] \in Run /\ RunRowJustified(r, runs[r])
    BY <1>5 DEF TypeOK, Justified, SubmitPayrollRun, Mutable
  <2>2. t \in Task
    BY <2>1 DEF Task
  <2>3. TaskJustified(t)
    BY <2>1 DEF TaskJustified, PastItemCheck
  <2> QED BY <1>5, <2>2, <2>3, QuietStays DEF SubmitPayrollRun
<1>6. ASSUME NEW h \in Handlers, SubmitReadItems(h) PROVE Justified'
  <2>1. task[h] \in Task /\ task[h].at = "submit_items" /\ TaskJustified(task[h])
    BY <1>6 DEF TypeOK, Justified, SubmitReadItems, At
  <2>2. CASE Paid(items[task[h].run]) = {}
    BY <1>6, <2>2, IdleJustified, QuietStays DEF SubmitReadItems, Finish
  <2>3. CASE Paid(items[task[h].run]) # {}
    <3>1. PICK t \in Task : t = [task[h] EXCEPT !.at = "ensure_find"]
      BY <2>1, SubmitMovesOn
    <3>2. t.at = "ensure_find" /\ t.run = task[h].run /\ t.row = task[h].row
      BY <2>1, <3>1, SubmitMovesOn
    <3>3. TaskJustified(t)
      BY <2>1, <2>3, <3>2 DEF TaskJustified, HoldsRunRow, PastItemCheck, PaysSomebody
    <3> QED BY <1>6, <2>3, <3>1, <3>2, <3>3, QuietStays DEF SubmitReadItems
  <2> QED BY <2>2, <2>3
<1>7. ASSUME NEW h \in Handlers, EnsureFindDefinition(h) PROVE Justified'
  <2>1. task[h] \in Task /\ task[h].at = "ensure_find" /\ TaskJustified(task[h])
    BY <1>7 DEF TypeOK, Justified, EnsureFindDefinition, At
  <2>2. PICK place \in {"ensure_save", "start_find"} :
          Continue(h, [task[h] EXCEPT !.at = place])
    BY <1>7 DEF EnsureFindDefinition
  <2>3. PICK t \in Task : t = [task[h] EXCEPT !.at = place]
    BY <2>1, SubmitMovesOn
  <2>4. t.at = place /\ t.run = task[h].run /\ t.row = task[h].row
    BY <2>1, <2>3, SubmitMovesOn
  <2>5. TaskJustified(t)
    BY <2>1, <2>4 DEF TaskJustified, HoldsRunRow, PastItemCheck
  <2> QED BY <1>7, <2>2, <2>3, <2>4, <2>5, QuietStays DEF EnsureFindDefinition
<1>8. ASSUME NEW h \in Handlers, StartFindDefinition(h) PROVE Justified'
  <2>1. /\ task[h].run \in RunIds /\ task[h].row \in Run /\ task[h].user \in Users
        /\ task[h].at = "start_find" /\ TaskJustified(task[h])
    BY <1>8, TaskFields
       DEF TypeOK, Justified, StartFindDefinition, At, HoldsRunRow, PastItemCheck
  <2>2. CASE Finish(h)
    BY <1>8, <2>2, IdleJustified, QuietStays DEF StartFindDefinition, Finish
  <2>3. CASE ~Finish(h)
    <3>1. PICK d \in Holders("payroll-approval") :
            Continue(h, [at |-> "start_check", run |-> task[h].run, row |-> task[h].row,
                         user |-> task[h].user, steps |-> definitions[d].steps])
      BY <1>8, <2>3 DEF StartFindDefinition
    <3> DEFINE t == [at |-> "start_check", run |-> task[h].run, row |-> task[h].row,
                     user |-> task[h].user, steps |-> definitions[d].steps]
    <3>2. definitions[d].steps \in Seq(StepDefinition) /\ Ordered(definitions[d].steps)
      BY DEF Holders, TypeOK, Definition, Justified
    <3>3. t \in Task
      BY <2>1, <3>2 DEF Task
    <3>4. TaskJustified(t)
      BY <2>1, <3>2 DEF TaskJustified, HoldsRunRow, PastItemCheck
    <3> QED BY <1>8, <3>1, <3>3, <3>4, QuietStays DEF StartFindDefinition
  <2> QED BY <2>2, <2>3
<1>9. ASSUME NEW h \in Handlers, StartCheckPending(h) PROVE Justified'
  <2>1. task[h] \in Task /\ task[h].at = "start_check" /\ TaskJustified(task[h])
    BY <1>9 DEF TypeOK, Justified, StartCheckPending, At
  <2>2. CASE Finish(h)
    BY <1>9, <2>2, IdleJustified, QuietStays DEF StartCheckPending, Finish
  <2>3. CASE Continue(h, [task[h] EXCEPT !.at = "start_save"])
    <3>1. PICK t \in Task : t = [task[h] EXCEPT !.at = "start_save"]
      BY <2>1, StartMovesOn
    <3>2. t.at = "start_save" /\ t.run = task[h].run /\ t.row = task[h].row
          /\ t.steps = task[h].steps
      BY <2>1, <3>1, StartMovesOn
    <3>3. TaskJustified(t)
      BY <2>1, <3>2 DEF TaskJustified, HoldsRunRow, PastItemCheck
    <3> QED BY <1>9, <2>3, <3>1, <3>2, <3>3, QuietStays DEF StartCheckPending
  <2> QED BY <1>9, <2>2, <2>3 DEF StartCheckPending
<1>10. ASSUME NEW h \in Handlers, NEW u \in Users, NEW i \in InstanceIds,
              NEW decision \in {"approved", "rejected"}, ReviewInstance(h, u, i, decision)
       PROVE  Justified'
  <2>1. instances[i] \in WorkflowInstance /\ InstanceRowJustified(instances[i])
    BY <1>10 DEF ReviewInstance, TypeOK, Justified
  <2>2. PICK k \in DOMAIN instances[i].steps :
          /\ MayReview(u, instances[i], k)
          /\ Continue(h, [at |-> "review_save", instance |-> i,
                          row |-> Reviewed(instances[i], k, u, decision)])
    BY <1>10 DEF ReviewInstance
  <2> DEFINE new == Reviewed(instances[i], k, u, decision)
             t   == [at |-> "review_save", instance |-> i, row |-> new]
  <2>3. /\ new \in WorkflowInstance /\ SoundInstance(new)
        /\ new.reference = instances[i].reference
    BY <2>1, <2>2, ReviewKeepsSound DEF WorkflowInstance, InstanceRowJustified
  <2> HIDE DEF new
  <2>4. t \in Task
    BY <2>3 DEF Task
  <2>5. InstanceRowJustified(new) /\ Started(new.reference, i)
    BY <1>10, <2>1, <2>3 DEF InstanceRowJustified, Started, ReviewInstance
  <2>6. TaskJustified(t)
    BY <2>5 DEF TaskJustified, HoldsRunRow, PastItemCheck
  <2>7. Continue(h, t)
    BY <2>2 DEF new
  <2> QED BY <1>10, <2>4, <2>6, <2>7, QuietStays DEF ReviewInstance
<1>11. ASSUME NEW h \in Handlers, SyncReadRun(h) PROVE Justified'
  <2> DEFINE ref == task[h].row.reference
             new == [runs[ref] EXCEPT !.status = RunStatusFor(task[h].row.status)]
             t   == [at |-> "sync_save", run |-> ref, row |-> new]
  <2>1. /\ task[h].row \in WorkflowInstance /\ InstanceRowJustified(task[h].row)
        /\ task[h].row.status = "approved" => Certified(ref)
    BY <1>11, TaskFields DEF TypeOK, Justified, TaskJustified, SyncReadRun, At
  <2>2. ref \in RunIds /\ RunStatusFor(task[h].row.status) \in RunStatus
    BY <2>1 DEF WorkflowInstance, Instance, RunStatusFor, RunStatus
  <2>3. CASE runs[ref] = None
    BY <1>11, <2>3, IdleJustified, QuietStays DEF SyncReadRun, Finish
  <2>4. CASE runs[ref] # None
    <3>1. runs[ref] \in Run /\ RunRowJustified(ref, runs[ref])
      BY <2>2, <2>4 DEF TypeOK, Justified
    <3>2. new \in Run
      BY <2>2, <3>1 DEF Run
    <3>3. RunRowJustified(ref, new)
      <4>1. new.status = RunStatusFor(task[h].row.status)
            /\ new.workflowInstanceId = runs[ref].workflowInstanceId
        BY <3>1 DEF Run
      <4>2. new.status = "approved" => Certified(ref)
        BY <2>1, <4>1 DEF RunStatusFor
      <4>3. PaysSomebody(ref)
        BY <2>1 DEF InstanceRowJustified
      <4> QED BY <3>1, <4>1, <4>2, <4>3 DEF RunRowJustified
    <3> HIDE DEF new
    <3>4. t \in Task
      BY <2>2, <3>2 DEF Task
    <3>5. TaskJustified(t)
      BY <3>3 DEF TaskJustified, PastItemCheck
    <3>6. Continue(h, t)
      BY <1>11, <2>4 DEF SyncReadRun, new
    <3> QED BY <1>11, <3>4, <3>5, <3>6, QuietStays DEF SyncReadRun
  <2> QED BY <2>3, <2>4
<1>12. ASSUME NEW h \in Handlers, NEW u \in Users, NEW d \in DefinitionIds,
              NEW code \in OptionalCode, NEW active \in OptionalFlag,
              NEW draft \in StepDrafts \cup {None},
              UpdateDefinition(h, u, d, code, active, draft)
       PROVE  Justified'
  <2> DEFINE old == definitions[d]
             new == [code |-> OrElse(code, old.code), isActive |-> OrElse(active, old.isActive),
                     steps |-> IF draft = None THEN old.steps ELSE NormalizeSteps(draft)]
             t   == [at |-> "define_save", definition |-> d, row |-> new]
  <2>1. old \in Definition /\ Ordered(old.steps)
    BY <1>12 DEF TypeOK, Justified, UpdateDefinition
  <2>2. draft # None => /\ NormalizeSteps(draft) \in Seq(StepDefinition)
                        /\ Ordered(NormalizeSteps(draft))
    BY <1>12, NormalizedIsOrdered DEF UpdateDefinition
  <2>3. new.steps \in Seq(StepDefinition) /\ Ordered(new.steps)
    BY <2>1, <2>2 DEF Definition
  <2>4. /\ OrElse(code, old.code) \in {"payroll-approval", "other"}
        /\ OrElse(active, old.isActive) \in BOOLEAN
    BY <2>1 DEF Definition, OrElse, OptionalCode, OptionalFlag
  <2>5. new \in Definition
    BY <2>3, <2>4 DEF Definition
  <2>6. t \in Task
    BY <2>5 DEF Task
  <2>7. TaskJustified(t)
    BY <2>3 DEF TaskJustified, HoldsRunRow, PastItemCheck
  <2> QED BY <1>12, <2>6, <2>7, QuietStays DEF UpdateDefinition
<1>13. ASSUME NEW h \in Handlers, Fail(h) PROVE Justified'
  BY <1>13, IdleJustified, QuietStays DEF Fail, Finish
<1>14. ASSUME NEW h \in Handlers, NEW u \in Users, NEW r \in RunIds, CreatePayrollRun(h, u, r)
       PROVE  Justified'
  <2> DEFINE t   == [at |-> "create_items", run |-> r]
             new == [status |-> "draft", workflowInstanceId |-> None,
                     totals |-> Totals(NoItems)]
  <2>1. t \in Task /\ new \in Run /\ new # None
    <3>1. t \in Task
      BY DEF Task
    <3>2. new \in Run
      BY TotalsTyped DEF Run, RunStatus
    <3> QED BY <3>1, <3>2
  <2>2. /\ task'[h] = t
        /\ \A g \in Handlers : g # h => task'[g] = task[g]
    BY <1>14, <2>1, ContinueTyped DEF TypeOK, CreatePayrollRun
  <2>3. /\ runs[r] = None /\ items' = items /\ items[r] = NoItems
        /\ runs'[r] = new
        /\ \A q \in RunIds : q # r => runs'[q] = runs[q]
    BY <1>14 DEF TypeOK, Justified, CreatePayrollRun
  <2>4. Growth
    BY <1>14, <2>3 DEF Growth, CreatePayrollRun
  <2>5. RunRowJustified(r, runs[r])'
    BY <2>3 DEF RunRowJustified
  <2>6. \A q \in RunIds : runs'[q] # runs[q] => RunRowJustified(q, runs[q])'
    BY <2>3, <2>5
  <2>7. TaskJustified(task[h])'
    BY <2>1, <2>2, <2>3 DEF TaskJustified, HoldsRunRow, PastItemCheck
  <2>8. \A g \in Handlers : g # h /\ At(g, "create_items") => task[g].run # task'[h].run
    BY <2>2, <2>3 DEF Justified, TaskJustified, At
  <2>9. \A q \in RunIds : runs'[q] = None => items'[q] = NoItems
    BY <2>1, <2>3 DEF Justified
  <2>10. definitions' = definitions /\ instances' = instances
    BY <1>14 DEF CreatePayrollRun
  <2> QED BY <2>2, <2>3, <2>4, <2>6, <2>7, <2>8, <2>9, <2>10, JustifiedStays
<1>15. ASSUME NEW h \in Handlers, CreatePayrollItems(h) PROVE Justified'
  <2> DEFINE r == task[h].run
  <2>1. /\ r \in RunIds /\ At(h, "create_items")
        /\ runs[r] # None /\ items[r] = NoItems
    BY <1>15, TaskFields
       DEF TypeOK, Justified, TaskJustified, CreatePayrollItems, At
  <2>2. /\ runs' = runs /\ definitions' = definitions /\ instances' = instances
        /\ certificates' = certificates
        /\ \A q \in RunIds : q # r => items'[q] = items[q]
    BY <1>15 DEF CreatePayrollItems, TypeOK
  <2>3. PICK t \in Task : /\ Continue(h, t)
                          /\ t = Idle \/ t = [at |-> "recalc_read", run |-> r]
    <3>1. Idle \in Task /\ [at |-> "recalc_read", run |-> r] \in Task
      BY <2>1 DEF Task
    <3> QED BY <1>15, <3>1 DEF CreatePayrollItems, Finish
  <2>4. /\ task'[h] = t
        /\ \A g \in Handlers : g # h => task'[g] = task[g]
    BY <2>3, ContinueTyped DEF TypeOK
  <2>5. Growth
    BY <2>1, <2>2 DEF Growth, NoItems
  <2>6. TaskJustified(t)' /\ t.at # "create_items"
    BY <2>3 DEF TaskJustified, HoldsRunRow, PastItemCheck, Idle
  <2>7. \A g \in Handlers : g # h /\ At(g, "create_items") =>
            items'[task[g].run] = items[task[g].run]
    <3> SUFFICES ASSUME NEW g \in Handlers, g # h, At(g, "create_items")
                 PROVE  items'[task[g].run] = items[task[g].run]
      OBVIOUS
    <3>1. task[g].run \in RunIds
      BY TaskFields DEF TypeOK, At
    <3>2. task[g].run # r
      BY <2>1 DEF Justified
    <3> QED BY <2>2, <3>1, <3>2
  <2>8. \A q \in RunIds : runs'[q] = None => items'[q] = NoItems
    BY <2>1, <2>2 DEF Justified
  <2>9. TaskJustified(task[h])' /\ ~At(h, "create_items")'
    BY <2>4, <2>6 DEF At
  <2> QED BY <2>2, <2>4, <2>5, <2>7, <2>8, <2>9, JustifiedStays
<1>16. ASSUME NEW h \in Handlers, RecalcSave(h) \/ SubmitSaveRun(h) \/ SyncSaveRun(h)
       PROVE Justified'
  <2>1. PICK r \in RunIds, row \in Run : r = task[h].run /\ row = task[h].row
    BY <1>16, TaskFields
       DEF TypeOK, RecalcSave, SubmitSaveRun, SyncSaveRun, At, HoldsRunRow, PastItemCheck
  <2>2. RunRowJustified(r, row)
    BY <1>16, <2>1
       DEF Justified, TaskJustified, RecalcSave, SubmitSaveRun, SyncSaveRun, At,
           HoldsRunRow, PastItemCheck
  <2>3. /\ UNCHANGED <<items, definitions, instances, certificates>>
        /\ runs'[r] = row
        /\ \A q \in RunIds : q # r => runs'[q] = runs[q]
    BY <1>16, <2>1 DEF TypeOK, RecalcSave, SubmitSaveRun, SyncSaveRun
  <2>4. /\ task'[h] = Idle
        /\ \A g \in Handlers : g # h => task'[g] = task[g]
    BY <1>16, FinishTyped DEF TypeOK, RecalcSave, SubmitSaveRun, SyncSaveRun
  <2>5. Growth
    BY <2>3 DEF Growth
  <2>6. RunRowJustified(r, row)'
    BY <2>2, <2>5, RowStays
  <2>7. \A q \in RunIds : runs'[q] # runs[q] => RunRowJustified(q, runs[q])'
    BY <2>3, <2>6 DEF RunRowJustified
  <2>8. \A q \in RunIds : runs'[q] = None => items'[q] = NoItems
    BY <2>3 DEF Justified
  <2>9. TaskJustified(task[h])' /\ ~At(h, "create_items")'
    BY <2>4, IdleJustified DEF At
  <2> QED BY <2>3, <2>4, <2>5, <2>7, <2>8, <2>9, JustifiedStays
<1>17. ASSUME NEW h \in Handlers, EditSaveItem(h) PROVE Justified'
  <2> DEFINE r == task[h].run
             e == task[h].employee
             t == [at |-> "recalc_read", run |-> r]
  <2>1. /\ r \in RunIds /\ e \in Employees /\ task[h].item \in Item
        /\ items[r][e] # None
    BY <1>17, TaskFields DEF TypeOK, Justified, TaskJustified, EditSaveItem, At
  <2>2. /\ UNCHANGED <<runs, definitions, instances, certificates>>
        /\ items'[r][e] = task[h].item
        /\ \A f \in Employees : f # e => items'[r][f] = items[r][f]
        /\ \A q \in RunIds : q # r => items'[q] = items[q]
    BY <1>17, <2>1 DEF TypeOK, EditSaveItem, ItemTable
  <2>3. t \in Task /\ t.at # "create_items" /\ TaskJustified(t)'
    BY <2>1 DEF Task, TaskJustified, HoldsRunRow, PastItemCheck
  <2>4. /\ task'[h] = t
        /\ \A g \in Handlers : g # h => task'[g] = task[g]
    BY <1>17, <2>3, ContinueTyped DEF TypeOK, EditSaveItem
  <2>5. Growth
    <3>1. \A q \in RunIds, f \in Employees : items[q][f] # None => items'[q][f] # None
      BY <2>1, <2>2
    <3> QED BY <2>2, <3>1 DEF Growth
  <2>6. items[r] # NoItems
    BY <2>1 DEF NoItems
  <2>7. \A q \in RunIds : runs'[q] = None => items'[q] = NoItems
    BY <2>2, <2>6 DEF Justified
  <2>8. \A g \in Handlers : g # h /\ At(g, "create_items") =>
            items'[task[g].run] = items[task[g].run]
    BY <2>2, <2>6, TaskFields DEF TypeOK, Justified, TaskJustified, At
  <2>9. TaskJustified(task[h])' /\ ~At(h, "create_items")'
    BY <2>3, <2>4 DEF At
  <2> QED BY <2>2, <2>4, <2>5, <2>7, <2>8, <2>9, JustifiedStays
<1>18. ASSUME NEW h \in Handlers, EnsureSaveDefinition(h) PROVE Justified'
  <2>1. task[h] \in Task /\ task[h].at = "ensure_save" /\ TaskJustified(task[h])
    BY <1>18 DEF TypeOK, Justified, EnsureSaveDefinition, At
  <2>2. UNCHANGED <<runs, items, instances, certificates>>
    BY <1>18 DEF EnsureSaveDefinition
  <2>3. CASE Finish(h) /\ UNCHANGED definitions
    BY <2>2, <2>3, IdleJustified, QuietStays DEF Finish, tables
  <2>4. CASE Continue(h, [task[h] EXCEPT !.at = "start_find"])
    <3>1. PICK t \in Task : t = [task[h] EXCEPT !.at = "start_find"]
      BY <2>1, SubmitMovesOn
    <3>2. t.at = "start_find" /\ t.run = task[h].run /\ t.row = task[h].row
      BY <2>1, <3>1, SubmitMovesOn
    <3>3. /\ task'[h] = t
          /\ \A g \in Handlers : g # h => task'[g] = task[g]
      BY <2>4, <3>1, ContinueTyped DEF TypeOK
    <3>4. \A d \in DefinitionIds :
            definitions'[d] # definitions[d] => Ordered(definitions'[d].steps)
      BY <1>18, DefaultIsOrdered DEF EnsureSaveDefinition, TypeOK
    <3>5. Growth
      BY <2>2 DEF Growth
    <3>6. TaskJustified(t)
      BY <2>1, <3>2 DEF TaskJustified, HoldsRunRow, PastItemCheck
    <3>7. TaskJustified(task[h])' /\ ~At(h, "create_items")'
      <4>1. TaskJustified(t)'
        BY <3>2, <3>5, <3>6, TaskStays
      <4> QED BY <3>2, <3>3, <4>1 DEF At
    <3>8. \A r \in RunIds : runs'[r] = None => items'[r] = NoItems
      BY <2>2 DEF Justified
    <3> QED BY <2>2, <3>3, <3>4, <3>5, <3>7, <3>8, JustifiedStays
  <2> QED BY <1>18, <2>3, <2>4 DEF EnsureSaveDefinition
<1>19. ASSUME NEW h \in Handlers, StartSaveInstance(h) PROVE Justified'
  <2>1. /\ task[h].run \in RunIds /\ task[h].row \in Run /\ task[h].user \in Users
        /\ task[h].steps \in Seq(StepDefinition) /\ Ordered(task[h].steps)
        /\ PaysSomebody(task[h].run)
    BY <1>19, TaskFields
       DEF TypeOK, Justified, TaskJustified, StartSaveInstance, At, HoldsRunRow, PastItemCheck
  <2>2. PICK i \in InstanceIds :
          /\ instances[i] = None
          /\ instances' = [instances EXCEPT ![i] =
                StartedInstance(task[h].run, task[h].user, task[h].steps)]
          /\ Continue(h, [at |-> "submit_save", run |-> task[h].run,
                          row |-> [task[h].row EXCEPT !.status = "pending_approval",
                                                      !.workflowInstanceId = i]])
    BY <1>19 DEF StartSaveInstance
  <2>3. PICK r \in RunIds : r = task[h].run
    BY <2>1
  <2>4. PICK new \in WorkflowInstance :
          /\ new = StartedInstance(task[h].run, task[h].user, task[h].steps)
          /\ SoundInstance(new) /\ new.reference = r
    <3>1. StartedInstance(task[h].run, task[h].user, task[h].steps).reference = task[h].run
      BY DEF StartedInstance
    <3> QED BY <2>1, <2>3, <3>1, StartedIsSound DEF WorkflowInstance
  <2>5. PICK row \in Run :
          /\ row = [task[h].row EXCEPT !.status = "pending_approval",
                                       !.workflowInstanceId = i]
          /\ row.status = "pending_approval" /\ row.workflowInstanceId = i
    <3> DEFINE row == [task[h].row EXCEPT !.status = "pending_approval",
                                          !.workflowInstanceId = i]
    <3>1. row \in Run
      BY <2>1 DEF Run, RunStatus
    <3>2. row.status = "pending_approval" /\ row.workflowInstanceId = i
      BY <2>1 DEF Run
    <3> QED BY <3>1, <3>2
  <2>6. /\ UNCHANGED <<runs, items, definitions, certificates>>
        /\ instances'[i] = new
        /\ \A j \in InstanceIds : j # i => instances'[j] = instances[j]
    BY <1>19, <2>2, <2>4 DEF TypeOK, StartSaveInstance
  <2>7. PICK t \in Task : t = [at |-> "submit_save", run |-> r, row |-> row]
    BY DEF Task
  <2>8. /\ task'[h] = t
        /\ \A g \in Handlers : g # h => task'[g] = task[g]
    BY <2>2, <2>3, <2>5, <2>7, ContinueTyped DEF TypeOK
  <2>9. Growth
    BY <2>2, <2>6 DEF Growth
  <2>10. PaysSomebody(r)' /\ Started(r, i)'
    BY <2>1, <2>3, <2>4, <2>6, <2>9, FactsStay DEF Started
  <2>11. \A j \in InstanceIds :
            instances'[j] # instances[j] => InstanceRowJustified(instances[j])'
    BY <2>4, <2>6, <2>10 DEF InstanceRowJustified, PaysSomebody
  <2>12. RunRowJustified(r, row)'
    BY <2>5, <2>10 DEF RunRowJustified
  <2>13. TaskJustified(t)' /\ t.at # "create_items"
    BY <2>7, <2>10, <2>12 DEF TaskJustified
  <2>14. TaskJustified(task[h])' /\ ~At(h, "create_items")'
    BY <2>8, <2>13 DEF At
  <2>15. \A q \in RunIds : runs'[q] = None => items'[q] = NoItems
    BY <2>6 DEF Justified
  <2> QED BY <2>6, <2>8, <2>9, <2>11, <2>14, <2>15, JustifiedStays
<1>20. ASSUME NEW h \in Handlers, ReviewSaveInstance(h) PROVE Justified'
  <2> DEFINE i == task[h].instance
  <2>1. PICK row \in WorkflowInstance : row = task[h].row
    BY <1>20, TaskFields DEF TypeOK, ReviewSaveInstance, At
  <2>2. /\ i \in InstanceIds /\ row.reference \in RunIds
        /\ InstanceRowJustified(row) /\ Started(row.reference, i)
    BY <1>20, <2>1, TaskFields
       DEF TypeOK, Justified, TaskJustified, ReviewSaveInstance, At, WorkflowInstance, Instance
  <2> DEFINE t == [at |-> "sync_read", row |-> row]
  <2>3. t \in Task /\ Continue(h, t)
    BY <1>20, <2>1 DEF Task, ReviewSaveInstance
  <2>4. /\ task'[h] = t
        /\ \A g \in Handlers : g # h => task'[g] = task[g]
    BY <2>3, ContinueTyped DEF TypeOK
  <2>5. /\ UNCHANGED <<runs, items, definitions>>
        /\ instances'[i] = row
        /\ \A j \in InstanceIds : j # i => instances'[j] = instances[j]
        /\ certificates \subseteq certificates'
        /\ row.status = "approved" => row \in certificates'
    BY <1>20, <2>1, <2>2 DEF TypeOK, ReviewSaveInstance
  <2>6. Growth
    BY <2>1, <2>2, <2>5 DEF Growth, Started
  <2>7. InstanceRowJustified(row)'
    BY <2>2, <2>6, FactsStay DEF InstanceRowJustified
  <2>8. (row.status = "approved" => Certified(row.reference))'
    BY <2>2, <2>5 DEF Certified, InstanceRowJustified, SoundInstance
  <2>9. TaskJustified(t)'
    BY <2>7, <2>8 DEF TaskJustified, HoldsRunRow, PastItemCheck
  <2>10. TaskJustified(task[h])' /\ ~At(h, "create_items")'
    BY <2>4, <2>9 DEF At
  <2>11. \A j \in InstanceIds :
            instances'[j] # instances[j] => InstanceRowJustified(instances[j])'
    BY <2>5, <2>7 DEF InstanceRowJustified, PaysSomebody
  <2>12. \A q \in RunIds : runs'[q] = None => items'[q] = NoItems
    BY <2>5 DEF Justified
  <2> QED BY <2>4, <2>5, <2>6, <2>10, <2>11, <2>12, JustifiedStays
<1>21. ASSUME NEW h \in Handlers, DefineSave(h) PROVE Justified'
  <2>1. /\ task[h].definition \in DefinitionIds /\ Ordered(task[h].row.steps)
    BY <1>21, TaskFields DEF TypeOK, Justified, TaskJustified, DefineSave, At
  <2>2. UNCHANGED <<runs, items, instances, certificates>>
    BY <1>21 DEF DefineSave
  <2>3. /\ task'[h] = Idle
        /\ \A g \in Handlers : g # h => task'[g] = task[g]
    BY <1>21, FinishTyped DEF TypeOK, DefineSave
  <2>4. \A d \in DefinitionIds :
          definitions'[d] # definitions[d] => Ordered(definitions'[d].steps)
    BY <1>21, <2>1 DEF DefineSave, TypeOK
  <2>5. Growth
    BY <2>2 DEF Growth
  <2>6. TaskJustified(task[h])' /\ ~At(h, "create_items")'
    BY <2>3, IdleJustified DEF At
  <2>7. \A r \in RunIds : runs'[r] = None => items'[r] = NoItems
    BY <2>2 DEF Justified
  <2> QED BY <2>2, <2>3, <2>4, <2>5, <2>6, <2>7, JustifiedStays
<1>22. ASSUME NEW u \in Users, NEW d \in DefinitionIds,
              NEW code \in {"payroll-approval", "other"}, NEW active \in BOOLEAN,
              NEW draft \in StepDrafts, CreateDefinition(u, d, code, active, draft)
       PROVE  Justified'
  <2>1. UNCHANGED <<runs, items, instances, task, certificates>>
    BY <1>22 DEF CreateDefinition
  <2>2. Ordered(NormalizeSteps(draft))
    BY <1>22, NormalizedIsOrdered DEF CreateDefinition
  <2>3. ASSUME NEW c \in DefinitionIds, definitions'[c] # None
        PROVE  Ordered(definitions'[c].steps)
    BY <1>22, <2>2, <2>3 DEF CreateDefinition, TypeOK, Justified
  <2> QED BY <2>1, <2>3, TablesAlone DEF Justified
<1>23. CASE UNCHANGED vars
  <2>1. \A c \in DefinitionIds : definitions'[c] # None => Ordered(definitions'[c].steps)
    BY <1>23 DEF Justified, vars
  <2> QED BY <1>23, <2>1, TablesAlone DEF vars
<1>24. ASSUME NEW h \in Handlers, Begin(h) PROVE Justified'
  BY <1>3, <1>5, <1>10, <1>12, <1>14, <1>24 DEF Begin
<1>25. ASSUME NEW h \in Handlers, Proceed(h) PROVE Justified'
  BY <1>1, <1>2, <1>4, <1>6, <1>7, <1>8, <1>9, <1>11, <1>15, <1>16, <1>17, <1>18, <1>19,
     <1>20, <1>21, <1>25 DEF Proceed
<1> QED BY <1>13, <1>22, <1>23, <1>24, <1>25 DEF Next

-----------------------------------------------------------------------------
(***************************************************************************)
(* The theorems                                                            *)
(***************************************************************************)

\* Whatever requests are in flight and wherever they die, each row of payroll and
\* workflows, and each copy of one that a handler holds across an await, is justified.
THEOREM Invariance == Spec => []IInv
<1>1. Init => IInv
  BY TypeInit, JustifiedInit DEF IInv
<1>2. IInv /\ [Next]_vars => IInv'
  BY TypeNext, JustifiedNext DEF IInv
<1> QED BY <1>1, <1>2, PTL DEF Spec

\* The rows and the handlers' copies of them keep the types of their entities.
THEOREM TypeCorrect == Spec => []TypeOK
<1>1. IInv => TypeOK
  BY DEF IInv
<1> QED BY <1>1, Invariance, PTL

\* Overlapping, repeated or abandoned reviews never leave an instance approved that some
\* step's approver did not sign, or that its requester signed where the step forbids it.
THEOREM Segregation == Spec => []SegregationOfDuties
<1>1. IInv => SegregationOfDuties
  BY DEF IInv, Justified, InstanceRowJustified, SegregationOfDuties
<1> QED BY <1>1, Invariance, PTL

\* No interleaving of submits, edits, recalculations and synchronisations turns a run
\* "approved" that was not, at some time, approved by the workflow started for it.
THEOREM Certification == Spec => []ApprovedRunIsCertified
<1>1. IInv => ApprovedRunIsCertified
  BY DEF IInv, Justified, RunRowJustified, ApprovedRunIsCertified
<1> QED BY <1>1, Invariance, PTL

\* Once the items of a run have been checked by a submit, the run always pays somebody.
THEOREM Paying == Spec => []SubmittedRunPaysSomebody
<1>1. IInv => SubmittedRunPaysSomebody
  <2> SUFFICES ASSUME TypeOK, Justified, NEW r \in RunIds,
                      \/ runs[r] # None /\ runs[r].status # "draft"
                      \/ \E i \in InstanceIds : Started(r, i)
               PROVE  PaysSomebody(r)
    BY DEF IInv, SubmittedRunPaysSomebody
  <2>1. CASE runs[r] # None /\ runs[r].status # "draft"
    BY <2>1 DEF Justified, RunRowJustified
  <2>2. CASE \E i \in InstanceIds : Started(r, i)
    BY <2>2 DEF Justified, InstanceRowJustified, Started
  <2> QED BY <2>1, <2>2
<1> QED BY <1>1, Invariance, PTL

\* A run is never linked to the approval of another run.
THEOREM OwnLink == Spec => []LinkIsOwn
<1>1. IInv => LinkIsOwn
  BY DEF IInv, Justified, RunRowJustified, LinkIsOwn
<1> QED BY <1>1, Invariance, PTL
=============================================================================

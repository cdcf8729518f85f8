--------------------------- MODULE WorkflowRules ---------------------------
(***************************************************************************)
(* The approval engine of modules/workflows, one row at a time: what a     *)
(* definition is after normalisation, the instance that is started from    *)
(* it, and the instance that a reviewer's decision leaves in memory.       *)
(* When and in which order these rows are read and saved is the subject of *)
(* PayrollApproval.                                                        *)
(***************************************************************************)
EXTENDS Integers, Sequences

CONSTANTS
    Users,            \* the authenticated users
    PermissionNames,  \* the permissions a workflow step may require
    permissionsOf,    \* the permissions carried by each user's token
    None              \* null: no row, no value

ASSUME UsersAssumption ==
    /\ permissionsOf \in [Users -> SUBSET STRING]
    /\ PermissionNames \subseteq STRING
    /\ "payroll:approve" \in PermissionNames
    /\ None \notin Users

(***************************************************************************)
(* A user passes a permission check with the permission itself or with the *)
(* wildcard; the guard of the endpoints and hasPermission agree on that.   *)
(***************************************************************************)
HasPermission(u, permission) == permissionsOf[u] \cap {"*", permission} # {}

-----------------------------------------------------------------------------
(***************************************************************************)
(* Rows.  An omitted canSelfApprove is not `false`, hence TRUE here.  A    *)
(* null currentStepOrder is 0, which is the order of no step.              *)
(***************************************************************************)
StepDefinition ==
    [order : Nat, requiredPermission : PermissionNames, canSelfApprove : BOOLEAN]

StepAction ==
    [order : Nat, requiredPermission : PermissionNames, canSelfApprove : BOOLEAN,
     status : {"pending", "approved", "rejected"}, actedBy : Users \cup {None}]

Definition ==
    [code : {"payroll-approval", "other"}, isActive : BOOLEAN,
     steps : Seq(StepDefinition)]

Instance(Ref) ==
    [reference : Ref, requestedBy : Users,
     status : {"pending", "approved", "rejected"},
     currentStepOrder : Nat, steps : Seq(StepAction),
     finalDecisionBy : Users \cup {None}]

(***************************************************************************)
(* normalizeSteps sorts the submitted steps and refuses them unless their  *)
(* orders are then exactly 1, 2, ..., n; the DTO refuses an empty list.    *)
(***************************************************************************)
Normalizable(steps) ==
    /\ steps # <<>>
    /\ {steps[k].order : k \in DOMAIN steps} = DOMAIN steps

\* Wrong on purpose (see the README on mutants): the steps stay in the order submitted.
StepsAsSubmitted(steps) == steps

NormalizeSteps(steps) ==
    [k \in DOMAIN steps |->
        steps[CHOOSE j \in DOMAIN steps : steps[j].order = k]]

\* The definition ensureDefaultPayrollApprovalDefinition creates when none has the code.
DefaultDefinition ==
    [code |-> "payroll-approval", isActive |-> TRUE,
     steps |-> <<[order |-> 1, requiredPermission |-> "payroll:approve",
                  canSelfApprove |-> FALSE]>>]

\* Each step of the definition is copied into the instance as it is now.
PendingSteps(steps) ==
    [k \in DOMAIN steps |->
        [order |-> steps[k].order, requiredPermission |-> steps[k].requiredPermission,
         canSelfApprove |-> steps[k].canSelfApprove,
         status |-> "pending", actedBy |-> None]]

StartedInstance(ref, user, steps) ==
    [reference |-> ref, requestedBy |-> user, status |-> "pending",
     currentStepOrder |-> steps[1].order, steps |-> PendingSteps(steps),
     finalDecisionBy |-> None]

-----------------------------------------------------------------------------
\* The positions of the steps that reviewInstance finds at, and after, the current one.
CurrentSteps(row) ==
    {k \in DOMAIN row.steps : row.steps[k].order = row.currentStepOrder}

LaterSteps(row, k) ==
    {j \in DOMAIN row.steps : row.steps[j].order > row.steps[k].order}

\* Wrong on purpose: canSelfApprove is not looked at.
MayReviewOwnRequest(u, row, k) ==
    /\ row.status = "pending"
    /\ k \in CurrentSteps(row)
    /\ HasPermission(u, row.steps[k].requiredPermission)

\* The checks of reviewInstance on the instance it has read, for its current step k.
MayReview(u, row, k) ==
    /\ row.status = "pending"
    /\ k \in CurrentSteps(row)
    /\ HasPermission(u, row.steps[k].requiredPermission)
    /\ row.steps[k].canSelfApprove \/ row.requestedBy # u

\* The steps once user u has acted on step k.
Act(steps, k, u, decision) ==
    [steps EXCEPT ![k] = [@ EXCEPT !.status = decision, !.actedBy = u]]

\* The instance after user u took the decision on step k, still in memory only.
Reviewed(row, k, u, decision) ==
    LET acted == Act(row.steps, k, u, decision)
        later == LaterSteps(row, k)
        next  == CHOOSE j \in later : \A i \in later : row.steps[j].order <= row.steps[i].order
    IN  IF decision = "approved" /\ later # {}
        THEN [row EXCEPT !.steps = acted,
                         !.currentStepOrder = row.steps[next].order]
        ELSE [row EXCEPT !.steps = acted, !.status = decision,
                         !.currentStepOrder = 0, !.finalDecisionBy = u]

-----------------------------------------------------------------------------
(***************************************************************************)
(* What an instance must look like to be trusted.                          *)
(***************************************************************************)

\* The step was approved by somebody who was allowed to approve it.
SignedOff(row, k) ==
    /\ row.steps[k].status = "approved"
    /\ row.steps[k].actedBy \in Users
    /\ HasPermission(row.steps[k].actedBy, row.steps[k].requiredPermission)
    /\ row.steps[k].canSelfApprove \/ row.steps[k].actedBy # row.requestedBy

FullySigned(row) == \A k \in DOMAIN row.steps : SignedOff(row, k)

\* A pending instance stands at a step of its own; the steps before it are signed
\* off and the step itself and those after it are untouched.
StandsAtCurrentStep(row) ==
    /\ row.currentStepOrder \in DOMAIN row.steps
    /\ \A k \in DOMAIN row.steps :
           IF k < row.currentStepOrder THEN SignedOff(row, k)
                                       ELSE row.steps[k].status = "pending"

\* What normalizeSteps leaves: at least one step, the k-th of order k.
Ordered(steps) == steps # <<>> /\ \A k \in DOMAIN steps : steps[k].order = k

SoundInstance(row) ==
    /\ Ordered(row.steps)
    /\ row.status = "pending" => StandsAtCurrentStep(row)
    /\ row.status = "approved" => FullySigned(row)
=============================================================================

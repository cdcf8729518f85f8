------------------------- MODULE MCPayrollApproval -------------------------
(***************************************************************************)
(* Small instances of PayrollApproval.  The clerk prepares payroll and may *)
(* also approve; the manager approves and defines workflows.               *)
(***************************************************************************)
EXTENDS PayrollApproval, TLC

MCPermissionsOf ==
    [clerk   |-> {"payroll:create", "payroll:update", "payroll:approve",
                  "workflow:approve"},
     manager |-> {"workflow:approve", "workflow:create", "payroll:approve"}]

\* Where requests take turns, definitions change as well.
MCSerialPermissionsOf == [MCPermissionsOf EXCEPT !.manager = @ \cup {"workflow:update"}]

MCUsers == DOMAIN MCPermissionsOf
MCPermissionNames == {"payroll:approve", "finance:approve"}

MCSalary == [ann |-> 3]

\* Two steps, submitted in the wrong order; the second may be approved by the requester.
MCTwoSteps ==
    <<[order |-> 2, requiredPermission |-> "payroll:approve", canSelfApprove |-> TRUE],
      [order |-> 1, requiredPermission |-> "payroll:approve", canSelfApprove |-> FALSE]>>

\* Orders that do not start from 1: refused.
MCGap ==
    <<[order |-> 2, requiredPermission |-> "finance:approve", canSelfApprove |-> FALSE]>>

MCDrafts == {MCTwoSteps, MCGap}

MCSymmetry == Permutations(Handlers) \cup Permutations(InstanceIds)
=============================================================================

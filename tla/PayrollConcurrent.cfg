CONSTANTS
    None = None
    Users <- MCUsers
    PermissionNames <- MCPermissionNames
    permissionsOf <- MCPermissionsOf
    RunIds = {r1}
    DefinitionIds = {d1}
    InstanceIds = {i1, i2}
    Employees = {"ann"}
    salaryOf <- MCSalary
    Adjustments = {}
    StepDrafts <- MCDrafts
    Handlers = {h1, h2}
    FailuresHappen = TRUE
SPECIFICATION Spec
INVARIANTS TypeOK IInv SegregationOfDuties ApprovedRunIsCertified SubmittedRunPaysSomebody
SYMMETRY MCSymmetry
CHECK_DEADLOCK FALSE

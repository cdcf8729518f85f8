CONSTANTS
    None = None
    Users <- MCUsers
    PermissionNames <- MCPermissionNames
    permissionsOf <- MCPermissionsOf
    RunIds = {r1}
    DefinitionIds = {d1}
    InstanceIds = {i1}
    Employees = {"ann"}
    salaryOf <- MCSalary
    Adjustments = {1}
    StepDrafts = {}
    Handlers = {h1, h2}
    FailuresHappen = FALSE
SPECIFICATION Spec
PROPERTY DraftOnlyEdits
CHECK_DEADLOCK FALSE

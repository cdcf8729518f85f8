CONSTANTS
    None = None
    Users <- MCUsers
    PermissionNames <- MCPermissionNames
    permissionsOf <- MCPermissionsOf
    RunIds = {r1}
    DefinitionIds = {d1}
    InstanceIds = {i1, i2}
    Employees = {"ann"}
    salaryOf <- MCSalary
    Adjustments = {}
    StepDrafts = {}
    Handlers = {h1}
    FailuresHappen = TRUE
SPECIFICATION FairSpec
PROPERTY DecisionReachesRun
CHECK_DEADLOCK FALSE

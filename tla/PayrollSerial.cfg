CONSTANTS
    None = None
    Users <- MCUsers
    PermissionNames <- MCPermissionNames
    permissionsOf <- MCSerialPermissionsOf
    RunIds = {r1, r2}
    DefinitionIds = {d1}
    InstanceIds = {i1, i2}
    Employees = {"ann"}
    salaryOf <- MCSalary
    Adjustments = {1}
    StepDrafts <- MCDrafts
    Handlers = {h1}
    FailuresHappen = FALSE
SPECIFICATION FairSpec
INVARIANTS LinkIsOwn RunShowsItsInstance TotalsMatchItems
PROPERTIES LifecycleSpec DecisionReachesRun
CHECK_DEADLOCK FALSE

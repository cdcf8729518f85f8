CONSTANTS
    None = None
    Employees = {ann}
    LeaveTypes = {annual}
    RequestIds = {q1}
    Days = {1, 2}
    yearOf <- MCOneYear
    Allocations = {2}
    Corrections = {}
    RequirementEdits = {}
    Handlers = {h1, h2}
    MaxFailures = 0
SPECIFICATION Spec
PROPERTY DecidedOnce
CHECK_DEADLOCK FALSE

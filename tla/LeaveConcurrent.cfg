CONSTANTS
    None = None
    Employees = {ann}
    LeaveTypes = {annual}
    RequestIds = {q1, q2}
    Days = {1}
    yearOf <- MCOneDay
    Allocations = {2}
    Corrections = {0}
    RequirementEdits = {TRUE, FALSE}
    Handlers = {h1, h2}
    MaxFailures = 2
SPECIFICATION Spec
INVARIANTS TypeOK CalmLeaveIsBooked
PROPERTY RequestsEndure
SYMMETRY MCSymmetry
CHECK_DEADLOCK FALSE

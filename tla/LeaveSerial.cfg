CONSTANTS
    None = None
    Employees = {ann}
    LeaveTypes = {annual}
    RequestIds = {q1, q2, q3}
    Days <- MCDays
    yearOf <- MCYearOf
    Allocations = {0, 3}
    Corrections = {}
    RequirementEdits = {}
    Handlers = {h1}
    MaxFailures = 0
SPECIFICATION Spec
INVARIANT Reconciled
PROPERTY LedgerSpec
SYMMETRY MCSymmetry
CHECK_DEADLOCK FALSE

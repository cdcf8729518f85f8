CONSTANTS
    ann = ann
    sales = sales
    north = north
    s1 = s1
    y1 = y1
    y2 = y2
    o1 = o1
    o2 = o2
    b1 = b1
    b2 = b2
    p1 = p1
    Employees = {ann}
    Departments = {sales}
    States = {north}
    DepartmentOf <- MCDepartmentOf
    StateOf <- MCStateOf
    Dates <- MCDates
    WeekDays = {"monday", "sunday"}
    WeekDay <- MCWeekDay
    Rules <- MCRules
    Schedules = {s1}
    HolidayIds = {y1, y2}
    Offices = {o1, o2}
    RequestIds = {r1, r2}
    RecordIds = {a1}
    MaxAssignments = 2
    Width = 3
    Branches = {b1, b2}
    BranchOf <- MCBranchOf
    Networks <- MCNetworks
    Places = {p1}
    Marks <- MCMarks
    TrustedIps <- MCTrustedIps
    Distance <- MCDistance
    Seeds <- MCSeeds
    Handlers = {h1, h2}
    MaxLoad = 4
    MaxFailures = 1
    None = None
SPECIFICATION Spec
INVARIANTS TypeOK ApprovedIsSwapped SwapsAreRecorded UsedRowsStay BranchAddressesAreFound
PROPERTIES RecordsFitTheDay SwapsKeepTheBalance
SYMMETRY MCSymmetry
CHECK_DEADLOCK FALSE

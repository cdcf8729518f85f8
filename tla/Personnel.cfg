CONSTANTS
    c1 = c1
    c2 = c2
    t1 = t1
    b1 = b1
    d1 = d1
    d2 = d2
    l1 = l1
    n1 = n1
    o1 = o1
    a1 = a1
    a2 = a2
    y1 = y1
    r1 = r1
    m1 = m1
    e1 = e1
    e2 = e2
    h1 = h1
    h2 = h2
    Companies = {c1, c2}
    OfficeTypes = {t1}
    Branches = {b1}
    Departments = {d1, d2}
    Locations = {l1}
    Networks = {n1}
    Offices = {o1}
    Assignments = {a1, a2}
    Holidays = {y1}
    PayrollRuns = {r1}
    Notices = {m1}
    Employees = {e1, e2}
    Statuses = {"active", "resigned"}
    Seeds <- MCSeeds
    Handlers = {h1, h2}
    MaxLoad = 3
    MaxFailures = 1
    None = None
    Same = Same
SPECIFICATION Spec
INVARIANTS TypeOK NoDangling HistoriesAgree
PROPERTY DeletedStayDeleted
SYMMETRY MCSymmetry
CHECK_DEADLOCK FALSE

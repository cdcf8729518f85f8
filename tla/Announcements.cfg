CONSTANTS
    kim = kim
    root = root
    north = north
    sales = sales
    Employees = {1, 2}
    RecordIds = {1, 2, 3}
    LeaveIds = {1, 2}
    Branches = {north}
    Departments = {sales}
    Dates = {1, 2}
    Users = {kim, root}
    Emails = {"kim@example.com", "lee@example.com", "root@example.com"}
    EmailOf <- MCEmailOf
    Codes = {"attendance:approve", "leave:approve"}
    Grants <- MCGrants
    Filters <- MCFilters
    PageSize = 1
    Seeds <- MCSeeds
    Handlers = {h1, h2}
    MaxLoad = 3
    NoticeIds = {1, 2}
    NotificationIds = {1, 2, 3, 4}
    NoticeDtos <- MCNoticeDtos
    NotificationDtos <- MCNotificationDtos
    NoticeSeeds <- MCNoticeSeeds
    None = None
SPECIFICATION Spec
INVARIANTS TypeOK OverviewAddsUp DecidedIsNotPending AttendanceIsTold NotifiedOnce
PROPERTY NoticesReachTheirAudience
SYMMETRY MCSymmetry
CHECK_DEADLOCK FALSE

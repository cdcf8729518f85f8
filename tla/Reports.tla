------------------------------ MODULE Reports ------------------------------
(***************************************************************************)
(* What the service tells those who ask: the dashboard's overview, the     *)
(* report of missing attendance, the lists of attendance and of leave, and *)
(* one's own (DashboardService, AttendanceService, LeaveService).          *)
(*                                                                         *)
(* A report only reads, but by several queries: the overview sends its     *)
(* queries at once, to be answered in any order, and other requests save   *)
(* rows between one answer and the next.  The saves are those of the       *)
(* modules that own the tables.                                            *)
(*                                                                         *)
(* Names, times, and what a record says beyond its approval are left out:  *)
(* the summary's other counts are counts of the same rows.                 *)
(***************************************************************************)
EXTENDS Naturals, FiniteSetsExt

CONSTANTS
    Employees, RecordIds, LeaveIds,   \* numbered as they were created
    Branches, Departments, Dates,
    Users, Emails, EmailOf,           \* [Users -> Emails]; trimmed and in lower case
    Codes,                            \* the permissions that are told apart
    Grants,                           \* the sets of permissions a user may be given
    Filters,                          \* what reports are asked for
    PageSize,                         \* 10 in the code
    Seeds,                            \* the tables a behaviour may start from
    Handlers,
    MaxLoad,                          \* how many requests arrive, one that overlaps another
                                      \* counted twice
    None

Opt(S) == S \cup {None}
All == "*"
Permissions == Codes \cup {All}

ASSUME ReportsAssumption ==
    /\ Employees \subseteq Nat /\ RecordIds \subseteq Nat /\ LeaveIds \subseteq Nat
    /\ Dates \subseteq Nat /\ EmailOf \in [Users -> Emails]
    /\ {"attendance:approve", "leave:approve"} \subseteq Codes
    /\ Grants \subseteq SUBSET Permissions
    /\ PageSize \in Nat /\ MaxLoad \in Nat
    /\ IsFiniteSet(Employees) /\ IsFiniteSet(RecordIds) /\ IsFiniteSet(LeaveIds)
    /\ IsFiniteSet(Users)
    /\ \A from, to \in Dates : from .. to \subseteq Dates
    /\ None \notin Nat

-----------------------------------------------------------------------------
(***************************************************************************)
(* Rows                                                                    *)
(***************************************************************************)
User == [isActive : BOOLEAN, permissions : SUBSET Permissions]

EmploymentStatus == {"active", "probation", "on_leave", "resigned", "terminated"}
Employee == [status : EmploymentStatus, branch : Opt(Branches),
             department : Opt(Departments), email : Emails]

ApprovalStatus == {"pending", "approved", "rejected"}
AttendanceRecord == [employee : Employees, date : Dates, approval : ApprovalStatus]

LeaveRequest == [employee : Employees, from : Dates, to : Dates, status : ApprovalStatus]

\* What resolveEmployeeDay finds; it throws when the schedule assigned was deleted.
Day == {"working", "off", "throws"}

\* A search is known by the employees whose code, name or email it matches.
FiltersDto ==
    [employee : Opt(Employees), branch : Opt(Branches), department : Opt(Departments),
     search : Opt(SUBSET Employees), start : Opt(Dates), end : Opt(Dates)]

ASSUME FiltersAssumption == Filters \subseteq FiltersDto

ASSUME RowsAssumption ==
    /\ None \notin AttendanceRecord \cup LeaveRequest
    /\ \A db \in Seeds :
           /\ db.users \in [Users -> User]
           /\ \A u \in Users : db.users[u].permissions \in Grants
           /\ db.employees \in [Employees -> Employee]
           /\ db.records \in [RecordIds -> Opt(AttendanceRecord)]
           /\ db.leaves \in [LeaveIds -> Opt(LeaveRequest)]
           /\ db.days \in [Employees -> [Dates -> Day]]

-----------------------------------------------------------------------------
VARIABLES
    users, employees, records, leaves,   \* tables, by id
    days,                                \* [Employees -> [Dates -> Day]]
    task,                                \* what each handler is doing
    load                                 \* requests so far, overlapping ones twice

sources == <<users, employees, records, leaves, days>>

Idle == [at |-> "idle"]
At(h, place) == task[h].at = place
Alone == \A g \in Handlers : At(g, "idle")

ReportsInit ==
    /\ \E db \in Seeds :
           /\ users = db.users /\ employees = db.employees /\ records = db.records
           /\ leaves = db.leaves /\ days = db.days
    /\ task = [h \in Handlers |-> Idle]
    /\ load = 0

\* What is known, and more.
With(f, more) ==
    [x \in DOMAIN f \cup DOMAIN more |-> IF x \in DOMAIN more THEN more[x] ELSE f[x]]

Cost == IF Alone THEN 1 ELSE 2
Loaded == load + Cost <= MaxLoad /\ load' = load + Cost

\* A request arrives; JwtStrategy admits active users only.  `calm` is history: whether no
\* row has been saved by others since.
Arrive(h, u, next) ==
    /\ At(h, "idle") /\ Loaded /\ users[u].isActive
    /\ task' = [task EXCEPT ![h] = With(next, [viewer |-> u, grants |-> users[u].permissions,
                                               calm |-> TRUE])]
    /\ UNCHANGED sources

Goto(h, t) == task' = [task EXCEPT ![h] = t] /\ UNCHANGED <<sources, load>>
HasPermission(grants, permission) == grants \cap {All, permission} # {}

-----------------------------------------------------------------------------
(***************************************************************************)
(* What a query answers                                                    *)
(***************************************************************************)
\* applyCommonEmployeeFilters
InScope(f, e) ==
    /\ f.employee \in {None, e}
    /\ f.branch \in {None, employees[e].branch}
    /\ f.department \in {None, employees[e].department}
    /\ f.search # None => e \in f.search

\* A span of days and the filter's days have one in common, if the filter's end is not
\* before its start.
InWindow(f, from, to) ==
    /\ f.start # None => f.start <= to
    /\ f.end # None => from <= f.end

\* Wrong on purpose (see the README on mutants): leave that begins in the window.
StartsInWindow(f, q) == InWindow(f, leaves[q].from, leaves[q].from)

LeaveInWindow(f, q) == InWindow(f, leaves[q].from, leaves[q].to)

Staff(f, statuses) == {e \in Employees : InScope(f, e) /\ employees[e].status \in statuses}

AttendanceQuery(f, approvals) ==
    {a \in RecordIds : /\ records[a] # None /\ records[a].approval \in approvals
                       /\ InScope(f, records[a].employee)
                       /\ InWindow(f, records[a].date, records[a].date)}

LeaveRequestQuery(f, statuses) ==
    {q \in LeaveIds : /\ leaves[q] # None /\ leaves[q].status \in statuses
                      /\ InScope(f, leaves[q].employee) /\ LeaveInWindow(f, q)}

\* The summary's count of the rows with a status.
Counted(rows, status) == {r \in DOMAIN rows : rows[r] = status}

Tally(rows) ==
    [status \in ApprovalStatus |-> Cardinality({a \in rows : records[a].approval = status})]

\* GROUP BY the branch, or the department, of the record's employee; none is a group too.
Breakdown(groupOf) ==
    [g \in {groupOf[a] : a \in DOMAIN groupOf} |->
        Tally({a \in DOMAIN groupOf : groupOf[a] = g})]

BranchOf(rows) == [a \in rows |-> employees[records[a].employee].branch]
DepartmentOf(rows) == [a \in rows |-> employees[records[a].employee].department]

\* Wrong on purpose: an inner join leaves out the records of employees without a branch.
InnerBreakdownByBranch(f) ==
    LET branchOf == BranchOf(AttendanceQuery(f, ApprovalStatus))
    IN  Breakdown(BranchOf({a \in DOMAIN branchOf : branchOf[a] # None}))

BreakdownByBranch(f) == Breakdown(BranchOf(AttendanceQuery(f, ApprovalStatus)))
BreakdownByDepartment(f) == Breakdown(DepartmentOf(AttendanceQuery(f, ApprovalStatus)))

-----------------------------------------------------------------------------
(***************************************************************************)
(* The overview: its queries are sent together, and the pending approvals  *)
(* are asked for once all of them are answered                             *)
(***************************************************************************)
Queries == {"total", "active", "probation", "on_leave", "attendance", "leave",
            "byBranch", "byDepartment"}

Answer(q, f) ==
    CASE q = "total"        -> Cardinality(Staff(f, EmploymentStatus))
      [] q = "active"       -> Cardinality(Staff(f, {"active"}))
      [] q = "probation"    -> Cardinality(Staff(f, {"probation"}))
      [] q = "on_leave"     -> Cardinality(Staff(f, {"on_leave"}))
      [] q = "attendance"   -> [a \in AttendanceQuery(f, ApprovalStatus) |-> records[a].approval]
      [] q = "leave"        -> [r \in LeaveRequestQuery(f, ApprovalStatus) |-> leaves[r].status]
      [] q = "byBranch"     -> BreakdownByBranch(f)
      [] q = "byDepartment" -> BreakdownByDepartment(f)

Approvals(grants) ==
    {p \in {"attendance", "leave"} :
        HasPermission(grants, IF p = "leave" THEN "leave:approve" ELSE "attendance:approve")}

\* The newest rows, attendance by its date first.
Newest(later) == {a \in DOMAIN later : Cardinality(later[a]) < PageSize}
LaterRecords(rows) ==
    LET later(b, a) == \/ records[b].date > records[a].date
                       \/ records[b].date = records[a].date /\ b > a
    IN  [a \in rows |-> {b \in rows : later(b, a)}]
LaterLeaves(rows) == [q \in rows |-> {b \in rows : b > q}]

PendingPage(p, f) ==
    IF p = "attendance" THEN Newest(LaterRecords(AttendanceQuery(f, {"pending"})))
                        ELSE Newest(LaterLeaves(LeaveRequestQuery(f, {"pending"})))

\* `left` are the queries not yet answered, `asked` the pages of approvals still to ask for.
GetOverview(h, u, f) ==
    Arrive(h, u, [at |-> "overview", filter |-> f, got |-> <<>>, pages |-> <<>>,
                  left |-> Queries, asked |-> Approvals(users[u].permissions)])

OverviewQuery(h, q) ==
    LET t == task[h]
    IN  /\ At(h, "overview") /\ q \in t.left
        /\ Goto(h, [t EXCEPT !.left = @ \ {q}, !.got = With(@, [x \in {q} |-> Answer(q, t.filter)])])

\* Wrong on purpose: the pending approvals are asked for with everything else.
PendingAtOnce(h, p) ==
    LET t == task[h]
    IN  /\ At(h, "overview") /\ p \in t.asked
        /\ Goto(h, [t EXCEPT !.asked = @ \ {p},
                             !.pages = With(@, [x \in {p} |-> PendingPage(p, t.filter)])])

PendingApprovals(h, p) ==
    LET t == task[h]
    IN  /\ At(h, "overview") /\ t.left = {} /\ p \in t.asked
        /\ Goto(h, [t EXCEPT !.asked = @ \ {p},
                             !.pages = With(@, [x \in {p} |-> PendingPage(p, t.filter)])])

-----------------------------------------------------------------------------
(***************************************************************************)
(* Missing attendance: who works here, what was recorded, who was on       *)
(* leave, and then day by day whether it was a working day                 *)
(***************************************************************************)
Window(f) == {d \in Dates : f.start <= d /\ d <= f.end}

\* `recorded` is history: the days that had been recorded when the report was asked for.
GetMissingAttendance(h, u, f) ==
    /\ f.start # None /\ f.end # None /\ f.start <= f.end
    /\ Arrive(h, u, [at |-> "missing_staff", filter |-> f,
                     recorded |-> {<<r.employee, r.date>> : r \in {records[a] : a \in
                                        {b \in RecordIds : records[b] # None}}}])

\* getFilteredEmployees; with nobody to report on the report is empty.
FindStaff(h) ==
    LET t == task[h]
        staff == Staff(t.filter, {"active", "probation"})
    IN  /\ At(h, "missing_staff")
        /\ Goto(h, IF staff = {} THEN Idle
                   ELSE With([t EXCEPT !.at = "missing_records"], [staff |-> staff]))

FindRecords(h) ==
    LET t == task[h]
        found == {a \in RecordIds : /\ records[a] # None /\ records[a].employee \in t.staff
                                    /\ records[a].date \in Window(t.filter)}
    IN  /\ At(h, "missing_records")
        /\ Goto(h, With([t EXCEPT !.at = "missing_leaves"],
                        [had |-> {<<records[a].employee, records[a].date>> : a \in found}]))

\* buildApprovedLeaveLookup
LeaveDays(q) == {<<leaves[q].employee, d>> : d \in leaves[q].from .. leaves[q].to}

\* What is left to resolve are the days in the window nobody recorded or was on leave.
FindLeaves(h) ==
    LET t == task[h]
        found == {q \in LeaveIds : /\ leaves[q] # None /\ leaves[q].employee \in t.staff
                                   /\ leaves[q].status = "approved"
                                   /\ LeaveInWindow(t.filter, q)}
        off == t.had \cup UNION {LeaveDays(q) : q \in found}
    IN  /\ At(h, "missing_leaves")
        /\ Goto(h, With([t EXCEPT !.at = "missing_days"],
                        [todo |-> (t.staff \X Window(t.filter)) \ off, missing |-> {}]))

\* One employee after another, one day after another.
Earlier(p, q) == p[1] < q[1] \/ (p[1] = q[1] /\ p[2] <= q[2])

ResolveDay(h) ==
    LET t == task[h]
        next == CHOOSE p \in t.todo : \A q \in t.todo : Earlier(p, q)
        day == days[next[1]][next[2]]
    IN  /\ At(h, "missing_days") /\ t.todo # {}
        /\ Goto(h, IF day = "throws" THEN Idle
                   ELSE [t EXCEPT !.todo = @ \ {next},
                                  !.missing = IF day = "working" THEN @ \cup {next} ELSE @])

-----------------------------------------------------------------------------
(***************************************************************************)
(* Lists of attendance and of leave, all or of one status                  *)
(***************************************************************************)
\* A request for attendance may use every filter.
ListAttendanceDto == Filters

\* LeaveService has a query of its own, which asks for no employee.
LeaveList(f, statuses) ==
    {q \in LeaveIds :
        /\ leaves[q] # None /\ leaves[q].status \in statuses
        /\ LET e == leaves[q].employee
           IN  /\ f.branch \in {None, employees[e].branch}
               /\ f.department \in {None, employees[e].department}
               /\ f.search # None => e \in f.search
        /\ LeaveInWindow(f, q)}

\* A request for leave that names an employee is refused by the ValidationPipe.
ListLeaveRequestsDto == {f \in Filters : f.employee = None}

List(h, u, f, kind, statuses) ==
    Arrive(h, u, [at |-> "list", filter |-> f, kind |-> kind, statuses |-> statuses])

ShowList(h) ==
    LET t == task[h]
    IN  /\ At(h, "list")
        /\ Goto(h, With([t EXCEPT !.at = "listed"],
                        [rows |-> IF t.kind = "leave" THEN LeaveList(t.filter, t.statuses)
                                  ELSE AttendanceQuery(t.filter, t.statuses)]))

-----------------------------------------------------------------------------
(***************************************************************************)
(* One's own attendance and leave                                          *)
(***************************************************************************)
\* { ...listAttendanceDto, employeeId: employee.id }
OwnFilter(f, e) == [f EXCEPT !.employee = e]

GetMyAttendance(h, u, f) ==
    Arrive(h, u, [at |-> "my_profile", want |-> "my_records", filter |-> f])

GetMyLeaveRequests(h, u) ==
    Arrive(h, u, [at |-> "my_profile", want |-> "my_leave",
                  filter |-> [field \in {"employee"} |-> None]])

\* The employees with the user's address.
Profiles(u) == {e \in Employees : employees[e].email = EmailOf[u]}

\* findEmployeeByUser, of which each service has its copy: the newest of them, if there is one.
FindProfile(h) ==
    LET t == task[h]
        mine == Profiles(t.viewer)
    IN  /\ At(h, "my_profile")
        /\ Goto(h, IF mine = {} THEN Idle
                   ELSE [t EXCEPT !.at = t.want, !.filter = OwnFilter(@, Max(mine))])

FindMyRecords(h) ==
    LET t == task[h]
    IN  /\ At(h, "my_records")
        /\ Goto(h, With([t EXCEPT !.at = "my_shown"],
                        [shown |-> {records[a].employee :
                                       a \in AttendanceQuery(t.filter, ApprovalStatus)}]))

FindMyLeave(h) ==
    LET t == task[h]
        found == {q \in LeaveIds : leaves[q] # None /\ leaves[q].employee = t.filter.employee}
    IN  /\ At(h, "my_leave")
        /\ Goto(h, With([t EXCEPT !.at = "my_shown"],
                        [shown |-> {leaves[q].employee : q \in found}]))

-----------------------------------------------------------------------------
(***************************************************************************)
(* The saves of other requests                                             *)
(***************************************************************************)
Meanwhile ==
    /\ Loaded
    /\ task' = [h \in Handlers |-> IF At(h, "idle") THEN Idle
                                   ELSE [task[h] EXCEPT !.calm = FALSE]]

UserSaved(u) ==
    /\ \/ users' = [users EXCEPT ![u].isActive = ~@]
       \/ \E p \in Grants : users' = [users EXCEPT ![u].permissions = p]
    /\ Meanwhile /\ UNCHANGED <<employees, records, leaves, days>>

EmployeeSaved(e) ==
    /\ \/ \E s \in EmploymentStatus : employees' = [employees EXCEPT ![e].status = s]
       \/ \E b \in Branches : employees' = [employees EXCEPT ![e].branch = b]
       \/ \E d \in Departments : employees' = [employees EXCEPT ![e].department = d]
       \/ \E m \in Emails : employees' = [employees EXCEPT ![e].email = m]
    /\ Meanwhile /\ UNCHANGED <<users, records, leaves, days>>

NextId(table) == {id \in DOMAIN table : table[id] = None /\ \A j \in DOMAIN table :
                                             j < id => table[j] # None}

RecordSaved(a) ==
    /\ \/ /\ a \in NextId(records)
          /\ \E e \in Employees, d \in Dates :
                 records' = [records EXCEPT ![a] = [employee |-> e, date |-> d,
                                                    approval |-> "pending"]]
       \/ /\ records[a] # None
          /\ \E s \in ApprovalStatus : records' = [records EXCEPT ![a].approval = s]
    /\ Meanwhile /\ UNCHANGED <<users, employees, leaves, days>>

\* Two reviews of a request may overlap (see Leave), but none makes it pending again.
LeaveSaved(q) ==
    /\ \/ /\ q \in NextId(leaves)
          /\ \E e \in Employees, d, c \in Dates :
                 /\ d <= c
                 /\ leaves' = [leaves EXCEPT ![q] = [employee |-> e, from |-> d, to |-> c,
                                                     status |-> "pending"]]
       \/ /\ leaves[q] # None
          /\ \E s \in {"approved", "rejected"} : leaves' = [leaves EXCEPT ![q].status = s]
    /\ Meanwhile /\ UNCHANGED <<users, employees, records, days>>

DaySaved(e, d) ==
    /\ \E day \in Day : days' = [days EXCEPT ![e][d] = day]
    /\ Meanwhile /\ UNCHANGED <<users, employees, records, leaves>>

Saves ==
    \/ \E u \in Users : UserSaved(u)
    \/ \E e \in Employees : EmployeeSaved(e) \/ \E d \in Dates : DaySaved(e, d)
    \/ \E a \in RecordIds : RecordSaved(a)
    \/ \E q \in LeaveIds : LeaveSaved(q)

AskDashboard(h, u) == \E f \in Filters : GetOverview(h, u, f)

AskAttendance(h, u) ==
    \E f \in ListAttendanceDto :
        \/ \E statuses \in {ApprovalStatus, {"pending"}, {"approved"}} :
               List(h, u, f, "attendance", statuses)
        \/ GetMyAttendance(h, u, f) \/ GetMissingAttendance(h, u, f)

AskLeave(h, u) ==
    \/ \E f \in ListLeaveRequestsDto, statuses \in {ApprovalStatus, {"pending"}, {"approved"}} :
           List(h, u, f, "leave", statuses)
    \/ GetMyLeaveRequests(h, u)

\* Bound: one report, for reports change nothing, of the tables in Seeds and what is saved next.
Ask(h, u) == load = 0 /\ (AskDashboard(h, u) \/ AskAttendance(h, u) \/ AskLeave(h, u))

Report(h) ==
    \/ \E q \in Queries : OverviewQuery(h, q)
    \/ \E p \in {"attendance", "leave"} : PendingApprovals(h, p)
    \/ FindStaff(h) \/ FindRecords(h) \/ FindLeaves(h) \/ ResolveDay(h)
    \/ ShowList(h) \/ FindProfile(h) \/ FindMyRecords(h) \/ FindMyLeave(h)

-----------------------------------------------------------------------------
(***************************************************************************)
(* Properties.  Answers are kept until the behaviour ends.                 *)
(***************************************************************************)
Total(breakdown, status) ==
    MapThenSumSet(LAMBDA g : breakdown[g][status], DOMAIN breakdown)

\* The numbers of an overview agree when nothing was saved between its queries: every
\* attendance record is in one branch and one department of the breakdowns, nobody is counted
\* under two statuses, and the pending approvals are the newest of those the summary counts.
OverviewAddsUp ==
    \A h \in Handlers : At(h, "overview") /\ task[h].calm /\ task[h].left = {} =>
        LET got == task[h].got
        IN  /\ got["active"] + got["probation"] + got["on_leave"] <= got["total"]
            /\ \A s \in ApprovalStatus :
                   /\ Cardinality(Counted(got["attendance"], s)) = Total(got["byBranch"], s)
                   /\ Cardinality(Counted(got["attendance"], s)) = Total(got["byDepartment"], s)
            /\ \A p \in DOMAIN task[h].pages :
                   LET page == task[h].pages[p]
                   IN  /\ page \subseteq Counted(got[p], "pending")
                       /\ page # Counted(got[p], "pending") => Cardinality(page) = PageSize

\* Whatever is saved meanwhile, an overview never asks for the approval of leave that its own
\* summary counts as decided: decisions are final, and the approvals are asked for last.
DecidedIsNotPending ==
    \A h \in Handlers : At(h, "overview") =>
        LET t == task[h]
        IN  {"leave"} \subseteq DOMAIN t.got \cap DOMAIN t.pages =>
                \A q \in t.pages["leave"] :
                    q \in DOMAIN t.got["leave"] => t.got["leave"][q] = "pending"

\* Whatever is saved meanwhile, nobody is reported for a day that had been recorded before
\* the report was asked for.
RecordedIsNotMissing ==
    \A h \in Handlers :
        At(h, "missing_days") => task[h].missing \cap task[h].recorded = {}

\* When nothing is saved meanwhile, the report names just the working days in its window that
\* somebody in its scope, at work or on probation, neither recorded nor had as leave.
MissingIsExact ==
    \A h \in Handlers : At(h, "missing_days") /\ task[h].calm /\ task[h].todo = {} =>
        LET f == task[h].filter
            excused(e, d) ==
                \/ \E a \in RecordIds : /\ records[a] # None
                                        /\ records[a].employee = e /\ records[a].date = d
                \/ \E q \in LeaveIds : /\ leaves[q] # None /\ leaves[q].employee = e
                                       /\ leaves[q].status = "approved"
                                       /\ leaves[q].from <= d /\ d <= leaves[q].to
        IN  task[h].missing =
                {p \in Employees \X (f.start .. f.end) :
                    /\ employees[p[1]].status \in {"active", "probation"} /\ InScope(f, p[1])
                    /\ days[p[1]][p[2]] = "working" /\ ~excused(p[1], p[2])}

\* Whoever asks for his attendance or leave is shown one person's at most, whatever employee
\* the request names; and when nothing is saved meanwhile, that of somebody with his address.
OwnRecordsOnly ==
    \A h \in Handlers : At(h, "my_shown") =>
        LET t == task[h]
        IN  /\ Cardinality(t.shown) <= 1
            /\ t.calm => \A e \in t.shown : employees[e].email = EmailOf[t.viewer]

\* The overview and the list of leave, which each build a query of their own, mean the same by
\* the same filter.
ListsAgree ==
    \A h \in Handlers : At(h, "listed") /\ task[h].calm /\ task[h].kind = "leave" =>
        task[h].rows = LeaveRequestQuery(task[h].filter, task[h].statuses)

\* What the services tell of attendance and leave is true.
AttendanceIsTold == RecordedIsNotMissing /\ MissingIsExact /\ OwnRecordsOnly /\ ListsAgree
=============================================================================

------------------------------ MODULE WorkDays ------------------------------
(***************************************************************************)
(* Work schedules, holidays and day overrides, the requests to swap an off *)
(* day, and the attendance records that keep what a day was found to be    *)
(* (WorkSchedulesService, HolidaysService, AttendanceService and the       *)
(* matching of office locations).                                          *)
(*                                                                         *)
(* Whether a day is worked is resolved by up to three queries: an override, *)
(* else the holidays of the date, else the schedule.  Handlers stop at each *)
(* query; what a request found may have changed when it saves.             *)
(*                                                                         *)
(* Employees, their department and state, distances, trusted addresses and  *)
(* networks are constants.  Times of day, names, notes and reviewers are   *)
(* left out.                                                               *)
(***************************************************************************)
EXTENDS OfficeNetworks, FiniteSets, Sequences

CONSTANTS
    Employees, Departments, States,
    DepartmentOf, StateOf,   \* [Employees -> Departments], [Employees -> States]
    Dates,                   \* consecutive days
    WeekDays, WeekDay,       \* getWeekDay: [Dates -> WeekDays]
    Rules,                   \* the weekDays a schedule may be given
    Schedules, HolidayIds, Offices, RequestIds, RecordIds,
    MaxAssignments,
    Places, Marks,           \* places; where attendance is reported from
    TrustedIps,              \* [Offices -> SUBSET Word]
    Branches, BranchOf,      \* [Offices -> Branches, or None]
    Networks,                \* the active networks of the branches
    Distance,                \* [Places -> [Offices -> Nat]]
    Seeds,                   \* the tables a behaviour may start from
    Handlers,
    MaxLoad,                 \* how many requests arrive, one that overlaps another counted twice
    MaxFailures              \* how many handlers may die between two of their calls

Opt(S) == S \cup {None}

BranchNetwork == [branch : Branches, address : Opt(Word), cidr : Opt(Cidr)]

ASSUME WorkDaysAssumption ==
    /\ DepartmentOf \in [Employees -> Departments] /\ StateOf \in [Employees -> States]
    /\ Dates \subseteq Nat /\ IsFiniteSet(Dates) /\ WeekDay \in [Dates -> WeekDays]
    /\ TrustedIps \in [Offices -> SUBSET Word]
    /\ BranchOf \in [Offices -> Opt(Branches)]
    /\ Networks \subseteq BranchNetwork
    /\ Distance \in [Places -> [Offices -> Nat]]
    /\ Marks \subseteq [ip : Opt(Word), place : Opt(Places)]
    /\ MaxLoad \in Nat /\ MaxFailures \in Nat /\ MaxAssignments \in Nat

-----------------------------------------------------------------------------
(***************************************************************************)
(* Rows                                                                    *)
(***************************************************************************)
\* Whether a day of the week is worked; it is when it has no rule.
WeekDaysDto == [WeekDays -> Opt(BOOLEAN)]
WorkSchedule == [live : BOOLEAN, weekDays : WeekDaysDto]

EmployeeWorkSchedule ==
    [employee : Employees, schedule : Schedules, from : Dates, to : Opt(Dates)]

EmployeeDayOverrideType == {"off_day", "working_day", "half_day"}

\* A holiday's scope by its target: an employee, a department, a state or (None) everybody.
Holiday == [live : BOOLEAN, isActive : BOOLEAN, date : Dates,
            target : Opt(Employees \cup Departments \cup States)]

OffDayReplacementRequest ==
    [employee : Employees, original : Dates, replacement : Dates,
     status : {"pending", "approved", "rejected"}]

OfficeLocation == [live : BOOLEAN, isActive : BOOLEAN]

DayResolution ==
    [source : {"employee_override", "holiday", "work_schedule", "default"},
     offDay : BOOLEAN, holiday : Opt(HolidayIds)]

AttendanceRecord ==
    [employee : Employees, date : Dates, day : DayResolution,
     checkIn : Opt(Offices), checkOut : Opt(Offices),
     approval : {"pending", "approved", "rejected"}]

\* Ids are unique over the tables whose rows are referred to; None is none of the values.
ASSUME RowAssumption ==
    /\ Schedules \cap HolidayIds = {} /\ Schedules \cap Offices = {}
    /\ HolidayIds \cap Offices = {}
    /\ None \notin Schedules \cup HolidayIds \cup Offices \cup EmployeeDayOverrideType
    /\ None \notin WorkSchedule \cup Holiday \cup OfficeLocation
    /\ None \notin OffDayReplacementRequest \cup AttendanceRecord
    /\ Rules \subseteq WeekDaysDto

\* A behaviour starts from rows of their tables, and from no assignment to a deleted schedule.
ASSUME SeedsAssumption ==
    \A db \in Seeds :
        /\ db.schedules \in [Schedules -> Opt(WorkSchedule)]
        /\ db.holidays \in [HolidayIds -> Opt(Holiday)]
        /\ db.offices \in [Offices -> Opt(OfficeLocation)]
        /\ db.assignments \in Seq(EmployeeWorkSchedule)
        /\ Len(db.assignments) <= MaxAssignments
        /\ \A i \in 1..Len(db.assignments) :
               LET schedule == db.schedules[db.assignments[i].schedule]
               IN  schedule # None /\ schedule.live

-----------------------------------------------------------------------------
(***************************************************************************)
(* What requests ask for                                                   *)
(***************************************************************************)
\* effectiveTo must not lie before effectiveFrom.
AssignWorkScheduleDto ==
    {dto \in EmployeeWorkSchedule : dto.to # None => dto.from <= dto.to}

CreateEmployeeDayOverrideDto ==
    [employee : Employees, date : Dates, type : EmployeeDayOverrideType]

CreateOffDayReplacementRequestDto ==
    {dto \in [employee : Employees, original : Dates, replacement : Dates] :
        dto.original # dto.replacement}

\* "pending" is allowed too.
ReviewOffDayReplacementRequestDto == {"pending", "approved", "rejected"}

HolidayTarget == Opt(Employees \cup Departments \cup States)
CreateHolidayDto == [date : Dates, target : HolidayTarget]
UpdateHolidayDto == [isActive : BOOLEAN, date : Dates, target : HolidayTarget]

CreateAttendanceDto == [employee : Employees, date : Dates, in : Marks, out : Marks]

\* A decision may follow another one, or be taken back.
ApproveAttendanceDto == {"pending", "approved", "rejected"}

-----------------------------------------------------------------------------
VARIABLES
    schedules, holidays, offices, requests, records,  \* tables, by id
    assignments,     \* employee_work_schedules, oldest first
    overrides,       \* the latest override of each employee and date
    task,            \* what each handler is doing
    arrived, overlaps, failures,
    swaps            \* history: how often a replacement request has made its overrides

tables == <<schedules, holidays, offices, requests, records, assignments, overrides>>
vars == <<tables, task, arrived, overlaps, failures, swaps>>

Idle == [at |-> "idle"]

Init ==
    /\ \E db \in Seeds :
           /\ schedules = db.schedules /\ holidays = db.holidays /\ offices = db.offices
           /\ assignments = db.assignments
    /\ requests = [r \in RequestIds |-> None]
    /\ records = [a \in RecordIds |-> None]
    /\ overrides = [e \in Employees |-> [d \in Dates |-> None]]
    /\ task = [h \in Handlers |-> Idle]
    /\ arrived = 0 /\ overlaps = 0 /\ failures = 0
    /\ swaps = [r \in RequestIds |-> 0]

LiveIn(table, id) == table[id] # None /\ table[id].live

At(h, place) == task[h].at = place
Continue(h, next) == task' = [task EXCEPT ![h] = next]
Step(h, next) == Continue(h, next) /\ UNCHANGED <<arrived, overlaps, failures>>
Read(h, next) == Step(h, next) /\ UNCHANGED <<tables, swaps>>

Alone == \A g \in Handlers : At(g, "idle")

Ready(h) ==
    /\ At(h, "idle")
    /\ arrived + overlaps + (IF Alone THEN 1 ELSE 2) <= MaxLoad

Arrive(h, next) ==
    /\ Ready(h)
    /\ Continue(h, next)
    /\ arrived' = arrived + 1
    /\ overlaps' = IF Alone THEN overlaps ELSE overlaps + 1
    /\ UNCHANGED <<tables, failures, swaps>>

\* The id of a new row; the database would never give one twice.
Held == {task[h].id : h \in {g \in Handlers : ~At(g, "idle")}}
Fresh(table) == {id \in DOMAIN table \ Held : table[id] = None}
NewId(table) == CHOOSE id \in Fresh(table) : TRUE

-----------------------------------------------------------------------------
(***************************************************************************)
(* What a day is                                                           *)
(***************************************************************************)
\* Whom a holiday is for, from everybody to one person; a smaller rank goes first.
Covers(holiday, e) == holiday.target \in {None, e, DepartmentOf[e], StateOf[e]}

Rank(holiday) ==
    CASE holiday.target \in Employees   -> 1
      [] holiday.target \in Departments -> 2
      [] holiday.target \in States      -> 3
      [] OTHER                          -> 4

Matching(e, date) ==
    {y \in HolidayIds : /\ LiveIn(holidays, y) /\ holidays[y].isActive
                        /\ holidays[y].date = date /\ Covers(holidays[y], e)}

HighestPriority(S) == {y \in S : \A z \in S : Rank(holidays[y]) <= Rank(holidays[z])}

\* The assignment with the latest start, the youngest of these; 0 where there is none.
LatestAssignment(e) ==
    LET mine == {i \in 1..Len(assignments) : assignments[i].employee = e}
        later(i, j) == \/ assignments[i].from > assignments[j].from
                       \/ assignments[i].from = assignments[j].from /\ i >= j
    IN  IF mine = {} THEN 0 ELSE CHOOSE i \in mine : \A j \in mine : later(i, j)

\* An assignment covers a date from its start to its end, if it has one.
InEffect(assignment, date) ==
    /\ assignment.from <= date
    /\ assignment.to = None \/ date <= assignment.to

ByOverride(type) ==
    [source |-> "employee_override", offDay |-> type # "working_day", holiday |-> None]

\* Wrong on purpose (see the README on mutants): whom the holiday is for, not which it is.
ByTarget(y) == [source |-> "holiday", offDay |-> TRUE, holiday |-> holidays[y].target]

ByHoliday(y) == [source |-> "holiday", offDay |-> TRUE, holiday |-> y]
BySchedule(schedule, date) ==
    [source |-> "work_schedule", offDay |-> schedule.weekDays[WeekDay[date]] = FALSE,
     holiday |-> None]
ByDefault == [source |-> "default", offDay |-> FALSE, holiday |-> None]

\* A resolution under way: the days to resolve, those resolved, and what they are for.
Resolving(use, days) ==
    [at |-> "override", id |-> use.id, use |-> use, days |-> days, found |-> <<>>]

\* Both checks of a swap come after both resolutions.
Swappable(found) == found[1].offDay /\ ~found[2].offDay

Resolved(t, day) ==
    LET found == Append(t.found, day)
    IN  CASE Len(t.days) > 1 -> [t EXCEPT !.at = "override", !.days = Tail(@), !.found = found]
          [] Len(t.days) = 1 /\ t.use.op = "attend" ->
                 [at |-> "offices", id |-> t.id, use |-> t.use, day |-> day]
          [] OTHER ->
                 IF ~Swappable(found) THEN Idle
                 ELSE [at |-> IF t.use.op = "request" THEN "pending" ELSE "swap",
                       id |-> t.id, use |-> t.use]

FindOverride(h) ==
    LET t == task[h]
        type == overrides[t.use.employee][Head(t.days)]
    IN  /\ At(h, "override")
        /\ Read(h, IF type = None THEN [t EXCEPT !.at = "holiday"]
                   ELSE Resolved(t, ByOverride(type)))

FindHolidays(h) ==
    LET t == task[h]
        matching == Matching(t.use.employee, Head(t.days))
    IN  /\ At(h, "holiday")
        /\ IF matching = {} THEN Read(h, [t EXCEPT !.at = "schedule"])
           ELSE \E y \in HighestPriority(matching) : Read(h, Resolved(t, ByHoliday(y)))

\* Wrong on purpose: the end of an assignment is overlooked.
FindScheduleForever(h) ==
    LET t == task[h]
        i == LatestAssignment(t.use.employee)
    IN  /\ At(h, "schedule")
        /\ Read(h, IF i = 0 \/ assignments[i].from > Head(t.days) THEN Resolved(t, ByDefault)
                   ELSE Resolved(t, BySchedule(schedules[assignments[i].schedule],
                                               Head(t.days))))

\* Only the latest assignment counts; a deleted schedule is not joined, and reading it throws.
FindSchedule(h) ==
    LET t == task[h]
        i == LatestAssignment(t.use.employee)
    IN  /\ At(h, "schedule")
        /\ Read(h, IF i = 0 \/ ~InEffect(assignments[i], Head(t.days))
                   THEN Resolved(t, ByDefault)
                   ELSE IF ~LiveIn(schedules, assignments[i].schedule) THEN Idle
                   ELSE Resolved(t, BySchedule(schedules[assignments[i].schedule],
                                               Head(t.days))))

-----------------------------------------------------------------------------
(***************************************************************************)
(* Schedules, assignments and overrides                                    *)
(***************************************************************************)
Saving(table, id, row) == [at |-> "save", table |-> table, id |-> id, row |-> row]

CreateSchedule(h, rules) ==
    /\ Fresh(schedules) # {}
    /\ Arrive(h, Saving("schedules", NewId(schedules), [live |-> TRUE, weekDays |-> rules]))

UpdateSchedule(h, s, rules) ==
    /\ LiveIn(schedules, s)
    /\ Arrive(h, Saving("schedules", s, [schedules[s] EXCEPT !.weekDays = rules]))

RemoveSchedule(h, s) ==
    /\ LiveIn(schedules, s)
    /\ Arrive(h, [at |-> "count", table |-> "schedules", id |-> s])

AssignToEmployee(h, dto) ==
    /\ LiveIn(schedules, dto.schedule)
    /\ Len(assignments) + Cardinality({g \in Handlers : At(g, "assign")}) < MaxAssignments
    /\ Arrive(h, [at |-> "assign", id |-> None, row |-> dto])

SaveAssignment(h) ==
    /\ At(h, "assign")
    /\ assignments' = Append(assignments, task[h].row)
    /\ Step(h, Idle)
    /\ UNCHANGED <<schedules, holidays, offices, requests, records, overrides, swaps>>

CreateEmployeeDayOverride(h, dto) ==
    Arrive(h, [at |-> "override_save", id |-> None, dto |-> dto])

SaveOverride(h) ==
    LET dto == task[h].dto
    IN  /\ At(h, "override_save")
        /\ overrides' = [overrides EXCEPT ![dto.employee][dto.date] = dto.type]
        /\ Step(h, Idle)
        /\ UNCHANGED <<schedules, holidays, offices, requests, records, assignments, swaps>>

-----------------------------------------------------------------------------
(***************************************************************************)
(* Holidays and office locations                                           *)
(***************************************************************************)
\* buildHolidayEntity; what it looks up is never deleted here.
CreateHoliday(h, dto) ==
    /\ Fresh(holidays) # {}
    /\ Arrive(h, Saving("holidays", NewId(holidays),
                        [live |-> TRUE, isActive |-> TRUE, date |-> dto.date,
                         target |-> dto.target]))

UpdateHoliday(h, y, dto) ==
    /\ LiveIn(holidays, y)
    /\ Arrive(h, Saving("holidays", y, [live |-> TRUE, isActive |-> dto.isActive,
                                        date |-> dto.date, target |-> dto.target]))

RemoveHoliday(h, y) ==
    /\ LiveIn(holidays, y)
    /\ Arrive(h, [at |-> "count", table |-> "holidays", id |-> y])

UpdateOffice(h, o, isActive) ==
    /\ LiveIn(offices, o)
    /\ Arrive(h, Saving("offices", o, [offices[o] EXCEPT !.isActive = isActive]))

RemoveOffice(h, o) ==
    /\ LiveIn(offices, o)
    /\ Arrive(h, [at |-> "count", table |-> "offices", id |-> o])

MatchesNetwork(ip, network) ==
    \/ network.address # None /\ network.address = ip
    \/ network.cidr # None /\ IsIpv4InsideCidr(ip, network.cidr)

\* findMatchingOffice: by a trusted address, else by the branch of the network that is found
\* first, else the nearest, inside its radius or not.
Matches(mark) ==
    LET open     == {o \in Offices : LiveIn(offices, o) /\ offices[o].isActive}
        listed   == {o \in open : mark.ip \in TrustedIps[o]}
        networks == {n \in Networks : mark.ip # None /\ MatchesNetwork(mark.ip, n)}
        inBranch(n) == {o \in open : BranchOf[o] = n.branch}
        nearest  == {o \in open : \A p \in open :
                         Distance[mark.place][o] <= Distance[mark.place][p]}
        byPlace  == IF mark.place = None \/ open = {} THEN {None} ELSE nearest
    IN  IF listed # {} THEN listed
        ELSE IF networks = {} THEN byPlace
        ELSE UNION {IF inBranch(n) = {} THEN byPlace ELSE inBranch(n) : n \in networks}

-----------------------------------------------------------------------------
(***************************************************************************)
(* Saves and removals                                                      *)
(***************************************************************************)
\* A save writes the copy, the deletion mark included.
Put(table, id, row) ==
    /\ schedules' = IF table = "schedules" THEN [schedules EXCEPT ![id] = row] ELSE schedules
    /\ holidays' = IF table = "holidays" THEN [holidays EXCEPT ![id] = row] ELSE holidays
    /\ offices' = IF table = "offices" THEN [offices EXCEPT ![id] = row] ELSE offices
    /\ requests' = IF table = "requests" THEN [requests EXCEPT ![id] = row] ELSE requests
    /\ records' = IF table = "records" THEN [records EXCEPT ![id] = row] ELSE records
    /\ UNCHANGED <<assignments, overrides>>

Save(h) ==
    LET t == task[h]
    IN  /\ At(h, "save")
        /\ Put(t.table, t.id, t.row)
        /\ Step(h, Idle)
        /\ UNCHANGED swaps

\* Wrong on purpose: only the check-in of an attendance record is counted.
UsesCheckIn(table, id) ==
    CASE table = "schedules" -> {i \in 1..Len(assignments) : assignments[i].schedule = id}
      [] table = "holidays" ->
             {a \in RecordIds : records[a] # None /\ records[a].day.holiday = id}
      [] table = "offices" ->
             {a \in RecordIds : records[a] # None /\ records[a].checkIn = id}

\* The assert...CanBeDeleted counts: who refers to a schedule, a holiday or an office.
Uses(table, id) ==
    CASE table = "schedules" -> {i \in 1..Len(assignments) : assignments[i].schedule = id}
      [] table = "holidays" ->
             {a \in RecordIds : records[a] # None /\ records[a].day.holiday = id}
      [] table = "offices" ->
             {a \in RecordIds : records[a] # None /\ id \in {records[a].checkIn,
                                                             records[a].checkOut}}

Count(h) ==
    LET t == task[h]
    IN  /\ At(h, "count")
        /\ Read(h, IF Uses(t.table, t.id) = {} THEN [t EXCEPT !.at = "delete"] ELSE Idle)

Delete(h) ==
    LET t == task[h]
    IN  /\ At(h, "delete")
        /\ \/ t.table = "schedules" /\ Put("schedules", t.id, [schedules[t.id] EXCEPT !.live = FALSE])
           \/ t.table = "holidays" /\ Put("holidays", t.id, [holidays[t.id] EXCEPT !.live = FALSE])
           \/ t.table = "offices" /\ Put("offices", t.id, [offices[t.id] EXCEPT !.live = FALSE])
        /\ Step(h, Idle)
        /\ UNCHANGED swaps

-----------------------------------------------------------------------------
(***************************************************************************)
(* Replacing an off day                                                    *)
(***************************************************************************)
CreateReplacementRequest(h, dto) ==
    /\ Fresh(requests) # {}
    /\ Arrive(h, Resolving([op |-> "request", id |-> NewId(requests),
                            employee |-> dto.employee, original |-> dto.original,
                            replacement |-> dto.replacement, status |-> "pending"],
                           <<dto.original, dto.replacement>>))

RequestRow(use) ==
    [employee |-> use.employee, original |-> use.original, replacement |-> use.replacement,
     status |-> use.status]

FindPending(h) ==
    LET t == task[h]
        row == RequestRow(t.use)
    IN  /\ At(h, "pending")
        /\ Read(h, IF \E r \in RequestIds : requests[r] = row THEN Idle
                   ELSE Saving("requests", t.id, row))

\* Wrong on purpose: a request may be reviewed whatever its status.
ReviewAnyRequest(h, r, decision) ==
    LET use == [op |-> "review", id |-> r, employee |-> requests[r].employee,
                original |-> requests[r].original, replacement |-> requests[r].replacement,
                status |-> decision]
    IN  /\ requests[r] # None
        /\ Arrive(h, IF decision = "approved"
                     THEN Resolving(use, <<use.original, use.replacement>>)
                     ELSE Saving("requests", r, RequestRow(use)))

ReviewReplacementRequest(h, r, decision) ==
    LET use == [op |-> "review", id |-> r, employee |-> requests[r].employee,
                original |-> requests[r].original, replacement |-> requests[r].replacement,
                status |-> decision]
    IN  /\ requests[r] # None
        /\ requests[r].status = "pending"
        /\ Arrive(h, IF decision = "approved"
                     THEN Resolving(use, <<use.original, use.replacement>>)
                     ELSE Saving("requests", r, RequestRow(use)))

\* Wrong on purpose: the original off day is kept.
SaveSwapOff(h) ==
    LET use == task[h].use
    IN  /\ At(h, "swap")
        /\ overrides' = [overrides EXCEPT ![use.employee][use.replacement] = "off_day"]
        /\ swaps' = [swaps EXCEPT ![use.id] = @ + 1]
        /\ Step(h, Saving("requests", use.id, RequestRow(use)))
        /\ UNCHANGED <<schedules, holidays, offices, requests, records, assignments>>

\* Wrong on purpose: the request is saved first, and both overrides after it.
SaveSwapLast(h) ==
    LET use == task[h].use
    IN  /\ At(h, "swap")
        /\ \/ /\ requests[use.id] # RequestRow(use)
              /\ Put("requests", use.id, RequestRow(use))
              /\ Step(h, task[h])
              /\ UNCHANGED swaps
           \/ /\ requests[use.id] = RequestRow(use)
              /\ overrides' = [overrides EXCEPT ![use.employee][use.original] = "working_day",
                                                ![use.employee][use.replacement] = "off_day"]
              /\ swaps' = [swaps EXCEPT ![use.id] = @ + 1]
              /\ Step(h, Idle)
              /\ UNCHANGED <<schedules, holidays, offices, requests, records, assignments>>

\* Both overrides are saved in one transaction, the request after it.
SaveSwap(h) ==
    LET use == task[h].use
    IN  /\ At(h, "swap")
        /\ overrides' = [overrides EXCEPT ![use.employee][use.original] = "working_day",
                                          ![use.employee][use.replacement] = "off_day"]
        /\ swaps' = [swaps EXCEPT ![use.id] = @ + 1]
        /\ Step(h, Saving("requests", use.id, RequestRow(use)))
        /\ UNCHANGED <<schedules, holidays, offices, requests, records, assignments>>

-----------------------------------------------------------------------------
(***************************************************************************)
(* Attendance                                                              *)
(***************************************************************************)
CreateAttendance(h, dto) ==
    /\ Fresh(records) # {}
    /\ Arrive(h, Resolving([op |-> "attend", id |-> NewId(records), employee |-> dto.employee,
                            date |-> dto.date, in |-> dto.in, out |-> dto.out],
                           <<dto.date>>))

\* findMatchingOffice, for the check-in and then for the check-out.
MatchCheckIn(h) ==
    LET t == task[h]
    IN  /\ At(h, "offices")
        /\ \E o \in Matches(t.use.in) :
               Read(h, [at |-> "check_out", id |-> t.id, use |-> t.use, day |-> t.day,
                        checkIn |-> o])

MatchCheckOut(h) ==
    LET t == task[h]
    IN  /\ At(h, "check_out")
        /\ \E o \in Matches(t.use.out) :
               Read(h, Saving("records", t.id,
                              [employee |-> t.use.employee, date |-> t.use.date, day |-> t.day,
                               checkIn |-> t.checkIn, checkOut |-> o, approval |-> "pending"]))

ApproveAttendance(h, a, decision) ==
    /\ records[a] # None
    /\ Arrive(h, Saving("records", a, [records[a] EXCEPT !.approval = decision]))

Fail(h) ==
    /\ ~At(h, "idle")
    /\ failures < MaxFailures
    /\ failures' = failures + 1
    /\ Continue(h, Idle)
    /\ UNCHANGED <<tables, arrived, overlaps, swaps>>

-----------------------------------------------------------------------------
ScheduleRequest(h) ==
    \/ \E rules \in Rules : CreateSchedule(h, rules)
    \/ \E s \in Schedules :
           (\E rules \in Rules : UpdateSchedule(h, s, rules)) \/ RemoveSchedule(h, s)
    \/ \E dto \in AssignWorkScheduleDto : AssignToEmployee(h, dto)
    \/ \E dto \in CreateEmployeeDayOverrideDto : CreateEmployeeDayOverride(h, dto)
    \/ \E dto \in CreateOffDayReplacementRequestDto : CreateReplacementRequest(h, dto)
    \/ \E r \in RequestIds, decision \in ReviewOffDayReplacementRequestDto :
           ReviewReplacementRequest(h, r, decision)

HolidayRequest(h) ==
    \/ \E dto \in CreateHolidayDto : CreateHoliday(h, dto)
    \/ \E y \in HolidayIds :
           (\E dto \in UpdateHolidayDto : UpdateHoliday(h, y, dto)) \/ RemoveHoliday(h, y)

OfficeRequest(h) ==
    \E o \in Offices :
        (\E isActive \in BOOLEAN : UpdateOffice(h, o, isActive)) \/ RemoveOffice(h, o)

AttendanceRequest(h) ==
    \/ \E dto \in CreateAttendanceDto : CreateAttendance(h, dto)
    \/ \E a \in RecordIds, decision \in ApproveAttendanceDto : ApproveAttendance(h, a, decision)

Request(h) ==
    ScheduleRequest(h) \/ HolidayRequest(h) \/ OfficeRequest(h) \/ AttendanceRequest(h)

Proceed(h) ==
    \/ FindOverride(h) \/ FindHolidays(h) \/ FindSchedule(h)
    \/ Save(h) \/ SaveAssignment(h) \/ SaveOverride(h) \/ Count(h) \/ Delete(h)
    \/ FindPending(h) \/ SaveSwap(h) \/ MatchCheckIn(h) \/ MatchCheckOut(h)

Next == \E h \in Handlers : (Ready(h) /\ Request(h)) \/ Proceed(h) \/ Fail(h)

Spec == Init /\ [][Next]_vars

-----------------------------------------------------------------------------
(***************************************************************************)
(* Properties                                                              *)
(***************************************************************************)
\* Tables hold rows of their own, handlers are at a known step, bounds are kept.
TypeOK ==
    /\ schedules \in [Schedules -> Opt(WorkSchedule)]
    /\ holidays \in [HolidayIds -> Opt(Holiday)]
    /\ offices \in [Offices -> Opt(OfficeLocation)]
    /\ requests \in [RequestIds -> Opt(OffDayReplacementRequest)]
    /\ records \in [RecordIds -> Opt(AttendanceRecord)]
    /\ \A i \in 1..Len(assignments) : assignments[i] \in EmployeeWorkSchedule
    /\ Len(assignments) <= MaxAssignments
    /\ overrides \in [Employees -> [Dates -> Opt(EmployeeDayOverrideType)]]
    /\ \A h \in Handlers :
           task[h].at \in {"idle", "override", "holiday", "schedule", "save", "assign",
                           "override_save", "count", "delete", "pending", "swap", "offices",
                           "check_out"}
    /\ arrived \in 0..MaxLoad /\ overlaps \in 0..arrived /\ failures \in 0..MaxFailures
    /\ swaps \in [RequestIds -> Nat]

\* What the tables say of a day, all at once.
Off(e, date) ==
    IF overrides[e][date] # None THEN overrides[e][date] # "working_day"
    ELSE \/ Matching(e, date) # {}
         \/ LET i == LatestAssignment(e)
            IN  /\ i # 0 /\ InEffect(assignments[i], date)
                /\ LiveIn(schedules, assignments[i].schedule)
                /\ schedules[assignments[i].schedule].weekDays[WeekDay[date]] = FALSE

OffDays(e) == {date \in Dates : Off(e, date)}

\* A record is saved with what its day is by then, where requests take turns: the queries of
\* resolveEmployeeDay together say what the tables say.  An off day that is a holiday names
\* one that no narrower holiday of the day goes before.
RecordsFitTheDay ==
    [][\A a \in RecordIds :
           records[a] = None /\ records'[a] # None /\ overlaps = 0 =>
               LET e == records'[a].employee
                   date == records'[a].date
                   day == records'[a].day
               IN  /\ day.offDay = Off(e, date)
                   /\ day.holiday # None =>
                          /\ overrides[e][date] = None
                          /\ day.holiday \in HighestPriority(Matching(e, date))]_vars

\* Approving a replacement moves an off day, where requests take turns: the employee has as
\* many of them after the overrides are saved as before.
SwapsKeepTheBalance ==
    [][swaps' # swaps /\ overlaps = 0 =>
           \A e \in Employees : Cardinality(OffDays(e)) = Cardinality(OffDays(e)')]_vars

\* An approved replacement request has made its overrides, whatever overlaps or fails.
ApprovedIsSwapped ==
    \A r \in RequestIds :
        requests[r] # None /\ requests[r].status = "approved" => swaps[r] > 0

UnderReview(r) == \E h \in Handlers : ~At(h, "idle") /\ task[h].id = r

\* Once no review is under way, a request has made its overrides once if it is approved and
\* not at all if it is not.  Each request that overlaps another, and each handler that dies
\* between the overrides and the request, may leave one of them wrong (the request is saved
\* apart from its overrides, and the check that it is pending comes first).
SwapsAreRecorded ==
    Cardinality({r \in RequestIds :
        /\ requests[r] # None /\ ~UnderReview(r)
        /\ swaps[r] # (IF requests[r].status = "approved" THEN 1 ELSE 0)})
    <= overlaps + failures

\* The branches that have the address of a mark, alone or inside a block.
HasAddress(network, ip) ==
    \/ network.address # None /\ network.address = ip
    \/ /\ network.cidr # None /\ network.cidr.range # None
       /\ network.cidr.prefixLength \in 0 .. Width
       /\ SameStart(ip, network.cidr.range, network.cidr.prefixLength)

HomeBranches ==
    [mark \in Marks |->
        {n.branch : n \in {m \in Networks : mark.ip # None /\ HasAddress(m, mark.ip)}}]

\* Whoever reports from an address of a branch is found at an office of the branch, unless the
\* address is a trusted one of some open office.  Several branches may have the address; the
\* network that is found first decides then, and whichever that is the office is one of one
\* of these branches, as long as each of them has an open one.  The masks of
\* findMatchingBranchNetwork let in all of a block, were it the block of all addresses, and
\* nothing else.
BranchAddressesAreFound ==
    LET open == {o \in Offices : LiveIn(offices, o) /\ offices[o].isActive}
    IN  \A mark \in Marks :
            /\ HomeBranches[mark] # {}
            /\ \A branch \in HomeBranches[mark] : \E o \in open : BranchOf[o] = branch
            /\ \A o \in open : mark.ip \notin TrustedIps[o]
            => /\ Matches(mark) # {}
               /\ \A o \in Matches(mark) : o # None /\ BranchOf[o] \in HomeBranches[mark]

Named ==
    LET kept == {records[a] : a \in {b \in RecordIds : records[b] # None}}
    IN  {assignments[i].schedule : i \in 1..Len(assignments)}
        \cup UNION {{record.day.holiday, record.checkIn, record.checkOut} : record \in kept}

Gone(table) == {id \in DOMAIN table : table[id] # None /\ ~table[id].live}

\* A schedule, holiday or office that an assignment or a record refers to is there, except
\* for one such row for each request that overlapped another: the use is counted before the
\* removal.
UsedRowsStay ==
    Cardinality(Named \cap (Gone(schedules) \cup Gone(holidays) \cup Gone(offices))) <= overlaps
=============================================================================

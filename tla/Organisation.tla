---------------------------- MODULE Organisation ----------------------------
(***************************************************************************)
(* Companies, office types, branches with their locations, networks, office *)
(* locations and departments, departments, and the rows of other modules    *)
(* whose references may keep one of these from being deleted.               *)
(*                                                                         *)
(* Deleting is soft: the row stays, marked, and every query skips it.  What *)
(* keeps the references whole is that each remove route first counts the   *)
(* rows that still refer to the one it removes; the count and the removal  *)
(* are different database calls, and a request that looked its parent up   *)
(* before the removal may save its row after it.                           *)
(*                                                                         *)
(* Every route here is one of two shapes.  create and update look rows up, *)
(* one call each, and save: a save writes every column of the copy, those   *)
(* the request did not change and the deletion mark included, and skips    *)
(* undefined ones.  remove finds, counts (the counts of one Promise.all in  *)
(* any order) and marks.  Names, codes and addresses are left out.          *)
(***************************************************************************)
EXTENDS Integers, FiniteSets, Sequences

CONSTANTS
    Companies, OfficeTypes, Branches, Departments, Locations, Networks,
    Offices, Assignments, Holidays, PayrollRuns, Notices,
    Employees, Statuses,  \* EmploymentStatus
    Seeds,                \* the organisations a behaviour may start from
    Handlers,
    MaxLoad,              \* how many requests arrive, one that overlaps another counted twice
    None,                 \* null: no row, no reference
    Same                  \* undefined: left out of a request, skipped by a save

Tables == <<Companies, OfficeTypes, Branches, Departments, Locations, Networks, Offices,
            Assignments, Holidays, PayrollRuns, Notices, Employees>>
Ids == UNION {Tables[i] : i \in DOMAIN Tables}

-----------------------------------------------------------------------------
(***************************************************************************)
(* Rows: the mark and the references                                       *)
(***************************************************************************)
Opt(S) == S \cup {None}

Company          == [live : BOOLEAN]
OfficeType       == [live : BOOLEAN, company : Opt(Companies)]
Branch           == [live : BOOLEAN, company : Opt(Companies), officeType : Opt(OfficeTypes)]
Department       == [live : BOOLEAN, company : Opt(Companies), parent : Opt(Departments)]
BranchLocation   == [live : BOOLEAN, branch : Branches]
BranchNetwork    == [live : BOOLEAN, branch : Branches]
OfficeLocation   == [live : BOOLEAN, branch : Opt(Branches)]
BranchDepartment == [live : BOOLEAN, branch : Branches, department : Departments]
Holiday          == [live : BOOLEAN, department : Opt(Departments)]
PayrollRun       == [live : {TRUE}, branch : Opt(Branches), department : Opt(Departments)]
Notice           == [live : {TRUE}, branch : Opt(Branches), department : Opt(Departments)]
Employee         == [live : {TRUE}, branch : Opt(Branches), department : Opt(Departments),
                     status : Statuses]

-----------------------------------------------------------------------------
(***************************************************************************)
(* What requests name: None where a create leaves a reference out, Same    *)
(* where an update does                                                    *)
(***************************************************************************)
CreateOfficeTypeDto == [company : Opt(Companies)]
\* A company given as null is cleared, one left out is kept.
UpdateOfficeTypeDto == [company : Companies \cup {None, Same}]
CreateBranchDto     == [company : Companies, officeType : Opt(OfficeTypes)]
UpdateBranchDto     == [company : Companies \cup {Same}, officeType : OfficeTypes \cup {Same}]
CreateDepartmentDto == [company : Companies, parent : Opt(Departments)]
UpdateDepartmentDto == [company : Companies \cup {Same}, parent : Departments \cup {Same}]
CreateOfficeLocationDto == [branch : Opt(Branches)]
UpdateOfficeLocationDto == [branch : Branches \cup {Same}]
CreateHolidayDto    == [department : Opt(Departments)]
UpdateHolidayDto    == [department : Departments \cup {Same}]
CreatePayrollRunDto == [branch : Opt(Branches), department : Opt(Departments)]
CreateNoticeDto     == [branch : Opt(Branches), department : Opt(Departments)]

RowsTyped(db) ==
    /\ DOMAIN db = Ids
    /\ \A c \in Companies : db[c] \in Opt(Company)
    /\ \A t \in OfficeTypes : db[t] \in Opt(OfficeType)
    /\ \A b \in Branches : db[b] \in Opt(Branch)
    /\ \A d \in Departments : db[d] \in Opt(Department)
    /\ \A l \in Locations : db[l] \in Opt(BranchLocation)
    /\ \A n \in Networks : db[n] \in Opt(BranchNetwork)
    /\ \A o \in Offices : db[o] \in Opt(OfficeLocation)
    /\ \A a \in Assignments : db[a] \in Opt(BranchDepartment)
    /\ \A y \in Holidays : db[y] \in Opt(Holiday)
    /\ \A r \in PayrollRuns : db[r] \in Opt(PayrollRun)
    /\ \A n \in Notices : db[n] \in Opt(Notice)
    /\ \A e \in Employees : db[e] \in Opt(Employee)

Columns(row) == DOMAIN row \ {"live", "status"}

RefersTo(row, id) == \E column \in Columns(row) : row[column] = id

\* The references of db that ought to have kept the row they name from being deleted.  No
\* route counts the office types of a company; notices name a branch or department unchecked.
Dangling(db) ==
    LET deleted == {y \in Ids : db[y] # None /\ ~db[y].live}
        inUse == {x \in Ids \ (OfficeTypes \cup Notices) : db[x] # None /\ db[x].live}
    IN  {pair \in inUse \X deleted : RefersTo(db[pair[1]], pair[2])}

\* The foreign keys of db: a reference names a row, deleted or not.  A notice keeps plain ids.
Referential(db) ==
    \A x \in Ids \ Notices : db[x] # None =>
        \A column \in Columns(db[x]) : db[x][column] # None => db[db[x][column]] # None

ASSUME OrganisationAssumption ==
    /\ \A i, j \in DOMAIN Tables : i # j => Tables[i] \cap Tables[j] = {}
    /\ {None, Same} \cap Ids = {} /\ {None, Same} \cap Statuses = {}
    /\ {None, Same} \cap BOOLEAN = {} /\ None # Same
    /\ None \notin Company \cup OfficeType \cup Branch \cup Department \cup BranchLocation
                 \cup OfficeLocation \cup BranchDepartment \cup Holiday \cup PayrollRun
                 \cup Employee
    /\ MaxLoad \in Nat
    /\ \A db \in Seeds : RowsTyped(db) /\ Dangling(db) = {} /\ Referential(db)

-----------------------------------------------------------------------------
VARIABLES
    rows,      \* the tables, by id; None: no row
    task,      \* what each handler is doing
    requests,  \* how many requests have arrived
    overlaps   \* how many of them while another was in flight

orgVars == <<rows, task, requests, overlaps>>

Idle == [at |-> "idle"]

OrgInit ==
    /\ rows \in Seeds
    /\ task = [h \in Handlers |-> Idle]
    /\ requests = 0 /\ overlaps = 0

Live(id) == rows[id] # None /\ rows[id].live

At(h, place) == task[h].at = place
Continue(h, next) == task' = [task EXCEPT ![h] = next]

\* A step that only reads.
Read(h, next) ==
    /\ Continue(h, next)
    /\ UNCHANGED <<rows, requests, overlaps>>

Write(h, id, row, next) ==
    /\ rows' = [rows EXCEPT ![id] = row]
    /\ Continue(h, next)
    /\ UNCHANGED <<requests, overlaps>>

Alone == \A g \in Handlers : At(g, "idle")

Ready(h) ==
    /\ At(h, "idle")
    /\ requests + overlaps + (IF Alone THEN 1 ELSE 2) <= MaxLoad

Arrive(h, next) ==
    /\ Ready(h)
    /\ Continue(h, next)
    /\ requests' = requests + 1
    /\ overlaps' = IF Alone THEN overlaps ELSE overlaps + 1
    /\ UNCHANGED rows

Held == {task[h].id : h \in {g \in Handlers : ~At(g, "idle")}}
Fresh(table) == {id \in table \ Held : rows[id] = None}
NewId(table) == CHOOSE id \in Fresh(table) : TRUE

\* A row as a query returns it: a deleted row is not joined, its reference reads null.
Loaded(id) ==
    [column \in DOMAIN rows[id] |->
        IF column \in Columns(rows[id]) /\ rows[id][column] # None /\ ~Live(rows[id][column])
        THEN None ELSE rows[id][column]]

\* Object.assign of what a request names.
Merged(row, dto) ==
    [column \in DOMAIN row |->
        IF column \in DOMAIN dto /\ dto[column] # Same THEN dto[column] ELSE row[column]]

If(condition, item) == IF condition THEN <<item>> ELSE <<>>

\* The columns to look up; no route has more than two.
Given(dto, columns) ==
    LET given(i) == If(dto[columns[i]] \notin {None, Same}, columns[i])
    IN  CASE Len(columns) = 0 -> <<>>
          [] Len(columns) = 1 -> given(1)
          [] Len(columns) = 2 -> given(1) \o given(2)

\* A copy under way: the columns still to be looked up, the history entries to follow it.
Building(id, row, todo, entries) ==
    [at |-> IF todo # <<>> THEN "find" ELSE IF id \in Assignments THEN "existing" ELSE "save",
     id |-> id, row |-> row, todo |-> todo, entries |-> entries]

\* createBranch, unlike updateBranch, compares the companies of branch and office type.
Found(t) ==
    LET id == t.row[Head(t.todo)]
    IN  /\ Live(id)
        /\ Head(t.todo) = "officeType" /\ rows[t.id] = None =>
               Loaded(id).company \in {None, t.row.company}

Looked(t) == Building(t.id, t.row, Tail(t.todo), t.entries)

\* A create or update request, with the first of its look-ups.
CreateWith(h, table, row, columns, entries) ==
    /\ Fresh(table) # {}
    /\ LET t == Building(NewId(table), row, Given(row, columns), entries)
       IN  IF t.todo = <<>> THEN Arrive(h, t) ELSE Found(t) /\ Arrive(h, Looked(t))

Create(h, table, row, columns) == CreateWith(h, table, row, columns, <<>>)

Update(h, id, dto, columns) ==
    /\ Live(id)
    /\ Arrive(h, Building(id, Merged(Loaded(id), dto), Given(dto, columns), <<>>))

\* A remove request, once it has found its row.
Remove(h, id, blockers) ==
    /\ Live(id)
    /\ Arrive(h, [at |-> IF blockers = {} THEN "delete" ELSE "count", id |-> id,
                  todo |-> blockers])

\* The routes below /branches/:branchId find the branch first, then the row under it.
UnderBranch(h, id, then) ==
    /\ rows[id] # None
    /\ Live(rows[id].branch)
    /\ Arrive(h, [at |-> "child", id |-> id, then |-> then])

-----------------------------------------------------------------------------
(***************************************************************************)
(* The routes                                                              *)
(***************************************************************************)
CreateCompany(h) == Create(h, Companies, [live |-> TRUE], <<>>)
UpdateCompany(h, c) == Update(h, c, <<>>, <<>>)
RemoveCompany(h, c) == Remove(h, c, {Branches, Departments})

CreateOfficeType(h, dto) ==
    Create(h, OfficeTypes, [live |-> TRUE, company |-> dto.company], <<"company">>)
UpdateOfficeType(h, t, dto) == Update(h, t, dto, <<"company">>)
RemoveOfficeType(h, t) == Remove(h, t, {Branches})

CreateBranch(h, dto) ==
    Create(h, Branches, [live |-> TRUE, company |-> dto.company, officeType |-> dto.officeType],
           <<"company", "officeType">>)
UpdateBranch(h, b, dto) == Update(h, b, dto, <<"company", "officeType">>)

\* Wrong on purpose (see the README on mutants): office locations are not counted.
BranchBlockersNoOffices ==
    {Employees, Locations, Networks, Assignments, PayrollRuns, Notices}

BranchBlockers ==
    {Employees, Locations, Networks, Assignments, Offices, PayrollRuns, Notices}
RemoveBranch(h, b) == Remove(h, b, BranchBlockers)

CreateLocation(h, b) ==
    Create(h, Locations, [live |-> TRUE, branch |-> b], <<"branch">>)
UpdateLocation(h, l) == UnderBranch(h, l, "save")
RemoveLocation(h, l) == UnderBranch(h, l, "delete")

CreateNetwork(h, b) ==
    Create(h, Networks, [live |-> TRUE, branch |-> b], <<"branch">>)
UpdateNetwork(h, n) == UnderBranch(h, n, "save")
RemoveNetwork(h, n) == UnderBranch(h, n, "delete")

AssignDepartment(h, b, d) ==
    Create(h, Assignments, [live |-> TRUE, branch |-> b, department |-> d],
           <<"branch", "department">>)
RemoveDepartmentAssignment(h, a) == UnderBranch(h, a, "count")

CreateDepartment(h, dto) ==
    Create(h, Departments, [live |-> TRUE, company |-> dto.company, parent |-> dto.parent],
           <<"company", "parent">>)
\* Any department may become the parent, the department itself included.
UpdateDepartment(h, d, dto) == Update(h, d, dto, <<"company", "parent">>)
DepartmentBlockers ==
    {Employees, Departments, Assignments, Holidays, PayrollRuns, Notices}
RemoveDepartment(h, d) == Remove(h, d, DepartmentBlockers)

CreateOffice(h, dto) ==
    Create(h, Offices, [live |-> TRUE, branch |-> dto.branch], <<"branch">>)
UpdateOffice(h, o, dto) == Update(h, o, dto, <<"branch">>)

\* buildHolidayEntity: a department where the scope is one, else undefined.  An update that
\* gives none looks up the holiday's own again, or with another scope leaves the column alone.
CreateHoliday(h, dto) ==
    Create(h, Holidays, [live |-> TRUE, department |-> dto.department], <<"department">>)
UpdateHoliday(h, y, dto) ==
    /\ Live(y)
    /\ \E own \in {Same, Loaded(y).department} \ {None} :
           LET row == [live |-> TRUE,
                       department |-> IF dto.department = Same THEN own ELSE dto.department]
           IN  Arrive(h, Building(y, row, Given(row, <<"department">>), <<>>))

\* Both are kept by the attendance records that name them, which WorkDays models.
Attendance == {None}
RemoveOfficeOrHoliday(h, id) == Remove(h, id, {Attendance})

CreatePayrollRun(h, dto) ==
    Create(h, PayrollRuns,
           [live |-> TRUE, branch |-> dto.branch, department |-> dto.department],
           <<"branch", "department">>)
CreateNotice(h, dto) ==
    Create(h, Notices,
           [live |-> TRUE, branch |-> dto.branch, department |-> dto.department], <<>>)

-----------------------------------------------------------------------------
(***************************************************************************)
(* The database calls that follow                                          *)
(***************************************************************************)
FindNext(h) ==
    /\ At(h, "find")
    /\ Read(h, IF Found(task[h]) THEN Looked(task[h]) ELSE Idle)

\* Wrong on purpose: the row of a removed assignment is found too.
FindRemoved(h) ==
    LET t == task[h]
        same == {a \in Assignments : /\ rows[a] # None
                                     /\ rows[a].branch = t.row.branch
                                     /\ rows[a].department = t.row.department}
    IN  /\ At(h, "existing")
        /\ Read(h, [t EXCEPT !.at = "save",
                             !.id = IF same = {} THEN @ ELSE CHOOSE a \in same : TRUE])

\* assignDepartment saves over the assignment of the same branch and department.
FindExisting(h) ==
    LET t == task[h]
        same == {a \in Assignments : /\ Live(a)
                                     /\ rows[a].branch = t.row.branch
                                     /\ rows[a].department = t.row.department}
    IN  /\ At(h, "existing")
        /\ Read(h, [t EXCEPT !.at = "save",
                             !.id = IF same = {} THEN @ ELSE CHOOSE a \in same : TRUE])

FindChild(h) ==
    LET t == task[h]
        next == CASE t.then = "save"   -> [Building(t.id, rows[t.id], <<>>, <<>>)
                                          EXCEPT !.at = "save"]
                  [] t.then = "delete" -> [at |-> "delete", id |-> t.id]
                  [] t.then = "count"  -> [at |-> "count", id |-> t.id, todo |-> {Employees}]
    IN  /\ At(h, "child")
        /\ Read(h, IF Live(t.id) /\ Live(rows[t.id].branch) THEN next ELSE Idle)

\* Wrong on purpose: undefined columns are written.
WrittenUndefined(id, row) == row

\* The columns a save writes; undefined ones stay what they are, or start as null.
Written(id, row) ==
    [column \in DOMAIN row |->
        IF row[column] # Same THEN row[column]
        ELSE IF rows[id] = None THEN None ELSE rows[id][column]]

\* (branch, department) is unique in branch_departments, removed rows included.
Unique(id, row) ==
    id \in Assignments =>
        ~\E a \in Assignments \ {id} : /\ rows[a] # None
                                       /\ rows[a].branch = row.branch
                                       /\ rows[a].department = row.department

Save(h) ==
    LET t == task[h]
    IN  /\ At(h, "save")
        /\ IF Unique(t.id, t.row)
           THEN Write(h, t.id, Written(t.id, t.row),
                      IF t.entries = <<>> THEN Idle
                      ELSE [at |-> "history", id |-> t.id, entries |-> t.entries])
           ELSE Read(h, Idle)

\* Who keeps the row from being removed: the rows of a table that refer to it, and the
\* employees of an assignment's branch and department.
Uses(x, id) ==
    IF id \in Assignments
    THEN rows[x].branch = rows[id].branch /\ rows[x].department = rows[id].department
    ELSE RefersTo(rows[x], id)

\* Attendance may or may not keep an office location or holiday.
Blocked(id, blocker) ==
    IF blocker = Attendance THEN BOOLEAN
    ELSE {\E x \in blocker : Live(x) /\ Uses(x, id)}

Count(h) ==
    LET t == task[h]
    IN  /\ At(h, "count")
        /\ \E blocker \in t.todo : \E blocked \in Blocked(t.id, blocker) :
               Read(h, IF blocked THEN Idle
                       ELSE IF t.todo = {blocker} THEN [at |-> "delete", id |-> t.id]
                       ELSE [t EXCEPT !.todo = @ \ {blocker}])

Delete(h) ==
    LET t == task[h]
    IN  /\ At(h, "delete")
        /\ Write(h, t.id, [rows[t.id] EXCEPT !.live = FALSE], Idle)

OrgProceed(h) ==
    \/ FindNext(h) \/ FindExisting(h) \/ FindChild(h)
    \/ Save(h) \/ Count(h) \/ Delete(h)

CompanyRequest(h) ==
    \/ CreateCompany(h)
    \/ \E c \in Companies : UpdateCompany(h, c) \/ RemoveCompany(h, c)

OfficeTypeRequest(h) ==
    \/ \E dto \in CreateOfficeTypeDto : CreateOfficeType(h, dto)
    \/ \E t \in OfficeTypes :
           \/ \E dto \in UpdateOfficeTypeDto : UpdateOfficeType(h, t, dto)
           \/ RemoveOfficeType(h, t)

BranchRequest(h) ==
    \/ \E dto \in CreateBranchDto : CreateBranch(h, dto)
    \/ \E b \in Branches :
           \/ \E dto \in UpdateBranchDto : UpdateBranch(h, b, dto)
           \/ RemoveBranch(h, b)

BranchPartRequest(h) ==
    \/ \E b \in Branches :
           \/ CreateLocation(h, b) \/ CreateNetwork(h, b)
           \/ \E d \in Departments : AssignDepartment(h, b, d)
    \/ \E l \in Locations : UpdateLocation(h, l) \/ RemoveLocation(h, l)
    \/ \E n \in Networks : UpdateNetwork(h, n) \/ RemoveNetwork(h, n)
    \/ \E a \in Assignments : RemoveDepartmentAssignment(h, a)

DepartmentRequest(h) ==
    \/ \E dto \in CreateDepartmentDto : CreateDepartment(h, dto)
    \/ \E d \in Departments :
           \/ \E dto \in UpdateDepartmentDto : UpdateDepartment(h, d, dto)
           \/ RemoveDepartment(h, d)

OfficeRequest(h) ==
    \/ \E dto \in CreateOfficeLocationDto : CreateOffice(h, dto)
    \/ \E o \in Offices, dto \in UpdateOfficeLocationDto : UpdateOffice(h, o, dto)
    \/ \E o \in Offices : RemoveOfficeOrHoliday(h, o)

HolidayRequest(h) ==
    \/ \E dto \in CreateHolidayDto : CreateHoliday(h, dto)
    \/ \E y \in Holidays, dto \in UpdateHolidayDto : UpdateHoliday(h, y, dto)
    \/ \E y \in Holidays : RemoveOfficeOrHoliday(h, y)

OrgRequest(h) ==
    \/ CompanyRequest(h) \/ OfficeTypeRequest(h) \/ BranchRequest(h) \/ BranchPartRequest(h)
    \/ DepartmentRequest(h) \/ OfficeRequest(h) \/ HolidayRequest(h)
    \/ \E dto \in CreatePayrollRunDto : CreatePayrollRun(h, dto)
    \/ \E dto \in CreateNoticeDto : CreateNotice(h, dto)

OrgBegin(h) == Ready(h) /\ OrgRequest(h)
=============================================================================

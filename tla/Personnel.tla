----------------------------- MODULE Personnel ------------------------------
(***************************************************************************)
(* Employees (EmployeesService) on top of the organisation.                *)
(*                                                                         *)
(* Creating, updating or transferring an employee, or recording an event of *)
(* the employment, saves the row first and the entries of its histories    *)
(* after it, each in a call of its own.  Only the latest entry of each      *)
(* history is kept here.  The profile sections and all dates are left out. *)
(***************************************************************************)
EXTENDS Organisation

CONSTANTS
    MaxFailures       \* how many handlers may die between two of their calls

VARIABLES
    latest,           \* the latest entry of each employee's histories
    failures,         \* how many handlers have died so far
    edited            \* history: employees whose status a profile update has set

vars == <<orgVars, latest, failures, edited>>

EmploymentStatus == {"active", "on_leave", "probation", "resigned", "terminated"}
EmploymentEvent == {"joined", "resigned", "terminated", "rejoined"}

Histories == {"department", "branch", "status"}

\* An entry names what the employee got, null for a removal.
Entry == [to : Ids \cup Statuses \cup {None}]

ASSUME PersonnelAssumption ==
    /\ Statuses \subseteq EmploymentStatus
    /\ MaxFailures \in Nat
    /\ None \notin Entry

RecordedAs(value) == IF value = None THEN None ELSE [to |-> value]

Init ==
    /\ OrgInit
    /\ latest = [e \in Employees |-> [k \in Histories |->
                    IF rows[e] = None THEN None ELSE RecordedAs(rows[e][k])]]
    /\ failures = 0
    /\ edited = {}

\* An entry to write into history k, and the row to find first.
Writing(k, to, find) == [history |-> k, to |-> to, find |-> find]

-----------------------------------------------------------------------------
CreateEmployeeDto ==
    [department : Opt(Departments), branch : Opt(Branches), status : Statuses]

\* An empty id removes the reference.
UpdateEmployeeDto ==
    [department : Departments \cup {None, Same}, branch : Branches \cup {None, Same},
     status : Statuses \cup {Same}]

CreateEmployee(h, dto) ==
    LET assigned(k) == If(dto[k] # None, Writing(k, dto[k], None))
    IN  /\ CreateWith(h, Employees,
                      [live |-> TRUE, department |-> dto.department,
                       branch |-> dto.branch, status |-> dto.status],
                      <<"department", "branch">>,
                      assigned("department") \o assigned("branch")
                          \o <<Writing("status", dto.status, None)>>)
        /\ UNCHANGED <<latest, failures, edited>>

\* An empty id makes the property of the copy undefined.
Emptied(row, dto) ==
    [column \in DOMAIN row |->
        IF column \notin DOMAIN dto \/ dto[column] = Same THEN row[column]
        ELSE IF dto[column] = None THEN Same ELSE dto[column]]

\* The entries compare what was loaded with what the copy holds after the save.
UpdateEmployee(h, e, dto) ==
    LET before == Loaded(e)
        moved(k) == If(dto[k] \notin {Same, before[k]}, Writing(k, dto[k], before[k]))
    IN  /\ Live(e)
        /\ Arrive(h, Building(e, Emptied(before, dto), Given(dto, <<"department", "branch">>),
                              moved("department") \o moved("branch")))
        /\ edited' = IF dto.status = Same THEN edited ELSE edited \cup {e}
        /\ UNCHANGED <<latest, failures>>

\* transferDepartment and transferBranch: to nowhere where the id is left out.
Transfer(h, e, column, to) ==
    LET before == Loaded(e)
    IN  /\ Live(e)
        /\ before[column] # to
        /\ Arrive(h, Building(e, [before EXCEPT ![column] = IF to = None THEN Same ELSE to],
                              IF to = None THEN <<>> ELSE <<column>>,
                              <<Writing(column, to, None)>>))
        /\ UNCHANGED <<latest, failures, edited>>

\* Wrong on purpose: nothing is recorded for an employee who had no branch.
TransferBranchUnrecorded(h, e, branch) ==
    /\ Live(e)
    /\ Loaded(e).branch # branch
    /\ Arrive(h, Building(e, [Loaded(e) EXCEPT !.branch = IF branch = None THEN Same ELSE branch],
                          IF branch = None THEN <<>> ELSE <<"branch">>,
                          IF Loaded(e).branch = None THEN <<>>
                          ELSE <<Writing("branch", branch, None)>>))
    /\ UNCHANGED <<latest, failures, edited>>

TransferDepartment(h, e, department) == Transfer(h, e, "department", department)
TransferBranch(h, e, branch) == Transfer(h, e, "branch", branch)

StatusAfter(event) == IF event \in {"resigned", "terminated"} THEN event ELSE "active"

RecordEmploymentEvent(h, e, event) ==
    /\ Live(e)
    /\ StatusAfter(event) \in Statuses
    /\ Arrive(h, Building(e, [Loaded(e) EXCEPT !.status = StatusAfter(event)], <<>>,
                          <<Writing("status", StatusAfter(event), None)>>))
    /\ UNCHANGED <<latest, failures, edited>>

\* updateEmployee reads the department or branch left behind again, and fails without it.
HistoryFind(h) ==
    LET t == task[h]
    IN  /\ At(h, "history")
        /\ Head(t.entries).find # None
        /\ Read(h, IF Live(Head(t.entries).find)
                   THEN [t EXCEPT !.entries = <<[Head(@) EXCEPT !.find = None]>> \o Tail(@)]
                   ELSE Idle)
        /\ UNCHANGED <<latest, failures, edited>>

HistorySave(h) ==
    LET t     == task[h]
        entry == Head(t.entries)
    IN  /\ At(h, "history")
        /\ entry.find = None
        /\ latest' = [latest EXCEPT ![t.id][entry.history] = [to |-> entry.to]]
        /\ Read(h, IF Len(t.entries) = 1 THEN Idle ELSE [t EXCEPT !.entries = Tail(@)])
        /\ UNCHANGED <<failures, edited>>

Fail(h) ==
    /\ ~At(h, "idle")
    /\ failures < MaxFailures
    /\ failures' = failures + 1
    /\ Read(h, Idle)
    /\ UNCHANGED <<latest, edited>>

-----------------------------------------------------------------------------
EmployeeRequest(h) ==
    \/ \E dto \in CreateEmployeeDto : CreateEmployee(h, dto)
    \/ \E e \in Employees :
           \/ \E dto \in UpdateEmployeeDto : UpdateEmployee(h, e, dto)
           \/ \E department \in Opt(Departments) : TransferDepartment(h, e, department)
           \/ \E branch \in Opt(Branches) : TransferBranch(h, e, branch)
           \/ \E event \in EmploymentEvent : RecordEmploymentEvent(h, e, event)

EmployeeBegin(h) == Ready(h) /\ EmployeeRequest(h)
EmployeeProceed(h) == HistoryFind(h) \/ HistorySave(h)

Next ==
    \E h \in Handlers :
        \/ (OrgBegin(h) \/ OrgProceed(h)) /\ UNCHANGED <<latest, failures, edited>>
        \/ EmployeeBegin(h) \/ EmployeeProceed(h)
        \/ Fail(h)

Spec == Init /\ [][Next]_vars

-----------------------------------------------------------------------------
(***************************************************************************)
(* Properties                                                              *)
(***************************************************************************)
\* Rows are of their table and keep no undefined column; handlers are at a known step.
TypeOK ==
    /\ RowsTyped(rows)
    /\ \A h \in Handlers :
           task[h].at \in {"idle", "find", "existing", "child", "save", "count", "delete",
                           "history"}
    /\ \A h \in Handlers : ~At(h, "idle") => task[h].id \in Ids
    /\ latest \in [Employees -> [Histories -> Opt(Entry)]]
    /\ requests \in 0..MaxLoad /\ overlaps \in 0..requests
    /\ failures \in 0..MaxFailures
    /\ edited \subseteq Employees

\* No row refers to a deleted one where requests take turns: what each remove route counts is
\* all that its rows are used by.  Each request that overlaps another may cost the two
\* references of one row (the blockers of the assert...CanBeDeleted functions, counted before
\* the removal).
NoDangling == Cardinality(Dangling(rows)) <= 2 * overlaps

\* A deleted row stays deleted where requests take turns; else the save of a copy read before
\* the removal writes the mark back (update routes, and assignDepartment on what it found).
DeletedStayDeleted ==
    [][(\E id \in Ids : rows[id] # None /\ ~rows[id].live /\ rows'[id].live)
          => overlaps > 0]_vars

Settled(e) == rows[e] # None /\ \A h \in Handlers : At(h, "idle") \/ task[h].id # e

\* A removal is recorded although its save leaves the column alone.
Disagrees(e, k) ==
    IF latest[e][k] = None THEN rows[e][k] # None
    ELSE latest[e][k].to \notin {None, rows[e][k]}

\* Once nothing is under way for an employee, the latest entry of each history says where
\* the row says the employee is, and the latest employment event is the status unless a
\* profile update has set one.  A request that overlaps another, or a handler that dies, may
\* cost its entries: rows are saved from copies, and entries after them.
HistoriesAgree ==
    LET explained == {pair \in edited \X Histories : pair[2] = "status"}
        wrong == {pair \in (Employees \X Histories) \ explained :
                     Settled(pair[1]) /\ Disagrees(pair[1], pair[2])}
    IN  Cardinality(wrong) <= Cardinality(Histories) * (overlaps + failures)
=============================================================================

-------------------------- MODULE PersonnelProofs ---------------------------
(***************************************************************************)
(* What the organisation's tables keep, however requests overlap and fail: *)
(* rows have the columns of their entity, and the references lost to       *)
(* removals are at most two for each request that overlapped another.  As  *)
(* long as requests take turns, a deleted row stays deleted.  And what the *)
(* requests about an employee leave wrong between the row and its          *)
(* histories is paid for, by an overlap or by a handler that died.         *)
(*                                                                         *)
(* Every route ends in one of three kinds of requests: one that holds a    *)
(* copy of a row to save, one that removes a row, and one that first looks *)
(* up a row under a branch and then turns into either.  So the invariant   *)
(* is shown for these, and the routes are shown to be of a kind.           *)
(***************************************************************************)
EXTENDS Personnel, FiniteSetTheorems, SequenceTheorems, TLAPS

-----------------------------------------------------------------------------
(***************************************************************************)
(* Rows as functions of their columns                                      *)
(***************************************************************************)
References(id) ==
    IF id \in Companies THEN {}
    ELSE IF id \in OfficeTypes THEN {"company"}
    ELSE IF id \in Branches THEN {"company", "officeType"}
    ELSE IF id \in Departments THEN {"company", "parent"}
    ELSE IF id \in Locations \cup Networks \cup Offices THEN {"branch"}
    ELSE IF id \in Holidays THEN {"department"}
    ELSE {"branch", "department"}

Fields(id) == References(id) \cup {"live"} \cup IF id \in Employees THEN {"status"} ELSE {}

\* The rows no route removes.
Lasting == PayrollRuns \cup Notices \cup Employees

Values(id, column) ==
    CASE column = "live" -> IF id \in Lasting THEN {TRUE} ELSE BOOLEAN
      [] column = "status" -> Statuses
      [] column = "company" -> Opt(Companies)
      [] column = "officeType" -> Opt(OfficeTypes)
      [] column = "parent" -> Opt(Departments)
      [] column = "branch" ->
             IF id \in Locations \cup Networks \cup Assignments THEN Branches ELSE Opt(Branches)
      [] column = "department" ->
             IF id \in Assignments THEN Departments ELSE Opt(Departments)

IsRow(id, row) ==
    /\ row = [column \in Fields(id) |-> row[column]]
    /\ \A column \in Fields(id) : row[column] \in Values(id, column)

\* An id is of one table.
LEMMA Apart ==
    ASSUME NEW id
    PROVE  /\ id \in Companies => id \notin OfficeTypes \cup Branches \cup Departments
                  \cup Locations \cup Networks \cup Offices \cup Assignments \cup Holidays
                  \cup PayrollRuns \cup Notices \cup Employees
           /\ id \in OfficeTypes => id \notin Branches \cup Departments \cup Locations
                  \cup Networks \cup Offices \cup Assignments \cup Holidays \cup PayrollRuns
                  \cup Notices \cup Employees
           /\ id \in Branches => id \notin Departments \cup Locations \cup Networks
                  \cup Offices \cup Assignments \cup Holidays \cup PayrollRuns \cup Notices
                  \cup Employees
           /\ id \in Departments => id \notin Locations \cup Networks \cup Offices
                  \cup Assignments \cup Holidays \cup PayrollRuns \cup Notices \cup Employees
           /\ id \in Locations => id \notin Networks \cup Offices \cup Assignments
                  \cup Holidays \cup PayrollRuns \cup Notices \cup Employees
           /\ id \in Networks => id \notin Offices \cup Assignments \cup Holidays
                  \cup PayrollRuns \cup Notices \cup Employees
           /\ id \in Offices => id \notin Assignments \cup Holidays \cup PayrollRuns
                  \cup Notices \cup Employees
           /\ id \in Assignments => id \notin Holidays \cup PayrollRuns \cup Notices
                  \cup Employees
           /\ id \in Holidays => id \notin PayrollRuns \cup Notices \cup Employees
           /\ id \in PayrollRuns => id \notin Notices \cup Employees
           /\ id \in Notices => id \notin Employees
<1>1. /\ DOMAIN Tables = 1..12
      /\ Tables[1] = Companies /\ Tables[2] = OfficeTypes /\ Tables[3] = Branches
      /\ Tables[4] = Departments /\ Tables[5] = Locations /\ Tables[6] = Networks
      /\ Tables[7] = Offices /\ Tables[8] = Assignments /\ Tables[9] = Holidays
      /\ Tables[10] = PayrollRuns /\ Tables[11] = Notices /\ Tables[12] = Employees
  BY DEF Tables
<1>2. \A i, j \in 1..12 : i # j /\ id \in Tables[i] => id \notin Tables[j]
  BY <1>1, OrganisationAssumption
<1>3. /\ id \in Companies => \A j \in 2..12 : id \notin Tables[j]
      /\ id \in OfficeTypes => \A j \in 3..12 : id \notin Tables[j]
      /\ id \in Branches => \A j \in 4..12 : id \notin Tables[j]
  BY <1>1, <1>2
<1>4. /\ id \in Departments => \A j \in 5..12 : id \notin Tables[j]
      /\ id \in Locations => \A j \in 6..12 : id \notin Tables[j]
      /\ id \in Networks => \A j \in 7..12 : id \notin Tables[j]
  BY <1>1, <1>2
<1>5. /\ id \in Offices => \A j \in 8..12 : id \notin Tables[j]
      /\ id \in Assignments => \A j \in 9..12 : id \notin Tables[j]
      /\ id \in Holidays => \A j \in 10..12 : id \notin Tables[j]
  BY <1>1, <1>2
<1>6. /\ id \in PayrollRuns => \A j \in 11..12 : id \notin Tables[j]
      /\ id \in Notices => \A j \in 12..12 : id \notin Tables[j]
  BY <1>1, <1>2
<1> QED BY <1>1, <1>3, <1>4, <1>5, <1>6

LEMMA IdTables ==
    Ids = Companies \cup OfficeTypes \cup Branches \cup Departments \cup Locations \cup Networks
              \cup Offices \cup Assignments \cup Holidays \cup PayrollRuns \cup Notices
              \cup Employees
<1>1. /\ DOMAIN Tables = 1..12
      /\ Tables[1] = Companies /\ Tables[2] = OfficeTypes /\ Tables[3] = Branches
      /\ Tables[4] = Departments /\ Tables[5] = Locations /\ Tables[6] = Networks
      /\ Tables[7] = Offices /\ Tables[8] = Assignments /\ Tables[9] = Holidays
      /\ Tables[10] = PayrollRuns /\ Tables[11] = Notices /\ Tables[12] = Employees
  BY DEF Tables
<1>2. ASSUME NEW id
      PROVE  id \in Ids <=> \E i \in 1..12 : id \in Tables[i]
  BY <1>1 DEF Ids
<1>3. \A i \in 1..12 : i = 1 \/ i = 2 \/ i = 3 \/ i = 4 \/ i = 5 \/ i = 6 \/ i = 7 \/ i = 8
                      \/ i = 9 \/ i = 10 \/ i = 11 \/ i = 12
  OBVIOUS
<1> QED BY <1>1, <1>2, <1>3

LEMMA RowType ==
    ASSUME NEW id, NEW row
    PROVE  /\ id \in Companies => (IsRow(id, row) <=> row \in Company)
           /\ id \in OfficeTypes => (IsRow(id, row) <=> row \in OfficeType)
           /\ id \in Branches => (IsRow(id, row) <=> row \in Branch)
           /\ id \in Departments => (IsRow(id, row) <=> row \in Department)
           /\ id \in Locations => (IsRow(id, row) <=> row \in BranchLocation)
           /\ id \in Networks => (IsRow(id, row) <=> row \in BranchNetwork)
           /\ id \in Offices => (IsRow(id, row) <=> row \in OfficeLocation)
           /\ id \in Assignments => (IsRow(id, row) <=> row \in BranchDepartment)
           /\ id \in Holidays => (IsRow(id, row) <=> row \in Holiday)
           /\ id \in PayrollRuns => (IsRow(id, row) <=> row \in PayrollRun)
           /\ id \in Notices => (IsRow(id, row) <=> row \in Notice)
           /\ id \in Employees => (IsRow(id, row) <=> row \in Employee)
<1>1. ASSUME id \in Companies PROVE IsRow(id, row) <=> row \in Company
  <2>1. Fields(id) = {"live"} /\ id \notin Lasting
    BY <1>1, Apart DEF Fields, References, Lasting
  <2> QED BY <2>1 DEF IsRow, Values, Company
<1>2. ASSUME id \in OfficeTypes PROVE IsRow(id, row) <=> row \in OfficeType
  <2>1. Fields(id) = {"live", "company"} /\ id \notin Lasting
    BY <1>2, Apart DEF Fields, References, Lasting
  <2> QED BY <2>1 DEF IsRow, Values, OfficeType
<1>3. ASSUME id \in Branches PROVE IsRow(id, row) <=> row \in Branch
  <2>1. Fields(id) = {"live", "company", "officeType"} /\ id \notin Lasting
    BY <1>3, Apart DEF Fields, References, Lasting
  <2> QED BY <2>1 DEF IsRow, Values, Branch
<1>4. ASSUME id \in Departments PROVE IsRow(id, row) <=> row \in Department
  <2>1. /\ Fields(id) = {"live", "company", "parent"}
        /\ id \notin Lasting
    BY <1>4, Apart DEF Fields, References, Lasting
  <2> QED BY <1>4, <2>1 DEF IsRow, Values, Department
<1>5. ASSUME id \in Locations PROVE IsRow(id, row) <=> row \in BranchLocation
  <2>1. /\ Fields(id) = {"live", "branch"}
        /\ id \notin Lasting
    BY <1>5, Apart DEF Fields, References, Lasting
  <2> QED BY <1>5, <2>1 DEF IsRow, Values, BranchLocation
<1>6. ASSUME id \in Networks PROVE IsRow(id, row) <=> row \in BranchNetwork
  <2>1. /\ Fields(id) = {"live", "branch"}
        /\ id \notin Lasting
    BY <1>6, Apart DEF Fields, References, Lasting
  <2> QED BY <1>6, <2>1 DEF IsRow, Values, BranchNetwork
<1>7. ASSUME id \in Offices PROVE IsRow(id, row) <=> row \in OfficeLocation
  <2>1. /\ Fields(id) = {"live", "branch"}
        /\ id \notin Lasting /\ id \notin Locations \cup Networks \cup Assignments
    BY <1>7, Apart DEF Fields, References, Lasting
  <2> QED BY <1>7, <2>1 DEF IsRow, Values, OfficeLocation
<1>8. ASSUME id \in Assignments PROVE IsRow(id, row) <=> row \in BranchDepartment
  <2>1. /\ Fields(id) = {"live", "branch", "department"}
        /\ id \notin Lasting
    BY <1>8, Apart DEF Fields, References, Lasting
  <2> QED BY <1>8, <2>1 DEF IsRow, Values, BranchDepartment
<1>9. ASSUME id \in Holidays PROVE IsRow(id, row) <=> row \in Holiday
  <2>1. /\ Fields(id) = {"live", "department"}
        /\ id \notin Lasting /\ id \notin Assignments
    BY <1>9, Apart DEF Fields, References, Lasting
  <2> QED BY <1>9, <2>1 DEF IsRow, Values, Holiday
<1>10. ASSUME id \in PayrollRuns PROVE IsRow(id, row) <=> row \in PayrollRun
  <2>1. /\ Fields(id) = {"live", "branch", "department"}
        /\ id \in Lasting /\ id \notin Locations \cup Networks \cup Assignments
    BY <1>10, Apart DEF Fields, References, Lasting
  <2> QED BY <1>10, <2>1 DEF IsRow, Values, PayrollRun
<1>11. ASSUME id \in Notices PROVE IsRow(id, row) <=> row \in Notice
  <2>1. /\ Fields(id) = {"live", "branch", "department"}
        /\ id \in Lasting /\ id \notin Locations \cup Networks \cup Assignments
    BY <1>11, Apart DEF Fields, References, Lasting
  <2> QED BY <1>11, <2>1 DEF IsRow, Values, Notice
<1>12. ASSUME id \in Employees PROVE IsRow(id, row) <=> row \in Employee
  <2>1. /\ Fields(id) = {"live", "branch", "department", "status"}
        /\ id \in Lasting /\ id \notin Locations \cup Networks \cup Assignments
    BY <1>12, Apart DEF Fields, References, Lasting
  <2> QED BY <1>12, <2>1 DEF IsRow, Values, Employee
<1> QED BY <1>1, <1>2, <1>3, <1>4, <1>5, <1>6, <1>7, <1>8, <1>9, <1>10, <1>11, <1>12

\* The tables hold rows of their own kind, whichever way it is said.
LEMMA Typing ==
    ASSUME NEW db
    PROVE  RowsTyped(db) <=> /\ DOMAIN db = Ids
                             /\ \A id \in Ids : db[id] = None \/ IsRow(id, db[id])
<1>1. ASSUME RowsTyped(db), NEW id \in Ids
      PROVE  db[id] = None \/ IsRow(id, db[id])
  BY <1>1, IdTables, RowType DEF RowsTyped, Opt
<1>2. ASSUME DOMAIN db = Ids, \A id \in Ids : db[id] = None \/ IsRow(id, db[id])
      PROVE  RowsTyped(db)
  BY <1>2, IdTables, RowType DEF RowsTyped, Opt
<1> QED BY <1>1, <1>2 DEF RowsTyped

\* A query joins no deleted row, and every table may be referred to by null.
LEMMA RowFacts ==
    ASSUME NEW id \in Ids, NEW row, IsRow(id, row)
    PROVE  /\ DOMAIN row = Fields(id)
           /\ Columns(row) = References(id)
           /\ row.live \in BOOLEAN
           /\ row # None
<1>1. /\ DOMAIN row = Fields(id)
      /\ "live" \in Fields(id) /\ row.live \in BOOLEAN
  BY DEF IsRow, Fields, Values
<1>2. Columns(row) = References(id)
  BY <1>1 DEF Columns, Fields, References
<1>3. row # None
  BY RowType, IdTables, OrganisationAssumption DEF BranchNetwork, BranchLocation, Notice, PayrollRun
<1> QED BY <1>1, <1>2, <1>3

LEMMA ReferenceValues ==
    ASSUME NEW id \in Ids, NEW column \in References(id)
    PROVE  /\ Values(id, column) \subseteq Opt(Ids)
           /\ column \in Fields(id)
           /\ column # "live" /\ column # "status"
<1>1. column \in {"company", "officeType", "parent", "branch", "department"}
  BY DEF References
<1> QED BY <1>1, IdTables DEF Values, Opt, Fields

LEMMA ReferencesFew ==
    ASSUME NEW id
    PROVE  \E a, b : References(id) \subseteq {a, b}
<1>1. \/ References(id) \subseteq {"company", "officeType"}
      \/ References(id) \subseteq {"company", "parent"}
      \/ References(id) \subseteq {"branch", "department"}
  BY DEF References
<1> QED BY <1>1

\* Who may refer to whom.
LEMMA Referrers ==
    ASSUME NEW x \in Ids, NEW row, IsRow(x, row), NEW y \in Ids, RefersTo(row, y)
    PROVE  \/ y \in Companies /\ x \in OfficeTypes \cup Branches \cup Departments
           \/ y \in OfficeTypes /\ x \in Branches
           \/ /\ y \in Branches
              /\ x \in Locations \cup Networks \cup Offices \cup Assignments \cup PayrollRuns
                        \cup Notices \cup Employees
           \/ /\ y \in Departments
              /\ x \in Departments \cup Assignments \cup Holidays \cup PayrollRuns \cup Notices
                        \cup Employees
<1>1. PICK column \in References(x) : row[column] = y
  BY RowFacts DEF RefersTo
<1>2. y \in Values(x, column) /\ y # None
  BY <1>1, ReferenceValues, OrganisationAssumption DEF IsRow
<1>3. CASE column = "company"
  <2>1. x \in OfficeTypes \cup Branches \cup Departments
    BY <1>1, <1>3 DEF References
  <2> QED BY <1>2, <1>3, <2>1 DEF Values, Opt
<1>4. CASE column = "officeType"
  <2>1. x \in Branches
    BY <1>1, <1>4 DEF References
  <2> QED BY <1>2, <1>4, <2>1 DEF Values, Opt
<1>5. CASE column = "parent"
  <2>1. x \in Departments
    BY <1>1, <1>5 DEF References
  <2> QED BY <1>2, <1>5, <2>1 DEF Values, Opt
<1>6. CASE column = "branch"
  <2>1. x \in Locations \cup Networks \cup Offices \cup Assignments \cup PayrollRuns
               \cup Notices \cup Employees
    BY <1>1, <1>6, IdTables DEF References
  <2> QED BY <1>2, <1>6, <2>1 DEF Values, Opt
<1>7. CASE column = "department"
  <2>1. x \in Assignments \cup Holidays \cup PayrollRuns \cup Notices \cup Employees
    BY <1>1, <1>7, IdTables DEF References
  <2> QED BY <1>2, <1>7, <2>1 DEF Values, Opt
<1> QED BY <1>1, <1>3, <1>4, <1>5, <1>6, <1>7 DEF References

-----------------------------------------------------------------------------
(***************************************************************************)
(* Tasks: what a handler holds at each of its stops                        *)
(***************************************************************************)
Parts == Locations \cup Networks \cup Assignments

\* The columns a copy may leave undefined.
MayBeLeft(id, column) == id \in Holidays \cup Employees /\ column \in References(id)

Drafts(id, column) == Values(id, column) \cup IF MayBeLeft(id, column) THEN {Same} ELSE {}

IsCopy(id, row) ==
    /\ row = [column \in Fields(id) |-> row[column]]
    /\ row["live"] = TRUE
    /\ \A column \in Fields(id) : row[column] \in Drafts(id, column)

Names(columns) == {columns[i] : i \in DOMAIN columns}

EntryToWrite ==
    [history : Histories, to : Ids \cup Statuses \cup {None}, find : Opt(Ids)]

EntriesTyped(id, entries) ==
    /\ entries \in Seq(EntryToWrite)
    /\ entries # <<>> => id \in Employees

Copies(t) ==
    /\ t.at \in {"find", "existing", "save"}
    /\ t = [at |-> t.at, id |-> t.id, row |-> t.row, todo |-> t.todo, entries |-> t.entries]
    /\ t.id \in Ids
    /\ IsCopy(t.id, t.row)
    /\ t.todo \in Seq(References(t.id))
    /\ \A column \in Names(t.todo) : t.row[column] \in Ids
    /\ (t.at = "find") <=> (t.todo # <<>>)
    /\ t.at = "existing" => t.id \in Assignments
    /\ EntriesTyped(t.id, t.entries)

FindsChild(t) ==
    /\ t.at = "child"
    /\ t = [at |-> "child", id |-> t.id, then |-> t.then]
    /\ t.id \in Parts
    /\ t.then \in {"save", "delete", "count"}
    /\ t.then = "save" => t.id \notin Assignments

Removes(t) ==
    /\ \/ t.at = "count" /\ t = [at |-> "count", id |-> t.id, todo |-> t.todo]
       \/ t.at = "delete" /\ t = [at |-> "delete", id |-> t.id]
    /\ t.id \in Ids \ Lasting

Records(t) ==
    /\ t.at = "history"
    /\ t = [at |-> "history", id |-> t.id, entries |-> t.entries]
    /\ t.id \in Employees
    /\ EntriesTyped(t.id, t.entries)
    /\ t.entries # <<>>

TaskTyped(t) == t = Idle \/ Copies(t) \/ FindsChild(t) \/ Removes(t) \/ Records(t)

Stored(id) == rows[id] = None \/ IsRow(id, rows[id])

Typed ==
    /\ DOMAIN rows = Ids
    /\ \A id \in Ids : Stored(id)
    /\ task = [h \in Handlers |-> task[h]]
    /\ \A h \in Handlers :
           /\ TaskTyped(task[h])
           /\ task[h].at \in {"count", "delete"} => rows[task[h].id] # None

Deleted(id) == rows[id] # None /\ ~rows[id].live

\* The rows whose references ought to keep the rows they name.
Referring == Ids \ (OfficeTypes \cup Notices)

\* Nothing the copy of t refers to is missing, but for what is still to be looked up.
Sound(t) ==
    /\ ~Deleted(t.id)
    /\ t.id \in Referring =>
           \A column \in References(t.id) \ Names(t.todo) :
               t.row[column] \in Ids => Live(t.row[column])

\* The tables of a removal that hold rows like x have been counted.
Counted(t, x) == t.at = "delete" \/ (t.at = "count" /\ \A table \in t.todo : x \notin table)

\* Who may still save a row, and who may still remove one.
Saving(t) == t.at \in {"find", "existing", "save"} \/ (t.at = "child" /\ t.then = "save")
Removing(t) == t.at \in {"count", "delete"} \/ (t.at = "child" /\ t.then # "save")

NewCopy(t) == Copies(t) /\ Sound(t)

NewRemoval(t) ==
    /\ Removes(t) /\ t.at = "count" /\ rows[t.id] # None
    /\ \A x \in Referring : \A row : IsRow(x, row) /\ RefersTo(row, t.id) => ~Counted(t, x)

Asked(t) == NewCopy(t) \/ NewRemoval(t) \/ FindsChild(t)

\* The row of an employee refers to rows that are there.
Intact(e) ==
    rows[e] # None => \A column \in References(e) : rows[e][column] \in Ids => Live(rows[e][column])

\* What a request about an employee will save, and the entries that are to tell of it: an entry
\* tells what the row will say, or of a removal; and where there is none, the row is not changed
\* (a profile update may change the status).
Announces(t) ==
    /\ t.id \in Employees
    /\ Intact(t.id) =>
           /\ \A entry \in Names(t.entries) :
                  /\ entry.find # None => Live(entry.find)
                  /\ entry.to \in {None, Written(t.id, t.row)[entry.history]}
           /\ \A k \in Histories :
                  \/ \E entry \in Names(t.entries) : entry.history = k
                  \/ Written(t.id, t.row)[k] = IF rows[t.id] = None THEN None ELSE rows[t.id][k]
                  \/ k = "status" /\ t.id \in edited'

EmployeeAsked(t) == NewCopy(t) /\ Announces(t)

\* What the routes of the organisation ask for is not about an employee.
OrgCopy(t) == NewCopy(t) /\ t.id \notin Employees
OrgAsked(t) == OrgCopy(t) \/ NewRemoval(t) \/ FindsChild(t)

-----------------------------------------------------------------------------
(***************************************************************************)
(* The columns to look up                                                  *)
(***************************************************************************)
LEMMA Pair ==
    ASSUME NEW a, NEW b
    PROVE  <<a>> \o <<b>> = <<a, b>>
<1>1. PICK p, q, r : p = <<a>> /\ q = <<b>> /\ r = <<a, b>>
  OBVIOUS
<1>2. /\ p \in Seq({a, b}) /\ q \in Seq({a, b}) /\ r \in Seq({a, b})
      /\ Len(p) = 1 /\ Len(q) = 1 /\ Len(r) = 2
      /\ p[1] = a /\ q[1] = b /\ r[1] = a /\ r[2] = b
  BY <1>1
<1>3. /\ p \o q \in Seq({a, b}) /\ Len(p \o q) = 2
      /\ \A i \in 1..2 : (p \o q)[i] = IF i <= 1 THEN p[i] ELSE q[i - 1]
  BY <1>2, ConcatProperties
<1>4. \A i \in 1..2 : (p \o q)[i] = r[i]
  BY <1>2, <1>3
<1> QED BY <1>1, <1>2, <1>3, <1>4, SeqEqual

LEMMA NamesOfShort ==
    ASSUME NEW a, NEW b
    PROVE  /\ Names(<<>>) = {} /\ Names(<<a>>) = {a} /\ Names(<<a, b>>) = {a, b}
           /\ <<>> \in Seq({a, b}) /\ <<a>> \in Seq({a, b}) /\ <<a, b>> \in Seq({a, b})
<1>1. Names(<<>>) = {}
  BY DEF Names
<1>2. Names(<<a>>) = {a}
  BY DEF Names
<1>3. Names(<<a, b>>) = {a, b}
  <2>1. DOMAIN <<a, b>> = {1, 2} /\ <<a, b>>[1] = a /\ <<a, b>>[2] = b
    OBVIOUS
  <2> QED BY <2>1 DEF Names
<1>4. <<>> \in Seq({a, b}) /\ <<a>> \in Seq({a, b}) /\ <<a, b>> \in Seq({a, b})
  OBVIOUS
<1> QED BY <1>1, <1>2, <1>3, <1>4

LEMMA GivenTwo ==
    ASSUME NEW dto, NEW a, NEW b
    PROVE  /\ Given(dto, <<a, b>>) \in Seq({a, b})
           /\ Names(Given(dto, <<a, b>>)) = {c \in Names(<<a, b>>) : dto[c] \notin {None, Same}}
           /\ Names(<<a, b>>) = {a, b}
<1>1. /\ Len(<<a, b>>) = 2 /\ <<a, b>>[1] = a /\ <<a, b>>[2] = b
  OBVIOUS
<1>2. Given(dto, <<a, b>>) =
          If(dto[a] \notin {None, Same}, a) \o If(dto[b] \notin {None, Same}, b)
  BY <1>1 DEF Given
<1>3. /\ <<>> \o <<>> = <<>> /\ <<a>> \o <<>> = <<a>> /\ <<>> \o <<b>> = <<b>>
  OBVIOUS
<1>4. CASE dto[a] \in {None, Same} /\ dto[b] \in {None, Same}
  <2>1. Given(dto, <<a, b>>) = <<>>
    BY <1>2, <1>3, <1>4 DEF If
  <2>2. {c \in {a, b} : dto[c] \notin {None, Same}} = {}
    BY <1>4
  <2>3. <<>> \in Seq({a, b}) /\ Names(<<>>) = {}
    BY NamesOfShort
  <2> QED BY <2>1, <2>2, <2>3, NamesOfShort
<1>5. CASE dto[a] \notin {None, Same} /\ dto[b] \in {None, Same}
  <2>1. Given(dto, <<a, b>>) = <<a>>
    BY <1>2, <1>3, <1>5 DEF If
  <2>2. {c \in {a, b} : dto[c] \notin {None, Same}} = {a}
    BY <1>5
  <2> QED BY <2>1, <2>2, NamesOfShort
<1>6. CASE dto[a] \in {None, Same} /\ dto[b] \notin {None, Same}
  <2>1. Given(dto, <<a, b>>) = <<b>>
    BY <1>2, <1>3, <1>6 DEF If
  <2>2. {c \in {a, b} : dto[c] \notin {None, Same}} = {b}
    BY <1>6
  <2>3. <<b>> \in Seq({b, a}) /\ Names(<<b>>) = {b}
    BY NamesOfShort
  <2>4. {b, a} = {a, b}
    OBVIOUS
  <2> QED BY <2>1, <2>2, <2>3, <2>4, NamesOfShort
<1>7. CASE dto[a] \notin {None, Same} /\ dto[b] \notin {None, Same}
  <2>1. Given(dto, <<a, b>>) = <<a, b>>
    BY <1>2, <1>7, Pair DEF If
  <2>2. {c \in {a, b} : dto[c] \notin {None, Same}} = {a, b}
    BY <1>7
  <2> QED BY <2>1, <2>2, NamesOfShort
<1> QED BY <1>4, <1>5, <1>6, <1>7

LEMMA GivenOne ==
    ASSUME NEW dto, NEW a
    PROVE  /\ Given(dto, <<a>>) \in Seq({a})
           /\ Names(Given(dto, <<a>>)) = {c \in Names(<<a>>) : dto[c] \notin {None, Same}}
           /\ Names(<<a>>) = {a}
<1>1. Len(<<a>>) = 1 /\ <<a>>[1] = a
  OBVIOUS
<1>2. Given(dto, <<a>>) = If(dto[a] \notin {None, Same}, a)
  BY <1>1 DEF Given
<1>3. <<>> \in Seq({a}) /\ <<a>> \in Seq({a})
  OBVIOUS
<1>4. CASE dto[a] \in {None, Same}
  <2>1. Given(dto, <<a>>) = <<>>
    BY <1>2, <1>4 DEF If
  <2> QED BY <1>3, <1>4, <2>1, NamesOfShort
<1>5. CASE dto[a] \notin {None, Same}
  <2>1. Given(dto, <<a>>) = <<a>>
    BY <1>2, <1>5 DEF If
  <2> QED BY <1>3, <1>5, <2>1, NamesOfShort
<1> QED BY <1>4, <1>5

LEMMA GivenNone ==
    ASSUME NEW dto, NEW S
    PROVE  /\ Given(dto, <<>>) \in Seq(S)
           /\ Names(Given(dto, <<>>)) = {c \in Names(<<>>) : dto[c] \notin {None, Same}}
           /\ Names(<<>>) = {}
<1>1. Given(dto, <<>>) = <<>>
  <2>1. Len(<<>>) = 0
    OBVIOUS
  <2> QED BY <2>1 DEF Given
<1>2. <<>> \in Seq(S)
  OBVIOUS
<1>3. Names(<<>>) = {}
  BY DEF Names
<1> QED BY <1>1, <1>2, <1>3

LEMMA NamesTail ==
    ASSUME NEW S, NEW todo \in Seq(S), todo # <<>>
    PROVE  /\ Head(todo) \in S /\ Tail(todo) \in Seq(S)
           /\ Names(todo) = {Head(todo)} \cup Names(Tail(todo))
<1>1. /\ Len(todo) \in Nat \ {0} /\ Head(todo) = todo[1] /\ Tail(todo) \in Seq(S)
      /\ DOMAIN todo = 1..Len(todo) /\ DOMAIN Tail(todo) = 1..(Len(todo) - 1)
      /\ \A i \in 1..(Len(todo) - 1) : Tail(todo)[i] = todo[i + 1]
  OBVIOUS
<1>2. ASSUME NEW i \in 1..Len(todo), i # 1
      PROVE  i - 1 \in 1..(Len(todo) - 1) /\ todo[i] = Tail(todo)[i - 1]
  BY <1>1, <1>2
<1>3. Names(todo) \subseteq {Head(todo)} \cup Names(Tail(todo))
  <2>1. ASSUME NEW i \in 1..Len(todo) PROVE todo[i] \in {Head(todo)} \cup Names(Tail(todo))
    BY <1>1, <1>2 DEF Names
  <2> QED BY <1>1, <2>1 DEF Names
<1>4. {Head(todo)} \cup Names(Tail(todo)) \subseteq Names(todo)
  <2>1. Head(todo) \in Names(todo)
    BY <1>1 DEF Names
  <2>2. ASSUME NEW i \in 1..(Len(todo) - 1) PROVE i + 1 \in 1..Len(todo)
    BY <1>1
  <2>3. Names(Tail(todo)) \subseteq Names(todo)
    BY <1>1, <2>2 DEF Names
  <2> QED BY <2>1, <2>3
<1>5. Head(todo) \in S
  BY <1>1
<1> QED BY <1>1, <1>3, <1>4, <1>5

-----------------------------------------------------------------------------
(***************************************************************************)
(* Copies                                                                  *)
(***************************************************************************)
LEMMA LiveValue ==
    ASSUME NEW id
    PROVE  /\ "live" \in Fields(id) /\ TRUE \in Values(id, "live")
           /\ Values(id, "live") \subseteq BOOLEAN
           /\ id \notin Lasting => Values(id, "live") = BOOLEAN
BY DEF Fields, Values

LEMMA RowIsCopy ==
    ASSUME NEW id, NEW row, IsRow(id, row), row["live"] = TRUE
    PROVE  IsCopy(id, row)
BY DEF IsRow, IsCopy, Drafts

LEMMA CopyFacts ==
    ASSUME NEW id \in Ids, NEW row, IsCopy(id, row)
    PROVE  /\ DOMAIN row = Fields(id)
           /\ Columns(row) = References(id)
           /\ row["live"] = TRUE
           /\ \A column \in References(id) : row[column] \in Ids \cup {None, Same}
<1>1. DOMAIN row = Fields(id)
  BY DEF IsCopy
<1>2. Columns(row) = References(id)
  BY <1>1 DEF Columns, Fields, References
<1>3. \A column \in References(id) : row[column] \in Ids \cup {None, Same}
  BY ReferenceValues DEF IsCopy, Drafts, Opt
<1> QED BY <1>1, <1>2, <1>3 DEF IsCopy

\* Where a column may be left undefined it may be null.
LEMMA NullAllowed ==
    ASSUME NEW id \in Ids \ Parts, NEW column \in References(id)
    PROVE  None \in Values(id, column)
<1>1. column \in {"company", "officeType", "parent", "branch", "department"}
  BY DEF References
<1> QED BY <1>1 DEF Values, Opt, Parts

LEMMA WrittenRow ==
    ASSUME NEW id \in Ids, NEW row, IsCopy(id, row), Stored(id)
    PROVE  /\ IsRow(id, Written(id, row))
           /\ Written(id, row).live = TRUE
           /\ \A column \in References(id) :
                  Written(id, row)[column] =
                      IF row[column] # Same THEN row[column]
                      ELSE IF rows[id] = None THEN None ELSE rows[id][column]
<1>1. /\ DOMAIN row = Fields(id) /\ References(id) \subseteq Fields(id)
      /\ row["live"] = TRUE /\ Same # TRUE
  BY CopyFacts, OrganisationAssumption DEF Fields
<1>2. Written(id, row) =
          [column \in Fields(id) |->
              IF row[column] # Same THEN row[column]
              ELSE IF rows[id] = None THEN None ELSE rows[id][column]]
  BY <1>1 DEF Written
<1>3. ASSUME NEW column \in Fields(id)
      PROVE  Written(id, row)[column] \in Values(id, column)
  <2>1. CASE row[column] # Same
    BY <1>2, <2>1 DEF IsCopy, Drafts
  <2>2. CASE row[column] = Same /\ row[column] \in Values(id, column)
    <3>1. column # "live" /\ column # "status" => column \in References(id)
      BY DEF Fields
    <3>2. Same \notin Values(id, column)
      BY <3>1, LiveValue, ReferenceValues, OrganisationAssumption DEF Values, Opt
    <3> QED BY <2>2, <3>2
  <2>3. CASE row[column] = Same /\ row[column] \notin Values(id, column)
    <3>1. MayBeLeft(id, column)
      BY <2>3 DEF IsCopy, Drafts
    <3>2. id \in Ids \ Parts /\ column \in References(id)
      BY <3>1, Apart DEF MayBeLeft, Parts
    <3>3. None \in Values(id, column)
      BY <3>2, NullAllowed
    <3>4. rows[id] # None => rows[id][column] \in Values(id, column)
      BY DEF Stored, IsRow
    <3> QED BY <1>2, <2>3, <3>3, <3>4
  <2> QED BY <2>1, <2>2, <2>3
<1>4. Written(id, row) = [column \in Fields(id) |-> Written(id, row)[column]]
  BY <1>2
<1>5. "live" \in Fields(id)
  BY DEF Fields
<1> QED BY <1>1, <1>2, <1>3, <1>4, <1>5 DEF IsRow

LEMMA BuildingCopies ==
    ASSUME NEW id \in Ids, NEW row, IsCopy(id, row), NEW todo \in Seq(References(id)),
           \A column \in Names(todo) : row[column] \in Ids,
           NEW entries, EntriesTyped(id, entries)
    PROVE  /\ Copies(Building(id, row, todo, entries))
           /\ Building(id, row, todo, entries).id = id
           /\ Building(id, row, todo, entries).row = row
           /\ Building(id, row, todo, entries).todo = todo
           /\ Building(id, row, todo, entries).entries = entries
<1> DEFINE t == Building(id, row, todo, entries)
<1>1. /\ t = [at |-> t.at, id |-> id, row |-> row, todo |-> todo, entries |-> entries]
      /\ t.id = id /\ t.row = row /\ t.todo = todo /\ t.entries = entries
      /\ t.at = IF todo # <<>> THEN "find" ELSE IF id \in Assignments THEN "existing" ELSE "save"
  BY DEF Building
<1> HIDE DEF t
<1>2. Copies(t)
  BY <1>1 DEF Copies
<1> QED BY <1>1, <1>2 DEF t

\* The first look-up of a request, or the next one of a copy.
LEMMA LookedUp ==
    ASSUME NEW t, Copies(t), t.todo # <<>>, Found(t)
    PROVE  /\ Copies(Looked(t)) /\ Looked(t).id = t.id
           /\ Looked(t).row = t.row /\ Looked(t).entries = t.entries
           /\ Looked(t).at \in {"find", "existing", "save"}
           /\ Sound(t) => Sound(Looked(t))
<1>1. /\ Head(t.todo) \in References(t.id) /\ Tail(t.todo) \in Seq(References(t.id))
      /\ Names(t.todo) = {Head(t.todo)} \cup Names(Tail(t.todo))
  BY NamesTail DEF Copies
<1>2. /\ Copies(Looked(t)) /\ Looked(t).id = t.id /\ Looked(t).row = t.row
      /\ Looked(t).todo = Tail(t.todo) /\ Looked(t).entries = t.entries
  <2>1. /\ t.id \in Ids /\ IsCopy(t.id, t.row) /\ EntriesTyped(t.id, t.entries)
        /\ \A column \in Names(Tail(t.todo)) : t.row[column] \in Ids
    BY <1>1 DEF Copies
  <2> QED BY <1>1, <2>1, BuildingCopies DEF Looked
<1>3. Live(t.row[Head(t.todo)])
  BY DEF Found
<1>4. Sound(t) => Sound(Looked(t))
  BY <1>1, <1>2, <1>3 DEF Sound
<1> QED BY <1>2, <1>4 DEF Copies

\* A row for the table, whose references are looked up but for those left out.
Creatable(table, row, columns, entries) ==
    \A id \in table : /\ IsRow(id, row) /\ row["live"] = TRUE
                      /\ Given(row, columns) \in Seq(References(id))
                      /\ Names(Given(row, columns)) =
                             {c \in Names(columns) : row[c] \notin {None, Same}}
                      /\ id \in Referring => References(id) \subseteq Names(columns)
                      /\ EntriesTyped(id, entries)

\* A create request, with the row it will save and the columns it looks up.
LEMMA CreateAsks ==
    ASSUME Typed, NEW h \in Handlers, NEW table \in SUBSET Ids, NEW row, NEW columns, NEW entries,
           CreateWith(h, table, row, columns, entries),
           Creatable(table, row, columns, entries)
    PROVE  \E t : /\ NewCopy(t) /\ Arrive(h, t)
                  /\ t.id \in table /\ rows[t.id] = None /\ t.row = row /\ t.entries = entries
<1> DEFINE id == NewId(table)
           todo == Given(row, columns)
           t == Building(id, row, todo, entries)
<1>0. \A x \in table : /\ IsRow(x, row) /\ row["live"] = TRUE
                       /\ Given(row, columns) \in Seq(References(x))
                       /\ Names(Given(row, columns)) =
                              {c \in Names(columns) : row[c] \notin {None, Same}}
                       /\ x \in Referring => References(x) \subseteq Names(columns)
                       /\ EntriesTyped(x, entries)
  BY DEF Creatable
<1>1. id \in table /\ rows[id] = None /\ id \in Ids
  BY DEF CreateWith, NewId, Fresh
<1>2. IsCopy(id, row) /\ IsRow(id, row)
  BY <1>0, <1>1, RowIsCopy
<1>3. todo \in Seq(References(id)) /\ Names(todo) \subseteq References(id)
  BY <1>0, <1>1 DEF Names
<1>4. \A column \in References(id) : row[column] \in Opt(Ids)
  BY <1>1, <1>2, ReferenceValues DEF IsRow
<1>5. /\ Copies(t) /\ t.id = id /\ t.row = row /\ t.todo = todo /\ t.entries = entries
  <2>1. \A column \in Names(todo) : row[column] \in Ids
    BY <1>0, <1>1, <1>3, <1>4 DEF Opt
  <2>2. EntriesTyped(id, entries)
    BY <1>0, <1>1
  <2> HIDE DEF id, todo
  <2> QED BY <1>1, <1>2, <1>3, <2>1, <2>2, BuildingCopies
<1>6. Sound(t)
  <2>1. ASSUME id \in Referring, NEW column \in References(id) \ Names(todo)
        PROVE  row[column] \notin Ids
    BY <1>0, <1>1, <2>1, OrganisationAssumption
  <2> QED BY <1>1, <1>5, <2>1 DEF Sound, Deleted
<1>7. \/ t.todo = <<>> /\ Arrive(h, t)
      \/ t.todo # <<>> /\ Found(t) /\ Arrive(h, Looked(t))
  BY DEF CreateWith
<1> HIDE DEF t, id
<1> QED BY <1>1, <1>5, <1>6, <1>7, LookedUp DEF NewCopy

-----------------------------------------------------------------------------
(***************************************************************************)
(* Requests: every route asks for a copy, a removal or a row under a branch *)
(***************************************************************************)
LEMMA ReferencesOf ==
    ASSUME NEW id
    PROVE  /\ id \in Companies => References(id) = {}
           /\ id \in OfficeTypes => References(id) = {"company"}
           /\ id \in Branches => References(id) = {"company", "officeType"}
           /\ id \in Departments => References(id) = {"company", "parent"}
           /\ id \in Locations \cup Networks \cup Offices => References(id) = {"branch"}
           /\ id \in Holidays => References(id) = {"department"}
           /\ id \in Assignments \cup PayrollRuns \cup Notices \cup Employees =>
                  References(id) = {"branch", "department"}
BY Apart DEF References

LEMMA LoadedRow ==
    ASSUME Typed, NEW id \in Ids \ Parts, Live(id)
    PROVE  /\ IsRow(id, Loaded(id)) /\ Loaded(id)["live"] = TRUE
           /\ \A column \in References(id) :
                  Loaded(id)[column] \in Ids => Live(Loaded(id)[column])
<1>1. IsRow(id, rows[id]) /\ rows[id]["live"] = TRUE
  BY RowFacts DEF Typed, Stored, Live
<1>2. /\ DOMAIN rows[id] = Fields(id) /\ Columns(rows[id]) = References(id)
      /\ References(id) \subseteq Fields(id) /\ "live" \notin References(id)
  BY <1>1, RowFacts, ReferenceValues
<1>3. Loaded(id) =
          [column \in Fields(id) |->
              IF column \in References(id) /\ rows[id][column] # None /\ ~Live(rows[id][column])
              THEN None ELSE rows[id][column]]
  BY <1>2 DEF Loaded
<1>4. ASSUME NEW column \in Fields(id) PROVE Loaded(id)[column] \in Values(id, column)
  BY <1>1, <1>3, NullAllowed DEF IsRow
<1>5. Loaded(id) = [column \in Fields(id) |-> Loaded(id)[column]]
  BY <1>3
<1>6. Loaded(id)["live"] = TRUE
  BY <1>1, <1>2, <1>3, LiveValue
<1>7. ASSUME NEW column \in References(id), Loaded(id)[column] \in Ids
      PROVE  Live(Loaded(id)[column])
  BY <1>2, <1>3, <1>7, OrganisationAssumption
<1> QED BY <1>4, <1>5, <1>6, <1>7 DEF IsRow

\* An update request: what the request names is looked up, the rest was loaded.
LEMMA UpdateAsks ==
    ASSUME Typed, NEW h \in Handlers, NEW id \in Ids \ Parts, NEW dto, NEW columns,
           Update(h, id, dto, columns),
           Given(dto, columns) \in Seq(References(id)),
           Names(Given(dto, columns)) = {c \in Names(columns) : dto[c] \notin {None, Same}},
           DOMAIN dto = Names(columns), Names(columns) \subseteq References(id),
           \A column \in DOMAIN dto : dto[column] \in Values(id, column) \cup {Same}
    PROVE  \E t : NewCopy(t) /\ Arrive(h, t) /\ t.id = id
<1> DEFINE row == Merged(Loaded(id), dto)
           todo == Given(dto, columns)
           t == Building(id, row, todo, <<>>)
<1>1. Live(id) /\ Arrive(h, t)
  BY DEF Update
<1>2. /\ IsRow(id, Loaded(id)) /\ Loaded(id)["live"] = TRUE
      /\ \A column \in References(id) :
             Loaded(id)[column] \in Ids => Live(Loaded(id)[column])
  BY <1>1, LoadedRow
<1>3. /\ DOMAIN Loaded(id) = Fields(id) /\ "live" \in Fields(id)
      /\ References(id) \subseteq Fields(id) /\ "live" \notin References(id)
  BY <1>2, LiveValue, ReferenceValues DEF IsRow
<1>4. row = [column \in Fields(id) |->
                IF column \in DOMAIN dto /\ dto[column] # Same THEN dto[column]
                ELSE Loaded(id)[column]]
  BY <1>3 DEF Merged
<1>5. IsRow(id, row) /\ row["live"] = TRUE
  <2>1. \A column \in Fields(id) : row[column] \in Values(id, column)
    BY <1>2, <1>4 DEF IsRow
  <2>2. row = [column \in Fields(id) |-> row[column]]
    BY <1>4
  <2>3. row["live"] = TRUE
    BY <1>2, <1>3, <1>4
  <2> QED BY <2>1, <2>2, <2>3 DEF IsRow
<1>6. \A column \in Names(todo) : row[column] \in Ids
  <2>1. ASSUME NEW column \in Names(todo) PROVE row[column] \in Ids
    <3>1. column \in References(id) /\ dto[column] \in Opt(Ids) /\ dto[column] \notin {None, Same}
      BY <2>1, ReferenceValues DEF Opt
    <3> QED BY <1>3, <1>4, <2>1, <3>1 DEF Opt
  <2> QED BY <2>1
<1>7. EntriesTyped(id, <<>>)
  BY DEF EntriesTyped
<1>8. Copies(t) /\ t.id = id /\ t.row = row /\ t.todo = todo
  <2>1. IsCopy(id, row) /\ todo \in Seq(References(id))
    BY <1>5, RowIsCopy
  <2> HIDE DEF row, todo
  <2> QED BY <1>6, <1>7, <2>1, BuildingCopies
<1>9. ASSUME NEW column \in References(id) \ Names(todo), row[column] \in Ids
      PROVE  Live(row[column])
  BY <1>2, <1>3, <1>4, <1>9, OrganisationAssumption
<1>10. Sound(t)
  BY <1>1, <1>8, <1>9 DEF Sound, Deleted, Live
<1> QED BY <1>1, <1>8, <1>10 DEF NewCopy

\* A remove request whose counts cover every table that may refer to the row.
LEMMA RemoveAsks ==
    ASSUME NEW h \in Handlers, NEW id \in Ids \ Lasting, NEW blockers, blockers # {},
           Remove(h, id, blockers),
           \A x \in Referring : \A row :
               IsRow(x, row) /\ RefersTo(row, id) => \E table \in blockers : x \in table
    PROVE  \E t : NewRemoval(t) /\ Arrive(h, t)
<1> DEFINE t == [at |-> "count", id |-> id, todo |-> blockers]
<1>1. Arrive(h, t)
  BY DEF Remove
<1>2. Removes(t) /\ t.at = "count" /\ rows[t.id] # None
  BY DEF Removes, Remove, Live
<1>3. ASSUME NEW x \in Referring, NEW row, IsRow(x, row), RefersTo(row, t.id)
      PROVE  ~Counted(t, x)
  BY <1>3 DEF Counted
<1> QED BY <1>1, <1>2, <1>3 DEF NewRemoval

LEMMA ChildAsks ==
    ASSUME NEW h \in Handlers, NEW id \in Parts, NEW then \in {"save", "delete", "count"},
           then = "save" => id \notin Assignments, UnderBranch(h, id, then)
    PROVE  \E t : FindsChild(t) /\ Arrive(h, t)
<1> DEFINE t == [at |-> "child", id |-> id, then |-> then]
<1>1. FindsChild(t)
  BY DEF FindsChild
<1>2. Arrive(h, t)
  BY DEF UnderBranch
<1> QED BY <1>1, <1>2

LEMMA NoEntries == \A id : EntriesTyped(id, <<>>)
BY DEF EntriesTyped

\* The rows of the other tables are no employees.
LEMMA NotEmployees ==
    \A id \in Companies \cup OfficeTypes \cup Branches \cup Departments \cup Locations
               \cup Networks \cup Offices \cup Assignments \cup Holidays \cup PayrollRuns
               \cup Notices : id \notin Employees
<1> SUFFICES ASSUME NEW id \in Companies \cup OfficeTypes \cup Branches \cup Departments
                               \cup Locations \cup Networks \cup Offices \cup Assignments
                               \cup Holidays \cup PayrollRuns \cup Notices
             PROVE  id \notin Employees
  OBVIOUS
<1> QED BY Apart

\* What the routes of the organisation create or update is no employee.
LEMMA OrgCreates ==
    ASSUME Typed, NEW h \in Handlers, NEW table \in SUBSET (Ids \ Employees), NEW row, NEW columns,
           Create(h, table, row, columns),
           \A id \in table : /\ IsRow(id, row) /\ row["live"] = TRUE
                             /\ Given(row, columns) \in Seq(References(id))
                             /\ Names(Given(row, columns)) =
                                    {c \in Names(columns) : row[c] \notin {None, Same}}
                             /\ id \in Referring => References(id) \subseteq Names(columns)
    PROVE  \E t : OrgCopy(t) /\ Arrive(h, t)
<1>1. CreateWith(h, table, row, columns, <<>>) /\ table \in SUBSET Ids
  BY DEF Create
<1>2. Creatable(table, row, columns, <<>>)
  BY NoEntries DEF Creatable
<1>3. \E t : NewCopy(t) /\ Arrive(h, t) /\ t.id \in table
  BY <1>1, <1>2, CreateAsks
<1> QED BY <1>3 DEF OrgCopy

LEMMA OrgUpdates ==
    ASSUME Typed, NEW h \in Handlers, NEW id \in Ids \ (Parts \cup Employees), NEW dto,
           NEW columns, Update(h, id, dto, columns),
           Given(dto, columns) \in Seq(References(id)),
           Names(Given(dto, columns)) = {c \in Names(columns) : dto[c] \notin {None, Same}},
           DOMAIN dto = Names(columns), Names(columns) \subseteq References(id),
           \A column \in DOMAIN dto : dto[column] \in Values(id, column) \cup {Same}
    PROVE  \E t : OrgCopy(t) /\ Arrive(h, t)
<1>1. \E t : NewCopy(t) /\ Arrive(h, t) /\ t.id = id
  BY UpdateAsks
<1> QED BY <1>1 DEF OrgCopy

LEMMA CompanyAsks ==
    ASSUME Typed, NEW h \in Handlers, CompanyRequest(h)
    PROVE  \E t : OrgAsked(t) /\ Arrive(h, t)
<1>1. ASSUME CreateCompany(h) PROVE \E t : OrgCopy(t) /\ Arrive(h, t)
  <2>1. ASSUME NEW id \in Companies
        PROVE  /\ IsRow(id, [live |-> TRUE]) /\ References(id) = {}
    BY <2>1, RowType, ReferencesOf DEF Company
  <2>2. Companies \in SUBSET (Ids \ Employees)
    BY IdTables, NotEmployees
  <2>3. ASSUME NEW id \in Companies
        PROVE  /\ Given([live |-> TRUE], <<>>) \in Seq(References(id))
               /\ References(id) \subseteq Names(<<>>)
    BY <2>1, GivenNone
  <2>4. Create(h, Companies, [live |-> TRUE], <<>>)
    BY <1>1 DEF CreateCompany
  <2> QED BY <2>1, <2>2, <2>3, <2>4, OrgCreates, GivenNone
<1>2. ASSUME NEW c \in Companies, UpdateCompany(h, c) PROVE \E t : OrgCopy(t) /\ Arrive(h, t)
  <2>1. c \in Ids \ (Parts \cup Employees) /\ References(c) = {} /\ DOMAIN <<>> = {}
    BY IdTables, NotEmployees, Apart, ReferencesOf DEF Parts
  <2>2. Given(<<>>, <<>>) \in Seq(References(c)) /\ Names(<<>>) = {}
    BY GivenNone
  <2> QED BY <1>2, <2>1, <2>2, OrgUpdates, GivenNone DEF UpdateCompany
<1>3. ASSUME NEW c \in Companies, RemoveCompany(h, c) PROVE \E t : NewRemoval(t) /\ Arrive(h, t)
  <2>1. c \in Ids \ Lasting
    BY IdTables, Apart DEF Lasting
  <2>2. ASSUME NEW x \in Referring, NEW row, IsRow(x, row), RefersTo(row, c)
        PROVE  x \in Branches \cup Departments
    BY <2>1, <2>2, Referrers, Apart DEF Referring
  <2> QED BY <1>3, <2>1, <2>2, RemoveAsks DEF RemoveCompany
<1> QED BY <1>1, <1>2, <1>3 DEF CompanyRequest, OrgAsked

LEMMA OfficeTypeAsks ==
    ASSUME Typed, NEW h \in Handlers, OfficeTypeRequest(h)
    PROVE  \E t : OrgAsked(t) /\ Arrive(h, t)
<1>1. ASSUME NEW dto \in CreateOfficeTypeDto, CreateOfficeType(h, dto)
      PROVE  \E t : OrgCopy(t) /\ Arrive(h, t)
  <2> DEFINE row == [live |-> TRUE, company |-> dto.company]
  <2>1. ASSUME NEW id \in OfficeTypes
        PROVE  IsRow(id, row) /\ row["live"] = TRUE /\ References(id) = {"company"}
    BY <1>1, <2>1, RowType, ReferencesOf DEF OfficeType, CreateOfficeTypeDto
  <2>2. OfficeTypes \in SUBSET (Ids \ Employees)
    BY IdTables, NotEmployees
  <2>3. Create(h, OfficeTypes, row, <<"company">>)
    BY <1>1 DEF CreateOfficeType
  <2> HIDE DEF row
  <2>4. /\ Given(row, <<"company">>) \in Seq({"company"})
        /\ Names(Given(row, <<"company">>)) =
               {c \in Names(<<"company">>) : row[c] \notin {None, Same}}
        /\ Names(<<"company">>) = {"company"}
    BY GivenOne
  <2> QED BY <2>1, <2>2, <2>3, <2>4, OrgCreates
<1>2. ASSUME NEW b \in OfficeTypes, NEW dto \in UpdateOfficeTypeDto, UpdateOfficeType(h, b, dto)
      PROVE  \E t : OrgCopy(t) /\ Arrive(h, t)
  <2>1. b \in Ids \ (Parts \cup Employees) /\ References(b) = {"company"}
    BY IdTables, NotEmployees, Apart, ReferencesOf DEF Parts
  <2>2. DOMAIN dto = {"company"} /\ Names(<<"company">>) = {"company"}
    BY GivenOne DEF UpdateOfficeTypeDto
  <2>3. \A column \in DOMAIN dto : dto[column] \in Values(b, column) \cup {Same}
    BY <2>2, Apart DEF UpdateOfficeTypeDto, Values, Opt
  <2> QED BY <1>2, <2>1, <2>2, <2>3, OrgUpdates, GivenOne DEF UpdateOfficeType
<1>3. ASSUME NEW b \in OfficeTypes, RemoveOfficeType(h, b)
      PROVE  \E t : NewRemoval(t) /\ Arrive(h, t)
  <2>1. b \in Ids \ Lasting
    BY IdTables, Apart DEF Lasting
  <2>2. ASSUME NEW x \in Referring, NEW row, IsRow(x, row), RefersTo(row, b)
        PROVE  \E table \in {Branches} : x \in table
    BY <2>1, <2>2, Referrers, Apart DEF Referring
  <2> QED BY <1>3, <2>1, <2>2, RemoveAsks DEF RemoveOfficeType
<1> QED BY <1>1, <1>2, <1>3 DEF OfficeTypeRequest, OrgAsked

LEMMA BranchAsks ==
    ASSUME Typed, NEW h \in Handlers, BranchRequest(h)
    PROVE  \E t : OrgAsked(t) /\ Arrive(h, t)
<1>1. ASSUME NEW dto \in CreateBranchDto, CreateBranch(h, dto)
      PROVE  \E t : OrgCopy(t) /\ Arrive(h, t)
  <2> DEFINE row == [live |-> TRUE, company |-> dto.company, officeType |-> dto.officeType]
  <2>1. ASSUME NEW id \in Branches
        PROVE  IsRow(id, row) /\ row["live"] = TRUE /\ References(id) = {"company", "officeType"}
    BY <1>1, <2>1, RowType, ReferencesOf DEF Branch, CreateBranchDto, Opt
  <2>2. Branches \in SUBSET (Ids \ Employees)
    BY IdTables, NotEmployees
  <2>3. Create(h, Branches, row, <<"company", "officeType">>)
    BY <1>1 DEF CreateBranch
  <2> HIDE DEF row
  <2>4. /\ Given(row, <<"company", "officeType">>) \in Seq({"company", "officeType"})
        /\ Names(Given(row, <<"company", "officeType">>)) =
               {c \in Names(<<"company", "officeType">>) : row[c] \notin {None, Same}}
        /\ Names(<<"company", "officeType">>) = {"company", "officeType"}
    BY GivenTwo
  <2> QED BY <2>1, <2>2, <2>3, <2>4, OrgCreates
<1>2. ASSUME NEW b \in Branches, NEW dto \in UpdateBranchDto, UpdateBranch(h, b, dto)
      PROVE  \E t : OrgCopy(t) /\ Arrive(h, t)
  <2>1. b \in Ids \ (Parts \cup Employees) /\ References(b) = {"company", "officeType"}
    BY IdTables, NotEmployees, Apart, ReferencesOf DEF Parts
  <2>2. /\ DOMAIN dto = {"company", "officeType"}
        /\ Names(<<"company", "officeType">>) = {"company", "officeType"}
    BY GivenTwo DEF UpdateBranchDto
  <2>3. \A column \in DOMAIN dto : dto[column] \in Values(b, column) \cup {Same}
    BY <2>2, Apart DEF UpdateBranchDto, Values, Opt
  <2>4. /\ Given(dto, <<"company", "officeType">>) \in Seq({"company", "officeType"})
        /\ Names(Given(dto, <<"company", "officeType">>)) =
               {c \in Names(<<"company", "officeType">>) : dto[c] \notin {None, Same}}
        /\ Names(<<"company", "officeType">>) = {"company", "officeType"}
    BY GivenTwo
  <2> QED BY <1>2, <2>1, <2>2, <2>3, <2>4, OrgUpdates DEF UpdateBranch
<1>3. ASSUME NEW b \in Branches, RemoveBranch(h, b)
      PROVE  \E t : NewRemoval(t) /\ Arrive(h, t)
  <2>1. b \in Ids \ Lasting
    BY IdTables, Apart DEF Lasting
  <2>2. ASSUME NEW x \in Referring, NEW row, IsRow(x, row), RefersTo(row, b)
        PROVE  \E table \in BranchBlockers : x \in table
    BY <2>1, <2>2, Referrers, Apart DEF Referring, BranchBlockers
  <2> QED BY <1>3, <2>1, <2>2, RemoveAsks DEF RemoveBranch, BranchBlockers
<1> QED BY <1>1, <1>2, <1>3 DEF BranchRequest, OrgAsked

LEMMA DepartmentAsks ==
    ASSUME Typed, NEW h \in Handlers, DepartmentRequest(h)
    PROVE  \E t : OrgAsked(t) /\ Arrive(h, t)
<1>1. ASSUME NEW dto \in CreateDepartmentDto, CreateDepartment(h, dto)
      PROVE  \E t : OrgCopy(t) /\ Arrive(h, t)
  <2> DEFINE row == [live |-> TRUE, company |-> dto.company, parent |-> dto.parent]
  <2>1. ASSUME NEW id \in Departments
        PROVE  IsRow(id, row) /\ row["live"] = TRUE /\ References(id) = {"company", "parent"}
    BY <1>1, <2>1, RowType, ReferencesOf DEF Department, CreateDepartmentDto, Opt
  <2>2. Departments \in SUBSET (Ids \ Employees)
    BY IdTables, NotEmployees
  <2>3. Create(h, Departments, row, <<"company", "parent">>)
    BY <1>1 DEF CreateDepartment
  <2> HIDE DEF row
  <2>4. /\ Given(row, <<"company", "parent">>) \in Seq({"company", "parent"})
        /\ Names(Given(row, <<"company", "parent">>)) =
               {c \in Names(<<"company", "parent">>) : row[c] \notin {None, Same}}
        /\ Names(<<"company", "parent">>) = {"company", "parent"}
    BY GivenTwo
  <2> QED BY <2>1, <2>2, <2>3, <2>4, OrgCreates
<1>2. ASSUME NEW d \in Departments, NEW dto \in UpdateDepartmentDto, UpdateDepartment(h, d, dto)
      PROVE  \E t : OrgCopy(t) /\ Arrive(h, t)
  <2>1. d \in Ids \ (Parts \cup Employees) /\ References(d) = {"company", "parent"}
    BY IdTables, NotEmployees, Apart, ReferencesOf DEF Parts
  <2>2. DOMAIN dto = {"company", "parent"} /\ Names(<<"company", "parent">>) = {"company", "parent"}
    BY GivenTwo DEF UpdateDepartmentDto
  <2>3. \A column \in DOMAIN dto : dto[column] \in Values(d, column) \cup {Same}
    BY <2>2, Apart DEF UpdateDepartmentDto, Values, Opt
  <2>4. /\ Given(dto, <<"company", "parent">>) \in Seq({"company", "parent"})
        /\ Names(Given(dto, <<"company", "parent">>)) =
               {c \in Names(<<"company", "parent">>) : dto[c] \notin {None, Same}}
        /\ Names(<<"company", "parent">>) = {"company", "parent"}
    BY GivenTwo
  <2> QED BY <1>2, <2>1, <2>2, <2>3, <2>4, OrgUpdates DEF UpdateDepartment
<1>3. ASSUME NEW d \in Departments, RemoveDepartment(h, d)
      PROVE  \E t : NewRemoval(t) /\ Arrive(h, t)
  <2>1. d \in Ids \ Lasting
    BY IdTables, Apart DEF Lasting
  <2>2. ASSUME NEW x \in Referring, NEW row, IsRow(x, row), RefersTo(row, d)
        PROVE  \E table \in DepartmentBlockers : x \in table
    BY <2>1, <2>2, Referrers, Apart DEF Referring, DepartmentBlockers
  <2> QED BY <1>3, <2>1, <2>2, RemoveAsks DEF RemoveDepartment, DepartmentBlockers
<1> QED BY <1>1, <1>2, <1>3 DEF DepartmentRequest, OrgAsked

LEMMA BranchPartAsks ==
    ASSUME Typed, NEW h \in Handlers, BranchPartRequest(h)
    PROVE  \E t : OrgAsked(t) /\ Arrive(h, t)
<1>1. ASSUME NEW b \in Branches, CreateLocation(h, b)
      PROVE  \E t : OrgCopy(t) /\ Arrive(h, t)
  <2> DEFINE row == [live |-> TRUE, branch |-> b]
  <2>1. ASSUME NEW id \in Locations
        PROVE  IsRow(id, row) /\ row["live"] = TRUE /\ References(id) = {"branch"}
    BY <1>1, <2>1, RowType, ReferencesOf DEF BranchLocation
  <2>2. Locations \in SUBSET (Ids \ Employees)
    BY IdTables, NotEmployees
  <2>3. Create(h, Locations, row, <<"branch">>)
    BY <1>1 DEF CreateLocation
  <2> HIDE DEF row
  <2>4. /\ Given(row, <<"branch">>) \in Seq({"branch"})
        /\ Names(Given(row, <<"branch">>)) =
               {c \in Names(<<"branch">>) : row[c] \notin {None, Same}}
        /\ Names(<<"branch">>) = {"branch"}
    BY GivenOne
  <2> QED BY <2>1, <2>2, <2>3, <2>4, OrgCreates
<1>2. ASSUME NEW b \in Branches, CreateNetwork(h, b)
      PROVE  \E t : OrgCopy(t) /\ Arrive(h, t)
  <2> DEFINE row == [live |-> TRUE, branch |-> b]
  <2>1. ASSUME NEW id \in Networks
        PROVE  IsRow(id, row) /\ row["live"] = TRUE /\ References(id) = {"branch"}
    BY <1>2, <2>1, RowType, ReferencesOf DEF BranchNetwork
  <2>2. Networks \in SUBSET (Ids \ Employees)
    BY IdTables, NotEmployees
  <2>3. Create(h, Networks, row, <<"branch">>)
    BY <1>2 DEF CreateNetwork
  <2> HIDE DEF row
  <2>4. /\ Given(row, <<"branch">>) \in Seq({"branch"})
        /\ Names(Given(row, <<"branch">>)) =
               {c \in Names(<<"branch">>) : row[c] \notin {None, Same}}
        /\ Names(<<"branch">>) = {"branch"}
    BY GivenOne
  <2> QED BY <2>1, <2>2, <2>3, <2>4, OrgCreates
<1>3. ASSUME NEW b \in Branches, NEW d \in Departments, AssignDepartment(h, b, d)
      PROVE  \E t : OrgCopy(t) /\ Arrive(h, t)
  <2> DEFINE row == [live |-> TRUE, branch |-> b, department |-> d]
  <2>1. ASSUME NEW id \in Assignments
        PROVE  IsRow(id, row) /\ row["live"] = TRUE /\ References(id) = {"branch", "department"}
    BY <1>3, <2>1, RowType, ReferencesOf DEF BranchDepartment
  <2>2. Assignments \in SUBSET (Ids \ Employees)
    BY IdTables, NotEmployees
  <2>3. Create(h, Assignments, row, <<"branch", "department">>)
    BY <1>3 DEF AssignDepartment
  <2> HIDE DEF row
  <2>4. /\ Given(row, <<"branch", "department">>) \in Seq({"branch", "department"})
        /\ Names(Given(row, <<"branch", "department">>)) =
               {c \in Names(<<"branch", "department">>) : row[c] \notin {None, Same}}
        /\ Names(<<"branch", "department">>) = {"branch", "department"}
    BY GivenTwo
  <2> QED BY <2>1, <2>2, <2>3, <2>4, OrgCreates
<1>4. ASSUME NEW id \in Locations, UpdateLocation(h, id) \/ RemoveLocation(h, id)
      PROVE  \E t : FindsChild(t) /\ Arrive(h, t)
  BY <1>4, ChildAsks, Apart DEF UpdateLocation, RemoveLocation, Parts
<1>5. ASSUME NEW id \in Networks, UpdateNetwork(h, id) \/ RemoveNetwork(h, id)
      PROVE  \E t : FindsChild(t) /\ Arrive(h, t)
  BY <1>5, ChildAsks, Apart DEF UpdateNetwork, RemoveNetwork, Parts
<1>6. ASSUME NEW a \in Assignments, RemoveDepartmentAssignment(h, a)
      PROVE  \E t : FindsChild(t) /\ Arrive(h, t)
  BY <1>6, ChildAsks DEF RemoveDepartmentAssignment, Parts
<1> QED BY <1>1, <1>2, <1>3, <1>4, <1>5, <1>6 DEF BranchPartRequest, OrgAsked

LEMMA OfficeAsks ==
    ASSUME Typed, NEW h \in Handlers, OfficeRequest(h)
    PROVE  \E t : OrgAsked(t) /\ Arrive(h, t)
<1>1. ASSUME NEW dto \in CreateOfficeLocationDto, CreateOffice(h, dto)
      PROVE  \E t : OrgCopy(t) /\ Arrive(h, t)
  <2> DEFINE row == [live |-> TRUE, branch |-> dto.branch]
  <2>1. ASSUME NEW id \in Offices
        PROVE  IsRow(id, row) /\ row["live"] = TRUE /\ References(id) = {"branch"}
    BY <1>1, <2>1, RowType, ReferencesOf DEF OfficeLocation, CreateOfficeLocationDto
  <2>2. Offices \in SUBSET (Ids \ Employees)
    BY IdTables, NotEmployees
  <2>3. Create(h, Offices, row, <<"branch">>)
    BY <1>1 DEF CreateOffice
  <2> HIDE DEF row
  <2>4. /\ Given(row, <<"branch">>) \in Seq({"branch"})
        /\ Names(Given(row, <<"branch">>)) =
               {c \in Names(<<"branch">>) : row[c] \notin {None, Same}}
        /\ Names(<<"branch">>) = {"branch"}
    BY GivenOne
  <2> QED BY <2>1, <2>2, <2>3, <2>4, OrgCreates
<1>2. ASSUME NEW o \in Offices, NEW dto \in UpdateOfficeLocationDto, UpdateOffice(h, o, dto)
      PROVE  \E t : OrgCopy(t) /\ Arrive(h, t)
  <2>1. o \in Ids \ (Parts \cup Employees) /\ References(o) = {"branch"}
    BY IdTables, NotEmployees, Apart, ReferencesOf DEF Parts
  <2>2. DOMAIN dto = {"branch"} /\ Names(<<"branch">>) = {"branch"}
    BY GivenOne DEF UpdateOfficeLocationDto
  <2>3. \A column \in DOMAIN dto : dto[column] \in Values(o, column) \cup {Same}
    BY <2>2, Apart DEF UpdateOfficeLocationDto, Values, Opt
  <2> QED BY <1>2, <2>1, <2>2, <2>3, OrgUpdates, GivenOne DEF UpdateOffice
<1>3. ASSUME NEW o \in Offices, RemoveOfficeOrHoliday(h, o)
      PROVE  \E t : NewRemoval(t) /\ Arrive(h, t)
  <2>1. o \in Ids \ Lasting
    BY IdTables, Apart DEF Lasting
  <2>2. ASSUME NEW x \in Referring, NEW row, IsRow(x, row), RefersTo(row, o)
        PROVE  \E table \in {Attendance} : x \in table
    BY <2>1, <2>2, Referrers, Apart DEF Referring
  <2> QED BY <1>3, <2>1, <2>2, RemoveAsks DEF RemoveOfficeOrHoliday
<1> QED BY <1>1, <1>2, <1>3 DEF OfficeRequest, OrgAsked

LEMMA HolidayAsks ==
    ASSUME Typed, NEW h \in Handlers, HolidayRequest(h)
    PROVE  \E t : OrgAsked(t) /\ Arrive(h, t)
<1>1. ASSUME NEW dto \in CreateHolidayDto, CreateHoliday(h, dto)
      PROVE  \E t : OrgCopy(t) /\ Arrive(h, t)
  <2> DEFINE row == [live |-> TRUE, department |-> dto.department]
  <2>1. ASSUME NEW id \in Holidays
        PROVE  IsRow(id, row) /\ row["live"] = TRUE /\ References(id) = {"department"}
    BY <1>1, <2>1, RowType, ReferencesOf DEF Holiday, CreateHolidayDto
  <2>2. Holidays \in SUBSET (Ids \ Employees)
    BY IdTables, NotEmployees
  <2>3. Create(h, Holidays, row, <<"department">>)
    BY <1>1 DEF CreateHoliday
  <2> HIDE DEF row
  <2>4. /\ Given(row, <<"department">>) \in Seq({"department"})
        /\ Names(Given(row, <<"department">>)) =
               {c \in Names(<<"department">>) : row[c] \notin {None, Same}}
        /\ Names(<<"department">>) = {"department"}
    BY GivenOne
  <2> QED BY <2>1, <2>2, <2>3, <2>4, OrgCreates
<1>2. ASSUME NEW y \in Holidays, NEW dto \in UpdateHolidayDto, UpdateHoliday(h, y, dto)
      PROVE  \E t : OrgCopy(t) /\ Arrive(h, t)
  <2>1. /\ y \in Ids /\ References(y) = {"department"} /\ Fields(y) = {"live", "department"}
        /\ y \notin Assignments /\ y \notin Lasting /\ y \notin Parts
    BY IdTables, ReferencesOf, Apart DEF Fields, Lasting, Parts
  <2>2. PICK own \in {Same, Loaded(y).department} \ {None} :
            LET row == [live |-> TRUE,
                        department |-> IF dto.department = Same THEN own ELSE dto.department]
            IN  Arrive(h, Building(y, row, Given(row, <<"department">>), <<>>))
    BY <1>2 DEF UpdateHoliday
  <2> DEFINE row == [live |-> TRUE,
                     department |-> IF dto.department = Same THEN own ELSE dto.department]
             todo == Given(row, <<"department">>)
             t == Building(y, row, todo, <<>>)
  <2>3. Live(y) /\ Arrive(h, t)
    BY <1>2, <2>2 DEF UpdateHoliday
  <2>4. Loaded(y).department \in Opt(Departments)
    <3>1. IsRow(y, Loaded(y))
      BY <2>1, <2>3, LoadedRow
    <3> QED BY <3>1, RowType DEF Holiday
  <2>5. row.department \in Departments \cup {Same}
    BY <2>4 DEF UpdateHolidayDto, Opt
  <2>6. IsCopy(y, row)
    BY <2>1, <2>5 DEF IsCopy, Drafts, MayBeLeft, Values, Opt
  <2>7. /\ todo \in Seq(References(y))
        /\ \A column \in Names(todo) : row[column] \in Ids
        /\ \A column \in References(y) \ Names(todo) : row[column] \notin Ids
    <3> HIDE DEF row
    <3>1. /\ todo \in Seq({"department"})
          /\ Names(todo) = {c \in Names(<<"department">>) : row[c] \notin {None, Same}}
          /\ Names(<<"department">>) = {"department"}
      BY GivenOne
    <3> HIDE DEF todo
    <3> QED BY <2>1, <2>5, <3>1, IdTables, OrganisationAssumption
  <2>8. Copies(t) /\ t.id = y /\ t.row = row /\ t.todo = todo
    <3> HIDE DEF row, todo
    <3> QED BY <2>1, <2>6, <2>7, NoEntries, BuildingCopies
  <2>9. Sound(t)
    BY <2>7, <2>3, <2>8 DEF Sound, Deleted, Live
  <2> QED BY <2>3, <2>8, <2>9, NotEmployees DEF NewCopy, OrgCopy
<1>3. ASSUME NEW y \in Holidays, RemoveOfficeOrHoliday(h, y)
      PROVE  \E t : NewRemoval(t) /\ Arrive(h, t)
  <2>1. y \in Ids \ Lasting
    BY IdTables, Apart DEF Lasting
  <2>2. ASSUME NEW x \in Referring, NEW row, IsRow(x, row), RefersTo(row, y)
        PROVE  \E table \in {Attendance} : x \in table
    BY <2>1, <2>2, Referrers, Apart DEF Referring
  <2> QED BY <1>3, <2>1, <2>2, RemoveAsks DEF RemoveOfficeOrHoliday
<1> QED BY <1>1, <1>2, <1>3 DEF HolidayRequest, OrgAsked

LEMMA OrgAsks ==
    ASSUME Typed, NEW h \in Handlers, OrgRequest(h)
    PROVE  \E t : OrgAsked(t) /\ Arrive(h, t)
<1>1. ASSUME NEW dto \in CreatePayrollRunDto, CreatePayrollRun(h, dto)
      PROVE  \E t : OrgCopy(t) /\ Arrive(h, t)
  <2> DEFINE row == [live |-> TRUE, branch |-> dto.branch, department |-> dto.department]
  <2>1. ASSUME NEW id \in PayrollRuns
        PROVE  IsRow(id, row) /\ row["live"] = TRUE /\ References(id) = {"branch", "department"}
    BY <1>1, <2>1, RowType, ReferencesOf DEF PayrollRun, CreatePayrollRunDto
  <2>2. PayrollRuns \in SUBSET (Ids \ Employees)
    BY IdTables, NotEmployees
  <2>3. Create(h, PayrollRuns, row, <<"branch", "department">>)
    BY <1>1 DEF CreatePayrollRun
  <2> HIDE DEF row
  <2>4. /\ Given(row, <<"branch", "department">>) \in Seq({"branch", "department"})
        /\ Names(Given(row, <<"branch", "department">>)) =
               {c \in Names(<<"branch", "department">>) : row[c] \notin {None, Same}}
        /\ Names(<<"branch", "department">>) = {"branch", "department"}
    BY GivenTwo
  <2> QED BY <2>1, <2>2, <2>3, <2>4, OrgCreates
<1>2. ASSUME NEW dto \in CreateNoticeDto, CreateNotice(h, dto)
      PROVE  \E t : OrgCopy(t) /\ Arrive(h, t)
  <2> DEFINE row == [live |-> TRUE, branch |-> dto.branch, department |-> dto.department]
  <2>1. ASSUME NEW id \in Notices
        PROVE  IsRow(id, row) /\ row["live"] = TRUE /\ id \notin Referring
    BY <1>2, <2>1, RowType DEF Notice, CreateNoticeDto, Referring
  <2>2. Notices \in SUBSET (Ids \ Employees)
    BY IdTables, NotEmployees
  <2>3. Create(h, Notices, row, <<>>)
    BY <1>2 DEF CreateNotice
  <2>4. \A id \in Notices : Given(row, <<>>) \in Seq(References(id))
    BY GivenNone
  <2> HIDE DEF row
  <2> QED BY <2>1, <2>2, <2>3, <2>4, OrgCreates, GivenNone
<1> QED BY <1>1, <1>2, CompanyAsks, OfficeTypeAsks, BranchAsks, BranchPartAsks, DepartmentAsks,
           OfficeAsks, HolidayAsks DEF OrgRequest, OrgAsked

LEMMA IfTyped ==
    ASSUME NEW S, NEW condition, NEW item, condition => item \in S
    PROVE  If(condition, item) \in Seq(S)
<1>1. CASE condition
  <2>1. If(condition, item) = <<item>> /\ item \in S
    BY <1>1 DEF If
  <2>2. <<item>> \in Seq(S)
    BY <2>1
  <2> QED BY <2>1, <2>2
<1>2. CASE ~condition
  <2>1. If(condition, item) = <<>>
    BY <1>2 DEF If
  <2> QED BY <2>1
<1> QED BY <1>1, <1>2

LEMMA EmployeeFacts ==
    ASSUME NEW e \in Employees
    PROVE  /\ e \in Ids \ Parts /\ e \in Lasting /\ e \in Referring
           /\ References(e) = {"branch", "department"}
           /\ Fields(e) = {"live", "branch", "department", "status"}
           /\ Values(e, "branch") = Opt(Branches) /\ Values(e, "department") = Opt(Departments)
           /\ Values(e, "status") = Statuses /\ Values(e, "live") = {TRUE}
           /\ Branches \subseteq Ids /\ Departments \subseteq Ids
           /\ Drafts(e, "branch") = Opt(Branches) \cup {Same}
           /\ Drafts(e, "department") = Opt(Departments) \cup {Same}
           /\ Drafts(e, "status") = Statuses /\ Drafts(e, "live") = {TRUE}
<1>1. /\ e \in Ids \ Parts /\ e \in Lasting /\ e \in Referring
      /\ Branches \subseteq Ids /\ Departments \subseteq Ids
  BY IdTables, Apart DEF Parts, Lasting, Referring
<1>2. References(e) = {"branch", "department"}
  BY ReferencesOf
<1>3. /\ Fields(e) = {"live", "branch", "department", "status"}
      /\ Values(e, "branch") = Opt(Branches) /\ Values(e, "department") = Opt(Departments)
      /\ Values(e, "status") = Statuses /\ Values(e, "live") = {TRUE}
  BY <1>1, <1>2 DEF Fields, Values, Parts
<1> QED BY <1>1, <1>2, <1>3 DEF Drafts, MayBeLeft

LEMMA NamesOfIf ==
    ASSUME NEW condition, NEW item
    PROVE  Names(If(condition, item)) = IF condition THEN {item} ELSE {}
BY NamesOfShort DEF If

LEMMA NamesOfConcat ==
    ASSUME NEW S, NEW p \in Seq(S), NEW q \in Seq(S)
    PROVE  Names(p \o q) = Names(p) \cup Names(q)
<1>1. /\ p \o q \in Seq(S) /\ Len(p \o q) = Len(p) + Len(q)
      /\ \A i \in 1 .. Len(p) + Len(q) : (p \o q)[i] = IF i <= Len(p) THEN p[i] ELSE q[i - Len(p)]
      /\ Len(p) \in Nat /\ Len(q) \in Nat
      /\ DOMAIN p = 1..Len(p) /\ DOMAIN q = 1..Len(q)
  BY ConcatProperties
<1>2. DOMAIN (p \o q) = 1 .. Len(p) + Len(q)
  BY <1>1
<1>3. ASSUME NEW x \in Names(p \o q) PROVE x \in Names(p) \cup Names(q)
  <2>1. PICK i \in 1 .. Len(p) + Len(q) : (p \o q)[i] = x
    BY <1>2, <1>3 DEF Names
  <2>2. CASE i <= Len(p)
    BY <1>1, <2>1, <2>2 DEF Names
  <2>3. CASE ~(i <= Len(p))
    <3>1. i - Len(p) \in 1..Len(q) /\ x = q[i - Len(p)]
      BY <1>1, <2>1, <2>3
    <3> QED BY <1>1, <3>1 DEF Names
  <2> QED BY <2>2, <2>3
<1>4. ASSUME NEW x \in Names(p) PROVE x \in Names(p \o q)
  <2>1. PICK i \in 1..Len(p) : p[i] = x
    BY <1>1, <1>4 DEF Names
  <2>2. i \in 1 .. Len(p) + Len(q) /\ (p \o q)[i] = x
    BY <1>1, <2>1
  <2> QED BY <1>2, <2>2 DEF Names
<1>5. ASSUME NEW x \in Names(q) PROVE x \in Names(p \o q)
  <2>1. PICK i \in 1..Len(q) : q[i] = x
    BY <1>1, <1>5 DEF Names
  <2>2. i + Len(p) \in 1 .. Len(p) + Len(q) /\ (p \o q)[i + Len(p)] = x
    BY <1>1, <2>1
  <2> QED BY <1>2, <2>2 DEF Names
<1> QED BY <1>3, <1>4, <1>5

\* What a copy holds once it is saved.
LEMMA WrittenColumn ==
    ASSUME NEW e, NEW row, DOMAIN row = Fields(e), NEW column \in Fields(e)
    PROVE  Written(e, row)[column] =
               IF row[column] # Same THEN row[column]
               ELSE IF rows[e] = None THEN None ELSE rows[e][column]
BY DEF Written

\* Of an intact row a query drops no reference.
LEMMA LoadedIntact ==
    ASSUME Typed, NEW e \in Employees, Live(e), Intact(e)
    PROVE  Loaded(e) = rows[e]
<1>1. e \in Ids /\ IsRow(e, rows[e])
  BY IdTables DEF Typed, Stored, Live
<1>2. /\ DOMAIN rows[e] = Fields(e) /\ Columns(rows[e]) = References(e)
      /\ rows[e] = [column \in Fields(e) |-> rows[e][column]]
  BY <1>1, RowFacts DEF IsRow
<1>3. ASSUME NEW column \in Columns(rows[e]), rows[e][column] # None
      PROVE  Live(rows[e][column])
  <2>1. rows[e][column] \in Opt(Ids)
    BY <1>1, <1>2, <1>3, ReferenceValues DEF IsRow
  <2> QED BY <1>2, <1>3, <2>1 DEF Intact, Live, Opt
<1> QED BY <1>2, <1>3 DEF Loaded

LEMMA CreateEmployeeAsks ==
    ASSUME Typed, NEW h \in Handlers, NEW dto \in CreateEmployeeDto, CreateEmployee(h, dto)
    PROVE  /\ \E t : EmployeeAsked(t) /\ Arrive(h, t)
           /\ UNCHANGED <<latest, failures, edited>>
<1> DEFINE row == [live |-> TRUE, department |-> dto.department, branch |-> dto.branch,
                   status |-> dto.status]
           assigned(k) == If(dto[k] # None, Writing(k, dto[k], None))
           entries == assigned("department") \o assigned("branch")
                          \o <<Writing("status", dto.status, None)>>
           columns == <<"department", "branch">>
<1>1. CreateWith(h, Employees, row, columns, entries) /\ UNCHANGED <<latest, failures, edited>>
  BY DEF CreateEmployee
<1>2. /\ dto.department \in Opt(Departments) /\ dto.branch \in Opt(Branches)
      /\ dto.status \in Statuses
      /\ dto["department"] = dto.department /\ dto["branch"] = dto.branch
  BY DEF CreateEmployeeDto
<1>3. ASSUME NEW e \in Employees
      PROVE  IsRow(e, row) /\ row["live"] = TRUE /\ References(e) = {"department", "branch"}
  <2>1. row = [column \in {"live", "branch", "department", "status"} |-> row[column]]
    OBVIOUS
  <2>2. /\ row["live"] = TRUE /\ row["branch"] \in Opt(Branches)
        /\ row["department"] \in Opt(Departments) /\ row["status"] \in Statuses
    BY <1>2
  <2>3. References(e) = {"department", "branch"}
    BY <1>3, EmployeeFacts
  <2> HIDE DEF row
  <2>4. /\ Fields(e) = {"live", "branch", "department", "status"}
        /\ Values(e, "branch") = Opt(Branches) /\ Values(e, "department") = Opt(Departments)
        /\ Values(e, "status") = Statuses /\ Values(e, "live") = {TRUE}
    BY <1>3, EmployeeFacts
  <2>5. row = [column \in Fields(e) |-> row[column]]
    BY <2>1, <2>4
  <2>6. \A column \in Fields(e) : row[column] \in Values(e, column)
    BY <2>2, <2>4
  <2> QED BY <2>2, <2>3, <2>5, <2>6 DEF IsRow
<1>4. entries \in Seq(EntryToWrite)
  <2>1. /\ dto.department \in Opt(Ids) /\ dto.branch \in Opt(Ids)
    BY <1>2, IdTables DEF Opt
  <2>2. /\ assigned("department") \in Seq(EntryToWrite)
        /\ assigned("branch") \in Seq(EntryToWrite)
    BY <1>2, <2>1, IfTyped DEF EntryToWrite, Writing, Histories, Opt
  <2>3. <<Writing("status", dto.status, None)>> \in Seq(EntryToWrite)
    BY <1>2 DEF EntryToWrite, Writing, Histories, Opt
  <2> HIDE DEF assigned
  <2> QED BY <2>2, <2>3, ConcatProperties
<1>5. \A e \in Employees : EntriesTyped(e, entries)
  BY <1>4 DEF EntriesTyped
<1> HIDE DEF row, entries
<1>6. /\ Given(row, columns) \in Seq({"department", "branch"})
      /\ Names(Given(row, columns)) = {c \in Names(columns) : row[c] \notin {None, Same}}
      /\ Names(columns) = {"department", "branch"}
  BY GivenTwo
<1>7. Employees \in SUBSET Ids
  BY IdTables
<1>8. Names(entries) =
          (IF dto.department # None THEN {Writing("department", dto.department, None)} ELSE {})
          \cup (IF dto.branch # None THEN {Writing("branch", dto.branch, None)} ELSE {})
          \cup {Writing("status", dto.status, None)}
  <2>1. /\ dto.department \in Opt(Ids) /\ dto.branch \in Opt(Ids)
    BY <1>2, IdTables DEF Opt
  <2>2. /\ assigned("department") \in Seq(EntryToWrite)
        /\ assigned("branch") \in Seq(EntryToWrite)
    BY <1>2, <2>1, IfTyped DEF EntryToWrite, Writing, Histories, Opt
  <2>3. <<Writing("status", dto.status, None)>> \in Seq(EntryToWrite)
    BY <1>2 DEF EntryToWrite, Writing, Histories, Opt
  <2>4. /\ Names(assigned("department")) =
               IF dto.department # None THEN {Writing("department", dto.department, None)} ELSE {}
        /\ Names(assigned("branch")) =
               IF dto.branch # None THEN {Writing("branch", dto.branch, None)} ELSE {}
        /\ Names(<<Writing("status", dto.status, None)>>) = {Writing("status", dto.status, None)}
    BY <1>2, NamesOfIf, NamesOfShort
  <2>5. entries = (assigned("department") \o assigned("branch"))
                      \o <<Writing("status", dto.status, None)>>
    BY DEF entries
  <2> HIDE DEF assigned
  <2>6. /\ assigned("department") \o assigned("branch") \in Seq(EntryToWrite)
        /\ Names(assigned("department") \o assigned("branch")) =
               Names(assigned("department")) \cup Names(assigned("branch"))
    BY <2>2, NamesOfConcat, ConcatProperties
  <2>7. PICK p \in Seq(EntryToWrite), q \in Seq(EntryToWrite) :
            /\ p = assigned("department") \o assigned("branch")
            /\ q = <<Writing("status", dto.status, None)>>
    BY <2>3, <2>6
  <2>8. entries = p \o q
    BY <2>5, <2>7, Zenon
  <2>9. Names(p \o q) = Names(p) \cup Names(q)
    BY NamesOfConcat
  <2> QED BY <2>4, <2>6, <2>7, <2>8, <2>9
<1>9. ASSUME NEW t, t.id \in Employees, rows[t.id] = None, t.row = row, t.entries = entries
      PROVE  Announces(t)
  <2>1. /\ row["branch"] = dto.branch /\ row["department"] = dto.department
        /\ row["status"] = dto.status
    BY DEF row
  <2>2. PICK e \in Employees : e = t.id
    BY <1>9
  <2>3. DOMAIN row = Fields(e) /\ {"branch", "department", "status"} \subseteq Fields(e)
    BY <1>3, EmployeeFacts DEF IsRow
  <2>4. dto.branch # Same /\ dto.department # Same /\ dto.status # Same
    BY <1>2, IdTables, OrganisationAssumption DEF Opt
  <2>5. \A k \in {"branch", "department", "status"} : Written(e, row)[k] = row[k]
    BY <2>1, <2>3, <2>4, WrittenColumn
  <2>6. \A entry \in Names(entries) :
            /\ entry.find = None
            /\ entry.to \in {None, row[entry.history]}
            /\ entry.history \in {"branch", "department", "status"}
    BY <1>8, <2>1 DEF Writing
  <2>7. ASSUME NEW k \in Histories
        PROVE  (\E entry \in Names(entries) : entry.history = k) \/ row[k] = None
    <3>1. \A j : /\ Writing("department", j, None).history = "department"
                 /\ Writing("branch", j, None).history = "branch"
                 /\ Writing("status", j, None).history = "status"
      BY DEF Writing
    <3>2. CASE k = "department"
      BY <1>8, <2>1, <3>1, <3>2
    <3>3. CASE k = "branch"
      BY <1>8, <2>1, <3>1, <3>3
    <3>4. CASE k = "status"
      BY <1>8, <3>1, <3>4
    <3> QED BY <3>2, <3>3, <3>4 DEF Histories
  <2>8. \A k \in Histories : k \in {"branch", "department", "status"}
    BY DEF Histories
  <2> QED BY <1>9, <2>2, <2>5, <2>6, <2>7, <2>8 DEF Announces
<1> HIDE DEF columns
<1>10. Creatable(Employees, row, columns, entries)
  BY <1>3, <1>5, <1>6 DEF Creatable
<1>11. \E t : /\ NewCopy(t) /\ Arrive(h, t)
              /\ t.id \in Employees /\ rows[t.id] = None /\ t.row = row /\ t.entries = entries
  BY <1>1, <1>7, <1>10, CreateAsks
<1> QED BY <1>1, <1>9, <1>11 DEF EmployeeAsked

LEMMA UpdateEmployeeAsks ==
    ASSUME Typed, NEW h \in Handlers, NEW e \in Employees, NEW dto \in UpdateEmployeeDto,
           UpdateEmployee(h, e, dto)
    PROVE  \E t : EmployeeAsked(t) /\ Arrive(h, t)
<1> DEFINE before == Loaded(e)
           row == Emptied(before, dto)
           moved(k) == If(dto[k] \notin {Same, before[k]}, Writing(k, dto[k], before[k]))
           entries == moved("department") \o moved("branch")
           todo == Given(dto, <<"department", "branch">>)
           t == Building(e, row, todo, entries)
<1>1. /\ Live(e) /\ Arrive(h, t)
  BY DEF UpdateEmployee
<1>2. /\ dto["department"] \in Departments \cup {None, Same}
      /\ dto["branch"] \in Branches \cup {None, Same}
      /\ dto["status"] \in Statuses \cup {Same}
      /\ DOMAIN dto = {"department", "branch", "status"}
  BY DEF UpdateEmployeeDto
<1>3. /\ e \in Ids \ Parts /\ e \in Ids /\ References(e) = {"branch", "department"}
      /\ Fields(e) = {"live", "branch", "department", "status"}
  BY EmployeeFacts
<1>4. /\ IsRow(e, before) /\ before["live"] = TRUE /\ DOMAIN before = Fields(e)
      /\ \A column \in References(e) : before[column] \in Ids => Live(before[column])
      /\ before["branch"] \in Opt(Branches) /\ before["department"] \in Opt(Departments)
      /\ before["status"] \in Statuses
  <2>1. /\ IsRow(e, before) /\ before["live"] = TRUE
        /\ \A column \in References(e) : before[column] \in Ids => Live(before[column])
    BY <1>1, <1>3, LoadedRow
  <2> HIDE DEF before
  <2>2. /\ Values(e, "branch") = Opt(Branches) /\ Values(e, "department") = Opt(Departments)
        /\ Values(e, "status") = Statuses
    BY EmployeeFacts
  <2>3. /\ before["branch"] \in Opt(Branches)
        /\ before["department"] \in Opt(Departments)
        /\ before["status"] \in Statuses
    BY <1>3, <2>1, <2>2 DEF IsRow
  <2> QED BY <2>1, <2>3 DEF IsRow
<1> HIDE DEF before
<1>5. row = [column \in Fields(e) |->
                IF column \notin DOMAIN dto \/ dto[column] = Same THEN before[column]
                ELSE IF dto[column] = None THEN Same ELSE dto[column]]
  BY <1>4 DEF Emptied
<1>6. IsCopy(e, row)
  <2>1. row["live"] = TRUE
    BY <1>2, <1>3, <1>4, <1>5
  <2>2. /\ row["branch"] \in Opt(Branches) \cup {Same}
        /\ row["department"] \in Opt(Departments) \cup {Same}
        /\ row["status"] \in Statuses
    BY <1>2, <1>3, <1>4, <1>5, OrganisationAssumption DEF Opt
  <2>3. row = [column \in Fields(e) |-> row[column]]
    BY <1>5
  <2> HIDE DEF row
  <2>4. /\ Drafts(e, "branch") = Opt(Branches) \cup {Same}
        /\ Drafts(e, "department") = Opt(Departments) \cup {Same}
        /\ Drafts(e, "status") = Statuses /\ Drafts(e, "live") = {TRUE}
    BY EmployeeFacts
  <2>5. \A column \in Fields(e) : row[column] \in Drafts(e, column)
    BY <1>3, <2>1, <2>2, <2>4
  <2> QED BY <2>1, <2>3, <2>5 DEF IsCopy
<1>7. /\ todo \in Seq(References(e))
      /\ Names(todo) = {c \in {"department", "branch"} : dto[c] \notin {None, Same}}
  <2>1. /\ todo \in Seq({"department", "branch"})
        /\ Names(todo) = {c \in Names(<<"department", "branch">>) : dto[c] \notin {None, Same}}
        /\ Names(<<"department", "branch">>) = {"department", "branch"}
    BY GivenTwo
  <2>2. References(e) = {"department", "branch"}
    BY <1>3
  <2> HIDE DEF todo
  <2> QED BY <2>1, <2>2
<1>8. \A column \in Names(todo) : row[column] \in Ids
  <2> HIDE DEF todo, row
  <2> QED BY <1>2, <1>3, <1>5, <1>7, IdTables
<1>9. \A column \in References(e) \ Names(todo) : row[column] \in Ids => Live(row[column])
  <2> HIDE DEF todo, row
  <2> QED BY <1>2, <1>3, <1>4, <1>5, <1>7, OrganisationAssumption
<1>10. EntriesTyped(e, entries)
  <2>1. \A k \in {"department", "branch"} :
            dto[k] \notin {Same, before[k]} => Writing(k, dto[k], before[k]) \in EntryToWrite
    BY <1>2, <1>4, IdTables DEF EntryToWrite, Writing, Histories, Opt
  <2>2. moved("department") \in Seq(EntryToWrite) /\ moved("branch") \in Seq(EntryToWrite)
    BY <2>1, IfTyped
  <2> HIDE DEF moved
  <2> QED BY <2>2, ConcatProperties DEF EntriesTyped
<1>11. Names(entries) =
           (IF dto["department"] \notin {Same, before["department"]}
            THEN {Writing("department", dto["department"], before["department"])} ELSE {})
           \cup (IF dto["branch"] \notin {Same, before["branch"]}
                 THEN {Writing("branch", dto["branch"], before["branch"])} ELSE {})
  <2>1. \A k \in {"department", "branch"} :
            dto[k] \notin {Same, before[k]} => Writing(k, dto[k], before[k]) \in EntryToWrite
    BY <1>2, <1>4, IdTables DEF EntryToWrite, Writing, Histories, Opt
  <2>2. moved("department") \in Seq(EntryToWrite) /\ moved("branch") \in Seq(EntryToWrite)
    BY <2>1, IfTyped
  <2>3. /\ Names(moved("department")) =
               IF dto["department"] \notin {Same, before["department"]}
               THEN {Writing("department", dto["department"], before["department"])} ELSE {}
        /\ Names(moved("branch")) =
               IF dto["branch"] \notin {Same, before["branch"]}
               THEN {Writing("branch", dto["branch"], before["branch"])} ELSE {}
    BY NamesOfIf
  <2> HIDE DEF moved
  <2> QED BY <2>2, <2>3, NamesOfConcat
<1>12. ASSUME Intact(e)
       PROVE  /\ \A entry \in Names(entries) :
                     /\ entry.find # None => Live(entry.find)
                     /\ entry.to \in {None, Written(e, row)[entry.history]}
              /\ \A k \in Histories :
                     \/ \E entry \in Names(entries) : entry.history = k
                     \/ Written(e, row)[k] = rows[e][k]
                     \/ k = "status" /\ e \in edited'
  <2>1. before = rows[e] /\ rows[e] # None
    BY <1>1, <1>12, LoadedIntact DEF Live, before
  <2>2. DOMAIN row = Fields(e)
    BY <1>5
  <2> HIDE DEF row, entries
  <2>3. \A k \in {"department", "branch", "status"} :
            Written(e, row)[k] = IF row[k] # Same THEN row[k] ELSE rows[e][k]
    BY <1>3, <2>1, <2>2, WrittenColumn
  <2>4. \A k \in {"department", "branch", "status"} :
            row[k] = IF dto[k] = Same THEN before[k]
                     ELSE IF dto[k] = None THEN Same ELSE dto[k]
    BY <1>2, <1>3, <1>5
  <2>5. before["status"] # Same /\ before["branch"] # Same /\ before["department"] # Same
    BY <1>4, IdTables, OrganisationAssumption DEF Opt
  <2>6. ASSUME NEW k \in {"department", "branch"}, dto[k] \notin {Same, before[k]},
               NEW entry, entry = Writing(k, dto[k], before[k])
        PROVE  /\ entry.find # None => Live(entry.find)
               /\ entry.to \in {None, Written(e, row)[entry.history]}
               /\ entry.history = k
    <3>1. entry.find = before[k] /\ entry.to = dto[k] /\ entry.history = k
      BY <2>6 DEF Writing
    <3>2. before[k] # None => Live(before[k])
      BY <1>3, <1>4, IdTables DEF Opt
    <3>3. dto[k] = None \/ Written(e, row)[k] = dto[k]
      BY <2>3, <2>4, <2>6
    <3> QED BY <3>1, <3>2, <3>3
  <2>7. ASSUME NEW entry \in Names(entries)
        PROVE  \E k \in {"department", "branch"} :
                   dto[k] \notin {Same, before[k]} /\ entry = Writing(k, dto[k], before[k])
    BY <1>11, <2>7
  <2>8. ASSUME NEW k \in {"department", "branch"}, dto[k] \in {Same, before[k]}
        PROVE  Written(e, row)[k] = rows[e][k]
    BY <2>1, <2>3, <2>4, <2>5, <2>8
  <2>9. dto["status"] = Same => Written(e, row)["status"] = rows[e]["status"]
    BY <2>1, <2>3, <2>4, <2>5
  <2>10. dto["status"] # Same => e \in edited'
    BY DEF UpdateEmployee
  <2>11. ASSUME NEW k \in {"department", "branch"}, dto[k] \notin {Same, before[k]}
         PROVE  \E entry \in Names(entries) : entry.history = k
    <3>1. Writing(k, dto[k], before[k]) \in Names(entries)
      BY <1>11, <2>11
    <3>2. Writing(k, dto[k], before[k]).history = k
      BY DEF Writing
    <3> QED BY <3>1, <3>2
  <2>12. \A k \in Histories : k = "status" \/ k \in {"department", "branch"}
    BY DEF Histories
  <2>13. \A entry \in Names(entries) :
             /\ entry.find # None => Live(entry.find)
             /\ entry.to \in {None, Written(e, row)[entry.history]}
    BY <2>6, <2>7
  <2> QED BY <2>8, <2>9, <2>10, <2>11, <2>12, <2>13
<1> HIDE DEF row, todo, entries
<1>13. Copies(t) /\ t.id = e /\ t.row = row /\ t.todo = todo /\ t.entries = entries
  BY <1>3, <1>6, <1>7, <1>8, <1>10, BuildingCopies
<1>14. Sound(t)
  BY <1>1, <1>9, <1>13 DEF Sound, Deleted, Live
<1>15. Announces(t)
  <2>1. rows[e] # None
    BY <1>1 DEF Live
  <2> HIDE DEF t
  <2> QED BY <1>12, <1>13, <2>1 DEF Announces
<1> QED BY <1>1, <1>13, <1>14, <1>15 DEF NewCopy, EmployeeAsked

LEMMA TransferAsks ==
    ASSUME Typed, NEW h \in Handlers, NEW e \in Employees, NEW column, NEW to,
           \/ column = "department" /\ to \in Opt(Departments)
           \/ column = "branch" /\ to \in Opt(Branches),
           Transfer(h, e, column, to)
    PROVE  \E t : EmployeeAsked(t) /\ Arrive(h, t)
<1> DEFINE before == Loaded(e)
           row == [before EXCEPT ![column] = IF to = None THEN Same ELSE to]
           todo == IF to = None THEN <<>> ELSE <<column>>
           entries == <<Writing(column, to, None)>>
           t == Building(e, row, todo, entries)
<1>1. Live(e) /\ Arrive(h, t)
  BY DEF Transfer
<1>2. /\ e \in Ids \ Parts /\ e \in Ids /\ References(e) = {"branch", "department"}
      /\ Fields(e) = {"live", "branch", "department", "status"}
  BY EmployeeFacts
<1>3. /\ IsRow(e, before) /\ before["live"] = TRUE /\ DOMAIN before = Fields(e)
      /\ \A c \in References(e) : before[c] \in Ids => Live(before[c])
      /\ before["branch"] \in Opt(Branches) /\ before["department"] \in Opt(Departments)
      /\ before["status"] \in Statuses /\ before = [c \in Fields(e) |-> before[c]]
  <2>1. /\ IsRow(e, before) /\ before["live"] = TRUE
        /\ \A c \in References(e) : before[c] \in Ids => Live(before[c])
    BY <1>1, <1>2, LoadedRow
  <2> HIDE DEF before
  <2>2. /\ Values(e, "branch") = Opt(Branches) /\ Values(e, "department") = Opt(Departments)
        /\ Values(e, "status") = Statuses
    BY EmployeeFacts
  <2>3. /\ before["branch"] \in Opt(Branches)
        /\ before["department"] \in Opt(Departments)
        /\ before["status"] \in Statuses
    BY <1>2, <2>1, <2>2 DEF IsRow
  <2> QED BY <2>1, <2>3 DEF IsRow
<1> HIDE DEF before
<1>4. row = [c \in Fields(e) |->
                IF c = column THEN IF to = None THEN Same ELSE to ELSE before[c]]
  BY <1>3
<1>5. IsCopy(e, row)
  <2>1. row["live"] = TRUE
    BY <1>2, <1>3, <1>4
  <2>2. /\ row["branch"] \in Opt(Branches) \cup {Same}
        /\ row["department"] \in Opt(Departments) \cup {Same}
        /\ row["status"] \in Statuses
    BY <1>2, <1>3, <1>4 DEF Opt
  <2>3. row = [c \in Fields(e) |-> row[c]]
    BY <1>4
  <2> HIDE DEF row
  <2>4. /\ Drafts(e, "branch") = Opt(Branches) \cup {Same}
        /\ Drafts(e, "department") = Opt(Departments) \cup {Same}
        /\ Drafts(e, "status") = Statuses /\ Drafts(e, "live") = {TRUE}
    BY EmployeeFacts
  <2>5. \A c \in Fields(e) : row[c] \in Drafts(e, c)
    BY <1>2, <2>1, <2>2, <2>4
  <2> QED BY <2>1, <2>3, <2>5 DEF IsCopy
<1>6. todo \in Seq(References(e)) /\ Names(todo) = IF to = None THEN {} ELSE {column}
  <2>1. Names(<<>>) = {} /\ Names(<<column>>) = {column}
    BY DEF Names
  <2>2. column \in References(e)
    BY <1>2
  <2>3. <<>> \in Seq(References(e)) /\ <<column>> \in Seq(References(e))
    BY <2>2
  <2> QED BY <2>1, <2>3
<1>7. \A c \in Names(todo) : row[c] \in Ids
  <2> HIDE DEF todo, row
  <2> QED BY <1>2, <1>4, <1>6, IdTables DEF Opt
<1>8. \A c \in References(e) \ Names(todo) : row[c] \in Ids => Live(row[c])
  <2> HIDE DEF todo, row
  <2> QED BY <1>2, <1>3, <1>4, <1>6, OrganisationAssumption
<1>9. EntriesTyped(e, entries)
  <2>1. Writing(column, to, None) \in EntryToWrite
    BY IdTables DEF EntryToWrite, Writing, Histories, Opt
  <2>2. entries \in Seq(EntryToWrite)
    BY <2>1
  <2> QED BY <2>2 DEF EntriesTyped
<1>10. ASSUME Intact(e)
       PROVE  /\ \A entry \in Names(entries) :
                     /\ entry.find # None => Live(entry.find)
                     /\ entry.to \in {None, Written(e, row)[entry.history]}
              /\ \A k \in Histories :
                     \/ \E entry \in Names(entries) : entry.history = k
                     \/ Written(e, row)[k] = rows[e][k]
  <2>1. before = rows[e] /\ rows[e] # None
    BY <1>1, <1>10, LoadedIntact DEF Live, before
  <2>2. Names(entries) = {Writing(column, to, None)}
    BY NamesOfShort
  <2>3. DOMAIN row = Fields(e)
    BY <1>4
  <2> HIDE DEF row, entries
  <2>4. \A k \in {"department", "branch", "status"} :
            /\ Written(e, row)[k] = IF row[k] # Same THEN row[k] ELSE rows[e][k]
            /\ row[k] = IF k = column THEN IF to = None THEN Same ELSE to ELSE before[k]
    BY <1>2, <1>4, <2>1, <2>3, WrittenColumn
  <2>5. before["status"] # Same /\ before["branch"] # Same /\ before["department"] # Same
    BY <1>3, IdTables, OrganisationAssumption DEF Opt
  <2>6. to = None \/ Written(e, row)[column] = to
    BY <2>4, IdTables, OrganisationAssumption DEF Opt
  <2>7. \A k \in {"department", "branch", "status"} :
            k # column => Written(e, row)[k] = rows[e][k]
    BY <2>1, <2>4, <2>5
  <2>8. /\ Writing(column, to, None).find = None /\ Writing(column, to, None).to = to
        /\ Writing(column, to, None).history = column
    BY DEF Writing
  <2> QED BY <2>2, <2>6, <2>7, <2>8 DEF Histories
<1> HIDE DEF row, todo, entries
<1>11. Copies(t) /\ t.id = e /\ t.row = row /\ t.todo = todo /\ t.entries = entries
  BY <1>2, <1>5, <1>6, <1>7, <1>9, BuildingCopies
<1>12. Sound(t)
  BY <1>1, <1>8, <1>11 DEF Sound, Deleted, Live
<1>13. Announces(t)
  <2>1. rows[e] # None
    BY <1>1 DEF Live
  <2> HIDE DEF t
  <2> QED BY <1>10, <1>11, <2>1 DEF Announces
<1> QED BY <1>1, <1>11, <1>12, <1>13 DEF NewCopy, EmployeeAsked

LEMMA EventAsks ==
    ASSUME Typed, NEW h \in Handlers, NEW e \in Employees, NEW event \in EmploymentEvent,
           RecordEmploymentEvent(h, e, event)
    PROVE  \E t : EmployeeAsked(t) /\ Arrive(h, t)
<1> DEFINE before == Loaded(e)
           row == [before EXCEPT !.status = StatusAfter(event)]
           entries == <<Writing("status", StatusAfter(event), None)>>
           t == Building(e, row, <<>>, entries)
<1>1. Live(e) /\ Arrive(h, t) /\ StatusAfter(event) \in Statuses
  BY DEF RecordEmploymentEvent
<1>2. /\ e \in Ids \ Parts /\ e \in Ids /\ References(e) = {"branch", "department"}
      /\ Fields(e) = {"live", "branch", "department", "status"}
  BY EmployeeFacts
<1>3. /\ IsRow(e, before) /\ before["live"] = TRUE /\ DOMAIN before = Fields(e)
      /\ \A c \in References(e) : before[c] \in Ids => Live(before[c])
      /\ before = [c \in Fields(e) |-> before[c]]
  BY <1>1, <1>2, LoadedRow DEF IsRow
<1> HIDE DEF before
<1>4. row = [c \in Fields(e) |-> IF c = "status" THEN StatusAfter(event) ELSE before[c]]
  BY <1>3
<1>5. IsRow(e, row) /\ row["live"] = TRUE
  BY <1>1, <1>2, <1>3, <1>4, EmployeeFacts DEF IsRow
<1>6. \A c \in References(e) : row[c] = before[c]
  BY <1>2, <1>4
<1>7. EntriesTyped(e, entries)
  <2>1. Writing("status", StatusAfter(event), None) \in EntryToWrite
    BY <1>1 DEF EntryToWrite, Writing, Histories, Opt
  <2>2. entries \in Seq(EntryToWrite)
    BY <2>1
  <2> QED BY <2>2 DEF EntriesTyped
<1>8. <<>> \in Seq(References(e)) /\ Names(<<>>) = {}
  BY DEF Names
<1>9. ASSUME Intact(e)
      PROVE  /\ \A entry \in Names(entries) :
                    /\ entry.find # None => Live(entry.find)
                    /\ entry.to \in {None, Written(e, row)[entry.history]}
             /\ \A k \in Histories :
                    \/ \E entry \in Names(entries) : entry.history = k
                    \/ Written(e, row)[k] = rows[e][k]
  <2>1. before = rows[e] /\ rows[e] # None
    BY <1>1, <1>9, LoadedIntact DEF Live, before
  <2>2. Names(entries) = {Writing("status", StatusAfter(event), None)}
    BY NamesOfShort
  <2>3. DOMAIN row = Fields(e) /\ row["status"] = StatusAfter(event)
    BY <1>2, <1>4
  <2>4. StatusAfter(event) # Same
    BY <1>1, OrganisationAssumption
  <2>5. before["branch"] # Same /\ before["department"] # Same
    <3>1. Values(e, "branch") = Opt(Branches) /\ Values(e, "department") = Opt(Departments)
      BY EmployeeFacts
    <3>2. before["branch"] \in Opt(Branches) /\ before["department"] \in Opt(Departments)
      BY <1>2, <1>3, <3>1 DEF IsRow
    <3> QED BY <3>2, IdTables, OrganisationAssumption DEF Opt
  <2> HIDE DEF row, entries
  <2>6. Written(e, row)["status"] = StatusAfter(event)
    BY <1>2, <2>3, <2>4, WrittenColumn
  <2>7. \A k \in {"department", "branch"} : Written(e, row)[k] = rows[e][k]
    BY <1>2, <1>6, <2>1, <2>3, <2>5, WrittenColumn
  <2>8. /\ Writing("status", StatusAfter(event), None).find = None
        /\ Writing("status", StatusAfter(event), None).to = StatusAfter(event)
        /\ Writing("status", StatusAfter(event), None).history = "status"
    BY DEF Writing
  <2> QED BY <2>2, <2>6, <2>7, <2>8 DEF Histories
<1> HIDE DEF row, entries
<1>10. Copies(t) /\ t.id = e /\ t.row = row /\ t.todo = <<>> /\ t.entries = entries
  <2>1. PICK todo \in Seq(References(e)) : todo = <<>> /\ Names(todo) = {}
    BY <1>8
  <2>2. IsCopy(e, row)
    BY <1>5, RowIsCopy
  <2>3. \A column \in Names(todo) : row[column] \in Ids
    BY <2>1
  <2>4. /\ Copies(Building(e, row, todo, entries))
        /\ Building(e, row, todo, entries).id = e /\ Building(e, row, todo, entries).row = row
        /\ Building(e, row, todo, entries).todo = todo
        /\ Building(e, row, todo, entries).entries = entries
    BY <1>2, <1>7, <2>2, <2>3, BuildingCopies
  <2> QED BY <2>1, <2>4
<1>11. Sound(t)
  <2>1. \A column \in References(e) : row[column] \in Ids => Live(row[column])
    BY <1>3, <1>6
  <2> HIDE DEF t
  <2> QED BY <1>1, <1>10, <2>1 DEF Sound, Deleted, Live
<1>12. Announces(t)
  <2>1. rows[e] # None
    BY <1>1 DEF Live
  <2> HIDE DEF t
  <2> QED BY <1>9, <1>10, <2>1 DEF Announces
<1> QED BY <1>1, <1>10, <1>11, <1>12 DEF NewCopy, EmployeeAsked

LEMMA EmployeeAsks ==
    ASSUME Typed, NEW h \in Handlers, EmployeeRequest(h), edited \subseteq Employees
    PROVE  /\ \E t : EmployeeAsked(t) /\ Arrive(h, t)
           /\ UNCHANGED <<latest, failures>>
           /\ edited \subseteq edited' /\ edited' \subseteq Employees
<1>1. ASSUME NEW dto \in CreateEmployeeDto, CreateEmployee(h, dto)
      PROVE  /\ \E t : EmployeeAsked(t) /\ Arrive(h, t)
             /\ UNCHANGED <<latest, failures, edited>>
  BY <1>1, CreateEmployeeAsks
<1>2. ASSUME NEW e \in Employees, NEW dto \in UpdateEmployeeDto, UpdateEmployee(h, e, dto)
      PROVE  /\ \E t : EmployeeAsked(t) /\ Arrive(h, t)
             /\ UNCHANGED <<latest, failures>>
             /\ edited \subseteq edited' /\ edited' \subseteq Employees
  <2>1. /\ UNCHANGED <<latest, failures>>
        /\ edited \subseteq edited' /\ edited' \subseteq edited \cup {e}
    BY <1>2 DEF UpdateEmployee
  <2> QED BY <1>2, <2>1, UpdateEmployeeAsks
<1>3. ASSUME NEW e \in Employees, NEW department \in Opt(Departments),
             TransferDepartment(h, e, department)
      PROVE  /\ \E t : EmployeeAsked(t) /\ Arrive(h, t)
             /\ UNCHANGED <<latest, failures, edited>>
  <2>1. Transfer(h, e, "department", department)
    BY <1>3 DEF TransferDepartment
  <2>2. UNCHANGED <<latest, failures, edited>>
    BY <2>1 DEF Transfer
  <2> QED BY <2>1, <2>2, TransferAsks
<1>4. ASSUME NEW e \in Employees, NEW branch \in Opt(Branches), TransferBranch(h, e, branch)
      PROVE  /\ \E t : EmployeeAsked(t) /\ Arrive(h, t)
             /\ UNCHANGED <<latest, failures, edited>>
  <2>1. Transfer(h, e, "branch", branch)
    BY <1>4 DEF TransferBranch
  <2>2. UNCHANGED <<latest, failures, edited>>
    BY <2>1 DEF Transfer
  <2> QED BY <2>1, <2>2, TransferAsks
<1>5. ASSUME NEW e \in Employees, NEW event \in EmploymentEvent,
             RecordEmploymentEvent(h, e, event)
      PROVE  /\ \E t : EmployeeAsked(t) /\ Arrive(h, t)
             /\ UNCHANGED <<latest, failures, edited>>
  BY <1>5, EventAsks DEF RecordEmploymentEvent
<1> QED BY <1>1, <1>2, <1>3, <1>4, <1>5 DEF EmployeeRequest

-----------------------------------------------------------------------------
(***************************************************************************)
(* The calls that follow a request and save nothing                        *)
(***************************************************************************)
\* What reading may turn the task t into: it begins no save and no removal, a sound copy stays
\* sound, and a removal gets past no table with a row that refers to its own.
Progress(t, n) ==
    /\ TaskTyped(n)
    /\ Saving(n) => Saving(t)
    /\ Removing(n) => Removing(t)
    /\ n.at = "history" => t.at = "history"
    /\ n.at # "idle" => n.id = t.id \/ {n.id, t.id} \subseteq Assignments
    /\ n.at \in {"find", "existing", "save"} =>
           \/ Sound(n)
           \/ /\ t.at \in {"find", "existing", "save"}
              /\ Sound(t) => Sound(n)
              /\ ~Deleted(t.id) => ~Deleted(n.id)
    /\ n.at \in {"count", "delete"} =>
           /\ rows[n.id] # None
           /\ \A x \in Referring :
                  Live(x) /\ RefersTo(rows[x], n.id) /\ Counted(n, x) =>
                      t.at \in {"count", "delete"} /\ t.id = n.id /\ Counted(t, x)

LEMMA StopsProgress == \A t : Progress(t, Idle)
BY DEF Progress, TaskTyped, Idle, Saving, Removing

LEMMA TaskStages ==
    ASSUME NEW t, TaskTyped(t)
    PROVE  /\ t.at \in {"find", "existing", "save"} => Copies(t)
           /\ t.at = "child" => FindsChild(t)
           /\ t.at \in {"count", "delete"} => Removes(t)
           /\ t.at = "history" => Records(t)
           /\ t.at \in {"idle", "find", "existing", "child", "save", "count", "delete", "history"}
           /\ t.at # "idle" => t.id \in Ids
BY IdTables DEF TaskTyped, Idle, Copies, FindsChild, Removes, Records, Parts

\* Nothing refers to a part of a branch.
LEMMA PartsUnreferred ==
    ASSUME Typed, NEW x \in Ids, Live(x), NEW y \in Ids, RefersTo(rows[x], y)
    PROVE  /\ y \notin Parts
           /\ y \in Companies \cup OfficeTypes \cup Branches \cup Departments
<1>1. IsRow(x, rows[x])
  BY DEF Typed, Stored, Live
<1>2. y \in Companies \cup OfficeTypes \cup Branches \cup Departments
  BY <1>1, Referrers
<1> QED BY <1>2, Apart DEF Parts

LEMMA FindNextProgress ==
    ASSUME Typed, NEW h \in Handlers, FindNext(h)
    PROVE  \E n : Progress(task[h], n) /\ Read(h, n)
<1>1. PICK t : t = task[h]
  OBVIOUS
<1>2. t.at = "find" /\ Copies(t) /\ t.todo # <<>>
  BY <1>1, TaskStages DEF Typed, FindNext, At, Copies
<1>3. Read(h, IF Found(t) THEN Looked(t) ELSE Idle)
  BY <1>1 DEF FindNext
<1>4. Found(t) => Progress(t, Looked(t))
  BY <1>2, LookedUp DEF Progress, TaskTyped, Saving, Removing, Sound
<1> QED BY <1>1, <1>3, <1>4, StopsProgress

LEMMA FindExistingProgress ==
    ASSUME Typed, NEW h \in Handlers, FindExisting(h)
    PROVE  \E n : Progress(task[h], n) /\ Read(h, n)
<1>1. PICK t : t = task[h]
  OBVIOUS
<1>2. t.at = "existing" /\ Copies(t) /\ t.id \in Assignments /\ t.todo = <<>>
  BY <1>1, TaskStages DEF Typed, FindExisting, At, Copies
<1>3. PICK a : /\ a \in Assignments /\ (a = t.id \/ Live(a))
               /\ Read(h, [t EXCEPT !.at = "save", !.id = a])
  <2> DEFINE same == {a \in Assignments : /\ Live(a)
                                          /\ rows[a].branch = t.row.branch
                                          /\ rows[a].department = t.row.department}
  <2>1. Read(h, [t EXCEPT !.at = "save",
                          !.id = IF same = {} THEN @ ELSE CHOOSE a \in same : TRUE])
    BY <1>1 DEF FindExisting
  <2>2. CASE same = {}
    <3>1. Read(h, [t EXCEPT !.at = "save", !.id = t.id])
      BY <2>1, <2>2
    <3> QED BY <1>2, <3>1
  <2>3. CASE same # {}
    <3>1. PICK a \in same : a = CHOOSE b \in same : TRUE
      BY <2>3
    <3>2. Read(h, [t EXCEPT !.at = "save", !.id = a])
      BY <2>1, <2>3, <3>1
    <3> QED BY <3>1, <3>2
  <2> QED BY <2>2, <2>3
<1> DEFINE n == [t EXCEPT !.at = "save", !.id = a]
<1>4. n = [at |-> "save", id |-> a, row |-> t.row, todo |-> t.todo, entries |-> t.entries]
  <2>1. t = [at |-> t.at, id |-> t.id, row |-> t.row, todo |-> t.todo, entries |-> t.entries]
    BY <1>2 DEF Copies
  <2>2. [t EXCEPT !.at = "save"] =
            [at |-> "save", id |-> t.id, row |-> t.row, todo |-> t.todo, entries |-> t.entries]
    BY <2>1
  <2>3. n = [[t EXCEPT !.at = "save"] EXCEPT !.id = a]
    OBVIOUS
  <2>4. PICK row, todo, entries : row = t.row /\ todo = t.todo /\ entries = t.entries
    OBVIOUS
  <2>5. n = [[at |-> "save", id |-> t.id, row |-> row, todo |-> todo, entries |-> entries]
             EXCEPT !.id = a]
    BY <2>2, <2>3, <2>4
  <2> HIDE DEF n
  <2>6. n = [at |-> "save", id |-> a, row |-> row, todo |-> todo, entries |-> entries]
    BY <2>5
  <2> QED BY <2>4, <2>6
<1>5. /\ a \in Ids /\ References(a) = References(t.id) /\ a \in Referring /\ t.id \in Referring
      /\ a \notin Employees /\ t.id \notin Employees
  BY <1>2, <1>3, IdTables, ReferencesOf, Apart DEF Referring
<1>6. IsCopy(a, t.row)
  <2>1. IsCopy(t.id, t.row)
    BY <1>2 DEF Copies
  <2>2. Fields(a) = Fields(t.id)
    BY <1>5 DEF Fields
  <2>3. \A column \in Fields(a) : Drafts(a, column) = Drafts(t.id, column)
    BY <1>2, <1>3, Apart DEF Drafts, Values, MayBeLeft, Lasting
  <2> QED BY <2>1, <2>2, <2>3 DEF IsCopy
<1>7. Copies(n)
  <2> HIDE DEF n
  <2>1. EntriesTyped(a, t.entries)
    BY <1>2, <1>5 DEF Copies, EntriesTyped
  <2> QED BY <1>2, <1>3, <1>4, <1>5, <1>6, <2>1 DEF Copies
<1>8. /\ Sound(t) => Sound(n)
      /\ ~Deleted(t.id) => ~Deleted(n.id)
  <2> HIDE DEF n
  <2>1. Live(a) => ~Deleted(a)
    BY DEF Live, Deleted
  <2>2. n.id = a /\ n.row = t.row /\ n.todo = t.todo
    BY <1>4
  <2> QED BY <1>3, <1>5, <2>1, <2>2 DEF Sound
<1>9. Progress(t, n)
  <2>1. n.at = "save" /\ n.id = a /\ {a, t.id} \subseteq Assignments
    BY <1>2, <1>3, <1>4
  <2> HIDE DEF n
  <2> QED BY <1>2, <1>7, <1>8, <2>1 DEF Progress, TaskTyped, Saving, Removing
<1> QED BY <1>1, <1>3, <1>9

LEMMA FindChildProgress ==
    ASSUME Typed, NEW h \in Handlers, FindChild(h)
    PROVE  \E n : Progress(task[h], n) /\ Read(h, n)
<1>1. PICK t : t = task[h]
  OBVIOUS
<1>2. t.at = "child" /\ FindsChild(t) /\ t.id \in Ids
  BY <1>1, TaskStages DEF Typed, FindChild, At
<1>3. CASE ~(Live(t.id) /\ Live(rows[t.id].branch))
  BY <1>1, <1>3, StopsProgress DEF FindChild
<1>4. CASE Live(t.id) /\ Live(rows[t.id].branch) /\ t.then = "save"
  <2> DEFINE n == [Building(t.id, rows[t.id], <<>>, <<>>) EXCEPT !.at = "save"]
  <2>1. Read(h, n)
    BY <1>1, <1>4 DEF FindChild
  <2>2. n = [at |-> "save", id |-> t.id, row |-> rows[t.id], todo |-> <<>>, entries |-> <<>>]
    BY DEF Building
  <2>3. IsCopy(t.id, rows[t.id])
    BY <1>2, <1>4, RowFacts, RowIsCopy DEF Typed, Stored, Live
  <2>4. References(t.id) = {"branch"}
    BY <1>2, <1>4, ReferencesOf DEF FindsChild, Parts
  <2>5. <<>> \in Seq(References(t.id)) /\ Names(<<>>) = {}
    BY DEF Names
  <2>6. EntriesTyped(t.id, <<>>)
    BY NoEntries
  <2> HIDE DEF n
  <2>7. Copies(n)
    BY <1>2, <2>2, <2>3, <2>5, <2>6 DEF Copies
  <2>8. Sound(n)
    BY <1>4, <2>2, <2>4, <2>5 DEF Sound, Live, Deleted
  <2>9. Progress(t, n)
    BY <1>2, <1>4, <2>2, <2>7, <2>8 DEF Progress, TaskTyped, Saving, Removing
  <2> QED BY <1>1, <2>1, <2>9
<1>5. ASSUME NEW n, Removes(n), n.id = t.id, t.then # "save", Live(t.id) PROVE Progress(t, n)
  <2>1. n.at \in {"count", "delete"}
    BY <1>5 DEF Removes
  <2>2. ASSUME NEW x \in Referring PROVE ~(Live(x) /\ RefersTo(rows[x], n.id))
    BY <1>2, <1>5, <2>2, PartsUnreferred DEF Referring, FindsChild
  <2>3. rows[n.id] # None
    BY <1>5 DEF Live
  <2> QED BY <1>2, <1>5, <2>1, <2>2, <2>3 DEF Progress, TaskTyped, Saving, Removing
<1>6. t.id \in Ids \ Lasting
  BY <1>2, Apart DEF FindsChild, Parts, Lasting
<1>7. CASE Live(t.id) /\ Live(rows[t.id].branch) /\ t.then = "delete"
  <2>1. Read(h, [at |-> "delete", id |-> t.id])
    BY <1>1, <1>7 DEF FindChild
  <2>2. Removes([at |-> "delete", id |-> t.id])
    BY <1>6 DEF Removes
  <2> QED BY <1>1, <1>5, <1>7, <2>1, <2>2
<1>8. CASE Live(t.id) /\ Live(rows[t.id].branch) /\ t.then = "count"
  <2>1. Read(h, [at |-> "count", id |-> t.id, todo |-> {Employees}])
    BY <1>1, <1>8 DEF FindChild
  <2>2. Removes([at |-> "count", id |-> t.id, todo |-> {Employees}])
    BY <1>6 DEF Removes
  <2> QED BY <1>1, <1>5, <1>8, <2>1, <2>2
<1> QED BY <1>2, <1>3, <1>4, <1>7, <1>8 DEF FindsChild

LEMMA CountProgress ==
    ASSUME Typed, NEW h \in Handlers, Count(h)
    PROVE  \E n : Progress(task[h], n) /\ Read(h, n)
<1>1. PICK t : t = task[h]
  OBVIOUS
<1>2. t.at = "count" /\ Removes(t) /\ t.id \in Ids \ Lasting /\ rows[t.id] # None
  BY <1>1, TaskStages DEF Typed, Count, At, Removes
<1>3. PICK blocker \in t.todo : \E blocked \in Blocked(t.id, blocker) :
           Read(h, IF blocked THEN Idle
                   ELSE IF t.todo = {blocker} THEN [at |-> "delete", id |-> t.id]
                   ELSE [t EXCEPT !.todo = @ \ {blocker}])
  BY <1>1 DEF Count
<1>4. PICK blocked \in Blocked(t.id, blocker) :
          Read(h, IF blocked THEN Idle
                  ELSE IF t.todo = {blocker} THEN [at |-> "delete", id |-> t.id]
                  ELSE [t EXCEPT !.todo = @ \ {blocker}])
  BY <1>3
<1>5. CASE blocked
  BY <1>1, <1>4, <1>5, StopsProgress
<1>6. ASSUME ~blocked, NEW x \in Referring, Live(x), RefersTo(rows[x], t.id)
      PROVE  x \notin blocker
  <2>1. t.id \notin Assignments
    BY <1>2, <1>6, PartsUnreferred DEF Referring, Parts
  <2>2. CASE blocker = Attendance
    BY <1>6, <2>2, OrganisationAssumption DEF Attendance, Referring
  <2>3. CASE blocker # Attendance
    BY <1>4, <1>6, <2>1, <2>3 DEF Blocked, Uses
  <2> QED BY <2>2, <2>3
<1>7. CASE ~blocked /\ t.todo = {blocker}
  <2> DEFINE n == [at |-> "delete", id |-> t.id]
  <2>1. Read(h, n)
    BY <1>4, <1>7
  <2>2. Removes(n)
    BY <1>2 DEF Removes
  <2>3. ASSUME NEW x \in Referring, Live(x), RefersTo(rows[x], n.id)
        PROVE  Counted(t, x)
    BY <1>2, <1>6, <1>7, <2>3 DEF Counted
  <2>4. Progress(t, n)
    BY <1>2, <2>2, <2>3 DEF Progress, TaskTyped, Saving, Removing
  <2> QED BY <1>1, <2>1, <2>4
<1>8. CASE ~blocked /\ t.todo # {blocker}
  <2> DEFINE n == [t EXCEPT !.todo = @ \ {blocker}]
  <2>1. Read(h, n)
    BY <1>4, <1>8
  <2>2. t = [at |-> "count", id |-> t.id, todo |-> t.todo]
    BY <1>2 DEF Removes
  <2>3. n = [at |-> "count", id |-> t.id, todo |-> t.todo \ {blocker}]
    BY <2>2
  <2> HIDE DEF n
  <2>4. Removes(n)
    BY <1>2, <2>3 DEF Removes
  <2>5. ASSUME NEW x \in Referring, Live(x), RefersTo(rows[x], n.id), Counted(n, x)
        PROVE  Counted(t, x)
    BY <1>2, <1>6, <1>8, <2>3, <2>5 DEF Counted
  <2>6. Progress(t, n)
    BY <1>2, <2>3, <2>4, <2>5 DEF Progress, TaskTyped, Saving, Removing
  <2> QED BY <1>1, <2>1, <2>6
<1> QED BY <1>5, <1>7, <1>8

LEMMA HistoryProgress ==
    ASSUME Typed, NEW h \in Handlers, HistoryFind(h) \/ HistorySave(h),
           latest \in [Employees -> [Histories -> Opt(Entry)]]
    PROVE  /\ \E n : Progress(task[h], n) /\ Read(h, n)
           /\ UNCHANGED <<failures, edited>>
           /\ latest' \in [Employees -> [Histories -> Opt(Entry)]]
<1>1. PICK t : t = task[h]
  OBVIOUS
<1>2. t.at = "history" /\ Records(t)
  BY <1>1, TaskStages DEF Typed, HistoryFind, HistorySave, At
<1>3. /\ t = [at |-> "history", id |-> t.id, entries |-> t.entries]
      /\ t.id \in Employees /\ t.entries \in Seq(EntryToWrite) /\ t.entries # <<>>
  BY <1>2 DEF Records, EntriesTyped
<1>4. Head(t.entries) \in EntryToWrite /\ Tail(t.entries) \in Seq(EntryToWrite)
  BY <1>3, NamesTail
<1>5. ASSUME NEW entries \in Seq(EntryToWrite), entries # <<>>
      PROVE  Progress(t, [t EXCEPT !.entries = entries])
  <2>1. [t EXCEPT !.entries = entries] = [at |-> "history", id |-> t.id, entries |-> entries]
    BY <1>3
  <2>2. Records([at |-> "history", id |-> t.id, entries |-> entries])
    BY <1>3, <1>5 DEF Records, EntriesTyped
  <2> QED BY <2>1, <2>2 DEF Progress, TaskTyped, Saving, Removing
<1>6. CASE HistoryFind(h)
  <2> DEFINE first == [Head(t.entries) EXCEPT !.find = None]
             entries == <<first>> \o Tail(t.entries)
  <2>1. first \in EntryToWrite
    BY <1>4 DEF EntryToWrite, Opt
  <2>2. <<first>> \in Seq(EntryToWrite) /\ Len(<<first>>) = 1
    BY <2>1
  <2>3. entries \in Seq(EntryToWrite) /\ entries # <<>>
    <3> HIDE DEF first
    <3>1. /\ entries \in Seq(EntryToWrite) /\ Len(entries) = 1 + Len(Tail(t.entries))
          /\ Len(Tail(t.entries)) \in Nat
      BY <1>4, <2>2, ConcatProperties
    <3> QED BY <3>1
  <2>4. /\ Read(h, IF Live(Head(t.entries).find) THEN [t EXCEPT !.entries = entries] ELSE Idle)
        /\ UNCHANGED <<latest, failures, edited>>
    BY <1>1, <1>3, <1>6 DEF HistoryFind
  <2> HIDE DEF entries
  <2> QED BY <1>1, <1>5, <2>3, <2>4, StopsProgress
<1>7. CASE HistorySave(h)
  <2>1. /\ Read(h, IF Len(t.entries) = 1 THEN Idle ELSE [t EXCEPT !.entries = Tail(t.entries)])
        /\ UNCHANGED <<failures, edited>>
        /\ latest' = [latest EXCEPT ![t.id][Head(t.entries).history] = [to |-> Head(t.entries).to]]
    BY <1>1, <1>3, <1>7 DEF HistorySave
  <2>2. Len(t.entries) # 1 => Tail(t.entries) # <<>>
    <3>1. Len(t.entries) \in Nat \ {0} /\ Len(Tail(t.entries)) = Len(t.entries) - 1
      BY <1>3
    <3>2. PICK rest : rest = Tail(t.entries)
      OBVIOUS
    <3>3. rest = <<>> => Len(rest) = 0
      OBVIOUS
    <3>4. Len(rest) = Len(t.entries) - 1
      BY <3>1, <3>2
    <3>5. Len(t.entries) # 1 => rest # <<>>
      BY <3>1, <3>3, <3>4
    <3> QED BY <3>2, <3>5
  <2>3. [to |-> Head(t.entries).to] \in Opt(Entry) /\ Head(t.entries).history \in Histories
    BY <1>4 DEF EntryToWrite, Entry, Opt
  <2>4. latest' \in [Employees -> [Histories -> Opt(Entry)]]
    BY <1>3, <2>1, <2>3
  <2> QED BY <1>1, <1>4, <1>5, <2>1, <2>2, <2>4, StopsProgress
<1> QED BY <1>6, <1>7

-----------------------------------------------------------------------------
(***************************************************************************)
(* The books of references                                                 *)
(***************************************************************************)
Busy(h) == task[h].at # "idle"
Copying(h) == task[h].at \in {"find", "existing", "save"}

\* A removal of y has counted the table of x and found nothing.
Doomed(x, y) ==
    \E h \in Handlers :
        /\ task[h].at \in {"count", "delete"}
        /\ task[h].id = y
        /\ Counted(task[h], x)

\* The references to rows that are deleted, or that a removal under way will delete.
Lost ==
    {pair \in Referring \X Ids :
        /\ Live(pair[1]) /\ RefersTo(rows[pair[1]], pair[2])
        /\ Deleted(pair[2]) \/ Doomed(pair[1], pair[2])}

Savers == {h \in Handlers : Saving(task[h])}

\* No removal is under way, and every copy refers to rows that are there.
Quiet ==
    /\ \A h \in Handlers : ~Removing(task[h])
    /\ \A h \in Handlers : Copying(h) => Sound(task[h])

\* Each request that saves a row may lose its two references, and was counted as an overlap.
Charged == Cardinality(Lost) + 2 * Cardinality(Savers) <= 2 * overlaps

\* The first of several requests was not counted, but they can lose nothing.
Calm ==
    /\ Quiet
    /\ Cardinality(Lost) <= 2 * overlaps
    /\ Cardinality(Lost) + 2 * (Cardinality(Savers) - 1) <= 2 * overlaps

Books ==
    /\ IsFiniteSet(Lost) /\ IsFiniteSet(Savers)
    /\ Charged \/ Calm

\* Where no request has overlapped another, one is in flight and nobody removed its row.
Serial ==
    overlaps = 0 =>
        /\ \A g, h \in Handlers : Busy(g) /\ Busy(h) => g = h
        /\ \A h \in Handlers : Copying(h) => ~Deleted(task[h].id)

Counts ==
    /\ requests \in 0..MaxLoad /\ overlaps \in 0..requests
    /\ failures \in 0..MaxFailures

Recorded ==
    /\ latest \in [Employees -> [Histories -> Opt(Entry)]]
    /\ edited \subseteq Employees

IInv == Typed /\ Counts /\ Recorded /\ Serial /\ Books

-----------------------------------------------------------------------------
LEMMA SubsetCards ==
    ASSUME NEW S, IsFiniteSet(S), NEW T \in SUBSET S
    PROVE  /\ IsFiniteSet(T) /\ Cardinality(T) <= Cardinality(S)
           /\ Cardinality(S) \in Nat /\ Cardinality(T) \in Nat
BY FS_Subset, FS_CardinalityType

\* A step that loses no reference and begins no save keeps the books.
LEMMA BooksShrink ==
    ASSUME Books, overlaps \in Nat, Lost' \subseteq Lost, Savers' \subseteq Savers,
           overlaps' = overlaps, Quiet => Quiet'
    PROVE  Books'
<1>1. /\ IsFiniteSet(Lost') /\ Cardinality(Lost') <= Cardinality(Lost)
      /\ Cardinality(Lost) \in Nat /\ Cardinality(Lost') \in Nat
  BY SubsetCards DEF Books
<1>2. /\ IsFiniteSet(Savers') /\ Cardinality(Savers') <= Cardinality(Savers)
      /\ Cardinality(Savers) \in Nat /\ Cardinality(Savers') \in Nat
  BY SubsetCards DEF Books
<1>3. Charged => Charged'
  BY <1>1, <1>2 DEF Charged
<1>4. Calm => Calm'
  BY <1>1, <1>2 DEF Calm
<1> QED BY <1>1, <1>2, <1>3, <1>4 DEF Books

\* The save of one of the savers may lose two references, none if all is quiet.
LEMMA BooksSave ==
    ASSUME Books, overlaps \in Nat, NEW h \in Savers, NEW p, NEW q,
           Lost' \subseteq Lost \cup {p, q}, Savers' = Savers \ {h}, overlaps' = overlaps,
           Quiet => Quiet' /\ Lost' \subseteq Lost
    PROVE  Books'
<1>1. /\ IsFiniteSet({p, q}) /\ Cardinality({p, q}) <= 2 /\ Cardinality({p, q}) \in Nat
  <2>1. IsFiniteSet({p}) /\ Cardinality({p}) = 1
    BY FS_Singleton
  <2>2. {p, q} = {p} \cup {q}
    OBVIOUS
  <2>3. /\ IsFiniteSet({p} \cup {q})
        /\ Cardinality({p} \cup {q}) = IF q \in {p} THEN 1 ELSE 2
    <3> DEFINE one == {p}
    <3>1. IsFiniteSet(one) /\ Cardinality(one) = 1
      BY <2>1
    <3>2. /\ IsFiniteSet(one \cup {q})
          /\ Cardinality(one \cup {q}) =
                 IF q \in one THEN Cardinality(one) ELSE Cardinality(one) + 1
      <4> HIDE DEF one
      <4> QED BY <3>1, FS_AddElement, Zenon
    <3>3. Cardinality(one) + 1 = 2
      BY <3>1
    <3> HIDE DEF one
    <3>4. Cardinality(one \cup {q}) = IF q \in one THEN 1 ELSE 2
      BY <3>1, <3>2, <3>3
    <3> QED BY <3>2, <3>4 DEF one
  <2> QED BY <2>2, <2>3
<1>2. Cardinality(Lost) \in Nat
  BY FS_CardinalityType DEF Books
<1>3. /\ IsFiniteSet(Lost \cup {p, q})
      /\ Cardinality(Lost \cup {p, q}) <= Cardinality(Lost) + 2
      /\ Cardinality(Lost \cup {p, q}) \in Nat
  <2>1. /\ IsFiniteSet(Lost \cup {p, q})
        /\ Cardinality(Lost \cup {p, q}) =
               Cardinality(Lost) + Cardinality({p, q}) - Cardinality(Lost \cap {p, q})
    BY <1>1, FS_Union DEF Books
  <2>2. Cardinality(Lost \cap {p, q}) \in Nat
    BY <1>1, FS_Intersection, FS_CardinalityType
  <2> QED BY <1>1, <1>2, <2>1, <2>2, FS_CardinalityType
<1>4. /\ IsFiniteSet(Lost') /\ Cardinality(Lost') <= Cardinality(Lost) + 2
      /\ Cardinality(Lost') \in Nat
  BY <1>2, <1>3, SubsetCards
<1>5. /\ IsFiniteSet(Savers') /\ Cardinality(Savers') = Cardinality(Savers) - 1
      /\ Cardinality(Savers) \in Nat
  BY FS_RemoveElement, FS_CardinalityType DEF Books
<1>6. Charged => Charged'
  BY <1>2, <1>4, <1>5 DEF Charged
<1>7. ASSUME Calm PROVE Calm'
  <2>1. Quiet' /\ Cardinality(Lost') <= Cardinality(Lost)
    BY <1>7, SubsetCards DEF Calm, Books
  <2> QED BY <1>2, <1>4, <1>5, <1>7, <2>1 DEF Calm
<1> QED BY <1>4, <1>5, <1>6, <1>7 DEF Books

\* A request that arrives when nobody is in flight is quiet, or removes a row.
LEMMA BooksArriveAlone ==
    ASSUME Books, overlaps \in Nat, NEW h \in Handlers, Savers = {}, Lost' \subseteq Lost,
           Savers' \subseteq {h}, overlaps' = overlaps, Savers' = {} \/ Quiet'
    PROVE  Books'
<1>1. /\ IsFiniteSet(Lost') /\ Cardinality(Lost') <= Cardinality(Lost)
      /\ Cardinality(Lost) \in Nat /\ Cardinality(Lost') \in Nat
  BY SubsetCards DEF Books
<1>2. IsFiniteSet({h}) /\ Cardinality({h}) = 1
  BY FS_Singleton
<1>3. IsFiniteSet(Savers') /\ Cardinality(Savers') <= 1 /\ Cardinality(Savers') \in Nat
  BY <1>2, SubsetCards
<1>4. Cardinality(Savers) = 0
  BY FS_EmptySet
<1>5. Cardinality(Lost) <= 2 * overlaps
  BY <1>1, <1>4 DEF Books, Charged, Calm
<1>6. CASE Savers' = {}
  <2>1. Cardinality(Savers') = 0
    BY <1>6, FS_EmptySet
  <2> QED BY <1>1, <1>3, <1>5, <2>1 DEF Books, Charged
<1>7. CASE Quiet'
  BY <1>1, <1>3, <1>5, <1>7 DEF Books, Calm
<1> QED BY <1>6, <1>7

\* A request that overlaps another pays for the references it may lose, or for those that the
\* ones in flight may lose.
LEMMA BooksArrive ==
    ASSUME Books, overlaps \in Nat, NEW h \in Handlers, Lost' \subseteq Lost,
           Savers' \subseteq Savers \cup {h}, overlaps' = overlaps + 1,
           Savers' \subseteq Savers \/ (Quiet => Quiet')
    PROVE  Books'
<1>1. /\ IsFiniteSet(Lost') /\ Cardinality(Lost') <= Cardinality(Lost)
      /\ Cardinality(Lost) \in Nat /\ Cardinality(Lost') \in Nat
  BY SubsetCards DEF Books
<1>2. Cardinality(Savers) \in Nat
  BY FS_CardinalityType DEF Books
<1>3. /\ IsFiniteSet(Savers \cup {h}) /\ Cardinality(Savers \cup {h}) <= Cardinality(Savers) + 1
  BY <1>2, FS_AddElement DEF Books
<1>4. /\ IsFiniteSet(Savers') /\ Cardinality(Savers') \in Nat
      /\ Cardinality(Savers') <= Cardinality(Savers \cup {h})
      /\ Cardinality(Savers \cup {h}) \in Nat
  BY <1>3, SubsetCards
<1>5. Cardinality(Savers') <= Cardinality(Savers) + 1
  BY <1>2, <1>3, <1>4
<1>6. CASE Charged
  BY <1>1, <1>2, <1>4, <1>5, <1>6 DEF Books, Charged
<1>7. CASE Calm /\ Savers' \subseteq Savers
  <2>1. Cardinality(Savers') <= Cardinality(Savers)
    BY <1>7, SubsetCards DEF Books
  <2> QED BY <1>1, <1>2, <1>4, <1>7, <2>1 DEF Books, Charged, Calm
<1>8. CASE Calm /\ (Quiet => Quiet')
  BY <1>1, <1>2, <1>4, <1>5, <1>8 DEF Books, Calm
<1> QED BY <1>6, <1>7, <1>8 DEF Books

\* What a step of h leaves as it was: the tasks of the others, the rows of the employees and the
\* references lost, but for what it saves; and where all is quiet, nothing is lost.
Leaves(h) ==
    /\ \A g \in Handlers : g # h => task'[g] = task[g]
    /\ \A id \in Ids : rows[id] # None => rows'[id] # None
    /\ \A e \in Employees : rows'[e] = rows[e] \/ (At(h, "save") /\ task[h].id = e)
    /\ \A x \in Ids, y \in Ids :
           <<x, y>> \in Lost' => <<x, y>> \in Lost \/ (At(h, "save") /\ task[h].id = x)
    /\ Quiet => /\ \A id \in Ids : Live(id) => Live(id)'
                /\ Lost' \subseteq Lost

-----------------------------------------------------------------------------
(***************************************************************************)
(* Each kind of step keeps the invariant                                   *)
(***************************************************************************)
LEMMA ReadKeeps ==
    ASSUME Typed, Counts, Serial, Books, NEW h \in Handlers, NEW n,
           Progress(task[h], n), Read(h, n)
    PROVE  /\ Typed' /\ Serial' /\ Books' /\ UNCHANGED <<rows, requests, overlaps>>
           /\ Leaves(h) /\ (Quiet => Quiet')
<1>1. /\ task' = [task EXCEPT ![h] = n] /\ rows' = rows
      /\ requests' = requests /\ overlaps' = overlaps
  BY DEF Read, Continue
<1>2. /\ task'[h] = n /\ \A g \in Handlers : g # h => task'[g] = task[g]
      /\ task' = [g \in Handlers |-> task'[g]]
  BY <1>1 DEF Typed
<1>3. /\ TaskTyped(n) /\ TaskTyped(task[h])
      /\ n.at \in {"count", "delete"} => rows[n.id] # None
  BY DEF Progress, Typed
<1>4. Typed'
  BY <1>1, <1>2, <1>3 DEF Typed, Stored
<1>5. /\ \A id : Deleted(id)' = Deleted(id) /\ Live(id)' = Live(id)
  BY <1>1 DEF Deleted, Live
<1>6. Serial'
  <2>1. n.at # "idle" => task[h].at # "idle"
    BY <1>3, TaskStages DEF Progress, Saving, Removing
  <2>2. ASSUME overlaps = 0, NEW g \in Handlers, Copying(g)'
        PROVE  ~Deleted(task'[g].id)
    <3>1. CASE g = h
      BY <1>2, <2>2, <3>1 DEF Progress, Serial, Copying, Sound
    <3>2. CASE g # h
      BY <1>2, <2>2, <3>2 DEF Serial, Copying
    <3> QED BY <3>1, <3>2
  <2>3. ASSUME overlaps = 0, NEW f \in Handlers, NEW g \in Handlers, Busy(f)', Busy(g)'
        PROVE  f = g
    BY <1>2, <2>1, <2>3 DEF Serial, Busy
  <2> QED BY <1>1, <1>5, <2>2, <2>3 DEF Serial
<1>7. Lost' \subseteq Lost
  <2>1. ASSUME NEW pair \in Referring \X Ids, Live(pair[1]), RefersTo(rows[pair[1]], pair[2]),
               Doomed(pair[1], pair[2])'
        PROVE  Doomed(pair[1], pair[2])
    <3>1. PICK x \in Referring, y \in Ids : pair[1] = x /\ pair[2] = y
      BY <2>1
    <3>2. PICK g \in Handlers : /\ task'[g].at \in {"count", "delete"} /\ task'[g].id = y
                                /\ Counted(task'[g], x)
      BY <2>1, <3>1 DEF Doomed
    <3>3. CASE g # h
      BY <1>2, <3>1, <3>2, <3>3 DEF Doomed
    <3>4. CASE g = h
      BY <1>2, <2>1, <3>1, <3>2, <3>4 DEF Doomed, Progress
    <3> QED BY <3>3, <3>4
  <2> QED BY <1>1, <1>5, <2>1 DEF Lost
<1>8. Savers' \subseteq Savers
  BY <1>2 DEF Savers, Progress
<1>9. ASSUME Quiet PROVE Quiet'
  <2>1. ASSUME NEW g \in Handlers PROVE ~Removing(task'[g])
    BY <1>2, <1>9 DEF Quiet, Progress
  <2>2. ASSUME NEW g \in Handlers, Copying(g)' PROVE Sound(task'[g])
    BY <1>2, <1>9, <2>2 DEF Quiet, Progress, Copying
  <2>3. \A t : Sound(t) => Sound(t)'
    BY <1>5 DEF Sound
  <2> QED BY <2>1, <2>2, <2>3 DEF Quiet
<1>10. Books'
  BY <1>1, <1>7, <1>8, <1>9, BooksShrink DEF Counts
<1>11. Leaves(h)
  BY <1>1, <1>2, <1>5, <1>7 DEF Leaves
<1> QED BY <1>1, <1>4, <1>6, <1>9, <1>10, <1>11

LEMMA AskedTyped ==
    ASSUME NEW n, Asked(n)
    PROVE  /\ TaskTyped(n)
           /\ Saving(n) \/ Removing(n)
           /\ ~(Saving(n) /\ Removing(n))
           /\ n.at \in {"count", "delete"} => NewRemoval(n) /\ rows[n.id] # None
           /\ n.at \in {"find", "existing", "save"} => Sound(n)
           /\ n.at # "idle"
BY DEF Asked, NewCopy, NewRemoval, TaskTyped, Copies, FindsChild, Removes, Saving, Removing

LEMMA ArriveKeeps ==
    ASSUME Typed, Counts, Serial, Books, NEW h \in Handlers, NEW n, Asked(n), Arrive(h, n)
    PROVE  Typed' /\ Serial' /\ Books' /\ rows' = rows
           /\ requests' \in 0..MaxLoad /\ overlaps' \in 0..requests'
           /\ Leaves(h) /\ (Saving(n) /\ (Quiet \/ Alone) => Quiet')
<1>1. /\ task' = [task EXCEPT ![h] = n] /\ rows' = rows /\ requests' = requests + 1
      /\ overlaps' = IF Alone THEN overlaps ELSE overlaps + 1
      /\ task[h].at = "idle"
      /\ requests + overlaps + (IF Alone THEN 1 ELSE 2) <= MaxLoad
  BY DEF Arrive, Continue, Ready, At
<1>2. /\ task'[h] = n /\ \A g \in Handlers : g # h => task'[g] = task[g]
      /\ task' = [g \in Handlers |-> task'[g]]
  BY <1>1 DEF Typed
<1>3. /\ TaskTyped(n) /\ n.at # "idle"
      /\ n.at \in {"count", "delete"} => NewRemoval(n) /\ rows[n.id] # None
      /\ n.at \in {"find", "existing", "save"} => Sound(n)
  BY AskedTyped
<1>4. Typed'
  BY <1>1, <1>2, <1>3 DEF Typed, Stored
<1>5. /\ \A id : Deleted(id)' = Deleted(id) /\ Live(id)' = Live(id)
      /\ \A t : Sound(t)' = Sound(t)
  BY <1>1 DEF Deleted, Live, Sound
<1>6. /\ requests' \in 0..MaxLoad /\ overlaps' \in 0..requests' /\ overlaps \in Nat
      /\ MaxLoad \in Nat
  BY <1>1, OrganisationAssumption DEF Counts
<1>7. Alone => \A g \in Handlers : task[g].at = "idle"
  BY DEF Alone, At
<1>8. Serial'
  <2>1. overlaps' = 0 => Alone
    BY <1>1, <1>6
  <2>2. Alone => \A g \in Handlers : g # h => task'[g].at = "idle"
    BY <1>2, <1>7
  <2>3. n.at \in {"find", "existing", "save"} => ~Deleted(n.id)
    BY <1>3 DEF Sound
  <2>4. ASSUME overlaps' = 0, NEW f \in Handlers, NEW g \in Handlers, Busy(f)', Busy(g)'
        PROVE  f = g
    BY <2>1, <2>2, <2>4 DEF Busy
  <2>5. ASSUME overlaps' = 0, NEW g \in Handlers, Copying(g)'
        PROVE  ~Deleted(task'[g].id)
    BY <1>2, <2>1, <2>2, <2>3, <2>5 DEF Copying
  <2> QED BY <1>1, <1>5, <2>4, <2>5 DEF Serial
<1>9. Lost' \subseteq Lost
  <2>1. ASSUME NEW pair \in Referring \X Ids, Live(pair[1]), RefersTo(rows[pair[1]], pair[2]),
               Doomed(pair[1], pair[2])'
        PROVE  Doomed(pair[1], pair[2])
    <3>1. PICK x \in Referring, y \in Ids : pair[1] = x /\ pair[2] = y
      BY <2>1
    <3>2. PICK g \in Handlers : /\ task'[g].at \in {"count", "delete"} /\ task'[g].id = y
                                /\ Counted(task'[g], x)
      BY <2>1, <3>1 DEF Doomed
    <3>3. CASE g # h
      BY <1>2, <3>1, <3>2, <3>3 DEF Doomed
    <3>4. CASE g = h
      <4>1. IsRow(x, rows[x])
        BY <2>1, <3>1 DEF Typed, Stored, Live, Referring
      <4>2. NewRemoval(n) /\ RefersTo(rows[x], n.id) /\ Counted(n, x)
        BY <1>2, <1>3, <2>1, <3>1, <3>2, <3>4
      <4> QED BY <4>1, <4>2 DEF NewRemoval
    <3> QED BY <3>3, <3>4
  <2> QED BY <1>1, <1>5, <2>1 DEF Lost
<1>10. /\ Savers' \subseteq Savers \cup {h}
       /\ Removing(n) => Savers' \subseteq Savers
  BY <1>2, AskedTyped DEF Savers
<1>11. ASSUME Saving(n), Quiet \/ Alone PROVE Quiet'
  <2>1. ASSUME NEW g \in Handlers
        PROVE  ~Removing(task'[g]) /\ (Copying(g)' => Sound(task'[g]))
    <3>1. CASE g = h
      BY <1>2, <1>3, <1>11, <3>1, AskedTyped DEF Copying
    <3>2. CASE g # h /\ Quiet
      BY <1>2, <3>2 DEF Quiet, Copying
    <3>3. CASE g # h /\ Alone
      BY <1>2, <1>7, <3>3 DEF Copying, Removing
    <3> QED BY <1>11, <3>1, <3>2, <3>3
  <2> QED BY <1>5, <2>1 DEF Quiet
<1>12. Leaves(h)
  BY <1>1, <1>2, <1>5, <1>9 DEF Leaves
<1>13. CASE Alone
  <2>1. Savers = {}
    BY <1>7, <1>13 DEF Savers, Saving
  <2>2. Savers' = {} \/ Quiet'
    BY <1>10, <1>11, <1>13, <2>1, AskedTyped
  <2>3. Books'
    BY <1>1, <1>6, <1>9, <1>10, <1>13, <2>1, <2>2, BooksArriveAlone
  <2> QED BY <1>1, <1>4, <1>6, <1>8, <1>11, <1>12, <2>3
<1>14. CASE ~Alone
  <2>1. Savers' \subseteq Savers \/ (Quiet => Quiet')
    BY <1>10, <1>11, AskedTyped
  <2>2. Books'
    BY <1>1, <1>6, <1>9, <1>10, <1>14, <2>1, BooksArrive
  <2> QED BY <1>1, <1>4, <1>6, <1>8, <1>11, <1>12, <2>2
<1> QED BY <1>13, <1>14

LEMMA DeleteKeeps ==
    ASSUME Typed, Counts, Serial, Books, NEW h \in Handlers, Delete(h)
    PROVE  /\ Typed' /\ Serial' /\ Books' /\ UNCHANGED <<requests, overlaps>>
           /\ \A id \in Ids : Deleted(id) => Deleted(id)'
           /\ Leaves(h) /\ (Quiet => Quiet')
<1>1. PICK t : t = task[h]
  OBVIOUS
<1>2. t.at = "delete" /\ Removes(t) /\ t.id \in Ids \ Lasting /\ rows[t.id] # None
  BY <1>1, TaskStages DEF Typed, Delete, At, Removes
<1>3. /\ task' = [task EXCEPT ![h] = Idle]
      /\ rows' = [rows EXCEPT ![t.id] = [rows[t.id] EXCEPT !.live = FALSE]]
      /\ requests' = requests /\ overlaps' = overlaps
  BY <1>1 DEF Delete, Write, Continue
<1>4. /\ task'[h] = Idle /\ \A g \in Handlers : g # h => task'[g] = task[g]
      /\ task' = [g \in Handlers |-> task'[g]] /\ Idle.at = "idle" /\ TaskTyped(Idle)
  BY <1>3 DEF Typed, Idle, TaskTyped
<1>5. PICK old, new : old = rows[t.id] /\ new = rows'[t.id]
  OBVIOUS
<1>6. /\ IsRow(t.id, old) /\ DOMAIN old = Fields(t.id) /\ "live" \in Fields(t.id)
      /\ new = [old EXCEPT !.live = FALSE]
      /\ \A id \in Ids : id # t.id => rows'[id] = rows[id]
      /\ DOMAIN rows' = Ids
  BY <1>2, <1>3, <1>5, RowFacts, LiveValue DEF Typed, Stored
<1>7. IsRow(t.id, new) /\ new # None /\ new.live = FALSE
  <2>1. new = [column \in Fields(t.id) |-> IF column = "live" THEN FALSE ELSE old[column]]
    BY <1>6 DEF IsRow
  <2>2. \A column \in Fields(t.id) : new[column] \in Values(t.id, column)
    BY <1>2, <1>6, <2>1, LiveValue DEF IsRow
  <2>3. new = [column \in Fields(t.id) |-> new[column]]
    BY <2>1
  <2>4. IsRow(t.id, new) /\ new.live = FALSE
    BY <1>6, <2>1, <2>2, <2>3 DEF IsRow
  <2> QED BY <1>2, <2>4, RowFacts
<1>8. Typed'
  <2>1. \A id \in Ids : Stored(id)'
    BY <1>5, <1>6, <1>7 DEF Typed, Stored
  <2>2. \A g \in Handlers : TaskTyped(task'[g])
    BY <1>4 DEF Typed
  <2>3. ASSUME NEW g \in Handlers, task'[g].at \in {"count", "delete"}
        PROVE  rows'[task'[g].id] # None
    <3>1. g # h /\ task'[g] = task[g] /\ rows[task[g].id] # None
      BY <1>4, <2>3 DEF Typed
    <3>2. task[g].id \in Ids
      BY <2>3, <3>1, TaskStages DEF Typed, Removes
    <3> QED BY <1>5, <1>6, <1>7, <3>1, <3>2
  <2> QED BY <1>4, <1>6, <2>1, <2>2, <2>3 DEF Typed
<1>9. /\ \A id \in Ids : Live(id)' => Live(id) /\ id # t.id
      /\ \A id \in Ids : Deleted(id)' => Deleted(id) \/ id = t.id
  BY <1>5, <1>6, <1>7 DEF Live, Deleted
<1>10. Serial'
  <2>1. ASSUME overlaps = 0, NEW g \in Handlers PROVE task'[g].at = "idle"
    BY <1>1, <1>2, <1>4, <2>1 DEF Serial, Busy
  <2> QED BY <1>3, <2>1 DEF Serial, Busy, Copying
<1>11. Lost' \subseteq Lost
  <2>1. ASSUME NEW pair \in Lost' PROVE pair \in Lost
    <3>1. PICK x \in Referring, y \in Ids : pair = <<x, y>> /\ pair[1] = x /\ pair[2] = y
      BY <2>1 DEF Lost
    <3>2. /\ Live(x) /\ x \in Ids /\ x # t.id /\ rows'[x] = rows[x] /\ RefersTo(rows[x], y)
          /\ Deleted(y)' \/ Doomed(x, y)'
      BY <1>6, <1>9, <2>1, <3>1 DEF Lost, Referring
    <3>3. CASE Doomed(x, y)'
      <4>1. Doomed(x, y)
        BY <1>4, <3>3 DEF Doomed
      <4> QED BY <2>1, <3>1, <3>2, <4>1 DEF Lost
    <3>4. CASE Deleted(y)'
      <4>1. y = t.id => Doomed(x, y)
        BY <1>1, <1>2 DEF Doomed, Counted
      <4>2. Deleted(y) \/ Doomed(x, y)
        BY <1>9, <3>4, <4>1
      <4> QED BY <2>1, <3>1, <3>2, <4>2 DEF Lost
    <3> QED BY <3>2, <3>3, <3>4
  <2> QED BY <2>1
<1>12. Savers' \subseteq Savers
  BY <1>4 DEF Savers, Saving
<1>13. ~Quiet
  BY <1>1, <1>2 DEF Quiet, Removing
<1>14. Books'
  BY <1>3, <1>11, <1>12, <1>13, BooksShrink DEF Counts
<1>15. \A id \in Ids : Deleted(id) => Deleted(id)'
  BY <1>5, <1>6, <1>7 DEF Deleted
<1>16. Leaves(h)
  <2>1. \A e \in Employees : e \in Ids /\ e # t.id
    BY <1>2, IdTables DEF Lasting
  <2>2. \A id \in Ids : rows[id] # None => rows'[id] # None
    BY <1>5, <1>6, <1>7
  <2> QED BY <1>4, <1>6, <1>11, <1>13, <2>1, <2>2 DEF Leaves
<1> QED BY <1>3, <1>8, <1>10, <1>13, <1>14, <1>15, <1>16

LEMMA SaveKeeps ==
    ASSUME Typed, Counts, Serial, Books, NEW h \in Handlers, Save(h)
    PROVE  /\ Typed' /\ Serial' /\ Books' /\ UNCHANGED <<requests, overlaps>>
           /\ \A id \in Ids : overlaps = 0 /\ Deleted(id) => Deleted(id)'
           /\ Leaves(h) /\ (Quiet => Quiet')
<1>1. PICK t : t = task[h]
  OBVIOUS
<1>2. /\ t.at = "save" /\ Copies(t) /\ t.id \in Ids /\ t.todo = <<>>
      /\ IsCopy(t.id, t.row) /\ EntriesTyped(t.id, t.entries)
  BY <1>1, TaskStages DEF Typed, Save, At, Copies
<1>3. CASE ~Unique(t.id, t.row)
  <2>1. Read(h, Idle)
    BY <1>1, <1>3 DEF Save
  <2>2. Progress(task[h], Idle)
    BY StopsProgress
  <2> QED BY <2>1, <2>2, ReadKeeps DEF Deleted, Live
<1>4. CASE Unique(t.id, t.row)
  <2> DEFINE n == IF t.entries = <<>> THEN Idle
                  ELSE [at |-> "history", id |-> t.id, entries |-> t.entries]
  <2>1. PICK w : w = Written(t.id, t.row)
    OBVIOUS
  <2>2. /\ task' = [task EXCEPT ![h] = n] /\ rows' = [rows EXCEPT ![t.id] = w]
        /\ requests' = requests /\ overlaps' = overlaps
    BY <1>1, <1>4, <2>1 DEF Save, Write, Continue
  <2>3. n.at \in {"idle", "history"} /\ TaskTyped(n)
    <3>1. CASE t.entries = <<>>
      BY <3>1 DEF Idle, TaskTyped
    <3>2. CASE t.entries # <<>>
      <4>1. n = [at |-> "history", id |-> t.id, entries |-> t.entries]
        BY <3>2
      <4> HIDE DEF n
      <4>2. Records(n)
        BY <1>2, <3>2, <4>1 DEF Records, EntriesTyped
      <4> QED BY <4>1, <4>2 DEF TaskTyped
    <3> QED BY <3>1, <3>2
  <2> HIDE DEF n
  <2>4. /\ task'[h] = n /\ \A g \in Handlers : g # h => task'[g] = task[g]
        /\ task' = [g \in Handlers |-> task'[g]]
    BY <2>2 DEF Typed
  <2>5. /\ IsRow(t.id, w) /\ w.live = TRUE /\ w # None
        /\ \A column \in References(t.id) :
               w[column] = IF t.row[column] # Same THEN t.row[column]
                           ELSE IF rows[t.id] = None THEN None ELSE rows[t.id][column]
    <3>1. Stored(t.id)
      BY <1>2 DEF Typed
    <3>2. /\ IsRow(t.id, w) /\ w.live = TRUE
          /\ \A column \in References(t.id) :
                 w[column] = IF t.row[column] # Same THEN t.row[column]
                             ELSE IF rows[t.id] = None THEN None ELSE rows[t.id][column]
      <4>1. PICK id, row : id = t.id /\ row = t.row
        OBVIOUS
      <4>2. id \in Ids /\ IsCopy(id, row) /\ Stored(id)
        BY <1>2, <3>1, <4>1
      <4>3. w = Written(id, row)
        BY <2>1, <4>1
      <4>4. /\ IsRow(id, Written(id, row))
            /\ Written(id, row).live = TRUE
            /\ \A column \in References(id) :
                   Written(id, row)[column] =
                       IF row[column] # Same THEN row[column]
                       ELSE IF rows[id] = None THEN None ELSE rows[id][column]
        BY <4>2, WrittenRow
      <4> QED BY <4>1, <4>3, <4>4
    <3>3. w # None
      BY <1>2, <3>2, RowFacts
    <3> QED BY <3>2, <3>3
  <2>6. /\ rows'[t.id] = w /\ \A id \in Ids : id # t.id => rows'[id] = rows[id]
        /\ DOMAIN rows' = Ids
    BY <1>2, <2>2 DEF Typed
  <2>7. Typed'
    <3>1. \A id \in Ids : Stored(id)'
      BY <2>5, <2>6 DEF Typed, Stored
    <3>2. \A g \in Handlers : TaskTyped(task'[g])
      BY <2>3, <2>4 DEF Typed
    <3>3. ASSUME NEW g \in Handlers, task'[g].at \in {"count", "delete"}
          PROVE  rows'[task'[g].id] # None
      <4>1. g # h /\ task'[g] = task[g] /\ rows[task[g].id] # None
        BY <2>3, <2>4, <3>3 DEF Typed
      <4>2. task[g].id \in Ids
        BY <3>3, <4>1, TaskStages DEF Typed, Removes
      <4> QED BY <2>5, <2>6, <4>1, <4>2
    <3> QED BY <2>4, <2>6, <3>1, <3>2, <3>3 DEF Typed
  <2>8. /\ \A id \in Ids : Live(id) => Live(id)'
        /\ \A id \in Ids : Live(id)' => Live(id) \/ id = t.id
        /\ \A id \in Ids : Deleted(id)' => Deleted(id) /\ id # t.id
    BY <2>5, <2>6 DEF Live, Deleted
  <2>9. Serial'
    <3>1. ASSUME overlaps = 0, NEW g \in Handlers, g # h PROVE task'[g].at = "idle"
      BY <1>1, <1>2, <2>4, <3>1 DEF Serial, Busy
    <3>2. task'[h].at \in {"idle", "history"}
      BY <2>3, <2>4
    <3> QED BY <2>2, <3>1, <3>2 DEF Serial, Busy, Copying
  <2>10. Savers' = Savers \ {h} /\ h \in Savers
    BY <1>1, <1>2, <2>3, <2>4 DEF Savers, Saving
  <2>11. PICK a, b : References(t.id) \subseteq {a, b}
    BY ReferencesFew
  <2>12. ASSUME NEW pair \in Lost'
         PROVE  /\ pair \in Lost \cup {<<t.id, w[a]>>, <<t.id, w[b]>>}
                /\ Quiet => pair \in Lost
    <3>1. PICK x \in Referring, y \in Ids : pair = <<x, y>> /\ pair[1] = x /\ pair[2] = y
      BY <2>12 DEF Lost
    <3>2. /\ x \in Ids /\ RefersTo(rows'[x], y) /\ Live(x)'
          /\ Deleted(y)' \/ Doomed(x, y)'
      BY <2>12, <3>1 DEF Lost, Referring
    <3>3. Doomed(x, y)' => Doomed(x, y)
      BY <2>3, <2>4 DEF Doomed
    <3>4. Deleted(y) \/ Doomed(x, y)
      BY <2>8, <3>2, <3>3
    <3>5. CASE x # t.id
      <4>1. rows'[x] = rows[x] /\ Live(x)
        BY <2>6, <2>8, <3>2, <3>5
      <4> QED BY <3>1, <3>2, <3>4, <4>1 DEF Lost
    <3>6. CASE x = t.id
      <4>1. PICK c \in References(t.id) : w[c] = y
        BY <2>5, <2>6, <3>2, <3>6, RowFacts DEF RefersTo
      <4>2. pair \in {<<t.id, w[a]>>, <<t.id, w[b]>>}
        BY <2>11, <3>1, <3>6, <4>1
      <4>3. ASSUME Quiet PROVE pair \in Lost
        <5>1. ~Doomed(x, y)
          BY <4>3 DEF Quiet, Doomed, Removing
        <5>2. Deleted(y) /\ ~Live(y)
          BY <3>4, <5>1 DEF Deleted, Live
        <5>3. Sound(t) /\ Names(t.todo) = {}
          BY <1>1, <1>2, <4>3 DEF Quiet, Copying, Names
        <5>4. t.row[c] = Same /\ rows[t.id] # None /\ rows[t.id][c] = y
          BY <2>5, <3>1, <3>6, <4>1, <5>2, <5>3, OrganisationAssumption DEF Sound
        <5>5. Live(x) /\ IsRow(x, rows[x]) /\ References(x) = Columns(rows[x])
          BY <1>2, <3>6, <5>3, <5>4, RowFacts DEF Sound, Deleted, Live, Typed, Stored
        <5>6. RefersTo(rows[x], y)
          BY <3>6, <4>1, <5>4, <5>5 DEF RefersTo
        <5> QED BY <3>1, <5>2, <5>5, <5>6 DEF Lost
      <4> QED BY <4>2, <4>3
    <3> QED BY <3>5, <3>6
  <2>13. ASSUME Quiet PROVE Quiet'
    <3>1. ASSUME NEW s, Sound(s), s.id \in Ids,
                 s.id \in Referring =>
                     \A column \in References(s.id) : s.row[column] \in Ids \cup {None, Same}
          PROVE  Sound(s)'
      BY <2>8, <3>1 DEF Sound
    <3>2. ASSUME NEW g \in Handlers
          PROVE  ~Removing(task'[g]) /\ (Copying(g)' => Sound(task[g]) /\ task'[g] = task[g])
      BY <2>3, <2>4, <2>13 DEF Quiet, Copying, Removing
    <3>3. ASSUME NEW g \in Handlers, Copying(g)'
          PROVE  \E s : s = task'[g] /\ Sound(s)'
      <4>1. task'[g] = task[g] /\ Sound(task[g]) /\ Copies(task[g])
        BY <3>2, <3>3, TaskStages DEF Copying, Typed
      <4>2. PICK s : s = task[g]
        OBVIOUS
      <4>3. Sound(s)'
        BY <3>1, <4>1, <4>2, CopyFacts DEF Copies
      <4> QED BY <4>1, <4>2, <4>3
    <3>4. ASSUME NEW g \in Handlers PROVE ~Removing(task'[g])
      BY <3>2
    <3> QED BY <3>3, <3>4 DEF Quiet
  <2>14. Books'
    <3>1. /\ Lost' \subseteq Lost \cup {<<t.id, w[a]>>, <<t.id, w[b]>>}
          /\ Quiet => Lost' \subseteq Lost
      BY <2>12
    <3> QED BY <2>2, <2>10, <2>13, <3>1, BooksSave DEF Counts
  <2>15. \A id \in Ids : overlaps = 0 /\ Deleted(id) => Deleted(id)'
    <3>1. overlaps = 0 => ~Deleted(t.id)
      BY <1>1, <1>2 DEF Serial, Copying
    <3> QED BY <2>6, <3>1 DEF Deleted
  <2>16. Leaves(h)
    <3>1. /\ \A id \in Ids : rows[id] # None => rows'[id] # None
          /\ \A e \in Employees : rows'[e] = rows[e] \/ t.id = e
      BY <2>5, <2>6, IdTables
    <3>2. ASSUME NEW x \in Ids, NEW y \in Ids, <<x, y>> \in Lost', <<x, y>> \notin Lost
          PROVE  t.id = x
      <4>1. <<x, y>> \in {<<t.id, w[a]>>, <<t.id, w[b]>>}
        BY <2>12, <3>2
      <4> QED BY <4>1
    <3>3. At(h, "save") /\ task[h].id = t.id
      BY <1>1, <1>2 DEF At
    <3> QED BY <2>4, <2>8, <2>12, <3>1, <3>2, <3>3 DEF Leaves
  <2> QED BY <2>2, <2>7, <2>9, <2>13, <2>14, <2>15, <2>16
<1> QED BY <1>3, <1>4

-----------------------------------------------------------------------------
(***************************************************************************)
(* The histories of employees                                              *)
(*                                                                         *)
(* A request about an employee is charged until it is done: what it leaves *)
(* wrong was paid for by an overlap or by a handler that died.  The first  *)
(* of several requests is not paid for; but as long as all is quiet and    *)
(* nobody else is at its employee, the entries it is still to write tell   *)
(* what its row says.                                                      *)
(***************************************************************************)
Settling(e) == \E h \in Handlers : Busy(h) /\ task[h].id = e

Workers == {h \in Handlers : Busy(h) /\ task[h].id \in Employees}

Agrees(entry, value) == IF entry = None THEN value = None ELSE entry.to \in {None, value}

\* A profile update sets the status without an employment event.
Explained(e, k) == k = "status" /\ e \in edited

\* A query of the employee joins no row for one of its references, or will not when the
\* removals under way are done.
Adrift(e) ==
    \E y \in Ids : /\ rows[e] # None /\ RefersTo(rows[e], y)
                   /\ rows[y] = None \/ <<e, y>> \in Lost

Wrong(e) ==
    /\ rows[e] # None
    /\ \/ Adrift(e)
       \/ \E k \in Histories : ~Explained(e, k) /\ ~Agrees(latest[e][k], rows[e][k])

Bad == {e \in Employees : ~Settling(e) /\ Wrong(e)}

\* The entries t is still to write will be written, and make the histories agree with row.
Foretold(t, row) ==
    /\ \A entry \in Names(t.entries) :
           /\ entry.find # None => Live(entry.find)
           /\ entry.to \in {None, row[entry.history]}
    /\ \A k \in Histories :
           \/ Explained(t.id, k)
           \/ \E entry \in Names(t.entries) : entry.history = k
           \/ Agrees(latest[t.id][k], row[k])

Promising(t) ==
    /\ t.at \in {"find", "save"} => ~Wrong(t.id) /\ Foretold(t, Written(t.id, t.row))
    /\ t.at = "history" => ~Adrift(t.id) /\ Foretold(t, rows[t.id])

Lone(h) == \A g \in Workers : task[g].id = task[h].id => g = h

PaidFor == Cardinality(Bad) + Cardinality(Workers) <= overlaps + failures

Hopeful ==
    /\ Quiet /\ Workers # {}
    /\ Cardinality(Bad) + Cardinality(Workers) <= overlaps + failures + 1
    /\ \A h \in Workers : Lone(h) => Promising(task[h])

Ledger == IsFiniteSet(Bad) /\ IsFiniteSet(Workers) /\ (PaidFor \/ Hopeful)

\* No history precedes its employee.
Begun ==
    /\ \A e \in Employees, k \in Histories : rows[e] = None => latest[e][k] = None
    /\ \A h \in Handlers : At(h, "history") => rows[task[h].id] # None

HistoryInv == Begun /\ Ledger

-----------------------------------------------------------------------------
LEMMA LedgerCards ==
    ASSUME Ledger, NEW B, NEW W, NEW e, NEW h,
           B \subseteq Bad \cup {e}, W \subseteq Workers \cup {h}
    PROVE  /\ IsFiniteSet(B) /\ IsFiniteSet(W) /\ IsFiniteSet(Bad) /\ IsFiniteSet(Workers)
           /\ Cardinality(B) \in Nat /\ Cardinality(W) \in Nat
           /\ Cardinality(Bad) \in Nat /\ Cardinality(Workers) \in Nat
           /\ Cardinality(B) <= Cardinality(Bad) + 1
           /\ Cardinality(W) <= Cardinality(Workers) + 1
           /\ B \subseteq Bad => Cardinality(B) <= Cardinality(Bad)
           /\ W \subseteq Workers => Cardinality(W) <= Cardinality(Workers)
           /\ e \in Bad /\ B \subseteq Bad \ {e} => Cardinality(B) <= Cardinality(Bad) - 1
           /\ h \in Workers /\ W \subseteq Workers \ {h} =>
                  Cardinality(W) <= Cardinality(Workers) - 1
<1>1. ASSUME NEW S, IsFiniteSet(S), NEW x, NEW T, T \subseteq S \cup {x}
      PROVE  /\ IsFiniteSet(T) /\ Cardinality(T) \in Nat /\ Cardinality(S) \in Nat
             /\ Cardinality(T) <= Cardinality(S) + 1
             /\ T \subseteq S => Cardinality(T) <= Cardinality(S)
             /\ x \in S /\ T \subseteq S \ {x} => Cardinality(T) <= Cardinality(S) - 1
  <2>1. /\ IsFiniteSet(S \cup {x}) /\ Cardinality(S \cup {x}) <= Cardinality(S) + 1
        /\ Cardinality(S) \in Nat
    BY <1>1, FS_AddElement, FS_CardinalityType
  <2>2. /\ IsFiniteSet(T) /\ Cardinality(T) <= Cardinality(S \cup {x})
        /\ Cardinality(S \cup {x}) \in Nat /\ Cardinality(T) \in Nat
    BY <1>1, <2>1, SubsetCards
  <2>3. T \subseteq S => Cardinality(T) <= Cardinality(S)
    BY <1>1, SubsetCards
  <2>4. ASSUME x \in S, T \subseteq S \ {x}
        PROVE  Cardinality(T) <= Cardinality(S) - 1
    <3>1. IsFiniteSet(S \ {x}) /\ Cardinality(S \ {x}) = Cardinality(S) - 1
      BY <1>1, <2>4, FS_RemoveElement
    <3>2. Cardinality(T) <= Cardinality(S \ {x})
      BY <2>4, <3>1, SubsetCards
    <3> QED BY <3>1, <3>2
  <2> QED BY <2>1, <2>2, <2>3, <2>4
<1>2. IsFiniteSet(Bad) /\ IsFiniteSet(Workers)
  BY DEF Ledger
<1>3. /\ IsFiniteSet(B) /\ Cardinality(B) \in Nat /\ Cardinality(Bad) \in Nat
      /\ Cardinality(B) <= Cardinality(Bad) + 1
      /\ B \subseteq Bad => Cardinality(B) <= Cardinality(Bad)
      /\ e \in Bad /\ B \subseteq Bad \ {e} => Cardinality(B) <= Cardinality(Bad) - 1
  BY <1>1, <1>2
<1>4. /\ IsFiniteSet(W) /\ Cardinality(W) \in Nat /\ Cardinality(Workers) \in Nat
      /\ Cardinality(W) <= Cardinality(Workers) + 1
      /\ W \subseteq Workers => Cardinality(W) <= Cardinality(Workers)
      /\ h \in Workers /\ W \subseteq Workers \ {h} => Cardinality(W) <= Cardinality(Workers) - 1
  BY <1>1, <1>2
<1> QED BY <1>2, <1>3, <1>4

\* A step that ends no request about an employee, nor begins one.
LEMMA LedgerKept ==
    ASSUME Ledger, overlaps \in Nat, failures \in Nat, Bad' \subseteq Bad, Workers' = Workers,
           UNCHANGED <<overlaps, failures>>,
           Hopeful => Quiet' /\ \A g \in Workers' : Lone(g)' => Promising(task[g])'
    PROVE  Ledger'
<1>1. PICK x, B, W : B = Bad' /\ W = Workers' /\ x = Bad
  OBVIOUS
<1>2. /\ IsFiniteSet(B) /\ IsFiniteSet(W)
      /\ Cardinality(B) \in Nat /\ Cardinality(W) \in Nat
      /\ Cardinality(Bad) \in Nat /\ Cardinality(Workers) \in Nat
      /\ Cardinality(B) <= Cardinality(Bad) /\ Cardinality(W) <= Cardinality(Workers)
  BY <1>1, LedgerCards
<1>3. PaidFor => PaidFor'
  BY <1>1, <1>2 DEF PaidFor
<1>4. Hopeful => Hopeful'
  BY <1>1, <1>2 DEF Hopeful
<1> QED BY <1>1, <1>2, <1>3, <1>4 DEF Ledger

\* A request about an employee is done.
LEMMA LedgerEnds ==
    ASSUME Ledger, overlaps \in Nat, failures \in Nat, NEW h \in Workers, NEW e,
           Workers' = Workers \ {h}, Bad' \subseteq Bad \cup {e}, Hopeful => Bad' \subseteq Bad,
           UNCHANGED <<overlaps, failures>>
    PROVE  Ledger'
<1>1. PICK B, W : B = Bad' /\ W = Workers'
  OBVIOUS
<1>2. /\ IsFiniteSet(B) /\ IsFiniteSet(W)
      /\ Cardinality(B) \in Nat /\ Cardinality(W) \in Nat
      /\ Cardinality(Bad) \in Nat /\ Cardinality(Workers) \in Nat
      /\ Cardinality(B) <= Cardinality(Bad) + 1
      /\ B \subseteq Bad => Cardinality(B) <= Cardinality(Bad)
      /\ Cardinality(W) <= Cardinality(Workers) - 1
  BY <1>1, LedgerCards
<1>3. PaidFor => PaidFor'
  BY <1>1, <1>2 DEF PaidFor
<1>4. Hopeful => PaidFor'
  BY <1>1, <1>2 DEF Hopeful, PaidFor
<1> QED BY <1>1, <1>2, <1>3, <1>4 DEF Ledger

\* An overlap, or a handler that dies, pays for the request it ends or for the first one.
LEMMA LedgerPays ==
    ASSUME Ledger, overlaps \in Nat, failures \in Nat, NEW h, NEW e,
           \/ Bad' \subseteq Bad /\ Workers' = Workers
           \/ h \in Workers /\ Bad' \subseteq Bad \cup {e} /\ Workers' = Workers \ {h},
           overlaps' \in Nat, failures' \in Nat,
           overlaps' + failures' = overlaps + failures + 1
    PROVE  Ledger'
<1>1. PICK B, W : B = Bad' /\ W = Workers'
  OBVIOUS
<1>2. /\ IsFiniteSet(B) /\ IsFiniteSet(W)
      /\ Cardinality(B) \in Nat /\ Cardinality(W) \in Nat
      /\ Cardinality(Bad) \in Nat /\ Cardinality(Workers) \in Nat
      /\ Cardinality(B) + Cardinality(W) <= Cardinality(Bad) + Cardinality(Workers)
  <2>1. B \subseteq Bad \cup {e} /\ W \subseteq Workers \cup {h}
    BY <1>1
  <2>2. /\ IsFiniteSet(B) /\ IsFiniteSet(W)
        /\ Cardinality(B) \in Nat /\ Cardinality(W) \in Nat
        /\ Cardinality(Bad) \in Nat /\ Cardinality(Workers) \in Nat
        /\ Cardinality(B) <= Cardinality(Bad) + 1
        /\ B \subseteq Bad => Cardinality(B) <= Cardinality(Bad)
        /\ W \subseteq Workers => Cardinality(W) <= Cardinality(Workers)
        /\ h \in Workers /\ W \subseteq Workers \ {h} =>
               Cardinality(W) <= Cardinality(Workers) - 1
    BY <2>1, LedgerCards
  <2>3. CASE Bad' \subseteq Bad /\ Workers' = Workers
    BY <1>1, <2>2, <2>3
  <2>4. CASE h \in Workers /\ Bad' \subseteq Bad \cup {e} /\ Workers' = Workers \ {h}
    BY <1>1, <2>2, <2>4
  <2> QED BY <2>2, <2>3, <2>4
<1>3. Cardinality(Bad) + Cardinality(Workers) <= overlaps + failures + 1
  BY <1>2 DEF Ledger, PaidFor, Hopeful
<1>4. PaidFor'
  <2>1. Cardinality(B) + Cardinality(W) <= overlaps' + failures'
    <3>1. PICK m \in Nat, n \in Nat : /\ m = Cardinality(B) + Cardinality(W)
                                     /\ n = Cardinality(Bad) + Cardinality(Workers)
      BY <1>2
    <3>2. m <= n
      BY <1>2, <3>1
    <3>3. n <= overlaps' + failures'
      BY <1>3, <3>1
    <3> QED BY <3>1, <3>2, <3>3
  <2> QED BY <1>1, <2>1 DEF PaidFor
<1> QED BY <1>1, <1>2, <1>4 DEF Ledger

\* A request about e arrives.
LEMMA LedgerBegins ==
    ASSUME Ledger, overlaps \in Nat, failures \in Nat, NEW h, h \notin Workers, NEW e,
           Workers' = Workers \cup {h}, Bad' \subseteq Bad \ {e}, failures' = failures,
           \/ overlaps' = overlaps + 1
           \/ overlaps' = overlaps /\ Workers = {},
           (Hopeful \/ Workers = {}) /\ e \notin Bad =>
               Quiet' /\ \A g \in Workers' : Lone(g)' => Promising(task[g])'
    PROVE  Ledger'
<1>1. PICK B, W : B = Bad' /\ W = Workers'
  OBVIOUS
<1>2. /\ IsFiniteSet(B) /\ IsFiniteSet(W)
      /\ Cardinality(B) \in Nat /\ Cardinality(W) \in Nat
      /\ Cardinality(Bad) \in Nat /\ Cardinality(Workers) \in Nat
      /\ Cardinality(B) <= Cardinality(Bad)
      /\ e \in Bad => Cardinality(B) <= Cardinality(Bad) - 1
      /\ Cardinality(W) <= Cardinality(Workers) + 1
  <2>1. B \subseteq Bad /\ B \subseteq Bad \ {e} /\ W \subseteq Workers \cup {h}
    BY <1>1
  <2> QED BY <2>1, LedgerCards
<1>3. Workers = {} => PaidFor
  BY DEF Ledger, Hopeful
<1>4. CASE PaidFor /\ overlaps' = overlaps + 1
  <2>1. PaidFor'
    BY <1>1, <1>2, <1>4 DEF PaidFor
  <2> QED BY <1>1, <1>2, <2>1 DEF Ledger
<1>5. CASE e \in Bad
  <2>1. PaidFor'
    BY <1>1, <1>2, <1>3, <1>5 DEF PaidFor, Hopeful, Ledger
  <2> QED BY <1>1, <1>2, <2>1 DEF Ledger
<1>6. CASE e \notin Bad /\ (Hopeful \/ Workers = {})
  <2>1. Cardinality(B) + Cardinality(W) <= overlaps' + failures' + 1
    BY <1>2, <1>3, <1>6 DEF PaidFor, Hopeful
  <2>2. Hopeful'
    BY <1>1, <1>6, <2>1 DEF Hopeful
  <2> QED BY <1>1, <1>2, <2>2 DEF Ledger
<1> QED BY <1>4, <1>5, <1>6 DEF Ledger

-----------------------------------------------------------------------------
\* The employees h is not about.
LEMMA Undisturbed ==
    ASSUME Typed, NEW h \in Handlers, Leaves(h), NEW e \in Employees,
           ~(At(h, "save") /\ task[h].id = e), latest'[e] = latest[e], edited \subseteq edited'
    PROVE  /\ rows'[e] = rows[e]
           /\ Adrift(e)' => Adrift(e)
           /\ Wrong(e)' => Wrong(e)
<1>1. e \in Ids /\ rows'[e] = rows[e]
  BY IdTables DEF Leaves
<1>2. ASSUME NEW y \in Ids, rows[e] # None, RefersTo(rows[e], y),
             rows'[y] = None \/ <<e, y>> \in Lost'
      PROVE  rows[y] = None \/ <<e, y>> \in Lost
  BY <1>1, <1>2 DEF Leaves
<1>3. Adrift(e)' => Adrift(e)
  <2> SUFFICES ASSUME Adrift(e)' PROVE Adrift(e)
    OBVIOUS
  <2>1. PICK y \in Ids : /\ rows'[e] # None /\ RefersTo(rows'[e], y)
                         /\ rows'[y] = None \/ <<e, y>> \in Lost'
    BY DEF Adrift
  <2> QED BY <1>1, <1>2, <2>1 DEF Adrift
<1>4. \A k : Explained(e, k) => Explained(e, k)'
  BY DEF Explained
<1>5. \A k : Agrees(latest[e][k], rows[e][k]) => Agrees(latest[e][k], rows[e][k])'
  BY <1>1 DEF Agrees
<1>6. Wrong(e)' => Wrong(e)
  <2> SUFFICES ASSUME Wrong(e)' PROVE Wrong(e)
    OBVIOUS
  <2>1. rows[e] # None
    BY <1>1 DEF Wrong
  <2>2. CASE Adrift(e)'
    BY <1>3, <2>1, <2>2 DEF Wrong
  <2>3. CASE ~Adrift(e)'
    <3>1. PICK k \in Histories : ~Explained(e, k)' /\ ~Agrees(latest[e][k], rows[e][k])'
      BY <2>3 DEF Wrong
    <3> QED BY <1>4, <1>5, <2>1, <3>1 DEF Wrong
  <2> QED BY <2>2, <2>3
<1> QED BY <1>1, <1>3, <1>6

\* What nothing is lost from makes the row whole.
LEMMA IntactUnlessAdrift ==
    ASSUME Typed, NEW e \in Employees, ~Wrong(e) \/ ~Adrift(e)
    PROVE  Intact(e)
<1> SUFFICES ASSUME rows[e] # None, NEW column \in References(e), rows[e][column] \in Ids
             PROVE  Live(rows[e][column])
  BY DEF Intact
<1>1. ~Adrift(e)
  BY DEF Wrong
<1>2. PICK y \in Ids : y = rows[e][column]
  OBVIOUS
<1>3. /\ e \in Ids /\ e \in Referring /\ IsRow(e, rows[e]) /\ Values(e, "live") = {TRUE}
  BY EmployeeFacts DEF Typed, Stored
<1>4. RefersTo(rows[e], y) /\ Live(e)
  BY <1>2, <1>3, RowFacts, LiveValue DEF RefersTo, Live, IsRow
<1>5. rows[y] # None /\ <<e, y>> \notin Lost
  BY <1>1, <1>4 DEF Adrift
<1>6. ~Deleted(y)
  BY <1>3, <1>4, <1>5 DEF Lost
<1> QED BY <1>2, <1>5, <1>6 DEF Deleted, Live

\* What a request tells when it arrives is foretold.
LEMMA AskedPromises ==
    ASSUME Typed, Begun, NEW h \in Handlers, NEW n, NewCopy(n), Announces(n), Arrive(h, n),
           Leaves(h), latest' = latest, edited \subseteq edited', ~Wrong(n.id)
    PROVE  Promising(n)'
<1>1. /\ rows' = rows /\ n.at \in {"find", "existing", "save"} /\ n.at # "history"
      /\ task[h].at = "idle"
  BY DEF Arrive, Ready, At, NewCopy, Copies
<1>2. PICK e \in Employees : e = n.id
  BY DEF Announces
<1>3. Intact(e)
  BY <1>2, IntactUnlessAdrift
<1>4. ~Wrong(e)'
  BY <1>1, <1>2, Undisturbed DEF At
<1>5. \A id : Live(id)' = Live(id)
  BY <1>1 DEF Live
<1>6. PICK w : w = Written(e, n.row) /\ w = Written(e, n.row)'
  BY <1>1 DEF Written
<1>7. ASSUME NEW entry \in Names(n.entries)
      PROVE  /\ entry.find # None => Live(entry.find)'
             /\ entry.to \in {None, w[entry.history]}
  BY <1>2, <1>3, <1>5, <1>6, <1>7 DEF Announces
<1>8. ASSUME NEW k \in Histories
      PROVE  \/ Explained(e, k)'
             \/ \E entry \in Names(n.entries) : entry.history = k
             \/ Agrees(latest'[e][k], w[k])
  <2>1. CASE \E entry \in Names(n.entries) : entry.history = k
    BY <2>1
  <2>2. CASE k = "status" /\ e \in edited'
    BY <2>2 DEF Explained
  <2>3. CASE w[k] = IF rows[e] = None THEN None ELSE rows[e][k]
    <3>1. CASE rows[e] = None
      BY <2>3, <3>1 DEF Begun, Agrees
    <3>2. CASE rows[e] # None
      <4>1. Explained(e, k) \/ Agrees(latest[e][k], rows[e][k])
        BY <1>2, <3>2 DEF Wrong
      <4>2. Explained(e, k) => Explained(e, k)'
        BY DEF Explained
      <4> QED BY <2>3, <3>2, <4>1, <4>2
    <3> QED BY <3>1, <3>2
  <2> QED BY <1>2, <1>3, <1>6, <2>1, <2>2, <2>3 DEF Announces
<1>9. Foretold(n, Written(n.id, n.row))'
  BY <1>2, <1>6, <1>7, <1>8 DEF Foretold
<1> QED BY <1>1, <1>2, <1>4, <1>9 DEF Promising

\* What somebody else has promised stays true while all is quiet.
LEMMA PromiseKept ==
    ASSUME Typed, Quiet, NEW h \in Handlers, Leaves(h), NEW g \in Workers,
           ~(At(h, "save") /\ task[h].id = task[g].id),
           latest'[task[g].id] = latest[task[g].id], edited \subseteq edited',
           task'[g] = task[g], Promising(task[g])
    PROVE  Promising(task[g])'
<1>1. PICK t : t = task[g]
  OBVIOUS
<1>2. PICK e \in Employees : e = t.id
  BY <1>1 DEF Workers
<1>3. /\ rows'[e] = rows[e] /\ latest'[e] = latest[e]
      /\ Adrift(e)' => Adrift(e)
      /\ Wrong(e)' => Wrong(e)
  BY <1>1, <1>2, Undisturbed
<1>4. TaskTyped(t)
  BY <1>1 DEF Typed, Workers
<1>5. ASSUME NEW row, Foretold(t, row),
             t.at \in {"find", "save", "history"}
      PROVE  /\ \A entry \in Names(t.entries) :
                    /\ entry.find # None => Live(entry.find)'
                    /\ entry.to \in {None, row[entry.history]}
             /\ \A k \in Histories :
                    \/ Explained(e, k)'
                    \/ \E entry \in Names(t.entries) : entry.history = k
                    \/ Agrees(latest'[e][k], row[k])
  <2>1. t.entries \in Seq(EntryToWrite)
    BY <1>4, <1>5, TaskStages DEF Copies, Records, EntriesTyped
  <2>2. ASSUME NEW entry \in Names(t.entries), entry.find # None
        PROVE  Live(entry.find)'
    <3>1. entry \in EntryToWrite
      BY <2>1, <2>2 DEF Names
    <3>2. entry.find \in Ids
      BY <2>2, <3>1 DEF EntryToWrite, Opt
    <3>3. Live(entry.find)
      BY <1>5, <2>2 DEF Foretold
    <3>4. PICK y \in Ids : y = entry.find
      BY <3>2
    <3>5. Live(y)'
      BY <3>3, <3>4 DEF Leaves
    <3> QED BY <3>4, <3>5
  <2>3. \A k : Explained(e, k) => Explained(e, k)'
    BY DEF Explained
  <2> QED BY <1>2, <1>3, <1>5, <2>2, <2>3 DEF Foretold
<1>6. Promising(t)'
  <2>1. ASSUME t.at \in {"find", "save"}
        PROVE  ~Wrong(e)' /\ Foretold(t, Written(t.id, t.row))'
    <3>1. ~Wrong(e) /\ Foretold(t, Written(t.id, t.row))
      BY <1>1, <1>2, <2>1 DEF Promising
    <3>2. PICK w : w = Written(t.id, t.row) /\ w = Written(t.id, t.row)'
      BY <1>2, <1>3 DEF Written
    <3>3. Foretold(t, w)
      BY <3>1, <3>2
    <3>4. Foretold(t, w)'
      BY <1>2, <1>5, <2>1, <3>3 DEF Foretold
    <3> QED BY <1>3, <3>1, <3>2, <3>4
  <2>2. ASSUME t.at = "history"
        PROVE  ~Adrift(e)' /\ Foretold(t, rows[t.id])'
    <3>1. ~Adrift(e) /\ Foretold(t, rows[e])
      BY <1>1, <1>2, <2>2 DEF Promising
    <3>2. PICK w : w = rows[e] /\ w = rows'[e]
      BY <1>3
    <3>3. Foretold(t, w)'
      BY <1>2, <1>5, <2>2, <3>1, <3>2 DEF Foretold
    <3> QED BY <1>2, <1>3, <3>1, <3>2, <3>3
  <2> QED BY <1>2, <2>1, <2>2 DEF Promising
<1> QED BY <1>1, <1>6

-----------------------------------------------------------------------------
\* A call of a request under way.
LEMMA LedgerStep ==
    ASSUME Typed, Counts, Ledger, NEW h \in Handlers, Leaves(h), Busy(h), Quiet => Quiet',
           NEW id, id = task[h].id, NEW n, task'[h] = n, UNCHANGED <<overlaps, failures, edited>>,
           n.at # "idle" => n.id = id \/ {n.id, id} \cap Employees = {},
           \A e \in Employees : e # id => latest'[e] = latest[e],
           id \in Employees /\ Quiet /\ Promising(task[h]) =>
               \/ n.at # "idle" /\ Promising(n)'
               \/ n.at = "idle" /\ ~Wrong(id)'
    PROVE  Ledger'
<1>1. overlaps \in Nat /\ failures \in Nat
  BY DEF Counts
<1>2. \A g \in Handlers : g # h => task'[g] = task[g]
  BY DEF Leaves
<1>3. id = task[h].id
  OBVIOUS
<1>4. ASSUME NEW e \in Employees, e \in Bad', e # id PROVE e \in Bad
  <2>1. Wrong(e)
    BY <1>3, <1>4, Undisturbed DEF Bad
  <2>2. ASSUME NEW g \in Handlers, Busy(g), task[g].id = e PROVE FALSE
    <3>1. g # h /\ task'[g] = task[g]
      BY <1>2, <1>3, <1>4, <2>2
    <3>2. Settling(e)'
      BY <2>2, <3>1 DEF Settling, Busy
    <3> QED BY <1>4, <3>2 DEF Bad
  <2> QED BY <2>1, <2>2 DEF Bad, Settling
<1>5. \A g \in Handlers : g # h => (g \in Workers' <=> g \in Workers)
  BY <1>2 DEF Workers, Busy
<1>6. ASSUME NEW g \in Workers, g # h, task[g].id # id, Quiet, Promising(task[g])
      PROVE  Promising(task[g])'
  <2>1. task[g].id \in Employees /\ g \in Handlers
    BY DEF Workers
  <2> QED BY <1>2, <1>3, <1>6, <2>1, PromiseKept
<1>7. CASE h \notin Workers
  <2>1. id \notin Employees
    BY <1>3, <1>7 DEF Workers
  <2>2. Workers' = Workers
    <3>1. h \notin Workers'
      BY <1>3, <2>1 DEF Workers, Busy
    <3>2. \A g : g \in Workers => g \in Handlers
      BY DEF Workers
    <3>3. \A g : g \in Workers' => g \in Handlers
      BY DEF Workers
    <3> QED BY <1>5, <1>7, <3>1, <3>2, <3>3
  <2>3. Bad' \subseteq Bad
    BY <1>4, <2>1 DEF Bad
  <2>4. ASSUME Hopeful PROVE Quiet' /\ \A g \in Workers' : Lone(g)' => Promising(task[g])'
    <3>1. ASSUME NEW g \in Workers', Lone(g)' PROVE Promising(task[g])'
      <4>1. g \in Workers /\ g \in Handlers /\ g # h /\ task[g].id \in Employees
        BY <1>7, <2>2, <3>1 DEF Workers
      <4>2. ASSUME NEW f \in Workers PROVE f # h /\ f \in Handlers /\ task'[f] = task[f]
        BY <1>2, <1>7, <4>2 DEF Workers
      <4>3. Lone(g)
        BY <2>2, <3>1, <4>1, <4>2 DEF Lone
      <4> QED BY <1>6, <2>1, <2>4, <4>1, <4>3 DEF Hopeful
    <3> QED BY <2>4, <3>1 DEF Hopeful
  <2> QED BY <1>1, <2>2, <2>3, <2>4, LedgerKept
<1>8. CASE h \in Workers /\ n.at # "idle"
  <2>1. id \in Employees /\ n.id = id
    BY <1>3, <1>8 DEF Workers
  <2>2. Workers' = Workers
    <3>1. h \in Workers'
      BY <1>8, <2>1 DEF Workers, Busy
    <3>2. \A g : g \in Workers => g \in Handlers
      BY DEF Workers
    <3>3. \A g : g \in Workers' => g \in Handlers
      BY DEF Workers
    <3> QED BY <1>5, <1>8, <3>1, <3>2, <3>3
  <2>3. Bad' \subseteq Bad
    <3>1. Settling(id)'
      BY <1>8, <2>1 DEF Settling, Busy
    <3> QED BY <1>4, <3>1 DEF Bad
  <2>4. ASSUME Hopeful PROVE Quiet' /\ \A g \in Workers' : Lone(g)' => Promising(task[g])'
    <3>1. ASSUME NEW g \in Workers', Lone(g)' PROVE Promising(task[g])'
      <4>1. g \in Workers /\ g \in Handlers
        BY <2>2, <3>1 DEF Workers
      <4>2. ASSUME NEW f \in Workers PROVE task'[f].id = task[f].id
        BY <1>2, <1>3, <2>1, <4>2 DEF Workers
      <4>3. Lone(g)
        BY <2>2, <3>1, <4>1, <4>2 DEF Lone
      <4>4. Promising(task[g]) /\ Quiet
        BY <2>4, <4>1, <4>3 DEF Hopeful
      <4>5. CASE g = h
        BY <1>3, <1>8, <2>1, <4>4, <4>5
      <4>6. CASE g # h
        <5>1. task[g].id # id
          BY <1>3, <1>8, <4>1, <4>3, <4>6 DEF Lone
        <5> QED BY <1>6, <4>1, <4>4, <4>6, <5>1
      <4> QED BY <4>5, <4>6
    <3> QED BY <2>4, <3>1 DEF Hopeful
  <2> QED BY <1>1, <2>2, <2>3, <2>4, LedgerKept
<1>9. CASE h \in Workers /\ n.at = "idle"
  <2>1. id \in Employees
    BY <1>3, <1>9 DEF Workers
  <2>2. Workers' = Workers \ {h}
    <3>1. h \notin Workers'
      BY <1>9 DEF Workers, Busy
    <3>2. \A g : g \in Workers => g \in Handlers
      BY DEF Workers
    <3>3. \A g : g \in Workers' => g \in Handlers
      BY DEF Workers
    <3> QED BY <1>5, <3>1, <3>2, <3>3
  <2>3. Bad' \subseteq Bad \cup {id}
    BY <1>4 DEF Bad
  <2>4. ASSUME Hopeful PROVE id \notin Bad'
    <3>1. CASE Lone(h)
      <4>1. Promising(task[h]) /\ Quiet
        BY <1>9, <2>4, <3>1 DEF Hopeful
      <4>2. ~Wrong(id)'
        BY <1>3, <1>9, <2>1, <4>1
      <4> QED BY <4>2 DEF Bad
    <3>2. CASE ~Lone(h)
      <4>1. PICK g \in Workers : task[g].id = id /\ g # h
        BY <1>3, <3>2 DEF Lone
      <4>2. g \in Handlers /\ Busy(g) /\ task'[g] = task[g]
        BY <1>2, <4>1 DEF Workers
      <4>3. Settling(id)'
        BY <4>1, <4>2 DEF Settling, Busy
      <4> QED BY <4>3 DEF Bad
    <3> QED BY <3>1, <3>2
  <2> QED BY <1>1, <1>9, <2>2, <2>3, <2>4, LedgerEnds
<1> QED BY <1>7, <1>8, <1>9

\* A call that saves no row.
LEMMA LedgerRead ==
    ASSUME Typed, Counts, Serial, Books, Ledger, NEW h \in Handlers, Busy(h),
           NEW id, id = task[h].id, NEW n, Progress(task[h], n), Read(h, n),
           UNCHANGED <<failures, edited>>,
           \A e \in Employees : e # id => latest'[e] = latest[e],
           id \in Employees /\ Quiet /\ Promising(task[h]) /\ Leaves(h) =>
               \/ n.at # "idle" /\ Promising(n)'
               \/ n.at = "idle" /\ ~Wrong(id)'
    PROVE  Ledger'
<1>1. Leaves(h) /\ (Quiet => Quiet') /\ UNCHANGED <<rows, requests, overlaps>>
  BY ReadKeeps
<1>2. task'[h] = n
  BY DEF Read, Continue, Typed
<1>3. n.at # "idle" => n.id = id \/ {n.id, id} \cap Employees = {}
  BY NotEmployees DEF Progress
<1> QED BY <1>1, <1>2, <1>3, LedgerStep

\* What is foretold of a row stays true while all is quiet.
LEMMA StillForetold ==
    ASSUME Typed, Quiet, NEW h \in Handlers, Leaves(h), NEW t, NEW n, NEW row,
           t.entries \in Seq(EntryToWrite), Foretold(t, row),
           n.id = t.id, n.entries = t.entries,
           latest'[t.id] = latest[t.id], edited \subseteq edited'
    PROVE  Foretold(n, row)'
<1>1. ASSUME NEW entry \in Names(t.entries)
      PROVE  /\ entry.find # None => Live(entry.find)'
             /\ entry.to \in {None, row[entry.history]}
  <2>1. entry.find \in Opt(Ids)
    <3>1. entry \in EntryToWrite
      BY <1>1 DEF Names
    <3> QED BY <3>1 DEF EntryToWrite
  <2>2. PICK y \in Opt(Ids) : y = entry.find
    BY <2>1
  <2>3. y # None => Live(y)
    BY <2>2 DEF Foretold
  <2>4. y # None => Live(y)'
    BY <2>3 DEF Leaves, Opt
  <2> QED BY <2>2, <2>4 DEF Foretold
<1>2. \A k : Explained(t.id, k) => Explained(t.id, k)'
  BY DEF Explained
<1>3. ASSUME NEW k \in Histories
      PROVE  \/ Explained(t.id, k)'
             \/ \E entry \in Names(t.entries) : entry.history = k
             \/ Agrees(latest'[t.id][k], row[k])
  BY <1>2 DEF Foretold
<1> QED BY <1>1, <1>3 DEF Foretold

\* A look-up: the request goes on as it was, or fails.
LEMMA LedgerFinds ==
    ASSUME Typed, Counts, Serial, Books, Ledger, NEW h \in Handlers, FindNext(h),
           UNCHANGED <<latest, failures, edited>>
    PROVE  Ledger'
<1>1. PICK t : t = task[h]
  OBVIOUS
<1>2. t.at = "find" /\ Copies(t) /\ t.todo # <<>> /\ Busy(h)
  BY <1>1, TaskStages DEF Typed, FindNext, At, Copies, Busy
<1>3. PICK n : n = IF Found(t) THEN Looked(t) ELSE Idle
  OBVIOUS
<1>4. Read(h, n)
  BY <1>1, <1>3 DEF FindNext
<1>5. Found(t) => /\ Copies(n) /\ n.id = t.id /\ n.row = t.row /\ n.entries = t.entries
                  /\ n.at \in {"find", "existing", "save"}
                  /\ Sound(t) => Sound(n)
  BY <1>2, <1>3, LookedUp
<1>6. Progress(t, n)
  BY <1>2, <1>3, <1>5, StopsProgress DEF Progress, TaskTyped, Saving, Removing, Sound
<1>7. ASSUME t.id \in Employees, Quiet, Promising(t), Leaves(h)
      PROVE  \/ n.at # "idle" /\ Promising(n)'
             \/ n.at = "idle" /\ ~Wrong(t.id)'
  <2>1. PICK e \in Employees : e = t.id
    BY <1>7
  <2>2. ~Wrong(e) /\ Foretold(t, Written(t.id, t.row))
    BY <1>2, <1>7, <2>1 DEF Promising
  <2>3. ~Wrong(e)'
    BY <1>1, <1>2, <1>7, <2>1, <2>2, Undisturbed DEF At
  <2>4. CASE Found(t)
    <3>1. PICK w : w = Written(t.id, t.row)
      OBVIOUS
    <3>2. rows' = rows
      BY <1>4 DEF Read
    <3>3. w = Written(n.id, n.row)'
      BY <1>5, <2>4, <3>1, <3>2 DEF Written
    <3>4. t.entries \in Seq(EntryToWrite)
      BY <1>2 DEF Copies, EntriesTyped
    <3>5. Foretold(n, w)'
      BY <1>5, <1>7, <2>2, <2>4, <3>1, <3>4, StillForetold
    <3>6. PICK v : v = Written(n.id, n.row)' /\ v = w
      BY <3>3
    <3>7. n.at # "history" /\ n.at # "idle"
      BY <1>5, <2>4
    <3> QED BY <1>5, <2>1, <2>3, <2>4, <3>3, <3>5, <3>7 DEF Promising
  <2>5. CASE ~Found(t)
    BY <1>3, <2>1, <2>3, <2>5 DEF Idle
  <2> QED BY <2>4, <2>5
<1>8. PICK id : id = t.id
  OBVIOUS
<1>9. id \in Employees /\ Quiet /\ Promising(task[h]) /\ Leaves(h) =>
          \/ n.at # "idle" /\ Promising(n)'
          \/ n.at = "idle" /\ ~Wrong(id)'
  BY <1>1, <1>7, <1>8
<1> QED BY <1>1, <1>2, <1>4, <1>6, <1>8, <1>9, LedgerRead

\* The calls of the other tables' requests.
LEMMA LedgerElse ==
    ASSUME Typed, Counts, Serial, Books, Ledger, NEW h \in Handlers,
           FindExisting(h) \/ FindChild(h) \/ Count(h),
           UNCHANGED <<latest, failures, edited>>
    PROVE  Ledger'
<1>1. \E n : Progress(task[h], n) /\ Read(h, n)
  BY FindExistingProgress, FindChildProgress, CountProgress
<1>2. PICK n : Progress(task[h], n) /\ Read(h, n)
  BY <1>1
<1>3. PICK id : id = task[h].id
  OBVIOUS
<1>4. Busy(h) /\ id \notin Employees
  BY <1>3, TaskStages, NotEmployees, EmployeeFacts
     DEF Typed, FindExisting, FindChild, Count, At, Busy, Copies, FindsChild, Removes
<1> QED BY <1>2, <1>3, <1>4, LedgerRead

LEMMA LedgerDeletes ==
    ASSUME Typed, Counts, Serial, Books, Ledger, NEW h \in Handlers, Delete(h),
           UNCHANGED <<latest, failures, edited>>
    PROVE  Ledger'
<1>1. Leaves(h) /\ (Quiet => Quiet') /\ overlaps' = overlaps
  BY DeleteKeeps
<1>2. PICK id : id = task[h].id
  OBVIOUS
<1>3. Busy(h) /\ id \notin Employees
  BY <1>2, TaskStages, EmployeeFacts DEF Typed, Delete, At, Busy, Removes
<1>4. task'[h] = Idle /\ Idle.at = "idle"
  BY DEF Delete, Write, Continue, Typed, Idle
<1> QED BY <1>1, <1>2, <1>3, <1>4, LedgerStep

\* The save of an employee: its entries are still to follow.
LEMMA LedgerSaves ==
    ASSUME Typed, Counts, Serial, Books, Ledger, NEW h \in Handlers, Save(h),
           UNCHANGED <<latest, failures, edited>>
    PROVE  Ledger'
<1>1. Leaves(h) /\ (Quiet => Quiet') /\ overlaps' = overlaps
  BY SaveKeeps
<1>2. PICK t : t = task[h]
  OBVIOUS
<1>3. /\ t.at = "save" /\ Copies(t) /\ t.todo = <<>> /\ IsCopy(t.id, t.row) /\ t.id \in Ids
      /\ t.entries \in Seq(EntryToWrite) /\ Busy(h) /\ Copying(h)
  BY <1>2, TaskStages DEF Typed, Save, At, Copies, EntriesTyped, Busy, Copying
<1>4. PICK n : n = IF Unique(t.id, t.row) /\ t.entries # <<>>
                   THEN [at |-> "history", id |-> t.id, entries |-> t.entries] ELSE Idle
  OBVIOUS
<1>5. task'[h] = n
  BY <1>2, <1>4 DEF Save, Write, Read, Continue, Typed
<1>6. PICK id : id = t.id
  OBVIOUS
<1>7. ASSUME id \in Employees, Quiet, Promising(t)
      PROVE  \/ n.at # "idle" /\ Promising(n)'
             \/ n.at = "idle" /\ ~Wrong(id)'
  <2>1. PICK w : w = Written(id, t.row)
    OBVIOUS
  <2>2. id \notin Assignments /\ id \in Referring
    BY <1>7, NotEmployees, EmployeeFacts
  <2>3. rows'[id] = w
    <3>1. Unique(t.id, t.row)
      BY <1>6, <2>2 DEF Unique
    <3>2. rows' = [rows EXCEPT ![id] = w]
      BY <1>2, <1>6, <2>1, <3>1 DEF Save, Write
    <3> QED BY <1>3, <1>6, <3>2 DEF Typed
  <2>4. /\ IsRow(id, w) /\ w # None /\ Columns(w) = References(id)
        /\ \A column \in References(id) :
               w[column] = IF t.row[column] # Same THEN t.row[column]
                           ELSE IF rows[id] = None THEN None ELSE rows[id][column]
    <3>1. PICK row : row = t.row
      OBVIOUS
    <3>2. id \in Ids /\ IsCopy(id, row) /\ Stored(id)
      BY <1>3, <1>6, <3>1 DEF Typed
    <3>3. /\ IsRow(id, w)
          /\ \A column \in References(id) :
                 w[column] = IF row[column] # Same THEN row[column]
                             ELSE IF rows[id] = None THEN None ELSE rows[id][column]
      <4>1. w = Written(id, row)
        BY <2>1, <3>1
      <4>2. /\ IsRow(id, Written(id, row))
            /\ \A column \in References(id) :
                   Written(id, row)[column] =
                       IF row[column] # Same THEN row[column]
                       ELSE IF rows[id] = None THEN None ELSE rows[id][column]
        BY <3>2, WrittenRow
      <4> QED BY <4>1, <4>2
    <3> QED BY <3>1, <3>2, <3>3, RowFacts
  <2>5. ASSUME NEW y \in Ids, RefersTo(w, y) PROVE Live(y)
    <3>1. PICK column \in References(id) : w[column] = y
      BY <2>4, <2>5 DEF RefersTo
    <3>2. CASE t.row[column] = y
      <4>1. Sound(t) /\ Names(t.todo) = {}
        BY <1>2, <1>3, <1>7 DEF Quiet, Names
      <4> QED BY <1>6, <2>2, <2>5, <3>2, <4>1 DEF Sound
    <3>3. CASE t.row[column] # y
      <4>1. rows[id] # None /\ rows[id][column] = y
        BY <2>4, <2>5, <3>1, <3>3, OrganisationAssumption
      <4>2. Intact(id)
        BY <1>3, <1>6, <1>7, IntactUnlessAdrift DEF Promising
      <4> QED BY <2>5, <4>1, <4>2 DEF Intact
    <3> QED BY <3>2, <3>3
  <2>6. ~Adrift(id)'
    <3> SUFFICES ASSUME NEW y \in Ids, RefersTo(w, y),
                        rows'[y] = None \/ <<id, y>> \in Lost'
                 PROVE  FALSE
      BY <2>3 DEF Adrift
    <3>1. Live(y)'
      BY <1>1, <1>7, <2>5 DEF Leaves
    <3>2. ~Doomed(id, y)'
      BY <1>1, <1>7 DEF Quiet, Doomed, Removing
    <3> QED BY <3>1, <3>2 DEF Lost, Live, Deleted
  <2>7. Foretold(t, w)
    BY <1>3, <1>6, <1>7, <2>1 DEF Promising
  <2>8. CASE n.at # "idle"
    <3>1. n = [at |-> "history", id |-> t.id, entries |-> t.entries]
      BY <1>4, <2>8 DEF Idle
    <3>2. n.at = "history" /\ n.id = t.id /\ n.entries = t.entries
      BY <3>1
    <3>3. Foretold(n, w)'
      BY <1>1, <1>3, <1>7, <2>7, <3>2, StillForetold
    <3> QED BY <1>6, <2>3, <2>6, <2>8, <3>2, <3>3 DEF Promising
  <2>9. CASE n.at = "idle"
    <3>1. t.entries = <<>>
      BY <1>4, <1>6, <2>2, <2>9 DEF Unique
    <3>2. Names(t.entries) = {}
      BY <3>1 DEF Names
    <3>3. Foretold(t, w)'
      BY <1>1, <1>3, <1>7, <2>7, StillForetold
    <3>4. \A k \in Histories : Explained(id, k)' \/ Agrees(latest'[id][k], rows'[id][k])
      BY <1>6, <2>3, <3>2, <3>3 DEF Foretold
    <3> QED BY <2>6, <2>9, <3>4 DEF Wrong
  <2> QED BY <2>8, <2>9
<1>8. n.at # "idle" => n.id = id
  BY <1>4, <1>6 DEF Idle
<1>9. id \in Employees /\ Quiet /\ Promising(task[h]) =>
          \/ n.at # "idle" /\ Promising(n)'
          \/ n.at = "idle" /\ ~Wrong(id)'
  BY <1>2, <1>7
<1> QED BY <1>1, <1>2, <1>3, <1>5, <1>6, <1>8, <1>9, LedgerStep

\* The row left behind is looked up again: what promised it will find it.
LEMMA LedgerLooks ==
    ASSUME Typed, Counts, Recorded, Serial, Books, Ledger, NEW h \in Handlers, HistoryFind(h)
    PROVE  Ledger'
<1>1. PICK t : t = task[h]
  OBVIOUS
<1>2. /\ t.at = "history" /\ Records(t) /\ Busy(h)
      /\ t = [at |-> "history", id |-> t.id, entries |-> t.entries]
      /\ t.id \in Employees /\ t.entries \in Seq(EntryToWrite) /\ t.entries # <<>>
  BY <1>1, TaskStages DEF Typed, HistoryFind, At, Records, EntriesTyped, Busy
<1>3. PICK first, rest : first = Head(t.entries) /\ rest = Tail(t.entries)
  OBVIOUS
<1>4. /\ first \in EntryToWrite /\ rest \in Seq(EntryToWrite)
      /\ Names(t.entries) = {first} \cup Names(rest)
  BY <1>2, <1>3, NamesTail
<1>5. PICK found : found = [first EXCEPT !.find = None]
  OBVIOUS
<1>6. /\ found \in EntryToWrite /\ found.find = None
      /\ found.history = first.history /\ found.to = first.to
  BY <1>4, <1>5 DEF EntryToWrite, Opt
<1>7. PICK entries : entries = <<found>> \o rest
  OBVIOUS
<1>8. Names(entries) = {found} \cup Names(rest)
  <2>1. <<found>> \in Seq(EntryToWrite)
    BY <1>6
  <2>2. PICK p \in Seq(EntryToWrite) : p = <<found>>
    BY <2>1
  <2>3. Names(p) = {found}
    BY <2>2, NamesOfShort
  <2>4. Names(p \o rest) = Names(p) \cup Names(rest)
    BY <1>4, NamesOfConcat
  <2> QED BY <1>7, <2>2, <2>3, <2>4
<1>9. first.find # None
      /\ Read(h, IF Live(first.find) THEN [t EXCEPT !.entries = entries] ELSE Idle)
      /\ UNCHANGED <<latest, failures, edited>>
  BY <1>1, <1>3, <1>5, <1>7 DEF HistoryFind
<1>10. PICK n : Progress(task[h], n) /\ Read(h, n)
  <2>1. \E n : Progress(task[h], n) /\ Read(h, n)
    BY HistoryProgress DEF Recorded
  <2> QED BY <2>1
<1>11. n = IF Live(first.find) THEN [t EXCEPT !.entries = entries] ELSE Idle
  BY <1>9, <1>10 DEF Read, Continue, Typed
<1>12. PICK id \in Employees : id = t.id
  BY <1>2
<1>13. ASSUME Quiet, Promising(t), Leaves(h) PROVE n.at # "idle" /\ Promising(n)'
  <2>1. ~Adrift(id) /\ Foretold(t, rows[id])
    BY <1>2, <1>12, <1>13 DEF Promising
  <2>2. Live(first.find)
    BY <1>4, <1>9, <2>1 DEF Foretold
  <2>3. n.at = "history" /\ n.id = id /\ n.entries = entries
    BY <1>2, <1>11, <1>12, <2>2
  <2>4. rows'[id] = rows[id] /\ ~Adrift(id)'
    BY <1>1, <1>2, <1>9, <1>13, <2>1, Undisturbed DEF At
  <2>5. PICK row : row = rows[id]
    OBVIOUS
  <2>6. Foretold(t, row)'
    BY <1>2, <1>9, <1>13, <2>1, <2>5, StillForetold
  <2>7. Foretold(n, row)'
    <3>1. \A entry \in Names(entries) : \/ entry \in Names(t.entries)
                                        \/ entry = found
      BY <1>4, <1>8
    <3>2. found.to \in {None, row[found.history]}
      BY <1>4, <1>6, <2>6 DEF Foretold
    <3>3. ASSUME NEW k \in Histories, NEW entry \in Names(t.entries), entry.history = k
          PROVE  \E other \in Names(entries) : other.history = k
      BY <1>4, <1>6, <1>8, <3>3
    <3> QED BY <1>6, <1>12, <2>3, <2>6, <3>1, <3>2, <3>3 DEF Foretold
  <2> QED BY <2>3, <2>4, <2>5, <2>7 DEF Promising
<1> QED BY <1>1, <1>2, <1>9, <1>10, <1>12, <1>13, LedgerRead

\* An entry is written: its history tells what the row says.
LEMMA LedgerRecords ==
    ASSUME Typed, Counts, Recorded, Serial, Books, Ledger, NEW h \in Handlers, HistorySave(h)
    PROVE  Ledger'
<1>1. PICK t : t = task[h]
  OBVIOUS
<1>2. /\ t.at = "history" /\ Records(t) /\ Busy(h)
      /\ t = [at |-> "history", id |-> t.id, entries |-> t.entries]
      /\ t.id \in Employees /\ t.entries \in Seq(EntryToWrite) /\ t.entries # <<>>
  BY <1>1, TaskStages DEF Typed, HistorySave, At, Records, EntriesTyped, Busy
<1>3. PICK first, rest : first = Head(t.entries) /\ rest = Tail(t.entries)
  OBVIOUS
<1>4. /\ first \in EntryToWrite /\ rest \in Seq(EntryToWrite)
      /\ Names(t.entries) = {first} \cup Names(rest)
      /\ first.history \in Histories /\ [to |-> first.to] \in Entry
  <2>1. /\ first \in EntryToWrite /\ rest \in Seq(EntryToWrite)
        /\ Names(t.entries) = {first} \cup Names(rest)
    BY <1>2, <1>3, NamesTail
  <2> QED BY <2>1 DEF EntryToWrite, Entry
<1>5. PICK n : Progress(task[h], n) /\ Read(h, n)
  <2>1. \E n : Progress(task[h], n) /\ Read(h, n)
    BY HistoryProgress DEF Recorded
  <2> QED BY <2>1
<1>6. /\ n = IF Len(t.entries) = 1 THEN Idle ELSE [t EXCEPT !.entries = rest]
      /\ UNCHANGED <<failures, edited>>
      /\ latest' = [latest EXCEPT ![t.id][first.history] = [to |-> first.to]]
  BY <1>1, <1>3, <1>5 DEF HistorySave, Read, Continue, Typed
<1>7. PICK id \in Employees : id = t.id
  BY <1>2
<1>8. /\ \A e \in Employees : e # id => latest'[e] = latest[e]
      /\ \A k \in Histories : k # first.history => latest'[id][k] = latest[id][k]
      /\ latest'[id][first.history] = [to |-> first.to]
  BY <1>4, <1>6, <1>7 DEF Recorded
<1>9. ASSUME Quiet, Promising(t), Leaves(h)
      PROVE  \/ n.at # "idle" /\ Promising(n)'
             \/ n.at = "idle" /\ ~Wrong(id)'
  <2>1. ~Adrift(id) /\ Foretold(t, rows[id])
    BY <1>2, <1>7, <1>9 DEF Promising
  <2>2. rows' = rows
    BY <1>5 DEF Read
  <2>3. ~Adrift(id)'
    <3>1. ASSUME NEW y \in Ids, <<id, y>> \in Lost' PROVE <<id, y>> \in Lost
      BY <1>9, <3>1 DEF Leaves
    <3> QED BY <2>1, <2>2, <3>1 DEF Adrift
  <2>4. PICK row : row = rows[id]
    OBVIOUS
  <2>5. ASSUME NEW entry \in Names(rest)
        PROVE  /\ entry.find # None => Live(entry.find)'
               /\ entry.to \in {None, row[entry.history]}
    BY <1>4, <2>1, <2>2, <2>4, <2>5 DEF Foretold, Live
  <2>6. ASSUME NEW k \in Histories
        PROVE  \/ Explained(id, k)'
               \/ \E entry \in Names(rest) : entry.history = k
               \/ Agrees(latest'[id][k], row[k])
    <3>1. CASE k = first.history
      <4>1. first.to \in {None, row[k]}
        BY <1>4, <2>1, <2>4, <3>1 DEF Foretold
      <4>2. [to |-> first.to] # None
        BY <1>4, PersonnelAssumption
      <4> QED BY <1>8, <3>1, <4>1, <4>2 DEF Agrees
    <3>2. CASE k # first.history
      <4>1. Explained(id, k) => Explained(id, k)'
        BY <1>6 DEF Explained
      <4> QED BY <1>4, <1>7, <1>8, <2>1, <2>4, <2>6, <3>2, <4>1 DEF Foretold
    <3> QED BY <3>1, <3>2
  <2>7. CASE Len(t.entries) # 1
    <3>1. n.at = "history" /\ n.id = id /\ n.entries = rest
      BY <1>2, <1>6, <1>7, <2>7
    <3>2. Foretold(n, row)'
      BY <2>5, <2>6, <3>1 DEF Foretold
    <3> QED BY <2>2, <2>3, <2>4, <3>1, <3>2 DEF Promising
  <2>8. CASE Len(t.entries) = 1
    <3>1. Names(rest) = {}
      BY <1>2, <1>3, <2>8 DEF Names
    <3>2. n.at = "idle"
      BY <1>6, <2>8 DEF Idle
    <3> QED BY <2>2, <2>3, <2>4, <2>6, <3>1, <3>2 DEF Wrong
  <2> QED BY <2>7, <2>8
<1> QED BY <1>1, <1>2, <1>5, <1>6, <1>7, <1>8, <1>9, LedgerRead

\* A handler dies.
LEMMA LedgerFail ==
    ASSUME Typed, Counts, Ledger, NEW h \in Handlers, Leaves(h), Busy(h), task'[h] = Idle,
           UNCHANGED <<overlaps, edited, latest, rows>>, failures' = failures + 1
    PROVE  Ledger'
<1>1. /\ overlaps \in Nat /\ failures \in Nat /\ overlaps' \in Nat /\ failures' \in Nat
      /\ overlaps' + failures' = overlaps + failures + 1
  BY DEF Counts
<1>2. \A g \in Handlers : g # h => task'[g] = task[g]
  BY DEF Leaves
<1>3. PICK id : id = task[h].id
  OBVIOUS
<1>5. ASSUME NEW e \in Employees, e \in Bad', e # id PROVE e \in Bad
  <2>1. Wrong(e)
    BY <1>3, <1>5, Undisturbed DEF Bad
  <2>2. ASSUME NEW g \in Handlers, Busy(g), task[g].id = e PROVE FALSE
    <3>1. g # h /\ task'[g] = task[g]
      BY <1>2, <1>3, <1>5, <2>2
    <3>2. Settling(e)'
      BY <2>2, <3>1 DEF Settling, Busy
    <3> QED BY <1>5, <3>2 DEF Bad
  <2> QED BY <2>1, <2>2 DEF Bad, Settling
<1>6. Workers' = Workers \ {h}
  <2>1. \A g \in Handlers : g # h => (g \in Workers' <=> g \in Workers)
    BY <1>2 DEF Workers, Busy
  <2>2. h \notin Workers'
    BY DEF Workers, Busy, Idle
  <2>3. (\A g : g \in Workers => g \in Handlers) /\ (\A g : g \in Workers' => g \in Handlers)
    BY DEF Workers
  <2> QED BY <2>1, <2>2, <2>3
<1>7. Bad' \subseteq Bad \cup {id}
  BY <1>5 DEF Bad
<1>8. CASE h \in Workers
  BY <1>1, <1>6, <1>7, <1>8, LedgerPays
<1>9. CASE h \notin Workers
  <2>1. id \notin Employees
    BY <1>3, <1>9 DEF Workers
  <2>2. Bad' \subseteq Bad /\ Workers' = Workers
    BY <1>5, <1>6, <1>9, <2>1 DEF Bad
  <2> QED BY <1>1, <2>2, LedgerPays
<1> QED BY <1>8, <1>9

\* A request arrives that is not about an employee.
LEMMA LedgerOther ==
    ASSUME Typed, Counts, Ledger, NEW h \in Handlers, NEW n, Arrive(h, n), Leaves(h),
           n.id \notin Employees, overlaps' \in Nat, UNCHANGED <<failures, edited, latest>>
    PROVE  Ledger'
<1>1. /\ overlaps \in Nat /\ failures \in Nat /\ failures' \in Nat /\ task[h].at = "idle"
      /\ task'[h] = n /\ \A g \in Handlers : g # h => task'[g] = task[g]
      /\ overlaps' = IF Alone THEN overlaps ELSE overlaps + 1
  BY DEF Counts, Arrive, Ready, At, Continue, Typed
<1>2. ASSUME NEW e \in Bad' PROVE e \in Bad
  <2>1. e \in Employees /\ ~At(h, "save")
    BY <1>1 DEF Bad, At
  <2>2. Wrong(e)
    BY <2>1, Undisturbed DEF Bad
  <2>3. ASSUME NEW g \in Handlers, Busy(g), task[g].id = e PROVE FALSE
    <3>1. Settling(e)'
      BY <1>1, <2>3 DEF Settling, Busy
    <3> QED BY <3>1 DEF Bad
  <2> QED BY <2>1, <2>2, <2>3 DEF Bad, Settling
<1>3. Workers' = Workers
  <2>1. \A g \in Handlers : g # h => (g \in Workers' <=> g \in Workers)
    BY <1>1 DEF Workers, Busy
  <2>2. h \notin Workers' /\ h \notin Workers
    BY <1>1 DEF Workers, Busy
  <2>3. (\A g : g \in Workers => g \in Handlers) /\ (\A g : g \in Workers' => g \in Handlers)
    BY DEF Workers
  <2> QED BY <2>1, <2>2, <2>3
<1>4. CASE Alone
  <2>1. ~Hopeful
    BY <1>4 DEF Alone, At, Hopeful, Workers, Busy
  <2>2. Bad' \subseteq Bad /\ UNCHANGED <<overlaps, failures>>
    BY <1>1, <1>2, <1>4
  <2> QED BY <1>1, <1>3, <2>1, <2>2, LedgerKept
<1>5. CASE ~Alone
  <2>1. Bad' \subseteq Bad /\ overlaps' + failures' = overlaps + failures + 1
    BY <1>1, <1>2, <1>5
  <2> QED BY <1>1, <1>3, <2>1, LedgerPays
<1> QED BY <1>4, <1>5

\* A request about an employee arrives.
LEMMA LedgerEmployee ==
    ASSUME Typed, Counts, Begun, Ledger, NEW h \in Handlers, NEW n, NewCopy(n), Announces(n),
           Arrive(h, n), Leaves(h), Quiet \/ Alone => Quiet', overlaps' \in Nat,
           UNCHANGED <<failures, latest>>, edited \subseteq edited'
    PROVE  Ledger'
<1>1. /\ overlaps \in Nat /\ failures \in Nat /\ task[h].at = "idle"
      /\ task'[h] = n /\ \A g \in Handlers : g # h => task'[g] = task[g]
      /\ overlaps' = IF Alone THEN overlaps ELSE overlaps + 1
      /\ n.at # "idle"
  BY DEF Counts, Arrive, Ready, At, Continue, Typed, NewCopy, Copies
<1>2. PICK e \in Employees : e = n.id
  BY DEF Announces
<1>3. Settling(e)'
  BY <1>1, <1>2 DEF Settling, Busy
<1>4. ASSUME NEW x \in Bad' PROVE x \in Bad \ {e}
  <2>1. x \in Employees /\ ~At(h, "save") /\ x # e
    BY <1>1, <1>3 DEF Bad, At
  <2>2. Wrong(x)
    BY <2>1, Undisturbed DEF Bad
  <2>3. ASSUME NEW g \in Handlers, Busy(g), task[g].id = x PROVE FALSE
    <3>1. Settling(x)'
      BY <1>1, <2>3 DEF Settling, Busy
    <3> QED BY <3>1 DEF Bad
  <2> QED BY <2>1, <2>2, <2>3 DEF Bad, Settling
<1>5. h \notin Workers /\ Workers' = Workers \cup {h}
  <2>1. \A g \in Handlers : g # h => (g \in Workers' <=> g \in Workers)
    BY <1>1 DEF Workers, Busy
  <2>2. h \in Workers' /\ h \notin Workers
    BY <1>1, <1>2 DEF Workers, Busy
  <2>3. (\A g : g \in Workers => g \in Handlers) /\ (\A g : g \in Workers' => g \in Handlers)
    BY DEF Workers
  <2> QED BY <2>1, <2>2, <2>3
<1>6. Alone => Workers = {}
  BY DEF Alone, At, Workers, Busy
<1>7. ASSUME e \notin Bad, Hopeful \/ Workers = {}, NEW g \in Workers', Lone(g)'
      PROVE  Promising(task[g])'
  <2>1. CASE g = h
    <3>1. ASSUME NEW f \in Handlers, Busy(f), task[f].id = e PROVE FALSE
      <4>1. f \in Workers /\ f # h /\ task'[f] = task[f]
        BY <1>1, <3>1 DEF Workers, Busy
      <4>2. f \in Workers'
        BY <1>5, <4>1
      <4> QED BY <1>1, <1>2, <1>7, <2>1, <3>1, <4>1, <4>2 DEF Lone
    <3>2. ~Wrong(e)
      BY <1>7, <3>1 DEF Bad, Settling
    <3>3. Promising(n)'
      BY <1>2, <3>2, AskedPromises
    <3> QED BY <1>1, <2>1, <3>3
  <2>2. CASE g # h
    <3>1. g \in Workers /\ g \in Handlers /\ Hopeful /\ task'[g] = task[g]
      BY <1>1, <1>5, <1>7, <2>2 DEF Workers
    <3>2. ASSUME NEW f \in Workers PROVE f \in Workers' /\ task'[f] = task[f]
      BY <1>1, <1>5, <3>2 DEF Workers
    <3>3. Lone(g)
      BY <1>7, <3>1, <3>2 DEF Lone
    <3>4. Promising(task[g]) /\ Quiet
      BY <3>1, <3>3 DEF Hopeful
    <3>5. ~At(h, "save")
      BY <1>1 DEF At
    <3> QED BY <3>1, <3>4, <3>5, PromiseKept
  <2> QED BY <2>1, <2>2
<1>8. CASE Alone
  <2>1. Workers = {} /\ overlaps' = overlaps /\ Quiet'
    BY <1>1, <1>6, <1>8
  <2>2. Bad' \subseteq Bad \ {e}
    BY <1>4
  <2>3. e \notin Bad => Quiet' /\ \A g \in Workers' : Lone(g)' => Promising(task[g])'
    BY <1>7, <2>1
  <2> QED BY <1>1, <1>5, <2>1, <2>2, <2>3, LedgerBegins
<1>9. CASE ~Alone /\ Hopeful
  <2>1. Quiet' /\ overlaps' = overlaps + 1
    BY <1>1, <1>9 DEF Hopeful
  <2>2. Bad' \subseteq Bad \ {e}
    BY <1>4
  <2>3. e \notin Bad => Quiet' /\ \A g \in Workers' : Lone(g)' => Promising(task[g])'
    BY <1>7, <1>9, <2>1
  <2> QED BY <1>1, <1>5, <2>1, <2>2, <2>3, LedgerBegins
<1>10. CASE ~Alone /\ ~Hopeful
  <2>1. PaidFor /\ overlaps' = overlaps + 1
    BY <1>1, <1>10 DEF Ledger
  <2>2. PICK B, W : B = Bad' /\ W = Workers'
    OBVIOUS
  <2>3. B \subseteq Bad \cup {e} /\ B \subseteq Bad /\ W \subseteq Workers \cup {h}
    BY <1>4, <1>5, <2>2
  <2>4. /\ IsFiniteSet(B) /\ IsFiniteSet(W)
        /\ Cardinality(B) \in Nat /\ Cardinality(W) \in Nat
        /\ Cardinality(Bad) \in Nat /\ Cardinality(Workers) \in Nat
        /\ Cardinality(B) <= Cardinality(Bad)
        /\ Cardinality(W) <= Cardinality(Workers) + 1
    BY <2>3, LedgerCards
  <2>5. PaidFor'
    BY <1>1, <2>1, <2>2, <2>4 DEF PaidFor
  <2> QED BY <2>2, <2>4, <2>5 DEF Ledger
<1> QED BY <1>8, <1>9, <1>10

-----------------------------------------------------------------------------
LEMMA BegunKept ==
    ASSUME Typed, Begun, NEW h \in Handlers, Leaves(h), NEW n, task'[h] = n,
           n.at = "history" => rows'[n.id] # None,
           \A e \in Employees : latest'[e] = latest[e] \/ rows[e] # None
    PROVE  Begun'
<1>1. ASSUME NEW e \in Employees, NEW k \in Histories, rows'[e] = None
      PROVE  latest'[e][k] = None
  <2>1. rows[e] = None
    BY <1>1, IdTables DEF Leaves
  <2> QED BY <1>1, <2>1 DEF Begun
<1>2. ASSUME NEW g \in Handlers, task'[g].at = "history" PROVE rows'[task'[g].id] # None
  <2>1. CASE g = h
    BY <1>2, <2>1
  <2>2. CASE g # h
    <3>1. task'[g] = task[g]
      BY <2>2 DEF Leaves
    <3>2. PICK id : id = task[g].id
      OBVIOUS
    <3>3. id \in Ids /\ rows[id] # None
      BY <1>2, <3>1, <3>2, TaskStages DEF Typed, Begun, At
    <3> QED BY <3>1, <3>2, <3>3 DEF Leaves
  <2> QED BY <2>1, <2>2
<1> QED BY <1>1, <1>2 DEF Begun, At

LEMMA BegunRead ==
    ASSUME Typed, Counts, Serial, Books, Begun, NEW h \in Handlers, NEW n,
           Progress(task[h], n), Read(h, n),
           \A e \in Employees : latest'[e] = latest[e] \/ rows[e] # None
    PROVE  Begun'
<1>1. Leaves(h) /\ rows' = rows
  BY ReadKeeps
<1>2. task'[h] = n
  BY DEF Read, Continue, Typed
<1>3. n.at = "history" => rows'[n.id] # None
  <2> SUFFICES ASSUME n.at = "history" PROVE rows[n.id] # None
    BY <1>1
  <2>1. task[h].at = "history" /\ task[h].id \in Employees
    BY TaskStages DEF Progress, Typed, Records
  <2>2. n.id = task[h].id
    BY <2>1, NotEmployees DEF Progress
  <2> QED BY <2>1, <2>2 DEF Begun, At
<1> QED BY <1>1, <1>2, <1>3, BegunKept

-----------------------------------------------------------------------------
(***************************************************************************)
(* The theorems                                                            *)
(***************************************************************************)
LEMMA InitKeeps ==
    ASSUME Init
    PROVE  IInv
<1>1. /\ rows \in Seeds /\ RowsTyped(rows) /\ Dangling(rows) = {}
      /\ task = [h \in Handlers |-> Idle] /\ requests = 0 /\ overlaps = 0
      /\ failures = 0 /\ edited = {}
  BY OrganisationAssumption DEF Init, OrgInit
<1>2. \A h \in Handlers : task[h] = Idle /\ Idle.at = "idle" /\ TaskTyped(Idle)
  BY <1>1 DEF Idle, TaskTyped
<1>3. Typed
  BY <1>1, <1>2, Typing DEF Typed, Stored
<1>4. Counts
  BY <1>1, OrganisationAssumption, PersonnelAssumption DEF Counts
<1>5. Recorded
  <2>1. ASSUME NEW e \in Employees, NEW k \in Histories, rows[e] # None
        PROVE  RecordedAs(rows[e][k]) \in Opt(Entry)
    <3>1. rows[e] \in Employee
      BY <1>1, <2>1 DEF RowsTyped, Opt
    <3>2. rows[e][k] \in Ids \cup Statuses \cup {None}
      BY <3>1, IdTables DEF Employee, Histories, Opt
    <3> QED BY <3>2 DEF RecordedAs, Opt, Entry
  <2>2. latest \in [Employees -> [Histories -> Opt(Entry)]]
    BY <2>1 DEF Init, Opt
  <2> QED BY <1>1, <2>2 DEF Recorded
<1>6. Serial
  BY <1>2 DEF Serial, Busy, Copying
<1>7. Lost = {}
  <2>1. ASSUME NEW pair \in Lost PROVE FALSE
    <3>1. PICK x \in Referring, y \in Ids : pair = <<x, y>> /\ pair[1] = x /\ pair[2] = y
      BY <2>1 DEF Lost
    <3>2. Live(x) /\ RefersTo(rows[x], y) /\ Deleted(y)
      BY <1>2, <2>1, <3>1 DEF Lost, Doomed
    <3>3. pair \in Dangling(rows)
      BY <3>1, <3>2 DEF Dangling, Live, Deleted, Referring
    <3> QED BY <1>1, <3>3
  <2> QED BY <2>1
<1>8. Savers = {}
  BY <1>2 DEF Savers, Saving
<1>9. Books
  BY <1>1, <1>7, <1>8, FS_EmptySet DEF Books, Charged
<1> QED BY <1>3, <1>4, <1>5, <1>6, <1>9 DEF IInv

\* What every step shows: the invariant is kept, and a mark is taken back by an overlap only.
LEMMA NextKeeps ==
    ASSUME IInv, [Next]_vars
    PROVE  /\ IInv'
           /\ \A id \in Ids : overlaps = 0 /\ Deleted(id) => Deleted(id)'
<1>1. Typed /\ Counts /\ Recorded /\ Serial /\ Books
  BY DEF IInv
<1>2. CASE UNCHANGED vars
  <2>1. UNCHANGED <<rows, task, requests, overlaps, latest, failures, edited>>
    BY <1>2 DEF vars, orgVars
  <2>2. Typed' /\ Serial'
    BY <1>1, <2>1 DEF Typed, Stored, Serial, Busy, Copying, Deleted
  <2>3. Books'
    BY <1>1, <2>1 DEF Books, Charged, Calm, Quiet, Copying, Sound, Live, Deleted, Lost, Savers,
                      Doomed
  <2>4. Counts' /\ Recorded'
    BY <1>1, <2>1 DEF Counts, Recorded
  <2> QED BY <2>1, <2>2, <2>3, <2>4 DEF IInv, Deleted, Live
<1>3. CASE Next
  <2>1. PICK h \in Handlers :
            \/ (OrgBegin(h) \/ OrgProceed(h)) /\ UNCHANGED <<latest, failures, edited>>
            \/ EmployeeBegin(h) \/ EmployeeProceed(h)
            \/ Fail(h)
    BY <1>3 DEF Next
  <2>2. ASSUME NEW n, Asked(n), Arrive(h, n), Recorded', failures' = failures
        PROVE  /\ IInv'
               /\ \A id \in Ids : overlaps = 0 /\ Deleted(id) => Deleted(id)'
    <3>1. /\ Typed' /\ Serial' /\ Books' /\ rows' = rows
          /\ requests' \in 0..MaxLoad /\ overlaps' \in 0..requests'
      BY <1>1, <2>2, ArriveKeeps
    <3>2. Counts'
      BY <1>1, <2>2, <3>1 DEF Counts
    <3> QED BY <2>2, <3>1, <3>2 DEF IInv, Deleted, Live
  <2>3. ASSUME NEW n, Progress(task[h], n), Read(h, n), Recorded', failures' \in 0..MaxFailures
        PROVE  /\ IInv'
               /\ \A id \in Ids : overlaps = 0 /\ Deleted(id) => Deleted(id)'
    <3>1. /\ Typed' /\ Serial' /\ Books' /\ UNCHANGED <<rows, requests, overlaps>>
      BY <1>1, <2>3, ReadKeeps
    <3>2. Counts'
      BY <1>1, <2>3, <3>1 DEF Counts
    <3> QED BY <2>3, <3>1, <3>2 DEF IInv, Deleted, Live
  <2>4. CASE OrgBegin(h) /\ UNCHANGED <<latest, failures, edited>>
    <3>1. PICK n : Asked(n) /\ Arrive(h, n)
      BY <1>1, <2>4, OrgAsks DEF OrgBegin, OrgAsked, OrgCopy, Asked
    <3>2. Recorded'
      BY <1>1, <2>4 DEF Recorded
    <3> QED BY <2>2, <2>4, <3>1, <3>2
  <2>5. CASE EmployeeBegin(h)
    <3>1. /\ \E n : EmployeeAsked(n) /\ Arrive(h, n)
          /\ UNCHANGED <<latest, failures>> /\ edited' \subseteq Employees
      BY <1>1, <2>5, EmployeeAsks DEF EmployeeBegin, Recorded
    <3>2. PICK n : NewCopy(n) /\ Arrive(h, n)
      BY <3>1 DEF EmployeeAsked
    <3>3. Recorded'
      BY <1>1, <3>1 DEF Recorded
    <3> QED BY <2>2, <3>1, <3>2, <3>3 DEF Asked
  <2>6. CASE OrgProceed(h) /\ UNCHANGED <<latest, failures, edited>>
    <3>1. Recorded' /\ failures' \in 0..MaxFailures
      BY <1>1, <2>6 DEF Recorded, Counts
    <3>2. CASE FindNext(h)
      BY <1>1, <2>3, <3>1, <3>2, FindNextProgress
    <3>3. CASE FindExisting(h)
      BY <1>1, <2>3, <3>1, <3>3, FindExistingProgress
    <3>4. CASE FindChild(h)
      BY <1>1, <2>3, <3>1, <3>4, FindChildProgress
    <3>5. CASE Count(h)
      BY <1>1, <2>3, <3>1, <3>5, CountProgress
    <3>6. CASE Save(h)
      <4>1. /\ Typed' /\ Serial' /\ Books' /\ UNCHANGED <<requests, overlaps>>
            /\ \A id \in Ids : overlaps = 0 /\ Deleted(id) => Deleted(id)'
        BY <1>1, <3>6, SaveKeeps
      <4> QED BY <1>1, <3>1, <4>1 DEF IInv, Counts
    <3>7. CASE Delete(h)
      <4>1. /\ Typed' /\ Serial' /\ Books' /\ UNCHANGED <<requests, overlaps>>
            /\ \A id \in Ids : Deleted(id) => Deleted(id)'
        BY <1>1, <3>7, DeleteKeeps
      <4> QED BY <1>1, <3>1, <4>1 DEF IInv, Counts
    <3> QED BY <2>6, <3>2, <3>3, <3>4, <3>5, <3>6, <3>7 DEF OrgProceed
  <2>7. CASE EmployeeProceed(h)
    <3>1. /\ \E n : Progress(task[h], n) /\ Read(h, n)
          /\ UNCHANGED <<failures, edited>>
          /\ latest' \in [Employees -> [Histories -> Opt(Entry)]]
      BY <1>1, <2>7, HistoryProgress DEF EmployeeProceed, Recorded
    <3>2. Recorded' /\ failures' \in 0..MaxFailures
      BY <1>1, <3>1 DEF Recorded, Counts
    <3> QED BY <2>3, <3>1, <3>2
  <2>8. CASE Fail(h)
    <3>1. /\ Read(h, Idle) /\ failures < MaxFailures /\ failures' = failures + 1
          /\ UNCHANGED <<latest, edited>>
      BY <2>8 DEF Fail
    <3>2. Recorded' /\ failures' \in 0..MaxFailures
      BY <1>1, <3>1, PersonnelAssumption DEF Recorded, Counts
    <3> QED BY <2>3, <3>1, <3>2, StopsProgress
  <2> QED BY <2>1, <2>4, <2>5, <2>6, <2>7, <2>8
<1> QED BY <1>2, <1>3

LEMMA HistoryInit ==
    ASSUME Init
    PROVE  HistoryInv
<1>1. /\ rows \in Seeds /\ RowsTyped(rows) /\ Dangling(rows) = {} /\ Referential(rows)
      /\ task = [h \in Handlers |-> Idle] /\ overlaps = 0 /\ failures = 0
  BY OrganisationAssumption DEF Init, OrgInit
<1>2. \A h \in Handlers : task[h] = Idle /\ Idle.at = "idle"
  BY <1>1 DEF Idle
<1>3. latest = [e \in Employees |-> [k \in Histories |->
                    IF rows[e] = None THEN None ELSE RecordedAs(rows[e][k])]]
  BY DEF Init
<1>4. Begun
  BY <1>2, <1>3 DEF Begun, At
<1>5. Workers = {}
  BY <1>2 DEF Workers, Busy
<1>6. ASSUME NEW e \in Employees, rows[e] # None PROVE ~Wrong(e)
  <2>1. e \in Ids \ Notices /\ e \in Referring /\ IsRow(e, rows[e]) /\ rows[e].live = TRUE
    <3>1. e \in Ids /\ e \in Referring /\ IsRow(e, rows[e])
      BY <1>1, <1>6, EmployeeFacts, Typing
    <3>2. rows[e].live = TRUE
      BY <3>1, EmployeeFacts DEF IsRow
    <3> QED BY <3>1, <3>2, NotEmployees DEF Referring
  <2>2. ASSUME NEW y \in Ids, RefersTo(rows[e], y)
        PROVE  rows[y] # None /\ <<e, y>> \notin Lost
    <3>1. y # None
      BY OrganisationAssumption
    <3>2. PICK column \in Columns(rows[e]) : rows[e][column] = y
      BY <2>2 DEF RefersTo
    <3>3. rows[y] # None
      BY <1>1, <1>6, <2>1, <3>1, <3>2 DEF Referential
    <3>4. <<e, y>> \notin Dangling(rows)
      BY <1>1
    <3>5. rows[y].live
      BY <1>6, <2>1, <2>2, <3>3, <3>4 DEF Dangling, Referring
    <3>6. ~Deleted(y) /\ ~Doomed(e, y)
      BY <1>2, <3>5 DEF Deleted, Doomed
    <3> QED BY <3>3, <3>6 DEF Lost
  <2>3. ASSUME NEW k \in Histories PROVE Agrees(latest[e][k], rows[e][k])
    <3>1. latest[e][k] = RecordedAs(rows[e][k])
      BY <1>3, <1>6
    <3>2. k \in Fields(e)
      BY EmployeeFacts DEF Histories
    <3>3. rows[e][k] \in Ids \cup Statuses \cup {None}
      <4>1. rows[e][k] \in Values(e, k) /\ k \in {"department", "branch", "status"}
        BY <2>1, <3>2 DEF IsRow, Histories
      <4>2. /\ Values(e, "branch") = Opt(Branches) /\ Values(e, "department") = Opt(Departments)
            /\ Values(e, "status") = Statuses
            /\ Branches \subseteq Ids /\ Departments \subseteq Ids
        BY EmployeeFacts
      <4> QED BY <4>1, <4>2 DEF Opt
    <3>4. rows[e][k] # None => [to |-> rows[e][k]] \in Entry
      BY <3>3 DEF Entry
    <3> QED BY <3>1, <3>4, PersonnelAssumption DEF RecordedAs, Agrees
  <2> QED BY <2>2, <2>3 DEF Wrong, Adrift
<1>7. Bad = {}
  BY <1>6 DEF Bad, Wrong
<1> QED BY <1>1, <1>4, <1>5, <1>7, FS_EmptySet DEF HistoryInv, Ledger, PaidFor

LEMMA HistoryNext ==
    ASSUME IInv, HistoryInv, [Next]_vars
    PROVE  HistoryInv'
<1>1. /\ Typed /\ Counts /\ Recorded /\ Serial /\ Books /\ Begun /\ Ledger
      /\ IInv' /\ overlaps' \in Nat
  BY NextKeeps DEF IInv, HistoryInv, Counts
<1>2. CASE UNCHANGED vars
  <2>1. UNCHANGED <<rows, task, requests, overlaps, latest, failures, edited>>
    BY <1>2 DEF vars, orgVars
  <2>2. Begun'
    BY <1>1, <2>1 DEF Begun, At
  <2>3. Bad' = Bad /\ Workers' = Workers
    BY <2>1 DEF Bad, Workers, Wrong, Settling, Busy, Adrift, Lost, Doomed, Deleted, Live,
                Explained, Agrees
  <2>4. Hopeful => Hopeful'
    <3>1. \A t : Promising(t)' = Promising(t)
      BY <2>1 DEF Promising, Foretold, Written, Wrong, Adrift, Lost, Doomed, Deleted, Live,
                  Explained, Agrees
    <3>2. Quiet' = Quiet
      BY <2>1 DEF Quiet, Copying, Sound, Deleted, Live
    <3>3. \A g : Lone(g)' = Lone(g) /\ task'[g] = task[g]
      BY <2>1, <2>3 DEF Lone
    <3> QED BY <2>1, <2>3, <3>1, <3>2, <3>3 DEF Hopeful
  <2>5. Ledger'
    BY <1>1, <2>1, <2>3, <2>4 DEF Ledger, PaidFor
  <2> QED BY <2>2, <2>5 DEF HistoryInv
<1>3. CASE Next
  <2>1. PICK h \in Handlers :
            \/ (OrgBegin(h) \/ OrgProceed(h)) /\ UNCHANGED <<latest, failures, edited>>
            \/ EmployeeBegin(h) \/ EmployeeProceed(h)
            \/ Fail(h)
    BY <1>3 DEF Next
  <2>2. ASSUME NEW n, Asked(n), Arrive(h, n), latest' = latest
        PROVE  /\ Begun' /\ Leaves(h)
               /\ Saving(n) /\ (Quiet \/ Alone) => Quiet'
    <3>1. Leaves(h) /\ (Saving(n) /\ (Quiet \/ Alone) => Quiet')
      BY <1>1, <2>2, ArriveKeeps
    <3>2. task'[h] = n /\ n.at # "history"
      BY <1>1, <2>2, AskedTyped, TaskStages
         DEF Arrive, Continue, Typed, Saving, Removing
    <3> QED BY <1>1, <2>2, <3>1, <3>2, BegunKept
  <2>3. CASE OrgBegin(h) /\ UNCHANGED <<latest, failures, edited>>
    <3>1. PICK n : OrgAsked(n) /\ Arrive(h, n)
      BY <1>1, <2>3, OrgAsks DEF OrgBegin
    <3>2. Asked(n) /\ n.id \notin Employees
      <4>1. CASE OrgCopy(n)
        BY <4>1 DEF OrgCopy, Asked
      <4>2. CASE NewRemoval(n)
        BY <4>2 DEF NewRemoval, Removes, Lasting, Asked
      <4>3. CASE FindsChild(n)
        BY <4>3, EmployeeFacts DEF FindsChild, Asked
      <4> QED BY <3>1, <4>1, <4>2, <4>3 DEF OrgAsked
    <3>3. Begun' /\ Leaves(h)
      BY <2>2, <2>3, <3>1, <3>2
    <3>4. Ledger'
      BY <1>1, <2>3, <3>1, <3>2, <3>3, LedgerOther
    <3> QED BY <3>3, <3>4 DEF HistoryInv
  <2>4. CASE EmployeeBegin(h)
    <3>1. /\ \E n : EmployeeAsked(n) /\ Arrive(h, n)
          /\ UNCHANGED <<latest, failures>> /\ edited \subseteq edited'
      BY <1>1, <2>4, EmployeeAsks DEF EmployeeBegin, Recorded
    <3>2. PICK n : NewCopy(n) /\ Announces(n) /\ Arrive(h, n)
      BY <3>1 DEF EmployeeAsked
    <3>3. Asked(n) /\ Saving(n)
      BY <3>2 DEF Asked, NewCopy, Copies, Saving
    <3>4. Begun' /\ Leaves(h) /\ (Quiet \/ Alone => Quiet')
      BY <2>2, <3>1, <3>2, <3>3
    <3>5. Ledger'
      BY <1>1, <3>1, <3>2, <3>4, LedgerEmployee
    <3> QED BY <3>4, <3>5 DEF HistoryInv
  <2>5. CASE OrgProceed(h) /\ UNCHANGED <<latest, failures, edited>>
    <3>1. CASE FindNext(h) \/ FindExisting(h) \/ FindChild(h) \/ Count(h)
      <4>1. \E n : Progress(task[h], n) /\ Read(h, n)
        BY <1>1, <3>1, FindNextProgress, FindExistingProgress, FindChildProgress, CountProgress
      <4>2. Begun'
        BY <1>1, <2>5, <4>1, BegunRead
      <4>3. Ledger'
        BY <1>1, <2>5, <3>1, LedgerFinds, LedgerElse
      <4> QED BY <4>2, <4>3 DEF HistoryInv
    <3>2. CASE Save(h)
      <4>1. PICK t, n : t = task[h] /\ n = task'[h]
        OBVIOUS
      <4>2. t.at = "save" /\ Copies(t) /\ t.id \in Ids
        BY <1>1, <3>2, <4>1, TaskStages DEF Typed, Save, At, Copies
      <4>3. Leaves(h)
        BY <1>1, <3>2, SaveKeeps
      <4>4. n.at = "history" => rows'[n.id] # None
        <5> SUFFICES ASSUME n.at = "history" PROVE rows'[n.id] # None
          OBVIOUS
        <5>1. CASE ~Unique(t.id, t.row)
          BY <1>1, <3>2, <4>1, <5>1 DEF Save, Read, Continue, Typed, Idle
        <5>2. CASE Unique(t.id, t.row)
          <6>1. /\ n = IF t.entries = <<>> THEN Idle
                       ELSE [at |-> "history", id |-> t.id, entries |-> t.entries]
                /\ rows'[t.id] = Written(t.id, t.row)
            BY <1>1, <3>2, <4>1, <4>2, <5>2 DEF Save, Write, Continue, Typed
          <6>2. n.id = t.id
            BY <6>1 DEF Idle
          <6>3. PICK id, row : id \in Ids /\ id = t.id /\ row = t.row
            BY <4>2
          <6>4. IsRow(id, Written(id, row))
            BY <1>1, <4>2, <6>3, WrittenRow DEF Copies, Typed
          <6>5. Written(id, row) # None
            BY <6>3, <6>4, RowFacts
          <6> QED BY <6>1, <6>2, <6>3, <6>5
        <5> QED BY <5>1, <5>2
      <4>5. Begun'
        BY <1>1, <2>5, <4>1, <4>3, <4>4, BegunKept
      <4>6. Ledger'
        BY <1>1, <2>5, <3>2, LedgerSaves
      <4> QED BY <4>5, <4>6 DEF HistoryInv
    <3>3. CASE Delete(h)
      <4>1. Leaves(h)
        BY <1>1, <3>3, DeleteKeeps
      <4>2. task'[h] = Idle /\ Idle.at # "history"
        BY <1>1, <3>3 DEF Delete, Write, Continue, Typed, Idle
      <4>3. Begun'
        BY <1>1, <2>5, <4>1, <4>2, BegunKept
      <4>4. Ledger'
        BY <1>1, <2>5, <3>3, LedgerDeletes
      <4> QED BY <4>3, <4>4 DEF HistoryInv
    <3> QED BY <2>5, <3>1, <3>2, <3>3 DEF OrgProceed
  <2>6. CASE EmployeeProceed(h)
    <3>1. \E n : Progress(task[h], n) /\ Read(h, n)
      BY <1>1, <2>6, HistoryProgress DEF EmployeeProceed, Recorded
    <3>2. \A e \in Employees : latest'[e] = latest[e] \/ rows[e] # None
      <4>1. CASE HistoryFind(h)
        BY <4>1 DEF HistoryFind
      <4>2. CASE HistorySave(h)
        <5>1. \A e \in Employees : e # task[h].id => latest'[e] = latest[e]
          BY <1>1, <4>2 DEF HistorySave, Recorded
        <5>2. rows[task[h].id] # None
          BY <1>1, <4>2 DEF HistorySave, Begun
        <5> QED BY <5>1, <5>2
      <4> QED BY <2>6, <4>1, <4>2 DEF EmployeeProceed
    <3>3. Begun'
      BY <1>1, <3>1, <3>2, BegunRead
    <3>4. Ledger'
      BY <1>1, <2>6, LedgerLooks, LedgerRecords DEF EmployeeProceed
    <3> QED BY <3>3, <3>4 DEF HistoryInv
  <2>7. CASE Fail(h)
    <3>1. /\ Read(h, Idle) /\ failures' = failures + 1 /\ UNCHANGED <<latest, edited>>
          /\ Busy(h)
      BY <2>7 DEF Fail, At, Busy
    <3>2. Progress(task[h], Idle)
      BY StopsProgress
    <3>3. Leaves(h) /\ UNCHANGED <<rows, overlaps>>
      BY <1>1, <3>1, <3>2, ReadKeeps
    <3>4. Begun'
      BY <1>1, <3>1, <3>2, BegunRead
    <3>5. task'[h] = Idle
      BY <1>1, <3>1 DEF Read, Continue, Typed
    <3>6. Ledger'
      BY <1>1, <3>1, <3>3, <3>5, LedgerFail
    <3> QED BY <3>4, <3>6 DEF HistoryInv
  <2> QED BY <2>1, <2>3, <2>4, <2>5, <2>6, <2>7
<1> QED BY <1>2, <1>3

\* The invariant of the proofs holds in every state of the organisation and its employees.
THEOREM Invariance == Spec => []IInv
<1>1. Init => IInv
  BY InitKeeps
<1>2. IInv /\ [Next]_vars => IInv'
  BY NextKeeps
<1> QED BY <1>1, <1>2, PTL DEF Spec

\* The rows of every table keep their columns and the values of their entity, saves of partial
\* copies included, and each handler stops only where one of the routes does.
THEOREM TypeCorrect == Spec => []TypeOK
<1>1. IInv => TypeOK
  <2> SUFFICES ASSUME IInv PROVE TypeOK
    OBVIOUS
  <2>1. Typed /\ Counts /\ Recorded
    BY DEF IInv
  <2>2. RowsTyped(rows)
    BY <2>1, Typing DEF Typed, Stored
  <2>3. \A h \in Handlers :
            /\ task[h].at \in {"idle", "find", "existing", "child", "save", "count", "delete",
                               "history"}
            /\ ~At(h, "idle") => task[h].id \in Ids
    BY <2>1, TaskStages DEF Typed, At
  <2> QED BY <2>1, <2>2, <2>3 DEF TypeOK, Counts, Recorded
<1> QED BY <1>1, Invariance, PTL

\* However many remove routes count and mark while other routes look up and save, the rows in
\* use that refer to a deleted one are at most two for each request that overlapped another.
THEOREM FewDangling == Spec => []NoDangling
<1>1. IInv => NoDangling
  <2> SUFFICES ASSUME IInv PROVE NoDangling
    OBVIOUS
  <2>1. Books /\ overlaps \in Nat
    BY DEF IInv, Counts
  <2>2. Dangling(rows) \subseteq Lost
    <3>1. ASSUME NEW pair \in Dangling(rows) PROVE pair \in Lost
      BY <3>1 DEF Dangling, Lost, Live, Deleted, Referring
    <3> QED BY <3>1
  <2>3. /\ Cardinality(Dangling(rows)) <= Cardinality(Lost)
        /\ Cardinality(Dangling(rows)) \in Nat /\ Cardinality(Lost) \in Nat
    BY <2>1, <2>2, SubsetCards DEF Books
  <2>4. Cardinality(Savers) \in Nat
    BY <2>1, FS_CardinalityType DEF Books
  <2> QED BY <2>1, <2>3, <2>4 DEF NoDangling, Books, Charged, Calm
<1> QED BY <1>1, Invariance, PTL

\* No update route, nor the one that assigns a department, brings a removed row back unless
\* requests overlap.
THEOREM DeletionIsFinal == Spec => DeletedStayDeleted
<1>1. ASSUME IInv, [Next]_vars
      PROVE  [(\E id \in Ids : rows[id] # None /\ ~rows[id].live /\ rows'[id].live)
                  => overlaps > 0]_vars
  <2>1. \A id \in Ids : overlaps = 0 /\ Deleted(id) => Deleted(id)'
    BY <1>1, NextKeeps
  <2>2. overlaps \in Nat
    BY <1>1 DEF IInv, Counts
  <2> QED BY <2>1, <2>2 DEF Deleted
<1> QED BY <1>1, Invariance, PTL DEF Spec, DeletedStayDeleted

\* What the ledger of histories pays for holds in every state.
THEOREM HistoryInvariance == Spec => []HistoryInv
<1>1. Init => HistoryInv
  BY HistoryInit
<1>2. IInv /\ HistoryInv /\ [Next]_vars => HistoryInv'
  BY HistoryNext
<1> QED BY <1>1, <1>2, Invariance, PTL DEF Spec

\* However requests about employees overlap with each other and with removals, and whichever
\* handlers die between the save of a row and its entries, at most three histories disagree
\* with their rows for each overlap and each death.
THEOREM HistoriesTold == Spec => []HistoriesAgree
<1>1. IInv /\ HistoryInv => HistoriesAgree
  <2> SUFFICES ASSUME IInv, HistoryInv PROVE HistoriesAgree
    OBVIOUS
  <2>1. Ledger /\ overlaps \in Nat /\ failures \in Nat
    BY DEF HistoryInv, IInv, Counts
  <2> DEFINE explained == {pair \in edited \X Histories : pair[2] = "status"}
             wrong == {pair \in (Employees \X Histories) \ explained :
                          Settled(pair[1]) /\ Disagrees(pair[1], pair[2])}
  <2>2. wrong \subseteq Bad \X Histories
    <3>1. ASSUME NEW pair \in wrong PROVE pair \in Bad \X Histories
      <4>1. PICK e \in Employees, k \in Histories : pair = <<e, k>> /\ pair[1] = e /\ pair[2] = k
        BY <3>1
      <4>2. pair \notin explained /\ Settled(e) /\ Disagrees(e, k)
        BY <3>1, <4>1
      <4>3. ~Explained(e, k)
        BY <4>1, <4>2 DEF Explained
      <4>4. ~Agrees(latest[e][k], rows[e][k]) /\ rows[e] # None /\ ~Settling(e)
        BY <4>2 DEF Disagrees, Agrees, Settled, Settling, At, Busy
      <4> QED BY <4>1, <4>3, <4>4 DEF Bad, Wrong
    <3> QED BY <3>1
  <2>3. IsFiniteSet(Histories) /\ Cardinality(Histories) = 3
    <3>1. Cardinality({"department", "branch", "status"}) = 3
          /\ IsFiniteSet({"department", "branch", "status"})
      <4>1. IsFiniteSet({"department"}) /\ Cardinality({"department"}) = 1
        BY FS_Singleton
      <4>2. /\ IsFiniteSet({"department"} \cup {"branch"})
            /\ Cardinality({"department"} \cup {"branch"}) = 2
        BY <4>1, FS_AddElement
      <4>3. /\ IsFiniteSet({"department"} \cup {"branch"} \cup {"status"})
            /\ Cardinality({"department"} \cup {"branch"} \cup {"status"}) = 3
        BY <4>2, FS_AddElement
      <4>4. {"department"} \cup {"branch"} \cup {"status"} = {"department", "branch", "status"}
        OBVIOUS
      <4> QED BY <4>3, <4>4
    <3> QED BY <3>1 DEF Histories
  <2>4. /\ IsFiniteSet(Bad) /\ IsFiniteSet(Workers)
        /\ Cardinality(Bad) \in Nat /\ Cardinality(Workers) \in Nat
        /\ Workers # {} => Cardinality(Workers) # 0
    BY <2>1, FS_CardinalityType, FS_EmptySet DEF Ledger
  <2>5. Cardinality(Bad) <= overlaps + failures
    BY <2>1, <2>4 DEF Ledger, PaidFor, Hopeful
  <2>6. /\ IsFiniteSet(Bad \X Histories)
        /\ Cardinality(Bad \X Histories) = Cardinality(Bad) * 3
    BY <2>3, <2>4, FS_Product
  <2>7. Cardinality(wrong) <= Cardinality(Bad \X Histories)
    BY <2>2, <2>6, SubsetCards
  <2>8. PICK b, w, p : b = Cardinality(Bad) /\ w = Cardinality(wrong)
                       /\ p = Cardinality(Bad \X Histories)
    OBVIOUS
  <2>9. IsFiniteSet(wrong) /\ w \in Nat /\ p \in Nat /\ b \in Nat
    BY <2>2, <2>4, <2>6, <2>8, SubsetCards
  <2> HIDE DEF wrong
  <2>10. w <= 3 * (overlaps + failures)
    BY <2>1, <2>5, <2>6, <2>7, <2>8, <2>9
  <2> USE DEF wrong
  <2> QED BY <2>3, <2>8, <2>10 DEF HistoriesAgree
<1> QED BY <1>1, Invariance, HistoryInvariance, PTL
=============================================================================
